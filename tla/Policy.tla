------------------------------- MODULE Policy -------------------------------
(***************************************************************************)
(* The authorization policy: governance/policy.py.                         *)
(*                                                                         *)
(* A document is what `Policy.from_mapping` is handed: its version, its    *)
(* default, the declared roles and two tables of rules.  `Loads` says      *)
(* which documents the server starts with; the decision operators answer   *)
(* for a loaded one.  Descriptions and prompts decide nothing and are left *)
(* out.  A resource pattern is abstracted to its length and to the set of  *)
(* URIs it matches, which is all `_resource_rule` looks at.                *)
(***************************************************************************)
EXTENDS Naturals, Sequences

CONSTANTS
    Roles,   \* app roles a token or a rule may name
    Tools,   \* names a tools/call request may carry, registered or not
    Uris     \* URIs a resources/read request may carry

Classifications == {"public", "internal", "confidential", "restricted"}

Rule == [allow_roles : SUBSET Roles, requires_approval : BOOLEAN,
         classification : STRING]

\* The document's tools section maps some of the tools to rules; its
\* resources section is a sequence, in the order of the file.
IsDocument(doc) ==
    /\ doc.declared \subseteq Roles
    /\ DOMAIN doc.tools \subseteq Tools
    /\ \A t \in DOMAIN doc.tools : doc.tools[t] \in Rule
    /\ doc.resources \in Seq([length : Nat, matches : SUBSET Uris, rule : Rule])

RulesOf(doc) ==
    {doc.tools[t] : t \in DOMAIN doc.tools}
        \cup {doc.resources[i].rule : i \in DOMAIN doc.resources}

-----------------------------------------------------------------------------
(* Loading.  Every other document raises PolicyError, and the server does  *)
(* not start.                                                              *)

\* The mutant does not look a rule's roles up among the declared ones.
MUT_AnyRole(doc) ==
    /\ doc.version = 1
    /\ doc.default = "deny"
    /\ \A rule \in RulesOf(doc) : rule.classification \in Classifications

Loads(doc) ==
    /\ doc.version = 1
    /\ doc.default = "deny"
    /\ \A rule \in RulesOf(doc) :
           /\ rule.classification \in Classifications
           /\ rule.allow_roles \subseteq doc.declared

-----------------------------------------------------------------------------
(* Decisions.                                                              *)

DefaultDeny == [allowed |-> FALSE, requires_approval |-> FALSE]

Match(rule, roles) ==
    [allowed           |-> roles \cap rule.allow_roles # {},
     requires_approval |-> rule.requires_approval]

DecideTool(doc, tool, roles) ==
    IF tool \in DOMAIN doc.tools THEN Match(doc.tools[tool], roles)
    ELSE DefaultDeny

\* The mutant takes the first entry of the file that matches.
MUT_FirstInFile(doc, uri) ==
    {i \in DOMAIN doc.resources :
        /\ uri \in doc.resources[i].matches
        /\ \A j \in 1..(i - 1) : uri \notin doc.resources[j].matches}

\* This one looks at the longest pattern only.
MUT_LongestOnly(doc, uri) ==
    {i \in DOMAIN doc.resources :
        /\ uri \in doc.resources[i].matches
        /\ \A j \in DOMAIN doc.resources :
               \/ doc.resources[j].length < doc.resources[i].length
               \/ doc.resources[j].length = doc.resources[i].length /\ i <= j}

\* This one sorts the wrong way round.
MUT_ShortestFirst(doc, uri) ==
    LET matching == {i \in DOMAIN doc.resources : uri \in doc.resources[i].matches}
    IN  {i \in matching : \A j \in matching :
            \/ doc.resources[i].length < doc.resources[j].length
            \/ doc.resources[i].length = doc.resources[j].length /\ i <= j}

\* The longest matching pattern wins; `sorted` is stable, so among equally
\* long ones the first in the file does.
ResourceRule(doc, uri) ==
    LET matching == {i \in DOMAIN doc.resources : uri \in doc.resources[i].matches}
        wins(i)  == \A j \in matching :
                        \/ doc.resources[j].length < doc.resources[i].length
                        \/ doc.resources[j].length = doc.resources[i].length /\ i <= j
    IN  {i \in matching : wins(i)}

DecideResource(doc, uri, roles) ==
    IF ResourceRule(doc, uri) = {} THEN DefaultDeny
    ELSE Match(doc.resources[CHOOSE i \in ResourceRule(doc, uri) : TRUE].rule, roles)

\* The mutant lists whatever has an entry.
MUT_AllListed(doc, roles) == DOMAIN doc.tools

VisibleTools(doc, roles) ==
    {t \in DOMAIN doc.tools : roles \cap doc.tools[t].allow_roles # {}}
=============================================================================
