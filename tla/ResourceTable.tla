---------------------------- MODULE ResourceTable ----------------------------
(***************************************************************************)
(* The resources section of the policy while people edit it: which rule    *)
(* decides about a URI (policy.py, _parse_rules and _resource_rule), and   *)
(* what an edit of the file can change.                                    *)
(*                                                                         *)
(* URIs and patterns are sequences of characters; of what fnmatch knows,   *)
(* character classes are left out.  The file is a mapping: an ordered      *)
(* table without two entries for one pattern.                              *)
(***************************************************************************)
EXTENDS Policy, FiniteSets

CONSTANTS
    Characters,
    Patterns,   \* what people write on the left
    Rules,      \* what they write on the right
    Star, One   \* "*" and "?"

ASSUME PatternsAssumption ==
    /\ Uris \subseteq Seq(Characters)
    /\ Patterns \subseteq Seq(Characters \cup {Star, One})
    /\ Star # One
    /\ Rules \subseteq Rule

VARIABLE table   \* the entries in the order of the file

Entries == [pattern : Patterns, rule : Rules]

\* fnmatchcase: the URI can be cut into pieces, one for each character of the
\* pattern: anything for "*", any one character for "?", itself for any other.
Matches(pattern, uri) ==
    \E cut \in [0..Len(pattern) -> 0..Len(uri)] :
        /\ cut[0] = 0 /\ cut[Len(pattern)] = Len(uri)
        /\ \A i \in 1..Len(pattern) :
               \/ pattern[i] = Star /\ cut[i - 1] <= cut[i]
               \/ cut[i] = cut[i - 1] + 1 /\ pattern[i] \in {One, uri[cut[i]]}

MatchSet[p \in Patterns] == {u \in Uris : Matches(p, u)}

\* The document the server loads.
Document(entries) ==
    [version   |-> 1, default |-> "deny", declared |-> Roles,
     tools     |-> [t \in {} |-> {}],
     resources |-> [i \in DOMAIN entries |->
                       [length  |-> Len(entries[i].pattern),
                        matches |-> MatchSet[entries[i].pattern],
                        rule    |-> entries[i].rule]]]

Init == table = <<>>

Insert(at, entry) ==
    /\ \A i \in DOMAIN table : table[i].pattern # entry.pattern
    /\ table' = SubSeq(table, 1, at) \o <<entry>> \o SubSeq(table, at + 1, Len(table))

Delete(at) ==
    table' = SubSeq(table, 1, at - 1) \o SubSeq(table, at + 1, Len(table))

Next ==
    \/ \E at \in 0..Len(table), entry \in Entries : Insert(at, entry)
    \/ \E at \in DOMAIN table : Delete(at)

Spec == Init /\ [][Next]_table

-----------------------------------------------------------------------------
(* Properties.                                                             *)

Decide(entries, uri, roles) == DecideResource(Document(entries), uri, roles)

Deciding(entries, uri) == ResourceRule(Document(entries), uri)

\* The entries whose pattern matches, and where they are.
Applying(entries, uri) ==
    {entries[i] : i \in {j \in DOMAIN entries : uri \in MatchSet[entries[j].pattern]}}

Matching(uri) == {i \in DOMAIN table : uri \in MatchSet[table[i].pattern]}

\* An edit changes nothing for a URI that the edited pattern does not match
\* (_resource_rule, which skips a pattern that does not match, however long).
EditsAreLocal ==
    [][\A uri \in Uris, roles \in SUBSET Roles :
           Applying(table', uri) = Applying(table, uri)
               => Decide(table', uri, roles) = Decide(table, uri, roles)]_table

IsPrefix(p) ==
    /\ p # <<>> /\ p[Len(p)] = Star
    /\ \A i \in 1..(Len(p) - 1) : p[i] \notin {Star, One}

Extends(p, q) == SubSeq(p, 1, Len(q) - 1) = SubSeq(q, 1, Len(q) - 1)

\* Where every pattern that matches is a path followed by "*", the rule of the
\* deepest path decides, wherever it is in the file (_resource_rule,
\* "`shipment://eu/*` wins over `shipment://*` regardless of the order").
DeepestPathDecides ==
    \A uri \in Uris :
        (\A i \in Matching(uri) : IsPrefix(table[i].pattern)) =>
            /\ Cardinality(Deciding(table, uri)) = IF Matching(uri) = {} THEN 0 ELSE 1
            /\ \A i \in Deciding(table, uri), j \in Matching(uri) :
                   Extends(table[i].pattern, table[j].pattern)

Tied(uri) ==
    \E i, j \in Matching(uri) :
        i # j /\ Len(table[i].pattern) = Len(table[j].pattern)

Reversed == [i \in DOMAIN table |-> table[Len(table) + 1 - i]]

\* The order of the file decides between patterns of one length, and nothing
\* else (_resource_rule, the stable sort by length).
OrderBreaksTiesOnly ==
    \A uri \in Uris, roles \in SUBSET Roles :
        ~Tied(uri) => Decide(Reversed, uri, roles) = Decide(table, uri, roles)

\* "Resource URIs match by glob, most specific pattern first" (policy.yaml:100).
MostSpecificDecides ==
    \A uri \in Uris :
        \A i \in Deciding(table, uri), j \in Matching(uri) :
            ~(MatchSet[table[j].pattern] \subseteq MatchSet[table[i].pattern]
                  /\ MatchSet[table[j].pattern] # MatchSet[table[i].pattern])
=============================================================================
