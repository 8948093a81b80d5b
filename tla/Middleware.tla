----------------------------- MODULE Middleware -----------------------------
(***************************************************************************)
(* Replicas of the server guarding tools/call and resources/read:          *)
(* governance/middleware.py, with the boundary that unseals request state  *)
(* before it, the audit stream it writes and the handler it calls.         *)
(*                                                                         *)
(* The middleware has no await between reading the request and calling the *)
(* handler, so serving a request is one step; what interleaves are whole   *)
(* requests at any replica, restarts with another environment, people      *)
(* answering, and time.  Nothing is consumed when a request is served: the *)
(* same retry may be sent again, later, elsewhere, with other arguments or *)
(* by another caller.  The client is trusted to relay a person's answer    *)
(* only with the question it answers (approval.py, "What is still          *)
(* trusted").                                                              *)
(***************************************************************************)
EXTENDS Policy, RequestState, Approval

CONSTANTS
    Replicas,
    Callers,        \* the (client, issuer, subject) triples of the tokens
    Arguments,      \* digests of tool arguments
    Nonces,         \* what tells one question from another
    Configs,        \* environments and policies a process may be started with
    HumanAnswers,   \* the answers people give
    Down,           \* no process is serving
    NoQuestion      \* this nonce has not been drawn

Entries == {"tools/call", "resources/read", "approval"}
               \X {"allow", "deny", "pending"}

Responses == {"passed", "asked", "refused", "rejected", "shadowed"}

ASSUME ConfigsAssumption ==
    \A config \in Configs :
        /\ IsDocument(config.policy)
        /\ config.env \in EnvValue
        /\ config.enforce \in BOOLEAN
        /\ config.complete \in BOOLEAN

ASSUME SentinelsAssumption ==
    /\ HumanAnswers \subseteq Answer
    /\ NoState \notin Nonces

VARIABLES
    proc,     \* per replica: the ring, the policy and `enforce` it runs with
    drawn,    \* process-local keys drawn so far
    now,
    sealed,   \* per nonce: the state sealed for the client to bring back
    human,    \* per nonce: what the person asked has answered
    runs,     \* the tool calls passed on to the handler
    audit,    \* per method and outcome: how many records were written
    served    \* how many requests were answered in each way

vars == <<proc, drawn, now, sealed, human, runs, audit, served>>

Process == [ring    : Seq(AnyKey) \ {<<>>},
            policy  : {config.policy : config \in Configs},
            enforce : BOOLEAN]

Sealed == [key : AnyKey, caller : Callers, tool : Tools, args : Arguments,
           minted : Nat]

Request == [caller : Callers, tool : Tools, args : Arguments,
            roles : SUBSET Roles, state : Nonces \cup {NoState},
            answers : Answer \cup {NoAnswers, OtherAnswers}]

Init ==
    /\ proc = [r \in Replicas |-> Down]
    /\ drawn = 0
    /\ now = 0
    /\ sealed = [n \in Nonces |-> NoQuestion]
    /\ human = [n \in Nonces |-> NoAnswers]
    /\ runs = {}
    /\ audit = [e \in Entries |-> 0]
    /\ served = [w \in Responses |-> 0]

-----------------------------------------------------------------------------
(* The environment.                                                        *)

\* A process replaces whatever the replica ran.  It refuses to start with a
\* policy or a key that does not load, and without the settings its options
\* ask for (`complete`): a tenant id for Entra, credentials for a live
\* ServiceNow.  Every process here has the middleware; one started with auth
\* off or with no policy has none, and nothing below is about it.
Starts(config) ==
    config.complete /\ Loads(config.policy) /\ LoadsKeys(config.env)

Start(r, config) ==
    /\ proc' = [proc EXCEPT ![r] =
           IF Starts(config)
           THEN [ring    |-> Ring(config.env, drawn),
                 policy  |-> config.policy,
                 enforce |-> config.enforce]
           ELSE Down]
    /\ drawn' = IF Starts(config) /\ config.env = <<>> THEN drawn + 1 ELSE drawn
    /\ UNCHANGED <<now, sealed, human, runs, audit, served>>

Tick ==
    /\ now' = now + 1
    /\ UNCHANGED <<proc, drawn, sealed, human, runs, audit, served>>

Asked == {n \in Nonces : sealed[n] # NoQuestion}

AnswerQuestion(n, answer) ==
    /\ n \in Asked
    /\ human[n] = NoAnswers
    /\ human' = [human EXCEPT ![n] = answer]
    /\ UNCHANGED <<proc, drawn, now, sealed, runs, audit, served>>

\* The state and the answers a client may put into a request.  A request has
\* one state: the middleware reads either spelling of the field, and the SDK's
\* boundary is taken to unseal whichever the client used.
Relayed ==
    ({NoState} \X (HumanAnswers \cup {NoAnswers, OtherAnswers}))
        \cup {relay \in Asked \X (HumanAnswers \cup {NoAnswers, OtherAnswers}) :
                  relay[2] \in {NoAnswers, OtherAnswers, human[relay[1]]}}

-----------------------------------------------------------------------------
(* Auditing.                                                               *)

\* The mutant drops the override: a pending approval counts as a denial.
MUT_NoOverride(override, allowed) == IF allowed THEN "allow" ELSE "deny"

Outcome(override, allowed) ==
    IF override # "" THEN override ELSE IF allowed THEN "allow" ELSE "deny"

DecisionEntry(method, decision) == <<method, Outcome("", decision.allowed)>>

ApprovalEntry(outcome) == <<"approval", Outcome(outcome, outcome = "allow")>>

Record(entries) ==
    audit' = [e \in Entries |-> audit[e] + IF e \in entries THEN 1 ELSE 0]

Respond(ways) ==
    served' = [w \in Responses |-> served[w] + IF w \in ways THEN 1 ELSE 0]

-----------------------------------------------------------------------------
(* tools/call.                                                             *)

PassesBoundary(r, req) ==
    req.state # NoState =>
        Unseals(proc[r].ring, sealed[req.state], req.caller, req.tool, req.args, now)

Decision(r, req) == DecideTool(proc[r].policy, req.tool, req.roles)

\* _raise_if_denied returns.
Admitted(r, decision) == decision.allowed \/ ~proc[r].enforce

Gated(r, req) == Decision(r, req).requires_approval /\ proc[r].enforce

\* What it takes to reach the handler.
PassesGate(r, req) ==
    /\ PassesBoundary(r, req)
    /\ Admitted(r, Decision(r, req))
    /\ Gated(r, req) => Approved(req.state, req.answers)

\* In shadow mode the handler is called although the policy says no.
PassedAs(decision) == IF decision.allowed THEN {"passed"} ELSE {"passed", "shadowed"}

RejectState(r, req) ==
    /\ proc[r] # Down
    /\ ~PassesBoundary(r, req)
    /\ Respond({"rejected"})
    /\ UNCHANGED <<proc, drawn, now, sealed, human, runs, audit>>

Deny(r, req) ==
    /\ proc[r] # Down
    /\ PassesBoundary(r, req)
    /\ ~Admitted(r, Decision(r, req))
    /\ Record({DecisionEntry("tools/call", Decision(r, req))})
    /\ Respond({"refused"})
    /\ UNCHANGED <<proc, drawn, now, sealed, human, runs>>

Ask(r, req, n) ==
    /\ proc[r] # Down
    /\ PassesBoundary(r, req)
    /\ Admitted(r, Decision(r, req))
    /\ Gated(r, req)
    /\ req.answers = NoAnswers
    /\ sealed[n] = NoQuestion
    /\ sealed' = [sealed EXCEPT ![n] =
           Seal(proc[r].ring, req.caller, req.tool, req.args, now)]
    /\ Record({DecisionEntry("tools/call", Decision(r, req)), ApprovalEntry("pending")})
    /\ Respond({"asked"})
    /\ UNCHANGED <<proc, drawn, now, human, runs>>

RefuseApproval(r, req) ==
    /\ proc[r] # Down
    /\ PassesBoundary(r, req)
    /\ Admitted(r, Decision(r, req))
    /\ Gated(r, req)
    /\ req.answers # NoAnswers
    /\ ~Approved(req.state, req.answers)
    /\ Record({DecisionEntry("tools/call", Decision(r, req)), ApprovalEntry("deny")})
    /\ Respond({"refused"})
    /\ UNCHANGED <<proc, drawn, now, sealed, human, runs>>

\* The mutant trusts an approved retry without deciding again.
MUT_RunUndecided(r, req) ==
    /\ proc[r] # Down
    /\ PassesBoundary(r, req)
    /\ \/ Admitted(r, Decision(r, req)) /\ ~Gated(r, req)
       \/ Approved(req.state, req.answers)
    /\ runs' = runs \cup {[req |-> req, by |-> proc[r], at |-> now]}
    /\ Record({DecisionEntry("tools/call", Decision(r, req))})
    /\ Respond(PassedAs(Decision(r, req)))
    /\ UNCHANGED <<proc, drawn, now, sealed, human>>

Run(r, req) ==
    /\ proc[r] # Down
    /\ PassesGate(r, req)
    /\ runs' = runs \cup {[req |-> req, by |-> proc[r], at |-> now]}
    /\ Record({DecisionEntry("tools/call", Decision(r, req))}
                  \cup IF Gated(r, req) THEN {ApprovalEntry("allow")} ELSE {})
    /\ Respond(PassedAs(Decision(r, req)))
    /\ UNCHANGED <<proc, drawn, now, sealed, human>>

-----------------------------------------------------------------------------
(* resources/read: decided and audited, never held for approval.           *)

ReadResource(r, uri, roles) ==
    LET decision == DecideResource(proc[r].policy, uri, roles)
    IN  /\ proc[r] # Down
        /\ Record({DecisionEntry("resources/read", decision)})
        /\ Respond(IF Admitted(r, decision) THEN PassedAs(decision) ELSE {"refused"})
        /\ UNCHANGED <<proc, drawn, now, sealed, human, runs>>

-----------------------------------------------------------------------------
(* tools/list: changes nothing; what is left of the tools on offer.        *)

Listed(r, offered, roles) ==
    IF proc[r].enforce THEN offered \cap VisibleTools(proc[r].policy, roles)
    ELSE offered

-----------------------------------------------------------------------------
ToolCall(r, req) ==
    \/ RejectState(r, req)
    \/ Deny(r, req)
    \/ \E n \in Nonces : Ask(r, req, n)
    \/ RefuseApproval(r, req)
    \/ Run(r, req)

Deploy == \E r \in Replicas, config \in Configs : Start(r, config)

Answering == \E n \in Nonces, answer \in HumanAnswers : AnswerQuestion(n, answer)

Calling ==
    \E r \in Replicas, caller \in Callers, tool \in Tools, args \in Arguments,
       roles \in SUBSET Roles, relay \in Relayed :
        ToolCall(r, [caller |-> caller, tool |-> tool, args |-> args, roles |-> roles,
                     state |-> relay[1], answers |-> relay[2]])

Reading ==
    \E r \in Replicas, uri \in Uris, roles \in SUBSET Roles : ReadResource(r, uri, roles)

Next == Deploy \/ Tick \/ Answering \/ Calling \/ Reading

Spec == Init /\ [][Next]_vars

-----------------------------------------------------------------------------
(* Properties.                                                             *)

TypeOK ==
    /\ proc \in [Replicas -> Process \cup {Down}]
    /\ drawn \in Nat
    /\ now \in Nat
    /\ sealed \in [Nonces -> Sealed \cup {NoQuestion}]
    /\ human \in [Nonces -> HumanAnswers \cup {NoAnswers}]
    /\ runs \subseteq [req : Request, by : Process, at : Nat]
    /\ audit \in [Entries -> Nat]
    /\ served \in [Responses -> Nat]

\* The decision of the process that ran the call, on the roles of that call.
RunDecision(run) == DecideTool(run.by.policy, run.req.tool, run.req.roles)

GatedRun(run) == run.by.enforce /\ RunDecision(run).requires_approval

SaidYes(n) == human[n] = Yes

CallOf(req) == [caller |-> req.caller, tool |-> req.tool, args |-> req.args]

\* Somebody said yes to the question put for this very call, and the question
\* was put less than TTL before the run.
ConsentedRun(run) ==
    \E n \in Asked :
        /\ SaidYes(n)
        /\ CallOf(sealed[n]) = CallOf(run.req)
        /\ sealed[n].minted <= run.at
        /\ run.at - sealed[n].minted < TTL

\* Whatever restarts, key changes, repeated, late, misdirected or altered
\* retries come between: an enforcing process has called the handler of a tool
\* only for a caller whose token then granted it under the policy then in
\* force, and, where that policy asks for approval, only with a fresh yes to
\* that very call (middleware._guard_tool_call, approval.check).
EnforcedRunsAreJustified ==
    \A run \in runs :
        /\ run.by.enforce => RunDecision(run).allowed
        /\ GatedRun(run) => ConsentedRun(run)

\* The audit stream adds up.  Every call or read that reached the middleware
\* left one decision; every question one pending record; and the denials are
\* the refusals the callers got, plus what shadow mode let through: a pending
\* approval counts as no denial, and none is counted twice (audit.record,
\* "make the denial rate meaningless").
AuditBalances ==
    /\ audit[<<"tools/call", "allow">>] + audit[<<"tools/call", "deny">>]
           + audit[<<"resources/read", "allow">>] + audit[<<"resources/read", "deny">>]
       = served["passed"] + served["asked"] + served["refused"]
    /\ audit[<<"approval", "pending">>] = served["asked"]
    /\ audit[<<"tools/call", "deny">>] + audit[<<"resources/read", "deny">>]
           + audit[<<"approval", "deny">>]
       = served["refused"] + served["shadowed"]

\* Discovery and enforcement agree, in shadow mode too: a caller is shown
\* exactly the tools whose call would not be denied (visible_tools, "plan
\* around a call that will always be refused", against decide_tool).
ListedIffAdmitted ==
    \A r \in Replicas, roles \in SUBSET Roles, tool \in Tools :
        proc[r] # Down =>
            (tool \in Listed(r, Tools, roles)
                <=> Admitted(r, DecideTool(proc[r].policy, tool, roles)))

\* Whatever document a replica is started with, none is ever in force with "a
\* rule that can never match" and "looks like a working deny" (policy.py, "Fail
\* fast"): a tool granted to anybody is granted to holders of a role of that
\* document, and nobody without one can read a resource or has ever called a
\* tool.
GrantsAreDeclared ==
    /\ \A r \in Replicas : proc[r] # Down =>
           LET doc == proc[r].policy
           IN  \A tool \in DOMAIN doc.tools : doc.tools[tool].allow_roles # {} =>
                   \E role \in doc.declared : DecideTool(doc, tool, {role}).allowed
    /\ \A r \in Replicas, uri \in Uris, roles \in SUBSET Roles :
           /\ proc[r] # Down
           /\ DecideResource(proc[r].policy, uri, roles).allowed
           => roles \cap proc[r].policy.declared # {}
    /\ \A run \in runs :
           run.by.enforce => run.req.roles \cap run.by.policy.declared # {}

\* The gate keeps the promise stated in Consent.
Promise == INSTANCE Consent WITH
    Calls     <- [caller : Callers, tool : Tools, args : Arguments],
    agreed    <- {[call |-> CallOf(sealed[n]), asked |-> sealed[n].minted] :
                      n \in {m \in Asked : SaidYes(m)}},
    performed <- {[call |-> CallOf(run.req), at |-> run.at] :
                      run \in {x \in runs : GatedRun(x)}},
    clock     <- now

KeepsPromise == Promise!Spec

\* "Approval says a human has agreed to this particular instance of it"
\* (policy.py:46): one yes lets the handler be called once.
OneRunPerApproval ==
    \A x, y \in runs :
        GatedRun(x) /\ GatedRun(y) /\ x.req.state = y.req.state => x = y
=============================================================================
