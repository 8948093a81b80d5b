---------------------------- MODULE RotatingGate -----------------------------
(***************************************************************************)
(* The approval gate of Middleware while KeyRotation goes on under it: the *)
(* replicas run with the rings of the rotation, one policy, and enforce    *)
(* it.  A step of the one is a step of the other or leaves it alone: a     *)
(* replica restarts with the environment of the phase, a question is a     *)
(* state sealed, and they share the clock.  Reads carry no state and are   *)
(* left out.                                                               *)
(***************************************************************************)
EXTENDS KeyRotation, Policy, Approval

CONSTANTS
    Callers, Arguments, Nonces, HumanAnswers, Down, NoQuestion,   \* of Middleware
    Shipped                                                       \* policy.yaml

ASSUME ShippedAssumption ==
    /\ IsDocument(Shipped)
    /\ Loads(Shipped)
    /\ NoState \notin Nonces
    /\ HumanAnswers \subseteq Answer

VARIABLES drawn, sealed, human, runs, audit, served   \* of Middleware

gateVars == <<drawn, sealed, human, runs, audit, served>>

With(env) ==
    [env |-> env, policy |-> Shipped, enforce |-> TRUE, complete |-> TRUE]

Gate == INSTANCE Middleware WITH
    proc    <- [r \in Replicas |->
                   [ring |-> ring[r], policy |-> Shipped, enforce |-> TRUE]],
    Configs <- {With(env) : env \in EnvValue}

RotatingInit ==
    /\ Init
    /\ drawn = 0
    /\ sealed = [n \in Nonces |-> NoQuestion]
    /\ human = [n \in Nonces |-> NoAnswers]
    /\ runs = {}
    /\ audit = [e \in Gate!Entries |-> 0]
    /\ served = [w \in Gate!Responses |-> 0]

\* The operator restarts one replica, or begins the next phase.
Restart(r) == Deploy(r) /\ Gate!Start(r, With(Environment))

TurnPhase ==
    /\ (\E key \in Keys : Generate(key)) \/ Switch \/ Drop \/ Finish \/ Rollback
    /\ UNCHANGED gateVars

\* A call that leaves no state.
Handle(r, req) ==
    /\ UNCHANGED vars
    /\ \/ Gate!RejectState(r, req)
       \/ Gate!Deny(r, req)
       \/ Gate!RefuseApproval(r, req)
       \/ Gate!Run(r, req)

Question(r, req, n) == SealState(r) /\ Gate!Ask(r, req, n)

Serve ==
    \E r \in Replicas, caller \in Callers, tool \in Tools, args \in Arguments,
       roles \in SUBSET Roles, relay \in Gate!Relayed :
        LET req == [caller |-> caller, tool |-> tool, args |-> args, roles |-> roles,
                    state |-> relay[1], answers |-> relay[2]]
        IN  Handle(r, req) \/ \E n \in Nonces : Question(r, req, n)

PeopleAnswer == UNCHANGED vars /\ Gate!Answering

Pass == Tick /\ Gate!Tick

RotatingNext == (\E r \in Replicas : Restart(r)) \/ TurnPhase \/ Serve \/ PeopleAnswer \/ Pass

RotatingSpec == RotatingInit /\ [][RotatingNext]_<<vars, gateVars>>

-----------------------------------------------------------------------------
(* Properties.                                                             *)

\* The retry of question n with the answer that was given, and the caller's
\* roles as they are now.
RetryOf(n, roles) ==
    [caller |-> sealed[n].caller, tool |-> sealed[n].tool, args |-> sealed[n].args,
     roles |-> roles, state |-> n, answers |-> human[n]]

\* Rotating the key costs nobody an approval: whichever replica put the
\* question and whichever is handed the retry, restarted or not, at every
\* moment of a rotation, a yes that comes back within the TTL lets the call
\* through, if the caller still holds a role that grants it (request_state.py,
\* "Rotating without dropping in-flight approvals"; approval.check).
ApprovedRetriesRun ==
    \A n \in Gate!Asked, r \in Replicas, roles \in SUBSET Roles :
        /\ Gate!SaidYes(n)
        /\ Fresh(sealed[n].minted, now)
        /\ DecideTool(Shipped, sealed[n].tool, roles).allowed
        => Gate!PassesGate(r, RetryOf(n, roles))

\* And it buys nobody a call: whatever rings the replicas have in between, the
\* gate as a whole still lets a call through only on a yes to it that is within
\* its TTL (middleware._guard_tool_call, request_state.build).
RotationKeepsPromise == Gate!KeepsPromise
=============================================================================
