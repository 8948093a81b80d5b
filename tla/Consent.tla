------------------------------ MODULE Consent -------------------------------
(***************************************************************************)
(* What the approval gate promises, without replicas, keys, tokens or      *)
(* policies: a gated call is performed only while somebody's yes to that   *)
(* very call is fresh.  The promise is policy.yaml's "Authorization says   *)
(* this caller *may* raise incidents.  Approval says a human agreed to     *)
(* this one."                                                              *)
(***************************************************************************)
EXTENDS Naturals

CONSTANTS
    Calls,   \* who calls which tool with which arguments
    TTL      \* how long after the question was put a yes may be used

VARIABLES
    agreed,      \* the yeses: the call, and when the question was put
    performed,   \* the calls performed, and when
    clock

vars == <<agreed, performed, clock>>

Init ==
    /\ agreed = {}
    /\ performed = {}
    /\ clock = 0

Agree ==
    \E call \in Calls, asked \in 0..clock :
        /\ agreed' = agreed \cup {[call |-> call, asked |-> asked]}
        /\ UNCHANGED <<performed, clock>>

Perform ==
    \E yes \in agreed :
        /\ clock - yes.asked < TTL
        /\ performed' = performed \cup {[call |-> yes.call, at |-> clock]}
        /\ UNCHANGED <<agreed, clock>>

Pass ==
    /\ clock' = clock + 1
    /\ UNCHANGED <<agreed, performed>>

Next == Agree \/ Perform \/ Pass

Spec == Init /\ [][Next]_vars
=============================================================================
