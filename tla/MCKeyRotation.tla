--------------------------- MODULE MCKeyRotation ----------------------------
(***************************************************************************)
(* Small instances of KeyRotation and RotatingGate for TLC: MaxTime bounds *)
(* the clock, MaxRequests the calls.                                       *)
(***************************************************************************)
EXTENDS RotatingGate, TLC

CONSTANTS k1, MaxTime, MaxRequests

\* policy.yaml, cut down to the gated tool.
GatedTool ==
    [version   |-> 1, default |-> "deny", declared |-> Roles,
     tools     |-> [t \in Tools |-> [allow_roles       |-> Roles,
                                     requires_approval |-> TRUE,
                                     classification    |-> "internal"]],
     resources |-> <<>>]

Declined == [action |-> "decline", approve |-> "absent"]

YesOrNo == {Yes, Declined}

Handled == served["passed"] + served["asked"] + served["refused"] + served["rejected"]

MCNext ==
    \/ \E r \in Replicas : Restart(r)
    \/ TurnPhase
    \/ Handled < MaxRequests /\ Serve
    \/ PeopleAnswer
    \/ now < MaxTime /\ Pass

MCSpec == RotatingInit /\ [][MCNext]_<<vars, gateVars>>

Symmetric == Permutations(Replicas) \cup Permutations(Keys \ {k1}) \cup Permutations(Nonces)
=============================================================================
