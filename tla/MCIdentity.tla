----------------------------- MODULE MCIdentity ------------------------------
(***************************************************************************)
(* A small instance of DevIdentityKey and TokenVerifier for TLC: what a    *)
(* server knows its callers by, in the two modes of --auth that have any   *)
(* (create_server).                                                        *)
(***************************************************************************)
EXTENDS DevIdentityKey, TokenVerifier, TLC

CONSTANT MaxTime

VARIABLE auth   \* --auth

MCInit == auth \in {"dev", "entra"} /\ Init /\ VerifierInit

MCVerifierNext ==
    \/ Tenant \/ Verifier
    \/ time < MaxTime /\ VerifierTick

MCNext ==
    /\ \/ auth = "dev" /\ Next /\ UNCHANGED verifierVars
       \/ auth = "entra" /\ MCVerifierNext /\ UNCHANGED vars
    /\ UNCHANGED auth

MCSpec == MCInit /\ [][MCNext]_<<vars, verifierVars, auth>>

Symmetric == Permutations(Processes) \cup Permutations(Checks)
=============================================================================
