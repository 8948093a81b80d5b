---------------------------- MODULE KeyRotation -----------------------------
(***************************************************************************)
(* Rotating the key that seals request state while approvals are in        *)
(* flight: the rings of governance/request_state.py, deployed in the       *)
(* phases its docstring and docs/runbooks/rotate-request-state-key.md      *)
(* prescribe,                                                              *)
(*                                                                         *)
(*     [old]  ->  [old, new]  ->  [new, old]  ->  [new],                   *)
(*                                                                         *)
(* each rolled out to every replica before the next begins, the last not   *)
(* before one TTL has passed.  Replicas seal states all the while, and a   *)
(* state may be brought back to any of them until it expires.  Rotations   *)
(* follow one another without end.                                         *)
(***************************************************************************)
EXTENDS RequestState

CONSTANTS
    Replicas,
    FirstKey,
    RollbackFrom   \* the phases the operator may roll back from

ASSUME KeyRotationAssumption ==
    /\ FirstKey \in Keys
    /\ Replicas # {}
    /\ RollbackFrom \subseteq 1..3

VARIABLES
    ring,      \* per replica: the keys it runs with
    old, new,  \* the key being replaced and the one replacing it
    phase,     \* 1..3 while rotating, 0 in between
    settled,   \* when the current phase's rollout completed
    live,      \* the sealed states that have not expired: key and minting time
    now

vars == <<ring, old, new, phase, settled, live, now>>

\* MCP_REQUEST_STATE_KEYS in each phase.
Environment == CASE phase = 0 -> <<old>>
                 [] phase = 1 -> <<old, new>>
                 [] phase = 2 -> <<new, old>>
                 [] phase = 3 -> <<new>>

\* What a replica started with it runs with.
Goal == Ring(Environment, 0)

RolledOut == \A r \in Replicas : ring[r] = Goal

Init ==
    /\ ring = [r \in Replicas |-> <<FirstKey>>]
    /\ old = FirstKey
    /\ new = FirstKey
    /\ phase = 0
    /\ settled = 0
    /\ live = {}
    /\ now = 0

-----------------------------------------------------------------------------
(* The operator.                                                           *)

Generate(key) ==
    /\ phase = 0
    /\ RolledOut
    /\ key # old
    /\ new' = key
    /\ phase' = 1
    /\ UNCHANGED <<ring, old, settled, live, now>>

\* Restart one replica with the environment of the current phase.
Deploy(r) ==
    /\ ring[r] # Goal
    /\ ring' = [ring EXCEPT ![r] = Goal]
    /\ settled' = now
    /\ UNCHANGED <<old, new, phase, live, now>>

Switch ==
    /\ phase = 1
    /\ RolledOut
    /\ phase' = 2
    /\ UNCHANGED <<ring, old, new, settled, live, now>>

\* The mutant does not wait for the states sealed under the old key.
MUT_DropAtOnce ==
    /\ phase = 2
    /\ RolledOut
    /\ phase' = 3
    /\ UNCHANGED <<ring, old, new, settled, live, now>>

Drop ==
    /\ phase = 2
    /\ RolledOut
    /\ now - settled >= TTL
    /\ phase' = 3
    /\ UNCHANGED <<ring, old, new, settled, live, now>>

Finish ==
    /\ phase = 3
    /\ RolledOut
    /\ old' = new
    /\ phase' = 0
    /\ UNCHANGED <<ring, new, settled, live, now>>

\* "Set the ring back to <old>,<new> (phase one) and redeploy."
Rollback ==
    /\ phase \in RollbackFrom
    /\ phase' = 1
    /\ UNCHANGED <<ring, old, new, settled, live, now>>

-----------------------------------------------------------------------------
(* The replicas.                                                           *)

SealState(r) ==
    /\ live' = live \cup {[key |-> SealingKey(ring[r]), minted |-> now]}
    /\ UNCHANGED <<ring, old, new, phase, settled, now>>

\* A state past its TTL is refused everywhere and is forgotten here.
Tick ==
    /\ now' = now + 1
    /\ live' = {s \in live : Fresh(s.minted, now')}
    /\ UNCHANGED <<ring, old, new, phase, settled>>

Operate ==
    \/ \E key \in Keys : Generate(key)
    \/ \E r \in Replicas : Deploy(r)
    \/ Switch
    \/ Drop
    \/ Finish
    \/ Rollback

Next ==
    \/ Operate
    \/ \E r \in Replicas : SealState(r)
    \/ Tick

Spec == Init /\ [][Next]_vars

-----------------------------------------------------------------------------
(* Properties.                                                             *)

TypeOK ==
    /\ ring \in [Replicas -> Seq(Keys) \ {<<>>}]
    /\ {old, new} \subseteq Keys
    /\ phase \in 0..3
    /\ settled \in Nat /\ now \in Nat /\ settled <= now
    /\ live \subseteq [key : Keys, minted : Nat]

\* An approval started on any replica can be finished on any other for as long
\* as it lives, at every moment of a rotation (request_state.py, "Rotating
\* without dropping in-flight approvals").
LiveStatesUnsealEverywhere ==
    \A s \in live, r \in Replicas : Holds(ring[r], s.key)

\* At no moment does a replica seal with a key another does not hold (the
\* runbook, "Skipping a phase is what causes rejected approvals").
SealersAreUnderstood ==
    \A r, q \in Replicas : Holds(ring[q], SealingKey(ring[r]))

\* Why: what each phase allows in the rings and in the states still alive.
\* Between rotations there is one key; while phase one is first rolled out
\* only the old key seals; in phase two, and in phase one after a rollback,
\* every replica has both; in phase three nothing sealed with the old is left,
\* because once phase two is rolled out nothing more is sealed with it.
PhaseInv ==
    /\ phase # 0 => old # new
    /\ phase = 0 => /\ \A r \in Replicas : ring[r] = <<old>>
                    /\ \A s \in live : s.key = old
    /\ phase = 1 => \/ /\ \A r \in Replicas : ring[r] \in {<<old>>, <<old, new>>}
                       /\ \A s \in live : s.key = old
                    \/ /\ \A r \in Replicas : ring[r] \in {<<old, new>>, <<new, old>>}
                       /\ \A s \in live : s.key \in {old, new}
    /\ phase = 2 => /\ \A r \in Replicas : ring[r] \in {<<old, new>>, <<new, old>>}
                    /\ \A s \in live : s.key \in {old, new}
                    /\ RolledOut => \A s \in live : s.key = old => s.minted <= settled
    /\ phase = 3 => /\ \A r \in Replicas : ring[r] \in {<<new, old>>, <<new>>}
                    /\ \A s \in live : s.key = new

\* Nothing alive has reached its TTL or was minted later than now.
LiveInv == \A s \in live : s.minted <= now /\ Fresh(s.minted, now)

\* The inductive invariant: the ring a replica runs with, the phase and the
\* states alive always fit together as PhaseInv says (request_state.build).
RotationInv == TypeOK /\ LiveInv /\ PhaseInv
=============================================================================
