------------------------- MODULE KeyRotationProofs --------------------------
(***************************************************************************)
(* Theorems about KeyRotation, for any number of replicas, any keys and    *)
(* any TTL, provided nobody rolls back from phase three (with that, the    *)
(* safety properties fail: run rollback).                                  *)
(***************************************************************************)
EXTENDS KeyRotation, TLAPS

\* The rings of the four phases are told apart by their first key and their
\* length, and hold exactly the keys written in them (the SDK's "first key
\* seals, every key unseals").
LEMMA RingFacts ==
    ASSUME NEW a, NEW b
    PROVE  /\ SealingKey(<<a>>) = a
           /\ SealingKey(<<a, b>>) = a
           /\ \A k : Holds(<<a>>, k) <=> k = a
           /\ \A k : Holds(<<a, b>>, k) <=> k \in {a, b}
           /\ <<a>> # <<a, b>>
           /\ <<b>> # <<a, b>>
           /\ a # b => <<a, b>> # <<b, a>>
           /\ a # b => <<a>> # <<b>>
<1>1. DOMAIN <<a>> = {1} /\ DOMAIN <<a, b>> = {1, 2}
  OBVIOUS
<1>2. <<a>>[1] = a /\ <<a, b>>[1] = a /\ <<a, b>>[2] = b
  OBVIOUS
<1>3. <<a>> # <<a, b>> /\ <<b>> # <<a, b>>
  OBVIOUS
<1>4. a # b => <<a, b>> # <<b, a>> /\ <<a>> # <<b>>
  OBVIOUS
<1> QED
  BY <1>1, <1>2, <1>3, <1>4 DEF SealingKey, Holds

\* The environment of a phase is a ring of usable keys, and build takes it as
\* it is.
LEMMA GoalFacts ==
    ASSUME TypeOK
    PROVE  /\ Goal \in Seq(Keys) \ {<<>>}
           /\ Goal = Environment
<1>1. \A a, b \in Keys : <<a>> \in Seq(Keys) \ {<<>>} /\ <<a, b>> \in Seq(Keys) \ {<<>>}
  OBVIOUS
<1>2. Environment \in Seq(Keys) \ {<<>>}
  BY <1>1 DEF Environment, TypeOK
<1> QED
  BY <1>2 DEF Goal, Ring

LEMMA InitInv == Init => RotationInv
<1> SUFFICES ASSUME Init PROVE RotationInv
  OBVIOUS
<1>1. <<FirstKey>> \in Seq(Keys) \ {<<>>}
  BY KeyRotationAssumption
<1>2. TypeOK
  BY <1>1, KeyRotationAssumption DEF Init, TypeOK
<1>3. LiveInv /\ PhaseInv
  BY DEF Init, LiveInv, PhaseInv
<1> QED
  BY <1>2, <1>3 DEF RotationInv

LEMMA NextType ==
    ASSUME TypeOK, [Next]_vars
    PROVE  TypeOK'
<1>1. CASE UNCHANGED vars
  BY <1>1 DEF TypeOK, vars
<1>2. ASSUME NEW key \in Keys, Generate(key) PROVE TypeOK'
  BY <1>2 DEF TypeOK, Generate
<1>3. ASSUME NEW r \in Replicas, Deploy(r) PROVE TypeOK'
  BY <1>3, GoalFacts DEF TypeOK, Deploy
<1>4. CASE Switch \/ Drop \/ Finish \/ Rollback
  BY <1>4 DEF TypeOK, Switch, Drop, Finish, Rollback
<1>5. ASSUME NEW r \in Replicas, SealState(r) PROVE TypeOK'
  <2>1. SealingKey(ring[r]) \in Keys
    BY DEF TypeOK, SealingKey
  <2> QED
    BY <1>5, <2>1 DEF TypeOK, SealState
<1>6. CASE Tick
  BY <1>6 DEF TypeOK, Tick
<1> QED
  BY <1>1, <1>2, <1>3, <1>4, <1>5, <1>6 DEF Next, Operate

LEMMA NextLive ==
    ASSUME TypeOK, LiveInv, [Next]_vars
    PROVE  LiveInv'
<1> USE DEF LiveInv, Fresh
<1>1. CASE UNCHANGED vars
  BY <1>1 DEF vars
<1>2. ASSUME NEW r \in Replicas, SealState(r) PROVE LiveInv'
  BY <1>2, TTLAssumption DEF TypeOK, SealState
<1>3. CASE Tick
  <2>1. \A s \in live : s.minted <= now + 1
    BY DEF TypeOK
  <2> QED
    BY <1>3, <2>1 DEF TypeOK, Tick
<1>4. CASE Operate
  BY <1>4 DEF Operate, Generate, Deploy, Switch, Drop, Finish, Rollback
<1> QED
  BY <1>1, <1>2, <1>3, <1>4 DEF Next

LEMMA NextPhase ==
    ASSUME RotationInv, [Next]_vars, 3 \notin RollbackFrom
    PROVE  PhaseInv'
<1> USE DEF RotationInv
<1>1. CASE UNCHANGED vars
  BY <1>1 DEF vars, PhaseInv, RolledOut, Goal, Environment, Ring
<1>2. ASSUME NEW key \in Keys, Generate(key) PROVE PhaseInv'
  <2>1. phase = 0 /\ phase' = 1 /\ UNCHANGED <<ring, old, live>> /\ old # new'
    BY <1>2 DEF Generate
  <2>2. /\ \A r \in Replicas : ring'[r] = <<old'>>
        /\ \A s \in live' : s.key = old'
    BY <2>1 DEF PhaseInv
  <2> QED
    BY <2>1, <2>2 DEF PhaseInv
<1>3. ASSUME NEW r \in Replicas, Deploy(r) PROVE PhaseInv'
  <2>1. ring' = [ring EXCEPT ![r] = Goal]
    BY <1>3 DEF Deploy
  <2>2. UNCHANGED <<old, new, phase, live, now>> /\ settled' = now
    BY <1>3 DEF Deploy
  <2>3. \A s \in live' : s.minted <= settled'
    BY <2>2 DEF LiveInv
  <2>4. \A q \in Replicas : ring'[q] = Goal \/ ring'[q] = ring[q]
    BY <2>1 DEF TypeOK
  <2> QED
    BY <2>2, <2>3, <2>4 DEF PhaseInv, Goal, Environment, Ring
<1>4. CASE Switch
  <2>1. PICK r \in Replicas : ring[r] = <<old, new>>
    BY <1>4, KeyRotationAssumption DEF Switch, RolledOut, Goal, Environment, Ring
  <2>2. ~RolledOut'
    BY <1>4, <2>1, RingFacts DEF Switch, RolledOut, Goal, Environment, Ring, PhaseInv
  <2>3. \A q \in Replicas : ring[q] = <<old, new>>
    BY <1>4 DEF Switch, RolledOut, Goal, Environment, Ring
  <2>4. \A s \in live : s.key \in {old, new}
    BY <1>4 DEF Switch, PhaseInv
  <2> QED
    BY <1>4, <2>2, <2>3, <2>4 DEF Switch, PhaseInv
<1>5. CASE Drop
  <2>1. \A s \in live : s.key \in {old, new} /\ (s.key = old => s.minted <= settled)
    BY <1>5 DEF Drop, PhaseInv
  <2>2. \A s \in live : s.key = new
    BY <1>5, <2>1, TTLAssumption DEF Drop, LiveInv, Fresh, TypeOK
  <2>3. \A r \in Replicas : ring[r] = <<new, old>>
    BY <1>5 DEF Drop, RolledOut, Goal, Environment, Ring
  <2> QED
    BY <1>5, <2>2, <2>3 DEF Drop, PhaseInv
<1>6. CASE Finish
  BY <1>6 DEF Finish, PhaseInv, RolledOut, Goal, Environment, Ring
<1>7. CASE Rollback
  <2>1. phase \in {1, 2}
    BY <1>7, KeyRotationAssumption DEF Rollback
  <2> QED
    BY <1>7, <2>1 DEF Rollback, PhaseInv
<1>8. ASSUME NEW r \in Replicas, SealState(r) PROVE PhaseInv'
  <2> DEFINE fresh == [key |-> SealingKey(ring[r]), minted |-> now]
  <2>1. live' = live \cup {fresh} /\ UNCHANGED <<ring, old, new, phase, settled, now>>
    BY <1>8 DEF SealState
  <2>2. RolledOut' <=> RolledOut
    BY <2>1 DEF RolledOut, Goal, Environment, Ring
  <2>3. phase = 0 => SealingKey(ring[r]) = old
    BY RingFacts DEF PhaseInv
  <2>4. \A a, b : SealingKey(<<a>>) = a /\ SealingKey(<<a, b>>) = a
    BY RingFacts
  <2>5. phase = 2 /\ RolledOut => SealingKey(ring[r]) = new
    BY <2>4 DEF RolledOut, Goal, Environment, Ring
  <2> QED
    BY <2>1, <2>2, <2>3, <2>4, <2>5 DEF PhaseInv
<1>9. CASE Tick
  <2>1. live' \subseteq live /\ UNCHANGED <<ring, old, new, phase, settled>>
    BY <1>9 DEF Tick
  <2>2. RolledOut' <=> RolledOut
    BY <2>1 DEF RolledOut, Goal, Environment, Ring
  <2> QED
    BY <2>1, <2>2 DEF PhaseInv
<1> QED
  BY <1>1, <1>2, <1>3, <1>4, <1>5, <1>6, <1>7, <1>8, <1>9 DEF Next, Operate

-----------------------------------------------------------------------------
\* The inductive invariant holds at every moment of every sequence of
\* rotations, restarts and rollbacks before phase three.
THEOREM RotationInvariant == 3 \notin RollbackFrom => (Spec => []RotationInv)
<1> SUFFICES ASSUME 3 \notin RollbackFrom PROVE Spec => []RotationInv
  OBVIOUS
<1>1. RotationInv /\ [Next]_vars => RotationInv'
  BY NextType, NextLive, NextPhase DEF RotationInv
<1> QED
  BY InitInv, <1>1, PTL DEF Spec

LEMMA InvImpliesSafe == RotationInv => LiveStatesUnsealEverywhere /\ SealersAreUnderstood
<1> SUFFICES ASSUME RotationInv PROVE LiveStatesUnsealEverywhere /\ SealersAreUnderstood
  OBVIOUS
<1>1. /\ SealingKey(<<old>>) = old /\ SealingKey(<<old, new>>) = old
      /\ SealingKey(<<new>>) = new /\ SealingKey(<<new, old>>) = new
      /\ Holds(<<old>>, old) /\ Holds(<<new>>, new)
      /\ Holds(<<old, new>>, old) /\ Holds(<<old, new>>, new)
      /\ Holds(<<new, old>>, old) /\ Holds(<<new, old>>, new)
  BY RingFacts
<1>2. \/ /\ \A r \in Replicas : ring[r] \in {<<old>>, <<old, new>>}
         /\ \A s \in live : s.key = old
      \/ /\ \A r \in Replicas : ring[r] \in {<<old, new>>, <<new, old>>}
         /\ \A s \in live : s.key \in {old, new}
      \/ /\ \A r \in Replicas : ring[r] \in {<<new, old>>, <<new>>}
         /\ \A s \in live : s.key = new
  <2>1. phase \in {0, 1, 2, 3}
    BY DEF RotationInv, TypeOK
  <2> QED
    BY <2>1 DEF RotationInv, PhaseInv
<1>3. LiveStatesUnsealEverywhere
  <2> SUFFICES ASSUME NEW s \in live, NEW r \in Replicas PROVE Holds(ring[r], s.key)
    BY DEF LiveStatesUnsealEverywhere
  <2> QED
    BY <1>1, <1>2
<1>4. SealersAreUnderstood
  <2> SUFFICES ASSUME NEW r \in Replicas, NEW q \in Replicas
               PROVE  Holds(ring[q], SealingKey(ring[r]))
    BY DEF SealersAreUnderstood
  <2> QED
    BY <1>1, <1>2
<1> QED
  BY <1>3, <1>4

\* However many replicas and whatever the TTL, the phased rotation drops no
\* approval in flight: every state that has not expired unseals everywhere.
THEOREM RotationDropsNothing ==
    3 \notin RollbackFrom => (Spec => []LiveStatesUnsealEverywhere)
<1> SUFFICES ASSUME 3 \notin RollbackFrom PROVE Spec => []LiveStatesUnsealEverywhere
  OBVIOUS
<1> QED
  BY RotationInvariant, InvImpliesSafe, PTL

\* At no moment of a rotation does a replica seal with a key another lacks.
THEOREM RotationKeepsSealersUnderstood ==
    3 \notin RollbackFrom => (Spec => []SealersAreUnderstood)
<1> SUFFICES ASSUME 3 \notin RollbackFrom PROVE Spec => []SealersAreUnderstood
  OBVIOUS
<1> QED
  BY RotationInvariant, InvImpliesSafe, PTL
=============================================================================
