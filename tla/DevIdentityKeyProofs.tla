------------------------ MODULE DevIdentityKeyProofs -------------------------
(***************************************************************************)
(* Theorems about DevIdentityKey, for any number of processes.             *)
(***************************************************************************)
EXTENDS DevIdentityKey, TLAPS

LEMMA InitInv == Init => KeyFileInv
BY DevIdentityAssumption DEF Init, KeyFileInv, TypeOK, KeysInv, Started, Pending, Unwritten

LEMMA NextInv == KeyFileInv /\ [Next]_vars => KeyFileInv'
<1> SUFFICES ASSUME KeyFileInv, [Next]_vars PROVE KeyFileInv'
  OBVIOUS
<1> USE DevIdentityAssumption DEF KeyFileInv, TypeOK, KeysInv, Started, Pending, Goes, Unwritten
<1>1. ASSUME NEW p \in Processes, LookForFile(p) PROVE KeyFileInv'
  BY <1>1 DEF LookForFile
<1>2. ASSUME NEW p \in Processes, Load(p) PROVE KeyFileInv'
  BY <1>2 DEF Load
<1>3. ASSUME NEW p \in Processes, Open(p) PROVE KeyFileInv'
  <2>1. p \in creators /\ Empty \notin Processes /\ file' = Empty
    BY <1>3 DEF Open
  <2>2. key[p] = NoKey
    BY <1>3 DEF Open
  <2>3. pc'[p] = "writing" /\ key' = key
    BY <1>3 DEF Open
  <2> QED
    BY <1>3, <2>1, <2>2, <2>3 DEF Open
<1>4. ASSUME NEW p \in Processes, Write(p) PROVE KeyFileInv'
  BY <1>4 DEF Write
<1>5. ASSUME NEW p \in Processes, Die(p) PROVE KeyFileInv'
  BY <1>5 DEF Die
<1>6. CASE UNCHANGED vars
  BY <1>6 DEF vars
<1> QED
  BY <1>1, <1>2, <1>3, <1>4, <1>5, <1>6 DEF Next

\* Where every key in the file and in use comes from, at every moment.
THEOREM KeysHaveCreators == Spec => []KeyFileInv
BY InitInv, NextInv, PTL DEF Spec

\* Processes agree on the key if only one of them found no file.
THEOREM AgreementUnlessRaced == Spec => []AgreeUnlessRaced
<1>1. KeyFileInv => AgreeUnlessRaced
  BY DEF KeyFileInv, KeysInv, AgreeUnlessRaced, ProcessesAgree, Verifies
<1> QED
  BY KeysHaveCreators, <1>1, PTL

\* A key in the file stays once nobody is about to write another.
THEOREM SettledStays == Spec => SettledForGood
<1>1. ASSUME KeyFileInv, [Next]_vars, Settled PROVE Settled' /\ file' = file
  <2> USE DevIdentityAssumption DEF Settled, Pending, Goes, KeyFileInv, TypeOK
  <2>1. ASSUME NEW p \in Processes,
               LookForFile(p) \/ Load(p) \/ Open(p) \/ Write(p) \/ Die(p)
        PROVE  Settled' /\ file' = file
    BY <1>1, <2>1 DEF LookForFile, Load, Open, Write, Die
  <2>2. CASE UNCHANGED vars
    BY <1>1, <2>2 DEF vars
  <2> QED
    BY <1>1, <2>1, <2>2 DEF Next
<1>2. KeyFileInv /\ [Next]_vars => [Settled => Settled' /\ file' = file]_vars
  BY <1>1
<1> QED
  BY KeysHaveCreators, <1>2, PTL DEF Spec, SettledForGood

\* A start fails on the file only because of a process that has opened it and
\* not written it, or died before it did.
THEOREM FailuresExplained == Spec => FailedStartsExplained
<1>1. ASSUME KeyFileInv, [Next]_vars, NEW p \in Processes,
             pc[p] # "failed", pc'[p] = "failed"
      PROVE  \E q \in creators : Unwritten(q)
  <2>1. file = Empty
    <3>1. Load(p) /\ file \notin Processes
      BY <1>1 DEF Next, LookForFile, Load, Open, Write, Die, Goes, vars, KeyFileInv, TypeOK
    <3>2. file # Absent
      BY <1>1, <3>1 DEF Load, KeyFileInv, KeysInv
    <3> QED
      BY <1>1, <3>1, <3>2 DEF KeyFileInv, TypeOK
  <2> QED
    BY <1>1, <2>1 DEF KeyFileInv, KeysInv
<1>2. KeyFileInv /\ [Next]_vars =>
          [\A p \in Processes : pc[p] # "failed" /\ pc'[p] = "failed" =>
               \E q \in creators : Unwritten(q)]_vars
  BY <1>1
<1> QED
  BY KeysHaveCreators, <1>2, PTL DEF Spec, FailedStartsExplained
=============================================================================
