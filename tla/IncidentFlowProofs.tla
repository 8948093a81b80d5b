------------------------- MODULE IncidentFlowProofs -------------------------
(***************************************************************************)
(* Theorems about IncidentFlow, for any calls, stores, shipments and items *)
(* and for both connectors.  OneIncidentPerCall and RepliesAreTrue follow  *)
(* from the inductive invariant FlowInv, which adds what is known of a call*)
(* while it waits and of a POST nobody waits for.                          *)
(***************************************************************************)
EXTENDS IncidentFlow, TLAPS

-----------------------------------------------------------------------------
(* What the steps of the instance do to the list of incidents.             *)

\* FileTicket adds one incident at the end of one list (create_incident).
LEMMA Filing ==
    ASSUME TypeOK, NEW store \in Stores, NEW ci \in CIs, NEW by \in Calls \cup {NoCall},
           FileTicket(store, ci, by)
    PROVE  LET n == Len(tickets[store]) + 1
           IN  /\ tickets' \in [Stores -> Seq(Ticket)]
               /\ n \in Nat \ {0} /\ n \notin DOMAIN tickets[store]
               /\ DOMAIN tickets'[store] = DOMAIN tickets[store] \cup {n}
               /\ tickets'[store][n].by = by
               /\ tickets'[store][n].ci \in {ci, NoCI}
               /\ ci \in cmdb[store] => tickets'[store][n].ci = ci
               /\ \A i \in DOMAIN tickets[store] : tickets'[store][i] = tickets[store][i]
               /\ \A s \in Stores : s # store => tickets'[s] = tickets[s]
<1> DEFINE t == [ci   |-> IF ci \in cmdb[store] THEN ci ELSE NoCI,
                 open |-> TRUE,
                 by   |-> by]
           list == tickets[store]
           n == Len(list) + 1
<1>1. list \in Seq(Ticket) /\ tickets \in [Stores -> Seq(Ticket)]
  BY DEF TypeOK
<1>2. t \in Ticket
  BY DEF Ticket
<1>3. tickets' = [tickets EXCEPT ![store] = Append(list, t)]
  BY DEF FileTicket
<1>4. tickets'[store] = Append(list, t)
  BY <1>1, <1>3
<1>5. /\ Append(list, t) \in Seq(Ticket)
      /\ DOMAIN list = 1..Len(list) /\ Len(list) \in Nat
      /\ DOMAIN Append(list, t) = 1..n
      /\ Append(list, t)[n] = t
      /\ \A i \in DOMAIN list : Append(list, t)[i] = list[i]
  BY <1>1, <1>2
<1>6. tickets' \in [Stores -> Seq(Ticket)]
  BY <1>1, <1>3, <1>5
<1>7. 1..n = 1..Len(list) \cup {n} /\ n \notin 1..Len(list) /\ n \in Nat \ {0}
  BY <1>5
<1>8. t.by = by /\ t.ci \in {ci, NoCI} /\ (ci \in cmdb[store] => t.ci = ci)
  OBVIOUS
<1>9. \A s \in Stores : s # store => tickets'[s] = tickets[s]
  BY <1>1, <1>3
<1> QED
  BY <1>4, <1>5, <1>6, <1>7, <1>8, <1>9

\* Closing an incident leaves everything of it but `open`.
LEMMA Closing ==
    ASSUME TypeOK, NEW store \in Stores, NEW k, OthersClose(store, k)
    PROVE  /\ tickets' \in [Stores -> Seq(Ticket)]
           /\ \A s \in Stores :
                  /\ DOMAIN tickets'[s] = DOMAIN tickets[s]
                  /\ \A i \in DOMAIN tickets[s] :
                         /\ tickets'[s][i].by = tickets[s][i].by
                         /\ tickets'[s][i].ci = tickets[s][i].ci
<1> DEFINE list == tickets[store]
           t == [list[k] EXCEPT !.open = FALSE]
           closed == [list EXCEPT ![k] = t]
<1>1. list \in Seq(Ticket) /\ tickets \in [Stores -> Seq(Ticket)] /\ k \in DOMAIN list
  BY DEF TypeOK, OthersClose
<1>2. list[k] \in Ticket
  BY <1>1
<1>3. t \in Ticket /\ t.by = list[k].by /\ t.ci = list[k].ci
  BY <1>2 DEF Ticket
<1>4. closed \in Seq(Ticket) /\ DOMAIN closed = DOMAIN list
  BY <1>1, <1>3
<1>5. tickets' = [tickets EXCEPT ![store] = closed]
  BY DEF OthersClose
<1>6. tickets'[store] = closed /\ \A s \in Stores : s # store => tickets'[s] = tickets[s]
  BY <1>1, <1>5
<1>7. \A i \in DOMAIN list : closed[i].by = list[i].by /\ closed[i].ci = list[i].ci
  BY <1>1, <1>3
<1> QED
  BY <1>1, <1>4, <1>5, <1>6, <1>7

-----------------------------------------------------------------------------
(* Types.                                                                  *)

\* Whatever it is told, AdviceFor gives one of the four recommendations; the
\* second form is the mock's, which reads the CMDB and the incidents at once.
LEMMA AdviceTyped ==
    ASSUME NEW shipment, NEW found \in BOOLEAN, NEW open \in BOOLEAN
    PROVE  AdviceFor(shipment, found, open) \in Advice
BY DEF AdviceFor, Advice

LEMMA MockAdviceTyped ==
    ASSUME NEW shipment, NEW store, NEW ci
    PROVE  AdviceFor(shipment, ci \in cmdb[store], OpenOn(store, ci)) \in Advice
<1> DEFINE found == ci \in cmdb[store]
           open  == OpenOn(store, ci)
<1>1. found \in BOOLEAN
  OBVIOUS
<1>2. open \in BOOLEAN
  BY Zenon DEF OpenOn
<1> HIDE DEF found, open
<1>3. AdviceFor(shipment, found, open) \in Advice
  BY <1>1, <1>2, AdviceTyped
<1> QED
  BY <1>3 DEF found, open

LEMMA BeginTyped ==
    ASSUME TypeOK, NEW c \in Calls, NEW tool \in Tools, NEW store \in Stores,
           NEW shipment \in Shipments \cup {Unknown},
           NEW pc \in {"lookup", "posting", "done"}, NEW reply \in Replies,
           NEW number \in Nat, Begin(c, tool, store, shipment, pc, reply, number)
    PROVE  call' \in [Calls -> Call]
<1> DEFINE b == [pc |-> pc, tool |-> tool, store |-> store, shipment |-> shipment,
                 found |-> FALSE, reply |-> reply, number |-> number]
<1>1. b \in Call
  BY DEF Call
<1> QED
  BY <1>1 DEF Begin, TypeOK

LEMMA EndTyped ==
    ASSUME TypeOK, NEW c \in Calls, NEW reply \in Replies, End(c, reply)
    PROVE  call' \in [Calls -> Call]
<1>1. call[c] \in Call
  BY DEF TypeOK
<1>2. Ended(c, reply) \in Call
  BY <1>1 DEF Ended, Call
<1> QED
  BY <1>2 DEF End, TypeOK

LEMMA AssessTyped ==
    ASSUME TypeOK, NEW c \in Calls, Assess(c)
    PROVE  TypeOK'
<1> USE DEF Tools, Replies
<1>1. PICK store \in Stores, shipment \in Shipments \cup {Unknown} :
          \/ Refuse(c, "assess", store, shipment, TRUE)
          \/ MockAssess(c, store, shipment)
          \/ LiveAssess(c, store, shipment)
  BY DEF Assess
<1>2. CASE Refuse(c, "assess", store, shipment, TRUE)
  BY <1>2, BeginTyped DEF Refuse, TypeOK
<1>3. CASE MockAssess(c, store, shipment)
  <2> DEFINE ci == CiOf[shipment]
             advice == AdviceFor(shipment, ci \in cmdb[store], OpenOn(store, ci))
  <2>1. advice \in Advice
    BY MockAdviceTyped, Zenon
  <2>2. Begin(c, "assess", store, shipment, "done", advice, 0)
    BY <1>3 DEF MockAssess
  <2>3. call' \in [Calls -> Call]
    BY <2>1, <2>2, BeginTyped
  <2> QED
    BY <1>3, <2>3 DEF MockAssess, TypeOK
<1>4. CASE LiveAssess(c, store, shipment)
  BY <1>4, BeginTyped DEF LiveAssess, TypeOK
<1> QED
  BY <1>1, <1>2, <1>3, <1>4

LEMMA RaiseTyped ==
    ASSUME TypeOK, NEW c \in Calls, Raise(c)
    PROVE  TypeOK'
<1> USE DEF Tools, Replies
<1>1. PICK store \in Stores, shipment \in Shipments \cup {Unknown} :
          \/ \E urgencyKnown \in BOOLEAN : Refuse(c, "raise", store, shipment, urgencyKnown)
          \/ MockRaise(c, store, shipment)
          \/ LiveRaise(c, store, shipment)
  BY DEF Raise
<1>2. ASSUME NEW urgencyKnown \in BOOLEAN,
             Refuse(c, "raise", store, shipment, urgencyKnown)
      PROVE  TypeOK'
  BY <1>2, BeginTyped DEF Refuse, TypeOK
<1>3. CASE MockRaise(c, store, shipment)
  <2>1. shipment \in Shipments /\ CiOf[shipment] \in CIs /\ UNCHANGED <<cmdb, late>>
    BY <1>3, FlowAssumption DEF MockRaise
  <2>2. CASE FileTicket(store, CiOf[shipment], c)
              /\ Begin(c, "raise", store, shipment, "done", "ok", Len(tickets[store]) + 1)
    <3>1. Len(tickets[store]) + 1 \in Nat /\ tickets' \in [Stores -> Seq(Ticket)]
      BY <2>1, <2>2, Filing
    <3>2. call' \in [Calls -> Call]
      BY <2>2, <3>1, BeginTyped
    <3> QED
      BY <2>1, <3>1, <3>2 DEF TypeOK
  <2>3. CASE Begin(c, "raise", store, shipment, "done", "refused", 0) /\ UNCHANGED tickets
    BY <2>1, <2>3, BeginTyped DEF TypeOK
  <2> QED
    BY <1>3, <2>2, <2>3 DEF MockRaise
<1>4. CASE LiveRaise(c, store, shipment)
  BY <1>4, BeginTyped DEF LiveRaise, TypeOK
<1> QED
  BY <1>1, <1>2, <1>3, <1>4

LEMMA ProceedTyped ==
    ASSUME TypeOK, CallsInv, NEW c \in Calls, Proceed(c)
    PROVE  TypeOK'
<1> USE DEF Replies
<1>0. call[c] \in Call /\ call[c].store \in Stores
  BY DEF TypeOK, Call
<1>1. ASSUME NEW hasResult \in BOOLEAN, Lookup(c, hasResult) PROVE TypeOK'
  <2>1. \A found \in BOOLEAN :
            [call[c] EXCEPT !.pc = "search", !.found = found] \in Call
    BY <1>0 DEF Call
  <2> DEFINE known == hasResult /\ CiOfCall(c) \in cmdb[call[c].store]
  <2>2. known \in BOOLEAN
    OBVIOUS
  <2>3. call' = [call EXCEPT ![c] = [call[c] EXCEPT !.pc = "search", !.found = known]]
    BY <1>1 DEF Lookup
  <2> HIDE DEF known
  <2>4. call' \in [Calls -> Call]
    BY <2>1, <2>2, <2>3 DEF TypeOK
  <2> QED
    BY <1>1, <2>4 DEF Lookup, TypeOK
<1>2. ASSUME NEW hasResult \in BOOLEAN, Search(c, hasResult) PROVE TypeOK'
  <2> DEFINE open == hasResult /\ OpenOn(call[c].store, CiOfCall(c))
             advice == AdviceFor(call[c].shipment, call[c].found, open)
  <2>0. open \in BOOLEAN
    OBVIOUS
  <2>1. advice \in Advice
    BY <1>0, <2>0, AdviceTyped DEF Call
  <2>2. call' \in [Calls -> Call]
    BY <1>2, <2>1, EndTyped DEF Search
  <2> QED
    BY <1>2, <2>2 DEF Search, TypeOK
<1>3. CASE Post(c)
  <2> DEFINE store == call[c].store
             n == Len(tickets[store]) + 1
  <2>1. CiOfCall(c) \in CIs
    BY <1>3, FlowAssumption DEF Post, CallsInv, CiOfCall
  <2>2. n \in Nat /\ tickets' \in [Stores -> Seq(Ticket)]
    BY <1>0, <1>3, <2>1, Filing DEF Post
  <2>3. [call[c] EXCEPT !.pc = "opened", !.number = n] \in Call
    BY <1>0, <2>2 DEF Call
  <2> QED
    BY <1>3, <2>2, <2>3 DEF Post, TypeOK
<1>4. CASE Receive(c)
  BY <1>4, EndTyped DEF Receive, TypeOK
<1>5. CASE ReceiveBlank(c)
  <2>1. [Ended(c, "ok") EXCEPT !.number = 0] \in Call
    BY <1>0 DEF Ended, Call
  <2> QED
    BY <1>5, <2>1 DEF ReceiveBlank, StillToCome, TypeOK
<1>6. CASE Fail(c)
  BY <1>6, EndTyped DEF Fail, StillToCome, TypeOK
<1> QED
  BY <1>1, <1>2, <1>3, <1>4, <1>5, <1>6 DEF Proceed, Advance

LEMMA InstanceTyped ==
    ASSUME TypeOK, CallsInv, Others \/ \E c \in Calls : Stray(c)
    PROVE  TypeOK'
<1>1. ASSUME NEW c \in Calls, LatePost(c) PROVE TypeOK'
  <2>1. call[c].store \in Stores
    BY DEF TypeOK, Call
  <2>2. CiOfCall(c) \in CIs
    BY <1>1, FlowAssumption DEF LatePost, CallsInv, CiOfCall
  <2>3. tickets' \in [Stores -> Seq(Ticket)]
    BY <1>1, <2>1, <2>2, Filing DEF LatePost
  <2> QED
    BY <1>1, <2>3 DEF LatePost, TypeOK
<1>2. ASSUME NEW c \in Calls, LateLoss(c) PROVE TypeOK'
  BY <1>2 DEF LateLoss, TypeOK
<1>3. ASSUME NEW store \in Stores, NEW ci \in CIs, OthersOpen(store, ci) PROVE TypeOK'
  <2>1. tickets' \in [Stores -> Seq(Ticket)]
    BY <1>3, Filing DEF OthersOpen
  <2> QED
    BY <1>3, <2>1 DEF OthersOpen, TypeOK
<1>4. ASSUME NEW store \in Stores, NEW ci \in CIs,
             OthersAddItem(store, ci) \/ OthersRetireItem(store, ci)
      PROVE  TypeOK'
  BY <1>4 DEF OthersAddItem, OthersRetireItem, TypeOK
<1>5. ASSUME NEW store \in Stores, NEW i \in DOMAIN tickets[store], OthersClose(store, i)
      PROVE  TypeOK'
  <2>1. tickets' \in [Stores -> Seq(Ticket)]
    BY <1>5, Closing
  <2> QED
    BY <1>5, <2>1 DEF OthersClose, TypeOK
<1> QED
  BY <1>1, <1>2, <1>3, <1>4, <1>5 DEF Others, Stray

LEMMA NextType ==
    ASSUME TypeOK, CallsInv, [Next]_vars
    PROVE  TypeOK'
<1>1. CASE UNCHANGED vars
  BY <1>1 DEF vars, TypeOK
<1> QED
  BY <1>1, AssessTyped, RaiseTyped, ProceedTyped, InstanceTyped DEF Next

-----------------------------------------------------------------------------
(* Whose the incidents are.  A step changes the record of one call or none *)
(* and files one incident or none.                                         *)

\* Every incident was opened by a call or by nobody we know.
LEMMA Authors ==
    ASSUME TypeOK, NEW s \in Stores, NEW i \in DOMAIN tickets[s]
    PROVE  tickets[s][i].by \in Calls \cup {NoCall}
<1>1. tickets[s] \in Seq(Ticket)
  BY DEF TypeOK
<1>2. tickets[s][i] \in Ticket
  BY <1>1
<1> QED
  BY <1>2 DEF Ticket

\* A call that has not been answered and has not opened anything has no
\* incident, and gets none from a step that files nothing.
LEMMA NothingFiled ==
    ASSUME FlowInv, NEW c \in Calls, NEW d, call[c].pc \notin {"opened", "done"},
           call' = [call EXCEPT ![c] = d], tickets' = tickets, late' \subseteq late \cup {c},
           d.pc # "opened", ~(d.reply = "ok" /\ d.number # 0)
    PROVE  IncidentsInv'
<1>1. \A s \in Stores : \A i \in DOMAIN tickets[s] : tickets[s][i].by # c
  BY FlowAssumption DEF FlowInv, IncidentsInv
<1>2. \A b \in Calls : b # c => call'[b] = call[b]
  BY DEF FlowInv, TypeOK
<1>3. call'[c] = d
  BY DEF FlowInv, TypeOK
<1>4. \A s \in Stores : \A i \in DOMAIN tickets[s] : tickets[s][i].by \in Calls \cup {NoCall}
  BY Authors DEF FlowInv
<1>5. ASSUME NEW s \in Stores, NEW i \in DOMAIN tickets[s], tickets[s][i].by # NoCall
      PROVE  LET b == tickets[s][i].by
             IN  b \in Calls /\ b # c /\ call'[b] = call[b] /\ b \notin late'
  BY <1>1, <1>2, <1>4, <1>5 DEF FlowInv, IncidentsInv
<1>6. \A b \in Calls : b # c => call'[b].store = call[b].store
  BY <1>2
<1> QED
  BY <1>2, <1>3, <1>5, <1>6 DEF FlowInv, IncidentsInv, CiOfCall, Confirmed

\* A call without an incident gets its one.
LEMMA OwnFiled ==
    ASSUME FlowInv, NEW c \in Calls, NEW d, NEW store \in Stores, NEW ci \in CIs,
           FileTicket(store, ci, c),
           call[c].pc \notin {"opened", "done"} \/ c \in late,
           call' = [call EXCEPT ![c] = d], late' \subseteq late \ {c},
           d.tool = "raise", d.store = store, CiOf[d.shipment] = ci,
           \/ d.pc = "opened" /\ d.number = Len(tickets[store]) + 1 /\ d.reply = "none"
           \/ d.pc = "done" /\ d.number = Len(tickets[store]) + 1 /\ d.reply = "ok"
           \/ d.pc = "done" /\ (d.reply = "failed" \/ (d.reply = "ok" /\ d.number = 0))
    PROVE  IncidentsInv'
<1> DEFINE n == Len(tickets[store]) + 1
<1>0. TypeOK
  BY DEF FlowInv
<1>1. \A s \in Stores : \A i \in DOMAIN tickets[s] :
          tickets[s][i].by # c /\ tickets[s][i].by \in Calls \cup {NoCall}
  BY <1>0, Authors, FlowAssumption DEF FlowInv, IncidentsInv
<1>2. call'[c] = d /\ \A b \in Calls : b # c => call'[b] = call[b]
  BY <1>0 DEF TypeOK
<1>3. /\ n \notin DOMAIN tickets[store]
      /\ DOMAIN tickets'[store] = DOMAIN tickets[store] \cup {n}
      /\ tickets'[store][n].by = c
      /\ tickets'[store][n].ci \in {ci, NoCI}
      /\ \A i \in DOMAIN tickets[store] : tickets'[store][i] = tickets[store][i]
      /\ \A s \in Stores : s # store => tickets'[s] = tickets[s]
  BY <1>0, Filing
<1>4. ASSUME NEW s \in Stores, NEW i \in DOMAIN tickets'[s], tickets'[s][i].by # NoCall
      PROVE  LET b == tickets'[s][i].by
             IN  /\ b \notin late'
                 /\ call'[b].tool = "raise" /\ call'[b].store = s
                 /\ call'[b].pc \in {"opened", "done"}
                 /\ call'[b].pc = "done" => call'[b].reply \in {"ok", "failed"}
                 /\ tickets'[s][i].ci \in {CiOf[call'[b].shipment], NoCI}
                 /\ \A j \in DOMAIN tickets'[s] : tickets'[s][j].by = b => i = j
  <2>1. CASE s = store /\ i = n
    BY <1>1, <1>2, <1>3, <2>1
  <2>2. CASE ~(s = store /\ i = n)
    <3>1. i \in DOMAIN tickets[s] /\ tickets'[s][i] = tickets[s][i]
      BY <1>3, <2>2
    <3>2. tickets[s][i].by \in Calls /\ tickets[s][i].by # c
      BY <1>1, <1>4, <3>1
    <3>3. \A j \in DOMAIN tickets'[s] :
              tickets'[s][j].by # c => j \in DOMAIN tickets[s] /\ tickets'[s][j] = tickets[s][j]
      BY <1>3
    <3> QED
      BY <1>2, <1>4, <3>1, <3>2, <3>3 DEF FlowInv, IncidentsInv, CiOfCall, Confirmed
  <2> QED
    BY <2>1, <2>2
<1>5. ASSUME NEW b \in Calls
      PROVE  LET mine == {i \in DOMAIN tickets'[call'[b].store] :
                              tickets'[call'[b].store][i].by = b}
             IN  /\ call'[b].pc = "opened" => call'[b].number \in mine
                 /\ Confirmed(b)' => call'[b].number \in mine
  <2>1. CASE b = c
    BY <1>2, <1>3, <2>1 DEF Confirmed
  <2>2. CASE b # c
    <3>1. call'[b] = call[b] /\ call[b].store \in Stores
      BY <1>0, <1>2, <2>2 DEF TypeOK, Call
    <3>2. \A i \in DOMAIN tickets[call[b].store] :
              /\ i \in DOMAIN tickets'[call[b].store]
              /\ tickets'[call[b].store][i] = tickets[call[b].store][i]
      BY <1>3, <3>1
    <3>3. LET mine == {i \in DOMAIN tickets[call[b].store] :
                          tickets[call[b].store][i].by = b}
          IN  /\ call[b].pc = "opened" => call[b].number \in mine
              /\ Confirmed(b) => call[b].number \in mine
      BY DEF FlowInv, IncidentsInv
    <3>4. {i \in DOMAIN tickets[call[b].store] : tickets[call[b].store][i].by = b}
             \subseteq {i \in DOMAIN tickets'[call[b].store] :
                            tickets'[call[b].store][i].by = b}
      BY <3>2
    <3> QED
      BY <3>1, <3>3, <3>4 DEF Confirmed
  <2> QED
    BY <2>1, <2>2
<1> QED
  BY <1>4, <1>5 DEF IncidentsInv, CiOfCall

\* Whoever has seen the instance act keeps the incident when it is answered.
LEMMA OwnKept ==
    ASSUME FlowInv, NEW c \in Calls, NEW d, call[c].pc = "opened",
           call' = [call EXCEPT ![c] = d], tickets' = tickets, late' = late,
           d.tool = call[c].tool, d.store = call[c].store,
           d.shipment = call[c].shipment, d.pc = "done",
           \/ d.reply = "failed"
           \/ d.reply = "ok" /\ d.number \in {0, call[c].number}
    PROVE  IncidentsInv'
<1>1. \A b \in Calls : b # c => call'[b] = call[b]
  BY DEF FlowInv, TypeOK
<1>2. call'[c] = d
  BY DEF FlowInv, TypeOK
<1>3. \A s \in Stores : \A i \in DOMAIN tickets[s] : tickets[s][i].by \in Calls \cup {NoCall}
  BY Authors DEF FlowInv
<1> QED
  BY <1>1, <1>2, <1>3 DEF FlowInv, IncidentsInv, CiOfCall, Confirmed

\* What others do to the incidents leaves whose they are.
LEMMA OthersFiled ==
    ASSUME FlowInv, NEW store \in Stores, NEW ci \in CIs, FileTicket(store, ci, NoCall),
           UNCHANGED <<call, late>>
    PROVE  IncidentsInv'
<1> DEFINE n == Len(tickets[store]) + 1
<1>0. TypeOK
  BY DEF FlowInv
<1>1. /\ DOMAIN tickets'[store] = DOMAIN tickets[store] \cup {n}
      /\ tickets'[store][n].by = NoCall
      /\ \A i \in DOMAIN tickets[store] : tickets'[store][i] = tickets[store][i]
      /\ \A s \in Stores : s # store => tickets'[s] = tickets[s]
  BY <1>0, Filing
<1>2. \A s \in Stores :
          /\ \A i \in DOMAIN tickets'[s] :
                 tickets'[s][i].by # NoCall
                     => i \in DOMAIN tickets[s] /\ tickets'[s][i] = tickets[s][i]
          /\ \A i \in DOMAIN tickets[s] :
                 i \in DOMAIN tickets'[s] /\ tickets'[s][i] = tickets[s][i]
  BY <1>1
<1>3. \A c \in Calls : call[c].store \in Stores /\ c # NoCall
  BY <1>0, FlowAssumption DEF TypeOK, Call
<1> QED
  BY <1>2, <1>3 DEF FlowInv, IncidentsInv, CiOfCall, Confirmed

LEMMA OthersClosed ==
    ASSUME FlowInv, NEW store \in Stores, NEW k, OthersClose(store, k)
    PROVE  IncidentsInv'
<1>0. TypeOK /\ UNCHANGED <<call, late>>
  BY DEF FlowInv, OthersClose
<1>1. \A s \in Stores :
          /\ DOMAIN tickets'[s] = DOMAIN tickets[s]
          /\ \A i \in DOMAIN tickets[s] :
                 /\ tickets'[s][i].by = tickets[s][i].by
                 /\ tickets'[s][i].ci = tickets[s][i].ci
  BY <1>0, Closing
<1>2. \A c \in Calls : call[c].store \in Stores
  BY <1>0 DEF TypeOK, Call
<1> QED
  BY <1>0, <1>1, <1>2 DEF FlowInv, IncidentsInv, CiOfCall, Confirmed

-----------------------------------------------------------------------------
(* The invariant.                                                          *)

LEMMA InitInv == Init => FlowInv
<1> SUFFICES ASSUME Init PROVE FlowInv
  OBVIOUS
<1>1. \A s \in Stores : /\ tickets[s] \in Seq(Ticket)
                        /\ \A i \in DOMAIN tickets[s] : tickets[s][i].by = NoCall
  <2> SUFFICES ASSUME NEW s \in Stores
               PROVE  /\ tickets[s] \in Seq(Ticket)
                      /\ \A i \in DOMAIN tickets[s] : tickets[s][i].by = NoCall
    OBVIOUS
  <2>1. tickets[s] \in {<<>>} \cup
            {<<[ci |-> ci, open |-> open, by |-> NoCall]>> : ci \in CIs, open \in BOOLEAN}
    BY DEF Init
  <2>2. ASSUME NEW ci \in CIs, NEW open \in BOOLEAN,
               tickets[s] = <<[ci |-> ci, open |-> open, by |-> NoCall]>>
        PROVE  /\ tickets[s] \in Seq(Ticket)
               /\ \A i \in DOMAIN tickets[s] : tickets[s][i].by = NoCall
    <3>1. [ci |-> ci, open |-> open, by |-> NoCall] \in Ticket
      BY DEF Ticket
    <3> QED
      BY <2>2, <3>1
  <2>3. CASE tickets[s] = <<>>
    BY <2>3
  <2> QED
    BY <2>1, <2>2, <2>3
<1>2. \A c \in Calls : /\ call[c] \in Call
                       /\ call[c].pc = "idle" /\ call[c].reply = "none"
  <2> SUFFICES ASSUME NEW c \in Calls
               PROVE  call[c] \in Call /\ call[c].pc = "idle" /\ call[c].reply = "none"
    OBVIOUS
  <2>1. PICK s \in Stores :
            call[c] = [pc |-> "idle", tool |-> "assess", store |-> s,
                       shipment |-> Unknown, found |-> FALSE,
                       reply |-> "none", number |-> 0]
    BY DEF Init
  <2> QED
    BY <2>1 DEF Call, Tools, Replies
<1>3. TypeOK
  <2>1. DOMAIN tickets = Stores /\ DOMAIN call = Calls
    BY DEF Init
  <2>2. tickets = [s \in Stores |-> tickets[s]] /\ call = [c \in Calls |-> call[c]]
    BY DEF Init
  <2> QED
    BY <1>1, <1>2, <2>2 DEF Init, TypeOK
<1>4. CallsInv
  BY <1>2 DEF Init, CallsInv
<1>5. IncidentsInv
  BY <1>1, <1>2 DEF IncidentsInv, Confirmed
<1> QED
  BY <1>3, <1>4, <1>5 DEF FlowInv

\* A call is begun with an answer or with a shipment to ask about.
LEMMA BegunCalls ==
    ASSUME FlowInv, NEW c \in Calls, NEW tool, NEW store,
           NEW shipment, NEW pc \in {"lookup", "posting", "done"},
           NEW reply, NEW number, Begin(c, tool, store, shipment, pc, reply, number),
           pc # "done" => reply = "none" /\ shipment \in Shipments,
           pc # "done" => (tool = "raise" <=> pc = "posting"),
           call[c].pc = "idle", late' = late
    PROVE  CallsInv'
<1> DEFINE b == [pc |-> pc, tool |-> tool, store |-> store, shipment |-> shipment,
                 found |-> FALSE, reply |-> reply, number |-> number]
<1>1. call'[c] = b /\ \A a \in Calls : a # c => call'[a] = call[a]
  BY DEF Begin, FlowInv, TypeOK
<1>2. c \notin late /\ late \subseteq Calls
  BY DEF FlowInv, CallsInv, TypeOK
<1> QED
  BY <1>1, <1>2 DEF FlowInv, CallsInv, InDoubt

LEMMA BegunIncidents ==
    ASSUME FlowInv, NEW c \in Calls, NEW tool, NEW store,
           NEW shipment, NEW pc \in {"lookup", "posting", "done"},
           NEW reply, NEW number, Begin(c, tool, store, shipment, pc, reply, number),
           reply # "ok", call[c].pc = "idle", UNCHANGED <<tickets, late>>
    PROVE  IncidentsInv'
<1> DEFINE b == [pc |-> pc, tool |-> tool, store |-> store, shipment |-> shipment,
                 found |-> FALSE, reply |-> reply, number |-> number]
<1>1. call' = [call EXCEPT ![c] = b]
  BY DEF Begin
<1>2. b.pc # "opened" /\ b.reply # "ok"
  OBVIOUS
<1> QED
  BY <1>1, <1>2, NothingFiled

LEMMA AssessInv ==
    ASSUME FlowInv, NEW c \in Calls, Assess(c)
    PROVE  CallsInv' /\ IncidentsInv'
<1>1. PICK store \in Stores, shipment \in Shipments \cup {Unknown} :
          \/ Refuse(c, "assess", store, shipment, TRUE)
          \/ MockAssess(c, store, shipment)
          \/ LiveAssess(c, store, shipment)
  BY DEF Assess
<1>2. CASE Refuse(c, "assess", store, shipment, TRUE)
  BY <1>2, BegunCalls, BegunIncidents DEF Refuse
<1>3. CASE MockAssess(c, store, shipment)
  <2> DEFINE ci == CiOf[shipment]
             advice == AdviceFor(shipment, ci \in cmdb[store], OpenOn(store, ci))
  <2>1. /\ Begin(c, "assess", store, shipment, "done", advice, 0)
        /\ call[c].pc = "idle" /\ UNCHANGED <<tickets, late>>
    BY <1>3 DEF MockAssess
  <2>2. advice # "ok"
    BY MockAdviceTyped DEF Advice
  <2> HIDE DEF advice
  <2> QED
    BY <2>1, <2>2, BegunCalls, BegunIncidents
<1>4. CASE LiveAssess(c, store, shipment)
  BY <1>4, BegunCalls, BegunIncidents DEF LiveAssess
<1> QED
  BY <1>1, <1>2, <1>3, <1>4

LEMMA RaiseInv ==
    ASSUME FlowInv, NEW c \in Calls, Raise(c)
    PROVE  CallsInv' /\ IncidentsInv'
<1>1. PICK store \in Stores, shipment \in Shipments \cup {Unknown} :
          \/ \E urgencyKnown \in BOOLEAN : Refuse(c, "raise", store, shipment, urgencyKnown)
          \/ MockRaise(c, store, shipment)
          \/ LiveRaise(c, store, shipment)
  BY DEF Raise
<1>2. ASSUME NEW urgencyKnown \in BOOLEAN,
             Refuse(c, "raise", store, shipment, urgencyKnown)
      PROVE  CallsInv' /\ IncidentsInv'
  BY <1>2, BegunCalls, BegunIncidents DEF Refuse
<1>3. CASE MockRaise(c, store, shipment)
  <2> DEFINE n == Len(tickets[store]) + 1
             ok == [pc |-> "done", tool |-> "raise", store |-> store,
                    shipment |-> shipment, found |-> FALSE, reply |-> "ok",
                    number |-> n]
  <2>1. shipment \in Shipments /\ CiOf[shipment] \in CIs /\ call[c].pc = "idle" /\ late' = late
    BY <1>3, FlowAssumption DEF MockRaise
  <2>2. CASE FileTicket(store, CiOf[shipment], c)
              /\ Begin(c, "raise", store, shipment, "done", "ok", n)
    <3>1. CallsInv'
      BY <2>1, <2>2, BegunCalls
    <3>2. call' = [call EXCEPT ![c] = ok]
      BY <2>2 DEF Begin
    <3>3. late' \subseteq late \ {c}
      BY <2>1 DEF FlowInv, CallsInv
    <3>4. /\ ok.tool = "raise" /\ ok.store = store /\ CiOf[ok.shipment] = CiOf[shipment]
          /\ ok.pc = "done" /\ ok.number = n /\ ok.reply = "ok"
      OBVIOUS
    <3> HIDE DEF ok
    <3>5. IncidentsInv'
      BY <2>1, <2>2, <3>2, <3>3, <3>4, OwnFiled
    <3> QED
      BY <3>1, <3>5
  <2>3. CASE Begin(c, "raise", store, shipment, "done", "refused", 0) /\ UNCHANGED tickets
    BY <2>1, <2>3, BegunCalls, BegunIncidents
  <2> QED
    BY <1>3, <2>2, <2>3 DEF MockRaise
<1>4. CASE LiveRaise(c, store, shipment)
  BY <1>4, BegunCalls, BegunIncidents DEF LiveRaise
<1> QED
  BY <1>1, <1>2, <1>3, <1>4

\* A call that is under way ends, or goes on with what it was begun with.
LEMMA OngoingCalls ==
    ASSUME FlowInv, NEW c \in Calls, NEW d, call' = [call EXCEPT ![c] = d],
           call[c].pc \notin {"idle", "done"},
           d.pc # "done" => d.reply = "none",
           d.shipment = call[c].shipment, d.tool = call[c].tool,
           d.pc # "done" => (d.pc \in {"posting", "opened"}
                                 <=> call[c].pc \in {"posting", "opened"}),
           late' = late \/ (/\ late' = late \cup {c} /\ call[c].pc = "posting"
                            /\ d.pc = "done"
                            /\ d.reply = "failed" \/ (d.reply = "ok" /\ d.number = 0))
    PROVE  CallsInv'
<1>1. call'[c] = d /\ \A a \in Calls : a # c => call'[a] = call[a]
  BY DEF FlowInv, TypeOK
<1>2. c \notin late /\ late \subseteq Calls
  BY DEF FlowInv, CallsInv, TypeOK
<1> QED
  BY <1>1, <1>2 DEF FlowInv, CallsInv, InDoubt

LEMMA ProceedInv ==
    ASSUME FlowInv, NEW c \in Calls, Proceed(c)
    PROVE  CallsInv' /\ IncidentsInv'
<1>0. /\ call[c] \in Call /\ call[c].store \in Stores
      /\ call[c].pc # "done" => call[c].reply = "none"
  BY DEF FlowInv, TypeOK, CallsInv, Call
<1>E. ASSUME NEW reply
      PROVE  LET d == Ended(c, reply)
             IN  /\ d.pc = "done" /\ d.reply = reply
                 /\ d.tool = call[c].tool /\ d.store = call[c].store
                 /\ d.shipment = call[c].shipment /\ d.number = call[c].number
  BY <1>0 DEF Ended, Call
<1>1. ASSUME NEW hasResult \in BOOLEAN, Lookup(c, hasResult)
      PROVE  CallsInv' /\ IncidentsInv'
  <2> DEFINE known == hasResult /\ CiOfCall(c) \in cmdb[call[c].store]
             d == [call[c] EXCEPT !.pc = "search", !.found = known]
  <2>1. /\ call' = [call EXCEPT ![c] = d] /\ call[c].pc = "lookup"
        /\ UNCHANGED <<tickets, late>>
    BY <1>1 DEF Lookup
  <2> HIDE DEF known
  <2>2. /\ d.pc = "search" /\ d.reply = "none"
        /\ d.shipment = call[c].shipment /\ d.tool = call[c].tool
    BY <1>0, <2>1 DEF Call
  <2> HIDE DEF d
  <2> QED
    BY <2>1, <2>2, OngoingCalls, NothingFiled
<1>2. ASSUME NEW hasResult \in BOOLEAN, Search(c, hasResult)
      PROVE  CallsInv' /\ IncidentsInv'
  <2> DEFINE open == hasResult /\ OpenOn(call[c].store, CiOfCall(c))
             advice == AdviceFor(call[c].shipment, call[c].found, open)
  <2>1. open \in BOOLEAN
    OBVIOUS
  <2>2. advice # "ok"
    BY <1>0, <2>1, AdviceTyped DEF Call, Advice
  <2>3. /\ call' = [call EXCEPT ![c] = Ended(c, advice)] /\ call[c].pc = "search"
        /\ UNCHANGED <<tickets, late>>
    BY <1>2 DEF Search, End
  <2> DEFINE d == Ended(c, advice)
  <2>4. /\ d.pc = "done" /\ d.reply = advice
        /\ d.tool = call[c].tool /\ d.shipment = call[c].shipment
    BY <1>E
  <2> HIDE DEF d
  <2> QED
    BY <2>2, <2>3, <2>4, OngoingCalls, NothingFiled DEF d
<1>3. CASE Post(c)
  <2> DEFINE n == Len(tickets[call[c].store]) + 1
             d == [call[c] EXCEPT !.pc = "opened", !.number = n]
  <2>1. /\ call' = [call EXCEPT ![c] = d] /\ call[c].pc = "posting" /\ late' = late
        /\ FileTicket(call[c].store, CiOfCall(c), c)
    BY <1>3 DEF Post
  <2>2. /\ d.pc = "opened" /\ d.reply = "none" /\ d.number = n
        /\ d.shipment = call[c].shipment /\ d.tool = call[c].tool
        /\ d.store = call[c].store
    BY <1>0, <2>1 DEF Call
  <2>3. call[c].tool = "raise" /\ c \notin late /\ CiOfCall(c) \in CIs
    BY <2>1, FlowAssumption DEF FlowInv, CallsInv, CiOfCall
  <2> HIDE DEF d
  <2>4. CallsInv'
    BY <2>1, <2>2, OngoingCalls
  <2>5. IncidentsInv'
    BY <1>0, <2>1, <2>2, <2>3, OwnFiled DEF CiOfCall
  <2> QED
    BY <2>4, <2>5
<1>4. CASE Receive(c)
  <2> DEFINE d == Ended(c, "ok")
  <2>1. /\ call' = [call EXCEPT ![c] = d] /\ call[c].pc = "opened"
        /\ UNCHANGED <<tickets, late>>
    BY <1>4 DEF Receive, End
  <2>2. /\ d.pc = "done" /\ d.reply = "ok" /\ d.number = call[c].number
        /\ d.shipment = call[c].shipment /\ d.tool = call[c].tool
        /\ d.store = call[c].store
    BY <1>E
  <2> HIDE DEF d
  <2> QED
    BY <2>1, <2>2, OngoingCalls, OwnKept
<1>5. CASE ReceiveBlank(c)
  <2> DEFINE d == [Ended(c, "ok") EXCEPT !.number = 0]
  <2>1. /\ call' = [call EXCEPT ![c] = d] /\ tickets' = tickets
        /\ call[c].pc \in {"posting", "opened"}
        /\ late' = IF call[c].pc = "posting" THEN late \cup {c} ELSE late
    BY <1>5 DEF ReceiveBlank, StillToCome
  <2>2. /\ d.pc = "done" /\ d.reply = "ok" /\ d.number = 0
        /\ d.tool = call[c].tool /\ d.store = call[c].store
        /\ d.shipment = call[c].shipment
    BY <1>0 DEF Ended, Call
  <2> HIDE DEF d
  <2>3. CallsInv'
    BY <2>1, <2>2, OngoingCalls
  <2>4. CASE call[c].pc = "opened"
    BY <2>1, <2>2, <2>3, <2>4, OwnKept
  <2>5. CASE call[c].pc # "opened"
    BY <2>1, <2>2, <2>3, <2>5, NothingFiled
  <2> QED
    BY <2>4, <2>5
<1>6. CASE Fail(c)
  <2> DEFINE d == Ended(c, "failed")
  <2>1. /\ call' = [call EXCEPT ![c] = d] /\ tickets' = tickets
        /\ call[c].pc \in {"lookup", "search", "posting", "opened"}
        /\ late' = IF call[c].pc = "posting" THEN late \cup {c} ELSE late
    BY <1>6 DEF Fail, StillToCome, End
  <2>2. /\ d.pc = "done" /\ d.reply = "failed"
        /\ d.tool = call[c].tool /\ d.store = call[c].store
        /\ d.shipment = call[c].shipment
    BY <1>E
  <2> HIDE DEF d
  <2>3. CallsInv'
    BY <2>1, <2>2, OngoingCalls
  <2>4. CASE call[c].pc = "opened"
    BY <2>1, <2>2, <2>3, <2>4, OwnKept
  <2>5. CASE call[c].pc # "opened"
    BY <2>1, <2>2, <2>3, <2>5, NothingFiled
  <2> QED
    BY <2>4, <2>5
<1> QED
  BY <1>1, <1>2, <1>3, <1>4, <1>5, <1>6 DEF Proceed, Advance

LEMMA InstanceInv ==
    ASSUME FlowInv, Others \/ \E c \in Calls : Stray(c)
    PROVE  CallsInv' /\ IncidentsInv'
<1>1. ASSUME NEW c \in Calls, LatePost(c) PROVE CallsInv' /\ IncidentsInv'
  <2>1. /\ c \in late /\ late' = late \ {c} /\ call' = call
        /\ FileTicket(call[c].store, CiOfCall(c), c)
    BY <1>1 DEF LatePost
  <2>2. /\ call[c].pc = "done" /\ InDoubt(c) /\ call[c].tool = "raise"
        /\ call[c].store \in Stores /\ CiOfCall(c) \in CIs
    BY <2>1, FlowAssumption DEF FlowInv, CallsInv, CiOfCall, TypeOK, Call
  <2>3. call' = [call EXCEPT ![c] = call[c]]
    BY <2>1 DEF FlowInv, TypeOK
  <2>4. CallsInv'
    BY <2>1 DEF FlowInv, CallsInv, InDoubt
  <2>5. IncidentsInv'
    BY <2>1, <2>2, <2>3, OwnFiled DEF CiOfCall, InDoubt
  <2> QED
    BY <2>4, <2>5
<1>2. ASSUME NEW c \in Calls, LateLoss(c) PROVE CallsInv' /\ IncidentsInv'
  BY <1>2 DEF LateLoss, FlowInv, CallsInv, IncidentsInv, CiOfCall, Confirmed, InDoubt
<1>3. ASSUME NEW store \in Stores, NEW ci \in CIs, OthersOpen(store, ci)
      PROVE  CallsInv' /\ IncidentsInv'
  <2>1. CallsInv'
    BY <1>3 DEF OthersOpen, FlowInv, CallsInv, InDoubt
  <2> QED
    BY <1>3, <2>1, OthersFiled DEF OthersOpen
<1>4. ASSUME NEW store \in Stores, NEW ci \in CIs,
             OthersAddItem(store, ci) \/ OthersRetireItem(store, ci)
      PROVE  CallsInv' /\ IncidentsInv'
  BY <1>4 DEF OthersAddItem, OthersRetireItem, FlowInv, CallsInv, IncidentsInv, CiOfCall,
              Confirmed, InDoubt
<1>5. ASSUME NEW store \in Stores, NEW i \in DOMAIN tickets[store], OthersClose(store, i)
      PROVE  CallsInv' /\ IncidentsInv'
  <2>1. CallsInv'
    BY <1>5 DEF OthersClose, FlowInv, CallsInv, InDoubt
  <2> QED
    BY <1>5, <2>1, OthersClosed
<1> QED
  BY <1>1, <1>2, <1>3, <1>4, <1>5 DEF Others, Stray

\* At every moment it is known which calls may still open an incident, and
\* whose the incidents are, with either connector.
THEOREM FlowInvariant == Spec => []FlowInv
<1>1. FlowInv /\ [Next]_vars => FlowInv'
  <2> SUFFICES ASSUME FlowInv, [Next]_vars PROVE FlowInv'
    OBVIOUS
  <2>1. TypeOK'
    BY NextType DEF FlowInv
  <2>2. CASE UNCHANGED vars
    BY <2>1, <2>2 DEF vars, FlowInv, CallsInv, IncidentsInv, CiOfCall, Confirmed, InDoubt
  <2> QED
    BY <2>1, <2>2, AssessInv, RaiseInv, ProceedInv, InstanceInv DEF Next, FlowInv
<1> QED
  BY InitInv, <1>1, PTL DEF Spec

-----------------------------------------------------------------------------
(* What follows.                                                           *)

LEMMA OursFacts ==
    /\ \A x \in Ours : /\ x[1] \in Stores /\ x[2] \in DOMAIN tickets[x[1]]
                       /\ x = <<x[1], x[2]>> /\ By(x) # NoCall
                       /\ By(x) = tickets[x[1]][x[2]].by
    /\ \A s \in Stores : \A i \in DOMAIN tickets[s] :
           tickets[s][i].by # NoCall => <<s, i>> \in Ours /\ By(<<s, i>>) = tickets[s][i].by
BY DEF Ours, By

LEMMA InvImpliesSafe == FlowInv => OneIncidentPerCall /\ RepliesAreTrue
<1> SUFFICES ASSUME FlowInv PROVE OneIncidentPerCall /\ RepliesAreTrue
  OBVIOUS
<1>1. OneIncidentPerCall
  <2> SUFFICES ASSUME NEW x \in Ours, NEW y \in Ours, By(x) = By(y) PROVE x = y
    BY DEF OneIncidentPerCall
  <2>1. x[1] = y[1]
    BY OursFacts DEF FlowInv, IncidentsInv
  <2>2. x[2] = y[2]
    BY <2>1, OursFacts DEF FlowInv, IncidentsInv
  <2> QED
    BY <2>1, <2>2, OursFacts
<1>2. ASSUME NEW x \in Ours
      PROVE  LET c == By(x)
             IN  /\ call[c].tool = "raise"
                 /\ call[c].pc = "opened" \/ call[c].reply \in {"ok", "failed"}
                 /\ call[c].store = x[1]
                 /\ tickets[x[1]][x[2]].ci \in {CiOfCall(c), NoCI}
  BY OursFacts DEF FlowInv, IncidentsInv
<1>3. ASSUME NEW c \in Calls, Confirmed(c)
      PROVE  \E x \in Ours : By(x) = c /\ call[c].number = x[2]
  <2>1. call[c].store \in Stores /\ c # NoCall
    BY FlowAssumption DEF FlowInv, TypeOK, Call
  <2> DEFINE i == call[c].number
             x == <<call[c].store, i>>
  <2>2. i \in DOMAIN tickets[call[c].store] /\ tickets[call[c].store][i].by = c
    BY <1>3 DEF FlowInv, IncidentsInv
  <2>3. x \in Ours /\ By(x) = c /\ x[2] = i
    BY <2>1, <2>2, OursFacts
  <2> QED
    BY <2>2, <2>3
<1> QED
  BY <1>1, <1>2, <1>3 DEF RepliesAreTrue

\* However requests time out, fail, get lost or arrive late, a call opens at
\* most one incident.
THEOREM OnceOnly == Spec => []OneIncidentPerCall
BY FlowInvariant, InvImpliesSafe, PTL

\* Callers are told the truth about the incidents they opened, and a number is
\* that of an incident of the call's own.
THEOREM ToldTheTruth == Spec => []RepliesAreTrue
BY FlowInvariant, InvImpliesSafe, PTL

-----------------------------------------------------------------------------
(* What is seen of a raise is what Raising promises.                       *)

Requests == [c \in Calls |-> Asked(c)]
Answers  == [c \in Calls |-> Told(c)]

AskedIn(d) == IF d.tool = "raise" THEN {[store |-> d.store, shipment |-> d.shipment]}
              ELSE {}
ToldIn(d)  == [kind   |-> IF d.tool = "raise" THEN d.reply ELSE "none",
               number |-> IF d.reply = "ok" THEN d.number ELSE 0]

\* A step that changes one call is seen at that call only.
LEMMA OneCallSeen ==
    ASSUME TypeOK, NEW c \in Calls, NEW d, call' = [call EXCEPT ![c] = d]
    PROVE  /\ Requests' = [Requests EXCEPT ![c] = AskedIn(d)]
           /\ Answers' = [Answers EXCEPT ![c] = ToldIn(d)]
<1>1. call'[c] = d /\ \A b \in Calls : b # c => call'[b] = call[b]
  BY DEF TypeOK
<1>2. Asked(c)' = AskedIn(d) /\ Told(c)' = ToldIn(d)
  BY <1>1 DEF Asked, Told, AskedIn, ToldIn
<1>3. \A b \in Calls : b # c => Asked(b)' = Asked(b) /\ Told(b)' = Told(b)
  BY <1>1 DEF Asked, Told
<1> QED
  BY <1>2, <1>3 DEF Requests, Answers

\* The incidents as Raising sees them.
IncidentAt(s, n) == [call |-> tickets[s][n].by, store |-> s, number |-> n,
                     item |-> tickets[s][n].ci]

FiledIsOurs ==
    \A i : i \in Filed <=>
        \E s \in Stores : \E n \in DOMAIN tickets[s] :
            tickets[s][n].by # NoCall /\ i = IncidentAt(s, n)

LEMMA FiledFacts == FiledIsOurs
<1>1. Filed = {IncidentAt(x[1], x[2]) : x \in Ours}
  BY DEF Filed, By, IncidentAt
<1>2. ASSUME NEW i \in Filed
      PROVE  \E s \in Stores : \E n \in DOMAIN tickets[s] :
                 tickets[s][n].by # NoCall /\ i = IncidentAt(s, n)
  BY <1>1, <1>2, OursFacts
<1>3. ASSUME NEW s \in Stores, NEW n \in DOMAIN tickets[s], tickets[s][n].by # NoCall
      PROVE  IncidentAt(s, n) \in Filed
  <2>1. <<s, n>> \in Ours
    BY <1>3, OursFacts
  <2>2. IncidentAt(<<s, n>>[1], <<s, n>>[2]) \in Filed
    BY <1>1, <2>1
  <2> QED
    BY <2>2
<1> QED
  BY <1>2, <1>3 DEF FiledIsOurs

\* The incidents of a call.
LEMMA FiledOf ==
    ASSUME FlowInv, NEW c \in Calls
    PROVE  /\ call[c].pc \notin {"opened", "done"} \/ c \in late => Raised!Of(c) = {}
           /\ \A i \in Raised!Of(c) : call[c].tool = "raise"
<1>1. \A s \in Stores : \A n \in DOMAIN tickets[s] :
          tickets[s][n].by = c => /\ c \notin late /\ call[c].tool = "raise"
                                  /\ call[c].pc \in {"opened", "done"}
  BY FlowAssumption DEF FlowInv, IncidentsInv
<1> QED
  BY <1>1, FiledFacts DEF Raised!Of, FiledIsOurs, IncidentAt

\* What a call files is new to Raising, and all that is.
LEMMA FiledSeen ==
    ASSUME TypeOK, NEW store \in Stores, NEW ci \in CIs, NEW c \in Calls,
           FileTicket(store, ci, c)
    PROVE  \E i : /\ i = [call |-> c, store |-> store, number |-> Len(tickets[store]) + 1,
                          item |-> i.item]
                  /\ i.item \in {ci, NoCI}
                  /\ \A j \in Filed : j.store = store => j.number # i.number
                  /\ Filed' = Filed \cup {i}
<1> DEFINE n == Len(tickets[store]) + 1
           i == [call |-> c, store |-> store, number |-> n, item |-> tickets'[store][n].ci]
<1>1. /\ n \notin DOMAIN tickets[store]
      /\ DOMAIN tickets'[store] = DOMAIN tickets[store] \cup {n}
      /\ tickets'[store][n].by = c
      /\ tickets'[store][n].ci \in {ci, NoCI}
      /\ \A k \in DOMAIN tickets[store] : tickets'[store][k] = tickets[store][k]
      /\ \A s \in Stores : s # store => tickets'[s] = tickets[s]
  BY Filing
<1>2. \A j \in Filed : j.store = store => j.number # n
  BY <1>1, FiledFacts DEF FiledIsOurs, IncidentAt
<1>3. FiledIsOurs'
  BY FiledFacts, PTL
<1>4. \A s \in Stores : \A k \in DOMAIN tickets'[s] :
          \/ s = store /\ k = n
          \/ k \in DOMAIN tickets[s] /\ tickets'[s][k] = tickets[s][k]
  BY <1>1
<1>5. \A s \in Stores : \A k \in DOMAIN tickets[s] :
          k \in DOMAIN tickets'[s] /\ tickets'[s][k] = tickets[s][k]
  BY <1>1
<1>6. Filed' = Filed \cup {i}
  <2>1. ASSUME NEW j \in Filed' PROVE j \in Filed \cup {i}
    BY <1>3, <1>4, <1>1, <2>1, FiledFacts DEF FiledIsOurs, IncidentAt
  <2>2. ASSUME NEW j \in Filed PROVE j \in Filed'
    BY <1>3, <1>5, <2>2, FiledFacts DEF FiledIsOurs, IncidentAt
  <2>3. i \in Filed'
    BY <1>1, <1>3, FlowAssumption DEF FiledIsOurs, IncidentAt
  <2> QED
    BY <2>1, <2>2, <2>3
<1>7. i = [call |-> c, store |-> store, number |-> n, item |-> i.item] /\ i.item \in {ci, NoCI}
  BY <1>1
<1> QED
  BY <1>2, <1>6, <1>7

\* The incidents do not look different to Raising if no call files any.
LEMMA NothingNew ==
    ASSUME FlowInv,
           \/ tickets' = tickets
           \/ \E store \in Stores, ci \in CIs : FileTicket(store, ci, NoCall)
           \/ \E store \in Stores : \E k : OthersClose(store, k)
    PROVE  Filed' = Filed
<1>0. TypeOK /\ FiledIsOurs /\ FiledIsOurs'
  BY FiledFacts, PTL DEF FlowInv
<1>1. \A s \in Stores :
          /\ \A n \in DOMAIN tickets[s] :
                 /\ n \in DOMAIN tickets'[s]
                 /\ tickets'[s][n].by = tickets[s][n].by
                 /\ tickets'[s][n].ci = tickets[s][n].ci
          /\ \A n \in DOMAIN tickets'[s] : n \in DOMAIN tickets[s] \/ tickets'[s][n].by = NoCall
  <2>1. CASE tickets' = tickets
    BY <2>1
  <2>2. ASSUME NEW store \in Stores, NEW ci \in CIs, FileTicket(store, ci, NoCall)
        PROVE  <1>1!:
    BY <1>0, <2>2, Filing
  <2>3. ASSUME NEW store \in Stores, NEW k, OthersClose(store, k)
        PROVE  <1>1!:
    BY <1>0, <2>3, Closing
  <2> QED
    BY <2>1, <2>2, <2>3
<1>2. \A i : i \in Filed' <=> i \in Filed
  BY <1>0, <1>1 DEF FiledIsOurs, IncidentAt
<1> QED
  BY <1>2

\* A step that leaves what a call asked and was told is not seen in the call.
LEMMA NothingSaid ==
    ASSUME TypeOK, NEW c \in Calls, NEW d, call' = [call EXCEPT ![c] = d],
           AskedIn(d) = Asked(c), ToldIn(d) = Told(c)
    PROVE  Requests' = Requests /\ Answers' = Answers
<1>1. /\ Requests' = [Requests EXCEPT ![c] = AskedIn(d)]
      /\ Answers' = [Answers EXCEPT ![c] = ToldIn(d)]
  BY OneCallSeen
<1>2. /\ Requests[c] = AskedIn(d) /\ DOMAIN Requests = Calls
      /\ Requests = [b \in DOMAIN Requests |-> Requests[b]]
  BY DEF Requests
<1>3. /\ Answers[c] = ToldIn(d) /\ DOMAIN Answers = Calls
      /\ Answers = [b \in DOMAIN Answers |-> Answers[b]]
  BY DEF Answers
<1> QED
  BY <1>1, <1>2, <1>3

\* A call that has not ended has been told nothing.
LEMMA NotTold ==
    ASSUME FlowInv, NEW c \in Calls
    PROVE  /\ call[c].pc # "done" => Told(c) = Raised!NoAnswer
           /\ call[c].pc \in {"idle", "lookup", "search"} => Asked(c) = {}
           /\ call[c].tool = "assess" => Asked(c) = {} /\ Told(c).kind = "none"
           /\ call[c].tool = "raise" =>
                  Asked(c) = {[store |-> call[c].store, shipment |-> call[c].shipment]}
BY DEF FlowInv, CallsInv, Told, Asked, Raised!NoAnswer

\* A call without an incident files its one: Raising's Open.
LEMMA OpenSeen ==
    ASSUME FlowInv, NEW c \in Calls, NEW store \in Stores, NEW shipment \in Shipments,
           call[c].pc \notin {"opened", "done"} \/ c \in late,
           FileTicket(store, CiOf[shipment], c)
    PROVE  \E i \in Filed' :
               /\ i.number = Len(tickets[store]) + 1
               /\ Raised!Open(c, [store |-> store, shipment |-> shipment], i)
<1>1. CiOf[shipment] \in CIs /\ ItemsOf(shipment) = {CiOf[shipment], NoCI}
  BY FlowAssumption DEF ItemsOf
<1>2. TypeOK /\ Len(tickets[store]) + 1 \in Nat \ {0}
  BY DEF FlowInv, TypeOK
<1>3. PICK i : /\ i = [call |-> c, store |-> store, number |-> Len(tickets[store]) + 1,
                       item |-> i.item]
               /\ i.item \in {CiOf[shipment], NoCI}
               /\ \A j \in Filed : j.store = store => j.number # i.number
               /\ Filed' = Filed \cup {i}
  BY <1>1, <1>2, FiledSeen
<1>4. i.number = Len(tickets[store]) + 1 /\ i.store = store
  BY <1>3
<1>5. i \in Raised!Incident(c, [store |-> store, shipment |-> shipment])
  BY <1>1, <1>2, <1>3 DEF Raised!Incident
<1>6. Raised!Of(c) = {}
  BY FiledOf
<1> QED
  BY <1>3, <1>4, <1>5, <1>6 DEF Raised!Open

\* Raising's view of a step that begins a raise (raise_shipment_incident).
LEMMA BegunSeen ==
    ASSUME FlowInv, NEW c \in Calls, NEW store \in Stores,
           NEW shipment \in Shipments \cup {Unknown}, NEW pc, NEW reply, NEW number,
           call[c].pc = "idle", Begin(c, "raise", store, shipment, pc, reply, number)
    PROVE  LET r == [store |-> store, shipment |-> shipment]
           IN  /\ r \in Raised!Request /\ Raised!Ask(c, r)
               /\ reply = "none" => Answers' = Answers
               /\ reply # "none" =>
                      Raised!Tell(c, reply, IF reply = "ok" THEN number ELSE 0)
<1> DEFINE r == [store |-> store, shipment |-> shipment]
           d == [pc |-> pc, tool |-> "raise", store |-> store, shipment |-> shipment,
                 found |-> FALSE, reply |-> reply, number |-> number]
           told == IF reply = "ok" THEN number ELSE 0
<1>1. AskedIn(d) = {r} /\ ToldIn(d) = [kind |-> reply, number |-> told]
  BY DEF AskedIn, ToldIn
<1>2. call' = [call EXCEPT ![c] = d] /\ TypeOK
  BY DEF Begin, FlowInv
<1>3. Asked(c) = {} /\ Told(c) = [kind |-> "none", number |-> 0]
  BY NotTold DEF Raised!NoAnswer
<1> HIDE DEF d, r, told
<1>4. /\ Requests' = [Requests EXCEPT ![c] = {r}]
      /\ Answers' = [Answers EXCEPT ![c] = [kind |-> reply, number |-> told]]
  <2>1. /\ Requests' = [Requests EXCEPT ![c] = AskedIn(d)]
        /\ Answers' = [Answers EXCEPT ![c] = ToldIn(d)]
    BY <1>2, OneCallSeen
  <2> QED
    BY <1>1, <2>1
<1>5. Raised!Ask(c, r)
  BY <1>3, <1>4 DEF Raised!Ask, Requests
<1>6. ASSUME reply = "none" PROVE Answers' = Answers
  <2>1. ToldIn(d) = Told(c)
    BY <1>1, <1>3, <1>6 DEF told
  <2>2. /\ Answers[c] = Told(c) /\ Answers = [b \in DOMAIN Answers |-> Answers[b]]
        /\ DOMAIN Answers = Calls
    BY DEF Answers
  <2> QED
    BY <1>1, <1>4, <2>1, <2>2
<1>7. Raised!Tell(c, reply, told)
  BY <1>3, <1>4 DEF Raised!Tell, Raised!NoAnswer, Answers
<1>8. r \in Raised!Request
  BY DEF r, Raised!Request
<1> QED
  BY <1>5, <1>6, <1>7, <1>8 DEF r, told

LEMMA AssessUnseen ==
    ASSUME FlowInv, NEW c \in Calls, Assess(c)
    PROVE  UNCHANGED Raised!vars
<1>1. PICK store, shipment, pc, reply :
          /\ Begin(c, "assess", store, shipment, pc, reply, 0)
          /\ call[c].pc = "idle" /\ UNCHANGED tickets
  BY DEF Assess, Refuse, MockAssess, LiveAssess
<1> DEFINE d == [pc |-> pc, tool |-> "assess", store |-> store, shipment |-> shipment,
                 found |-> FALSE, reply |-> reply, number |-> 0]
<1>2. call' = [call EXCEPT ![c] = d] /\ TypeOK
  BY <1>1 DEF Begin, FlowInv
<1>3. AskedIn(d) = Asked(c) /\ ToldIn(d) = Told(c)
  BY <1>1, NotTold DEF AskedIn, ToldIn, Raised!NoAnswer
<1> HIDE DEF d
<1>4. Requests' = Requests /\ Answers' = Answers
  BY <1>2, <1>3, NothingSaid
<1>5. Filed' = Filed
  BY <1>1, NothingNew
<1> QED
  BY <1>4, <1>5 DEF Raised!vars, Requests, Answers

LEMMA RaiseSeen ==
    ASSUME FlowInv, NEW c \in Calls, Raise(c)
    PROVE  Raised!Next
<1>1. PICK store \in Stores, shipment \in Shipments \cup {Unknown} :
          \/ \E urgencyKnown \in BOOLEAN : Refuse(c, "raise", store, shipment, urgencyKnown)
          \/ MockRaise(c, store, shipment)
          \/ LiveRaise(c, store, shipment)
  BY DEF Raise
<1> DEFINE r == [store |-> store, shipment |-> shipment]
           refused == /\ call[c].pc = "idle" /\ UNCHANGED tickets
                      /\ Begin(c, "raise", store, shipment, "done", "refused", 0)
           ok == /\ call[c].pc = "idle" /\ shipment \in Shipments
                 /\ FileTicket(store, CiOf[shipment], c)
                 /\ Begin(c, "raise", store, shipment, "done", "ok", Len(tickets[store]) + 1)
<1>2. CASE refused
  <2>1. r \in Raised!Request /\ Raised!Ask(c, r) /\ Raised!Tell(c, "refused", 0)
    BY <1>1, <1>2, BegunSeen
  <2>2. Filed' = Filed
    BY <1>2, NothingNew
  <2>3. Raised!Serve(c)
    BY <2>1, <2>2 DEF Raised!Serve
  <2> QED
    BY <2>3 DEF Raised!Next
<1>3. CASE ok
  <2> DEFINE n == Len(tickets[store]) + 1
  <2>1. r \in Raised!Request /\ Raised!Ask(c, r) /\ Raised!Tell(c, "ok", n)
    BY <1>1, <1>3, BegunSeen
  <2>2. PICK i \in Filed' : i.number = n /\ Raised!Open(c, r, i)
    BY <1>3, OpenSeen
  <2>3. Raised!Serve(c)
    BY <2>1, <2>2 DEF Raised!Serve
  <2> QED
    BY <2>3 DEF Raised!Next
<1>4. CASE LiveRaise(c, store, shipment)
  <2>1. /\ call[c].pc = "idle" /\ UNCHANGED tickets
        /\ Begin(c, "raise", store, shipment, "posting", "none", 0)
    BY <1>4 DEF LiveRaise
  <2>2. r \in Raised!Request /\ Raised!Ask(c, r) /\ Answers' = Answers
    BY <1>1, <2>1, BegunSeen
  <2>3. Filed' = Filed
    BY <2>1, NothingNew
  <2>4. Raised!Begin(c)
    BY <2>2, <2>3 DEF Raised!Begin, Answers
  <2> QED
    BY <2>4 DEF Raised!Next
<1> QED
  BY <1>1, <1>2, <1>3, <1>4 DEF Refuse, MockRaise

\* A call under way asks for nothing more; what it is told, if anything, is
\* what its record says.
LEMMA OngoingSeen ==
    ASSUME FlowInv, NEW c \in Calls, NEW d, call' = [call EXCEPT ![c] = d],
           call[c].pc # "done", d.tool = call[c].tool,
           d.store = call[c].store, d.shipment = call[c].shipment
    PROVE  /\ Requests' = Requests
           /\ (call[c].tool = "assess" /\ d.reply # "ok") \/ d.reply = "none" =>
                  Answers' = Answers
           /\ call[c].tool = "raise" =>
                  Raised!Tell(c, d.reply, IF d.reply = "ok" THEN d.number ELSE 0)
<1>0. TypeOK /\ call[c].tool \in Tools
  BY DEF FlowInv, TypeOK, Call
<1>1. /\ Requests' = [Requests EXCEPT ![c] = AskedIn(d)]
      /\ Answers' = [Answers EXCEPT ![c] = ToldIn(d)]
  BY <1>0, OneCallSeen
<1>2. AskedIn(d) = Asked(c) /\ Told(c) = [kind |-> "none", number |-> 0]
  BY NotTold DEF AskedIn, Asked, Raised!NoAnswer
<1>3. Requests' = Requests
  <2>1. /\ Requests[c] = Asked(c) /\ DOMAIN Requests = Calls
        /\ Requests = [b \in DOMAIN Requests |-> Requests[b]]
    BY DEF Requests
  <2> QED
    BY <1>1, <1>2, <2>1
<1>4. ASSUME (call[c].tool = "assess" /\ d.reply # "ok") \/ d.reply = "none"
      PROVE  Answers' = Answers
  <2>1. ToldIn(d) = Told(c)
    BY <1>0, <1>2, <1>4 DEF ToldIn, Tools
  <2>2. /\ Answers[c] = Told(c) /\ DOMAIN Answers = Calls
        /\ Answers = [b \in DOMAIN Answers |-> Answers[b]]
    BY DEF Answers
  <2> QED
    BY <1>1, <2>1, <2>2
<1>5. ASSUME call[c].tool = "raise"
      PROVE  Raised!Tell(c, d.reply, IF d.reply = "ok" THEN d.number ELSE 0)
  <2>1. ToldIn(d) = [kind |-> d.reply, number |-> IF d.reply = "ok" THEN d.number ELSE 0]
    BY <1>5 DEF ToldIn
  <2>2. Answers' = [Answers EXCEPT ![c] =
            [kind |-> d.reply, number |-> IF d.reply = "ok" THEN d.number ELSE 0]]
    BY <1>1, <2>1
  <2> QED
    BY <1>2, <2>2 DEF Raised!Tell, Raised!NoAnswer, Answers
<1> QED
  BY <1>3, <1>4, <1>5

\* A request under way is answered, or is acted on first (LiveServiceNow).
LEMMA ProceedSeen ==
    ASSUME FlowInv, NEW c \in Calls, Proceed(c)
    PROVE  Raised!Next \/ UNCHANGED Raised!vars
<1>0. /\ TypeOK /\ call[c] \in Call /\ call[c].store \in Stores
      /\ call[c].pc # "done" => call[c].reply = "none"
      /\ call[c].pc # "done" =>
             (call[c].tool = "raise" <=> call[c].pc \in {"posting", "opened"})
      /\ call[c].tool \in {"assess", "raise"}
  BY DEF FlowInv, TypeOK, CallsInv, Call, Tools
<1>E. ASSUME NEW reply
      PROVE  LET d == Ended(c, reply)
             IN  /\ d.pc = "done" /\ d.reply = reply
                 /\ d.tool = call[c].tool /\ d.store = call[c].store
                 /\ d.shipment = call[c].shipment /\ d.number = call[c].number
  BY <1>0 DEF Ended, Call
<1>F. tickets' = tickets => Filed' = Filed
  BY NothingNew
<1>1. ASSUME NEW hasResult \in BOOLEAN, Lookup(c, hasResult)
      PROVE  UNCHANGED Raised!vars
  <2> DEFINE known == hasResult /\ CiOfCall(c) \in cmdb[call[c].store]
             d == [call[c] EXCEPT !.pc = "search", !.found = known]
  <2>1. call' = [call EXCEPT ![c] = d] /\ call[c].pc = "lookup" /\ tickets' = tickets
    BY <1>1 DEF Lookup
  <2> HIDE DEF known
  <2>2. /\ d.reply = "none" /\ d.tool = call[c].tool /\ d.store = call[c].store
        /\ d.shipment = call[c].shipment
    BY <1>0, <2>1 DEF Call
  <2> HIDE DEF d
  <2>3. Requests' = Requests /\ Answers' = Answers
    BY <2>1, <2>2, OngoingSeen
  <2> QED
    BY <1>F, <2>1, <2>3 DEF Raised!vars, Requests, Answers
<1>2. ASSUME NEW hasResult \in BOOLEAN, Search(c, hasResult)
      PROVE  UNCHANGED Raised!vars
  <2> DEFINE open == hasResult /\ OpenOn(call[c].store, CiOfCall(c))
             advice == AdviceFor(call[c].shipment, call[c].found, open)
  <2>1. open \in BOOLEAN
    OBVIOUS
  <2>2. advice # "ok"
    <3>1. call[c].found \in BOOLEAN
      BY <1>0 DEF Call
    <3>2. advice \in Advice
      BY <2>1, <3>1, AdviceTyped
    <3> QED
      BY <3>2 DEF Advice
  <2>3. /\ call' = [call EXCEPT ![c] = Ended(c, advice)] /\ call[c].pc = "search"
        /\ tickets' = tickets
    BY <1>2 DEF Search, End
  <2> DEFINE d == Ended(c, advice)
  <2>4. /\ d.reply = advice /\ d.tool = call[c].tool /\ d.store = call[c].store
        /\ d.shipment = call[c].shipment
    BY <1>E
  <2> HIDE DEF d
  <2>5. Requests' = Requests /\ Answers' = Answers
    BY <1>0, <2>2, <2>3, <2>4, OngoingSeen DEF d
  <2> QED
    BY <1>F, <2>3, <2>5 DEF Raised!vars, Requests, Answers
<1>3. CASE Post(c)
  <2> DEFINE n == Len(tickets[call[c].store]) + 1
             d == [call[c] EXCEPT !.pc = "opened", !.number = n]
             r == [store |-> call[c].store, shipment |-> call[c].shipment]
  <2>1. /\ call' = [call EXCEPT ![c] = d] /\ call[c].pc = "posting"
        /\ FileTicket(call[c].store, CiOfCall(c), c)
    BY <1>3 DEF Post
  <2>2. /\ d.reply = "none" /\ d.shipment = call[c].shipment /\ d.tool = call[c].tool
        /\ d.store = call[c].store
    BY <1>0, <2>1 DEF Call
  <2> HIDE DEF d
  <2>3. Requests' = Requests /\ Answers' = Answers
    BY <2>1, <2>2, OngoingSeen
  <2>4. Asked(c) = {r} /\ Told(c) \in Raised!Unsettled
    BY <1>0, <2>1, NotTold DEF Raised!NoAnswer, Raised!Unsettled
  <2>5. call[c].shipment \in Shipments
    BY <2>1 DEF FlowInv, CallsInv
  <2>6. PICK i \in Filed' : Raised!Open(c, r, i)
    BY <1>0, <2>1, <2>5, OpenSeen DEF CiOfCall
  <2>7. Raised!Act(c)
    BY <2>3, <2>4, <2>6 DEF Raised!Act, Requests, Answers
  <2> QED
    BY <2>7 DEF Raised!Next
<1>4. CASE Receive(c)
  <2> DEFINE d == Ended(c, "ok")
  <2>1. call' = [call EXCEPT ![c] = d] /\ call[c].pc = "opened" /\ tickets' = tickets
    BY <1>4 DEF Receive, End
  <2>2. /\ d.reply = "ok" /\ d.number = call[c].number
        /\ d.shipment = call[c].shipment /\ d.tool = call[c].tool
        /\ d.store = call[c].store
    BY <1>E
  <2> HIDE DEF d
  <2>3. Requests' = Requests /\ Raised!Tell(c, "ok", d.number)
    BY <1>0, <2>1, <2>2, OngoingSeen
  <2>4. /\ call[c].number \in DOMAIN tickets[call[c].store]
        /\ tickets[call[c].store][call[c].number].by = c
    BY <2>1 DEF FlowInv, IncidentsInv
  <2> DEFINE i == IncidentAt(call[c].store, call[c].number)
  <2>5. i \in Filed /\ i.call = c /\ i.number = call[c].number
    BY <1>0, <2>4, FiledFacts, FlowAssumption DEF FiledIsOurs, IncidentAt
  <2>6. i \in Raised!Of(c)
    BY <2>5 DEF Raised!Of
  <2>7. Asked(c) # {}
    BY <1>0, <2>1, NotTold
  <2>8. Raised!End(c)
    BY <1>F, <2>1, <2>2, <2>3, <2>5, <2>6, <2>7 DEF Raised!End, Requests
  <2> QED
    BY <2>8 DEF Raised!Next
<1>5. CASE ReceiveBlank(c)
  <2> DEFINE d == [Ended(c, "ok") EXCEPT !.number = 0]
  <2>1. /\ call' = [call EXCEPT ![c] = d] /\ tickets' = tickets
        /\ call[c].pc \in {"posting", "opened"}
    BY <1>5 DEF ReceiveBlank
  <2>2. /\ d.reply = "ok" /\ d.number = 0
        /\ d.tool = call[c].tool /\ d.store = call[c].store
        /\ d.shipment = call[c].shipment
    BY <1>0 DEF Ended, Call
  <2> HIDE DEF d
  <2>3. Requests' = Requests /\ Raised!Tell(c, "ok", 0)
    BY <1>0, <2>1, <2>2, OngoingSeen
  <2>4. Asked(c) # {}
    BY <1>0, <2>1, NotTold
  <2>5. Raised!End(c)
    BY <1>F, <2>1, <2>3, <2>4 DEF Raised!End, Requests
  <2> QED
    BY <2>5 DEF Raised!Next
<1>6. CASE Fail(c)
  <2> DEFINE d == Ended(c, "failed")
  <2>1. /\ call' = [call EXCEPT ![c] = d] /\ tickets' = tickets
        /\ call[c].pc \notin {"idle", "done"}
    BY <1>6 DEF Fail, End
  <2>2. /\ d.reply = "failed" /\ d.tool = call[c].tool /\ d.store = call[c].store
        /\ d.shipment = call[c].shipment
    BY <1>E
  <2> HIDE DEF d
  <2>3. CASE call[c].tool = "assess"
    <3>1. Requests' = Requests /\ Answers' = Answers
      BY <2>1, <2>2, <2>3, OngoingSeen
    <3> QED
      BY <1>F, <2>1, <3>1 DEF Raised!vars, Requests, Answers
  <2>4. CASE call[c].tool = "raise"
    <3>1. Requests' = Requests /\ Raised!Tell(c, "failed", 0)
      BY <2>1, <2>2, <2>4, OngoingSeen
    <3>2. Asked(c) # {}
      BY <2>4, NotTold
    <3>3. Raised!End(c)
      BY <1>F, <2>1, <3>1, <3>2 DEF Raised!End, Requests
    <3> QED
      BY <3>3 DEF Raised!Next
  <2> QED
    BY <1>0, <2>3, <2>4
<1> QED
  BY <1>1, <1>2, <1>3, <1>4, <1>5, <1>6 DEF Proceed, Advance

\* A POST nobody waits for may still be acted on; others are not seen.
LEMMA InstanceSeen ==
    ASSUME FlowInv, Others \/ \E c \in Calls : Stray(c)
    PROVE  Raised!Next \/ UNCHANGED Raised!vars
<1>0. /\ Requests = Requests' /\ Answers = Answers'
  <2>1. call' = call
    BY DEF Others, Stray, OthersOpen, OthersClose, OthersAddItem, OthersRetireItem,
           LatePost, LateLoss
  <2> QED
    BY <2>1 DEF Requests, Answers, Asked, Told
<1>1. ASSUME NEW c \in Calls, LatePost(c) PROVE Raised!Next
  <2> DEFINE r == [store |-> call[c].store, shipment |-> call[c].shipment]
  <2>1. c \in late /\ FileTicket(call[c].store, CiOfCall(c), c)
    BY <1>1 DEF LatePost
  <2>2. /\ InDoubt(c) /\ call[c].tool = "raise"
        /\ call[c].store \in Stores /\ call[c].shipment \in Shipments
    BY <2>1 DEF FlowInv, CallsInv, TypeOK, Call
  <2>3. Asked(c) = {r} /\ Told(c) \in Raised!Unsettled
    BY <2>2 DEF Asked, Told, InDoubt, Raised!Unsettled
  <2>4. PICK i \in Filed' : Raised!Open(c, r, i)
    BY <2>1, <2>2, OpenSeen DEF CiOfCall
  <2>5. Raised!Act(c)
    BY <1>0, <2>3, <2>4 DEF Raised!Act, Requests, Answers
  <2> QED
    BY <2>5 DEF Raised!Next
<1>2. CASE ~\E c \in Calls : LatePost(c)
  <2>1. Filed' = Filed
    <3>1. \/ tickets' = tickets
          \/ \E store \in Stores, ci \in CIs : FileTicket(store, ci, NoCall)
          \/ \E store \in Stores : \E k : OthersClose(store, k)
      BY <1>2 DEF Others, Stray, OthersOpen, OthersAddItem, OthersRetireItem, LateLoss
    <3> QED
      BY <3>1, NothingNew
  <2> QED
    BY <1>0, <2>1 DEF Raised!vars, Requests, Answers
<1> QED
  BY <1>1, <1>2

\* The lighthouse flow implements Raising, for any calls on any mocks and
\* instances: whatever happens to its requests, a raise files one incident or
\* none, where it was asked to, and is told nothing that is or becomes untrue
\* (raise_shipment_incident, LiveServiceNow.create_incident).
THEOREM RaisingIsKept == Spec => RaisesAsPromised
<1>1. Init => Raised!Init
  <2> SUFFICES ASSUME Init PROVE Raised!Init
    OBVIOUS
  <2>1. \A c \in Calls : call[c].tool = "assess" /\ call[c].reply = "none"
    BY DEF Init
  <2>2. \A c \in Calls : Asked(c) = {} /\ Told(c) = [kind |-> "none", number |-> 0]
    <3> SUFFICES ASSUME NEW c \in Calls
                 PROVE  Asked(c) = {} /\ Told(c) = [kind |-> "none", number |-> 0]
      OBVIOUS
    <3>1. call[c].tool # "raise" /\ call[c].reply # "ok"
      BY <2>1
    <3> QED
      BY <3>1 DEF Asked, Told
  <2>3. \A s \in Stores : \A n \in DOMAIN tickets[s] : tickets[s][n].by = NoCall
    BY DEF Init
  <2>4. Filed = {}
    BY <2>3, FiledFacts DEF FiledIsOurs
  <2> QED
    BY <2>2, <2>4 DEF Raised!Init, Raised!NoAnswer
<1>2. FlowInv /\ [Next]_vars => [Raised!Next]_(Raised!vars)
  <2> SUFFICES ASSUME FlowInv, [Next]_vars PROVE Raised!Next \/ UNCHANGED Raised!vars
    OBVIOUS
  <2>1. CASE UNCHANGED vars
    BY <2>1 DEF vars, Raised!vars, Asked, Told, Filed, Ours, By
  <2> QED
    BY <2>1, AssessUnseen, RaiseSeen, ProceedSeen, InstanceSeen DEF Next
<1> QED
  BY <1>1, <1>2, FlowInvariant, PTL DEF Spec, RaisesAsPromised, Raised!Spec
=============================================================================
