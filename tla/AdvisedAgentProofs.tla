------------------------- MODULE AdvisedAgentProofs --------------------------
(***************************************************************************)
(* Theorems about AdvisedAgent, for any number of agents, calls and stores *)
(* and both connectors.                                                    *)
(***************************************************************************)
EXTENDS AdvisedAgent, IncidentFlowProofs

\* An assessment that recommends raising, or a raise.
Follows(c) == call[c].pc # "idle" /\ (call[c].tool = "assess" => call[c].reply = "raise")

\* Whoever was advised to raise saw no incident, and so none of a call it has
\* heard, except one of which the instance did not say what it had become.
Saw(c) ==
    \A i \in DOMAIN tickets[call[c].store] :
        LET t == tickets[call[c].store][i]
        IN  t.by \in heard[c] /\ t.open /\ t.ci = CiOfCall(c) => ~Confirmed(t.by)

AdviceInv ==
    /\ last \in [Agents -> Calls \cup {NoCall}]
    /\ heard \in [Calls -> SUBSET Calls]
    /\ \A c \in Calls : heard[c] \subseteq Over
    /\ \A c \in Calls : Follows(c) => Saw(c)

-----------------------------------------------------------------------------
(* Agents are callers like any other.                                      *)

LEMMA AgentsStep == [AgentNext]_agentVars => [Next]_vars
BY DEF AgentNext, AgentAssess, AgentRaise, AgentHearsNothing, Next, Raise, Proceed,
       agentVars, vars

LEMMA AgentsFlow == AgentSpec => []FlowInv
<1>1. AgentInit => Init
  BY DEF AgentInit
<1>2. AgentSpec => Spec
  BY <1>1, AgentsStep, PTL DEF AgentSpec, Spec
<1> QED
  BY <1>2, FlowInvariant, PTL

-----------------------------------------------------------------------------
(* What a step does to the incidents, and to calls that are over.          *)

\* An open incident was there before, or its call was not over, or had been
\* given up.
New(s, j) == tickets'[s][j].by \notin Over \/ tickets'[s][j].by \in late

Old(s, j) ==
    /\ j \in DOMAIN tickets[s] /\ tickets[s][j].open
    /\ tickets'[s][j].by = tickets[s][j].by /\ tickets'[s][j].ci = tickets[s][j].ci

Incidents == \A s \in Stores : \A j \in DOMAIN tickets'[s] :
                 tickets'[s][j].open => New(s, j) \/ Old(s, j)

LEMMA IncidentsFiled ==
    ASSUME TypeOK, NEW store \in Stores, NEW ci \in CIs, NEW by \in Calls \cup {NoCall},
           FileTicket(store, ci, by), by \notin Over \/ by \in late
    PROVE  Incidents
BY Filing DEF Incidents, New, Old, FileTicket, TypeOK

LEMMA IncidentsSame ==
    ASSUME tickets' = tickets PROVE Incidents
BY DEF Incidents, Old

\* search_incidents found nothing when the advice was to raise
\* (assess_shipment_delay).
LEMMA RaiseMeansNone ==
    ASSUME NEW shipment, NEW found \in BOOLEAN, NEW open \in BOOLEAN,
           AdviceFor(shipment, found, open) = "raise"
    PROVE  ~open
BY DEF AdviceFor

\* Other users may close an incident; none is opened again.
LEMMA IncidentsClosed ==
    ASSUME TypeOK, NEW store \in Stores, NEW k, OthersClose(store, k)
    PROVE  Incidents
<1> DEFINE list == tickets[store]
           shut == [list[k] EXCEPT !.open = FALSE]
<1>1. list \in Seq(Ticket) /\ k \in DOMAIN list /\ list[k] \in Ticket
  BY DEF TypeOK, OthersClose
<1>2. tickets' = [tickets EXCEPT ![store] = [list EXCEPT ![k] = shut]]
  BY DEF OthersClose
<1>3. shut.open = FALSE
  BY <1>1 DEF Ticket
<1>4. /\ \A s \in Stores : s # store => tickets'[s] = tickets[s]
      /\ tickets'[store] = [list EXCEPT ![k] = shut]
  BY <1>2 DEF TypeOK
<1>5. ASSUME NEW s \in Stores, NEW j \in DOMAIN tickets'[s], tickets'[s][j].open
      PROVE  Old(s, j)
  <2>1. CASE s # store
    BY <2>1, <1>4, <1>5 DEF Old
  <2>2. CASE s = store /\ j # k
    BY <2>2, <1>4, <1>5 DEF Old
  <2>3. CASE s = store /\ j = k
    BY <2>3, <1>1, <1>3, <1>4, <1>5
  <2> QED
    BY <2>1, <2>2, <2>3
<1> QED
  BY <1>5 DEF Incidents

\* What the calls that go on and the instance do to a call: one that is over
\* stays as it is, and one that is advised to raise saw no open incident.
Ongoing(b) ==
    /\ b \in Over => call'[b] = call[b]
    /\ call'[b].pc = "idle" <=> call[b].pc = "idle"
    /\ call'[b].tool = call[b].tool
    /\ call'[b].store = call[b].store
    /\ call'[b].shipment = call[b].shipment
    /\ call[b].tool = "assess" /\ call'[b].reply = "raise" =>
           \/ call[b].reply = "raise"
           \/ tickets' = tickets /\ ~OpenOn(call[b].store, CiOfCall(b))

LEMMA SearchSees ==
    ASSUME TypeOK, NEW c \in Calls, Search(c, TRUE)
    PROVE  Ongoing(c) /\ tickets' = tickets
<1> DEFINE open == OpenOn(call[c].store, CiOfCall(c))
           found == call[c].found
           advice == AdviceFor(call[c].shipment, found, open)
<1>1. call[c] \in Call /\ found \in BOOLEAN
  BY DEF TypeOK, Call
<1>2. open \in BOOLEAN
  BY Zenon DEF OpenOn
<1>3. advice = "raise" => ~open
  BY <1>1, <1>2, RaiseMeansNone
<1>4. call'[c] = [call[c] EXCEPT !.pc = "done", !.reply = advice]
  <2>1. End(c, AdviceFor(call[c].shipment, found, TRUE /\ open))
    BY DEF Search
  <2>2. (TRUE /\ open) = open
    BY <1>2
  <2> QED
    BY <2>1, <2>2 DEF End, Ended, TypeOK
<1>5. call[c].pc = "search" /\ tickets' = tickets
  BY DEF Search
<1> HIDE DEF open, advice
<1>6. /\ call'[c].pc = "done" /\ call'[c].reply = advice
      /\ call'[c].tool = call[c].tool /\ call'[c].store = call[c].store
      /\ call'[c].shipment = call[c].shipment
  BY <1>1, <1>4 DEF Call
<1> QED
  BY <1>3, <1>5, <1>6 DEF Ongoing, Over, open

LEMMA AdvanceGoesOn ==
    ASSUME FlowInv, NEW c \in Calls, Advance(c)
    PROVE  Incidents /\ \A b \in Calls : Ongoing(b)
<1>0. TypeOK /\ call \in [Calls -> Call] /\ call[c] \in Call /\ call[c].store \in Stores
  BY DEF FlowInv, TypeOK, Call
<1>1. /\ call[c].pc \notin {"idle", "done"}
      /\ \A b \in Calls : b # c => call'[b] = call[b]
  BY <1>0 DEF Advance, Lookup, Search, Post, Receive, ReceiveBlank, Fail, End
<1>2. \A b \in Calls : b # c => Ongoing(b)
  BY <1>1 DEF Ongoing
<1>3. CASE Search(c, TRUE)
  BY <1>0, <1>2, <1>3, SearchSees, IncidentsSame
<1>4. ASSUME /\ call'[c].pc # "idle" /\ call'[c].tool = call[c].tool
             /\ call'[c].store = call[c].store /\ call'[c].shipment = call[c].shipment
             /\ call'[c].reply \in {call[c].reply, "ok", "failed"}
      PROVE  \A b \in Calls : Ongoing(b)
  BY <1>1, <1>2, <1>4 DEF Ongoing, Over
<1>5. ASSUME NEW hasResult \in BOOLEAN, Lookup(c, hasResult)
      PROVE  Incidents /\ \A b \in Calls : Ongoing(b)
  BY <1>0, <1>4, <1>5, IncidentsSame DEF Lookup, Call
<1>6. CASE Post(c)
  <2>1. CiOfCall(c) \in CIs
    BY <1>1, FlowAssumption DEF FlowInv, CallsInv, CiOfCall
  <2>2. Incidents
    BY <1>0, <1>1, <1>6, <2>1, IncidentsFiled DEF Post, Over
  <2> QED
    BY <1>0, <1>4, <1>6, <2>2 DEF Post, Call
<1>7. CASE Receive(c)
  BY <1>0, <1>4, <1>7, IncidentsSame DEF Receive, End, Ended, Call
<1>8. CASE ReceiveBlank(c)
  BY <1>0, <1>4, <1>8, IncidentsSame DEF ReceiveBlank, Ended, Call
<1>9. CASE Fail(c)
  BY <1>0, <1>4, <1>9, IncidentsSame DEF Fail, End, Ended, Call
<1> QED
  BY <1>3, <1>5, <1>6, <1>7, <1>8, <1>9 DEF Advance

LEMMA InstanceGoesOn ==
    ASSUME FlowInv, Others \/ \E c \in Calls : Stray(c)
    PROVE  Incidents /\ \A b \in Calls : Ongoing(b)
<1>0. TypeOK
  BY DEF FlowInv
<1>1. call' = call
  BY DEF Others, Stray, LatePost, LateLoss, OthersOpen, OthersClose, OthersAddItem,
         OthersRetireItem
<1>2. \A b \in Calls : Ongoing(b)
  BY <1>1 DEF Ongoing
<1>3. ASSUME NEW c \in Calls, LatePost(c)
      PROVE  Incidents
  <2>1. CiOfCall(c) \in CIs /\ call[c].store \in Stores
    BY <1>0, <1>3, FlowAssumption DEF FlowInv, CallsInv, CiOfCall, LatePost, TypeOK, Call
  <2> QED
    BY <1>0, <1>3, <2>1, IncidentsFiled DEF LatePost
<1>4. ASSUME NEW store \in Stores, NEW ci \in CIs, OthersOpen(store, ci)
      PROVE  Incidents
  <2>1. NoCall \notin Over
    BY FlowAssumption DEF Over
  <2> QED
    BY <1>0, <1>4, <2>1, IncidentsFiled DEF OthersOpen
<1>5. ASSUME NEW store \in Stores, NEW k, OthersClose(store, k)
      PROVE  Incidents
  BY <1>0, <1>5, IncidentsClosed
<1>6. ASSUME tickets' = tickets
      PROVE  Incidents
  BY <1>6, IncidentsSame
<1> QED
  BY <1>2, <1>3, <1>4, <1>5, <1>6
     DEF Others, Stray, LateLoss, OthersAddItem, OthersRetireItem

-----------------------------------------------------------------------------
(* The invariant.                                                          *)

\* What a call saw still holds after a step that leaves the call and what it
\* has heard alone.
LEMMA StillSeen ==
    ASSUME FlowInv, AdviceInv, Incidents, NEW c \in Calls, Saw(c),
           \A b \in Over : call'[b] = call[b],
           call'[c].store = call[c].store, call'[c].shipment = call[c].shipment,
           heard'[c] = heard[c]
    PROVE  Saw(c)'
<1> DEFINE s == call[c].store
<1>1. s \in Stores
  BY DEF FlowInv, TypeOK, Call
<1> SUFFICES ASSUME NEW i \in DOMAIN tickets'[s], tickets'[s][i].by \in heard[c],
                    tickets'[s][i].open, tickets'[s][i].ci = CiOfCall(c)
             PROVE  LET d == call'[tickets'[s][i].by]
                    IN  ~(d.reply = "ok" /\ d.number # 0)
  BY DEF Saw, CiOfCall, Confirmed
<1> DEFINE b == tickets'[s][i].by
<1>2. b \in Over /\ call'[b] = call[b]
  BY DEF AdviceInv
<1>3. CASE New(s, i)
  BY <1>2, <1>3 DEF New, FlowInv, CallsInv, InDoubt, Confirmed
<1>4. CASE Old(s, i)
  BY <1>2, <1>4 DEF Old, Saw, Confirmed
<1> QED
  BY <1>1, <1>3, <1>4 DEF Incidents

\* A call that is advised in this step has seen nothing open.
LEMMA JustSeen ==
    ASSUME NEW c \in Calls, tickets' = tickets,
           call'[c].store = call[c].store, call'[c].shipment = call[c].shipment,
           ~OpenOn(call[c].store, CiOfCall(c))
    PROVE  Saw(c)'
BY DEF Saw, OpenOn, CiOfCall

\* A step of calls that go on, of the instance or of its other users.
LEMMA GoingOn ==
    ASSUME FlowInv, AdviceInv, Incidents, \A b \in Calls : Ongoing(b),
           UNCHANGED <<last, heard>>
    PROVE  AdviceInv'
<1>1. ASSUME NEW c \in Calls PROVE heard'[c] \subseteq Over'
  BY DEF AdviceInv, Over, Ongoing
<1>2. ASSUME NEW c \in Calls, Follows(c)'
      PROVE  Saw(c)'
  <2>1. CASE Follows(c)
    BY <2>1, StillSeen DEF AdviceInv, Ongoing, Over
  <2>2. CASE ~Follows(c)
    BY <1>2, <2>2, JustSeen DEF Follows, Ongoing
  <2> QED
    BY <2>1, <2>2
<1> QED
  BY <1>1, <1>2 DEF AdviceInv

\* A call whose search was answered without a result has heard nothing.
LEMMA HearingNothing ==
    ASSUME FlowInv, AdviceInv, NEW c \in Calls, AgentHearsNothing(c)
    PROVE  AdviceInv'
<1>1. /\ call[c].pc = "search" /\ tickets' = tickets
      /\ call' = [call EXCEPT ![c] = [call[c] EXCEPT !.pc = "done", !.reply = call'[c].reply]]
  BY DEF AgentHearsNothing, Search, End, Ended, FlowInv, TypeOK, Call
<1>2. /\ \A b \in Calls : b # c => call'[b] = call[b] /\ heard'[b] = heard[b]
      /\ heard'[c] = {} /\ c \notin Over /\ Over \subseteq Over'
  BY <1>1 DEF AgentHearsNothing, AdviceInv, FlowInv, TypeOK, Over
<1>3. ASSUME NEW b \in Calls, Follows(b)'
      PROVE  Saw(b)'
  <2>1. CASE b = c
    BY <1>2, <2>1 DEF Saw
  <2>2. CASE b # c
    <3>1. Follows(b) /\ Saw(b) /\ heard'[b] = heard[b] /\ call'[b] = call[b]
      BY <1>2, <1>3, <2>2 DEF AdviceInv, Follows
    <3>2. Incidents /\ \A x \in Over : call'[x] = call[x]
      BY <1>1, <1>2, IncidentsSame DEF Over
    <3> QED
      BY <3>1, <3>2, StillSeen
  <2> QED
    BY <2>1, <2>2
<1>4. /\ last' \in [Agents -> Calls \cup {NoCall}]
      /\ heard' \in [Calls -> SUBSET Calls]
      /\ \A b \in Calls : heard'[b] \subseteq Over'
  BY <1>2 DEF AgentHearsNothing, AdviceInv
<1> QED
  BY <1>3, <1>4 DEF AdviceInv

\* A step in which agent a begins a call: the others are as they were.
LEMMA Beginning ==
    ASSUME FlowInv, AdviceInv, Incidents, NEW a \in Agents, NEW c \in Calls,
           call[c].pc = "idle", \A b \in Calls : b # c => call'[b] = call[b],
           NEW set \in SUBSET Over, heard' = [heard EXCEPT ![c] = set],
           last' = [last EXCEPT ![a] = c],
           Follows(c)' => Saw(c)'
    PROVE  AdviceInv'
<1>1. c \notin Over /\ Over \subseteq Over'
  BY DEF Over
<1>2. ASSUME NEW b \in Calls, b # c, Follows(b)'
      PROVE  Saw(b)'
  <2>1. Follows(b) /\ Saw(b) /\ heard'[b] = heard[b]
    BY <1>2 DEF AdviceInv, Follows
  <2> QED
    BY <1>1, <1>2, <2>1, StillSeen DEF Over
<1>3. heard'[c] = set /\ \A b \in Calls : b # c => heard'[b] = heard[b]
  BY DEF AdviceInv
<1>4. /\ last' \in [Agents -> Calls \cup {NoCall}]
      /\ heard' \in [Calls -> SUBSET Calls]
      /\ \A b \in Calls : heard'[b] \subseteq Over'
  BY <1>1, <1>3 DEF AdviceInv, Over
<1> QED
  BY <1>2, <1>4 DEF AdviceInv

\* What a call is when it has just begun.
LEMMA Begun ==
    ASSUME TypeOK, NEW c \in Calls, NEW tool, NEW store, NEW shipment, NEW pc, NEW reply,
           NEW number, Begin(c, tool, store, shipment, pc, reply, number)
    PROVE  /\ call'[c].pc = pc /\ call'[c].tool = tool /\ call'[c].store = store
           /\ call'[c].shipment = shipment /\ call'[c].reply = reply
           /\ \A b \in Calls : b # c => call'[b] = call[b]
BY DEF Begin, TypeOK

LEMMA AssessSees ==
    ASSUME FlowInv, NEW c \in Calls, Assess(c)
    PROVE  /\ call[c].pc = "idle" /\ Incidents
           /\ \A b \in Calls : b # c => call'[b] = call[b]
           /\ Follows(c)' => Saw(c)'
<1>0. TypeOK
  BY DEF FlowInv
<1>1. PICK store \in Stores, shipment \in Shipments \cup {Unknown} :
          \/ Refuse(c, "assess", store, shipment, TRUE)
          \/ MockAssess(c, store, shipment)
          \/ LiveAssess(c, store, shipment)
  BY DEF Assess
<1>2. tickets' = tickets /\ Incidents
  BY <1>1, IncidentsSame DEF Refuse, MockAssess, LiveAssess
<1>3. CASE Refuse(c, "assess", store, shipment, TRUE)
  BY <1>0, <1>2, <1>3, Begun DEF Refuse, Follows
<1>4. CASE LiveAssess(c, store, shipment)
  BY <1>0, <1>2, <1>4, Begun DEF LiveAssess, Follows
<1>5. CASE MockAssess(c, store, shipment)
  <2> DEFINE ci == CiOf[shipment]
             open == OpenOn(store, ci)
             found == ci \in cmdb[store]
             advice == AdviceFor(shipment, found, open)
  <2>1. Begin(c, "assess", store, shipment, "done", advice, 0) /\ call[c].pc = "idle"
    BY <1>5 DEF MockAssess
  <2>2. open \in BOOLEAN
    BY Zenon DEF OpenOn
  <2>3. advice = "raise" => ~open
    <3>1. found \in BOOLEAN
      OBVIOUS
    <3> QED
      BY <2>2, <3>1, RaiseMeansNone
  <2> HIDE DEF advice
  <2>4. /\ call'[c].store = store /\ call'[c].shipment = shipment
        /\ call'[c].tool = "assess" /\ call'[c].reply = advice
        /\ \A b \in Calls : b # c => call'[b] = call[b]
    BY <1>0, <2>1, Begun
  <2>5. ~open => Saw(c)'
    BY <1>2, <2>4 DEF Saw, OpenOn, CiOfCall
  <2> QED
    BY <1>2, <2>1, <2>3, <2>4, <2>5 DEF Follows
<1> QED
  BY <1>1, <1>3, <1>4, <1>5

LEMMA RaiseSees ==
    ASSUME FlowInv, AdviceInv, NEW a \in Agents, NEW c \in Calls, AgentRaise(a, c)
    PROVE  /\ call[c].pc = "idle" /\ Incidents
           /\ \A b \in Calls : b # c => call'[b] = call[b]
           /\ heard[last[a]] \in SUBSET Over
           /\ Saw(c)'
<1>0. TypeOK
  BY DEF FlowInv
<1>1. PICK store \in Stores, shipment \in Shipments :
          /\ Advised(a, store, shipment)
          /\ MockRaise(c, store, shipment) \/ LiveRaise(c, store, shipment)
  BY DEF AgentRaise
<1>2. PICK b \in Over : /\ b = last[a] /\ b \in Calls /\ call[b].store = store
                       /\ call[b].shipment = shipment /\ Saw(b)
                       /\ heard[b] \subseteq Over
  BY <1>1 DEF AgentRaise, Free, Advised, AdviceInv, Over, Follows
<1>3. call[c].pc = "idle" /\ c \notin Over
  BY <1>1 DEF MockRaise, LiveRaise, Over
<1>4. Incidents
  <2>1. CiOf[shipment] \in CIs
    BY FlowAssumption
  <2> QED
    BY <1>0, <1>1, <1>3, <2>1, IncidentsFiled, IncidentsSame DEF MockRaise, LiveRaise
<1>5. /\ call'[c].store = store /\ call'[c].shipment = shipment
      /\ \A x \in Calls : x # c => call'[x] = call[x]
  BY <1>0, <1>1, Begun DEF MockRaise, LiveRaise
<1>6. heard'[c] = heard[b] /\ heard'[b] = heard[b]
  BY <1>2, <1>3 DEF AgentRaise, AdviceInv
<1>7. Saw(b)'
  BY <1>2, <1>3, <1>4, <1>5, <1>6, StillSeen DEF Over
<1>8. Saw(c)'
  BY <1>2, <1>3, <1>5, <1>6, <1>7 DEF Saw, CiOfCall
<1> QED
  BY <1>2, <1>3, <1>4, <1>5, <1>8

LEMMA AdviceNext == FlowInv /\ AdviceInv /\ [AgentNext]_agentVars => AdviceInv'
<1> SUFFICES ASSUME FlowInv, AdviceInv, [AgentNext]_agentVars PROVE AdviceInv'
  OBVIOUS
<1>1. ASSUME NEW a \in Agents, NEW c \in Calls, AgentAssess(a, c)
      PROVE  AdviceInv'
  BY <1>1, AssessSees, Beginning DEF AgentAssess
<1>2. ASSUME NEW a \in Agents, NEW c \in Calls, AgentRaise(a, c)
      PROVE  AdviceInv'
  BY <1>2, RaiseSees, Beginning DEF AgentRaise
<1>3. CASE ((\E c \in Calls : Advance(c) \/ Stray(c)) \/ Others) /\ UNCHANGED <<last, heard>>
  BY <1>3, AdvanceGoesOn, InstanceGoesOn, GoingOn
<1>4. CASE UNCHANGED agentVars
  BY <1>4 DEF agentVars, vars, AdviceInv, Follows, Saw, Over, CiOfCall, Confirmed
<1>5. ASSUME NEW c \in Calls, AgentHearsNothing(c)
      PROVE  AdviceInv'
  BY <1>5, HearingNothing
<1> QED
  BY <1>1, <1>2, <1>3, <1>4, <1>5 DEF AgentNext

\* Nothing but a round that overlaps, an answer that left open what had become
\* of a raise, or a search that was answered with nothing, makes a duplicate
\* (assess_shipment_delay, "rather than opening a duplicate").
THEOREM DuplicatesAreUnawares == AgentSpec => []NoDuplicateUnawares
<1>1. AgentInit => AdviceInv
  BY DEF AgentInit, Init, AdviceInv, Follows
<1>2. AgentSpec => []AdviceInv
  BY <1>1, AdviceNext, AgentsFlow, PTL DEF AgentSpec
<1>3. FlowInv /\ AdviceInv => NoDuplicateUnawares
  <2> SUFFICES ASSUME FlowInv, AdviceInv, NEW x \in Ours, NEW y \in Ours, x[1] = y[1],
                      tickets[x[1]][x[2]].open,
                      tickets[x[1]][x[2]].ci = tickets[y[1]][y[2]].ci,
                      tickets[x[1]][x[2]].ci # NoCI, By(x) \in heard[By(y)]
               PROVE  ~Confirmed(By(x))
    BY DEF NoDuplicateUnawares
  <2> DEFINE c == By(y)
  <2>1. c \in Calls
    BY OursFacts, Authors DEF FlowInv
  <2>2. /\ call[c].tool = "raise" /\ call[c].store = y[1]
        /\ call[c].pc \in {"opened", "done"}
        /\ tickets[y[1]][y[2]].ci = CiOfCall(c)
    BY OursFacts DEF FlowInv, IncidentsInv
  <2>3. Saw(c)
    BY <2>1, <2>2 DEF AdviceInv, Follows
  <2> QED
    BY <2>2, <2>3, OursFacts DEF Saw
<1> QED
  BY <1>2, <1>3, AgentsFlow, PTL
=============================================================================
