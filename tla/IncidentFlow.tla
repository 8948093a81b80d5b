---------------------------- MODULE IncidentFlow ----------------------------
(***************************************************************************)
(* The lighthouse flow: assess_shipment_delay and raise_shipment_incident  *)
(* (server.py) against a ServiceNow backend (governance/servicenow.py).    *)
(*                                                                         *)
(* The mock answers within the call: no await suspends, so a call is one   *)
(* step on the store of its process.  The live connector sends one HTTP    *)
(* request after another to an instance others use too; a request may time *)
(* out, be answered with an error or with nothing that can be read before, *)
(* while or after the instance acts on it.  A read is handled and answered *)
(* in one step: what it read may be stale as soon as the call goes on.     *)
(***************************************************************************)
EXTENDS Naturals, Sequences

CONSTANTS
    Calls,       \* tool calls, each made once
    Stores,      \* instances, or the mocks of the processes
    Shipments,   \* the keys of SHIPMENTS
    Unknown,     \* an identifier that is not among them
    Delayed,     \* the shipments whose status is "delayed"
    CIs,
    CiOf,        \* the configuration item that handles a shipment
    NoCI,        \* the item of an incident the instance could not resolve
    NoCall,      \* whoever opened an incident without this server
    LiveStores   \* the instances, behind LiveServiceNow; MockServiceNow is the rest

ASSUME FlowAssumption ==
    /\ Unknown \notin Shipments
    /\ Delayed \subseteq Shipments
    /\ CiOf \in [Shipments -> CIs]
    /\ NoCI \notin CIs
    /\ NoCall \notin Calls
    /\ LiveStores \subseteq Stores

VARIABLES
    cmdb,      \* per store: the configuration items it knows
    tickets,   \* per store: the incidents; a number is a position
    call,      \* per call: how far it has got, and what it was answered
    late       \* calls that are over, with a POST the instance may still act on

vars == <<cmdb, tickets, call, late>>

Tools   == {"assess", "raise"}
Advice  == {"no action", "escalate", "enrich", "raise"}
Replies == Advice \cup {"none", "refused", "failed", "ok"}

Ticket == [ci : CIs \cup {NoCI}, open : BOOLEAN, by : Calls \cup {NoCall}]

Call == [pc       : {"idle", "lookup", "search", "posting", "opened", "done"},
         tool     : Tools,
         store    : Stores,
         shipment : Shipments \cup {Unknown},
         found    : BOOLEAN,
         reply    : Replies,
         number   : Nat]

\* The mock seeds an empty CMDB and an empty list of incidents.
Init ==
    /\ cmdb \in [Stores -> SUBSET CIs]
    /\ tickets \in [Stores -> {<<>>} \cup
           {<<[ci |-> ci, open |-> open, by |-> NoCall]>> : ci \in CIs, open \in BOOLEAN}]
    /\ \A s \in Stores \ LiveStores : cmdb[s] # {} /\ tickets[s] # <<>>
    /\ call \in [Calls -> {[pc |-> "idle", tool |-> "assess", store |-> s,
                            shipment |-> Unknown, found |-> FALSE,
                            reply |-> "none", number |-> 0] : s \in Stores}]
    /\ late = {}

-----------------------------------------------------------------------------
OpenOn(store, ci) ==
    \E i \in DOMAIN tickets[store] : tickets[store][i].ci = ci /\ tickets[store][i].open

\* The mutant advises to raise before it looks for open incidents.
MUT_AdviceBlind(shipment, found, open) ==
    CASE shipment \notin Delayed -> "no action"
      [] shipment \in Delayed /\ ~found -> "escalate"
      [] OTHER -> "raise"

\* This one takes the branches on open incidents the wrong way round, and asks
\* an empty list for its first incident.
MUT_AdviceSwapped(shipment, found, open) ==
    CASE shipment \notin Delayed -> "no action"
      [] shipment \in Delayed /\ ~found -> "escalate"
      [] shipment \in Delayed /\ found /\ open -> "raise"
      [] OTHER -> "IndexError"

AdviceFor(shipment, found, open) ==
    CASE shipment \notin Delayed -> "no action"
      [] shipment \in Delayed /\ ~found -> "escalate"
      [] shipment \in Delayed /\ found /\ open -> "enrich"
      [] OTHER -> "raise"

Ended(c, reply) == [call[c] EXCEPT !.pc = "done", !.reply = reply]

End(c, reply) == call' = [call EXCEPT ![c] = Ended(c, reply)]

Begin(c, tool, store, shipment, pc, reply, number) ==
    call' = [call EXCEPT ![c] =
        [pc |-> pc, tool |-> tool, store |-> store, shipment |-> shipment,
         found |-> FALSE, reply |-> reply, number |-> number]]

\* An incident filed by a call, or by nobody we know; the instance leaves a
\* reference it cannot resolve empty.
FileTicket(store, ci, by) ==
    tickets' = [tickets EXCEPT ![store] =
        Append(@, [ci   |-> IF ci \in cmdb[store] THEN ci ELSE NoCI,
                   open |-> TRUE,
                   by   |-> by])]

-----------------------------------------------------------------------------
(* Calls that end before they reach the backend, and calls on the mock.    *)

\* ValueError: an unknown shipment, or (when raising) an unknown urgency.
Refuse(c, tool, store, shipment, urgencyKnown) ==
    /\ call[c].pc = "idle"
    /\ \/ shipment = Unknown
       \/ tool = "raise" /\ ~urgencyKnown
    /\ Begin(c, tool, store, shipment, "done", "refused", 0)
    /\ UNCHANGED <<cmdb, tickets, late>>

MockAssess(c, store, shipment) ==
    /\ store \notin LiveStores
    /\ call[c].pc = "idle"
    /\ shipment \in Shipments
    /\ LET ci == CiOf[shipment]
       IN  Begin(c, "assess", store, shipment, "done",
                 AdviceFor(shipment, ci \in cmdb[store], OpenOn(store, ci)), 0)
    /\ UNCHANGED <<cmdb, tickets, late>>

MockRaise(c, store, shipment) ==
    /\ store \notin LiveStores
    /\ call[c].pc = "idle"
    /\ shipment \in Shipments
    /\ \/ /\ CiOf[shipment] \in cmdb[store]
          /\ FileTicket(store, CiOf[shipment], c)
          /\ Begin(c, "raise", store, shipment, "done", "ok", Len(tickets[store]) + 1)
       \/ /\ CiOf[shipment] \notin cmdb[store]
          /\ Begin(c, "raise", store, shipment, "done", "refused", 0)
          /\ UNCHANGED tickets
    /\ UNCHANGED <<cmdb, late>>

-----------------------------------------------------------------------------
(* Calls on the live connector.                                            *)

LiveAssess(c, store, shipment) ==
    /\ store \in LiveStores
    /\ call[c].pc = "idle"
    /\ shipment \in Shipments
    /\ Begin(c, "assess", store, shipment, "lookup", "none", 0)
    /\ UNCHANGED <<cmdb, tickets, late>>

LiveRaise(c, store, shipment) ==
    /\ store \in LiveStores
    /\ call[c].pc = "idle"
    /\ shipment \in Shipments
    /\ Begin(c, "raise", store, shipment, "posting", "none", 0)
    /\ UNCHANGED <<cmdb, tickets, late>>

CiOfCall(c) == CiOf[call[c].shipment]

\* find_configuration_item; an answer without a result reads as none found.
Lookup(c, hasResult) ==
    /\ call[c].pc = "lookup"
    /\ call' = [call EXCEPT ![c].pc = "search",
                            ![c].found = hasResult /\ CiOfCall(c) \in cmdb[call[c].store]]
    /\ UNCHANGED <<cmdb, tickets, late>>

\* search_incidents, which reads such an answer as none open, and the advice.
Search(c, hasResult) ==
    /\ call[c].pc = "search"
    /\ End(c, AdviceFor(call[c].shipment, call[c].found,
                        hasResult /\ OpenOn(call[c].store, CiOfCall(c))))
    /\ UNCHANGED <<cmdb, tickets, late>>

\* create_incident: the instance acts on the POST.
Post(c) ==
    /\ call[c].pc = "posting"
    /\ FileTicket(call[c].store, CiOfCall(c), c)
    /\ call' = [call EXCEPT ![c].pc = "opened",
                            ![c].number = Len(tickets[call[c].store]) + 1]
    /\ UNCHANGED <<cmdb, late>>

\* Its record arrives.
Receive(c) ==
    /\ call[c].pc = "opened"
    /\ End(c, "ok")
    /\ UNCHANGED <<cmdb, tickets, late>>

\* A POST that is answered before the instance has acted on it, or that
\* nobody waits for any more, may still be acted on.
StillToCome(c) == IF call[c].pc = "posting" THEN late \cup {c} ELSE late

\* A reply below 400 that is no record is a success without a number,
\* whatever the instance has done or will do.
ReceiveBlank(c) ==
    /\ call[c].pc \in {"posting", "opened"}
    /\ late' = StillToCome(c)
    /\ call' = [call EXCEPT ![c] = [Ended(c, "ok") EXCEPT !.number = 0]]
    /\ UNCHANGED <<cmdb, tickets>>

\* The mutant sends a POST that failed once more.
MUT_FailRetry(c) ==
    /\ call[c].pc \in {"lookup", "search", "posting", "opened"}
    /\ late' = StillToCome(c)
    /\ IF call[c].tool = "raise" THEN call' = [call EXCEPT ![c].pc = "posting"]
       ELSE End(c, "failed")
    /\ UNCHANGED <<cmdb, tickets>>

\* This one reports a failure as if nothing had been done.
MUT_FailRefused(c) ==
    /\ call[c].pc \in {"lookup", "search", "posting", "opened"}
    /\ late' = StillToCome(c)
    /\ End(c, "refused")
    /\ UNCHANGED <<cmdb, tickets>>

\* An HTTPError, a status of 400 or more, or a body that cannot be read: none
\* of them says what has become of the request, or will.
Fail(c) ==
    /\ call[c].pc \in {"lookup", "search", "posting", "opened"}
    /\ late' = StillToCome(c)
    /\ End(c, "failed")
    /\ UNCHANGED <<cmdb, tickets>>

-----------------------------------------------------------------------------
(* The instance: a POST nobody waits for, and its other users.             *)

LatePost(c) ==
    /\ c \in late
    /\ FileTicket(call[c].store, CiOfCall(c), c)
    /\ late' = late \ {c}
    /\ UNCHANGED <<cmdb, call>>

LateLoss(c) ==
    /\ c \in late
    /\ late' = late \ {c}
    /\ UNCHANGED <<cmdb, tickets, call>>

OthersOpen(store, ci) ==
    /\ store \in LiveStores
    /\ ci \in cmdb[store]
    /\ FileTicket(store, ci, NoCall)
    /\ UNCHANGED <<cmdb, call, late>>

OthersClose(store, i) ==
    /\ store \in LiveStores
    /\ i \in DOMAIN tickets[store]
    /\ tickets[store][i].open
    /\ tickets' = [tickets EXCEPT ![store][i].open = FALSE]
    /\ UNCHANGED <<cmdb, call, late>>

OthersAddItem(store, ci) ==
    /\ store \in LiveStores
    /\ ci \notin cmdb[store]
    /\ cmdb' = [cmdb EXCEPT ![store] = @ \cup {ci}]
    /\ UNCHANGED <<tickets, call, late>>

OthersRetireItem(store, ci) ==
    /\ store \in LiveStores
    /\ ci \in cmdb[store]
    /\ cmdb' = [cmdb EXCEPT ![store] = @ \ {ci}]
    /\ UNCHANGED <<tickets, call, late>>

-----------------------------------------------------------------------------
Assess(c) ==
    \E store \in Stores, shipment \in Shipments \cup {Unknown} :
        \/ Refuse(c, "assess", store, shipment, TRUE)
        \/ MockAssess(c, store, shipment)
        \/ LiveAssess(c, store, shipment)

Raise(c) ==
    \E store \in Stores, shipment \in Shipments \cup {Unknown} :
        \/ \E urgencyKnown \in BOOLEAN : Refuse(c, "raise", store, shipment, urgencyKnown)
        \/ MockRaise(c, store, shipment)
        \/ LiveRaise(c, store, shipment)

\* What carries a call on once it has begun; a search that was answered
\* without a result is kept apart.
Advance(c) ==
    \/ \E hasResult \in BOOLEAN : Lookup(c, hasResult)
    \/ Search(c, TRUE)
    \/ Post(c)
    \/ Receive(c)
    \/ ReceiveBlank(c)
    \/ Fail(c)

Proceed(c) == Advance(c) \/ Search(c, FALSE)

Stray(c) == LatePost(c) \/ LateLoss(c)

Others ==
    \E store \in Stores :
        \/ \E ci \in CIs : \/ OthersOpen(store, ci)
                            \/ OthersAddItem(store, ci)
                            \/ OthersRetireItem(store, ci)
        \/ \E i \in DOMAIN tickets[store] : OthersClose(store, i)

Next ==
    \/ \E c \in Calls : Assess(c) \/ Raise(c) \/ Proceed(c) \/ Stray(c)
    \/ Others

Spec == Init /\ [][Next]_vars

\* httpx gives every request timeout_seconds: a call that has begun goes on.
Fairness == \A c \in Calls : WF_vars(Proceed(c))

FairSpec == Spec /\ Fairness

-----------------------------------------------------------------------------
(* Properties.                                                             *)

TypeOK ==
    /\ cmdb \in [Stores -> SUBSET CIs]
    /\ tickets \in [Stores -> Seq(Ticket)]
    /\ call \in [Calls -> Call]
    /\ late \subseteq Calls

\* The incidents this server's calls have opened, as store and number.
Ours == {slot \in UNION {{s} \X DOMAIN tickets[s] : s \in Stores} :
             tickets[slot[1]][slot[2]].by # NoCall}

By(slot) == tickets[slot[1]][slot[2]].by

\* A call opens at most one incident, however its request fares: the connector
\* never sends a POST again (LiveServiceNow._request).
OneIncidentPerCall ==
    \A x, y \in Ours : By(x) = By(y) => x = y

\* The instance has said which incident it opened; and nobody knows whether
\* it has opened one, or will.
Confirmed(c) == call[c].reply = "ok" /\ call[c].number # 0
InDoubt(c)   == call[c].reply = "failed" \/ (call[c].reply = "ok" /\ call[c].number = 0)

\* What a caller was told is true.  Only a raise opens anything, on the instance
\* it was sent to and on no item but its shipment's, and none that was refused
\* before a request was sent; a number in an answer is the number of the
\* incident that call opened (raise_shipment_incident, create_incident;
\* assess_shipment_delay, "an assessment that quietly opened tickets").  An
\* error, and a success without a number, say nothing either way.
RepliesAreTrue ==
    /\ \A x \in Ours :
           LET c == By(x)
           IN  /\ call[c].tool = "raise"
               /\ call[c].pc = "opened" \/ call[c].reply \in {"ok", "failed"}
               /\ call[c].store = x[1]
               /\ tickets[x[1]][x[2]].ci \in {CiOfCall(c), NoCI}
    /\ \A c \in Calls : Confirmed(c) =>
           \E x \in Ours : By(x) = c /\ call[c].number = x[2]

\* A call that has begun is answered, whatever the instance does (_request's
\* timeout, and no lock or retry loop anywhere in the tools).
CallsEnd == \A c \in Calls : call[c].pc # "idle" ~> call[c].pc = "done"

\* Why.  A call that is still waiting has been told nothing; only a raise has
\* a POST to wait for, and one that ended before the instance acted on it is a
\* raise that failed, or succeeded without a number.
CallsInv ==
    /\ \A c \in Calls :
           /\ call[c].pc # "done" => call[c].reply = "none"
           /\ call[c].pc \notin {"idle", "done"} => call[c].shipment \in Shipments
           /\ call[c].pc # "done" =>
                  (call[c].tool = "raise" <=> call[c].pc \in {"posting", "opened"})
    /\ \A c \in late :
           /\ call[c].pc = "done" /\ InDoubt(c)
           /\ call[c].tool = "raise" /\ call[c].shipment \in Shipments

\* An incident's call is a raise that went to its instance and has no POST
\* left; whoever has seen the instance act has the number of an incident of
\* its own.
IncidentsInv ==
    /\ \A s \in Stores : \A i \in DOMAIN tickets[s] :
           LET c == tickets[s][i].by
           IN  c # NoCall =>
                   /\ c \notin late
                   /\ call[c].tool = "raise" /\ call[c].store = s
                   /\ call[c].pc \in {"opened", "done"}
                   /\ call[c].pc = "done" => call[c].reply \in {"ok", "failed"}
                   /\ tickets[s][i].ci \in {CiOfCall(c), NoCI}
                   /\ \A j \in DOMAIN tickets[s] : tickets[s][j].by = c => i = j
    /\ \A c \in Calls :
           LET mine == {i \in DOMAIN tickets[call[c].store] :
                            tickets[call[c].store][i].by = c}
           IN  /\ call[c].pc = "opened" => call[c].number \in mine
               /\ Confirmed(c) => call[c].number \in mine

\* The inductive invariant: which calls may still open an incident, and whose
\* the incidents are (LiveServiceNow._request never sends a request again).
FlowInv == TypeOK /\ CallsInv /\ IncidentsInv

\* What Raising knows of the calls, the incidents and the answers.
Asked(c) == IF call[c].tool = "raise"
            THEN {[store |-> call[c].store, shipment |-> call[c].shipment]}
            ELSE {}

Filed == {[call |-> By(x), store |-> x[1], number |-> x[2],
           item |-> tickets[x[1]][x[2]].ci] : x \in Ours}

Told(c) == [kind   |-> IF call[c].tool = "raise" THEN call[c].reply ELSE "none",
            number |-> IF call[c].reply = "ok" THEN call[c].number ELSE 0]

ItemsOf(shipment) ==
    IF shipment \in Shipments THEN {CiOf[shipment], NoCI} ELSE {}

Raised == INSTANCE Raising WITH
    Shipments <- Shipments \cup {Unknown},
    Items     <- ItemsOf,
    request   <- [c \in Calls |-> Asked(c)],
    incidents <- Filed,
    answer    <- [c \in Calls |-> Told(c)]

\* However requests fare, nothing but that is ever seen of a raise: an incident
\* at most, none after a refusal or after an answer with a number, no answer
\* taken back (LiveServiceNow._request, MockServiceNow.create_incident).
RaisesAsPromised == Raised!Spec

\* "A CI that does not resolve must fail loudly, not open an unroutable ticket"
\* (tests/test_tlo_flow.py:55).
EveryIncidentRoutes == \A x \in Ours : tickets[x[1]][x[2]].ci # NoCI
=============================================================================
