------------------------------- MODULE Raising ------------------------------
(***************************************************************************)
(* What raise_shipment_incident promises, without requests, connectors,    *)
(* other users or assessments: whoever asks for an incident gets one or    *)
(* none, where it was asked for, and an answer that is true and stays      *)
(* true.  Only "failed", and "ok" without a number, leave open what has    *)
(* happened, and what will.                                                *)
(***************************************************************************)
EXTENDS Naturals

CONSTANTS
    Calls,
    Stores,
    Shipments,   \* what may be asked about, known or not
    Items(_)     \* what an incident about a shipment may be filed on

VARIABLES
    request,     \* per call: nothing, or the store and the shipment it is about
    incidents,   \* the incidents opened, by call, store, number and item
    answer       \* per call: what it was told, and a number or 0

vars == <<request, incidents, answer>>

Request == [store : Stores, shipment : Shipments]

Incident(c, r) ==
    [call : {c}, store : {r.store}, number : Nat \ {0}, item : Items(r.shipment)]

NoAnswer == [kind |-> "none", number |-> 0]

\* The answers that settle nothing, and none at all.
Unsettled == [kind : {"none", "failed", "ok"}, number : {0}]

Of(c) == {i \in incidents : i.call = c}

Init ==
    /\ request = [c \in Calls |-> {}]
    /\ incidents = {}
    /\ answer = [c \in Calls |-> NoAnswer]

\* An incident for a call that has none, under a number of its own.
Open(c, r, i) ==
    /\ Of(c) = {}
    /\ i \in Incident(c, r)
    /\ \A j \in incidents : j.store = i.store => j.number # i.number
    /\ incidents' = incidents \cup {i}

Ask(c, r) ==
    /\ request[c] = {}
    /\ request' = [request EXCEPT ![c] = {r}]

\* An answer is given once and never taken back.
Tell(c, kind, number) ==
    /\ answer[c] = NoAnswer
    /\ answer' = [answer EXCEPT ![c] = [kind |-> kind, number |-> number]]

Begin(c) ==
    /\ \E r \in Request : Ask(c, r)
    /\ UNCHANGED <<incidents, answer>>

\* At any time before an answer that settles it.
Act(c) ==
    /\ answer[c] \in Unsettled
    /\ \E r \in request[c], i \in incidents' : Open(c, r, i)
    /\ UNCHANGED <<request, answer>>

End(c) ==
    /\ request[c] # {}
    /\ \/ \E kind \in {"failed", "ok"} : Tell(c, kind, 0)
       \/ \E i \in Of(c) : Tell(c, "ok", i.number)
    /\ UNCHANGED <<request, incidents>>

\* All of it at once.
Serve(c) ==
    \E r \in Request :
        /\ Ask(c, r)
        /\ \/ Tell(c, "refused", 0) /\ UNCHANGED incidents
           \/ \E i \in incidents' : Open(c, r, i) /\ Tell(c, "ok", i.number)

Next == \E c \in Calls : Begin(c) \/ Act(c) \/ End(c) \/ Serve(c)

Spec == Init /\ [][Next]_vars
=============================================================================
