---------------------------- MODULE AdvisedAgent ----------------------------
(***************************************************************************)
(* Agents working through the lighthouse flow by the book: each makes one  *)
(* call at a time, and raises an incident only when its last call was an   *)
(* assessment of that shipment that recommended raising one.  They share   *)
(* the instances of IncidentFlow with its other users, and know nothing of *)
(* each other.                                                             *)
(***************************************************************************)
EXTENDS IncidentFlow

CONSTANT Agents

VARIABLES
    last,    \* per agent: its last call
    heard    \* per call: the calls that were over when the assessment began
             \* that it is, or that it follows; none if its search was
             \* answered without a result

agentVars == <<vars, last, heard>>

AgentInit ==
    /\ Init
    /\ last = [a \in Agents |-> NoCall]
    /\ heard = [c \in Calls |-> {}]

Over == {c \in Calls : call[c].pc = "done"}

Free(a) == last[a] \in Over \cup {NoCall}

Advised(a, store, shipment) ==
    /\ last[a] # NoCall
    /\ call[last[a]].tool = "assess"
    /\ call[last[a]].reply = "raise"
    /\ call[last[a]].store = store
    /\ call[last[a]].shipment = shipment

AgentAssess(a, c) ==
    /\ Free(a)
    /\ Assess(c)
    /\ last' = [last EXCEPT ![a] = c]
    /\ heard' = [heard EXCEPT ![c] = Over]

AgentRaise(a, c) ==
    /\ Free(a)
    /\ \E store \in Stores, shipment \in Shipments :
           /\ Advised(a, store, shipment)
           /\ MockRaise(c, store, shipment) \/ LiveRaise(c, store, shipment)
    /\ last' = [last EXCEPT ![a] = c]
    /\ heard' = [heard EXCEPT ![c] = heard[last[a]]]

\* The instance says nothing of what it has, and the advice is given all the
\* same (_request: .get("result", [])).
AgentHearsNothing(c) ==
    /\ Search(c, FALSE)
    /\ heard' = [heard EXCEPT ![c] = {}]
    /\ UNCHANGED last

AgentNext ==
    \/ \E a \in Agents, c \in Calls : AgentAssess(a, c) \/ AgentRaise(a, c)
    \/ \E c \in Calls : AgentHearsNothing(c)
    \/ /\ (\E c \in Calls : Advance(c) \/ Stray(c)) \/ Others
       /\ UNCHANGED <<last, heard>>

AgentSpec == AgentInit /\ [][AgentNext]_agentVars

\* Following the advice never opens a second incident on an item while one of
\* an agent's is open there, if that agent's call came back with a number, was
\* over when the other asked for advice, and the other's search was answered
\* with a result: nothing but a round that overlaps, an answer that left open
\* what had happened, or one that said nothing, makes a duplicate
\* (server.py:231, "rather than opening a duplicate").
NoDuplicateUnawares ==
    \A x, y \in Ours :
        /\ x # y /\ x[1] = y[1]
        /\ tickets[x[1]][x[2]].open /\ tickets[y[1]][y[2]].open
        /\ tickets[x[1]][x[2]].ci = tickets[y[1]][y[2]].ci
        /\ tickets[x[1]][x[2]].ci # NoCI
        => \/ ~Confirmed(By(x))
           \/ By(x) \notin heard[By(y)]
=============================================================================
