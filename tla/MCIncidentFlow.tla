--------------------------- MODULE MCIncidentFlow ---------------------------
(***************************************************************************)
(* Small instances of IncidentFlow and AdvisedAgent for TLC.               *)
(***************************************************************************)
EXTENDS AdvisedAgent, TLC

CONSTANTS s1, s2, wms, tms, MaxTickets, MaxChanges

\* s1 is late, s2 is not, and each has an item of its own.
TwoItems == s1 :> wms @@ s2 :> tms
OneItem  == [s \in Shipments |-> wms]

VARIABLE changes   \* what other users have done to the CMDB and the incidents

Room == \A s \in Stores : Len(tickets[s]) < MaxTickets

MCOthers ==
    /\ changes < MaxChanges
    /\ Room
    /\ Others
    /\ changes' = changes + 1

\* A mock is seeded with the first item and an open incident on it; where an
\* idle call will go says nothing yet.
MCInit ==
    /\ Init
    /\ \A s \in Stores \ LiveStores :
           cmdb[s] = {wms} /\ tickets[s] = <<[ci |-> wms, open |-> TRUE, by |-> NoCall]>>
    /\ \A c \in Calls : call[c].store \in LiveStores
    /\ last = [a \in Agents |-> NoCall]
    /\ heard = [c \in Calls |-> {}]
    /\ changes = 0

MCNext ==
    \/ /\ \E c \in Calls : Assess(c) \/ Raise(c) \/ Proceed(c) \/ Stray(c)
       /\ UNCHANGED <<last, heard, changes>>
    \/ MCOthers /\ UNCHANGED <<last, heard>>

MCSpec == MCInit /\ [][MCNext]_<<vars, changes>>

MCFairSpec == MCSpec /\ Fairness

MCAgentNext ==
    \/ /\ \E a \in Agents, c \in Calls : AgentAssess(a, c) \/ AgentRaise(a, c)
       /\ UNCHANGED changes
    \/ \E c \in Calls : AgentHearsNothing(c) /\ UNCHANGED changes
    \/ (\E c \in Calls : Advance(c) \/ Stray(c)) /\ UNCHANGED <<last, heard, changes>>
    \/ MCOthers /\ UNCHANGED <<last, heard>>

MCAgentSpec == MCInit /\ [][MCAgentNext]_<<agentVars, changes>>

Symmetric == Permutations(Calls) \cup Permutations(Agents)
=============================================================================
