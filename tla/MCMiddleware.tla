---------------------------- MODULE MCMiddleware ----------------------------
(***************************************************************************)
(* Small instances of Middleware for TLC.  The policies are policy.yaml's, *)
(* cut down to the gated tool, one open tool and one resource.             *)
(***************************************************************************)
EXTENDS Middleware, TLC

CONSTANT k1
CONSTANTS MaxLocalKeys, MaxTime, MaxRequests

Operator == "tlo.operator"
Raise    == "raise_shipment_incident"

RuleFor(roles, approval) ==
    [allow_roles |-> roles, requires_approval |-> approval,
     classification |-> "internal"]

Gate(roles) ==
    [version   |-> 1, default |-> "deny", declared |-> {Operator},
     tools     |-> [t \in Tools |-> IF t = Raise THEN RuleFor(roles, TRUE)
                                    ELSE RuleFor({Operator}, FALSE)],
     resources |-> <<[length |-> 12, matches |-> Uris,
                      rule |-> RuleFor({Operator}, TRUE)]>>]

\* A role nobody declared: the document does not load.
Misspelt == [Gate({Operator}) EXCEPT !.declared = {}]

Environment(env, policy, enforce) ==
    [env |-> env, policy |-> policy, enforce |-> enforce, complete |-> TRUE]

\* One key for all, a replica that was given none, and one that was given an
\* unusable one.
KeyConfigs ==
    {Environment(<<k1>>, Gate({Operator}), TRUE),
     Environment(<<>>, Gate({Operator}), TRUE),
     Environment(<<Malformed>>, Gate({Operator}), TRUE)}

\* Shadow mode, enforcement, a policy that grants the gated tool to nobody, one
\* that does not load, and a process without its credentials.
PolicyConfigs ==
    {Environment(<<k1>>, Gate({Operator}), FALSE),
     Environment(<<k1>>, Gate({Operator}), TRUE),
     Environment(<<k1>>, Gate({}), TRUE),
     Environment(<<k1>>, Misspelt, TRUE),
     [Environment(<<k1>>, Gate({Operator}), TRUE) EXCEPT !.complete = FALSE]}

Decline  == [action |-> "decline", approve |-> "absent"]
Unticked == [action |-> "accept", approve |-> "false"]

TwoAnswers == {Yes, Unticked}
AllAnswers == {Yes, Unticked, Decline}

Handled ==
    served["passed"] + served["asked"] + served["refused"] + served["rejected"]

MCNext ==
    \/ \E r \in Replicas, config \in Configs :
           /\ config.env = <<>> => drawn < MaxLocalKeys
           /\ Start(r, config)
    \/ now < MaxTime /\ Tick
    \/ Answering
    \/ Handled < MaxRequests /\ Calling
    \/ Handled < MaxRequests /\ Reading

MCSpec == Init /\ [][MCNext]_vars

Symmetric == Permutations(Replicas) \cup Permutations(Nonces)
                 \cup Permutations(Arguments) \cup Permutations(Callers)
=============================================================================
