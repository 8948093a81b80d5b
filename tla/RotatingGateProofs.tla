------------------------- MODULE RotatingGateProofs --------------------------
(***************************************************************************)
(* Theorems about RotatingGate, for any replicas, callers, policy, keys    *)
(* and TTL.  That no approval is lost needs that nobody rolls back from    *)
(* phase three; that no call is let through without one does not.          *)
(***************************************************************************)
EXTENDS RotatingGate, KeyRotationProofs

\* Whatever the gate does, the keys only see questions being sealed (build,
\* new_pending_state).
LEMMA StepRotates == [RotatingNext]_<<vars, gateVars>> => [Next]_vars
<1> SUFFICES ASSUME [RotatingNext]_<<vars, gateVars>> PROVE [Next]_vars
    OBVIOUS
<1>1. CASE \E r \in Replicas : Restart(r)
    BY <1>1 DEF Restart, Next, Operate
<1>2. CASE TurnPhase
    BY <1>2 DEF TurnPhase, Next, Operate
<1>3. CASE Serve
    BY <1>3 DEF Serve, Handle, Question, Next
<1>4. CASE PeopleAnswer
    BY <1>4 DEF PeopleAnswer
<1>5. CASE Pass
    BY <1>5 DEF Pass, Next
<1>6. CASE UNCHANGED <<vars, gateVars>>
    BY <1>6
<1> QED
    BY <1>1, <1>2, <1>3, <1>4, <1>5, <1>6 DEF RotatingNext

\* The composition implements the rotation: the gate never makes a replica
\* seal, restart or forget in a way KeyRotation does not know.
THEOREM GateRotates == RotatingSpec => Spec
<1>1. RotatingInit => Init
    BY DEF RotatingInit
<1>2. [RotatingNext]_<<vars, gateVars>> => [Next]_vars
    BY StepRotates
<1> QED
    BY <1>1, <1>2, PTL DEF RotatingSpec, Spec

\* What the keys are does not depend on the phases one may roll back from.
LEMMA TypesUnderRotation == RotatingSpec => []TypeOK
<1>1. Init => TypeOK
    BY InitInv DEF RotationInv
<1>2. TypeOK /\ [Next]_vars => TypeOK'
    BY NextType
<1> QED
    BY <1>1, <1>2, GateRotates, PTL DEF Spec

\* What the runbook puts into the environment is a list of entries.
LEMMA ShortSequences ==
    ASSUME NEW S, NEW a \in S, NEW b \in S
    PROVE  <<a>> \in Seq(S) /\ <<a, b>> \in Seq(S)
OBVIOUS

\* And the other way round: the rotation does nothing to the gate but restart
\* its processes (create_server) and let time pass.
LEMMA StepServes ==
    ASSUME TypeOK, [RotatingNext]_<<vars, gateVars>>
    PROVE  [Gate!Next]_(Gate!vars)
<1>1. CASE \E r \in Replicas : Restart(r)
  <2>1. With(Environment) \in {With(env) : env \in EnvValue}
    <3>1. old \in Keys \cup {Malformed} /\ new \in Keys \cup {Malformed}
        BY DEF TypeOK
    <3>2. /\ <<old>> \in EnvValue /\ <<old, new>> \in EnvValue
          /\ <<new>> \in EnvValue /\ <<new, old>> \in EnvValue
        BY <3>1, ShortSequences DEF EnvValue
    <3>3. phase \in {0, 1, 2, 3}
        BY DEF TypeOK
    <3>4. Environment \in EnvValue
        BY <3>2, <3>3 DEF Environment
    <3> QED
        BY <3>4
  <2>2. PICK config \in {With(env) : env \in EnvValue} : config = With(Environment)
      BY <2>1
  <2>3. PICK r \in Replicas : Gate!Start(r, config)
      BY <1>1, <2>2 DEF Restart, Gate!Start
  <2> QED
      BY <2>3 DEF Gate!Next, Gate!Deploy
<1>2. CASE TurnPhase
    BY <1>2
       DEF TurnPhase, Generate, Switch, Drop, Finish, Rollback, gateVars, Gate!vars
<1>3. CASE Serve
  <2>1. PICK r \in Replicas, caller \in Callers, tool \in Tools, args \in Arguments,
             roles \in SUBSET Roles, relay \in Gate!Relayed :
            LET req == [caller |-> caller, tool |-> tool, args |-> args, roles |-> roles,
                        state |-> relay[1], answers |-> relay[2]]
            IN  Handle(r, req) \/ \E n \in Nonces : Question(r, req, n)
      BY <1>3 DEF Serve
  <2> DEFINE req == [caller |-> caller, tool |-> tool, args |-> args, roles |-> roles,
                     state |-> relay[1], answers |-> relay[2]]
  <2>2. Gate!ToolCall(r, req)
      BY <2>1 DEF Handle, Question, Gate!ToolCall
  <2> QED
      BY <2>2 DEF Gate!Next, Gate!Calling
<1>4. CASE PeopleAnswer
    BY <1>4 DEF PeopleAnswer, Gate!Next
<1>5. CASE Pass
    BY <1>5 DEF Pass, Gate!Next
<1>6. CASE UNCHANGED <<vars, gateVars>>
    BY <1>6 DEF vars, gateVars, Gate!vars
<1> QED
    BY <1>1, <1>2, <1>3, <1>4, <1>5, <1>6 DEF RotatingNext

\* The composition implements the gate's steps, from any start of its replicas.
THEOREM RotationServes == RotatingSpec => [][Gate!Next]_(Gate!vars)
<1>1. TypeOK /\ [RotatingNext]_<<vars, gateVars>> => [Gate!Next]_(Gate!vars)
    BY StepServes
<1> QED
    BY <1>1, TypesUnderRotation, PTL DEF RotatingSpec

\* Why ApprovedRetriesRun holds: what the clients hold of the states that have
\* not expired is what the rotation is careful about.
SealedInv ==
    /\ DOMAIN sealed = Nonces
    /\ \A n \in Gate!Asked :
           /\ sealed[n].minted \in Nat
           /\ Fresh(sealed[n].minted, now) =>
                  [key |-> sealed[n].key, minted |-> sealed[n].minted] \in live

\* A step that seals nothing keeps what is known of the states: time only
\* makes them older (RequestStateBoundary's expiry).
LEMMA NothingSealed ==
    ASSUME TypeOK, SealedInv, sealed' = sealed,
           \/ live' = live /\ now' = now
           \/ Tick
    PROVE  SealedInv'
<1> SUFFICES ASSUME NEW n \in Gate!Asked, Fresh(sealed[n].minted, now')
             PROVE  [key |-> sealed[n].key, minted |-> sealed[n].minted] \in live'
    BY DEF SealedInv, Gate!Asked
<1> DEFINE state == [key |-> sealed[n].key, minted |-> sealed[n].minted]
<1>1. CASE live' = live /\ now' = now
    BY <1>1 DEF SealedInv
<1>2. CASE Tick
  <2> DEFINE minted == sealed[n].minted
  <2>0. minted \in Nat /\ now \in Nat /\ TTL \in Nat /\ now' = now + 1
      BY <1>2, TTLAssumption DEF Tick, SealedInv, TypeOK
  <2>1. Fresh(sealed[n].minted, now)
    <3> HIDE DEF minted
    <3>1. (now + 1) - minted < TTL => now - minted < TTL
        BY <2>0
    <3> QED
        BY <2>0, <3>1 DEF Fresh, minted
  <2>2. state \in live
      BY <2>1 DEF SealedInv
  <2>3. live' = {s \in live : Fresh(s.minted, now')}
      BY <1>2 DEF Tick
  <2>4. state.minted = sealed[n].minted
      OBVIOUS
  <2> QED
      BY <2>2, <2>3, <2>4
<1> QED
    BY <1>1, <1>2

\* The state of a new question is one the rotation knows of (new_pending_state).
LEMMA QuestionSealed ==
    ASSUME TypeOK, SealedInv, NEW r \in Replicas, NEW req, NEW n \in Nonces,
           Question(r, req, n)
    PROVE  SealedInv'
<1> DEFINE state == [key |-> SealingKey(ring[r]), minted |-> now]
<1>1. /\ sealed' = [sealed EXCEPT ![n] =
             Gate!Seal(ring[r], req.caller, req.tool, req.args, now)]
      /\ live' = live \cup {state} /\ now' = now
    BY DEF Question, SealState, Gate!Ask
<1>2. sealed'[n].key = SealingKey(ring[r]) /\ sealed'[n].minted = now
    BY <1>1 DEF SealedInv, Gate!Seal, Gate!SealingKey, SealingKey
<1>3. \A m \in Nonces : m # n => sealed'[m] = sealed[m]
    BY <1>1 DEF SealedInv
<1>4. DOMAIN sealed' = Nonces
    BY <1>1 DEF SealedInv
<1>5. ASSUME NEW m \in Nonces, sealed'[m] # NoQuestion
      PROVE  /\ sealed'[m].minted \in Nat
             /\ Fresh(sealed'[m].minted, now) =>
                    [key |-> sealed'[m].key, minted |-> sealed'[m].minted] \in live'
  <2>1. CASE m = n
      BY <1>1, <1>2, <2>1 DEF TypeOK
  <2>2. CASE m # n
      BY <1>1, <1>3, <1>5, <2>2 DEF SealedInv, Gate!Asked
  <2> QED
      BY <2>1, <2>2
<1> QED
    BY <1>1, <1>4, <1>5 DEF SealedInv, Gate!Asked

\* The clients hold nothing fresh that the rotation has forgotten (the two
\* TTLs are one, request_state.build).
LEMMA StepSeals ==
    TypeOK /\ SealedInv /\ [RotatingNext]_<<vars, gateVars>> => SealedInv'
<1> SUFFICES ASSUME TypeOK, SealedInv, [RotatingNext]_<<vars, gateVars>>
             PROVE  SealedInv'
    OBVIOUS
<1>1. CASE \E r \in Replicas : Restart(r)
    BY <1>1, NothingSealed DEF Restart, Deploy, Gate!Start
<1>2. CASE TurnPhase
    BY <1>2, NothingSealed
       DEF TurnPhase, Generate, Switch, Drop, Finish, Rollback, gateVars
<1>3. CASE Serve
  <2>0. PICK r \in Replicas :
            \E req : Handle(r, req) \/ \E n \in Nonces : Question(r, req, n)
      BY <1>3 DEF Serve
  <2>1. PICK req : Handle(r, req) \/ \E n \in Nonces : Question(r, req, n)
      BY <2>0
  <2>2. CASE Handle(r, req)
      BY <2>2, NothingSealed
         DEF Handle, vars, Gate!RejectState, Gate!Deny, Gate!RefuseApproval, Gate!Run
  <2> QED
      BY <2>1, <2>2, QuestionSealed
<1>4. CASE PeopleAnswer
    BY <1>4, NothingSealed DEF PeopleAnswer, vars, Gate!Answering, Gate!AnswerQuestion
<1>5. CASE Pass
    BY <1>5, NothingSealed DEF Pass, Gate!Tick
<1>6. CASE UNCHANGED <<vars, gateVars>>
    BY <1>6, NothingSealed DEF vars, gateVars
<1> QED
    BY <1>1, <1>2, <1>3, <1>4, <1>5, <1>6 DEF RotatingNext

\* What unseals and is approved is let through (_check_approval).
LEMMA FreshYesPasses ==
    ASSUME LiveStatesUnsealEverywhere, SealedInv
    PROVE  ApprovedRetriesRun
<1> SUFFICES ASSUME NEW n \in Gate!Asked, NEW r \in Replicas, NEW roles \in SUBSET Roles,
                    Gate!SaidYes(n), Fresh(sealed[n].minted, now),
                    DecideTool(Shipped, sealed[n].tool, roles).allowed
             PROVE  Gate!PassesGate(r, RetryOf(n, roles))
    BY DEF ApprovedRetriesRun
<1> DEFINE req == RetryOf(n, roles)
<1>1. /\ req.caller = sealed[n].caller /\ req.tool = sealed[n].tool
      /\ req.args = sealed[n].args /\ req.roles = roles
      /\ req.state = n /\ req.answers = Yes
    BY DEF RetryOf, Gate!SaidYes, Gate!Yes, Yes
<1> HIDE DEF req
<1>2. Gate!PassesBoundary(r, req)
  <2>1. [key |-> sealed[n].key, minted |-> sealed[n].minted] \in live
      BY DEF SealedInv
  <2>2. Holds(ring[r], sealed[n].key)
      BY <2>1 DEF LiveStatesUnsealEverywhere
  <2> QED
      BY <1>1, <2>2 DEF Gate!PassesBoundary, Gate!Unseals, Gate!Holds, Gate!Fresh, Holds, Fresh
<1>3. Gate!Decision(r, req) = DecideTool(Shipped, sealed[n].tool, roles)
    BY <1>1
       DEF Gate!Decision, Gate!DecideTool, Gate!Match, Gate!DefaultDeny,
           DecideTool, Match, DefaultDeny
<1>4. Gate!Admitted(r, Gate!Decision(r, req))
    BY <1>3 DEF Gate!Admitted
<1>5. Gate!Approved(req.state, req.answers)
  <2>1. n # NoState
      BY ShippedAssumption DEF Gate!Asked
  <2> QED
      BY <1>1, <2>1 DEF Gate!Approved, Gate!IsAffirmative, Gate!Answer, Yes
<1> QED
    BY <1>2, <1>4, <1>5 DEF Gate!PassesGate, req

\* A yes that comes back within the TTL gets through wherever it arrives,
\* however the key is being rotated (request_state.py, "Rotating without
\* dropping in-flight approvals").
THEOREM RetriesSurviveRotation ==
    3 \notin RollbackFrom => (RotatingSpec => []ApprovedRetriesRun)
<1> SUFFICES ASSUME 3 \notin RollbackFrom PROVE RotatingSpec => []ApprovedRetriesRun
    OBVIOUS
<1>1. RotatingSpec => []RotationInv /\ []LiveStatesUnsealEverywhere
    BY GateRotates, RotationInvariant, RotationDropsNothing, PTL
<1>2. RotatingInit => SealedInv
    BY DEF RotatingInit, SealedInv, Gate!Asked
<1>3. RotationInv /\ SealedInv /\ [RotatingNext]_<<vars, gateVars>> => SealedInv'
    BY StepSeals DEF RotationInv
<1>4. LiveStatesUnsealEverywhere /\ SealedInv => ApprovedRetriesRun
    BY FreshYesPasses
<1> QED
    BY <1>1, <1>2, <1>3, <1>4, PTL DEF RotatingSpec

-----------------------------------------------------------------------------
(* What MiddlewareProofs shows of the gate holds under a rotation, from    *)
(* which its replicas are started: the keys they are handed are among      *)
(* those an environment may name.                                          *)

Facts == INSTANCE MiddlewareProofs WITH
    proc    <- [r \in Replicas |->
                   [ring |-> ring[r], policy |-> Shipped, enforce |-> TRUE]],
    Configs <- {With(env) : env \in EnvValue}

\* The assumptions of MiddlewareProofs.
LEMMA FactsApply ==
    /\ \A config \in {With(env) : env \in EnvValue} :
           /\ Facts!IsDocument(config.policy)
           /\ config.env \in Facts!EnvValue
           /\ config.enforce \in BOOLEAN
           /\ config.complete \in BOOLEAN
    /\ HumanAnswers \subseteq Facts!Answer /\ NoState \notin Nonces
    /\ NoAnswers \notin Facts!Answer \cup {OtherAnswers}
    /\ OtherAnswers \notin Facts!Answer
    /\ TTL \in Nat \ {0} /\ Malformed \notin Keys
<1>1. /\ HumanAnswers \subseteq Facts!Answer /\ NoState \notin Nonces
      /\ NoAnswers \notin Facts!Answer \cup {OtherAnswers}
      /\ OtherAnswers \notin Facts!Answer
  BY ShippedAssumption, ApprovalAssumption DEF Facts!Answer, Answer
<1>2. Facts!EnvValue = EnvValue
  BY DEF Facts!EnvValue, EnvValue
<1>3. Facts!IsDocument(Shipped)
  BY ShippedAssumption DEF Facts!IsDocument, IsDocument, Facts!Rule, Rule
<1>4. TTL \in Nat \ {0} /\ Malformed \notin Keys
  BY TTLAssumption, MalformedAssumption
<1>5. ASSUME NEW config \in {With(env) : env \in EnvValue}
      PROVE  /\ Facts!IsDocument(config.policy)
             /\ config.env \in Facts!EnvValue
             /\ config.enforce \in BOOLEAN
             /\ config.complete \in BOOLEAN
  <2>1. PICK env \in EnvValue : config = With(env)
    OBVIOUS
  <2>2. config.policy = Shipped /\ config.env = env /\ config.enforce = TRUE
         /\ config.complete = TRUE
    BY <2>1 DEF With
  <2> QED
    BY <1>2, <1>3, <2>2
<1> QED
  BY <1>1, <1>4, <1>5

\* The two instances of Middleware, here and in RotatingGate, are one.
LEMMA SameStart ==
    ASSUME NEW r, NEW config, Gate!Start(r, config)
    PROVE  Facts!Start(r, config)
<1>1. Gate!Starts(config) <=> Facts!Starts(config)
  BY DEF Gate!Starts, Facts!Starts, Gate!Loads, Facts!Loads, Gate!RulesOf, Facts!RulesOf,
         Gate!Classifications, Facts!Classifications, Gate!LoadsKeys, Facts!LoadsKeys
<1>2. Gate!Ring(config.env, drawn) = Facts!Ring(config.env, drawn)
  BY DEF Gate!Ring, Facts!Ring, Gate!LocalKey, Facts!LocalKey
<1> QED
  BY <1>1, <1>2 DEF Gate!Start, Facts!Start

LEMMA SameWords ==
    /\ \A d : Gate!PassedAs(d) = Facts!PassedAs(d)
    /\ \A m, d : Gate!DecisionEntry(m, d) = Facts!DecisionEntry(m, d)
    /\ \A o : Gate!ApprovalEntry(o) = Facts!ApprovalEntry(o)
    /\ \A entries : Gate!Record(entries) => Facts!Record(entries)
    /\ \A ways : Gate!Respond(ways) => Facts!Respond(ways)
    /\ \A r, d : Gate!Admitted(r, d) <=> Facts!Admitted(r, d)
<1>1. /\ \A d : Gate!PassedAs(d) = Facts!PassedAs(d)
      /\ \A m, d : Gate!DecisionEntry(m, d) = Facts!DecisionEntry(m, d)
      /\ \A o : Gate!ApprovalEntry(o) = Facts!ApprovalEntry(o)
  BY DEF Gate!PassedAs, Facts!PassedAs, Gate!DecisionEntry, Facts!DecisionEntry,
         Gate!ApprovalEntry, Facts!ApprovalEntry, Gate!Outcome, Facts!Outcome
<1>2. /\ \A entries : Gate!Record(entries) => Facts!Record(entries)
      /\ \A ways : Gate!Respond(ways) => Facts!Respond(ways)
  BY DEF Gate!Record, Facts!Record, Gate!Respond, Facts!Respond,
         Gate!Entries, Facts!Entries, Gate!Responses, Facts!Responses
<1>3. \A r, d : Gate!Admitted(r, d) <=> Facts!Admitted(r, d)
  BY DEF Gate!Admitted, Facts!Admitted
<1> QED
  BY <1>1, <1>2, <1>3

LEMMA SameCall ==
    ASSUME NEW r \in Replicas, NEW req, Gate!ToolCall(r, req)
    PROVE  Facts!ToolCall(r, req)
<1>1. Gate!Decision(r, req) = Facts!Decision(r, req)
  BY DEF Gate!Decision, Facts!Decision, Gate!DecideTool, Facts!DecideTool,
         Gate!Match, Facts!Match, Gate!DefaultDeny, Facts!DefaultDeny
<1>2. Gate!PassesBoundary(r, req) <=> Facts!PassesBoundary(r, req)
  BY DEF Gate!PassesBoundary, Facts!PassesBoundary, Gate!Unseals, Facts!Unseals,
         Gate!Holds, Facts!Holds, Gate!Fresh, Facts!Fresh
<1>3. Gate!Gated(r, req) <=> Facts!Gated(r, req)
  BY <1>1 DEF Gate!Gated, Facts!Gated
<1>4. \A state, answers : Gate!Approved(state, answers) <=> Facts!Approved(state, answers)
  BY DEF Gate!Approved, Facts!Approved, Gate!IsAffirmative, Facts!IsAffirmative,
         Gate!Answer, Facts!Answer
<1>5. /\ \A d : Gate!PassedAs(d) = Facts!PassedAs(d)
      /\ \A m, d : Gate!DecisionEntry(m, d) = Facts!DecisionEntry(m, d)
      /\ \A o : Gate!ApprovalEntry(o) = Facts!ApprovalEntry(o)
      /\ \A entries : Gate!Record(entries) => Facts!Record(entries)
      /\ \A ways : Gate!Respond(ways) => Facts!Respond(ways)
      /\ \A d : Gate!Admitted(r, d) <=> Facts!Admitted(r, d)
  BY SameWords
<1>6. Gate!PassesGate(r, req) <=> Facts!PassesGate(r, req)
  BY <1>1, <1>2, <1>3, <1>4, <1>5 DEF Gate!PassesGate, Facts!PassesGate
<1>7. \A keys, caller, tool, args, t :
          Gate!Seal(keys, caller, tool, args, t) = Facts!Seal(keys, caller, tool, args, t)
  BY DEF Gate!Seal, Facts!Seal, Gate!SealingKey, Facts!SealingKey
<1>8. CASE Gate!RejectState(r, req) \/ Gate!Deny(r, req) \/ Gate!RefuseApproval(r, req)
  BY <1>1, <1>2, <1>3, <1>4, <1>5, <1>8
     DEF Gate!RejectState, Gate!Deny, Gate!RefuseApproval,
         Facts!RejectState, Facts!Deny, Facts!RefuseApproval, Facts!ToolCall
<1>9. ASSUME NEW n \in Nonces, Gate!Ask(r, req, n)
       PROVE  Facts!Ask(r, req, n)
  BY <1>1, <1>2, <1>3, <1>5, <1>7, <1>9 DEF Gate!Ask, Facts!Ask
<1>10. CASE Gate!Run(r, req)
  BY <1>1, <1>3, <1>6, <1>5, <1>10 DEF Gate!Run, Facts!Run, Facts!ToolCall
<1> QED
  BY <1>8, <1>9, <1>10 DEF Gate!ToolCall, Facts!ToolCall

LEMMA SameGate == [Gate!Next]_(Gate!vars) => [Facts!Next]_(Facts!vars)
<1> SUFFICES ASSUME [Gate!Next]_(Gate!vars) PROVE [Facts!Next]_(Facts!vars)
  OBVIOUS
<1>1. CASE Gate!Deploy
  BY <1>1, SameStart DEF Gate!Deploy, Facts!Deploy, Facts!Next
<1>2. CASE Gate!Tick
  BY <1>2 DEF Gate!Tick, Facts!Tick, Facts!Next
<1>3. CASE Gate!Answering
  BY <1>3 DEF Gate!Answering, Facts!Answering, Gate!AnswerQuestion, Facts!AnswerQuestion,
              Gate!Asked, Facts!Asked, Facts!Next
<1>4. CASE Gate!Calling
  <2>1. Gate!Relayed = Facts!Relayed
    BY DEF Gate!Relayed, Facts!Relayed, Gate!Asked, Facts!Asked
  <2> QED
    BY <1>4, <2>1, SameCall DEF Gate!Calling, Facts!Calling, Facts!Next
<1>5. CASE Gate!Reading
  <2>1. PICK r \in Replicas, uri \in Uris, roles \in SUBSET Roles :
            Gate!ReadResource(r, uri, roles)
    BY <1>5 DEF Gate!Reading
  <2>2. \A doc : Gate!DecideResource(doc, uri, roles) = Facts!DecideResource(doc, uri, roles)
    BY DEF Gate!DecideResource, Facts!DecideResource, Gate!ResourceRule, Facts!ResourceRule,
           Gate!Match, Facts!Match, Gate!DefaultDeny, Facts!DefaultDeny
  <2>3. Facts!ReadResource(r, uri, roles)
    BY <2>1, <2>2, SameWords DEF Gate!ReadResource, Facts!ReadResource
  <2> QED
    BY <2>3 DEF Facts!Reading, Facts!Next
<1>6. CASE UNCHANGED Gate!vars
  BY <1>6 DEF Gate!vars, Facts!vars
<1> QED
  BY <1>1, <1>2, <1>3, <1>4, <1>5, <1>6 DEF Gate!Next

\* Whatever rings the replicas run with, what the gate has let through is
\* justified (MiddlewareProofs, Justified).
LEMMA FactsUnderRotation == RotatingSpec => []Facts!IInv
<1>1. RotatingInit => Facts!IInv
  <2> SUFFICES ASSUME RotatingInit PROVE Facts!IInv
    OBVIOUS
  <2>1. \A r \in Replicas : ring[r] = <<FirstKey>> /\ FirstKey \in Keys
    BY KeyRotationAssumption DEF RotatingInit, Init
  <2>2. <<FirstKey>> \in Seq(Facts!AnyKey) \ {<<>>}
    <3>1. FirstKey \in Facts!AnyKey
      BY KeyRotationAssumption DEF Facts!AnyKey
    <3> QED
      BY <3>1
  <2>3. Shipped \in {config.policy : config \in {With(env) : env \in EnvValue}}
    <3>1. <<>> \in EnvValue
      BY DEF EnvValue
    <3>2. With(<<>>).policy = Shipped
      BY DEF With
    <3> QED
      BY <3>1, <3>2
  <2>4. \A r \in Replicas :
            [ring |-> ring[r], policy |-> Shipped, enforce |-> TRUE] \in Facts!Process
    BY <2>1, <2>2, <2>3 DEF Facts!Process
  <2>5. Facts!TypeOK
    BY <2>4 DEF RotatingInit, Init, Facts!TypeOK, Gate!Entries, Facts!Entries,
                Gate!Responses, Facts!Responses
  <2>6. Facts!QuestionInv /\ Facts!EnforcedRunsAreJustified
    BY DEF RotatingInit, Facts!QuestionInv, Facts!Asked, Facts!EnforcedRunsAreJustified
  <2> QED
    BY <2>5, <2>6 DEF Facts!IInv
<1>2. Facts!IInv /\ [Facts!Next]_(Facts!vars) => Facts!IInv'
  BY FactsApply, Facts!NextTyped, Facts!NextQuestion, Facts!NextJustified DEF Facts!IInv
<1>3. RotatingSpec => [][Facts!Next]_(Facts!vars)
  BY RotationServes, SameGate, PTL
<1> QED
  BY <1>1, <1>2, <1>3, PTL DEF RotatingSpec

\* Under a rotation every call that got through was allowed by the policy and,
\* if gated, agreed to (middleware._guard_tool_call).
THEOREM RotationJustifies == RotatingSpec => []Gate!EnforcedRunsAreJustified
<1>1. Facts!IInv => Gate!EnforcedRunsAreJustified
  BY DEF Facts!IInv, Facts!EnforcedRunsAreJustified, Gate!EnforcedRunsAreJustified,
         Facts!GatedRun, Gate!GatedRun, Facts!RunDecision, Gate!RunDecision,
         Facts!DecideTool, Gate!DecideTool, Facts!Match, Gate!Match,
         Facts!DefaultDeny, Gate!DefaultDeny, Facts!ConsentedRun, Gate!ConsentedRun,
         Facts!Asked, Gate!Asked, Facts!SaidYes, Gate!SaidYes, Facts!Yes, Gate!Yes,
         Facts!CallOf, Gate!CallOf
<1> QED
  BY <1>1, FactsUnderRotation, PTL

\* Rotating the key, back and forth and from any phase, gives nobody a call:
\* the gate under it implements Consent (middleware._guard_tool_call,
\* request_state.build).
THEOREM RotationConsents == RotatingSpec => RotationKeepsPromise
<1>1. RotatingInit => Gate!Promise!Init
  BY DEF RotatingInit, Init, Gate!Promise!Init, Gate!Asked
<1>2. Facts!IInv /\ [Facts!Next]_(Facts!vars) => [Facts!Promise!Next]_(Facts!Promise!vars)
  BY FactsApply, Facts!NextKeepsPromise
<1>3. [Facts!Promise!Next]_(Facts!Promise!vars) => [Gate!Promise!Next]_(Gate!Promise!vars)
  BY DEF Facts!Promise!Next, Gate!Promise!Next, Facts!Promise!vars, Gate!Promise!vars,
         Facts!Promise!Agree, Gate!Promise!Agree, Facts!Promise!Perform,
         Gate!Promise!Perform, Facts!Promise!Pass, Gate!Promise!Pass,
         Facts!Asked, Gate!Asked, Facts!SaidYes, Gate!SaidYes, Facts!Yes, Gate!Yes,
         Facts!CallOf, Gate!CallOf, Facts!GatedRun, Gate!GatedRun,
         Facts!RunDecision, Gate!RunDecision, Facts!DecideTool, Gate!DecideTool,
         Facts!Match, Gate!Match, Facts!DefaultDeny, Gate!DefaultDeny
<1>4. RotatingSpec => [][Facts!Next]_(Facts!vars)
  BY RotationServes, SameGate, PTL
<1> QED
  BY <1>1, <1>2, <1>3, <1>4, FactsUnderRotation, PTL
     DEF RotatingSpec, RotationKeepsPromise, Gate!KeepsPromise, Gate!Promise!Spec
=============================================================================
