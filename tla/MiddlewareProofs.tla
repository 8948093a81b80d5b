-------------------------- MODULE MiddlewareProofs --------------------------
(***************************************************************************)
(* Theorems about Middleware, for any replicas, callers, tools, policies,  *)
(* keys and TTL.  EnforcedRunsAreJustified is inductive together with the  *)
(* types and QuestionInv: a question once put is never overwritten and an    *)
(* answer once given never changed, so what justified a run still does.    *)
(***************************************************************************)
EXTENDS Middleware, TLAPS

\* No question was put in the future, and none is answered before it is put.
QuestionInv ==
    /\ \A n \in Asked : sealed[n].minted <= now
    /\ \A n \in Nonces : human[n] # NoAnswers => n \in Asked

-----------------------------------------------------------------------------
(* Types.                                                                  *)

\* Record and Respond add one to some counters and leave the rest.
LEMMA CountersTyped ==
    ASSUME TypeOK, NEW entries, NEW ways
    PROVE  /\ Record(entries) => audit' \in [Entries -> Nat]
           /\ Respond(ways) => served' \in [Responses -> Nat]
BY DEF TypeOK, Record, Respond

\* A ring never is empty, so there always is a key to seal with.
LEMMA RingTyped ==
    ASSUME NEW env \in EnvValue, LoadsKeys(env), NEW s \in Nat
    PROVE  Ring(env, s) \in Seq(AnyKey) \ {<<>>}
<1>1. CASE env = <<>>
  <2>1. LocalKey(s) \in AnyKey
    BY DEF LocalKey, AnyKey
  <2> QED
    BY <1>1, <2>1 DEF Ring
<1>2. CASE env # <<>>
  <2>1. env \in Seq(Keys \cup {Malformed}) /\ Len(env) \in Nat
    BY DEF EnvValue
  <2>2. \A i \in 1..Len(env) : env[i] \in AnyKey
    BY <2>1 DEF LoadsKeys, AnyKey
  <2>3. env \in Seq(AnyKey)
    BY <2>1, <2>2
  <2> QED
    BY <1>2, <2>3 DEF Ring
<1> QED
  BY <1>1, <1>2

LEMMA StartTyped ==
    ASSUME TypeOK, NEW r \in Replicas, NEW config \in Configs, Start(r, config)
    PROVE  TypeOK'
<1>1. CASE Starts(config)
  <2> DEFINE p == [ring    |-> Ring(config.env, drawn),
                   policy  |-> config.policy,
                   enforce |-> config.enforce]
  <2>1. config.env \in EnvValue /\ config.enforce \in BOOLEAN
    BY ConfigsAssumption
  <2>2. Ring(config.env, drawn) \in Seq(AnyKey) \ {<<>>}
    BY <1>1, <2>1, RingTyped DEF Starts, TypeOK
  <2>3. p \in Process
    BY <2>1, <2>2 DEF Process
  <2>4. proc' = [proc EXCEPT ![r] = p]
    BY <1>1 DEF Start
  <2>5. proc' \in [Replicas -> Process \cup {Down}]
    BY <2>3, <2>4 DEF TypeOK
  <2>6. drawn' \in Nat
    BY DEF Start, TypeOK
  <2> QED
    BY <2>5, <2>6 DEF Start, TypeOK
<1>2. CASE ~Starts(config)
  BY <1>2 DEF Start, TypeOK
<1> QED
  BY <1>1, <1>2

LEMMA CallTyped ==
    ASSUME TypeOK, NEW r \in Replicas, NEW req \in Request, ToolCall(r, req)
    PROVE  TypeOK'
<1>1. CASE RejectState(r, req)
  BY <1>1, CountersTyped DEF RejectState, TypeOK
<1>2. CASE Deny(r, req)
  BY <1>2, CountersTyped DEF Deny, TypeOK
<1>3. ASSUME NEW n \in Nonces, Ask(r, req, n) PROVE TypeOK'
  <2>1. proc[r] \in Process
    BY <1>3 DEF Ask, TypeOK
  <2>2. SealingKey(proc[r].ring) \in AnyKey
    BY <2>1 DEF Process, SealingKey
  <2>3. Seal(proc[r].ring, req.caller, req.tool, req.args, now) \in Sealed
    BY <2>2 DEF Seal, Sealed, Request, TypeOK
  <2>4. sealed' \in [Nonces -> Sealed \cup {NoQuestion}]
    BY <1>3, <2>3 DEF Ask, TypeOK
  <2>5. audit' \in [Entries -> Nat] /\ served' \in [Responses -> Nat]
    BY <1>3, CountersTyped DEF Ask
  <2> QED
    BY <1>3, <2>4, <2>5 DEF Ask, TypeOK
<1>4. CASE RefuseApproval(r, req)
  BY <1>4, CountersTyped DEF RefuseApproval, TypeOK
<1>5. CASE Run(r, req)
  <2>1. proc[r] \in Process
    BY <1>5 DEF Run, PassesGate, TypeOK
  <2>2. [req |-> req, by |-> proc[r], at |-> now] \in [req : Request, by : Process, at : Nat]
    BY <2>1 DEF TypeOK
  <2>3. audit' \in [Entries -> Nat] /\ served' \in [Responses -> Nat]
    BY <1>5, CountersTyped DEF Run, PassesGate
  <2> QED
    BY <1>5, <2>2, <2>3 DEF Run, PassesGate, TypeOK
<1> QED
  BY <1>1, <1>2, <1>3, <1>4, <1>5 DEF ToolCall

\* What a client sends is a request, and it brings back an answer only with
\* the question that person was asked.
LEMMA RelayedFacts ==
    ASSUME TypeOK, NEW relay \in Relayed
    PROVE  /\ relay[1] \in Nonces \cup {NoState}
           /\ relay[2] \in Answer \cup {NoAnswers, OtherAnswers}
           /\ relay[1] # NoState => relay[1] \in Asked
           /\ relay[1] # NoState /\ relay[2] \in Answer => relay[2] = human[relay[1]]
<1>1. HumanAnswers \subseteq Answer /\ Asked \subseteq Nonces
  BY SentinelsAssumption DEF Asked
<1>2. CASE relay \in {NoState} \X (HumanAnswers \cup {NoAnswers, OtherAnswers})
  BY <1>1, <1>2
<1>3. CASE /\ relay \in Asked \X (HumanAnswers \cup {NoAnswers, OtherAnswers})
           /\ relay[2] \in {NoAnswers, OtherAnswers, human[relay[1]]}
  BY <1>1, <1>3, ApprovalAssumption
<1> QED
  BY <1>2, <1>3 DEF Relayed

\* Every step but the ones of tools/call, taken apart.
LEMMA RequestFacts ==
    ASSUME TypeOK, Calling
    PROVE  \E r \in Replicas, req \in Request :
               /\ ToolCall(r, req)
               /\ req.state # NoState => req.state \in Asked
               /\ req.state # NoState /\ req.answers \in Answer
                      => req.answers = human[req.state]
<1>1. PICK r \in Replicas, caller \in Callers, tool \in Tools, args \in Arguments,
           roles \in SUBSET Roles, relay \in Relayed :
               ToolCall(r, [caller |-> caller, tool |-> tool, args |-> args,
                            roles |-> roles, state |-> relay[1], answers |-> relay[2]])
  BY DEF Calling
<1> DEFINE req == [caller |-> caller, tool |-> tool, args |-> args,
                   roles |-> roles, state |-> relay[1], answers |-> relay[2]]
<1>2. /\ relay[1] \in Nonces \cup {NoState}
      /\ relay[2] \in Answer \cup {NoAnswers, OtherAnswers}
      /\ relay[1] # NoState => relay[1] \in Asked
      /\ relay[1] # NoState /\ relay[2] \in Answer => relay[2] = human[relay[1]]
  BY RelayedFacts
<1>3. req \in Request
  BY <1>2 DEF Request
<1>4. /\ req.state # NoState => req.state \in Asked
      /\ req.state # NoState /\ req.answers \in Answer => req.answers = human[req.state]
  BY <1>2
<1> HIDE DEF req
<1> QED
  BY <1>1, <1>3, <1>4 DEF req

\* Whoever has not answered has not said yes.
LEMMA YesIsAnAnswer == \A n : SaidYes(n) => human[n] # NoAnswers
BY ApprovalAssumption DEF SaidYes, Yes, Answer

LEMMA InitTyped == Init => TypeOK /\ QuestionInv /\ EnforcedRunsAreJustified
BY DEF Init, TypeOK, QuestionInv, Asked, EnforcedRunsAreJustified

LEMMA NextTyped ==
    ASSUME TypeOK, [Next]_vars
    PROVE  TypeOK'
<1>1. CASE UNCHANGED vars
  BY <1>1 DEF vars, TypeOK
<1>2. CASE Deploy
  BY <1>2, StartTyped DEF Deploy
<1>3. CASE Tick
  BY <1>3 DEF Tick, TypeOK
<1>4. CASE Answering
  BY <1>4 DEF Answering, AnswerQuestion, TypeOK
<1>5. CASE Calling
  BY <1>5, RequestFacts, CallTyped
<1>6. CASE Reading
  <2>1. PICK r \in Replicas, uri \in Uris, roles \in SUBSET Roles : ReadResource(r, uri, roles)
    BY <1>6 DEF Reading
  <2>2. audit' \in [Entries -> Nat] /\ served' \in [Responses -> Nat]
    BY <2>1, CountersTyped DEF ReadResource
  <2> QED
    BY <2>1, <2>2 DEF ReadResource, TypeOK
<1> QED
  BY <1>1, <1>2, <1>3, <1>4, <1>5, <1>6 DEF Next

-----------------------------------------------------------------------------
(* Consent.                                                                *)

\* What a step may never do: take back a question, change an answer that was
\* given, or turn back the clock.
Keeps ==
    /\ now <= now'
    /\ \A n \in Asked : n \in Asked' /\ sealed'[n] = sealed[n]
    /\ \A n \in Nonces : human[n] # NoAnswers => human'[n] = human[n]

LEMMA StepKeeps ==
    ASSUME TypeOK, [Next]_vars
    PROVE  Keeps
<1> USE DEF Keeps, Asked
<1>0. now \in Nat
  BY DEF TypeOK
<1>1. CASE UNCHANGED vars
  BY <1>0, <1>1 DEF vars
<1>2. CASE Deploy
  BY <1>0, <1>2 DEF Deploy, Start
<1>3. CASE Tick
  BY <1>0, <1>3 DEF Tick
<1>4. CASE Answering
  <2>1. PICK n \in Nonces, answer \in HumanAnswers : AnswerQuestion(n, answer)
    BY <1>4 DEF Answering
  <2> QED
    BY <1>0, <2>1 DEF AnswerQuestion, TypeOK
<1>5. CASE Calling
  <2>1. PICK r \in Replicas, req \in Request : ToolCall(r, req)
    BY <1>5, RequestFacts
  <2>2. ASSUME NEW n \in Nonces, Ask(r, req, n) PROVE Keeps
    BY <1>0, <2>2 DEF Ask, TypeOK
  <2> QED
    BY <1>0, <2>1, <2>2 DEF ToolCall, RejectState, Deny, RefuseApproval, Run, PassesGate
<1>6. CASE Reading
  BY <1>0, <1>6 DEF Reading, ReadResource
<1> QED
  BY <1>1, <1>2, <1>3, <1>4, <1>5, <1>6 DEF Next

\* Only Run adds to the runs, and it adds a justified one.
LEMMA NewRunJustified ==
    ASSUME TypeOK, QuestionInv, [Next]_vars,
           NEW run \in runs', run \notin runs
    PROVE  /\ run.at = now
           /\ run.by.enforce => RunDecision(run).allowed
           /\ GatedRun(run) => ConsentedRun(run)
<1>1. Calling
  BY DEF Next, vars, Deploy, Start, Tick, Answering, AnswerQuestion, Reading, ReadResource
<1>2. PICK r \in Replicas, req \in Request :
          /\ ToolCall(r, req)
          /\ req.state # NoState => req.state \in Asked
          /\ req.state # NoState /\ req.answers \in Answer => req.answers = human[req.state]
  BY <1>1, RequestFacts
<1>3. Run(r, req)
  BY <1>2 DEF ToolCall, RejectState, Deny, Ask, RefuseApproval
<1>4. run = [req |-> req, by |-> proc[r], at |-> now]
  BY <1>3 DEF Run, PassesGate
<1>5. RunDecision(run) = Decision(r, req)
  BY <1>4 DEF RunDecision, Decision
<1>6. run.by.enforce => RunDecision(run).allowed
  BY <1>3, <1>4, <1>5 DEF Run, PassesGate, Admitted
<1>7. ASSUME GatedRun(run) PROVE ConsentedRun(run)
  <2>1. Gated(r, req)
    BY <1>4, <1>5, <1>7 DEF GatedRun, Gated
  <2>2. Approved(req.state, req.answers)
    BY <1>3, <2>1 DEF Run, PassesGate
  <2> DEFINE n == req.state
  <2>3. n \in Asked /\ human[n] = req.answers
    BY <1>2, <2>2 DEF Approved
  <2>4. SaidYes(n)
    BY <2>2, <2>3 DEF Approved, IsAffirmative, Answer, SaidYes, Yes
  <2>5. Unseals(proc[r].ring, sealed[n], req.caller, req.tool, req.args, now)
    BY <1>3, <2>2 DEF Run, PassesGate, PassesBoundary, Approved
  <2>6. CallOf(sealed[n]) = CallOf(run.req) /\ now - sealed[n].minted < TTL
    BY <1>4, <2>5 DEF Unseals, Fresh, CallOf
  <2>7. sealed[n].minted <= run.at /\ run.at - sealed[n].minted < TTL
    BY <1>4, <2>3, <2>6 DEF QuestionInv
  <2> QED
    BY <2>3, <2>4, <2>6, <2>7 DEF ConsentedRun
<1> QED
  BY <1>4, <1>6, <1>7

LEMMA NextQuestion ==
    ASSUME TypeOK, QuestionInv, [Next]_vars
    PROVE  QuestionInv'
<1>1. Keeps /\ now \in Nat /\ now' \in Nat
  BY StepKeeps, NextTyped DEF TypeOK
<1>2. ASSUME NEW n \in Asked', n \notin Asked PROVE sealed'[n].minted = now /\ now' = now
  <2>1. Calling
    BY <1>2 DEF Next, vars, Asked, Deploy, Start, Tick, Answering, AnswerQuestion,
                Reading, ReadResource
  <2>2. PICK r \in Replicas, req \in Request : ToolCall(r, req)
    BY <2>1, RequestFacts
  <2>3. PICK m \in Nonces : Ask(r, req, m)
    BY <1>2, <2>2 DEF Asked, ToolCall, RejectState, Deny, RefuseApproval, Run, PassesGate
  <2>4. n = m
    BY <1>2, <2>3 DEF Ask, Asked, TypeOK
  <2> QED
    BY <2>3, <2>4 DEF Ask, Seal, TypeOK
<1>3. ASSUME NEW n \in Asked' PROVE sealed'[n].minted <= now'
  <2>1. CASE n \in Asked
    <3>1. sealed[n] \in Sealed
      BY <2>1 DEF Asked, TypeOK
    <3> QED
      BY <1>1, <2>1, <3>1 DEF Keeps, QuestionInv, Sealed
  <2>2. CASE n \notin Asked
    BY <1>1, <1>2, <2>2
  <2> QED
    BY <2>1, <2>2
<1>4. ASSUME NEW n \in Nonces, human'[n] # NoAnswers PROVE n \in Asked'
  <2>1. CASE human[n] # NoAnswers
    BY <1>1, <2>1 DEF QuestionInv, Keeps
  <2>2. CASE human[n] = NoAnswers
    <3>1. Answering
      <4>1. Calling => human' = human
        BY DEF Calling, ToolCall, RejectState, Deny, Ask, RefuseApproval, Run, PassesGate
      <4>2. UNCHANGED vars \/ Deploy \/ Tick \/ Reading => human' = human
        BY DEF vars, Deploy, Start, Tick, Reading, ReadResource
      <4> QED
        BY <1>4, <2>2, <4>1, <4>2 DEF Next
    <3>2. n \in Asked
      BY <1>4, <2>2, <3>1 DEF Answering, AnswerQuestion, TypeOK
    <3> QED
      BY <1>1, <3>2 DEF Keeps
  <2> QED
    BY <2>1, <2>2
<1> QED
  BY <1>3, <1>4 DEF QuestionInv

LEMMA NextJustified ==
    ASSUME TypeOK, QuestionInv, EnforcedRunsAreJustified, [Next]_vars
    PROVE  EnforcedRunsAreJustified'
<1>1. Keeps
  BY StepKeeps
<1>2. ASSUME NEW run, ConsentedRun(run) PROVE ConsentedRun(run)'
  <2>1. PICK n \in Asked :
            /\ SaidYes(n)
            /\ CallOf(sealed[n]) = CallOf(run.req)
            /\ sealed[n].minted <= run.at
            /\ run.at - sealed[n].minted < TTL
    BY <1>2 DEF ConsentedRun
  <2>2. n \in Asked' /\ sealed'[n] = sealed[n] /\ human'[n] = human[n]
    BY <1>1, <2>1, YesIsAnAnswer DEF Keeps, Asked
  <2> QED
    BY <2>1, <2>2 DEF ConsentedRun, SaidYes, CallOf
<1>3. ASSUME NEW run \in runs' PROVE /\ run.by.enforce => RunDecision(run).allowed
                                     /\ GatedRun(run) => ConsentedRun(run)
  BY NewRunJustified DEF EnforcedRunsAreJustified
<1> QED
  BY <1>2, <1>3 DEF EnforcedRunsAreJustified, GatedRun, RunDecision

-----------------------------------------------------------------------------
IInv == TypeOK /\ QuestionInv /\ EnforcedRunsAreJustified

LEMMA Invariance == Spec => []IInv
<1>1. Init => IInv
  BY InitTyped DEF IInv
<1>2. IInv /\ [Next]_vars => IInv'
  BY NextTyped, NextQuestion, NextJustified DEF IInv
<1> QED
  BY <1>1, <1>2, PTL DEF Spec

\* Every state of the replicas, the questions and the records is well typed;
\* in particular no process ever runs with an empty key ring (build).
THEOREM TypeCorrect == Spec => []TypeOK
BY Invariance, PTL DEF IInv

\* However requests, restarts, policy changes, answers and time interleave, an
\* enforcing process calls a tool's handler only for a role the policy grants
\* and, if the tool is gated, with a fresh yes to that very call.
THEOREM Justified == Spec => []EnforcedRunsAreJustified
BY Invariance, PTL DEF IInv

-----------------------------------------------------------------------------
(* Auditing.                                                               *)

\* The records written in a step that adds the given entries and responses
\* are added one by one.
LEMMA Counted ==
    ASSUME TypeOK, NEW entries, NEW ways, Record(entries), Respond(ways)
    PROVE  /\ \A e \in Entries : /\ audit[e] \in Nat
                                 /\ e \in entries => audit'[e] = audit[e] + 1
                                 /\ e \notin entries => audit'[e] = audit[e]
           /\ \A w \in Responses : /\ served[w] \in Nat
                                   /\ w \in ways => served'[w] = served[w] + 1
                                   /\ w \notin ways => served'[w] = served[w]
BY DEF TypeOK, Record, Respond

LEMMA EntryFacts ==
    /\ \A decision : decision.allowed =>
           /\ DecisionEntry("tools/call", decision) = <<"tools/call", "allow">>
           /\ DecisionEntry("resources/read", decision) = <<"resources/read", "allow">>
    /\ \A decision : ~decision.allowed =>
           /\ DecisionEntry("tools/call", decision) = <<"tools/call", "deny">>
           /\ DecisionEntry("resources/read", decision) = <<"resources/read", "deny">>
    /\ ApprovalEntry("pending") = <<"approval", "pending">>
    /\ ApprovalEntry("deny") = <<"approval", "deny">>
    /\ ApprovalEntry("allow") = <<"approval", "allow">>
BY DEF DecisionEntry, ApprovalEntry, Outcome

\* Each way a request may be answered keeps the balance.
LEMMA WaysBalance ==
    ASSUME TypeOK, AuditBalances, NEW entries, NEW ways, Record(entries), Respond(ways),
           NEW method \in {"tools/call", "resources/read"},
           \/ entries = {<<method, "deny">>} /\ ways = {"refused"}
           \/ entries = {<<method, "allow">>, <<"approval", "pending">>} /\ ways = {"asked"}
           \/ entries = {<<method, "allow">>, <<"approval", "deny">>} /\ ways = {"refused"}
           \/ entries = {<<method, "allow">>, <<"approval", "allow">>} /\ ways = {"passed"}
           \/ entries = {<<method, "allow">>} /\ ways = {"passed"}
           \/ entries = {<<method, "deny">>} /\ ways = {"passed", "shadowed"}
    PROVE  AuditBalances'
<1> DEFINE added(e) == IF e \in entries THEN 1 ELSE 0
           gained(w) == IF w \in ways THEN 1 ELSE 0
<1>1. \A e \in Entries : audit[e] \in Nat /\ audit'[e] = audit[e] + added(e)
  BY Counted
<1>2. \A w \in Responses : served[w] \in Nat /\ served'[w] = served[w] + gained(w)
  BY Counted
<1>3. /\ added(<<"tools/call", "allow">>) + added(<<"tools/call", "deny">>)
             + added(<<"resources/read", "allow">>) + added(<<"resources/read", "deny">>)
         = gained("passed") + gained("asked") + gained("refused")
      /\ added(<<"approval", "pending">>) = gained("asked")
      /\ added(<<"tools/call", "deny">>) + added(<<"resources/read", "deny">>)
             + added(<<"approval", "deny">>)
         = gained("refused") + gained("shadowed")
  OBVIOUS
<1>4. /\ \A e \in Entries : added(e) \in Nat
      /\ \A w \in Responses : gained(w) \in Nat
  OBVIOUS
<1>5. /\ {<<"tools/call", "allow">>, <<"tools/call", "deny">>,
          <<"resources/read", "allow">>, <<"resources/read", "deny">>,
          <<"approval", "pending">>, <<"approval", "deny">>} \subseteq Entries
      /\ {"passed", "asked", "refused", "shadowed"} \subseteq Responses
  BY DEF Entries, Responses
<1> HIDE DEF added, gained
<1> DEFINE ta == <<"tools/call", "allow">>
           td == <<"tools/call", "deny">>
           ra == <<"resources/read", "allow">>
           rd == <<"resources/read", "deny">>
           ap == <<"approval", "pending">>
           ad == <<"approval", "deny">>
<1>6. /\ audit[ta] \in Nat /\ audit'[ta] = audit[ta] + added(ta) /\ added(ta) \in Nat
      /\ audit[td] \in Nat /\ audit'[td] = audit[td] + added(td) /\ added(td) \in Nat
      /\ audit[ra] \in Nat /\ audit'[ra] = audit[ra] + added(ra) /\ added(ra) \in Nat
      /\ audit[rd] \in Nat /\ audit'[rd] = audit[rd] + added(rd) /\ added(rd) \in Nat
      /\ audit[ap] \in Nat /\ audit'[ap] = audit[ap] + added(ap) /\ added(ap) \in Nat
      /\ audit[ad] \in Nat /\ audit'[ad] = audit[ad] + added(ad) /\ added(ad) \in Nat
  BY <1>1, <1>4, <1>5
<1>7. /\ served["passed"] \in Nat /\ gained("passed") \in Nat
      /\ served["asked"] \in Nat /\ gained("asked") \in Nat
      /\ served["refused"] \in Nat /\ gained("refused") \in Nat
      /\ served["shadowed"] \in Nat /\ gained("shadowed") \in Nat
      /\ served'["passed"] = served["passed"] + gained("passed")
      /\ served'["asked"] = served["asked"] + gained("asked")
      /\ served'["refused"] = served["refused"] + gained("refused")
      /\ served'["shadowed"] = served["shadowed"] + gained("shadowed")
  BY <1>2, <1>4, <1>5
<1>8. /\ audit[ta] + audit[td] + audit[ra] + audit[rd]
             = served["passed"] + served["asked"] + served["refused"]
      /\ audit[ap] = served["asked"]
      /\ audit[td] + audit[rd] + audit[ad] = served["refused"] + served["shadowed"]
  BY DEF AuditBalances
<1>9. /\ added(ta) + added(td) + added(ra) + added(rd)
             = gained("passed") + gained("asked") + gained("refused")
      /\ added(ap) = gained("asked")
      /\ added(td) + added(rd) + added(ad) = gained("refused") + gained("shadowed")
  BY <1>3
<1> HIDE DEF ta, td, ra, rd, ap, ad
<1>10. audit'[ta] + audit'[td] + audit'[ra] + audit'[rd]
           = served'["passed"] + served'["asked"] + served'["refused"]
  <2>1. audit'[ta] + audit'[td] + audit'[ra] + audit'[rd]
        = (audit[ta] + audit[td] + audit[ra] + audit[rd])
            + (added(ta) + added(td) + added(ra) + added(rd))
    BY <1>6
  <2>2. served'["passed"] + served'["asked"] + served'["refused"]
        = (served["passed"] + served["asked"] + served["refused"])
            + (gained("passed") + gained("asked") + gained("refused"))
    BY <1>7
  <2> QED
    BY <1>8, <1>9, <2>1, <2>2
<1>11. audit'[ap] = served'["asked"]
  BY <1>6, <1>7, <1>8, <1>9
<1>12. audit'[td] + audit'[rd] + audit'[ad] = served'["refused"] + served'["shadowed"]
  <2>1. audit'[td] + audit'[rd] + audit'[ad]
        = (audit[td] + audit[rd] + audit[ad]) + (added(td) + added(rd) + added(ad))
    BY <1>6
  <2>2. served'["refused"] + served'["shadowed"]
        = (served["refused"] + served["shadowed"]) + (gained("refused") + gained("shadowed"))
    BY <1>7
  <2> QED
    BY <1>8, <1>9, <2>1, <2>2
<1> QED
  BY <1>10, <1>11, <1>12 DEF AuditBalances, ta, td, ra, rd, ap, ad

LEMMA NextBalances ==
    ASSUME TypeOK, AuditBalances, [Next]_vars
    PROVE  AuditBalances'
<1>1. CASE UNCHANGED <<audit, served>>
  BY <1>1 DEF AuditBalances
<1>2. CASE UNCHANGED vars \/ Deploy \/ Tick \/ Answering
  BY <1>1, <1>2 DEF vars, Deploy, Start, Tick, Answering, AnswerQuestion
<1>3. CASE Calling
  <2>1. PICK r \in Replicas, req \in Request : ToolCall(r, req)
    BY <1>3, RequestFacts
  <2> DEFINE decision == Decision(r, req)
             entry    == DecisionEntry("tools/call", decision)
  <2>2. /\ decision.allowed => entry = <<"tools/call", "allow">>
        /\ ~decision.allowed => entry = <<"tools/call", "deny">>
        /\ Admitted(r, decision) /\ Gated(r, req) => decision.allowed
    BY EntryFacts DEF Admitted, Gated
  <2> HIDE DEF decision, entry
  <2>3. CASE RejectState(r, req)
    <3>1. Respond({"rejected"}) /\ UNCHANGED audit
      BY <2>3 DEF RejectState
    <3>2. \A w \in {"passed", "asked", "refused", "shadowed"} : served'[w] = served[w]
      BY <3>1 DEF Respond, Responses, TypeOK
    <3> QED
      BY <3>1, <3>2 DEF AuditBalances
  <2>4. CASE Deny(r, req)
    <3>1. ~decision.allowed /\ Record({entry}) /\ Respond({"refused"})
      BY <2>4 DEF Deny, Admitted, decision, entry
    <3> QED
      BY <2>2, <3>1, WaysBalance
  <2>5. ASSUME NEW n \in Nonces, Ask(r, req, n) PROVE AuditBalances'
    <3>1. /\ Record({entry, ApprovalEntry("pending")}) /\ Respond({"asked"})
          /\ Admitted(r, decision) /\ Gated(r, req)
      BY <2>5 DEF Ask, decision, entry
    <3> QED
      BY <2>2, <3>1, EntryFacts, WaysBalance
  <2>6. CASE RefuseApproval(r, req)
    <3>1. /\ Record({entry, ApprovalEntry("deny")}) /\ Respond({"refused"})
          /\ Admitted(r, decision) /\ Gated(r, req)
      BY <2>6 DEF RefuseApproval, decision, entry
    <3> QED
      BY <2>2, <3>1, EntryFacts, WaysBalance
  <2>7. CASE Run(r, req)
    <3>1. /\ Record({entry} \cup IF Gated(r, req) THEN {ApprovalEntry("allow")} ELSE {})
          /\ Respond(PassedAs(decision))
          /\ Admitted(r, decision)
      BY <2>7 DEF Run, PassesGate, decision, entry
    <3>2. CASE Gated(r, req)
      <4>1. /\ Record({entry, ApprovalEntry("allow")})
            /\ Respond({"passed"})
        BY <2>2, <3>1, <3>2 DEF PassedAs
      <4> QED
        BY <2>2, <3>1, <3>2, <4>1, EntryFacts, WaysBalance
    <3>3. CASE ~Gated(r, req)
      <4>1. Record({entry})
        BY <3>1, <3>3
      <4>2. CASE decision.allowed
        BY <2>2, <3>1, <4>1, <4>2, WaysBalance DEF PassedAs
      <4>3. CASE ~decision.allowed
        BY <2>2, <3>1, <4>1, <4>3, WaysBalance DEF PassedAs
      <4> QED
        BY <4>2, <4>3
    <3> QED
      BY <3>2, <3>3
  <2> QED
    BY <2>1, <2>3, <2>4, <2>5, <2>6, <2>7 DEF ToolCall
<1>4. CASE Reading
  <2>1. PICK r \in Replicas, uri \in Uris, roles \in SUBSET Roles : ReadResource(r, uri, roles)
    BY <1>4 DEF Reading
  <2> DEFINE decision == DecideResource(proc[r].policy, uri, roles)
             entry    == DecisionEntry("resources/read", decision)
  <2>2. /\ Record({entry})
        /\ Respond(IF Admitted(r, decision) THEN PassedAs(decision) ELSE {"refused"})
        /\ decision.allowed => Admitted(r, decision)
    BY <2>1 DEF ReadResource, Admitted
  <2>3. /\ decision.allowed => entry = <<"resources/read", "allow">>
        /\ ~decision.allowed => entry = <<"resources/read", "deny">>
    BY EntryFacts
  <2> HIDE DEF decision, entry
  <2>4. CASE decision.allowed
    BY <2>2, <2>3, <2>4, WaysBalance DEF PassedAs
  <2>5. CASE ~decision.allowed
    BY <2>2, <2>3, <2>5, WaysBalance DEF PassedAs
  <2> QED
    BY <2>4, <2>5
<1> QED
  BY <1>1, <1>2, <1>3, <1>4 DEF Next

\* The denials in the audit stream are the refusals callers were given, plus
\* what shadow mode let through, and nothing is counted twice.
THEOREM Balanced == Spec => []AuditBalances
<1>1. Init => AuditBalances
  BY DEF Init, AuditBalances, Entries, Responses
<1>2. TypeOK /\ AuditBalances /\ [Next]_vars => AuditBalances'
  BY NextBalances
<1> QED
  BY <1>1, <1>2, TypeCorrect, PTL DEF Spec

-----------------------------------------------------------------------------
(* Discovery.                                                              *)

\* Two code paths answer the same question alike: a tool is visible to some
\* roles exactly when decide_tool allows it to them.
LEMMA VisibleIffAllowed ==
    ASSUME NEW doc, NEW roles, NEW tool
    PROVE  tool \in VisibleTools(doc, roles) <=> DecideTool(doc, tool, roles).allowed
BY DEF VisibleTools, DecideTool, Match, DefaultDeny

\* Whatever the policy and the mode, a caller is shown exactly the tools whose
\* call would not be denied.
THEOREM ListedAsAdmitted == Spec => []ListedIffAdmitted
<1>1. ListedIffAdmitted
  <2> SUFFICES ASSUME NEW r \in Replicas, NEW roles \in SUBSET Roles, NEW tool \in Tools
               PROVE  tool \in Listed(r, Tools, roles)
                          <=> Admitted(r, DecideTool(proc[r].policy, tool, roles))
    BY DEF ListedIffAdmitted
  <2> QED
    BY VisibleIffAllowed DEF Listed, Admitted
<1> QED
  BY <1>1, PTL

-----------------------------------------------------------------------------
(* Documents.                                                              *)

\* Only documents that load are ever in force.
LoadedInv ==
    /\ \A r \in Replicas : proc[r] # Down => Loads(proc[r].policy)
    /\ \A run \in runs : Loads(run.by.policy)

\* What loading a document ensures of its tools (Policy._parse_rules).
LEMMA LoadedGrants ==
    ASSUME NEW doc, Loads(doc), NEW tool \in DOMAIN doc.tools
    PROVE  /\ doc.tools[tool].allow_roles \subseteq doc.declared
           /\ \A role \in doc.tools[tool].allow_roles :
                  DecideTool(doc, tool, {role}).allowed
<1>1. doc.tools[tool] \in RulesOf(doc)
  BY DEF RulesOf
<1> QED
  BY <1>1 DEF Loads, DecideTool, Match

\* An allowed caller holds a role its document declares.
LEMMA AllowedByDeclared ==
    ASSUME NEW doc, Loads(doc), NEW tool, NEW roles, DecideTool(doc, tool, roles).allowed
    PROVE  roles \cap doc.declared # {}
<1>1. tool \in DOMAIN doc.tools
  BY DEF DecideTool, DefaultDeny
<1>2. roles \cap doc.tools[tool].allow_roles # {}
  BY <1>1 DEF DecideTool, Match
<1> QED
  BY <1>1, <1>2, LoadedGrants

\* So does whoever may read a resource.
LEMMA ReadersDeclared ==
    ASSUME NEW doc, Loads(doc), NEW uri, NEW roles, DecideResource(doc, uri, roles).allowed
    PROVE  roles \cap doc.declared # {}
<1>1. ResourceRule(doc, uri) # {}
  BY DEF DecideResource, DefaultDeny
<1>2. PICK i \in ResourceRule(doc, uri) : i = CHOOSE j \in ResourceRule(doc, uri) : TRUE
  BY <1>1
<1>3. i \in DOMAIN doc.resources /\ roles \cap doc.resources[i].rule.allow_roles # {}
  BY <1>1, <1>2 DEF DecideResource, ResourceRule, Match
<1>4. doc.resources[i].rule \in RulesOf(doc)
  BY <1>3 DEF RulesOf
<1> QED
  BY <1>3, <1>4 DEF Loads

LEMMA NextLoaded ==
    ASSUME TypeOK, LoadedInv, [Next]_vars
    PROVE  LoadedInv'
<1>1. CASE UNCHANGED <<proc, runs>>
  BY <1>1 DEF LoadedInv
<1>2. CASE UNCHANGED vars \/ Tick \/ Answering \/ Reading
  BY <1>1, <1>2 DEF vars, Tick, Answering, AnswerQuestion, Reading, ReadResource
<1>3. CASE Deploy
  <2>1. PICK r \in Replicas, config \in Configs : Start(r, config)
    BY <1>3 DEF Deploy
  <2>2. runs' = runs /\ \A q \in Replicas : q # r => proc'[q] = proc[q]
    BY <2>1 DEF Start, TypeOK
  <2>3. proc'[r] # Down => Loads(proc'[r].policy)
    BY <2>1 DEF Start, Starts, TypeOK
  <2> QED
    BY <2>2, <2>3 DEF LoadedInv
<1>4. CASE Calling
  <2>1. PICK r \in Replicas, req \in Request : ToolCall(r, req)
    BY <1>4, RequestFacts
  <2>2. CASE Run(r, req)
    <3>1. /\ runs' = runs \cup {[req |-> req, by |-> proc[r], at |-> now]}
          /\ proc' = proc /\ proc[r] # Down
      BY <2>2 DEF Run
    <3> QED
      BY <3>1 DEF LoadedInv
  <2>3. CASE ~Run(r, req)
    BY <1>1, <2>1, <2>3 DEF ToolCall, RejectState, Deny, Ask, RefuseApproval
  <2> QED
    BY <2>2, <2>3
<1> QED
  BY <1>2, <1>3, <1>4 DEF Next

\* "Fail fast" (policy.py): no document is in force that grants a tool to
\* roles nobody can hold or a resource to anybody without a declared one, and no
\* enforced run was for a caller without a role of the document then in force.
THEOREM NoDeadGrants == Spec => []GrantsAreDeclared
<1>1. Init => LoadedInv
  BY DEF Init, LoadedInv
<1>2. TypeOK /\ LoadedInv /\ [Next]_vars => LoadedInv'
  BY NextLoaded
<1>3. LoadedInv /\ EnforcedRunsAreJustified => GrantsAreDeclared
  <2> SUFFICES ASSUME LoadedInv, EnforcedRunsAreJustified PROVE GrantsAreDeclared
    OBVIOUS
  <2>1. ASSUME NEW r \in Replicas, proc[r] # Down, NEW tool \in DOMAIN proc[r].policy.tools,
               proc[r].policy.tools[tool].allow_roles # {}
        PROVE  \E role \in proc[r].policy.declared :
                   DecideTool(proc[r].policy, tool, {role}).allowed
    <3>1. Loads(proc[r].policy)
      BY <2>1 DEF LoadedInv
    <3>2. PICK role \in proc[r].policy.tools[tool].allow_roles : TRUE
      BY <2>1
    <3> QED
      BY <2>1, <3>1, <3>2, LoadedGrants
  <2>2. ASSUME NEW run \in runs, run.by.enforce
        PROVE  run.req.roles \cap run.by.policy.declared # {}
    BY <2>2, AllowedByDeclared DEF LoadedInv, EnforcedRunsAreJustified, RunDecision
  <2>3. ASSUME NEW r \in Replicas, NEW uri \in Uris, NEW roles \in SUBSET Roles,
               proc[r] # Down, DecideResource(proc[r].policy, uri, roles).allowed
        PROVE  roles \cap proc[r].policy.declared # {}
    BY <2>3, ReadersDeclared DEF LoadedInv
  <2> QED
    BY <2>1, <2>2, <2>3 DEF GrantsAreDeclared
<1> QED
  BY <1>1, <1>2, <1>3, TypeCorrect, Justified, PTL DEF Spec

-----------------------------------------------------------------------------
(* Refinement.                                                             *)

LEMMA InitKeepsPromise == Init => Promise!Init
BY DEF Init, Promise!Init, Asked

\* A step of the middleware maps to a step of Consent or changes nothing in it.
LEMMA NextKeepsPromise ==
    ASSUME IInv, [Next]_vars
    PROVE  [Promise!Next]_(Promise!vars)
<1> USE DEF IInv
<1> DEFINE yeses   == {[call |-> CallOf(sealed[n]), asked |-> sealed[n].minted] :
                          n \in {m \in Asked : SaidYes(m)}}
           gated   == {[call |-> CallOf(run.req), at |-> run.at] :
                          run \in {x \in runs : GatedRun(x)}}
<1>1. CASE UNCHANGED <<sealed, human, runs, now>>
  <2>1. UNCHANGED <<yeses, gated, now>>
    BY <1>1 DEF Asked, SaidYes, CallOf, GatedRun, RunDecision
  <2> QED
    BY <2>1 DEF Promise!vars
<1>2. CASE UNCHANGED vars \/ Deploy \/ Reading
  BY <1>1, <1>2 DEF vars, Deploy, Start, Reading, ReadResource
<1>3. CASE Tick
  <2>1. UNCHANGED <<yeses, gated>> /\ now' = now + 1
    BY <1>3 DEF Tick, Asked, SaidYes, CallOf, GatedRun, RunDecision
  <2> QED
    BY <2>1 DEF Promise!Next, Promise!Pass
<1>4. CASE Answering
  <2>1. PICK n \in Nonces, answer \in HumanAnswers : AnswerQuestion(n, answer)
    BY <1>4 DEF Answering
  <2>2. UNCHANGED <<gated, now>> /\ sealed' = sealed /\ Asked' = Asked
    BY <2>1 DEF AnswerQuestion, GatedRun, RunDecision, CallOf, Asked
  <2>3. \A m \in Asked : m # n => (SaidYes(m)' <=> SaidYes(m))
    BY <2>1 DEF AnswerQuestion, SaidYes, Asked, TypeOK
  <2>4. n \in Asked /\ ~SaidYes(n)
    BY <2>1, YesIsAnAnswer DEF AnswerQuestion
  <2>5. CASE SaidYes(n)'
    <3> DEFINE yes == [call |-> CallOf(sealed[n]), asked |-> sealed[n].minted]
    <3>1. yeses' = yeses \cup {yes}
      BY <2>2, <2>3, <2>4, <2>5 DEF CallOf
    <3>2. CallOf(sealed[n]) \in [caller : Callers, tool : Tools, args : Arguments]
      BY <2>4 DEF Asked, TypeOK, Sealed, CallOf
    <3>3. sealed[n].minted \in 0..now
      BY <2>4 DEF Asked, TypeOK, Sealed, QuestionInv
    <3> QED
      BY <2>2, <3>1, <3>2, <3>3 DEF Promise!Next, Promise!Agree
  <2>6. CASE ~SaidYes(n)'
    <3>1. yeses' = yeses
      BY <2>2, <2>3, <2>4, <2>6 DEF CallOf
    <3> QED
      BY <2>2, <3>1 DEF Promise!vars
  <2> QED
    BY <2>5, <2>6
<1>5. CASE Calling
  <2>1. PICK r \in Replicas, req \in Request : ToolCall(r, req)
    BY <1>5, RequestFacts
  <2>2. CASE RejectState(r, req) \/ Deny(r, req) \/ RefuseApproval(r, req)
    BY <1>1, <2>2 DEF RejectState, Deny, RefuseApproval
  <2>3. ASSUME NEW n \in Nonces, Ask(r, req, n)
        PROVE  [Promise!Next]_(Promise!vars)
    <3>1. UNCHANGED <<gated, now, human>> /\ n \notin Asked
      BY <2>3 DEF Ask, Asked, GatedRun, RunDecision, CallOf
    <3>2. ~SaidYes(n) /\ ~SaidYes(n)'
      BY <3>1, YesIsAnAnswer DEF SaidYes, QuestionInv
    <3>3. \A m \in Nonces : m # n => sealed'[m] = sealed[m]
      BY <2>3 DEF Ask, TypeOK
    <3>4. {m \in Asked : SaidYes(m)}' = {m \in Asked : SaidYes(m)}
      BY <3>1, <3>2, <3>3 DEF Asked, SaidYes
    <3>5. \A m \in {x \in Asked : SaidYes(x)} : sealed'[m] = sealed[m]
      BY <3>2, <3>3 DEF Asked
    <3>6. yeses' = yeses
      BY <3>4, <3>5 DEF CallOf
    <3> QED
      BY <3>1, <3>6 DEF Promise!vars
  <2>4. CASE Run(r, req)
    <3> DEFINE run == [req |-> req, by |-> proc[r], at |-> now]
               entry == [call |-> CallOf(run.req), at |-> run.at]
    <3>1. runs' = runs \cup {run} /\ UNCHANGED <<sealed, human, now>>
      BY <2>4 DEF Run, PassesGate
    <3>2. UNCHANGED <<yeses, now>>
      BY <3>1 DEF Asked, SaidYes, CallOf
    <3>3. CASE run \in runs
      BY <1>1, <3>1, <3>3
    <3>4. CASE run \notin runs /\ GatedRun(run)
      <4>1. gated' = gated \cup {entry}
        BY <3>1, <3>4 DEF GatedRun, RunDecision, CallOf
      <4>2. run \in runs'
        BY <3>1
      <4>3. ConsentedRun(run)
        BY <3>4, <4>2, NewRunJustified
      <4>4. PICK n \in Asked : /\ SaidYes(n)
                               /\ CallOf(sealed[n]) = CallOf(run.req)
                               /\ now - sealed[n].minted < TTL
        BY <4>3 DEF ConsentedRun
      <4> DEFINE yes == [call |-> CallOf(sealed[n]), asked |-> sealed[n].minted]
      <4>5. yes \in yeses
        BY <4>4
      <4>6. gated' = gated \cup {[call |-> yes.call, at |-> now]}
        BY <4>1, <4>4
      <4>7. now - yes.asked < TTL
        BY <4>4
      <4> HIDE DEF yes, yeses, gated
      <4>8. \E y \in yeses : /\ now - y.asked < TTL
                             /\ gated' = gated \cup {[call |-> y.call, at |-> now]}
        BY <4>5, <4>6, <4>7
      <4> QED
        BY <3>2, <4>8 DEF Promise!Next, Promise!Perform, yeses, gated
    <3>5. CASE ~GatedRun(run)
      <4>1. gated' = gated
        BY <3>1, <3>5 DEF GatedRun, RunDecision, CallOf
      <4> QED
        BY <3>2, <4>1 DEF Promise!vars
    <3> QED
      BY <3>3, <3>4, <3>5
  <2> QED
    BY <2>1, <2>2, <2>3, <2>4 DEF ToolCall
<1> QED
  BY <1>2, <1>3, <1>4, <1>5 DEF Next

\* The replicated, restarting, policy-driven gate implements Consent: seen from
\* outside, a gated call is performed only while a yes to it is fresh.
THEOREM GateKeepsPromise == Spec => KeepsPromise
<1>1. IInv /\ [Next]_vars => [Promise!Next]_(Promise!vars)
  BY NextKeepsPromise
<1> QED
  BY InitKeepsPromise, <1>1, Invariance, PTL DEF Spec, KeepsPromise, Promise!Spec
=============================================================================
