------------------------- MODULE TokenVerifierProofs -------------------------
(***************************************************************************)
(* TokenVerifier for any keys, roles, checks, lifetimes and clock errors.  *)
(***************************************************************************)
EXTENDS TokenVerifier, TLAPS

\* Where a check may be sent, and with what (verify_token).
LEMMA AtIsCheck ==
    ASSUME NEW place \in {"idle", "fetching", "refetching", "keyed",
                          "accepted", "rejected", "unreachable", "unsound", "gone"},
           NEW tok \in Token \cup {NoToken}
    PROVE  /\ At(place, tok) \in Check
           /\ At(place, tok).pc = place
           /\ At(place, tok).token = tok
           /\ At(place, tok).answer = NoSet
BY DEF At, Check

\* The keys remembered are those known before and the one just handed out
\* (PyJWKClient's lru_cache).
LEMMA TrustAddsOne ==
    ASSUME NEW k, Trust(k)
    PROVE  cached' \subseteq cached \cup {k}
BY DEF Trust

\* The first process has cached nothing and checks nothing (JwksEndpoint).
LEMMA InitHolds == VerifierInit => VerifierInv
<1> SUFFICES ASSUME VerifierInit PROVE VerifierInv
    OBVIOUS
<1> USE VerifierAssumption DEF VerifierInit
<1>1. \A c \in Checks : check[c] \in Check /\ check[c].pc = "idle"
    BY AtIsCheck
<1>2. VerifierTypeOK
    BY <1>1 DEF VerifierTypeOK
<1>3. TokensInv /\ AnswersInv
    BY <1>1 DEF TokensInv, AnswersInv, Waiting, Answered
<1>4. SetInv
    BY DEF SetInv
<1> QED
    BY <1>2, <1>3, <1>4 DEF VerifierInv

\* A new key changes no answer, and no check waits for it yet (the tenant).
LEMMA PublishHolds ==
    ASSUME VerifierInv, NEW k \in Keys, Publish(k)
    PROVE  VerifierInv'
<1> USE VerifierAssumption DEF VerifierInv
<1>1. VerifierTypeOK'
    BY DEF VerifierTypeOK, Publish
<1>2. TokensInv'
    BY DEF VerifierTypeOK, Publish, TokensInv, Waiting, Token
<1>3. AnswersInv'
  <2> SUFFICES ASSUME NEW c \in Checks, Answered(c)
               PROVE  check[c].token.key \in Published' =>
                          check[c].token.key \in check[c].answer.keys
      BY DEF Publish, AnswersInv, Answered, Waiting
  <2>1. check[c].token \in Token /\ published[check[c].token.key] # Never
      BY DEF TokensInv, Answered
  <2>2. check[c].token.key \in Published' => check[c].token.key \in Published
      BY <2>1 DEF Published, Publish, VerifierTypeOK, Token
  <2> QED
      BY <2>2 DEF AnswersInv
<1>4. SetInv'
    BY DEF Publish, SetInv
<1> QED
    BY <1>1, <1>2, <1>3, <1>4

\* A key withdrawn now was published when older answers were given (the
\* tenant).
LEMMA WithdrawHolds ==
    ASSUME VerifierInv, NEW k \in Keys, Withdraw(k)
    PROVE  VerifierInv'
<1> USE VerifierAssumption DEF VerifierInv
<1>1. VerifierTypeOK'
    BY DEF VerifierTypeOK, Withdraw
<1>2. TokensInv'
    BY DEF Withdraw, TokensInv, Waiting
<1>3. AnswersInv'
  <2> SUFFICES ASSUME NEW c \in Checks, Answered(c)
               PROVE  /\ \A q \in check[c].answer.keys :
                             withdrawn'[q] # Never => check[c].answer.at <= withdrawn'[q]
                      /\ check[c].token.key \in Published' =>
                             check[c].token.key \in check[c].answer.keys
      BY DEF Withdraw, AnswersInv, Answered, Waiting
  <2>1. check[c].answer \in KeySet /\ check[c].token \in Token
      BY DEF VerifierTypeOK, Check, Answered, TokensInv
  <2>2. check[c].answer.at <= time
      BY <2>1 DEF AnswersInv, KeySet, VerifierTypeOK
  <2>3. ASSUME NEW q \in check[c].answer.keys, withdrawn'[q] # Never
        PROVE  check[c].answer.at <= withdrawn'[q]
      BY <2>1, <2>2, <2>3 DEF AnswersInv, KeySet, VerifierTypeOK, Withdraw
  <2>4. check[c].token.key \in Published' => check[c].token.key \in Published
      BY <2>1 DEF Published, Withdraw, VerifierTypeOK, Token
  <2> QED
      BY <2>3, <2>4 DEF AnswersInv
<1>4. SetInv'
    BY DEF Withdraw, SetInv, VerifierTypeOK, KeySet
<1> QED
    BY <1>1, <1>2, <1>3, <1>4

\* Nothing the verifier holds depends on who has which role (the tenant).
LEMMA RemoveHolds ==
    ASSUME VerifierInv, NEW role \in AppRoles, Remove(role)
    PROVE  VerifierInv'
BY VerifierAssumption
   DEF VerifierInv, VerifierTypeOK, TokensInv, AnswersInv, SetInv, Remove,
       Waiting, Answered, Published

\* An answer is what is published when it is given (the endpoint).
LEMMA RespondHolds ==
    ASSUME VerifierInv, NEW c \in Checks, Respond(c)
    PROVE  VerifierInv'
<1> USE VerifierAssumption DEF VerifierInv
<1> DEFINE answer == [keys |-> Published, at |-> time]
<1>1. answer \in KeySet /\ answer # NoSet
    BY DEF KeySet, Published, VerifierTypeOK
<1>2. VerifierTypeOK'
    BY <1>1 DEF VerifierTypeOK, Respond, Check, tenantVars
<1>3. \A d \in Checks : /\ check'[d].pc = check[d].pc
                        /\ check'[d].token = check[d].token
                        /\ check'[d].answer = IF d = c THEN answer ELSE check[d].answer
    BY DEF Respond, VerifierTypeOK, Check
<1>4. TokensInv'
    BY <1>3 DEF TokensInv, Respond, Waiting, tenantVars
<1>5. AnswersInv'
  <2> SUFFICES ASSUME NEW d \in Checks, Answered(d)'
               PROVE  /\ time \in check'[d].answer.at..(check'[d].answer.at + FetchTimeout)
                      /\ \A k \in check'[d].answer.keys :
                             withdrawn[k] # Never => check'[d].answer.at <= withdrawn[k]
                      /\ check[d].token.key \in Published =>
                             check[d].token.key \in check'[d].answer.keys
      BY <1>3 DEF AnswersInv, Respond, Published, tenantVars
  <2>1. CASE d = c
      BY <1>1, <1>3, <2>1 DEF Published, VerifierTypeOK
  <2>2. CASE d # c
      BY <1>3, <2>2 DEF AnswersInv, Answered, Waiting, Respond
  <2> QED
      BY <2>1, <2>2
<1>6. SetInv'
    BY DEF SetInv, Respond, tenantVars
<1> QED
    BY <1>2, <1>4, <1>5, <1>6

\* No answer grows older than its timeout, no set older than its lifespan
\* (time).
LEMMA TickHolds ==
    ASSUME VerifierInv, VerifierTick
    PROVE  VerifierInv'
<1> USE VerifierAssumption DEF VerifierInv
<1>1. jwks' \in {jwks, NoSet} /\ (jwks' # NoSet => time + 1 <= jwks.at + Lifespan)
    BY DEF VerifierTick, KeptUntil
<1>2. VerifierTypeOK'
    BY <1>1 DEF VerifierTypeOK, VerifierTick, tenantVars
<1>3. TokensInv'
    BY DEF TokensInv, VerifierTick, tenantVars, Waiting, Token, VerifierTypeOK
<1>4. AnswersInv'
  <2> SUFFICES ASSUME NEW c \in Checks, Answered(c)
               PROVE  time + 1 \in check[c].answer.at..(check[c].answer.at + FetchTimeout)
      BY DEF AnswersInv, VerifierTick, tenantVars, Answered, Waiting, Published
  <2>1. check[c].answer \in KeySet
      BY DEF VerifierTypeOK, Check, Answered
  <2> QED
      BY <2>1 DEF AnswersInv, VerifierTick, KeySet, VerifierTypeOK
<1>5. SetInv'
    BY <1>1 DEF SetInv, VerifierTick, tenantVars, VerifierTypeOK, KeySet
<1> QED
    BY <1>2, <1>3, <1>4, <1>5

\* What every step of a check has in common: the check that moves has no
\* answer left, and goes on only with a token of its own.
LEMMA CheckMoves ==
    ASSUME VerifierInv, NEW c \in Checks,
           NEW place \in {"idle", "fetching", "refetching", "keyed",
                          "accepted", "rejected", "unreachable", "unsound", "gone"},
           NEW tok \in Token \cup {NoToken},
           place \in {"fetching", "refetching", "keyed"} =>
               tok \in Token /\ tok.issued <= time /\ published[tok.key] # Never,
           check' = [check EXCEPT ![c] = At(place, tok)],
           UNCHANGED <<published, withdrawn, time>>
    PROVE  check' \in [Checks -> Check] /\ TokensInv' /\ AnswersInv'
<1> USE VerifierAssumption DEF VerifierInv
<1>1. /\ At(place, tok) \in Check
      /\ At(place, tok).pc = place
      /\ At(place, tok).token = tok
      /\ At(place, tok).answer = NoSet
    BY AtIsCheck
<1>2. check' \in [Checks -> Check]
    BY <1>1 DEF VerifierTypeOK
<1>3. \A d \in Checks : check'[d] = IF d = c THEN At(place, tok) ELSE check[d]
    BY DEF VerifierTypeOK
<1>4. TokensInv'
    BY <1>1, <1>3 DEF TokensInv, Waiting
<1>5. AnswersInv'
    BY <1>1, <1>3 DEF AnswersInv, Answered, Waiting, Published
<1> QED
    BY <1>2, <1>4, <1>5

\* A token that is presented has been issued with a published key
\* (verify_token, key_for).
LEMMA VerifyHolds ==
    ASSUME VerifierInv, NEW c \in Checks, NEW tok \in Issued, Verify(c, tok)
    PROVE  VerifierInv'
<1> USE VerifierAssumption DEF VerifierInv
<1>1. tok \in Token /\ tok.issued <= time /\ published[tok.key] # Never
    BY DEF Issued, Token, VerifierTypeOK
<1>2. UNCHANGED <<published, withdrawn, removed, clock, time, jwks>>
    BY DEF Verify, tenantVars
<1>3. cached' \subseteq cached \cup {tok.key}
    BY TrustAddsOne DEF Verify
<1>4. PICK place \in {"fetching", "refetching", "keyed"} :
          check' = [check EXCEPT ![c] = At(place, tok)]
    BY DEF Verify
<1>5. check' \in [Checks -> Check] /\ TokensInv' /\ AnswersInv'
    BY <1>1, <1>2, <1>4, CheckMoves
<1>6. VerifierTypeOK'
    BY <1>1, <1>2, <1>3, <1>5 DEF VerifierTypeOK, Token
<1>7. SetInv'
    BY <1>2 DEF SetInv
<1> QED
    BY <1>5, <1>6, <1>7

\* What arrives was true no longer than the timeout ago (key_for).
LEMMA ReceiveHolds ==
    ASSUME VerifierInv, NEW c \in Checks, Receive(c)
    PROVE  VerifierInv'
<1> USE VerifierAssumption DEF VerifierInv
<1> DEFINE tok == check[c].token
<1>1. tok \in Token /\ tok.issued <= time /\ published[tok.key] # Never
    BY DEF Receive, Answered, TokensInv
<1>2. UNCHANGED <<published, withdrawn, removed, clock, time>>
    BY DEF Receive, tenantVars
<1>3. check[c].answer \in KeySet
    BY DEF Receive, Answered, VerifierTypeOK, Check
<1>4. cached' \subseteq cached \cup {tok.key}
    BY TrustAddsOne DEF Receive
<1>5. \/ \E place \in {"refetching", "keyed"} : check' = [check EXCEPT ![c] = At(place, tok)]
      \/ check' = [check EXCEPT ![c] = At("rejected", NoToken)]
    BY DEF Receive, Sends, Ends
<1>6. check' \in [Checks -> Check] /\ TokensInv' /\ AnswersInv'
    BY <1>1, <1>2, <1>5, CheckMoves
<1>7. VerifierTypeOK'
    BY <1>1, <1>2, <1>3, <1>4, <1>6 DEF VerifierTypeOK, Token, Receive, KeySet
<1>8. SetInv'
  <2>1. jwks'.keys = check[c].answer.keys /\ jwks'.at = time
      BY DEF Receive
  <2>2. /\ time <= check[c].answer.at + FetchTimeout
        /\ \A k \in check[c].answer.keys :
               withdrawn[k] # Never => check[c].answer.at <= withdrawn[k]
      BY <1>3 DEF AnswersInv, Receive, KeySet, VerifierTypeOK
  <2> QED
      BY <1>2, <1>3, <2>1, <2>2 DEF SetInv, KeySet, VerifierTypeOK
<1> QED
    BY <1>6, <1>7, <1>8

\* A request that fails leaves what is known as it was, or nothing (key_for).
LEMMA FetchFailsHolds ==
    ASSUME VerifierInv, NEW c \in Checks, FetchFails(c)
    PROVE  VerifierInv'
<1> USE VerifierAssumption DEF VerifierInv
<1>1. UNCHANGED <<published, withdrawn, removed, clock, time, cached>> /\ jwks' \in {jwks, NoSet}
    BY DEF FetchFails, tenantVars
<1>2. check' \in [Checks -> Check] /\ TokensInv' /\ AnswersInv'
    BY <1>1, CheckMoves DEF FetchFails, Ends
<1>3. VerifierTypeOK' /\ SetInv'
    BY <1>1, <1>2 DEF VerifierTypeOK, SetInv
<1> QED
    BY <1>2, <1>3

\* The verdict ends the check (verify_token).
LEMMA DecodeHolds ==
    ASSUME VerifierInv, NEW c \in Checks, NEW sound \in BOOLEAN, Decode(c, sound)
    PROVE  VerifierInv'
<1> USE VerifierAssumption DEF VerifierInv
<1>1. UNCHANGED <<published, withdrawn, removed, clock, time, jwks, cached>>
    BY DEF Decode, tenantVars
<1>2. \E reply \in {"accepted", "rejected", "unsound"} :
          check' = [check EXCEPT ![c] = At(reply, NoToken)]
    BY DEF Decode, Ends
<1>3. check' \in [Checks -> Check] /\ TokensInv' /\ AnswersInv'
    BY <1>1, <1>2, CheckMoves
<1>4. VerifierTypeOK' /\ SetInv'
    BY <1>1, <1>3 DEF VerifierTypeOK, SetInv
<1> QED
    BY <1>3, <1>4

\* A new process starts as the first one did (JwksEndpoint).
LEMMA RestartHolds ==
    ASSUME VerifierInv, Restart
    PROVE  VerifierInv'
<1> USE VerifierAssumption DEF VerifierInv
<1>1. \A c \in Checks : /\ check'[c] \in Check
                        /\ check'[c].pc \in {"idle"} \cup Ended
    BY AtIsCheck DEF Restart, VerifierTypeOK, Ended, TurnedDown
<1>2. VerifierTypeOK'
    BY <1>1 DEF VerifierTypeOK, Restart, tenantVars
<1>3. TokensInv' /\ AnswersInv' /\ SetInv'
    BY <1>1 DEF TokensInv, AnswersInv, SetInv, Waiting, Answered, Restart, Ended, TurnedDown
<1> QED
    BY <1>2, <1>3

\* Every step keeps what the verifier knows young (JwksEndpoint.key_for).
LEMMA StepHolds == VerifierInv /\ [VerifierNext]_verifierVars => VerifierInv'
<1> SUFFICES ASSUME VerifierInv, [VerifierNext]_verifierVars
             PROVE  VerifierInv'
    OBVIOUS
<1>1. CASE Tenant
    BY <1>1, PublishHolds, WithdrawHolds, RemoveHolds, RespondHolds DEF Tenant
<1>2. CASE VerifierTick
    BY <1>2, TickHolds
<1>3. CASE Verifier
    BY <1>3, VerifyHolds, ReceiveHolds, FetchFailsHolds, DecodeHolds, RestartHolds
       DEF Verifier, Proceed
<1>4. CASE UNCHANGED verifierVars
    BY <1>4
       DEF VerifierInv, VerifierTypeOK, TokensInv, AnswersInv, SetInv, Waiting,
           Answered, Published, verifierVars, tenantVars
<1> QED
    BY <1>1, <1>2, <1>3, <1>4 DEF VerifierNext

\* How old the keys and answers at hand may be, whoever fetches, restarts or
\* is answered late (JwksEndpoint.key_for).
THEOREM VerifierInvariant == VerifierSpec => []VerifierInv
<1>1. VerifierInit => VerifierInv
    BY InitHolds
<1>2. VerifierInv /\ [VerifierNext]_verifierVars => VerifierInv'
    BY StepHolds
<1> QED
    BY <1>1, <1>2, PTL DEF VerifierSpec

\* A check is only accepted by jwt.decode (verify_token).
LEMMA OnlyDecodeAccepts ==
    ASSUME VerifierTypeOK, [VerifierNext]_verifierVars, NEW c \in Checks,
           check[c].pc # "accepted", check'[c].pc = "accepted"
    PROVE  /\ check[c].pc = "keyed"
           /\ InTime(check[c].token)
<1>1. check # check'
    OBVIOUS
<1>2. CASE Tenant
    BY <1>2 DEF Tenant, Publish, Withdraw, Remove, Respond, VerifierTypeOK, Check, Waiting
<1>3. CASE VerifierTick
    BY <1>3 DEF VerifierTick
<1>4. CASE \E d \in Checks : \E tok \in Issued : Verify(d, tok)
    BY <1>4 DEF Verify, At, VerifierTypeOK
<1>5. CASE \E d \in Checks : Receive(d) \/ FetchFails(d)
    BY <1>5 DEF Receive, FetchFails, Sends, Ends, At, VerifierTypeOK
<1>6. CASE \E d \in Checks : \E sound \in BOOLEAN : Decode(d, sound)
    BY <1>6 DEF Decode, Ends, At, VerifierTypeOK
<1>7. CASE Restart
    BY <1>7 DEF Restart, At, VerifierTypeOK
<1> QED
    BY <1>1, <1>2, <1>3, <1>4, <1>5, <1>6, <1>7
       DEF VerifierNext, Verifier, Proceed, verifierVars

\* How long a role that was taken away is honoured (InTime, and the roles
\* claim, which is read from the token; docs/runbooks/revoke-access.md).
THEOREM RolesLapse == VerifierSpec => RemovedRolesLapse
<1>1. ASSUME VerifierInv, [VerifierNext]_verifierVars
      PROVE  \A c \in Checks : check[c].pc # "accepted" /\ check'[c].pc = "accepted" =>
                 \A role \in RolesOf(check[c].token) :
                     \/ removed[role] = Never
                     \/ time < removed[role] + Lifetime + Leeway + Skew
  <2> SUFFICES ASSUME NEW c \in Checks,
                      check[c].pc # "accepted", check'[c].pc = "accepted",
                      NEW role \in RolesOf(check[c].token), removed[role] # Never
               PROVE  time < removed[role] + Lifetime + Leeway + Skew
      OBVIOUS
  <2>1. check[c].pc = "keyed" /\ InTime(check[c].token)
      BY <1>1, OnlyDecodeAccepts DEF VerifierInv
  <2>2. check[c].token \in Token
      BY <1>1, <2>1 DEF VerifierInv, TokensInv
  <2>3. check[c].token.issued <= removed[role] /\ removed[role] \in Nat
      BY <1>1 DEF RolesOf, VerifierInv, VerifierTypeOK
  <2> QED
      BY <1>1, <2>1, <2>2, <2>3, VerifierAssumption
         DEF InTime, Iat, VerifierInv, VerifierTypeOK, Token
<1>2. VerifierSpec => []VerifierInv
    BY VerifierInvariant
<1> QED
    BY <1>1, <1>2, PTL DEF VerifierSpec, RemovedRolesLapse

\* A token is turned down for its age, for its key, which an endpoint asked a
\* moment ago did not have, for what it is, or because the endpoint could not
\* be asked (get_signing_key, jwt.decode).
LEMMA WhoTurnsDown ==
    ASSUME VerifierTypeOK, [VerifierNext]_verifierVars, NEW c \in Checks,
           check[c].pc \notin TurnedDown, check'[c].pc \in TurnedDown
    PROVE  \/ check[c].pc = "keyed" /\ check'[c].pc = "unsound"
           \/ Waiting(c) /\ check'[c].pc = "unreachable"
           \/ check[c].pc = "keyed" /\ ~InTime(check[c].token)
           \/ Answered(c) /\ check[c].token.key \notin check[c].answer.keys
<1> USE DEF TurnedDown
<1>1. check # check'
    OBVIOUS
<1>2. CASE Tenant
    BY <1>2 DEF Tenant, Publish, Withdraw, Remove, Respond, VerifierTypeOK, Check, Waiting
<1>3. CASE VerifierTick
    BY <1>3 DEF VerifierTick
<1>4. CASE \E d \in Checks : \E tok \in Issued : Verify(d, tok)
    BY <1>4 DEF Verify, At, VerifierTypeOK
<1>5. CASE \E d \in Checks : Receive(d) \/ FetchFails(d)
    BY <1>5 DEF Receive, FetchFails, Sends, Ends, At, VerifierTypeOK
<1>6. CASE \E d \in Checks : \E sound \in BOOLEAN : Decode(d, sound)
    BY <1>6 DEF Decode, Ends, At, VerifierTypeOK
<1>7. CASE Restart
    BY <1>7 DEF Restart, At, VerifierTypeOK
<1> QED
    BY <1>1, <1>2, <1>3, <1>4, <1>5, <1>6, <1>7
       DEF VerifierNext, Verifier, Proceed, verifierVars

\* A rollover alone turns nobody down: if a token was turned down, it was
\* unsound or had expired, its key was no longer published, or the endpoint was
\* asked for its key and did not answer in time (key_for, verify_token).
THEOREM RolloverCostsNothing == VerifierSpec => RolloverIsTransparent
<1>1. ASSUME VerifierInv, [VerifierNext]_verifierVars
      PROVE  \A c \in Checks :
                 check[c].pc \notin TurnedDown /\ check'[c].pc \in TurnedDown =>
                     \/ check[c].pc = "keyed" /\ check'[c].pc = "unsound"
                     \/ Waiting(c) /\ check'[c].pc = "unreachable"
                     \/ time >= check[c].token.issued + Lifetime
                     \/ check[c].token.key \notin Published
  <2> SUFFICES ASSUME NEW c \in Checks,
                      check[c].pc \notin TurnedDown, check'[c].pc \in TurnedDown,
                      ~(check[c].pc = "keyed" /\ check'[c].pc = "unsound"),
                      ~(Waiting(c) /\ check'[c].pc = "unreachable")
               PROVE  \/ time >= check[c].token.issued + Lifetime
                      \/ check[c].token.key \notin Published
      OBVIOUS
  <2>1. CASE check[c].pc = "keyed" /\ ~InTime(check[c].token)
      BY <1>1, <2>1, VerifierAssumption
         DEF InTime, Iat, VerifierInv, VerifierTypeOK, TokensInv, Token
  <2>2. CASE Answered(c) /\ check[c].token.key \notin check[c].answer.keys
      BY <1>1, <2>2 DEF VerifierInv, AnswersInv
  <2> QED
      BY <1>1, <2>1, <2>2, WhoTurnsDown DEF VerifierInv
<1>2. VerifierSpec => []VerifierInv
    BY VerifierInvariant
<1> QED
    BY <1>1, <1>2, PTL DEF VerifierSpec, RolloverIsTransparent

\* A key is handed out from a set or an answer that is young (get_signing_key).
THEOREM NoTrustAfterLapse == VerifierSpec => NoNewTrustInOldKeys
<1>1. ASSUME VerifierInv, [VerifierNext]_verifierVars
      PROVE  \A k \in cached' \ cached : ~Lapsed(k)
  <2> USE VerifierAssumption
  <2> SUFFICES ASSUME NEW k \in cached' \ cached PROVE ~Lapsed(k)
      OBVIOUS
  <2>1. \A d \in Checks, sound \in BOOLEAN : ~FetchFails(d) /\ ~Decode(d, sound)
      BY DEF FetchFails, Decode
  <2>2. ~Tenant /\ ~VerifierTick /\ ~Restart /\ ~UNCHANGED verifierVars
      BY DEF Tenant, Publish, Withdraw, Remove, Respond, VerifierTick, Restart, verifierVars
  <2>3. PICK c \in Checks : Receive(c) \/ \E tok \in Issued : Verify(c, tok)
      BY <1>1, <2>1, <2>2 DEF VerifierNext, Verifier, Proceed
  <2>4. CASE Receive(c)
    <3>1. k = check[c].token.key /\ k \in check[c].answer.keys
        BY <2>4, TrustAddsOne DEF Receive
    <3>2. check[c].answer \in KeySet /\ Answered(c)
        BY <1>1, <2>4 DEF Receive, Answered, VerifierInv, VerifierTypeOK, Check
    <3> QED
        BY <1>1, <3>1, <3>2
           DEF Lapsed, VerifierInv, AnswersInv, VerifierTypeOK, KeySet
  <2>5. CASE \E tok \in Issued : Verify(c, tok)
    <3>1. jwks # NoSet /\ k \in jwks.keys
        BY <2>5, TrustAddsOne DEF Verify, KnownKeys
    <3> QED
        BY <1>1, <3>1 DEF Lapsed, VerifierInv, SetInv, VerifierTypeOK, KeySet
  <2> QED
      BY <2>3, <2>4, <2>5
<1>2. VerifierSpec => []VerifierInv
    BY VerifierInvariant
<1> QED
    BY <1>1, <1>2, PTL DEF VerifierSpec, NoNewTrustInOldKeys
=============================================================================
