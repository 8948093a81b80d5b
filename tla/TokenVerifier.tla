---------------------------- MODULE TokenVerifier ----------------------------
(***************************************************************************)
(* One process verifying bearer tokens of an Entra tenant while the tenant *)
(* rolls its signing keys over and takes roles away:                       *)
(* governance/verifier.py, EntraTokenVerifier over JwksEndpoint.           *)
(*                                                                         *)
(* PyJWKClient keeps the key set it fetched last for `lifespan`, and, as   *)
(* `cache_keys` asks, every key it has handed out for good, up to a number;*)
(* which it evicts is left open.  Fetches run in worker threads and        *)
(* overlap.  Tokens are kept by the clients, so a check may be asked to    *)
(* verify any token the tenant can have issued; each is made once.         *)
(***************************************************************************)
EXTENDS Naturals, FiniteSets

CONSTANTS
    Keys,           \* signing keys of the tenant, each published once
    FirstKey,
    AppRoles,
    Checks,         \* calls of verify_token
    NoToken,
    NoSet,          \* no key set is cached
    Never,
    Lifetime,       \* of a token
    Leeway,         \* leeway_seconds
    Skew,           \* how far the issuer's clock may be off, either way
    Lifespan,       \* of a cached key set
    FetchTimeout,   \* between the endpoint's answer and its arrival
    Capacity        \* keys PyJWKClient remembers

\* A token names its key; its roles are those assigned when it was issued.
Token == [key : Keys, issued : Nat]

KeySet == [keys : SUBSET Keys, at : Nat]

ASSUME VerifierAssumption ==
    /\ FirstKey \in Keys
    /\ {Lifetime, Leeway, Skew, Lifespan, FetchTimeout} \subseteq Nat
    /\ Skew <= Leeway
    /\ Capacity \in Nat \ {0}
    /\ NoToken \notin Token
    /\ NoSet \notin KeySet
    /\ Never \notin Nat

VARIABLES
    published,   \* per key: when it was published
    withdrawn,   \* per key: when it was withdrawn
    removed,     \* per role: when the person lost it
    clock,       \* what the issuer's clock shows at time 0, plus Skew
    time,
    jwks,        \* the cached key set, and when it was put there
    cached,      \* the keys PyJWKClient has handed out and still knows
    check        \* per check: how far it has got

tenantVars == <<published, withdrawn, removed, clock>>

verifierVars == <<tenantVars, time, jwks, cached, check>>

Check == [pc     : {"idle", "fetching", "refetching", "keyed",
                    "accepted", "rejected", "unreachable", "unsound", "gone"},
          token  : Token \cup {NoToken},
          answer : KeySet \cup {NoSet}]   \* of the endpoint, on its way

\* verify_token returns None for each of these, and says no more.
TurnedDown == {"rejected", "unreachable", "unsound"}

Ended == {"accepted", "gone"} \cup TurnedDown

At(place, tok) == [pc |-> place, token |-> tok, answer |-> NoSet]

VerifierInit ==
    /\ published = [k \in Keys |-> IF k = FirstKey THEN 0 ELSE Never]
    /\ withdrawn = [k \in Keys |-> Never]
    /\ removed = [role \in AppRoles |-> Never]
    /\ clock \in 0..(2 * Skew)
    /\ time = 0
    /\ jwks = NoSet
    /\ cached = {}
    /\ check = [c \in Checks |-> At("idle", NoToken)]

-----------------------------------------------------------------------------
(* The tenant.                                                             *)

Published == {k \in Keys : published[k] # Never /\ withdrawn[k] = Never}

Publish(k) ==
    /\ published[k] = Never
    /\ published' = [published EXCEPT ![k] = time]
    /\ UNCHANGED <<withdrawn, removed, clock, time, jwks, cached, check>>

Withdraw(k) ==
    /\ k \in Published
    /\ Published # {k}
    /\ withdrawn' = [withdrawn EXCEPT ![k] = time]
    /\ UNCHANGED <<published, removed, clock, time, jwks, cached, check>>

Remove(role) ==
    /\ removed[role] = Never
    /\ removed' = [removed EXCEPT ![role] = time]
    /\ UNCHANGED <<published, withdrawn, clock, time, jwks, cached, check>>

\* The tokens issued so far, and what their claims say.
Issued ==
    {tok \in [key : Keys, issued : 0..time] :
        /\ published[tok.key] # Never
        /\ published[tok.key] <= tok.issued
        /\ withdrawn[tok.key] # Never => tok.issued <= withdrawn[tok.key]}

RolesOf(tok) == {role \in AppRoles : removed[role] # Never => tok.issued <= removed[role]}

\* iat, on a clock that is Skew ahead of the truth (which keeps it a Nat).
Iat(tok) == tok.issued + clock

Waiting(c) == check[c].pc \in {"fetching", "refetching"}

Answered(c) == Waiting(c) /\ check[c].answer # NoSet

\* The endpoint answers a request.
Respond(c) ==
    /\ Waiting(c) /\ ~Answered(c)
    /\ check' = [check EXCEPT ![c].answer = [keys |-> Published, at |-> time]]
    /\ UNCHANGED <<tenantVars, time, jwks, cached>>

-----------------------------------------------------------------------------
(* The verifier.                                                           *)

\* The mutant keeps a key set until it is replaced.
MUT_KeptForGood(now) == jwks

\* The key set that is left at a later time; an expired one is as good as none.
KeptUntil(now) == IF jwks # NoSet /\ now <= jwks.at + Lifespan THEN jwks ELSE NoSet

VerifierTick ==
    /\ \A c \in Checks : Answered(c) => time < check[c].answer.at + FetchTimeout
    /\ time' = time + 1
    /\ jwks' = KeptUntil(time + 1)
    /\ UNCHANGED <<tenantVars, cached, check>>

KnownKeys == cached \cup IF jwks # NoSet THEN jwks.keys ELSE {}

Sends(c, place) == check' = [check EXCEPT ![c] = At(place, check[c].token)]

Ends(c, reply) == check' = [check EXCEPT ![c] = At(reply, NoToken)]

\* lru_cache remembers the key and may forget another.
Trust(k) ==
    IF k \in cached \/ Cardinality(cached) < Capacity
    THEN cached' = cached \cup {k}
    ELSE \E other \in cached : cached' = (cached \ {other}) \cup {k}

\* verify_token: a key at hand, or a request to the endpoint.
Verify(c, tok) ==
    /\ check[c].pc = "idle"
    /\ \/ /\ tok.key \in KnownKeys
          /\ Trust(tok.key)
          /\ check' = [check EXCEPT ![c] = At("keyed", tok)]
       \/ /\ tok.key \notin KnownKeys
          /\ check' = [check EXCEPT ![c] =
                 At(IF jwks = NoSet THEN "fetching" ELSE "refetching", tok)]
          /\ UNCHANGED cached
    /\ UNCHANGED <<tenantVars, time, jwks>>

\* The mutant prefers a set that is cached by the time the answer arrives.
MUT_Coalesced(c) ==
    /\ Answered(c)
    /\ jwks' = IF jwks # NoSet THEN jwks ELSE [keys |-> check[c].answer.keys, at |-> time]
    /\ \/ /\ check[c].token.key \in jwks'.keys
          /\ Trust(check[c].token.key)
          /\ Sends(c, "keyed")
       \/ /\ check[c].token.key \notin jwks'.keys
          /\ Ends(c, "rejected")
          /\ UNCHANGED cached
    /\ UNCHANGED <<tenantVars, time>>

\* The answer replaces the cached key set, be it older or newer.  If it lacks
\* the key, the client asks once more, then gives up.
Receive(c) ==
    /\ Answered(c)
    /\ jwks' = [keys |-> check[c].answer.keys, at |-> time]
    /\ \/ /\ check[c].token.key \in check[c].answer.keys
          /\ Trust(check[c].token.key)
          /\ Sends(c, "keyed")
       \/ /\ check[c].token.key \notin check[c].answer.keys
          /\ \/ check[c].pc = "fetching" /\ Sends(c, "refetching")
             \/ check[c].pc = "refetching" /\ Ends(c, "rejected")
          /\ UNCHANGED cached
    /\ UNCHANGED <<tenantVars, time>>

\* The endpoint is unreachable or too slow; the cached set may go with it.
FetchFails(c) ==
    /\ Waiting(c)
    /\ jwks' \in {jwks, NoSet}
    /\ Ends(c, "unreachable")
    /\ UNCHANGED <<tenantVars, time, cached>>

\* The mutant does not verify the expiry.
MUT_NoExpiry(tok) == Iat(tok) <= time + Skew + Leeway

\* jwt.decode: iat (and nbf, which is the same) and exp, within the leeway.
InTime(tok) ==
    /\ Iat(tok) <= time + Skew + Leeway
    /\ time + Skew < Iat(tok) + Lifetime + Leeway

\* The token may fail for reasons of its own: its algorithm, issuer, audience,
\* a claim it lacks.
Decode(c, sound) ==
    /\ check[c].pc = "keyed"
    /\ Ends(c, CASE ~sound -> "unsound"
                 [] sound /\ InTime(check[c].token) -> "accepted"
                 [] sound /\ ~InTime(check[c].token) -> "rejected")
    /\ UNCHANGED <<tenantVars, time, jwks, cached>>

\* A new process has cached nothing, and the old one answers nobody.
Restart ==
    /\ jwks' = NoSet
    /\ cached' = {}
    /\ check' = [c \in Checks |->
           IF check[c].pc \in {"idle"} \cup Ended THEN check[c] ELSE At("gone", NoToken)]
    /\ UNCHANGED <<tenantVars, time>>

-----------------------------------------------------------------------------
Tenant ==
    \/ \E k \in Keys : Publish(k) \/ Withdraw(k)
    \/ \E role \in AppRoles : Remove(role)
    \/ \E c \in Checks : Respond(c)

Proceed(c) == Receive(c) \/ FetchFails(c) \/ \E sound \in BOOLEAN : Decode(c, sound)

Verifier ==
    \/ \E c \in Checks : Proceed(c) \/ \E tok \in Issued : Verify(c, tok)
    \/ Restart

VerifierNext == Tenant \/ VerifierTick \/ Verifier

VerifierSpec == VerifierInit /\ [][VerifierNext]_verifierVars

-----------------------------------------------------------------------------
(* Properties.                                                             *)

VerifierTypeOK ==
    /\ published \in [Keys -> Nat \cup {Never}]
    /\ withdrawn \in [Keys -> Nat \cup {Never}]
    /\ removed \in [AppRoles -> Nat \cup {Never}]
    /\ clock \in 0..(2 * Skew)
    /\ time \in Nat
    /\ jwks \in KeySet \cup {NoSet}
    /\ cached \subseteq Keys
    /\ check \in [Checks -> Check]

\* A role somebody no longer has is honoured only until the tokens that name
\* it are gone: a lifetime, the leeway and the error of the clocks later
\* (verify_token; docs/runbooks/revoke-access.md, "remain valid until they
\* expire").
RemovedRolesLapse ==
    [][\A c \in Checks : check[c].pc # "accepted" /\ check'[c].pc = "accepted" =>
           \A role \in RolesOf(check[c].token) :
               \/ removed[role] = Never
               \/ time < removed[role] + Lifetime + Leeway + Skew]_verifierVars

\* Rolling keys over costs nobody a request the endpoint can be asked about: a
\* token is turned down only if it is unsound in itself, if it has expired, by
\* the issuer's clock or by the true one, if its key is published no more, or
\* if its key was not at hand and the endpoint did not answer in time (key_for,
\* "which is what makes signing-key rollover transparent"; verify_token, which
\* returns None for all of them alike).
RolloverIsTransparent ==
    [][\A c \in Checks : check[c].pc \notin TurnedDown /\ check'[c].pc \in TurnedDown =>
           \/ check[c].pc = "keyed" /\ check'[c].pc = "unsound"
           \/ Waiting(c) /\ check'[c].pc = "unreachable"
           \/ time >= check[c].token.issued + Lifetime
           \/ check[c].token.key \notin Published]_verifierVars

Lapsed(k) ==
    withdrawn[k] # Never /\ time > withdrawn[k] + Lifespan + FetchTimeout

\* No process starts to trust a key that was withdrawn a lifespan ago, however
\* late an answer arrives and whichever replaces which (key_for, lifespan).
NoNewTrustInOldKeys == [][\A k \in cached' \ cached : ~Lapsed(k)]_verifierVars

\* "cached by key id, so key rollover is picked up without a restart"
\* (verifier.py:10): a withdrawn key is forgotten once its lifespan is over.
WithdrawnKeysLapse == \A k \in cached : ~Lapsed(k)

\* Why.  A check that goes on has a token whose key has been published.
TokensInv ==
    \A c \in Checks : Waiting(c) \/ check[c].pc = "keyed" =>
        /\ check[c].token \in Token
        /\ check[c].token.issued <= time
        /\ published[check[c].token.key] # Never

\* An answer is young, was true when it was given, and has the key of the
\* token it was asked for, if that is still published.
AnswersInv ==
    \A c \in Checks : Answered(c) =>
        /\ time \in check[c].answer.at..(check[c].answer.at + FetchTimeout)
        /\ \A k \in check[c].answer.keys :
               withdrawn[k] # Never => check[c].answer.at <= withdrawn[k]
        /\ check[c].token.key \in Published => check[c].token.key \in check[c].answer.keys

\* The cached set was true when it left the endpoint.
SetInv ==
    jwks # NoSet =>
        /\ time \in jwks.at..(jwks.at + Lifespan)
        /\ \A k \in jwks.keys : withdrawn[k] # Never => jwks.at <= withdrawn[k] + FetchTimeout

\* The inductive invariant: how old what PyJWKClient hands out may be.
VerifierInv == VerifierTypeOK /\ TokensInv /\ AnswersInv /\ SetInv
=============================================================================
