# Formal models of governed-mcp-server

TLA+ models of the governance layer in `governance/` and of the lighthouse flow
in `server.py`, model-checked with TLC on small instances and, for all of the state
machines (`Middleware`, `KeyRotation`, `RotatingGate`, `IncidentFlow`,
`AdvisedAgent`, `ResourceTable`, `TokenVerifier`, `DevIdentityKey`), proved with
TLAPS for every value of the constants.

Paths below are relative to the repository (`src/` in `PROJECT.json`).

## 1. Inventory

| Component | State it keeps | Operations | Correct when |
|---|---|---|---|
| Policy (`governance/policy.py`, `policy.yaml`) | none after loading: a table of tool rules, an ordered table of resource patterns | `load`, `decide_tool`, `decide_resource`, `visible_tools` | a document with a wrong version, default, role or classification never loads; no match is a denial; discovery and decisions agree |
| Enforcement middleware (`governance/middleware.py`) | `policy`, `enforce`; nothing per request | `tools/call`, `resources/read`, `tools/list` | a handler is reached only for a caller the policy grants, and only after consent where the policy asks for it; every decision is audited |
| Approval gate (`governance/approval.py`) | none: the nonce it draws is only sealed | `new_pending_state`, `check`, `is_affirmative` | only an explicit accept with `approve: true` is a yes |
| Request-state keys (`governance/request_state.py`) | the ring of a process, from the environment or drawn at start | `load_keys`, `build`, phased rotation | a state sealed on one replica unseals on every other while it lives; an unusable key stops the start |
| Audit stream (`governance/audit.py`) | an append-only stream | `record` | one decision per request, pendings are not denials |
| ServiceNow connector (`governance/servicenow.py`) | mock: CMDB, incidents and a counter, per process; live: an instance others use too | `find_configuration_item`, `search_incidents`, `create_incident` | a call opens at most one incident and reports it truthfully |
| Lighthouse tools (`server.py`) | a constant table of shipments, the global `SERVICENOW` | `assess_shipment_delay`, `raise_shipment_incident`, read-only lookups | following the advice opens no duplicates; the assessment writes nothing |
| Server assembly (`server.py`) | module globals | `create_server`, `main`, `__getattr__` | a server that serves has loaded its policy and its keys |
| Token verifier (`governance/verifier.py`) | in the `PyJWKClient` of `JwksEndpoint`: the key set fetched last, and the keys handed out | `verify_token`, roles and principal of a token | a key rollover costs nobody a request, withdrawn keys and removed roles lapse |
| Development identity provider (`governance/devidp.py`) | a key file | `load_or_create`, token minting | processes that share the file sign with the same key |
| Demo client (`client.py`) | none | a script of calls | - |

How they interact.  A request arrives with a verified token.  The SDK's
`RequestStateBoundary` unseals `requestState`, if there is one, and checks that
it is bound to this tool, these arguments and this principal; then the middleware decides,
audits, denies, asks, refuses or calls the handler; a question goes out with a
state that the boundary seals with the first key of the ring.  The client shows
the question to a person and retries with the state and the answer, to whichever
replica the load balancer picks.  Replicas share nothing but the keys in their
environment, the audit stream and the backend.  The handler of the gated tool
writes to ServiceNow.

What is hard.  Nothing of an approval in flight is stored: correctness hangs on
what is sealed, on which replica holds which key, on time, and on the decision
being taken again when the retry arrives.  A retry may be late, repeated,
altered, sent by somebody else or to a replica with another key or policy;
processes restart; keys are rotated under load; HTTP requests time out, or are
answered with an error, while ServiceNow acts on them; other users change ServiceNow between two reads; fetches
of the key set run in worker threads, overlap and answer late.  The hazards are listed, each at its line, in `PROJECT.json`.

## 2. The modules

| Module | Models | Kind |
|---|---|---|
| `Policy` | `policy.py` | operators |
| `RequestState` | `request_state.py` and the SDK boundary as it is used | operators |
| `Approval` | `approval.py` | operators |
| `Consent` | what the gate promises | abstract specification |
| `Middleware` | replicas running `middleware.py`, `audit.py` and `create_server`, over the three modules above | state machine, refines `Consent` |
| `MiddlewareProofs` | - | theorems |
| `KeyRotation` | the rings of `request_state.py` while an operator follows `docs/runbooks/rotate-request-state-key.md` | state machine |
| `KeyRotationProofs` | - | theorems |
| `RotatingGate` | `Middleware` on the replicas of `KeyRotation` | composition |
| `RotatingGateProofs` | - | theorems |
| `Raising` | what `raise_shipment_incident` promises its callers | abstract specification |
| `IncidentFlow` | `assess_shipment_delay` and `raise_shipment_incident` over both ServiceNow connectors | state machine, refines `Raising` |
| `IncidentFlowProofs` | - | theorems |
| `AdvisedAgent` | agents that follow the advice, on `IncidentFlow` | state machine |
| `AdvisedAgentProofs` | - | theorems |
| `ResourceTable` | the `resources` section of `policy.yaml` while people edit it, over `Policy` | state machine |
| `ResourceTableProofs` | - | theorems |
| `DevIdentityKey` | the key file of `devidp.py`, shared by processes | state machine |
| `DevIdentityKeyProofs` | - | theorems |
| `TokenVerifier` | `verifier.py` in one process, over `PyJWKClient` as it is used, while an Entra tenant changes | state machine |
| `TokenVerifierProofs` | - | theorems |
| `MCMiddleware`, `MCKeyRotation`, `MCIncidentFlow`, `MCResourceTable`, `MCIdentity` | - | instances for TLC |

### Middleware

`proc[r]` is what a replica runs with (ring, policy, `enforce`), or `Down`.
`Start` is a process start with some environment and policy: it loads both, and has
the settings its options ask for (`complete`: a tenant id with `--auth entra`,
credentials with `--servicenow live`), or the replica is down.  Every process of
the model has the middleware.  One started with `--auth off`, or built with no
policy, has none (`server.py:363`): it decides nothing, asks nobody and audits nothing, and no
property here is about it.  A request is one step, because `_guard_tool_call` has no
`await` before `call_next`; the handler is reached with the last thing the step
does, so `runs` (the calls passed to the handler) grows in that step and no
interleaving inside it can be observed.  The outcomes of a `tools/call` are the
paths through the code:

| Action | Path |
|---|---|
| `RejectState` | the boundary refuses the state; the middleware is not reached and nothing is audited |
| `Deny` | `_raise_if_denied` raises |
| `Ask` | gated, no `inputResponses`: a new question and a sealed state |
| `RefuseApproval` | gated, and `approval.check` raises |
| `Run` | `call_next`, ungated, approved, or let through in shadow mode |

`sealed[n]` is the state the client holds for question `n`, `human[n]` what the
person answered.  Serving consumes nothing: any state may come back at any time,
anywhere, with any caller, tool, arguments and roles.  The client is trusted in
one respect, the one `approval.py` names: the answer it relays with a state is
the answer given to that question (`Relayed`).  Without a state it may send
anything.  A request has one state: `middleware.py:110` reads two spellings of the
field, and the SDK's boundary is taken to unseal whichever was used.  Cryptography is abstracted to what the boundary checks (`Unseals`):
the key is on the ring, the state is fresh, it is bound to this call.

`resources/read` (`ReadResource`) is decided and audited and never held for
approval, even if its rule says `requires_approval`, as in the code.
`tools/list` changes nothing and is the operator `Listed`.

`Consent` knows calls, yeses and a clock only.  `KeepsPromise` is the refinement:
`agreed` is mapped to the questions answered yes, `performed` to the gated runs.

`GrantsAreDeclared` is the "fail fast" of `Policy.load` as seen from the running
processes: a role that is misspelt in some document is in no grant in force, of
a tool or a resource, and nobody but holders of a declared role was ever let through by an enforcing process.

### KeyRotation

The operator of the runbook: `Generate`, `Switch` and `Drop` set the environment
of the next phase, `Deploy` restarts one replica with it, `Finish` makes the new
key the old one; `Rollback` goes back to phase one.  `Environment` is what the
operator sets, `Goal` the ring that `build` makes of it (`Ring`, of
`RequestState`), so the order and the fallback of `build` are part of what is
checked.  `SealState` and `Tick` run all the while.  `live` holds the states that have not expired.  `RollbackFrom`
is the set of phases a rollback is made from, because the answer depends on it.

### RotatingGate

The gate under a rotation: `Gate` is `Middleware` with `proc` read off the rings
of `KeyRotation`, one policy and enforcement on.  What the two have in common
happens at once: restarting a replica with the environment of the phase (`Restart`),
putting a question, which seals a state (`Question`), and time (`Pass`).
Everything else is a step of one of them and leaves the other alone.  Neither
module is changed for it, and both directions are proved: a step of the
composition is a step of each, or stutters in it.  `RotationKeepsPromise` says that
it implements `Consent` too: what a rotation may cost is approvals, never a
call that nobody agreed to.  `resources/read` carries no
state and is left out.

### IncidentFlow and AdvisedAgent

The stores in `LiveStores` are instances behind the live connector, the others
mocks; a call takes its store when it begins.  With the mock a call is one step
(`MockAssess`, `MockRaise`): no `await` in the mock suspends, and each process has
a store of its own.  With the live connector a call is a sequence of requests
(`Lookup`, `Search`; or `Post`, in which the instance acts, and `Receive`, in
which its record arrives).

Each request may end in `Fail` instead: `_request` raises on an `HTTPError`, on
every status of 400 or more, and on a body that is not JSON or not of the shape it
reads.  None of these says what the instance has done: a 502 or a 504 may
come from something in front of it, before, while or after it acts, and the connector
does not tell one status from another.  So there is one action for all of them,
and whatever became of the request, the POST of a call that ended before the
instance acted stays in `late`, and is acted on later (`LatePost`) or never (`LateLoss`).
A reply below 400 without a record is a success with an empty number
(`ReceiveBlank`; 0 stands for the empty number), at any of these moments too;
a lookup or a search that is answered without a result reads as nothing found
(`hasResult`).  Only an answer with a number settles anything: `Confirmed` says
the instance named the incident it opened, `InDoubt` that nobody knows whether
there is one, or will be.  "refused" is said only of a call that ended before
it sent anything: an unknown shipment or urgency, or the mock's check.

Other users open and close incidents and change the CMDB.  `AdvisedAgent`
restricts who calls: each of several agents makes one call at a time, and raises
only on the advice of its last call.  They know nothing of each other, and
neither does the code.  `heard[c]` is history, for the property only: the calls
that were over when the assessment began that `c` is, or that `c` follows, and
none if its search was answered without a result (`AgentHearsNothing`).

`Raising` is what a caller of `raise_shipment_incident` may count on, without
requests, connectors or other users: for a call there is at most one incident, in
the store and on an item of the shipment it was asked for; an answer is given
once, and only after "failed", or a success without a number, may an incident
still appear (`Unsettled`).  `Raised` maps the flow to it: the incidents are those
the calls opened (whatever became of them since), the answer is `reply` with the
number, and assessments, other users, requests on their way and reads are
stutters.

### ResourceTable

`table` is the section in the order of the file, which has no two entries for one
pattern.  `Insert` and `Delete` are the edits.  `Matches` is `fnmatchcase` on
sequences of characters, without character classes, as a declaration: the URI can be
cut into pieces, one per character of the pattern, of any length for `*` and of length one
otherwise.  Which entry decides is
`ResourceRule` of `Policy`, on the `Document` the server would load from the
table.

### DevIdentityKey

A process looks for the file (`LookForFile`), reads it (`Load`), or generates a
key and writes it.  `write_bytes` is two steps, `Open` and `Write`, because it
truncates before it writes and another process may read in between; `Die` may
happen anywhere.  A process generates at most one key, named after it.  A start that
finds a file it cannot parse fails (`failed`): nobody catches that, and nobody
replaces the file, so if its creator died before it wrote, every later start
fails as well.  There is
no lock, and nobody deletes the file.

### TokenVerifier

A check is one call of `verify_token`: `Verify` finds the key at hand or sends a
request, `Receive` takes the answer, `FetchFails` is an endpoint that cannot be
reached or is too slow, `Decode` is `jwt.decode` and everything after it.
The request is made in a worker thread (`anyio.to_thread`), so checks interleave
between these steps; nothing else suspends.  `PyJWKClient` is external and modelled
by how the code sets it up: `lifespan` bounds the age of the key set `jwks`
(`KeptUntil`), `cache_keys` remembers the keys handed out, in `cached`, without
such a bound, up to `Capacity`; which is forgotten then is left open.  An unknown
key id is asked for once more; whichever answer arrives last replaces the set.
A failed fetch may or may not take the cached set with it.

The tenant publishes each key once, withdraws all but the last, and removes roles;
a token that was issued stays with its holder, and a check may be of any of
them.  The issuer's clock is off by at most `Skew`, either way: `clock` is what it
shows at time 0, shifted by `Skew` to be a natural number.  That `Skew` is at most the
`Leeway` is `VerifierAssumption`, and is what the leeway is for
(`verifier.py:106`).  What else a token may lack (algorithm, issuer, audience, a
required claim) is one choice, `sound`.

## 3. The runs

| Run | Instance | Shows |
|---|---|---|
| `approval_gate` | 2 replicas, 2 callers, 2 argument digests, 2 questions, TTL 2, 4 requests, clock to 2; a shared key, a process-local one and a malformed one | runs are justified and `Consent` is implemented whatever is restarted, repeated, late or misdirected |
| `policy_change` | 1 replica restarted between shadow mode, enforcement, a revoked grant, a document that does not load and missing credentials; two tools and a resource, 3 requests | runs stay justified; the audit counters balance; discovery agrees with enforcement; no dead grant is in force |
| `key_rotation` | the gate on 3 replicas, 3 keys, TTL 2, clock to 6, 2 questions, 2 requests, rollbacks from phases one and two | approvals in flight unseal everywhere at every moment, an approved retry within the TTL gets through on every replica, `Consent` is implemented, and the inductive invariant of the proof holds |
| `flow` | 2 calls, an instance and a mock, 2 shipments (one delayed) on 2 items, 2 changes by others | one incident per call, truthful replies, every call ends, `Raising` is implemented, and the inductive invariant of the proof holds |
| `advised_agent` | 2 agents, 4 calls on the instance, 2 delayed shipments on one item, 1 change by others | duplicates need an answer that left open what had happened, a search answered without a result, or rounds that overlap |
| `resource_table` | tables of up to 3 entries over 13 patterns and 2 rules, 14 URIs | among path patterns the deepest decides; the order of the file matters between equal lengths only; an edit changes nothing for a URI whose patterns it leaves alone |
| `identity` | in `--auth dev`: 4 processes; in `--auth entra`: 2 checks, 2 keys, 1 role, all durations 1, clock to 3 | processes agree on the key unless two of them found no file, a settled key stays, no start fails on the file unless a creator has not written it; removed roles lapse, a rollover costs nobody a request the endpoint answers, no new trust in a key long withdrawn; the inductive invariants of both proofs hold |
| `one_run_per_approval` | as `approval_gate` | violated: one yes serves every delivery of the retry within the TTL |
| `rollback` | as `key_rotation`, with rollbacks from phase three | violated: see below |
| `unroutable` | as `flow`, on the instance | violated: the live connector opens incidents on items the CMDB does not have |
| `most_specific` | as `resource_table`, 2 entries | violated: a rule decides although a more specific pattern matches |
| `withdrawn_key` | as `identity` | violated: a key that was used once stays trusted after its withdrawal |

Why the bounds are enough.  Two replicas give one that asks and one, differently
configured, that is handed the retry; two callers, digests and questions give
the one the yes was for and another; the answers are a yes, an accept without
the tick and, in `policy_change`, a decline; the clock passes the TTL, so a state is seen fresh, on
its last tick and expired; four requests are a question, its retry, a repetition
and a request of somebody else.  For a rotation, three replicas leave a mixed
fleet after one and after two restarts, three keys and six ticks let a second
rotation begin while states of the first are alive; two requests are a question
and its retry, and `ApprovedRetriesRun` asks of every reachable state what any
replica would say to the retry, so no request is spent on that.  In the flow, four calls are
two assess-and-raise rounds, of one agent or of two, side by side or one after
the other; two changes by others (one in `advised_agent`) let an
item be retired and re-registered, or an incident be opened and closed, between
two requests of a call; with an instance and a mock each call may be on either,
and two calls can meet on one.  Three entries are a pattern that matches, a longer one and
one that does not match, in every order; URIs of up to three characters have two
steps and a remainder, as `shipment://eu/...` has; the patterns are every path of
up to two steps with a star, and exact, `?` and inner-star ones.  Of four
processes two may race, one reads while they do and one comes after.  Two checks
are two fetches that overlap; with durations of one tick and three ticks a key set expires, an
answer is late, a key is withdrawn, and a token expires by the
issuer's clock, by the true one and with the leeway, each of them alone; a
capacity of one makes the second key push out the first.

The bounds are named: `MaxLocalKeys`, `MaxTime`, `MaxRequests`, `MaxTickets`,
`MaxChanges`, `MaxEntries`.  Symmetry (over replicas, callers, questions, digests,
keys other than the first, calls, processes) is used only in runs without
liveness properties.  The runs of the flow and `identity` switch deadlock
checking off, because each call and each check is made once, each process is
started once, and the system really stops.

Fairness is assumed in `flow` only: `WF_vars(Proceed(c))`, a call that has
begun goes on.  `LiveServiceNow._request` gives every request a timeout
(`timeout_seconds`), so it is answered or fails, and no lock or retry
loop stands in its way.  Nothing is assumed of the instance, whose answers may
never come: `Fail` is part of `Proceed`.  The timeout of httpx is one per
operation (connecting, each read, each write), not one for the request: an
instance that trickles a byte now and then can keep a call waiting for longer than
any bound, and `CallsEnd` is not about such an instance.

### What the code does otherwise than its documentation says

1. `approval.py:87` says a replayed value never reaches `check`, and
   `policy.py:46` that a human has agreed to this instance of the call.  The
   state is bound to the call, not to one use of it: nothing records that a
   nonce was used, so a retry that is delivered twice within the TTL runs twice
   (`one_run_per_approval`).  What does hold is `KeepsPromise`.
2. The runbook's rollback ("every replica in any phase can unseal" `<old>,<new>`,
   line 98) is not safe from phase three: a replica that already runs `<new>`
   cannot unseal what a rolled-back one seals with `<old>` (`rollback`).  From phases one and
   two it is, and that is proved.
3. `tests/test_tlo_flow.py:55` asks that an item that does not resolve fail
   loudly.  The mock does, the live connector posts regardless (`unroutable`).
4. `policy.yaml:100` says that the most specific pattern comes first.  The code
   goes by length: `shipment://SHP-100*` written above `shipment://SHP-1001` has
   as many characters as it and decides for the one URI the latter names, and a
   longer pattern with more wildcards beats an exact one (`most_specific`).
   Where every pattern that matches is a path followed by `*`, as in the shipped
   policy, the sentence is true (`DeepestPathDecides`).
5. `verifier.py:10` says that keys are cached by key id "so key rollover is picked
   up without a restart", and `verifier.py:61` gives the cache a `lifespan`.  It
   bounds the key set only: `cache_keys=True` also keeps every key that was handed
   out, without expiry.  The new key is picked up (`RolloverIsTransparent`); the
   old one, once used, is trusted after its withdrawal until the process restarts
   or other keys push it out (`withdrawn_key`).  A key not used before is safe
   (`NoNewTrustInOldKeys`).

Three more disagreements need no run.  `raise_shipment_incident` is documented to
open an incident "for a delayed shipment" (`server.py:249`) and never looks at the
status.  `devidp.py:50` says that separate processes agree on the persisted key;
two that start together may both find no file and then do not.  When they do
agree is `AgreeUnlessRaced`.  `ServiceNowError` is documented as "The instance
rejected a call, or could not be reached" (`servicenow.py:86`); it is also raised
when the instance has done what it was asked and an error came back, which is why
`RepliesAreTrue` claims nothing of a call that failed.

Not findings, but worth knowing.  `docs/runbooks/revoke-access.md` says that tokens
remain valid until they expire; the leeway adds a minute to that, and a slow
issuer's clock as much again (`RemovedRolesLapse`).  In shadow mode a gated call is run and audited
as allowed; that it would have been held leaves no record.  Two agents
that both assess before either has raised both follow the advice into a duplicate,
and the code promises nothing else; `NoDuplicateUnawares` says that this, an answer
that left open what had happened, and a search that was answered without a
result, are the only ways to one.  A raise that succeeds without a number has opened
one incident or none, and its caller cannot tell.  `verify_token` answers `None` to
a sound token when the key endpoint cannot be reached, as it does to a forged one.

## 4. The proofs

`MiddlewareProofs`, for any replicas, callers, tools, policies, keys and TTL,
from the assumptions `TTLAssumption`, `MalformedAssumption`,
`ApprovalAssumption`, `ConfigsAssumption` and `SentinelsAssumption`:

* `TypeCorrect`: `TypeOK`; its content is that no process ever has an empty ring.
* `Justified`: `EnforcedRunsAreJustified`.  It is not inductive alone: that a yes
  given before a run still stands needs that questions are never overwritten and
  answers never changed, and that a question is answered only after it was put,
  in the past.  So the invariant of the proof, `IInv`, is `TypeOK /\ QuestionInv /\ EnforcedRunsAreJustified`.
  The key lemma is that a gated `Run` unsealed a state bound to this very
  request, whose relayed answer is the recorded one.
* `Balanced`: `AuditBalances`, inductive with the types; each way of answering
  adds the same to both sides.
* `ListedAsAdmitted`: `visible_tools` and `decide_tool` agree.
* `NoDeadGrants`: `GrantsAreDeclared`, from `LoadedInv`, that processes and recorded
  runs have documents that `Loads` accepts; the rest is about `DecideTool`.
* `GateKeepsPromise`: the refinement of `Consent`.  A gated run maps to
  `Perform`, with the question found by the lemma above as the witness; an
  answer yes maps to `Agree`, a tick to `Pass`, everything else to a stutter.

`KeyRotationProofs`, for any number of replicas, any keys and any TTL:
`RotationInvariant` (`RotationInv`), `RotationDropsNothing`
(`LiveStatesUnsealEverywhere`), `RotationKeepsSealersUnderstood`.  All three
assume `3 \notin RollbackFrom`, which run `rollback` shows to be necessary.  The
invariant says which rings and which keys of live states go with each phase.  Its
least obvious part is phase two: once `[new, old]` is rolled out everywhere no
state sealed with the old key is younger than the rollout (`settled`), so after
one TTL none is alive, which is what makes phase three safe.

`RotatingGateProofs`, for any replicas, callers, policy, keys and TTL:

* `GateRotates`: the composition implements `KeyRotation`, which brings the
  rotation's theorems over.
* `RotationServes`: each of its steps is one of `Middleware`, or stutters there.
* `RotationJustifies` (`EnforcedRunsAreJustified` of the gate) and `RotationConsents`
  (`RotationKeepsPromise`): nothing is proved again for them.  `Facts` is an instance
  of `MiddlewareProofs` with the rings of the rotation, `FactsApply` discharges
  its assumptions from `ShippedAssumption` and those of `KeyRotation`, and its
  lemmas about `Next` carry the inductive invariant along `RotationServes`; only the initial state
  differs, because the replicas of a rotation are up.  The `Same...` lemmas say that
  `Facts` and `Gate` are one module seen twice.
* `RetriesSurviveRotation` (`ApprovedRetriesRun`).  What has to be added is
  `SealedInv`: the state of every question put that has not expired is one of
  `live`, which is what `KeyRotation` is careful about.

Only the last assumes `3 \notin RollbackFrom`.  A rollback from phase three can
drop approvals (`rollback`), so that a yes is good for something needs the
assumption; that nothing runs without one does not.

`IncidentFlowProofs`, for any calls, stores, shipments and items and for both
connectors, from `FlowAssumption`: `FlowInvariant` (`FlowInv`), `OnceOnly`
(`OneIncidentPerCall`), `ToldTheTruth` (`RepliesAreTrue`).  Neither property is
inductive.  A second incident for a call is excluded only because a call whose
POST is still under way, or still in `late`, has none yet: `IncidentsInv` says
that an incident's call has left `late` and is past its POST.  `CallsInv` says
which calls can be in `late`: raises that failed or succeeded without a number
(`InDoubt`); and that assessments never get to a POST.  Nothing is assumed of
what an error or an unreadable answer says about the instance.

`RaisingIsKept` is the refinement (`RaisesAsPromised`).  A POST that the instance
acts on, in time or late, is `Act`; an answer is `End`, and is true because of
`IncidentsInv`; a raise on a mock is `Serve`; everything else leaves `Filed`,
`Asked` and `Told` as they are (`AssessUnseen`, `NothingNew`, `NothingSaid`,
`NotTold`).  The step that needs the invariant most is `LatePost`: `Raising`
opens an incident for a call without one whose answer, if it has any, settles
nothing, which is what `CallsInv` and `IncidentsInv` say of the calls in `late`.

`AdvisedAgentProofs`, for any agents and whatever `IncidentFlowProofs` allows:
`DuplicatesAreUnawares` (`NoDuplicateUnawares`).  Agents are callers like any other
(`AgentsFlow`), so the flow's invariants hold of them.  What has to be added is
`AdviceInv`: whoever was advised to raise, by a search that was answered with a
result, saw no open incident on the item, and so none of a call that was over
when the advice was asked for, but one whose answer left open what had happened.
It stays true because a call that is over opens no incident any more unless it is
still in `late`, and those are `InDoubt`.

`ResourceTableProofs`, for tables of any length and patterns and URIs over any
characters, from `PatternsAssumption`: `EditsStayLocal` (`EditsAreLocal`),
`OrderMattersForTiesOnly` (`OrderBreaksTiesOnly`) and `DeepestPathWins`
(`DeepestPathDecides`).  The first two come from one lemma: two tables decide alike about a
URI if the entries of one can be placed in the other, with every entry that
matches among them and those of one length in their order (`SameDecision`).
Nothing there depends on what a pattern matches.  `DeepestPathWins` does:
`PathMatches` takes from the pieces of a match that a URI matched by a path
and a star begins with the path, so of two paths that match one URI the shorter is
the beginning of the longer (`PathsNest`); and some rule decides whenever one
matches (`SomeWinner`).  Where that asks for an induction (the first piece that is not where it
should be, the first candidate of the greatest length), the proof takes the least element of a set of
numbers (`LeastElement`), which needs no operator as a parameter.  `TableInv`, that there is one
entry per pattern, is what tells an edited entry from the others.

`DevIdentityKeyProofs`, for any processes, from `DevIdentityAssumption`:
`AgreementUnlessRaced` (`AgreeUnlessRaced`), `SettledStays` (`SettledForGood`) and
`FailuresExplained` (`FailedStartsExplained`), all from `KeysHaveCreators`
(`KeyFileInv`).  Its content is `KeysInv`: every key in the file or in use comes
from a process that found no file, and a file that cannot be parsed is one that such
a process has opened and not written, because it has not got there or died.
`AgreeUnlessRaced` does not exclude the race; it says that nothing else makes
processes disagree.

`TokenVerifierProofs`, for any keys, roles, checks and durations, from
`VerifierAssumption`: `VerifierInvariant` (`VerifierInv`), `RolesLapse`,
`RolloverCostsNothing` and `NoTrustAfterLapse`.  The invariant says how stale
things can be: an answer under way is at most `FetchTimeout` old and was true when
it was given (`AnswersInv`), so the set it becomes was true at most that long
before (`SetInv`), and every key in it that has been withdrawn was so a lifespan
and a fetch ago at most.  That an answer has the key it was asked for,
if that key is published, is what makes a rollover transparent although answers overtake one
another.  `RolloverIsTransparent` lists the reasons for which a token may be turned
down, and a fetch that failed is one of them (`unreachable`): `verify_token` returns `None` for it
as for the others, so the verifier promises nothing while the endpoint is away and
the key is not at hand.

Only model-checked: `CallsEnd`, because liveness is out of the prover's reach.  The
properties of the runs that expect a violation are, of course, not proved, and
`Raising` and `Consent` are not shown to be live, because they promise nothing that must happen.

## 5. Not modelled

Wording, log levels, YAML, the parsing of tokens and the cryptography itself;
scopes, `required_scopes`, client ids and the principal's name, which only the
SDK and the log look at; the read-only tools, which look a constant table up; the
demo client, a script of a few calls, and the CI.  Of the development identity provider only the key
file is modelled: what it puts into tokens is a constant record, and nobody
deletes the file.

Of the server's assembly, `Start` covers what decides whether a server serves and
with what.  `create_server` also rebinds the module's `SERVICENOW`, before the
policy is loaded, so a second server of one process takes the first one's
backend away.  `main` builds one server per process, and nothing says what a
second one may expect, so there is no promise to check.

## 6. Plan

The modules above were written in the order gate, rotation, flow, agent, resource
table, key file, verifier, gate under rotation, abstract flow: what decides whether a write
happens first, then what it rests on.  Every invariant and action property a passing run
checks is also proved.  Next are:

1. an abstract specification of what the verifier promises about keys and
   roles, with `TokenVerifier` shown to implement it;
2. lemmas about `Ring` for what `build` makes of any environment, which
   `KeyRotation` now uses one phase at a time.
