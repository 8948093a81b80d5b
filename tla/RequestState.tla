---------------------------- MODULE RequestState ----------------------------
(***************************************************************************)
(* The sealing of request state: governance/request_state.py, and the part *)
(* of the SDK's RequestStateBoundary that the repository relies on.        *)
(*                                                                         *)
(* MCP_REQUEST_STATE_KEYS is abstracted to the sequence of its non-blank,  *)
(* comma-separated entries, each a key or Malformed (not base64, or fewer  *)
(* than MINIMUM_KEY_BYTES bytes).  A sealed state is the record of what    *)
(* the boundary binds: the sealing key, the call and the time of minting.  *)
(***************************************************************************)
EXTENDS Naturals, Sequences

CONSTANTS
    Keys,        \* usable keys an operator may put in the environment
    Malformed,   \* an entry that is no key
    TTL          \* how long a state lives, in ticks

ASSUME MalformedAssumption == Malformed \notin Keys
ASSUME TTLAssumption == TTL \in Nat \ {0}

EnvValue == Seq(Keys \cup {Malformed})

\* The key `RequestStateSecurity.ephemeral` draws, the s-th to be drawn.
LocalKey(s) == <<"process-local", s>>

AnyKey == Keys \cup ({"process-local"} \X Nat)

\* load_keys raises RequestStateKeyError for every other value.
LoadsKeys(env) == \A i \in DOMAIN env : env[i] # Malformed

\* The mutant forgets the fallback.
MUT_NoFallback(env, s) == env

\* This one keeps only the key that seals.
MUT_FirstKeyOnly(env, s) == IF env = <<>> THEN <<LocalKey(s)>> ELSE <<env[1]>>

\* This one builds the ring from the back.
MUT_Reversed(env, s) ==
    IF env = <<>> THEN <<LocalKey(s)>> ELSE [i \in DOMAIN env |-> env[Len(env) + 1 - i]]

\* The ring `build` returns, s process-local keys having been drawn before.
Ring(env, s) == IF env = <<>> THEN <<LocalKey(s)>> ELSE env

-----------------------------------------------------------------------------
(* The boundary (SDK).  The first key of a ring seals, every key unseals.  *)

SealingKey(ring) == ring[1]

Holds(ring, key) == \E i \in DOMAIN ring : ring[i] = key

Fresh(minted, now) == now - minted < TTL

Seal(ring, caller, tool, args, now) ==
    [key |-> SealingKey(ring), caller |-> caller, tool |-> tool,
     args |-> args, minted |-> now]

Unseals(ring, state, caller, tool, args, now) ==
    /\ Holds(ring, state.key)
    /\ Fresh(state.minted, now)
    /\ state.caller = caller
    /\ state.tool = tool
    /\ state.args = args
=============================================================================
