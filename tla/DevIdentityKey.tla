--------------------------- MODULE DevIdentityKey ----------------------------
(***************************************************************************)
(* The signing key of the development identity provider, which the server  *)
(* and every --print-token process read from one file, or put there:       *)
(* governance/devidp.py.                                                   *)
(*                                                                         *)
(* Each process is started once and generates at most one key, which is    *)
(* named after it.  Nothing is locked: a process that found no file goes   *)
(* on to write one, whatever happened in between.  write_bytes empties the *)
(* file when it opens it and fills it when it writes, and a process may    *)
(* die between any two steps.  Nobody deletes the file.                    *)
(***************************************************************************)
CONSTANTS
    Processes,
    NoKey,
    Absent,    \* there is no file
    Empty      \* there is one, opened for writing and not written out

ASSUME DevIdentityAssumption ==
    /\ NoKey \notin Processes
    /\ {Absent, Empty} \cap Processes = {}
    /\ Absent # Empty

VARIABLES
    file,      \* the key in the file
    pc,        \* per process: how far it has got
    key,       \* per process: the key it signs and verifies with
    creators   \* the processes that found no file (history)

vars == <<file, pc, key, creators>>

Init ==
    /\ file = Absent
    /\ pc = [p \in Processes |-> "started"]
    /\ key = [p \in Processes |-> NoKey]
    /\ creators = {}

Goes(p, place) == pc' = [pc EXCEPT ![p] = place]

\* The mutant generates a key whether or not there is one.
MUT_NeverLoads(p) ==
    /\ pc[p] = "started"
    /\ Goes(p, "generating")
    /\ creators' = creators \cup {p}
    /\ UNCHANGED <<file, key>>

\* This one puts an empty file in place before it generates a key.
MUT_TouchFirst(p) ==
    /\ pc[p] = "started"
    /\ \/ /\ file = Absent
          /\ file' = Empty
          /\ Goes(p, "generating")
          /\ creators' = creators \cup {p}
       \/ /\ file # Absent
          /\ Goes(p, "loading")
          /\ UNCHANGED <<file, creators>>
    /\ UNCHANGED key

\* key_path.exists()
LookForFile(p) ==
    /\ pc[p] = "started"
    /\ \/ /\ file = Absent
          /\ Goes(p, "generating")
          /\ creators' = creators \cup {p}
       \/ /\ file # Absent
          /\ Goes(p, "loading")
          /\ UNCHANGED creators
    /\ UNCHANGED <<file, key>>

\* The mutant replaces a key that does not parse.
MUT_LoadRepairs(p) ==
    /\ pc[p] = "loading"
    /\ \/ /\ file \in Processes
          /\ key' = [key EXCEPT ![p] = file]
          /\ Goes(p, "ready")
       \/ /\ file \notin Processes
          /\ Goes(p, "generating")
          /\ UNCHANGED key
    /\ UNCHANGED <<file, creators>>

\* An empty file does not parse, and nobody catches the exception.
Load(p) ==
    /\ pc[p] = "loading"
    /\ \/ /\ file \in Processes
          /\ key' = [key EXCEPT ![p] = file]
          /\ Goes(p, "ready")
       \/ /\ file \notin Processes
          /\ Goes(p, "failed")
          /\ UNCHANGED key
    /\ UNCHANGED <<file, creators>>

Open(p) ==
    /\ pc[p] = "generating"
    /\ file' = Empty
    /\ Goes(p, "writing")
    /\ UNCHANGED <<key, creators>>

Write(p) ==
    /\ pc[p] = "writing"
    /\ file' = p
    /\ key' = [key EXCEPT ![p] = p]
    /\ Goes(p, "ready")
    /\ UNCHANGED creators

Die(p) ==
    /\ pc[p] \notin {"dead", "failed"}
    /\ Goes(p, "dead")
    /\ UNCHANGED <<file, key, creators>>

Next ==
    \E p \in Processes :
        LookForFile(p) \/ Load(p) \/ Open(p) \/ Write(p) \/ Die(p)

Spec == Init /\ [][Next]_vars

-----------------------------------------------------------------------------
(* Properties.                                                             *)

TypeOK ==
    /\ file \in Processes \cup {Absent, Empty}
    /\ pc \in [Processes -> {"started", "loading", "generating", "writing",
                             "ready", "failed", "dead"}]
    /\ key \in [Processes -> Processes \cup {NoKey}]
    /\ creators \subseteq Processes

\* `kid` is derived from the key: a token minted with one key is verified by a
\* server that runs with the same.
Verifies(server, minter) == key[server] = key[minter]

Started(p) == key[p] # NoKey

\* What devidp.py:50 asks for, "separate processes agree on it".  Two processes
\* that start together may both find no file; then they do not.
ProcessesAgree ==
    \A p, q \in Processes : Started(p) /\ Started(q) => Verifies(p, q)

\* They do agree if only one of them found no file, whoever reads, dies or
\* hangs on the way (_load_or_generate, which never replaces what it read).
AgreeUnlessRaced == (\A p, q \in creators : p = q) => ProcessesAgree

Pending(p) == pc[p] \in {"generating", "writing"}

Settled == file \in Processes /\ \A p \in Processes : ~Pending(p)

\* Once a key is in the file and nobody is about to write another, it stays,
\* and every later process gets it (_load_or_generate, "any process loading
\* the same PEM").
SettledForGood == [][Settled => Settled' /\ file' = file]_vars

\* A process that found no file and has written no key, or never will.
Unwritten(q) == pc[q] \in {"writing", "dead"} /\ key[q] = NoKey

\* No start ever fails on the file unless a process that creates it is between
\* opening and writing it, or has died before it wrote; after that every start
\* fails, as nobody replaces the file (_load_or_generate: write_bytes in place,
\* no temporary file, and the exception of a load is not caught).
FailedStartsExplained ==
    [][\A p \in Processes : pc[p] # "failed" /\ pc'[p] = "failed" =>
           \E q \in creators : Unwritten(q)]_vars

\* Every key in use comes from a process that found no file, and a file that
\* cannot be read from one that has not written its key.
KeysInv ==
    /\ file \in Processes => file \in creators
    /\ file = Empty => \E q \in creators : Unwritten(q)
    /\ \A p \in Processes :
           /\ pc[p] = "loading" => file # Absent
           /\ Pending(p) => p \in creators
           /\ Started(p) => key[p] \in creators /\ pc[p] \in {"ready", "dead"}

\* The inductive invariant: where the keys in the file and in use come from.
KeyFileInv == TypeOK /\ KeysInv
=============================================================================
