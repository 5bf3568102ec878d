------------------------------- MODULE Engine -------------------------------
(***************************************************************************)
(* The single-node engine of crates/kesseldb-server/src/lib.rs: callers    *)
(* admitted by a bounded in-flight counter, one engine thread that drains  *)
(* its queue into batches, applies them, syncs once and then replies, the  *)
(* read bypass over the RwLock, and the restart of the process.            *)
(*                                                                         *)
(* A request is known by its caller and its number; of what it asks only   *)
(* its kind is kept.  The state it changes is the set of requests that     *)
(* have taken effect: in SSTables, or in a frame of the WAL.               *)
(***************************************************************************)
EXTENDS Integers, Sequences, FiniteSets, FiniteSetsExt, SequencesExt

CONSTANTS
    Callers,
    Kinds,          \* of "write", "txn", "read", "snapshot": what is asked
    Bypass,         \* read_workers is set: reads do not queue
    MaxInflight,    \* max_inflight
    MaxBatch,       \* MAX_BATCH
    MaxCalls,       \* bound: calls of one caller
    MaxRestarts,    \* bound: restarts of the process
    SyncMayFail     \* may the fsync of a batch return an error?

ASSUME EngineBounds ==
    /\ {MaxInflight, MaxBatch, MaxCalls, MaxRestarts} \subseteq Nat
    /\ Kinds \subseteq {"write", "txn", "read", "snapshot"}
    /\ {Bypass, SyncMayFail} \subseteq BOOLEAN
    /\ IsFiniteSet(Callers)

Requests == Callers \X (1..MaxCalls)

VARIABLES
    n,              \* the engine thread's next op number
    cursor,         \* storage.high_op()
    wal, synced,    \* frames <<op number, request>>, and how many are durable
    flushed,        \* requests with effects in SSTables
    man_op,         \* the manifest's high_op
    queue,          \* the engine's channel
    batch,          \* computed, not yet answered
    state,          \* state[c]: what caller c is doing
    calls,          \* calls[c]: the number of its current call
    kind,           \* kind[c]: what that call asks
    inflight,
    acked,          \* mutating requests that were answered
    seen,           \* requests whose effects an answered read has shown
    skipped,        \* history: requests the replay guard of apply swallowed
    recovered,      \* history: requests replayed from frames that no sync covered
    restarts

durable == <<wal, synced, flushed, man_op>>
callers == <<state, calls, kind>>
vars == <<n, cursor, durable, queue, batch, callers, inflight, acked, seen, skipped, recovered, restarts>>

Init ==
    /\ n = 1 /\ cursor = 0
    /\ wal = <<>> /\ synced = 0 /\ flushed = {} /\ man_op = 0
    /\ queue = <<>> /\ batch = <<>>
    /\ state = [c \in Callers |-> "idle"]
    /\ calls = [c \in Callers |-> 0]
    /\ kind = [c \in Callers |-> "none"]
    /\ inflight = 0
    /\ acked = {} /\ seen = {} /\ skipped = {} /\ recovered = {}
    /\ restarts = 0

InWal(k) == {wal[i][2] : i \in 1..k}
Effects == flushed \cup InWal(Len(wal))
DurableEffects == flushed \cup InWal(synced)

----------------------------------------------------------------------------
(* apply_raw *)

Mutating(k) == k \in {"write", "txn"}

\* Mutant: the read does not wait for the write guard.
ReadAnytime(k) == Bypass /\ k = "read"

\* A read that takes the shared lock: no batch holds the write guard.
MayBypass(k) == Bypass /\ k = "read" /\ batch = <<>>

\* The read bypass: answered on the caller's own thread.
BypassRead(c) ==
    /\ state[c] = "idle" /\ calls[c] < MaxCalls /\ "read" \in Kinds
    /\ MayBypass("read")
    /\ calls' = [calls EXCEPT ![c] = @ + 1]
    /\ seen' = seen \cup Effects
    /\ UNCHANGED <<n, cursor, durable, queue, batch, state, kind, inflight, acked, skipped, recovered, restarts>>

\* Mutant: off by one.
FullLate == inflight > MaxInflight

Full == inflight >= MaxInflight

\* Counted before it is known whether the call is admitted.
Count == inflight' = inflight + 1

\* fetch_add on the in-flight counter decides whether the call is admitted.  A
\* read in SQL queues even when reads may take the bypass.
Call(c, k) ==
    /\ state[c] = "idle" /\ calls[c] < MaxCalls
    /\ calls' = [calls EXCEPT ![c] = @ + 1]
    /\ kind' = [kind EXCEPT ![c] = k]
    /\ Count
    /\ state' = [state EXCEPT ![c] = IF Full THEN "shed" ELSE "admitted"]
    /\ UNCHANGED <<n, cursor, durable, queue, batch, acked, seen, skipped, recovered, restarts>>

\* fetch_sub, and the caller gets Unavailable or the engine's answer.
Return(c) ==
    /\ state[c] \in {"shed", "replied"}
    /\ inflight' = inflight - 1
    /\ state' = [state EXCEPT ![c] = "idle"]
    /\ UNCHANGED <<n, cursor, durable, queue, batch, calls, kind, acked, seen, skipped, recovered, restarts>>

Send(c) ==
    /\ state[c] = "admitted"
    /\ queue' = Append(queue, c)
    /\ state' = [state EXCEPT ![c] = "waiting"]
    /\ UNCHANGED <<n, cursor, durable, batch, calls, kind, inflight, acked, seen, skipped, recovered, restarts>>

----------------------------------------------------------------------------
(* The engine thread *)

\* StateMachine::apply: an operation at or below the cursor counts as applied.
Skipped(k) == Mutating(k) /\ cursor > 0 /\ n <= cursor

\* compute for the request at the head of the queue.  A transaction syncs its
\* own frames and leaves the cursor as it is; a snapshot flushes, which empties
\* the WAL.
Compute ==
    LET c == Head(queue)  k == kind[c]  frame == <<n, <<c, calls[c]>>>>
    IN  /\ queue # <<>>
        /\ Len(batch) < MaxBatch
        /\ queue' = Tail(queue)
        /\ batch' = Append(batch, [caller |-> c, shown |-> IF k = "read" THEN Effects ELSE {}])
        /\ n' = IF k = "snapshot" THEN n ELSE n + 1
        /\ \/ /\ k = "read" \/ Skipped(k)
              /\ UNCHANGED <<cursor, durable>>
           \/ /\ k = "write" /\ ~ Skipped(k)
              /\ wal' = Append(wal, frame)
              /\ cursor' = Max({cursor, n})
              /\ UNCHANGED <<synced, flushed, man_op>>
           \/ /\ k = "txn" /\ ~ Skipped(k)
              /\ wal' = Append(wal, frame)
              /\ synced' = Len(wal')
              /\ UNCHANGED <<cursor, flushed, man_op>>
           \/ /\ k = "snapshot"
              /\ flushed' = Effects /\ wal' = <<>> /\ synced' = 0
              /\ man_op' = IF wal = <<>> THEN man_op ELSE Max({cursor, man_op})
              /\ UNCHANGED cursor
        /\ skipped' = IF Skipped(k) THEN skipped \cup {<<c, calls[c]>>} ELSE skipped
        /\ UNCHANGED <<callers, inflight, acked, seen, recovered, restarts>>

Answered == {batch[i].caller : i \in DOMAIN batch}

\* Mutant: the replies go out before the sync.
SyncLater == UNCHANGED synced

\* sm.sync(), whose result is ignored.
SyncBatch ==
    \/ synced' = Len(wal)
    \/ SyncMayFail /\ UNCHANGED synced

\* Mutant: the drain waits until the batch is full.
DrainWaits == Len(batch) >= MaxBatch

\* The drain ends when the queue is found empty or the batch is full; a sender
\* may be late, so it may also end before a request that is on its way.
DrainEnds == batch # <<>> /\ (queue = <<>> \/ Len(batch) >= MaxBatch)

\* One sync for the whole batch, then every reply.
Reply ==
    /\ DrainEnds
    /\ SyncBatch
    /\ batch' = <<>>
    /\ state' = [c \in Callers |-> IF c \in Answered THEN "replied" ELSE state[c]]
    /\ acked' = acked \cup {<<c, calls[c]>> : c \in {x \in Answered : Mutating(kind[x])}}
    /\ seen' = seen \cup UNION {batch[i].shown : i \in DOMAIN batch}
    /\ UNCHANGED <<n, cursor, wal, flushed, man_op, queue, calls, kind, inflight, skipped, recovered, restarts>>

\* The process dies, with the machine or alone, and is started again on its
\* data directory: the WAL keeps at least its synced frames, the op numbers
\* start at 1 again.  The frames beyond are replayed and read, but nothing syncs
\* them before the next batch does.
Restart ==
    /\ restarts < MaxRestarts
    /\ restarts' = restarts + 1
    /\ \E kept \in synced .. Len(wal) :
          /\ wal' = SubSeq(wal, 1, kept)
          /\ cursor' = Max({man_op} \cup {wal[i][1] : i \in 1..kept})
          /\ recovered' = recovered \cup (InWal(kept) \ DurableEffects)
    /\ n' = 1
    /\ queue' = <<>> /\ batch' = <<>>
    /\ state' = [c \in Callers |-> "idle"]
    /\ inflight' = 0
    /\ UNCHANGED <<synced, flushed, man_op, calls, kind, acked, seen, skipped>>

----------------------------------------------------------------------------

Next ==
    \/ \E c \in Callers : BypassRead(c) \/ Return(c) \/ Send(c)
    \/ \E c \in Callers, k \in Kinds : Call(c, k)
    \/ Compute \/ Reply \/ Restart

Spec == Init /\ [][Next]_vars

\* The engine thread runs, and so does a thread inside a call; nothing makes a
\* caller call or the process restart.
Fairness ==
    /\ WF_vars(Compute) /\ WF_vars(Reply)
    /\ \A c \in Callers : WF_vars(Send(c)) /\ WF_vars(Return(c))

FairSpec == Spec /\ Fairness

----------------------------------------------------------------------------
(* Properties *)

\* The type invariant of the engine thread, its channel and its callers.
TypeOK ==
    /\ {n, cursor, synced, man_op, inflight, restarts} \subseteq Nat
    /\ wal \in Seq(Nat \X Requests)
    /\ flushed \subseteq Requests /\ acked \subseteq Requests
    /\ seen \subseteq Requests /\ skipped \subseteq Requests /\ recovered \subseteq Requests
    /\ queue \in Seq(Callers)
    /\ batch \in Seq([caller : Callers, shown : SUBSET Requests])
    /\ state \in [Callers -> {"idle", "shed", "admitted", "waiting", "replied"}]
    /\ calls \in [Callers -> 0..MaxCalls]
    /\ kind \in [Callers -> Kinds \cup {"none"}]

\* An answered write has taken effect and is durable: the replies of a batch
\* are sent after its sync.
AckedDurable == acked \subseteq DurableEffects

\* Through restarts too, as long as the replay guard has not swallowed the write.
DurableUnlessSkipped == acked \subseteq DurableEffects \cup skipped

\* What a read has shown cannot be lost, whether it queued or took the bypass:
\* the write guard is held until the batch is durable.  The one thing a read may
\* show too early is what a restart replayed from frames no sync covered.
ShownDurable == seen \subseteq DurableEffects \cup recovered

\* The counter admits at most max_inflight callers, however their increments and
\* decrements interleave, so the queue is bounded.
InflightBounded ==
    Cardinality({c \in Callers : state[c] \in {"admitted", "waiting", "replied"}}) <= MaxInflight

\* Every call returns: no request is left in the queue or in a batch, and every
\* reply reaches its caller.
CallsReturn ==
    \A c \in Callers : (state[c] # "idle") ~> (state[c] = "idle")

============================================================================
