# KesselDB in TLA+

KesselDB (`src/`) is a replicated SQL database in Rust: a deterministic state
machine on an LSM storage engine, replicated by Viewstamped Replication, behind a
single engine thread and several wire gateways. This directory holds TLA+ modules
translated from that code, TLC runs on small instances of them, and proofs that
TLAPS checks for every value of the constants.

`src/kesseldb-tla/` contains modules of the project's own. They describe intended
protocols; the ones here are translated from the Rust code, line by line as
`PROJECT.json` maps them, so that a property that holds here holds of the handlers
as they are written.

```
tlc -workers 2 -config VSR_view_change.cfg MCVSR     # a run
tlapm EngineProofs.tla                               # the proofs of a module
```

## 1. Inventory

Paths are below `src/crates/`.

| Part | State it keeps | Operations | Talks to | Module |
|---|---|---|---|---|
| `kessel-vsr` | view, normal_view, status, log, commit, client_table, prepare_ok, svc_votes, dvc, max_view_seen | `on_request`, the eight handlers of messages between replicas, `tick` | other replicas by message; `StateMachine::apply` on commit | `VSR` |
| `kesseldb-server/cluster.rs`, `kessel-client` | pending continuations, id counters, SQL read-modify-write; the client's session and node list | submit, relay, redirect, route, follow-up; call, time out, rotate | one `Replica`, sockets | `Cluster` |
| `kesseldb-server/lib.rs` | engine thread with its op number, channel, batch, in-flight counter, `RwLock` on the state machine | `apply_raw`, `compute`, group-commit driver, snapshot, start | callers (threads), state machine | `Engine` |
| `kesseldb-server/router.rs` | drive mutex, per-router recovery | `commit_cross_shard`, `drive_seq`, `recover` | sequencer and shard groups | `CrossShard` |
| `kesseldb-server/sharded_engine.rs`, `scatter_scan.rs` | K engines, pool queue, pool threads, per-call deadline and cancel flag | route, broadcast DDL, scatter, gather, merge | engines | `Sharded` |
| `kessel-sm` | catalog, rows, index entries, counters, read cache, cursor, pending transactions, watermark, sequencer log, verdicts | `apply` of every operation | storage | `Rows`, `Mvcc`, `CrossShard`, `Engine` |
| `kessel-storage/{mvcc,tx,ssi}.rs` | versions, watermark, active snapshots, read and write sets | snapshot read, write, validate, commit, GC | storage | `Mvcc` |
| `kessel-storage/lib.rs` | WAL, memtable, SSTables, manifest, transaction overlay, high_op | put, delete, get, scans, begin/commit/abort, sync, flush, compact, open | `Vfs` | `Storage` |
| `kessel-cache` | CLOCK cache | get, put, invalidate | state machine | `Rows` |
| `kessel-io` | bytes, synced bytes | read, write, sync, crash, injected faults | the operating system | in `Storage` |
| `kessel-shard`, `-sql`, `-expr`, `-catalog`, `-codec`, `-proto`, `-crypto`, `-wasm`, `-parquet`, `-fetch`, `-objstore` | none that outlives a call | hash, parse, plan, encode, decode, evaluate | callers | - |
| `kessel-pg-gateway`, `kessel-http-gateway` | per-connection protocol state | frame, parse, format | engine handle | - |

What is hard, and what makes each part correct:

* **Replication.** Messages are lost, repeated and reordered; view changes start at
  any moment and overlap. Replicas must apply one sequence; what one has applied must
  be in the logs of a quorum; a reply must report an executed request; a view change
  that can finish must finish.
* **Cluster node.** A statement outlives the primary it was given to, is relayed,
  redirected, retried elsewhere, or is two operations with others in between. Its
  client must get its own result, nobody may wait for an entry nobody will commit,
  no assignment may vanish.
* **Engine.** Callers race on the in-flight counter; reads overtake batches; the
  process restarts on its data. What was acknowledged or shown must be durable,
  admission must be bounded, every call must return.
* **Cross-shard commit.** A router dies between two calls, a call given up on is
  executed later, two routers drive the same number, other clients write between
  verdict and commit. Shards must do the same with a transaction, once, clients must
  be told the truth, recovery must get through.
* **Sharded engine.** A scan is answered by several engines at different instants,
  through a pool with a bounded queue, a deadline and cancelled work; DDL reaches the
  shards one after another. The answer must be one a single engine could have given.
* **Rows.** A row, its index entries, a counter and a cache are changed by different
  writes, by cascades and by schema changes, and a crash cuts them apart for good,
  because the replay guard does not run an operation again. They must agree.
* **MVCC.** Snapshots against garbage collection whose target was read earlier,
  crossing transactions, a window of records that a restart empties.
* **Storage.** A crash may come between any two writes of flush, compaction or a
  transaction, files are overwritten in place, and the WAL tail is durable only up to
  the last sync. A reopened engine must read what the running one did, or, after a
  crash, what was synced and at most some of what came later; maintenance must be
  invisible.

`PROJECT.json` lists all parts with their status, and under `hazards` each of these
dangers at its line with the properties that guard against it.

## 2. Modules

| Module | Role |
|---|---|
| `VSR` | every handler of `Replica` and the network |
| `ReplicatedLog` | what replication promises: one sequence, prefixes of it, backed replies |
| `Storage` | WAL, memtable, SSTables, manifest, transactions, crash, open |
| `DurableMap` | what storage promises: one map, and after a stop one of its fallbacks |
| `Engine` | callers, admission, engine thread, group commit, read bypass, restart |
| `Mvcc` | versions, snapshots, commit validation, watermark collection, restart |
| `Rows` | row operations, indexes, constraints, read cache, DDL, crash inside an operation |
| `CrossShard` | routers composed with the sequencer's and the shards' state machines |
| `Cluster` | clients composed with cluster nodes over replication's interface |
| `Sharded` | dispatcher, scatter pool and merges over K engines |
| `MCVSR`, `MCStorage`, `MCEngine`, `MCMvcc`, `MCRows`, `MCCrossShard`, `MCCluster`, `MCSharded` | instances for TLC |
| `VSRProofs`, `StorageProofs`, `EngineProofs`, `MvccProofs`, `CrossShardProofs`, `ClusterProofs`, `ShardedProofs` | proofs |
| `NumberFacts` | lemmas on largest and smallest numbers and on folds that the proofs share |

The modules stand on each other the way the code does, each taking the one below at its
interface: `Cluster` takes replication as one committed log of which nodes have applied
prefixes, which is what `ReplicatedLog` states and `VSR` is shown to implement as long
as no log is misinstalled (so `Cluster` assumes that a committed entry is never lost,
which the code does not keep in the case of section 5); `Engine` and `Rows` take storage
as a log of frames of which a crash keeps a prefix, which is `DurableMap`; `CrossShard`
and `Sharded` take a shard as an engine that executes a call at one instant.

### VSR

The variables are the fields of `struct Replica`, as functions of the replica, with
`msgs` for the network, `replies` for what clients were told, `applied` for the calls
of `sm.apply`. One action stands for one handler, everything it calls included:
`OnRequest` (`Submit` from a local caller, `ReceiveRequest` from a relay),
`OnPrepare`, `OnPrepareOk`, `OnCommit`, `OnGetState`, `OnNewState`,
`OnStartViewChange`, `OnDoViewChange`, `OnStartView`; `tick` is `Heartbeat`,
`Timeout` and `RetryViewChange`. `ApplyThrough` is `apply_through`, `MaybeFinishSvc`
and `PushDvc` are `maybe_finish_svc` and `maybe_finish_view_change`.

Abstracted: an operation is its client and request number, a result is the position
at which it was applied. `ticks_idle` and `vc_retries` only decide when a tick times
out, so a timeout may come at any tick. A lost message is one that is never received,
a crashed replica one that takes no more steps, a duplicate one that stays in `msgs`
(`Redeliver`). `misinstalled` is a history variable: it records that a log was
installed on `DoViewChange`s of fewer than a quorum of different replicas, or over a
longer log of the same view.

### Storage

The files are `wal` with `synced`, `man`, `ssts`; the fields of `Storage` are
`memtable`, `sstables`, `manifest`, `high_op`, `txn`, `autosync`. One thread owns the
engine, so an operation is interrupted by nothing but a crash: `Commit`, `Sync`,
`BeginTxn` and `AbortTxn` are one step each, `commit_txn`, `flush` and `compact` are
split where a crash finds the disk in a state of its own (`AppendTxn`/`SyncTxn`;
`WriteSsTable`/`FlushManifest`/`ResetWal`; `WriteMerged`/`CompactManifest`/
`RemoveOld`), and `step` makes the parts follow each other. `Crash` loses the
unsynced tail of the WAL (with `PartialTail`, any part of it, also inside a frame),
`Exit` loses only the process, `Open` is `Storage::open`.

Bytes are kept as far as recovery looks at them: a frame is intact or `Torn`; a file
that is overwritten from offset 0 keeps the length of the longest contents it ever
had, and passes its checksum only at the length of its last contents; `reused`
records SSTable names that were written twice. The length of an SSTable is the number
of bytes of its entries (`Bytes`) and one for the header. The range scans (lines 902-1194) are
the table they read, `View`; their pruning is not modelled.

### Engine

A request is its caller and its number; the database is the set of requests that have
taken effect, in SSTables (`flushed`) or in frames of the WAL. `Call`, `Send`,
`Return` and `BypassRead` are `apply_raw` between its atomic operations, `Compute` is
one request of the engine's drain loop with `StateMachine::apply` (its replay guard is
`Skipped`), `Reply` the sync of the batch and its replies, `Restart` the process
ending, with the machine or alone, and starting again. When the process ends alone,
the frames no sync covers survive in the page cache and are replayed, but nothing
syncs them then (`Storage::open` reads the WAL, `kessel-storage` 181-185, 550-584), so
`Restart` leaves `synced` as it is. `skipped` and `recovered` are history variables:
the requests the replay guard has swallowed, and those a restart has replayed from
frames no sync covers, which a read may show and a power loss still takes back.

### Mvcc

A version of a row is its log position, a value the position of the operation that
wrote it, so what a snapshot reads (`Visible`) tells versions apart. `Begin`, `Drop`
and the three outcomes of `CommitTx` (`CommitConflict`, `CommitDangerous`,
`CommitInstall`) are the life of a transaction; `Put` and `Txn` are auto-commit
writes; `HeartbeatRead` reads the target of the watermark and `AdvanceWatermark` or
`RejectWatermark` applies it later, after whatever was applied in between;
`ReportActiveSnapshot` is a replica's report; `Restart` keeps the versions and the
cursor and forgets the rest, as the code does.

A transaction is the client's until it commits. `register_snapshot` is called only
around one `apply` (`kesseldb-server` 541-544) and the submitters of `CommitTx`
register nothing, so no snapshot is registered between two operations and the
heartbeat's target is the cursor (`HeartbeatTarget`): an open transaction does not hold
the watermark back, `AdvanceWatermark` may pass it, and `CommitTx` does not compare its
snapshot with the watermark. After a restart the watermark is 0, and a snapshot below
what was reclaimed is served again.
 After it `SkipPut` and `SkipCommit` are
operations the replay guard answers without running. `reclaimed` and `horizon` are
history variables (the highest watermark ever applied, the newest record dropped).
`Tx::commit` and `Tx::commit_ssi` commit against a window of their own and have no
caller outside tests.

### Rows

`db` is the store: schema, rows, index entries, counters. An operation returns the
sequence of stores after each of its `put`s (`stages`); it ends in the last, or, with a
crash, in an earlier one (`Crash`), and `cut` remembers the rows and indexes concerned,
because the replay guard never completes them. A deletion and a Txn collect their writes
in the overlay, and `commit_txn` appends them one frame per key in key order
(`kessel-storage` 620-633): those are their stages.

A `put` of a row appends a version of it, and a read finds the highest. An operation
writes at its own number, member i of a Txn at that number plus i (`kessel-sm` 7014),
although the Txn takes one number. `ahead` says how far the version of a row or of its
tombstone is above the number of the next operation, `at` the place of the member that
is applied; a write below `ahead` changes the indexes, the cache and the counter but not
what the row is (`Written`), and the ghost `shadowed` records the row. Every operation,
a restart included, ages the numbers (`Aged`, `Reopened`).

A record is a function from its columns to an object id or NULL; `Raw` maps NULL to the
bytes of 0, which is what an index sees. A record written before ADD COLUMN ends before
the column, or its padding covers it: `AlterTypeAddField` chooses (`covered`), since the
record's length before is a matter of the other columns. `UpdateSet` writes bytes
(`Sets`), never NULL: `value_from_raw` yields a value. `Create` of a serial type without
an id takes the next one, refuses at `SerialMax` (`u64::MAX` in the code), checks UNIQUE
and foreign keys and only then writes the id into the serial column
(`patch_serial_field`), so what is stored was not checked in that column; `UniqueHolds`
excepts it. A serial column flagged NULL does not occur: SQL encodes it as a non-null 0.

Actions: `Create`, `Update`, `UpdateSet`, `Delete` (with `cascade_collect`,
RESTRICT and SET NULL), `GetById` (fills the cache), `Txn`, and the schema arms
`CreateType`, `DropType`, `CreateIndex`, `AddOrderedIndex`, `AddCompositeIndex`,
`AddUnique`, `AddForeignKey`, `DropIndex`, `AlterTypeAddField`, `DropField`. The rows
DropType and DropField rewrite are committed in one stage, and several versions of one
row in one Txn are one frame.

### CrossShard

`Submit` takes the router's mutex, `SequenceStep` is `SeqAppendOnce`, `DecideStep` and
`CommitStep` one call of phase 1 or 2 to one shard, `RecoverRead` and `RecoverDrive`
the two parts of `recover`. `Abandon` is every way a drive is cut short (error, time
out, dead router); the call that was under way joins `late` and may be executed later
(`ExecuteLate`) or never. `PointWrite` is another client's write of the row a slice
uses. A shard holds one row, present or absent; a slice is a sequence of creates,
updates and deletes, and fails where the state machine would. `stale` records verdicts
given before their shard's turn or followed by a write.

### Cluster

`SendSession`, `SendRaw` and `Resend` hand a statement to a node's engine, with the
key each path computes; `Submit` is the engine's admission (redirect, accept as
primary, relay as backup), `Route` the answers to continuations, `FollowUp` the second
half of an UPDATE or UPDATE ... WHERE, `RelayArrive` a backup's relay. `Commit`,
`CatchUp`, `StartViewChange`, `BeginView` and `JoinView` are replication at its
interface; a view begins with any committed-or-accepted prefix, so entries of a
deposed primary may survive or be lost. `users` records who used a key, `orphans` the
keys a node can no longer answer.

### Sharded

`Begin` routes an operation (`Route`): `Apply` on one shard, `Broadcast` of DDL shard by
shard, `CrossShardReject`, `SqlDdl`, the serial scan `WalkShard`, or the pool:
`SendItem`, `Recv`, `Work`, `Reply`, `Collect`, `TimeOut`. An item carries the call it
belongs to, so late replies of a call that timed out meet the next call. `ReadOnlyOp` is
what one engine answers; `MergeScanResults` combines the shards' answers as
`scatter_scan.rs` does (LIMIT, ORDER BY with OFFSET, id unions, the numeric folds,
groups); AVG over several shards is refused, by the code and by the model. `seen` (in
`call`) collects the contents of each shard during the call, which the reference
definition quantifies over.

## 3. Runs

| Run | Instance | Shows |
|---|---|---|
| `vsr_stable_view` | 3 replicas, 2 clients, 2 log entries, view 0, redelivery | `NumberedLogs`, `ReplyBacked`; VSR implements `ReplicatedLog` in a stable view |
| `vsr_view_change` | 3 replicas, 2 clients with one request each at different primaries, views 0-1, redelivery, 18 different packets | `ViewDiscipline`, `StalledLacksQuorum`, `SafeUnlessMisinstalled`, `Durable` |
| `vsr_requests_complete` | replicas 0 and 1 never crash, 1 request, redelivery | `RequestsComplete`, `BackupsCatchUp` |
| `vsr_view_change_completes` | replicas 1 and 2 never crash, views 0-1 | `ViewChangeCompletes` |
| `storage_crash` | 2 keys (one versioned), sync per commit or per group, 3 WAL frames, 1 SSTable, 2 stops anywhere | `Openable`; Storage implements `DurableMap` |
| `storage_faults` | 3 SSTables, compaction at 2, partial tails, torn frames, torn manifests, 1 stop | `CursorCovers`, `UndamagedReadsSame`, `CompactionInvisible` |
| `engine_group_commit` | 3 callers, 2 admitted, batches of 2, one call each, 1 restart, all kinds | `DurableUnlessSkipped`, `ShownDurable`, `InflightBounded`, `CallsReturn` |
| `mvcc_transactions` | 2 rows, 3 transactions, 4 operations, one replica's report, window of 2, 1 restart | `FirstCommitterWins`, `PivotSeen`, `FreshSnapshots`, `ReadsRepeat` |
| `rows_constraints` | a serial parent, a child with a CASCADE foreign key and, after ADD COLUMN, one to its own table; 1 and 2 rows, batches of up to 3, 2 events (below) | `IndexExact`, `UniqueHolds`, `NoDangling`, `CacheCoherent`, `SerialNeverReused`, `CascadeOnlyReferrers` |
| `cross_shard_recovery` | 3 shards, 2 transactions with a row in common, one submitted twice, 2 routers, 1 fault or foreign write | `OneDecision`, `AnswerHonest`, `AppliedOnce`, `BlockedOnlyIfStale`, `RecoverCompletes` |
| `cluster_statements` | 2 nodes, a session's operation, an UPDATE and an UPDATE ... WHERE, one retry, 1 view change | `AnsweredOwn`, `NoLostWakeup`, `UpdatesKept` |
| `sharded_scatter` | 2 shards, 3 rows, 2 callers with 2 and 1 calls, 2 pool threads, a queue of 1 | `AsIfUnsharded`, `CatalogsAgree`, `CallsReturn` |

Several of these properties name an exception (`SafeUnlessMisinstalled`,
`DurableUnlessSkipped`, `BlockedOnlyIfStale`, the rows in `cut` and `shadowed`, the
requests in `recovered`, `Undamaged`, `OwnKeys`, `MergeDeparts`, `apart`). Each
exception is a way the code really goes wrong, shown by a configuration of section 5 or
described there; the property says that there is no other in the instance.

`TypeOK` of each module is not part of the runs: it is proved for `VSR`, `Engine`,
`Mvcc`, `Storage`, `Cluster` and `Sharded`, and for the others an `INVARIANT TypeOK`
line added to the configuration checks it (it holds in all of them).

Why the bounds are enough to meet the interesting cases:

* Three replicas are the smallest cluster in which a quorum misses a replica. Two log
  entries allow a gap, a late `Prepare` and a `NewState` that overlaps the log. One
  view change already has a primary that missed what the old one committed; two
  clients, one at each primary, make the two views propose different operations for
  one position. In `vsr_view_change` the constraint `Quiet` stops at a misinstalled
  log, behind which two of the properties say nothing. `ViewDiscipline`
  and `StalledLacksQuorum` are checked up to that point.
  Replicas 1 and 2 have timers, so replica 0 may stay behind in view 0 and join by state
  transfer. `SmallNetwork` stops after 18 different packets; a commit in view 0 takes 5
  and the change to view 1 about 10. `vsr_requests_complete` is small (244 states)
  because one request in one view is all that liveness needs: the property is about
  lost and repeated packets, not about data.
* Two keys, one of them versioned, tell the two treatments of tombstones apart and
  allow a transaction that is cut in two. In `storage_crash` three WAL frames are what
  it takes for a synced write of one key, an unsynced write of another and an unsynced
  write over the first, which a flush cut short mixes; one operation number suffices,
  since an operation may write several entries and only the order of the frames
  decides what is read. In `storage_faults` a third SSTable is where the result of a
  compaction goes. `ShortTombstone` makes the length of a file depend on its contents,
  `SameSize` does not. `MaxStops = 2` allows a crash in any step and another after the
  recovery.
* Three callers against a limit of two make one call be shed; batches of two against
  three callers leave one in the queue when a batch ends; one restart after any step
  gives the replay guard something to swallow.
* Three transactions are what a dangerous structure takes, four operations leave one
  for an auto-commit write or a watermark between them; `MaxAge = 2` makes the window
  drop a record that is still needed. Rows and transactions are interchangeable, so
  the run uses symmetry.
* A cascade of two levels, RESTRICT below a CASCADE and SET NULL need a table that
  references itself; a cache of one entry evicts on every other read. A batch of three
  is the shortest whose last member is above the next operation's number. `MaxEvents`
  counts a schema change of an existing table as one, an operation with a write nobody
  sees as one, and one cut by a crash as two: with two, a shadowed write meets a schema
  change or another shadowed write, around any row operations (110 179 states).
  The parent has one row, id 1; id 0, whose bytes a NULL has, is a row of the child
  table, which its own second column references. One serial id can be handed out
  (`SerialMax = 1`), so the next `Create` meets the refusal; ids are used again by
  explicit inserts.
* Three shards let each transaction skip one, so participants differ (`MaxSeq` bounds
  the sequencer's log; a transaction that is in it already needs no room); the shared row
  makes a verdict depend on the order; one fault at any call covers every place a
  router can die; a second router drives what the first left.
* Two nodes and one view change are enough for a deposed primary with accepted
  entries; one statement of each kind with one retry lets all continuations meet.
  (A larger instance of 6.7 million states has also been checked.)
* A queue of one fills with the first item, so the second `SendItem` blocks behind
  another caller's; three rows on two shards leave one shard empty in one of the
  tables; the second call of a caller meets late replies of its first.

Deadlock is checked in the VSR runs. Everywhere else the bounds make the system stop
(calls, operations or attempts are used up), and in `storage_faults` a crash may leave
an SSTable that `open` refuses, after which the database stays closed.

Fairness, always weak, and only for steps that stay enabled until they are taken:

* `VSR!Fairness`: for a replica that never crashes, packets addressed to it
  are handled (the engine thread drains its channel; a packet that is resent for ever
  arrives) and its timer runs heartbeats and retries. Nothing obliges a client to
  submit, a timeout to fire, or another replica to do anything. In
  `vsr_requests_complete` one backup need not run at all.
* `Engine!Fairness`: the engine thread runs, and a caller's thread inside a call runs;
  nothing obliges a caller to call or the process to restart.
* `CrossShard!FairSpec`: the thread of a drive runs on, and so does a `recover` that was
  called. Nothing assumes that it is called: the documentation asks for it once after a
  router restart, and in the repository only tests call it (router.rs 1905, 1995), so a
  drive that an error cuts on a live router is never driven again. `RecoverCompletes`
  says what one call achieves when it meets no fault.
* `Sharded!FairSpec`: pool threads and callers inside a call run. A deadline need not
  pass: `CallsReturn` does not owe its truth to `TimeOut`.
* `Mvcc`, `Rows`, `Cluster` and `Storage` state no liveness and need no fairness. A
  cluster node does not promise an answer (section 5).

Each property of a run has a mutant: an operator next to the original
definition (marked `Mutant` in the module) that TLC must find out.

## 4. Proofs

Proved for every number of replicas, clients, callers, shards, routers, rows and keys
and for every bound. The constants are only assumed to be of the kind the modules'
`ASSUME`s say (`NAssumption`, `BoundsAssumption`, `EngineBounds`, `StorageBounds`,
`CrossShardAssumption`, ...), which TLC evaluates in the runs.

**VSR** (`VSRProofs`). No theorem limits losses, repetitions or the
order of messages.

* `TypeCorrect`: `TypeOK` is inductive by itself; the work is in `apply_through` (that
  the commit number it ends with is a position of the log it applies) and in the logs
  that travel in messages.
* `ViewsDisciplined`, `StalledViewChange`: `ViewInv` adds to `ViewDiscipline` that no
  replica holds a quorum of `DoViewChange`s for a view it has still to begin as its
  primary. Every handler is shown to be a `ViewStep` of its replica, which keeps it.
* `RepliesBacked`: `ReplyInv` says besides that a replica has applied exactly up to its
  commit number, and that what its client table remembers it has applied.
* `LogsNumbered`: `NumberInv` extends the numbering to everything in transit. A
  `NewState` suffix is only numbered from 1 if its receiver is behind that view, so the
  invariant relates packets to `normal_view` of their destination.
* `Safe`, `DurableCommits`: from `SafetyCorrect`, whose invariant `SafetyInv` holds as
  long as no log was misinstalled. Every log in the system, in a replica, a
  `DoViewChange`, a `StartView` or a `NewState`, is the log of a view. A view has one
  entry per op number and its primary has it (`OneEntry`, `KnownToPrimary`); a later
  view's log goes on from the best log of a quorum of `DoViewChange`s, which its
  primary still keeps (`Elected`); an acknowledgement binds its sender, and every
  `DoViewChange` it sends later (`Acknowledged`). So an entry that a quorum has
  acknowledged in view u is `Locked`: it is in the log of every later view, because two
  quorums meet. Every commit number and all that was applied is locked
  (`CommitsLocked`, `AppliedLocked`). The two properties follow, again by quorum
  intersection.
* `ImplementsUnlessMisinstalled`, `ImplementsInOneView`: the refinement of
  `ReplicatedLog`, the abstract sequence being what the replica that has applied most
  has applied. The first has the premise that no log is ever misinstalled (with one,
  the refinement fails, section 5). The second has none: with `MaxView = 0`, the
  instance of `vsr_stable_view` for any number of replicas, nothing can be
  misinstalled.

**Storage** (`StorageProofs`).

* With all faults (torn manifests, partial and torn WAL tails, compaction):
  `TypeCorrect`; `OpenFindsFiles` and `CursorHolds` from `FileInv` (the manifest on
  disk, and the one in memory, name files with numbers below the next one that are
  intact or reused and whose operations the cursor covers; the two manifests agree
  unless the one on disk cannot be read, or compaction has just replaced it); and
  `CompactionUnseen` from `TableInv` (what a flush or compaction under way has written
  is what it was to write) and the lemmas on merging tables (`MergedAppend`,
  `LastHides`, `RetainInvisible`).
* `UndamagedSame`, with all faults too: whenever the manifest can be read and no torn
  frame stands in the WAL, a reopened engine reads what the running one did. `ReadInv`
  says that the memtable is the table of the WAL's frames as long as none is torn, that
  a manifest that can be read is the engine's own, and that the tables in memory and
  those the manifest names differ at most where the memtable hides it (`Alike`), which
  happens after a flush that could not open its file. A crash in the middle of a flush
  or a compaction, or of a batch of frames, is covered; only damaged files are not, and
  with those the property fails (section 5).

The refinement of `DurableMap` is only model-checked, in an instance without compaction,
torn manifests and partial tails. `StateMachine::open` sets the threshold of compaction
to 8 (`kessel-sm` 260), so the product does compact, and then the refinement fails: the
manifest shrinks (`Storage_manifest_tail`).

**Mvcc** (`MvccProofs`).

* `TypesCorrect` and `FreshSnapshotsServed`, from `CursorInv`: the highest watermark ever
  applied, the target the heartbeat has read and not yet applied, and the snapshots of
  open transactions are at or below the cursor, where a transaction that begins takes its
  snapshot. A restart empties the watermark and keeps the cursor, which is why the
  highest one is needed.
* `ReadsStayTheSame`: an action property, from the same invariant.
* `FirstCommitterWon`: `CommitInv` says that commit numbers are distinct and that every
  version a commit made is still there: one that is collected leaves a tombstone in
  its place.
* `PivotsRefused`: `WindowInv` says that the record of every tracked transaction above
  the horizon is in the window, with the tags of every later overlapping commit.

**CrossShard** (`CrossShardProofs`). A stored verdict never changes (`Grows`), so the
verdicts of all participants, once stored, are a decision. `Inv` says that every
decision in use, in a drive, in a call given up on, in an outcome or in an answer, is
backed by stored verdicts: all yes, or one no. `DecidedOnce`, `AnswersHold`,
`SessionsOnce` and `TurnsHold` follow. The type of `row` is not proved, since what a
slice leaves is a fold; the invariant only needs that a slice that succeeds does not
leave the failed row.

**Cluster** (`ClusterProofs`): `ClusterTypes`, `NobodyWaitsInVain`, `AnswersOwn`,
`UpdatesAreKept`. A
handler of the engine thread computes on one record, so the invariant is about such a
record and a log, and each operator (`Insert`, `Accept`, `Answer`, `FollowUp`, `Route`,
`Request`, `Redirect`, `Submit`) is shown to keep it.

* `EngineOK`: an entry, wherever it is (accepted, relayed or committed), and a
  continuation are of a statement that used their key and of the kind their key says:
  an internal key is for the second half, any other for the first operation. A node has
  one continuation per key, and clients were told the truth. Then a result whose kind
  does not fit its continuation shows that another statement used the key (`Truth`),
  which is all that `AnsweredOwn` allows to go wrong.
* `Awake`, with one key of one node as its exception: inside a handler exactly the key
  that is being submitted or answered may be awaited by nobody. It is stronger than
  `NoLostWakeup`: an entry in `accepted` or in the log counts only on an active
  primary, since only that one will answer. Without this the step in which a backup
  applies an entry would lose a wake-up.

* `FreshInv`, for `UpdatesAreKept`: every UPDATE that is committed, accepted, relayed or
  about to be submitted writes back the row as some prefix of the log made it, and a
  committed one's prefix ends before its own place (`ReadBefore`). From this alone the
  property follows by complete induction over the prefixes of the log (`ColumnStep`):
  an assignment sets its column; an UPDATE gives every other column the value it had
  where the UPDATE read, which is the last assignment's unless that was later.
* The row is a left fold over the log. Its two equations (`RowSteps`) are derived from
  the fold's definition in `NumberFacts`: the iteration over sets of positions exists
  (`IterExists`), and two folds that take the same steps give the same row
  (`SameTrace`), so a longer log has the rows of its prefixes (`RowsStay`).

**Sharded** (`ShardedProofs`), for any number of shards, rows, callers and pool threads.
`RequestsAssumption` says that callers issue operations of the kinds the dispatcher
routes. `Inv` is about a call, the work items and the catalogs:

* `CallOK`: a call in progress has noted the present rows of every shard, what it has
  gathered are the answers of the first shards, in order, each of rows its shard had
  during the call, and a call that returned is the merge of one answer of each
  (`Answered`). `ItemOK`: a work item, queued or on a pool thread, is of a call that
  began; if it is of the call in progress, its reply is an answer of its shard to that
  call. So a late reply finds either its own call or nobody. `ScansAreGathered` follows:
  the slices the answers are of fit together to one table (`Mixed`).
* `Even`: while no broadcast overlapped another, no shard shed one and no DDL came as
  SQL, one call at most is creating a type; the shards it has visited have one type
  more than the last shard, the others the same, and it remembers the number shard 0
  gave. `CatalogsStayEven` and, with the shapes, `ShardedTypes` follow.

`ScansAreGathered` is the half of `AsIfUnsharded` that belongs to the protocol. The
other half, that the merge of the shards' answers is the answer of one engine, is about
sorting, sums and concatenation and stays with TLC.

**Engine** (`EngineProofs`).

* `TypeCorrect` and `AdmissionBounded`: the invariant is
  `Inv == TypeOK /\ Held /\ Counted /\ OpsBounded`. `Counted` says that the in-flight
  counter is the number of callers inside a call, shed ones included, so a caller that
  reads it below the limit is one more than at most `MaxInflight - 1` admitted ones, and
  it never falls below zero. `Held` places every queued or computed request with a
  waiting caller, which keeps the engine thread from answering somebody who is not in
  a call. `OpsBounded` gives recovery a maximum to take.
* `ShownStaysDurable` and `AckedStaysDurable`, under `SyncMayFail = FALSE`: the
  strengthening is `DurInv`, inductive relative to `Inv`: outside a batch every effect
  in the WAL is durable or was replayed from frames no sync covers (`recovered`), which
  is what lets a read take the bypass; inside one, what a queued read was shown, and
  what a write has done, is in the WAL or an SSTable.
  `ComputeGrows` is the heart: no step of the engine thread, the snapshot's flush
  included, loses an effect or a durable effect.

Only model-checked: `ImplementsDurableMap`; liveness (`RequestsComplete`, `BackupsCatchUp`,
`ViewChangeCompletes`, `RecoverCompletes`, both `CallsReturn`), which is out of the
prover's reach; the merges of `Sharded` (`AsIfUnsharded` as a whole), which need
induction over data; and `Rows`, whose index maintenance, cache and cascades are written
with `SelectSeq` and folds over its results: the prover knows no fact about `SelectSeq`,
not even that it returns a sequence.

## 5. Where code and documentation disagree

These configurations are run by hand and end in a violation; TLC's trace is the
explanation.

| Configuration (module) | Violates | The code |
|---|---|---|
| `VSR_committed_op_loss` (MCVSR) | `Agreement` | a future primary pushes its own `DoViewChange` every time `maybe_finish_svc` (`kessel-vsr` 725) runs with a quorum of votes, and the quorum (738) counts entries of the list, not replicas: its own log alone can become the log of the view. The repository's README promises no committed-op loss across a view change. `SafeUnlessMisinstalled` and `Durable` show that this, and a log cut within its view, are the only ways in the instance |
| `VSR_exactly_once` (MCVSR) | `ExactlyOnce` | a retry is recognised by the client table, which is filled at commit (`kessel-vsr` 550): one that comes between append and commit is appended again |
| `Storage_manifest_tail` (MCStorage) | `ReopenReadsSame` | the manifest after a compaction is shorter than the one it overwrites, and the file is not truncated (`kessel-storage` 497): a reopen finds no valid manifest |
| `Engine_restart` (MCEngine) | `AckedDurable` | operation numbers start at 1 again (`kesseldb-server` 1418) while the state machine skips what is not above the recovered cursor. `DurableUnlessSkipped` shows that nothing else loses an acknowledged write |
| `Mvcc_serializable` (MCMvcc) | `Serializable` | the record of a committed transaction enters the window with both rw tags false (`kessel-sm` 7361-7369), so edges found at its own commit are forgotten, and a pivot that commits first or last is not seen; `ssi.rs` and `tx.rs` speak of serializability. `PivotSeen` says what is refused |
| `Mvcc_txn_versions` (MCMvcc) | `AckedReadable` | member i of a Txn writes version op_number + i (`kessel-sm` 7014) although the Txn takes one log position, so a later acknowledged write of the row may get a lower version; `mvcc.rs` (about 133) says callers must not |
| `CrossShard_all_or_none` (MCCrossShard) | `AllOrNone` | `XshardDecide` judges the current state without looking at the cursor; a verdict given before the earlier numbers were passed may not hold when its turn comes, and the shard is stuck behind it while others have applied. `kessel-sm` (about 4727) says the transaction is all-or-none |
| `Cluster_shared_ids` (MCCluster) | `AnsweredExecuted` | node-local id counters start alike on every node (`cluster.rs` 486, 915-920), so the first statement on a second node is answered with another client's result and never executed; the documentation (about 262) says each call picks a fresh id |
| `Sharded_k_invariance` (MCSharded) | `KInvariant` | OFFSET is applied on each shard and again in the merge; MIN and MAX merge the 0 of a shard without matching rows. The comment says byte-identical to K = 1 |

What the passing runs leave out by a constant, because the property fails with it (set
the constant in the cfg named to see the trace):

| Change | Fails | Reason |
|---|---|---|
| `PartialTail = TRUE` in `Storage_crash` | `ImplementsDurableMap` | `Wal::open` (183) continues behind a torn frame, where replay does not look; `commit_txn` (627) writes a frame per key, so a partial tail keeps part of a batch, which line 614 excludes |
| `TornManifest = TRUE`, `MaxSst = 2` in `Storage_crash` | `ImplementsDurableMap` | a torn manifest counts as none (461); what was flushed before is in no WAL any more |
| `Openable` without its exception for `reused` names, in `Storage_crash` | it | a crash after step 1 of `flush`, or between SSTable and manifest of a group, leaves a file (263) whose name is used again for a shorter table; `Openable` excepts exactly these names |
| `DurableMap` without its action `Persist`, in `Storage_crash` | `ImplementsDurableMap` | `flush` (818-836) does not sync the WAL first. In group commit a snapshot flushes in the middle of a batch (`kesseldb-server` 1461); a crash between manifest and WAL reset then replays the synced beginning of the WAL over an SSTable with later writes, and the map is of no moment: one key has the value of the last sync, another a later one. The comment (`kesseldb-server` 1424) says a not-yet-synced op is simply un-acked. What was synced is not lost |
| `SyncMayFail = TRUE` in `Engine_group_commit` | `DurableUnlessSkipped`, `ShownDurable` | the result of the batch's sync is ignored (1924) |

Further places where the model follows the code and a reader of the documentation
would expect otherwise:

* `CursorCovers` is about commits outside a transaction: `commit_txn` (615) does not
  advance `high_op`, so operations of transactions may lie above the cursor a flush
  persists, against the comment at line 433.
* Engine: what a read shows after the process alone was restarted may be lost by a power
  failure, since nothing syncs a replayed WAL (`recovered` in `ShownDurable`).
* Mvcc: no client's snapshot is registered, so the watermark passes open transactions,
  and `CommitTx` does not look at it; `ReportActiveSnapshot` has no producer; collection
  deletes the newest version of a row when it is below the watermark,
  although a snapshot above still sees it (`ReadsRepeat` excepts these); the window and
  the watermark are empty after a restart; the heartbeat is not started outside tests;
  the report of a dead replica pins the watermark; handles of overflow values of two
  members of one Txn may collide (333-375).
* Cluster: continuations of a deposed primary are never answered (`orphans`); the
  write of an UPDATE whose node has become a backup is relayed but not redirected; an
  UPDATE writes back the whole record it read and so loses an assignment committed in
  between (`UpdatesKept` says that nothing else does).
* CrossShard: `SeqAppendOnce` is three puts (`kessel-sm` 4639) that a crash can part;
  the model takes it as one step, as replication replays it on the other replicas.
* Rows: the read cache keeps rows of a dropped table or column (272-275 say every
  write invalidates); dropping the index of a foreign key leaves children behind when
  the parent goes (5435-5504); SET NULL of a record older than the column zeroes its
  bytes without a null bit (5289-5306); AddForeignKey does not look at such records;
  deleting id 0 takes children whose reference is NULL; DropField widens short records
  without indexing them (5594); AddUnique leaves the index when it fails; a crash
  between the row and its index entries leaves it unindexed for good; an explicit id
  equal to the next serial id makes inserts fail. After a Txn of three members or more
  the next writes of its last rows may be shadowed: the row's index entry names no row
  or another value, a second row takes a UNIQUE value, a child survives its parent, the
  cache shows what storage does not (`IndexExact`, `UniqueHolds`, `NoDangling` and
  `CacheCoherent` fail without their exception for `shadowed`). A crash inside the
  commit of a Delete or a Txn keeps the frames of its first keys.
* Sharded: the comment on the broadcast says the first error is returned, the code
  returns shard 0's answer; no lock orders concurrent DDL, and a shard may shed one
  (`apart`); SQL text, DDL included, runs on shard 0 only; UNIQUE and foreign keys are
  checked within a shard.

## 6. Not modelled

The map covers the parts that keep state across calls or run concurrently. Most of
the repository's 159 000 lines are elsewhere: SQL parsing and planning, PostgreSQL
catalog synthesis and wire formats, Parquet, HTTP, cryptography, and tests that live
inside the source files (more than half of `kessel-sm/src/lib.rs` and
`scatter_scan.rs`). They are sequential functions over bytes and text, whose inputs a
model checker cannot enumerate in an interesting range and which the repository checks
with vectors and oracles. A map of 30 % of all lines is therefore out of reach without
transcribing parsers.

* Restart of a VSR replica: the code starts it with an empty log in view 0; the
  protocol describes itself as crash-stop.
* Write and read errors of the disk other than the batch's sync; checksum collisions.
* Rows: overflow blobs, NOT NULL, CHECK, triggers, SET DEFAULT values, the budget of a
  cascade, column names.
* Router: the DDL broadcast to shard groups (654-674), scatter reads, sockets.
* Cluster: admin frames, accept loops, the catalog lookup of SQL compilation.
* Sharded: several aggregates per group, HAVING and ORDER BY on groups (evaluated per
  shard), the catalog lookup before a sorted scan, the thread-per-call path, shutdown
  of the pool, the prototype `sharded_sm`.
* The read pool, the gateways, decoders, encoders, the WASM interpreter.
* `kessel-sim` and the benchmarks drive the code; TLC takes their place here.

## 7. Plan

Modelling follows the order of importance and is done for the parts that keep state.
The replication, storage, transaction, engine, cross-shard, cluster and sharded modules
have proofs of the safety properties their runs check, but for the merges. What remains:

1. `Sharded`: what each merge computes, for lists of any length.
2. `Storage` with compaction: a weaker `DurableMap` that allows for a manifest that
   cannot be read and a batch cut in two, and its refinement.
3. `Rows`: facts about `SelectSeq`, and from them `IndexExact`.
