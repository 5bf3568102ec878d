------------------------------ MODULE Storage ------------------------------
(***************************************************************************)
(* The storage engine of crates/kessel-storage/src/lib.rs: a memtable over *)
(* a write-ahead log, immutable SSTables named by a MANIFEST, transactions *)
(* buffered in an overlay, flush, compaction, crash and recovery.          *)
(*                                                                         *)
(* One thread owns the engine (&mut self), so an operation is interrupted  *)
(* by nothing but a crash; flush, compact and commit_txn are split at the  *)
(* points where a crash finds the disk in a state of its own.              *)
(*                                                                         *)
(* A table maps each key to a value, to None (a tombstone) or to Absent.   *)
(* Bytes are abstracted to what recovery looks at: a WAL frame is intact   *)
(* or Torn, an SSTable or manifest file is as long as the longest contents *)
(* ever written to it (write_at(0, ..) never truncates a file) and passes  *)
(* its checksum only when it is exactly as long as its last contents.      *)
(***************************************************************************)
EXTENDS Integers, Sequences, FiniteSets, FiniteSetsExt, SequencesExt

CONSTANTS
    Keys,           \* integers, in the order of the encoded keys
    Versioned,      \* the 28-byte MVCC keys among them
    Values,
    Size,           \* Size[v]: encoded length of an SSTable entry with value v
    Threshold,      \* compact_threshold (0 = off)
    Autosync,       \* the modes: FALSE is group commit, only sync() makes writes durable
    MaxOp,          \* bound: operation numbers
    MaxFrames,      \* bound: frames of the WAL
    MaxSst,         \* bound: SSTable files
    MaxStops,       \* bound: how often the engine stops
    Stops,          \* how it stops: a "crash" of the machine, an "exit"
    PartialTail,    \* a crash may keep part of the unsynced WAL tail
    TornManifest    \* a crash may leave a manifest half written

None == "None"
Absent == "Absent"
Slots == Values \cup {None, Absent}
Tables == [Keys -> Slots]
Names == 0..(MaxSst - 1)

ASSUME KeysAssumption == Keys \subseteq Int /\ IsFiniteSet(Keys) /\ Versioned \subseteq Keys
ASSUME ValuesAssumption == None \notin Values /\ Absent \notin Values
ASSUME StorageBounds ==
    /\ Size \in [Values \cup {None} -> Nat \ {0}]
    /\ {Threshold, MaxOp, MaxFrames, MaxSst, MaxStops} \subseteq Nat
    /\ Stops \subseteq {"crash", "exit"}
    /\ Autosync \subseteq BOOLEAN /\ {PartialTail, TornManifest} \subseteq BOOLEAN

VARIABLES
    wal, synced,    \* frames of the WAL file; how many a crash must keep
    man,            \* the MANIFEST file
    ssts,           \* the SSTable files
    up,             \* is the engine open?
    autosync,       \* set_autosync, called by the owner right after open
    memtable, sstables, manifest, high_op,
    txn,            \* the overlay, or NoTxn
    step,           \* where flush, compact or commit_txn is
    mem_top,        \* history: the highest op number of a commit in memtable
    last_op,        \* the highest op number used so far
    stops

disk == <<wal, synced, man, ssts>>
memory == <<memtable, sstables, manifest, high_op, txn, mem_top>>
vars == <<disk, up, autosync, memory, step, last_op, stops>>

----------------------------------------------------------------------------
(* Files *)

Torn == [op |-> 0, key |-> 0, val |-> Absent]
Frame(op, k, v) == [op |-> op, key |-> k, val |-> v]

\* Wal::replay: every frame before the first one that is short or corrupt.
Replayed(w) ==
    LET bad == {i \in DOMAIN w : w[i] = Torn}
    IN  IF bad = {} THEN w ELSE SubSeq(w, 1, Min(bad) - 1)

NoTable == [k \in Keys |-> Absent]

\* Mutant: the first write of a key wins.
FirstWins(w) ==
    [k \in Keys |->
        LET own == {i \in DOMAIN w : w[i].key = k}
        IN  IF own = {} THEN Absent ELSE w[Min(own)].val]

\* The table that inserting the frames of w one after the other yields.
TableOf(w) ==
    [k \in Keys |->
        LET own == {i \in DOMAIN w : w[i].key = k}
        IN  IF own = {} THEN Absent ELSE w[Max(own)].val]

TopOf(w) == Max({0} \cup {w[i].op : i \in DOMAIN w})

\* The newest of a sequence of tables (oldest first) that has the key decides:
\* get searches from the newest, scans and compact insert from the oldest.
Newest(ts, k) ==
    LET having == {i \in DOMAIN ts : ts[i][k] # Absent}
    IN  IF having = {} THEN Absent ELSE ts[Max(having)][k]

Merged(ts) == [k \in Keys |-> Newest(ts, k)]

\* Table t over table base.
Over(base, t) == [k \in Keys |-> LET v == t[k] IN IF v = Absent THEN base[k] ELSE v]

\* What a reader makes of a slot: a tombstone of an unversioned key is no
\* value, one of a versioned key is a version like any other.
Seen(t) ==
    [k \in Keys |-> LET v == t[k] IN IF v = None /\ k \notin Versioned THEN Absent ELSE v]

\* The bytes of the entries of a table, a number each within its entry.
Bytes(t) == UNION {{k} \X (1..Size[t[k]]) : k \in {k \in Keys : t[k] # Absent}}

FileSize(t) == 1 + Cardinality(Bytes(t))

\* Mutant: the last entry does not reach the file.
WrittenShort(f, t, top) ==
    [table |-> t, top |-> top, len |-> Max({f.len, FileSize(t) - 1}), reused |-> f.len > 0]

\* write_sstable: the contents, the length the file has afterwards, and whether
\* an interrupted flush had left a file of that name (history).
Written(f, t, top) ==
    [table |-> t, top |-> top, len |-> Max({f.len, FileSize(t)}), reused |-> f.len > 0]

NoFile == [table |-> NoTable, top |-> 0, len |-> 0, reused |-> FALSE]

\* SsTable::open succeeds: magic and checksum are where the length says.
Opens(f) == f.len = FileSize(f.table)

DefaultManifest == [sstables |-> <<>>, next_sst |-> 0, high_op |-> 0]

\* read_manifest: anything that fails a check counts as no manifest.
read_manifest(f) ==
    IF f.ok /\ f.len = Len(f.m.sstables) THEN f.m ELSE DefaultManifest

\* write_manifest; a name is as long as any other, so the number of SSTables
\* stands for the length.
write_manifest(m) ==
    man' = [m |-> m, len |-> Max({man.len, Len(m.sstables)}), ok |-> TRUE]

\* Every SSTable that manifest m names opens.
AllOpen(m) == \A n \in Range(m.sstables) : Opens(ssts[n])

TablesOf(m) == [i \in DOMAIN m.sstables |-> ssts[m.sstables[i]].table]

NoTxn == [op |-> 0, table |-> NoTable]

Init ==
    /\ wal = <<>> /\ synced = 0
    /\ man = [m |-> DefaultManifest, len |-> 0, ok |-> TRUE]
    /\ ssts = [n \in Names |-> NoFile]
    /\ up = TRUE /\ autosync \in Autosync
    /\ memtable = NoTable /\ mem_top = 0
    /\ sstables = <<>> /\ manifest = DefaultManifest
    /\ high_op = 0
    /\ txn = NoTxn
    /\ step = "idle"
    /\ last_op = 0
    /\ stops = 0

----------------------------------------------------------------------------
(* Writes and transactions *)

Idle == up /\ step = "idle"

\* How much of WAL w is durable once commit returns.
SyncedAfterCommit(w) == IF autosync THEN Len(w) ELSE synced

\* put, delete and put_entry_versioned: commit of operation n, which may write
\* several entries one after the other.
Commit(n, k, v) ==
    /\ Idle
    /\ n <= MaxOp
    /\ last_op' = n
    /\ \/ /\ txn # NoTxn /\ n = txn.op               \* buffered
          /\ txn' = [txn EXCEPT !.table[k] = v]
          /\ UNCHANGED <<disk, memtable, sstables, manifest, high_op, mem_top>>
       \/ /\ txn = NoTxn /\ n \in last_op .. last_op + 1 /\ n > 0
          /\ Len(wal) < MaxFrames
          /\ wal' = Append(wal, Frame(n, k, v))
          /\ synced' = SyncedAfterCommit(wal')
          /\ memtable' = [memtable EXCEPT ![k] = v]
          /\ high_op' = Max({high_op, n})
          /\ mem_top' = Max({mem_top, n})
          /\ UNCHANGED <<man, ssts, sstables, manifest, txn>>
    /\ UNCHANGED <<up, step, stops>>

\* sync
Sync ==
    /\ Idle /\ ~ autosync
    /\ synced' = Len(wal)
    /\ UNCHANGED <<wal, man, ssts, up, memory, step, last_op, stops>>

\* begin_txn; the state machine only begins one when it is not in one.
BeginTxn ==
    /\ Idle /\ txn = NoTxn
    /\ txn' = [op |-> last_op + 1, table |-> NoTable]
    /\ UNCHANGED <<disk, up, memtable, sstables, manifest, high_op, mem_top, step, last_op,
                   stops>>

AbortTxn ==
    /\ Idle /\ txn # NoTxn
    /\ txn' = NoTxn
    /\ UNCHANGED <<disk, up, memtable, sstables, manifest, high_op, mem_top, step, last_op,
                   stops>>

\* The keys of a set in the order of the overlay, a BTreeMap.
InOrder(S) ==
    CHOOSE q \in [1..Cardinality(S) -> S] : \A i, j \in DOMAIN q : i < j => q[i] < q[j]

\* commit_txn: a frame per buffered key, in key order ...
AppendTxn ==
    LET order == InOrder({k \in Keys : txn.table[k] # Absent})
    IN  /\ Idle /\ txn # NoTxn
        /\ Len(wal) + Len(order) <= MaxFrames
        /\ wal' = wal \o [i \in DOMAIN order |-> Frame(txn.op, order[i], txn.table[order[i]])]
        /\ step' = "commit_txn"
        /\ UNCHANGED <<synced, man, ssts, up, memory, last_op, stops>>

\* ... one sync, and then the writes become visible; high_op stays as it is.
SyncTxn ==
    /\ up /\ step = "commit_txn"
    /\ synced' = Len(wal)
    /\ memtable' = Over(memtable, txn.table)
    /\ txn' = NoTxn
    /\ step' = "idle"
    /\ UNCHANGED <<wal, man, ssts, up, sstables, manifest, high_op, mem_top, last_op, stops>>

----------------------------------------------------------------------------
(* Flush and compaction *)

\* Mutant: the WAL is reset first.
ResetThenWrite ==
    /\ Idle /\ memtable # NoTable
    /\ manifest.next_sst < MaxSst
    /\ ssts' = [ssts EXCEPT ![manifest.next_sst] = Written(@, memtable, mem_top)]
    /\ wal' = <<>> /\ synced' = 0
    /\ step' = "flush_manifest"
    /\ UNCHANGED <<man, up, memory, last_op, stops>>

\* flush, 1: the SSTable is durable.
WriteSsTable ==
    /\ Idle /\ memtable # NoTable
    /\ manifest.next_sst < MaxSst
    /\ ssts' = [ssts EXCEPT ![manifest.next_sst] = Written(@, memtable, mem_top)]
    /\ step' = "flush_manifest"
    /\ UNCHANGED <<wal, synced, man, up, memory, last_op, stops>>

\* Mutant: the cursor of the last flush is kept.
CursorKept == manifest.high_op

Cursor == Max({high_op, manifest.high_op})

\* flush, 2: the manifest is durable, and the new SSTable is opened; if that
\* fails flush returns the error, with the manifest already replaced.
FlushManifest ==
    LET name == manifest.next_sst
        next == [sstables |-> Append(manifest.sstables, name), next_sst |-> name + 1,
                 high_op |-> Cursor]
    IN  /\ up /\ step = "flush_manifest"
        /\ write_manifest(next)
        /\ manifest' = next
        /\ \/ /\ Opens(ssts[name])
              /\ sstables' = Append(sstables, ssts[name].table)
              /\ step' = "flush_reset"
           \/ /\ ~ Opens(ssts[name])
              /\ step' = "idle"
              /\ UNCHANGED sstables
        /\ UNCHANGED <<wal, synced, ssts, up, memtable, high_op, txn, mem_top, last_op, stops>>

\* flush, 3: the WAL is reset, and the segments are compacted if there are too
\* many of them.
ResetWal ==
    /\ up /\ step = "flush_reset"
    /\ wal' = <<>> /\ synced' = 0
    /\ memtable' = NoTable /\ mem_top' = 0
    /\ step' = IF Threshold > 0 /\ Len(sstables) >= Threshold THEN "compact" ELSE "idle"
    /\ UNCHANGED <<man, ssts, up, sstables, manifest, high_op, txn, last_op, stops>>

\* Mutant: drops the tombstones of versioned keys too.
RetainValues(t) == [k \in Keys |-> IF t[k] = None THEN Absent ELSE t[k]]

\* Tombstones are dropped, except those of versioned keys.
Retain(t) == [k \in Keys |-> IF t[k] = None /\ k \notin Versioned THEN Absent ELSE t[k]]

\* compact, 1: the merged SSTable is durable.
WriteMerged ==
    LET name == manifest.next_sst
        top == Max({0} \cup {ssts[n].top : n \in Range(manifest.sstables)})
    IN  /\ up /\ step = "compact"
        /\ Len(sstables) >= 2 /\ name < MaxSst
        /\ ssts' = [ssts EXCEPT ![name] = Written(@, Retain(Merged(sstables)), top)]
        /\ step' = "compact_manifest"
        /\ UNCHANGED <<wal, synced, man, up, memory, last_op, stops>>

\* compact with fewer than two segments, or at the bound on files.
SkipCompact ==
    /\ up /\ step = "compact"
    /\ Len(sstables) < 2 \/ manifest.next_sst >= MaxSst
    /\ step' = "idle"
    /\ UNCHANGED <<disk, up, memory, last_op, stops>>

\* compact, 2: the manifest names the merged SSTable only.
CompactManifest ==
    /\ up /\ step = "compact_manifest"
    /\ write_manifest([sstables |-> <<manifest.next_sst>>, next_sst |-> manifest.next_sst + 1,
                       high_op |-> Cursor])
    /\ step' = "compact_remove"
    /\ UNCHANGED <<wal, synced, ssts, up, memory, last_op, stops>>

\* compact, 3: the old SSTables are removed and the merged one is opened.
RemoveOld ==
    /\ up /\ step = "compact_remove"
    /\ ssts' = [n \in Names |-> IF n \in Range(manifest.sstables) THEN NoFile ELSE ssts[n]]
    /\ manifest' = man.m
    /\ sstables' = IF Opens(ssts'[manifest.next_sst]) THEN <<ssts'[manifest.next_sst].table>>
                   ELSE sstables
    /\ step' = "idle"
    /\ UNCHANGED <<wal, synced, man, up, memtable, high_op, txn, mem_top, last_op, stops>>

----------------------------------------------------------------------------
(* Crash and recovery *)

\* The engine is gone, wherever it was.
Stop ==
    /\ up /\ stops < MaxStops
    /\ up' = FALSE /\ stops' = stops + 1
    /\ memtable' = NoTable /\ mem_top' = 0 /\ sstables' = <<>>
    /\ manifest' = DefaultManifest /\ high_op' = 0
    /\ txn' = NoTxn /\ step' = "idle"
    /\ UNCHANGED last_op

\* A half-written manifest: no checksum matches.
TearManifest ==
    /\ TornManifest /\ step \in {"flush_manifest", "compact_manifest"}
    /\ man' = [man EXCEPT !.ok = FALSE]

\* The machine is gone: the unsynced part of the WAL is lost, or what is left
\* of it ends anywhere, also inside a frame.
Crash ==
    /\ "crash" \in Stops /\ Stop
    /\ \E kept \in IF PartialTail THEN synced .. Len(wal) ELSE {synced} :
          \/ wal' = SubSeq(wal, 1, kept)
          \/ PartialTail /\ kept < MaxFrames /\ wal' = Append(SubSeq(wal, 1, kept), Torn)
    /\ synced' = Len(wal')
    /\ TearManifest \/ UNCHANGED man
    /\ UNCHANGED ssts

\* Only the process is gone; the operating system keeps what was written.
Exit == "exit" \in Stops /\ Stop /\ UNCHANGED disk

\* Mutant: recovery does not read the WAL.
RecoverNothing(w) == <<>>

\* What Storage::open inserts into the memtable.
Recovered(w) == Replayed(w)

\* open.  The WAL goes on at the end of the file, whatever was replayed of it.
Open ==
    LET m == read_manifest(man)
        frames == Recovered(wal)
    IN  /\ ~ up
        /\ AllOpen(m)
        /\ up' = TRUE
        /\ manifest' = m /\ sstables' = TablesOf(m)
        /\ memtable' = TableOf(frames) /\ mem_top' = TopOf(frames)
        /\ high_op' = Max({m.high_op, TopOf(frames)})
        /\ txn' = NoTxn /\ step' = "idle"
        /\ UNCHANGED <<disk, last_op, stops>>

----------------------------------------------------------------------------

Next ==
    /\ \/ \E n \in 1..MaxOp, k \in Keys, v \in Values \cup {None} : Commit(n, k, v)
       \/ Sync \/ BeginTxn \/ AbortTxn \/ AppendTxn \/ SyncTxn
       \/ WriteSsTable \/ FlushManifest \/ ResetWal
       \/ WriteMerged \/ SkipCompact \/ CompactManifest \/ RemoveOld
       \/ Crash \/ Exit \/ Open
    /\ UNCHANGED autosync

Spec == Init /\ [][Next]_vars

----------------------------------------------------------------------------
(* Properties *)

SsTableFile == [table : Tables, top : Nat, len : Nat, reused : BOOLEAN]
Manifests == [sstables : Seq(Names), next_sst : 0..MaxSst, high_op : Nat]
Frames == [op : Nat, key : Keys, val : Values \cup {None}] \cup {Torn}

\* The type invariant of the files and of struct Storage.
TypeOK ==
    /\ wal \in Seq(Frames) /\ synced \in 0..Len(wal)
    /\ man \in [m : Manifests, len : Nat, ok : BOOLEAN]
    /\ ssts \in [Names -> SsTableFile]
    /\ up \in BOOLEAN /\ autosync \in Autosync
    /\ memtable \in Tables /\ mem_top \in Nat
    /\ sstables \in Seq(Tables)
    /\ manifest \in Manifests
    /\ high_op \in Nat
    /\ txn \in [op : Nat, table : Tables]
    /\ step \in {"idle", "commit_txn", "flush_manifest", "flush_reset", "compact",
                  "compact_manifest", "compact_remove"}
    /\ last_op \in 0..MaxOp
    /\ stops \in 0..MaxStops

\* What get and the scans read of the committed state.
View == Seen(Over(Merged(sstables), memtable))

\* What they would read after opening the files with WAL w.
OnDisk(w) ==
    LET flushed == Merged(TablesOf(read_manifest(man)))
        logged == TableOf(Replayed(w))
    IN  Seen(Over(flushed, logged))

\* A transaction takes effect when all its frames are appended.
Current == IF up /\ step # "commit_txn" THEN View ELSE OnDisk(wal)

\* How many frames of the WAL a crash or an exit may leave.
Cuts == IF PartialTail THEN synced .. Len(wal) ELSE {synced, Len(wal)}

Fallback == {OnDisk(SubSeq(wal, 1, j)) : j \in Cuts}

DM == INSTANCE DurableMap
        WITH Slots <- Slots, current <- Current, fallback <- Fallback

\* A commit, a transaction and a sync each are one step, a step of flush never
\* leaves a disk that does not hold the current state, recovery is invisible, and
\* a stop in any step restores a state since the last sync; only between the new
\* manifest and the reset of a WAL that was not synced, the last synced state may
\* come back key by key.  The engine is a durable map.
ImplementsDurableMap == DM!Spec

\* Closing the engine and opening it again, when open succeeds, changes nothing
\* a reader sees.
ReopenReadsSame == Idle /\ AllOpen(read_manifest(man)) => View = OnDisk(wal)

\* The manifest file is as long as the manifest, and no frame of the WAL is
\* torn: read_manifest and replay find what was written.
Undamaged ==
    /\ man.ok /\ man.len = Len(man.m.sstables)
    /\ \A i \in DOMAIN wal : wal[i] # Torn

\* With compaction and after any stop, half-written manifests and torn WAL
\* tails included: as long as, or as soon as again, the files are undamaged,
\* closing the engine and opening it again changes nothing a reader sees.
UndamagedReadsSame == Idle /\ Undamaged /\ AllOpen(man.m) => View = OnDisk(wal)

\* open finds every SSTable the manifest names intact, except one whose file an
\* interrupted flush had left behind: write_sstable does not truncate it, and a
\* shorter table then ends in the middle of the file.
Openable ==
    \A n \in Range(read_manifest(man).sstables) : Opens(ssts[n]) \/ ssts[n].reused

\* Persisting the memtable and merging SSTables change nothing a reader sees.
CompactionInvisible ==
    [][(\/ WriteSsTable \/ FlushManifest \/ ResetWal
        \/ WriteMerged \/ CompactManifest \/ RemoveOld) => View' = View]_vars

\* Through flush, compaction, crash and recovery the recovery cursor covers every
\* operation that a commit outside a transaction put into the memtable or into
\* an SSTable, so that the state machine does not apply it again.
CursorCovers ==
    Idle => /\ mem_top <= high_op
            /\ \A n \in Range(manifest.sstables) : ssts[n].top <= high_op

============================================================================
