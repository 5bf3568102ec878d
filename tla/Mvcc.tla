-------------------------------- MODULE Mvcc --------------------------------
(***************************************************************************)
(* Multi-version rows, snapshot transactions and the serializability check *)
(* of one state machine (kessel-storage mvcc.rs, tx.rs, ssi.rs and the     *)
(* CommitTx, AdvanceWatermark and ReportActiveSnapshot arms of kessel-sm). *)
(*                                                                         *)
(* Operations are applied one by one in log order.  A single-row write     *)
(* applied at log position n makes version n of the row; the members of a  *)
(* multi-row Txn make versions n, n + 1, ... although the Txn takes one    *)
(* position.  A value is the position of the operation that wrote it.  A   *)
(* client's transaction is a snapshot number and the sets it collects      *)
(* while other operations are applied; it commits as one operation.  The   *)
(* state machine does not know of it before: register_snapshot is called   *)
(* around one apply only.  The heartbeat reads its target in one step and  *)
(* submits it in a later one.                                              *)
(***************************************************************************)
EXTENDS Integers, Sequences, FiniteSets, FiniteSetsExt

CONSTANTS
    Keys,        \* rows (type and object id)
    Txs,         \* transactions
    Footprints,  \* read and write sets a transaction may collect, and which
                 \* of the rows written are deleted
    TxnRows,     \* the rows the members of a Txn write, in order
    Replicas,    \* replicas that report their oldest snapshot
    MaxAge,      \* MAX_TX_AGE, the window of pending_txs in operations
    MaxOp,       \* bound: operations applied
    MaxMembers,  \* bound: members of a Txn
    MaxRestarts  \* bound: restarts of the process

ASSUME MvccAssumption ==
    /\ MaxAge \in Nat /\ MaxOp \in Nat /\ MaxRestarts \in Nat
    /\ MaxMembers \in Nat \ {0}
    /\ \A rows \in TxnRows : rows \in Seq(Keys) /\ Len(rows) \in 1..MaxMembers
    /\ Footprints \subseteq [reads : SUBSET Keys, writes : SUBSET Keys, deletes : SUBSET Keys]
    /\ \A f \in Footprints : f.deletes \subseteq f.writes

Opnums == 0..MaxOp
\* The highest version number there can be.
Top == MaxOp + MaxMembers - 1
\* What a row has at a version: nothing, a deletion, or a value n >= 1.
Absent == -1
Tombstone == 0
\* No report yet (replica_min_snapshots has no entry for the replica).
Unreported == -1

VARIABLES
    op,                    \* log position of the last applied operation
    high_op,               \* cursor of the storage engine
    versions,              \* versions[k][n]: what the row k has at version n
    low_water_mark,        \* StateMachine and Storage: reclaimed below this
    pending_txs,           \* records of committed SSI transactions
    replica_min_snapshots, \* last accepted report of each replica
    tx,                    \* the transactions
    beat,                  \* target read by the heartbeat, 0 when none
    restarts,              \* restarts so far
    latest,                \* ghost: what the last acknowledged write of a row left
    reclaimed,             \* ghost: highest watermark ever applied
    horizon                \* ghost: highest commit whose record was dropped

rows == <<versions, latest>>
volatile == <<low_water_mark, pending_txs, replica_min_snapshots, beat>>
vars == <<op, high_op, rows, volatile, tx, restarts, reclaimed, horizon>>

----------------------------------------------------------------------------
(* Versions. *)

\* get_at_snapshot: the newest version not after the snapshot, 0 if none.
\* A tombstone ends the search like a value does.
Newest(k, s) == Max({0} \cup {n \in 1..s : versions[k][n] # Absent})

\* What a read of k at snapshot s answers, 0 for no row.
Visible(k, s) == IF Newest(k, s) = 0 THEN 0 ELSE versions[k][Newest(k, s)]

\* Mutant: looks for rows only.
HasRowInRange(k, lo, hi) == \E n \in (lo + 1)..hi : versions[k][n] > Tombstone

\* has_version_in_range: some version in (lo, hi], a tombstone included.
HasVersionInRange(k, lo, hi) == \E n \in (lo + 1)..hi : versions[k][n] # Absent

\* put_versioned of every row of W at version op + 1.
PutVersioned(W, what) ==
    [k \in Keys |-> IF k \in W THEN [versions[k] EXCEPT ![op + 1] = what[k]] ELSE versions[k]]

\* The members of a Txn: member i makes a version of its row numbered op + i.
PutMembers(ks) ==
    [k \in Keys |-> [n \in 1..Top |->
        IF n - op \in DOMAIN ks /\ ks[n - op] = k THEN op + 1 ELSE versions[k][n]]]

\* Ghost: an operation acknowledged what on the rows W.
Acknowledge(W, what) ==
    /\ latest' = [k \in Keys |-> IF k \in W THEN what[k] ELSE latest[k]]

\* Mutant: keeps the newest version, but reclaims the one at the watermark.
ReclaimSuperseded(w) ==
    [k \in Keys |-> [n \in 1..Top |->
        IF n <= w /\ n < Newest(k, Top) /\ versions[k][n] # Absent
        THEN Tombstone ELSE versions[k][n]]]

\* delete_versions_older_than: every version below the watermark becomes a
\* tombstone under its own number, the newest version of a row like the rest.
DeleteVersionsOlderThan(w) ==
    [k \in Keys |-> [n \in 1..Top |->
        IF n < w /\ versions[k][n] # Absent THEN Tombstone ELSE versions[k][n]]]

----------------------------------------------------------------------------
(* The window of committed transactions (ssi.rs). *)

\* pending_txs.range(snapshot + 1 .. commit).
Concurrent(pending, s, c) == {p \in pending : s < p.commit /\ p.commit < c}

\* sorted_vec_intersects of p's writes with R, and of p's reads with W.
WroteIn(p, R) == p.writes \cap R # {}
ReadIn(p, W) == p.reads \cap W # {}

\* The rw-edges a commit with reads R and writes W adds to the tags of p.
Tagged(p, R, W) ==
    [p EXCEPT !.incoming = @ \/ WroteIn(p, R), !.outgoing = @ \/ ReadIn(p, W)]

\* Mutant: only the committing transaction is tested for being a pivot.
DangerousSelf(found, R, W) ==
    (\E p \in found : WroteIn(p, R)) /\ (\E p \in found : ReadIn(p, W))

\* detect_dangerous_structure: the committing transaction is a pivot, or it
\* made one of the concurrent ones a pivot.
Dangerous(found, R, W) ==
    \/ (\E p \in found : WroteIn(p, R)) /\ (\E p \in found : ReadIn(p, W))
    \/ \E p \in found : Tagged(p, R, W).incoming /\ Tagged(p, R, W).outgoing

\* prune_pending_txs and prune_pending_txs_by_watermark keep p.commit >= n.
Kept(pending, n) == {p \in pending : p.commit >= n}

\* The ghost horizon after the records dropped are forgotten.
Forget(dropped) == Max({horizon} \cup {p.commit : p \in dropped})

----------------------------------------------------------------------------
Open == {t \in Txs : tx[t].state = "open"}

NewTx(state, s) == [state |-> state, snapshot |-> s, reads |-> {}, writes |-> {}, commit |-> 0]

\* Mutant: the last log position, which the cursor need not have reached.
HeartbeatAtLog == op

\* heartbeat_target: apply_one has unregistered its snapshot when the heartbeat
\* gets to read, and nobody else registers one, so min_active_snapshot is None
\* and the target is current_commit_opnum.
HeartbeatTarget == high_op

Init ==
    /\ op = 0 /\ high_op = 0
    /\ versions = [k \in Keys |-> [n \in 1..Top |-> Absent]]
    /\ latest = [k \in Keys |-> 0]
    /\ low_water_mark = 0 /\ pending_txs = {} /\ beat = 0
    /\ replica_min_snapshots = [r \in Replicas |-> Unreported]
    /\ tx = [t \in Txs |-> NewTx("idle", 0)]
    /\ restarts = 0 /\ reclaimed = 0 /\ horizon = 0

----------------------------------------------------------------------------
(* A client's transaction (tx.rs). *)

\* current_commit_opnum, the snapshot a new transaction pins.
CurrentCommitOpnum == high_op

\* Tx::begin at the cursor: refused below the watermark.
Begin(t) ==
    /\ tx[t].state = "idle"
    /\ CurrentCommitOpnum >= low_water_mark
    /\ tx' = [tx EXCEPT ![t] = NewTx("open", CurrentCommitOpnum)]
    /\ UNCHANGED <<op, high_op, rows, volatile, restarts, reclaimed, horizon>>

\* Tx::abort, commit_read_only or a drop: nothing reaches the state machine.
Drop(t) ==
    /\ tx[t].state = "open"
    /\ tx' = [tx EXCEPT ![t] = NewTx("closed", 0)]
    /\ UNCHANGED <<op, high_op, rows, volatile, restarts, reclaimed, horizon>>

----------------------------------------------------------------------------
(* StateMachine::apply: a mutating operation at or below the cursor is     *)
(* skipped and answered Ok.                                                *)

Applied == op < MaxOp /\ op + 1 > high_op /\ op' = op + 1
Skipped == op < MaxOp /\ op + 1 <= high_op /\ op' = op + 1

\* The skipped operation was a write of k (and whatever the heartbeat sent).
SkipPut(k, what) ==
    /\ Skipped
    /\ latest' = [latest EXCEPT ![k] = what]
    /\ UNCHANGED <<high_op, versions, volatile, tx, restarts, reclaimed, horizon>>

\* The skipped operation was a transaction's commit.
SkipCommit(t) ==
    /\ Skipped
    /\ tx[t].state = "open"
    /\ tx' = [tx EXCEPT ![t] = NewTx("closed", 0)]
    /\ UNCHANGED <<high_op, rows, volatile, restarts, reclaimed, horizon>>

\* An operation without effect on the rows: it was refused, or it was a
\* watermark or a report and was skipped.
NoEffect ==
    /\ op < MaxOp /\ op' = op + 1
    /\ beat' = 0
    /\ UNCHANGED <<high_op, rows, low_water_mark, pending_txs, replica_min_snapshots,
                   tx, restarts, reclaimed, horizon>>

----------------------------------------------------------------------------
(* Op::CommitTx with commit_opnum 0: applied at the next log position.     *)
(* Until then Tx::read and Tx::write only add keys to the transaction's    *)
(* own read and write set, so a commit with read set R and write set W     *)
(* stands for every order of the calls that collected them.                *)

Conflict(t, f) ==
    \/ tx[t].snapshot > op + 1
    \/ \E k \in f.writes : HasVersionInRange(k, tx[t].snapshot, op)

\* What the commit leaves in each row it writes.
Written(f) == [k \in f.writes |-> IF k \in f.deletes THEN Tombstone ELSE op + 1]

\* The window the detector works on; a transaction without reads skips it.
Window(f) ==
    IF f.reads = {} THEN pending_txs ELSE Kept(pending_txs, op + 1 - MaxAge)

Rivals(t, f) ==
    IF f.reads = {} THEN {} ELSE Concurrent(Window(f), tx[t].snapshot, op + 1)

\* The window with the tags this commit leaves, also when it is refused.
TaggedWindow(t, f) ==
    (Window(f) \ Rivals(t, f)) \cup {Tagged(p, f.reads, f.writes) : p \in Rivals(t, f)}

\* The record of a committed transaction; its own tags start empty.
Record(t, f) ==
    [commit |-> op + 1, snapshot |-> tx[t].snapshot, reads |-> f.reads,
     writes |-> f.writes, incoming |-> FALSE, outgoing |-> FALSE]

Submitted(t) ==
    /\ tx[t].state = "open"
    /\ Applied
    /\ UNCHANGED <<low_water_mark, replica_min_snapshots, beat, restarts, reclaimed>>

\* The snapshot is out of range, or a version of a written row appeared since.
CommitConflict(t, f) ==
    /\ Submitted(t)
    /\ Conflict(t, f)
    /\ tx' = [tx EXCEPT ![t] = NewTx("closed", 0)]
    /\ UNCHANGED <<high_op, rows, pending_txs, horizon>>

\* The detector refuses the commit.
CommitDangerous(t, f) ==
    /\ Submitted(t)
    /\ ~ Conflict(t, f)
    /\ Dangerous(Rivals(t, f), f.reads, f.writes)
    /\ tx' = [tx EXCEPT ![t] = NewTx("closed", 0)]
    /\ pending_txs' = TaggedWindow(t, f)
    /\ horizon' = Forget(pending_txs \ Window(f))
    /\ UNCHANGED <<high_op, rows>>

\* The writes are installed at the log position, as rows or as tombstones.
CommitInstall(t, f) ==
    /\ Submitted(t)
    /\ ~ Conflict(t, f)
    /\ ~ Dangerous(Rivals(t, f), f.reads, f.writes)
    /\ versions' = PutVersioned(f.writes, Written(f))
    /\ Acknowledge(f.writes, Written(f))
    /\ high_op' = IF f.writes = {} THEN high_op ELSE op + 1
    /\ pending_txs' =
          TaggedWindow(t, f) \cup (IF f.reads = {} THEN {} ELSE {Record(t, f)})
    /\ horizon' = Forget(pending_txs \ Window(f))
    /\ tx' = [tx EXCEPT ![t] = [state |-> "committed", snapshot |-> @.snapshot,
                               reads |-> f.reads, writes |-> f.writes, commit |-> op + 1]]

----------------------------------------------------------------------------
(* Other operations of the log. *)

\* An auto-commit statement that writes or deletes one row.
Put(k, what) ==
    /\ Applied
    /\ what = Tombstone => Visible(k, Top) # 0
    /\ high_op' = op + 1
    /\ versions' = PutVersioned({k}, [l \in {k} |-> what])
    /\ Acknowledge({k}, [l \in {k} |-> what])
    /\ UNCHANGED <<volatile, tx, restarts, reclaimed, horizon>>

\* Op::Txn: all members are written, and commit_txn leaves the cursor alone.
Txn(ks) ==
    /\ Applied
    /\ versions' = PutMembers(ks)
    /\ latest' = [k \in Keys |-> IF \E i \in DOMAIN ks : ks[i] = k THEN op + 1 ELSE latest[k]]
    /\ UNCHANGED <<high_op, volatile, tx, restarts, reclaimed, horizon>>

\* The heartbeat reads the state machine and finds something to advance.
HeartbeatRead ==
    /\ beat = 0 /\ HeartbeatTarget > low_water_mark
    /\ beat' = HeartbeatTarget
    /\ UNCHANGED <<op, high_op, rows, low_water_mark, pending_txs,
                   replica_min_snapshots, tx, restarts, reclaimed, horizon>>

\* The checks of Op::AdvanceWatermark, in their order.
MayAdvance(w) ==
    /\ w > low_water_mark /\ w <= op + 1
    /\ \A r \in Replicas : replica_min_snapshots[r] # Unreported => w <= replica_min_snapshots[r]

\* Op::AdvanceWatermark with the target read earlier, accepted.
AdvanceWatermark ==
    /\ beat > 0 /\ Applied
    /\ MayAdvance(beat)
    /\ versions' = DeleteVersionsOlderThan(beat)
    /\ high_op' = IF versions' = versions THEN high_op ELSE Max({high_op, beat})
    /\ pending_txs' = Kept(pending_txs, beat)
    /\ horizon' = Forget(pending_txs \ Kept(pending_txs, beat))
    /\ low_water_mark' = beat /\ reclaimed' = Max({reclaimed, beat})
    /\ beat' = 0
    /\ UNCHANGED <<latest, replica_min_snapshots, tx, restarts>>

\* Op::AdvanceWatermark, rejected.
RejectWatermark ==
    /\ beat > 0 /\ Applied
    /\ ~ MayAdvance(beat)
    /\ beat' = 0
    /\ UNCHANGED <<high_op, rows, low_water_mark, pending_txs,
                   replica_min_snapshots, tx, restarts, reclaimed, horizon>>

\* Op::ReportActiveSnapshot: a replica may only raise what it reported.  The
\* product has no sender of it: a replica reports any number it has reached.
ReportActiveSnapshot(r, m) ==
    /\ Applied
    /\ replica_min_snapshots' =
          IF m >= replica_min_snapshots[r]
          THEN [replica_min_snapshots EXCEPT ![r] = m] ELSE replica_min_snapshots
    /\ UNCHANGED <<high_op, rows, low_water_mark, pending_txs, beat, tx,
                   restarts, reclaimed, horizon>>

\* The process restarts: what is only in memory is gone; a client's transaction
\* is a number it still has.  The rows come back from the storage engine, and
\* the cursor is the highest number found in its log.
Restart ==
    /\ restarts < MaxRestarts
    /\ restarts' = restarts + 1
    /\ low_water_mark' = 0 /\ pending_txs' = {} /\ beat' = 0
    /\ replica_min_snapshots' = [r \in Replicas |-> Unreported]
    /\ horizon' = Forget(pending_txs)
    /\ high_op' = Max({high_op} \cup {Newest(k, Top) : k \in Keys})
    /\ UNCHANGED <<op, rows, tx, reclaimed>>

Next ==
    \/ \E t \in Txs : Begin(t) \/ Drop(t) \/ SkipCommit(t)
    \/ \E t \in Txs, f \in Footprints :
          CommitConflict(t, f) \/ CommitDangerous(t, f) \/ CommitInstall(t, f)
    \/ \E k \in Keys, what \in {op + 1, Tombstone} : Put(k, what) \/ SkipPut(k, what)
    \/ \E ks \in TxnRows : Txn(ks)
    \/ \E r \in Replicas, m \in 0..high_op : ReportActiveSnapshot(r, m)
    \/ HeartbeatRead \/ AdvanceWatermark \/ RejectWatermark \/ NoEffect \/ Restart

Spec == Init /\ [][Next]_vars

----------------------------------------------------------------------------
TypeOK ==
    /\ op \in Opnums /\ high_op \in 0..Top /\ low_water_mark \in 0..high_op
    /\ versions \in [Keys -> [1..Top -> {Absent, Tombstone} \cup Opnums]]
    /\ latest \in [Keys -> Opnums]
    /\ replica_min_snapshots \in [Replicas -> 0..Top \cup {Unreported}]
    /\ tx \in [Txs -> [state : {"idle", "open", "closed", "committed"},
                       snapshot : 0..Top, reads : SUBSET Keys,
                       writes : SUBSET Keys, commit : Opnums]]
    /\ \A p \in pending_txs :
          p \in [commit : Opnums, snapshot : 0..Top, reads : SUBSET Keys,
                writes : SUBSET Keys, incoming : BOOLEAN, outgoing : BOOLEAN]
    /\ beat \in 0..Top /\ reclaimed \in Opnums /\ horizon \in Opnums
    /\ restarts \in 0..MaxRestarts

Committed == {t \in Txs : tx[t].state = "committed"}
\* Committed transactions the detector knew of.
Tracked == {t \in Committed : tx[t].reads # {}}

(* Of two committed transactions that wrote the same row the later one had *)
(* the earlier one in its snapshot, also when the watermark passed both or *)
(* the process restarted in between: the write-write check of CommitTx     *)
(* counts the tombstones the collector leaves.                             *)
FirstCommitterWins ==
    \A t, u \in Committed :
        tx[t].commit < tx[u].commit /\ tx[t].writes \cap tx[u].writes # {}
            => tx[t].commit <= tx[u].snapshot

\* t read a row before u's version of it (an rw-antidependency).
Precedes(t, u) ==
    /\ t # u /\ tx[t].reads \cap tx[u].writes # {}
    /\ tx[t].snapshot < tx[u].commit

\* The two transactions overlap: neither was in the other's snapshot.
Overlap(t, u) == tx[t].snapshot < tx[u].commit /\ tx[u].snapshot < tx[t].commit

(* A committed transaction p with antidependencies i -> p -> o to          *)
(* transactions that overlap it has one of them before and one after it in *)
(* commit order: the structures whose last transaction could see both      *)
(* edges are refused, write skew (i = o) among them, as long as no record  *)
(* the last one needed was dropped by the window, the watermark or a       *)
(* restart.                                                                *)
PivotSeen ==
    \A i, p, o \in Tracked :
        /\ Precedes(i, p) /\ Overlap(i, p) /\ Precedes(p, o) /\ Overlap(p, o)
        /\ \A t \in {i, p, o} : \/ tx[t].snapshot >= horizon
                                 \/ \E u \in {i, p, o} : tx[u].commit > tx[t].commit
        => (tx[i].commit < tx[p].commit) # (tx[o].commit < tx[p].commit)

(* A transaction that begins now is served: its snapshot is not below any  *)
(* watermark ever applied.  The heartbeat submits a target it read earlier, *)
(* the cursor stands still during operations that write nothing and during *)
(* a Txn, the collector frames its tombstones under old numbers, and a     *)
(* restart forgets the watermark but not what was reclaimed.               *)
FreshSnapshots == reclaimed <= CurrentCommitOpnum

(* What an open transaction reads from its snapshot never changes, unless  *)
(* the version it saw is below the watermark.                              *)
ReadsRepeat ==
    [][\A t \in Open, k \in Keys :
          LET s == tx[t].snapshot IN
          tx'[t].state = "open" =>
              \/ Visible(k, s)' = Visible(k, s)
              \/ Newest(k, s) < low_water_mark']_vars

(* A row reads as its last acknowledged write left it, which is what the   *)
(* strictly ascending version numbers put_versioned asks for would give.   *)
AckedReadable == \A k \in Keys : Visible(k, Top) = latest[k]

(* The transactions the detector accepted can be put in one order that     *)
(* respects what each of them read and overwrote.                          *)
Serializable ==
    \E rank \in [Tracked -> 1..Cardinality(Tracked)] :
        \A t, u \in Tracked :
            (\/ Precedes(t, u)
             \/ /\ t # u /\ tx[t].commit <= tx[u].snapshot
                /\ tx[t].writes \cap (tx[u].reads \cup tx[u].writes) # {})
            => rank[t] < rank[u]

============================================================================
