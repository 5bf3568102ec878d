----------------------------- MODULE MvccProofs -----------------------------
(***************************************************************************)
(* Proofs about Mvcc, for every set of rows and transactions and every     *)
(* bound: the types, the cursor every watermark and snapshot stays below,  *)
(* repeatable reads, first committer wins and the pivots the detector      *)
(* refuses.                                                                *)
(***************************************************************************)
EXTENDS Mvcc, NumberFacts

----------------------------------------------------------------------------
(* The invariant *)

\* The heartbeat's target, every watermark applied and every snapshot a client
\* holds are numbers the cursor has reached.
CursorInv ==
    /\ beat <= high_op /\ reclaimed <= high_op
    /\ \A t \in Open : tx[t].snapshot <= high_op

\* Every committed transaction has a commit number of its own, and every row it
\* wrote has a version there still.
CommitInv ==
    /\ \A t \in Committed : tx[t].commit \in 1..op
    /\ \A t, u \in Committed : tx[t].commit = tx[u].commit => t = u
    /\ \A t \in Committed : \A k \in tx[t].writes : versions[k][tx[t].commit] # Absent

\* p is the record of t, with the tags of every later overlapping commit.
RecordOf(p, t) ==
    /\ p.commit = tx[t].commit /\ p.reads = tx[t].reads /\ p.writes = tx[t].writes
    /\ \A u \in Tracked :
          tx[u].commit > tx[t].commit /\ tx[u].snapshot < tx[t].commit =>
              /\ WroteIn(p, tx[u].reads) => p.incoming
              /\ ReadIn(p, tx[u].writes) => p.outgoing

\* The record of every transaction the detector knew of is in the window, unless
\* its commit is not above the horizon.
WindowInv ==
    \A t \in Tracked : tx[t].commit > horizon => \E p \in pending_txs : RecordOf(p, t)

----------------------------------------------------------------------------
(* Types *)

TxRecord == [state : {"idle", "open", "closed", "committed"}, snapshot : 0..Top,
             reads : SUBSET Keys, writes : SUBSET Keys, commit : Opnums]
SsiRecord == [commit : Opnums, snapshot : 0..Top, reads : SUBSET Keys,
              writes : SUBSET Keys, incoming : BOOLEAN, outgoing : BOOLEAN]
Row == [1..Top -> {Absent, Tombstone} \cup Opnums]

LEMMA Bounds ==
    /\ MaxOp \in Nat /\ Top \in Nat /\ MaxOp <= Top /\ MaxAge \in Nat /\ MaxRestarts \in Nat
    /\ 0 \in Opnums /\ 0 \in 0..Top
    /\ \A f \in Footprints : f.reads \in SUBSET Keys /\ f.writes \in SUBSET Keys
BY MvccAssumption DEF Top, Opnums

LEMMA NewTxType ==
    ASSUME NEW st \in {"idle", "open", "closed", "committed"}, NEW s \in 0..Top
    PROVE  NewTx(st, s) \in TxRecord
BY Bounds DEF NewTx, TxRecord

\* The newest version of a row up to s is one, or there is none.
LEMMA NewestOf ==
    ASSUME TypeOK, NEW k \in Keys, NEW s \in 0..Top
    PROVE  /\ Newest(k, s) \in 0..s
           /\ \A n \in 1..s : versions[k][n] # Absent => n <= Newest(k, s)
           /\ Newest(k, s) # 0 => versions[k][Newest(k, s)] # Absent
<1> DEFINE S == {0} \cup {n \in 1..s : versions[k][n] # Absent}
<1>1. s \in Nat
    BY Bounds
<1>2. S \subseteq 0..s /\ S # {}
    BY <1>1
<1>3. Max(S) \in S /\ \A n \in S : n <= Max(S)
    <2> HIDE DEF S
    <2> QED BY <1>1, <1>2, MaxOfBounded
<1> QED BY <1>1, <1>3 DEF Newest

\* The horizon never falls, and no record dropped is above it.
LEMMA ForgetIs ==
    ASSUME TypeOK, NEW dropped \in SUBSET pending_txs
    PROVE  /\ Forget(dropped) \in Opnums /\ Forget(dropped) >= horizon
           /\ \A p \in dropped : p.commit <= Forget(dropped)
<1> DEFINE S == {horizon} \cup {p.commit : p \in dropped}
<1>1. MaxOp \in Nat /\ Opnums = 0..MaxOp
    BY Bounds DEF Opnums
<1>2. \A p \in dropped : p.commit \in Opnums
    BY DEF TypeOK
<1>3. S \subseteq 0..MaxOp /\ S # {}
    BY <1>1, <1>2 DEF TypeOK
<1>4. Max(S) \in S /\ \A n \in S : n <= Max(S)
    <2> HIDE DEF S
    <2> QED BY <1>1, <1>3, MaxOfBounded
<1>5. Forget(dropped) = Max(S)
    BY DEF Forget
<1>6. horizon \in S /\ \A p \in dropped : p.commit \in S
    OBVIOUS
<1> HIDE DEF S
<1> QED BY <1>1, <1>3, <1>4, <1>5, <1>6

\* Tagging changes nothing but the tags, and never takes one away.
LEMMA TaggedIs ==
    ASSUME NEW p \in SsiRecord, NEW R, NEW W
    PROVE  /\ Tagged(p, R, W) \in SsiRecord
           /\ Tagged(p, R, W).commit = p.commit /\ Tagged(p, R, W).snapshot = p.snapshot
           /\ Tagged(p, R, W).reads = p.reads /\ Tagged(p, R, W).writes = p.writes
           /\ Tagged(p, R, W).incoming <=> (p.incoming \/ WroteIn(p, R))
           /\ Tagged(p, R, W).outgoing <=> (p.outgoing \/ ReadIn(p, W))
<1>1. WroteIn(p, R) \in BOOLEAN /\ ReadIn(p, W) \in BOOLEAN
    BY DEF WroteIn, ReadIn
<1> DEFINE i == p.incoming \/ WroteIn(p, R)
           o == p.outgoing \/ ReadIn(p, W)
<1>2. i \in BOOLEAN /\ o \in BOOLEAN
    BY <1>1 DEF SsiRecord
<1>3. Tagged(p, R, W) = [p EXCEPT !.incoming = i, !.outgoing = o]
    BY DEF Tagged
<1> HIDE DEF i, o
<1> QED BY <1>2, <1>3 DEF SsiRecord, i, o

LEMMA WindowTypes ==
    ASSUME TypeOK, NEW t \in Txs, NEW f \in Footprints
    PROVE  /\ \A p \in pending_txs : p \in SsiRecord
           /\ Window(f) \in SUBSET pending_txs /\ Rivals(t, f) \in SUBSET Window(f)
           /\ \A p \in TaggedWindow(t, f) : p \in SsiRecord
<1>1. \A p \in pending_txs : p \in SsiRecord
    BY DEF TypeOK, SsiRecord
<1>2. Window(f) \in SUBSET pending_txs
    BY DEF Window, Kept
<1>3. Rivals(t, f) \in SUBSET Window(f)
    BY DEF Rivals, Concurrent
<1> QED BY <1>1, <1>2, <1>3, TaggedIs DEF TaggedWindow

\* A write at the next log position keeps the rows in their type.
LEMMA PutVersionedType ==
    ASSUME TypeOK, op < MaxOp, NEW W \in SUBSET Keys, NEW what,
           \A k \in W : what[k] \in {Absent, Tombstone} \cup Opnums
    PROVE  PutVersioned(W, what) \in [Keys -> Row]
<1>1. \A k \in Keys : versions[k] \in Row
    BY DEF TypeOK, Row
<1>2. \A k \in W : [versions[k] EXCEPT ![op + 1] = what[k]] \in Row
    BY <1>1 DEF Row
<1> QED BY <1>1, <1>2 DEF PutVersioned

LEMMA PutMembersType ==
    ASSUME TypeOK, op < MaxOp, NEW ks
    PROVE  PutMembers(ks) \in [Keys -> Row]
<1>1. op + 1 \in Opnums
    BY Bounds DEF TypeOK, Opnums
<1>2. \A k \in Keys : \A n \in 1..Top : versions[k][n] \in {Absent, Tombstone} \cup Opnums
    <2>1. versions \in [Keys -> Row]
        BY DEF TypeOK, Row
    <2> QED BY <2>1 DEF Row
<1> QED BY <1>1, <1>2 DEF PutMembers, Row

LEMMA DeleteVersionsType ==
    ASSUME TypeOK, NEW w
    PROVE  DeleteVersionsOlderThan(w) \in [Keys -> Row]
<1>2. \A k \in Keys : \A n \in 1..Top : versions[k][n] \in {Absent, Tombstone} \cup Opnums
    <2>1. versions \in [Keys -> Row]
        BY DEF TypeOK, Row
    <2> QED BY <2>1 DEF Row
<1> QED BY <1>2 DEF DeleteVersionsOlderThan, Row

\* The next log position is one.
LEMMA NextOp ==
    ASSUME TypeOK, op < MaxOp
    PROVE  /\ op \in Nat /\ op + 1 \in Opnums /\ op + 1 \in 1..Top /\ op + 1 \in 0..Top
           /\ high_op \in Nat
BY Bounds DEF TypeOK, Opnums

LEMMA TxTypes ==
    ASSUME TypeOK
    PROVE  /\ \A t \in Txs : tx[t] \in TxRecord
           /\ \A t \in Txs, r \in TxRecord : [tx EXCEPT ![t] = r] \in [Txs -> TxRecord]
           /\ NewTx("closed", 0) \in TxRecord
BY NewTxType, Bounds DEF TypeOK, TxRecord

LEMMA CommitInstallType ==
    ASSUME TypeOK, NEW t \in Txs, NEW f \in Footprints, CommitInstall(t, f)
    PROVE  TypeOK'
<1>1. op < MaxOp /\ op + 1 > high_op /\ op' = op + 1
    BY DEF CommitInstall, Submitted, Applied
<1>2. f.reads \in SUBSET Keys /\ f.writes \in SUBSET Keys
    BY Bounds
<1>3. \A k \in f.writes : Written(f)[k] \in {Tombstone} \cup Opnums
    BY <1>1, NextOp DEF Written
<1>4. versions' \in [Keys -> Row]
    BY <1>1, <1>2, <1>3, PutVersionedType DEF CommitInstall
<1>5. latest' \in [Keys -> Opnums]
    BY <1>3, Bounds DEF CommitInstall, Acknowledge, TypeOK, Tombstone
<1>6. horizon' \in Opnums
    <2>1. pending_txs \ Window(f) \in SUBSET pending_txs
        OBVIOUS
    <2> QED BY <2>1, ForgetIs DEF CommitInstall
<1>7. \A p \in pending_txs' : p \in SsiRecord
    <2>1. Record(t, f) \in SsiRecord
        BY <1>1, <1>2, NextOp DEF Record, SsiRecord, TypeOK
    <2> QED BY <2>1, WindowTypes DEF CommitInstall
<1>8. tx' \in [Txs -> TxRecord]
    <2> DEFINE r == [state |-> "committed", snapshot |-> tx[t].snapshot,
                     reads |-> f.reads, writes |-> f.writes, commit |-> op + 1]
    <2>1. r \in TxRecord
        BY <1>1, <1>2, NextOp, TxTypes DEF TxRecord
    <2>2. tx' = [tx EXCEPT ![t] = r]
        BY DEF CommitInstall
    <2> HIDE DEF r
    <2> QED BY <2>1, <2>2, TxTypes
<1>9. high_op' \in 0..Top /\ low_water_mark' \in 0..high_op' /\ op' \in Opnums
    BY <1>1, NextOp DEF CommitInstall, Submitted, TypeOK
<1>10. UNCHANGED <<low_water_mark, replica_min_snapshots, beat, restarts, reclaimed>>
    BY DEF CommitInstall, Submitted
<1> QED BY <1>4, <1>5, <1>6, <1>7, <1>8, <1>9, <1>10 DEF TypeOK, TxRecord, SsiRecord, Row

LEMMA CommitRefusedType ==
    ASSUME TypeOK, NEW t \in Txs, NEW f \in Footprints,
           CommitConflict(t, f) \/ CommitDangerous(t, f)
    PROVE  TypeOK'
<1>1. op < MaxOp /\ op' = op + 1
    BY DEF CommitConflict, CommitDangerous, Submitted, Applied
<1>2. horizon' \in Opnums
    <2>1. pending_txs \ Window(f) \in SUBSET pending_txs
        OBVIOUS
    <2> QED BY <2>1, ForgetIs DEF CommitConflict, CommitDangerous, TypeOK
<1>3. \A p \in pending_txs' : p \in SsiRecord
    BY WindowTypes DEF CommitConflict, CommitDangerous
<1>4. tx' \in [Txs -> TxRecord]
    BY TxTypes DEF CommitConflict, CommitDangerous
<1>5. op' \in Opnums
    BY <1>1, NextOp
<1>6. UNCHANGED <<high_op, versions, latest, low_water_mark, replica_min_snapshots, beat,
                  restarts, reclaimed>>
    BY DEF CommitConflict, CommitDangerous, Submitted, rows
<1> QED BY <1>2, <1>3, <1>4, <1>5, <1>6 DEF TypeOK, TxRecord, SsiRecord

LEMMA WriteType ==
    ASSUME TypeOK,
           \/ \E k \in Keys, what \in {op + 1, Tombstone} : Put(k, what) \/ SkipPut(k, what)
           \/ \E ks \in TxnRows : Txn(ks)
    PROVE  TypeOK'
<1>1. ASSUME NEW k \in Keys, NEW what \in {op + 1, Tombstone}, Put(k, what)
      PROVE  TypeOK'
    <2>1. op < MaxOp /\ op + 1 > high_op /\ op' = op + 1
        BY <1>1 DEF Put, Applied
    <2>2. what \in Opnums
        BY <2>1, NextOp, Bounds DEF Tombstone
    <2>3. versions' \in [Keys -> Row]
        BY <1>1, <2>1, <2>2, PutVersionedType DEF Put
    <2>4. latest' \in [Keys -> Opnums]
        BY <1>1, <2>2 DEF Put, Acknowledge, TypeOK
    <2>5. UNCHANGED <<low_water_mark, pending_txs, replica_min_snapshots, beat, tx, restarts,
                      reclaimed, horizon>>
        BY <1>1 DEF Put, volatile
    <2>6. high_op' \in 0..Top /\ low_water_mark' \in 0..high_op' /\ op' \in Opnums
        BY <1>1, <2>1, <2>5, NextOp DEF Put, TypeOK
    <2> QED BY <2>3, <2>4, <2>5, <2>6 DEF TypeOK, Row
<1>2. ASSUME NEW k \in Keys, NEW what \in {op + 1, Tombstone}, SkipPut(k, what)
      PROVE  TypeOK'
    <2>1. op < MaxOp /\ op' = op + 1
        BY <1>2 DEF SkipPut, Skipped
    <2>2. what \in Opnums /\ op' \in Opnums
        BY <2>1, NextOp, Bounds DEF Tombstone
    <2> QED BY <1>2, <2>2 DEF SkipPut, volatile, TypeOK
<1>3. ASSUME NEW ks \in TxnRows, Txn(ks)
      PROVE  TypeOK'
    <2>1. op < MaxOp /\ op' = op + 1
        BY <1>3 DEF Txn, Applied
    <2>2. versions' \in [Keys -> Row]
        BY <1>3, <2>1, PutMembersType DEF Txn
    <2>3. op + 1 \in Opnums
        BY <2>1, NextOp
    <2>4. latest' \in [Keys -> Opnums]
        BY <1>3, <2>3 DEF Txn, TypeOK
    <2>5. UNCHANGED <<high_op, low_water_mark, pending_txs, replica_min_snapshots, beat, tx,
                      restarts, reclaimed, horizon>>
        BY <1>3 DEF Txn, volatile
    <2> QED BY <2>1, <2>2, <2>3, <2>4, <2>5 DEF TypeOK, Row
<1> QED BY <1>1, <1>2, <1>3

LEMMA WatermarkType ==
    ASSUME TypeOK, CursorInv, AdvanceWatermark
    PROVE  TypeOK'
<1>1. op < MaxOp /\ op' = op + 1 /\ beat <= op + 1 /\ beat > 0
    BY DEF AdvanceWatermark, Applied, MayAdvance
<1>2. /\ beat \in Nat /\ high_op \in 0..Top /\ beat \in Opnums /\ beat <= high_op
      /\ reclaimed \in Opnums /\ reclaimed \in Nat /\ op' \in Opnums
    BY <1>1, NextOp, Bounds DEF TypeOK, CursorInv, Opnums
<1>3. high_op' \in 0..Top /\ low_water_mark' \in 0..high_op'
    <2>1. Max({high_op, beat}) = high_op
        BY <1>2, Bounds, MaxOfTwo
    <2>2. high_op' = high_op /\ low_water_mark' = beat
        BY <2>1 DEF AdvanceWatermark
    <2> QED BY <1>2, <2>2, Bounds
<1>4. reclaimed' \in Opnums
    BY <1>2, MaxOfTwo DEF AdvanceWatermark
<1>5. versions' \in [Keys -> Row]
    BY DeleteVersionsType DEF AdvanceWatermark
<1>6. horizon' \in Opnums /\ pending_txs' \in SUBSET pending_txs
    <2>1. pending_txs \ Kept(pending_txs, beat) \in SUBSET pending_txs
        OBVIOUS
    <2> QED BY <2>1, ForgetIs DEF AdvanceWatermark, Kept
<1>7. UNCHANGED <<latest, replica_min_snapshots, tx, restarts>> /\ beat' = 0
    BY DEF AdvanceWatermark
<1> QED BY <1>2, <1>3, <1>4, <1>5, <1>6, <1>7, Bounds DEF TypeOK, Row

LEMMA OtherType ==
    ASSUME TypeOK, CursorInv,
           \/ HeartbeatRead \/ RejectWatermark \/ NoEffect
           \/ \E r \in Replicas, m \in 0..high_op : ReportActiveSnapshot(r, m)
           \/ \E t \in Txs : Begin(t) \/ Drop(t) \/ SkipCommit(t)
    PROVE  TypeOK'
<1>1. CASE HeartbeatRead
    BY <1>1 DEF HeartbeatRead, HeartbeatTarget, rows, TypeOK
<1>2. CASE RejectWatermark \/ NoEffect
    <2>1. op < MaxOp /\ op' = op + 1
        BY <1>2 DEF RejectWatermark, NoEffect, Applied
    <2>2. op' \in Opnums
        BY <2>1, NextOp
    <2> QED BY <1>2, <2>2, Bounds DEF RejectWatermark, NoEffect, rows, TypeOK
<1>3. ASSUME NEW r \in Replicas, NEW m \in 0..high_op, ReportActiveSnapshot(r, m)
      PROVE  TypeOK'
    <2>1. op < MaxOp /\ op' = op + 1
        BY <1>3 DEF ReportActiveSnapshot, Applied
    <2>2. op' \in Opnums
        BY <2>1, NextOp
    <2>3. replica_min_snapshots' \in [Replicas -> 0..Top \cup {Unreported}]
        <3>1. m \in 0..Top
            BY Bounds DEF TypeOK
        <3> QED BY <1>3, <3>1 DEF ReportActiveSnapshot, TypeOK
    <2> QED BY <1>3, <2>2, <2>3 DEF ReportActiveSnapshot, rows, TypeOK
<1>4. ASSUME NEW t \in Txs, Begin(t)
      PROVE  TypeOK'
    <2>1. high_op \in 0..Top
        BY DEF TypeOK
    <2>2. NewTx("open", high_op) \in TxRecord
        BY <2>1, NewTxType
    <2>3. tx' \in [Txs -> TxRecord]
        BY <1>4, <2>2, TxTypes DEF Begin, CurrentCommitOpnum
    <2> QED BY <1>4, <2>3 DEF Begin, rows, volatile, TypeOK, TxRecord
<1>5. ASSUME NEW t \in Txs, Drop(t) \/ SkipCommit(t)
      PROVE  TypeOK'
    <2>1. tx' \in [Txs -> TxRecord]
        BY <1>5, TxTypes DEF Drop, SkipCommit
    <2>2. op' \in Opnums
        BY <1>5, NextOp DEF Drop, SkipCommit, Skipped, TypeOK
    <2> QED BY <1>5, <2>1, <2>2 DEF Drop, SkipCommit, rows, volatile, TypeOK, TxRecord
<1> QED BY <1>1, <1>2, <1>3, <1>4, <1>5

LEMMA RestartType ==
    ASSUME TypeOK, Restart
    PROVE  TypeOK' /\ high_op' >= high_op
<1> DEFINE S == {high_op} \cup {Newest(k, Top) : k \in Keys}
<1>1. high_op \in 0..Top /\ Top \in Nat /\ Top \in 0..Top
    BY Bounds DEF TypeOK
<1>2. \A k \in Keys : Newest(k, Top) \in 0..Top
    BY <1>1, NewestOf
<1>3. S \subseteq 0..Top /\ S # {} /\ high_op \in S
    BY <1>1, <1>2
<1>4. high_op' = Max(S)
    BY DEF Restart
<1>5. high_op' \in 0..Top /\ high_op' >= high_op
    <2> HIDE DEF S
    <2>1. Max(S) \in S /\ \A n \in S : n <= Max(S)
        BY <1>1, <1>3, MaxOfBounded
    <2> QED BY <1>1, <1>3, <1>4, <2>1
<1>6. horizon' \in Opnums
    <2>1. pending_txs \in SUBSET pending_txs
        OBVIOUS
    <2> QED BY <2>1, ForgetIs DEF Restart
<1>7. tx' = tx
    BY DEF Restart
<1>8. restarts' \in 0..MaxRestarts
    BY Bounds DEF Restart, TypeOK
<1>9. UNCHANGED <<op, versions, latest, reclaimed>>
    BY DEF Restart, rows
<1>10. /\ low_water_mark' = 0 /\ pending_txs' = {} /\ beat' = 0
       /\ replica_min_snapshots' \in [Replicas -> 0..Top \cup {Unreported}]
    BY DEF Restart
<1> QED BY <1>1, <1>5, <1>6, <1>7, <1>8, <1>9, <1>10, Bounds DEF TypeOK, TxRecord

----------------------------------------------------------------------------
(* The cursor *)

\* A step that opens no transaction, keeps the cursor from falling and raises
\* neither the heartbeat's target nor the watermark ever applied.
LEMMA CursorKept ==
    ASSUME TypeOK, TypeOK', CursorInv, high_op' >= high_op,
           beat' <= beat, reclaimed' <= reclaimed,
           \A t \in Open' : t \in Open /\ tx'[t].snapshot = tx[t].snapshot
    PROVE  CursorInv'
<1>1. /\ high_op \in Nat /\ high_op' \in Nat /\ beat \in Nat /\ beat' \in Nat
      /\ reclaimed \in Nat /\ reclaimed' \in Nat
    BY Bounds DEF TypeOK, Opnums
<1>2. \A t \in Open : tx[t].snapshot \in Nat
    BY Bounds DEF TypeOK, Open
<1> QED BY <1>1, <1>2 DEF CursorInv

\* Closing or committing a transaction opens none.
LEMMA OpenAfter ==
    ASSUME TypeOK, NEW t \in Txs, NEW r, r.state # "open", tx' = [tx EXCEPT ![t] = r]
    PROVE  \A u \in Open' : u \in Open /\ tx'[u] = tx[u]
BY DEF Open, TypeOK

LEMMA CursorStep ==
    ASSUME TypeOK, TypeOK', CursorInv, [Next]_vars
    PROVE  CursorInv'
<1>1. /\ high_op \in Nat /\ high_op' \in Nat /\ beat \in Nat /\ reclaimed \in Nat /\ op \in Nat
    BY Bounds DEF TypeOK, Opnums
<1>2. ASSUME high_op' >= high_op, beat' = beat, reclaimed' = reclaimed, tx' = tx
      PROVE  CursorInv'
    BY <1>1, <1>2, CursorKept DEF Open
<1>3. ASSUME NEW t \in Txs, Begin(t) PROVE CursorInv'
    <2>1. /\ \A u \in Txs \ {t} : tx'[u] = tx[u]
          /\ tx'[t].snapshot = high_op
          /\ UNCHANGED <<high_op, beat, reclaimed>>
        BY <1>3 DEF Begin, NewTx, CurrentCommitOpnum, TypeOK, volatile
    <2> QED BY <1>1, <2>1 DEF CursorInv, Open
<1>4. ASSUME NEW t \in Txs, Drop(t) \/ SkipCommit(t) PROVE CursorInv'
    <2>1. \A u \in Open' : u \in Open /\ tx'[u] = tx[u]
        <3>1. NewTx("closed", 0).state # "open" /\ tx' = [tx EXCEPT ![t] = NewTx("closed", 0)]
            BY <1>4 DEF NewTx, Drop, SkipCommit
        <3> QED BY <3>1, OpenAfter
    <2>2. UNCHANGED <<high_op, beat, reclaimed>>
        BY <1>4 DEF Drop, SkipCommit, volatile
    <2> QED BY <1>1, <2>1, <2>2, CursorKept
<1>5. ASSUME NEW t \in Txs, NEW f \in Footprints,
             CommitConflict(t, f) \/ CommitDangerous(t, f) \/ CommitInstall(t, f)
      PROVE  CursorInv'
    <2>1. UNCHANGED <<beat, reclaimed>> /\ op + 1 > high_op
        BY <1>5 DEF CommitConflict, CommitDangerous, CommitInstall, Submitted, Applied
    <2>2. \A u \in Open' : u \in Open /\ tx'[u] = tx[u]
        <3>1. \E r : r.state # "open" /\ tx' = [tx EXCEPT ![t] = r]
            BY <1>5 DEF CommitConflict, CommitDangerous, CommitInstall, NewTx
        <3> QED BY <3>1, OpenAfter
    <2>3. high_op' >= high_op
        BY <1>1, <1>5, <2>1 DEF CommitConflict, CommitDangerous, CommitInstall
    <2> QED BY <1>1, <2>1, <2>2, <2>3, CursorKept
<1>6. ASSUME NEW k \in Keys, NEW what, Put(k, what) \/ SkipPut(k, what)
      PROVE  CursorInv'
    BY <1>1, <1>2, <1>6 DEF Put, SkipPut, Applied, volatile
<1>7. ASSUME NEW ks \in TxnRows, Txn(ks) PROVE CursorInv'
    BY <1>1, <1>2, <1>7 DEF Txn, volatile
<1>8. ASSUME NEW r \in Replicas, NEW m, ReportActiveSnapshot(r, m) PROVE CursorInv'
    BY <1>1, <1>2, <1>8 DEF ReportActiveSnapshot
<1>9. CASE HeartbeatRead
    BY <1>1, <1>9 DEF HeartbeatRead, HeartbeatTarget, CursorInv, Open
<1>10. CASE AdvanceWatermark
    <2>1. /\ beat' = 0 /\ tx' = tx /\ reclaimed' = Max({reclaimed, beat})
          /\ high_op' = high_op \/ high_op' = Max({high_op, beat})
        BY <1>10 DEF AdvanceWatermark
    <2>2. high_op' >= high_op /\ reclaimed' \in {reclaimed, beat}
        BY <1>1, <2>1, MaxOfTwo
    <2>3. \A t \in Open : tx[t].snapshot \in Nat
        BY Bounds DEF TypeOK, Open
    <2> QED BY <1>1, <2>1, <2>2, <2>3 DEF CursorInv, Open
<1>11. CASE RejectWatermark \/ NoEffect
    <2>1. beat' = 0 /\ UNCHANGED <<high_op, tx, reclaimed>>
        BY <1>11 DEF RejectWatermark, NoEffect
    <2> QED BY <1>1, <2>1, CursorKept DEF Open
<1>12. CASE Restart
    <2>1. high_op' >= high_op /\ beat' = 0 /\ reclaimed' = reclaimed /\ tx' = tx
        BY <1>12, RestartType DEF Restart
    <2> QED BY <1>1, <2>1, CursorKept DEF Open
<1>13. CASE UNCHANGED vars
    BY <1>1, <1>2, <1>13 DEF vars, volatile
<1> QED BY <1>3, <1>4, <1>5, <1>6, <1>7, <1>8, <1>9, <1>10, <1>11, <1>12, <1>13 DEF Next

\* The types of the rows, of the transactions and of the window hold; the
\* watermark's needs that the cursor has reached every target the heartbeat read.
THEOREM TypesCorrect == Spec => [](TypeOK /\ CursorInv)
<1>1. Init => TypeOK /\ CursorInv
    <2> SUFFICES ASSUME Init PROVE TypeOK /\ CursorInv
        OBVIOUS
    <2>1. Open = {}
        BY DEF Init, Open, NewTx
    <2>2. tx \in [Txs -> TxRecord]
        BY NewTxType, Bounds DEF Init
    <2>3. TypeOK
        BY <2>2, Bounds DEF Init, TypeOK, TxRecord
    <2> QED BY <2>1, <2>3, Bounds DEF Init, CursorInv
<1>2. TypeOK /\ CursorInv /\ [Next]_vars => TypeOK' /\ CursorInv'
    <2> SUFFICES ASSUME TypeOK, CursorInv, [Next]_vars PROVE TypeOK' /\ CursorInv'
        OBVIOUS
    <2>1. CASE UNCHANGED vars
        <3>1. TypeOK'
            BY <2>1 DEF vars, rows, volatile, TypeOK
        <3> QED BY <3>1, CursorStep
    <2>2. CASE Next
        <3>1. TypeOK'
            BY <2>2, CommitInstallType, CommitRefusedType, WriteType, WatermarkType, OtherType,
               RestartType DEF Next
        <3> QED BY <3>1, CursorStep
    <2> QED BY <2>1, <2>2
<1> QED BY <1>1, <1>2, PTL DEF Spec

\* A transaction that begins is never refused and never reads below a watermark
\* the collector was ever run with, although the heartbeat submits a target it
\* read earlier, the cursor stands still while a Txn writes above it, and a
\* restart forgets the watermark (heartbeat_target, AdvanceWatermark, Tx::begin).
THEOREM FreshSnapshotsServed == Spec => []FreshSnapshots
<1>1. CursorInv => FreshSnapshots
    BY DEF CursorInv, FreshSnapshots, CurrentCommitOpnum
<1> QED BY <1>1, TypesCorrect, PTL

----------------------------------------------------------------------------
(* Repeatable reads *)

\* What a read at snapshot s finds depends on the versions up to s.
LEMMA SameNewest ==
    ASSUME NEW k \in Keys, NEW s,
           \A n \in 1..s : versions'[k][n] # Absent <=> versions[k][n] # Absent
    PROVE  Newest(k, s)' = Newest(k, s)
<1> DEFINE S == {n \in 1..s : versions[k][n] # Absent}
           T == {n \in 1..s : versions'[k][n] # Absent}
<1>1. S = T
    OBVIOUS
<1>2. Newest(k, s) = Max({0} \cup S) /\ Newest(k, s)' = Max({0} \cup T)
    BY DEF Newest
<1> QED BY <1>1, <1>2

LEMMA SameVisible ==
    ASSUME TypeOK, NEW k \in Keys, NEW s \in 0..Top,
           \A n \in 1..s : versions'[k][n] = versions[k][n]
    PROVE  Visible(k, s)' = Visible(k, s)
<1>1. Newest(k, s)' = Newest(k, s)
    BY SameNewest
<1>2. Newest(k, s) \in 0..s /\ s \in Nat
    BY NewestOf, Bounds
<1>3. Newest(k, s) # 0 => Newest(k, s) \in 1..s
    BY <1>2
<1> QED BY <1>1, <1>3 DEF Visible

\* The rows a step leaves alone, or writes above everything a snapshot sees.
LEMMA VersionsStep ==
    ASSUME TypeOK, [Next]_vars
    PROVE  \/ UNCHANGED versions
           \/ /\ op + 1 > high_op
              /\ \A k \in Keys : \A n \in 1..Top : n <= op => versions'[k][n] = versions[k][n]
           \/ versions' = DeleteVersionsOlderThan(beat) /\ low_water_mark' = beat
<1>0. op \in Nat /\ Top \in Nat /\ \A k \in Keys : versions[k] \in Row
    BY Bounds DEF TypeOK, Opnums, Row
<1>1. ASSUME NEW W, NEW what, versions' = PutVersioned(W, what)
      PROVE  \A k \in Keys : \A n \in 1..Top : n <= op => versions'[k][n] = versions[k][n]
    BY <1>0, <1>1 DEF PutVersioned, Row
<1>2. ASSUME NEW ks \in TxnRows, versions' = PutMembers(ks)
      PROVE  \A k \in Keys : \A n \in 1..Top : n <= op => versions'[k][n] = versions[k][n]
    <2>1. ks \in Seq(Keys)
        BY MvccAssumption
    <2>2. \A i \in DOMAIN ks : i \in Nat /\ i >= 1
        BY <2>1
    <2>3. \A n \in 1..Top : n <= op => n - op \notin DOMAIN ks
        BY <1>0, <2>2
    <2> QED BY <1>2, <2>3 DEF PutMembers
<1>3. ASSUME NEW t \in Txs, NEW f \in Footprints,
             CommitConflict(t, f) \/ CommitDangerous(t, f) \/ CommitInstall(t, f)
      PROVE  \/ UNCHANGED versions
             \/ /\ op + 1 > high_op
                /\ \A k \in Keys : \A n \in 1..Top : n <= op => versions'[k][n] = versions[k][n]
    <2>1. CASE CommitInstall(t, f)
        BY <1>1, <2>1 DEF CommitInstall, Submitted, Applied
    <2> QED BY <1>3, <2>1 DEF CommitConflict, CommitDangerous, rows
<1>4. ASSUME NEW k \in Keys, NEW what, Put(k, what) \/ SkipPut(k, what)
      PROVE  \/ UNCHANGED versions
             \/ /\ op + 1 > high_op
                /\ \A l \in Keys : \A n \in 1..Top : n <= op => versions'[l][n] = versions[l][n]
    <2>1. CASE Put(k, what)
        BY <1>1, <2>1 DEF Put, Applied
    <2> QED BY <1>4, <2>1 DEF SkipPut
<1>5. ASSUME NEW ks \in TxnRows, Txn(ks)
      PROVE  /\ op + 1 > high_op
             /\ \A k \in Keys : \A n \in 1..Top : n <= op => versions'[k][n] = versions[k][n]
    BY <1>2, <1>5 DEF Txn, Applied
<1>6. CASE AdvanceWatermark
    BY <1>6 DEF AdvanceWatermark
<1>7. ASSUME NEW t \in Txs, Begin(t) \/ Drop(t) \/ SkipCommit(t) PROVE UNCHANGED versions
    BY <1>7 DEF Begin, Drop, SkipCommit, rows
<1>8. ASSUME NEW r \in Replicas, NEW m, ReportActiveSnapshot(r, m) PROVE UNCHANGED versions
    BY <1>8 DEF ReportActiveSnapshot, rows
<1>9. CASE HeartbeatRead \/ RejectWatermark \/ NoEffect \/ Restart \/ UNCHANGED vars
    BY <1>9 DEF HeartbeatRead, RejectWatermark, NoEffect, Restart, vars, rows
<1> QED BY <1>3, <1>4, <1>5, <1>6, <1>7, <1>8, <1>9 DEF Next

\* An open transaction that stays open keeps its snapshot.
LEMMA OpenStays ==
    ASSUME TypeOK, [Next]_vars, NEW t \in Open, tx'[t].state = "open"
    PROVE  tx'[t] = tx[t]
<1>1. t \in Txs /\ tx[t].state = "open"
    BY DEF Open
<1>2. ASSUME NEW u \in Txs, Begin(u) PROVE tx'[t] = tx[t]
    BY <1>1, <1>2 DEF Begin, TypeOK
<1>3. ASSUME NEW u \in Txs, NEW r, r.state # "open", tx' = [tx EXCEPT ![u] = r]
      PROVE  tx'[t] = tx[t]
    BY <1>1, <1>3 DEF TypeOK
<1>4. NewTx("closed", 0).state # "open"
    BY DEF NewTx
<1>5. ASSUME NEW u \in Txs, Drop(u) \/ SkipCommit(u) PROVE tx'[t] = tx[t]
    BY <1>3, <1>4, <1>5 DEF Drop, SkipCommit
<1>6. ASSUME NEW u \in Txs, NEW f \in Footprints,
             CommitConflict(u, f) \/ CommitDangerous(u, f) \/ CommitInstall(u, f)
      PROVE  tx'[t] = tx[t]
    <2>1. \E r : r.state # "open" /\ tx' = [tx EXCEPT ![u] = r]
        BY <1>6 DEF CommitConflict, CommitDangerous, CommitInstall, NewTx
    <2> QED BY <1>3, <2>1
<1>7. ASSUME NEW k \in Keys, NEW what, Put(k, what) \/ SkipPut(k, what) PROVE tx' = tx
    BY <1>7 DEF Put, SkipPut
<1>8. ASSUME NEW ks \in TxnRows, Txn(ks) PROVE tx' = tx
    BY <1>8 DEF Txn
<1>9. ASSUME NEW r \in Replicas, NEW m, ReportActiveSnapshot(r, m) PROVE tx' = tx
    BY <1>9 DEF ReportActiveSnapshot
<1>10. CASE \/ HeartbeatRead \/ AdvanceWatermark \/ RejectWatermark \/ NoEffect
            \/ UNCHANGED vars
    BY <1>10 DEF HeartbeatRead, AdvanceWatermark, RejectWatermark, NoEffect, vars
<1>11. CASE Restart
    BY <1>11 DEF Restart
<1> QED BY <1>2, <1>5, <1>6, <1>7, <1>8, <1>9, <1>10, <1>11 DEF Next

\* What an open transaction reads never changes, however many writes and commits
\* come in between, unless the collector reached the version it saw
\* (get_at_snapshot, put_versioned, delete_versions_older_than).
THEOREM ReadsStayTheSame == Spec => ReadsRepeat
<1> DEFINE A == \A t \in Open, k \in Keys :
                   LET s == tx[t].snapshot IN
                   tx'[t].state = "open" =>
                       \/ Visible(k, s)' = Visible(k, s)
                       \/ Newest(k, s) < low_water_mark'
<1>1. TypeOK /\ CursorInv /\ [Next]_vars => A
    <2> SUFFICES ASSUME TypeOK, CursorInv, [Next]_vars, NEW t \in Open, NEW k \in Keys,
                        tx'[t].state = "open"
                 PROVE  \/ Visible(k, tx[t].snapshot)' = Visible(k, tx[t].snapshot)
                        \/ Newest(k, tx[t].snapshot) < low_water_mark'
        OBVIOUS
    <2>1. PICK s : s = tx[t].snapshot
        OBVIOUS
    <2>2. tx'[t].snapshot = s
        BY <2>1, OpenStays
    <2>3. s \in 0..Top /\ s <= high_op /\ s \in Nat /\ Top \in Nat /\ high_op \in Nat /\ op \in Nat
        BY <2>1, Bounds DEF TypeOK, CursorInv, Open, Opnums
    <2>4. Visible(k, s)' = Visible(k, s) \/ Newest(k, s) < low_water_mark'
        <3>1. CASE UNCHANGED versions
            BY <2>3, <3>1, SameVisible
        <3>2. CASE /\ op + 1 > high_op
                   /\ \A l \in Keys : \A n \in 1..Top : n <= op => versions'[l][n] = versions[l][n]
            <4>1. \A n \in 1..s : n \in 1..Top /\ n <= op
                BY <2>3, <3>2
            <4> QED BY <2>3, <3>2, <4>1, SameVisible
        <3>3. CASE versions' = DeleteVersionsOlderThan(beat) /\ low_water_mark' = beat
            <4>1. \A n \in 1..s : n \in 1..Top
                BY <2>3
            <4>2. \A n \in 1..s : versions'[k][n] =
                     IF n < beat /\ versions[k][n] # Absent THEN Tombstone ELSE versions[k][n]
                BY <3>3, <4>1 DEF DeleteVersionsOlderThan
            <4>3. \A n \in 1..s : versions'[k][n] # Absent <=> versions[k][n] # Absent
                BY <4>2 DEF Absent, Tombstone
            <4>4. Newest(k, s)' = Newest(k, s)
                BY <4>3, SameNewest
            <4>5. Newest(k, s) \in 0..s /\ beat \in Nat
                BY <2>3, NewestOf, Bounds DEF TypeOK
            <4>6. CASE Newest(k, s) = 0
                BY <4>4, <4>6 DEF Visible
            <4>7. CASE Newest(k, s) # 0 /\ ~ (Newest(k, s) < beat)
                <5>1. Newest(k, s) \in 1..s
                    BY <2>3, <4>5, <4>7
                <5> QED BY <4>2, <4>4, <4>7, <5>1 DEF Visible
            <4> QED BY <3>3, <4>6, <4>7
        <3> QED BY <3>1, <3>2, <3>3, VersionsStep
    <2> QED BY <2>1, <2>2, <2>4
<1>2. TypeOK /\ CursorInv /\ [Next]_vars => [A]_vars
    BY <1>1
<1> QED BY <1>2, TypesCorrect, PTL DEF Spec, ReadsRepeat

----------------------------------------------------------------------------
(* Committed transactions *)

\* A step that is no accepted commit leaves the committed transactions alone.
LEMMA CommittedStep ==
    ASSUME TypeOK, [Next]_vars, ~ \E t \in Txs, f \in Footprints : CommitInstall(t, f)
    PROVE  /\ op' \in {op, op + 1}
           /\ \A u \in Committed' : u \in Committed /\ tx'[u] = tx[u]
<1>1. ASSUME tx' = tx PROVE \A u \in Committed' : u \in Committed /\ tx'[u] = tx[u]
    BY <1>1 DEF Committed
<1>2. ASSUME NEW t \in Txs, NEW r, r.state # "committed", tx' = [tx EXCEPT ![t] = r]
      PROVE  \A u \in Committed' : u \in Committed /\ tx'[u] = tx[u]
    BY <1>2 DEF Committed, TypeOK
<1>3. ASSUME NEW t \in Txs, Begin(t) \/ Drop(t) \/ SkipCommit(t)
      PROVE  /\ op' \in {op, op + 1}
             /\ \A u \in Committed' : u \in Committed /\ tx'[u] = tx[u]
    <2>1. \E r : r.state # "committed" /\ tx' = [tx EXCEPT ![t] = r]
        BY <1>3 DEF Begin, Drop, SkipCommit, NewTx
    <2>2. op' \in {op, op + 1}
        BY <1>3 DEF Begin, Drop, SkipCommit, Skipped
    <2> QED BY <1>2, <2>1, <2>2
<1>4. ASSUME NEW t \in Txs, NEW f \in Footprints, CommitConflict(t, f) \/ CommitDangerous(t, f)
      PROVE  /\ op' \in {op, op + 1}
             /\ \A u \in Committed' : u \in Committed /\ tx'[u] = tx[u]
    <2>1. \E r : r.state # "committed" /\ tx' = [tx EXCEPT ![t] = r]
        BY <1>4 DEF CommitConflict, CommitDangerous, NewTx
    <2>2. op' \in {op, op + 1}
        BY <1>4 DEF CommitConflict, CommitDangerous, Submitted, Applied
    <2> QED BY <1>2, <2>1, <2>2
<1>5. ASSUME NEW k \in Keys, NEW what, Put(k, what) \/ SkipPut(k, what)
      PROVE  op' \in {op, op + 1} /\ tx' = tx
    BY <1>5 DEF Put, SkipPut, Applied, Skipped
<1>6. ASSUME NEW ks \in TxnRows, Txn(ks) PROVE op' \in {op, op + 1} /\ tx' = tx
    BY <1>6 DEF Txn, Applied
<1>7. ASSUME NEW r \in Replicas, NEW m, ReportActiveSnapshot(r, m)
      PROVE  op' \in {op, op + 1} /\ tx' = tx
    BY <1>7 DEF ReportActiveSnapshot, Applied
<1>8. CASE \/ HeartbeatRead \/ AdvanceWatermark \/ RejectWatermark \/ NoEffect
           \/ UNCHANGED vars
    <2>1. op' \in {op, op + 1} /\ tx' = tx
        BY <1>8 DEF HeartbeatRead, AdvanceWatermark, RejectWatermark, NoEffect, Applied, vars
    <2> QED BY <1>1, <2>1
<1>9. CASE Restart
    <2>1. \A u \in Committed' : u \in Committed /\ tx'[u] = tx[u]
        BY <1>9 DEF Restart, NewTx, Committed
    <2> QED BY <1>9, <2>1 DEF Restart
<1> QED BY <1>1, <1>3, <1>4, <1>5, <1>6, <1>7, <1>8, <1>9 DEF Next

\* What an accepted commit of t adds.
LEMMA InstallStep ==
    ASSUME TypeOK, NEW t \in Txs, NEW f \in Footprints, CommitInstall(t, f)
    PROVE  /\ op' = op + 1 /\ op \in Nat /\ op + 1 \in 1..Top
           /\ t \notin Committed /\ t \in Committed'
           /\ \A u \in Committed' : u = t \/ (u \in Committed /\ tx'[u] = tx[u])
           /\ tx'[t].commit = op + 1 /\ tx'[t].snapshot = tx[t].snapshot
           /\ tx'[t].reads = f.reads /\ tx'[t].writes = f.writes
           /\ tx[t].snapshot \in Nat
<1>1. op < MaxOp /\ op' = op + 1 /\ tx[t].state = "open"
    BY DEF CommitInstall, Submitted, Applied
<1> DEFINE r == [state |-> "committed", snapshot |-> tx[t].snapshot,
                 reads |-> f.reads, writes |-> f.writes, commit |-> op + 1]
<1>2. tx' = [tx EXCEPT ![t] = r]
    BY DEF CommitInstall
<1>3. /\ r.state = "committed" /\ r.snapshot = tx[t].snapshot /\ r.reads = f.reads
      /\ r.writes = f.writes /\ r.commit = op + 1
    OBVIOUS
<1> HIDE DEF r
<1>4. tx'[t] = r /\ \A u \in Txs \ {t} : tx'[u] = tx[u]
    BY <1>2 DEF TypeOK
<1>5. tx[t].snapshot \in Nat
    BY Bounds DEF TypeOK
<1> QED BY <1>1, <1>3, <1>4, <1>5, NextOp DEF Committed

LEMMA CommitInvStep ==
    ASSUME TypeOK, CommitInv, FirstCommitterWins, [Next]_vars
    PROVE  CommitInv' /\ FirstCommitterWins'
<1>0. op \in Nat /\ \A u \in Committed : tx[u].commit \in Nat /\ tx[u].writes \in SUBSET Keys
    BY DEF TypeOK, Opnums, Committed
<1>1. \A k \in Keys : \A n \in 1..op : versions[k][n] # Absent => versions'[k][n] # Absent
    <2>1. \A n \in 1..op : n \in 1..Top /\ n <= op
        BY Bounds DEF TypeOK, Opnums
    <2>2. CASE versions' = DeleteVersionsOlderThan(beat)
        BY <2>1, <2>2 DEF DeleteVersionsOlderThan, Absent, Tombstone
    <2> QED BY <2>1, <2>2, VersionsStep
<1>2. CASE ~ \E t \in Txs, f \in Footprints : CommitInstall(t, f)
    <2>1. /\ op' \in {op, op + 1}
          /\ \A u \in Committed' : u \in Committed /\ tx'[u] = tx[u]
        BY <1>2, CommittedStep
    <2>2. \A u \in Committed' : tx'[u].commit \in 1..op'
        BY <1>0, <2>1 DEF CommitInv
    <2>3. \A u \in Committed' : \A k \in tx'[u].writes : versions'[k][tx'[u].commit] # Absent
        BY <1>0, <1>1, <2>1 DEF CommitInv
    <2>4. \A u, w \in Committed' : tx'[u].commit = tx'[w].commit => u = w
        BY <2>1 DEF CommitInv
    <2>5. FirstCommitterWins'
        BY <2>1 DEF FirstCommitterWins
    <2> QED BY <2>2, <2>3, <2>4, <2>5 DEF CommitInv
<1>3. ASSUME NEW t \in Txs, NEW f \in Footprints, CommitInstall(t, f)
      PROVE  CommitInv' /\ FirstCommitterWins'
    <2>1. /\ op' = op + 1 /\ op + 1 \in 1..Top /\ t \notin Committed
          /\ \A u \in Committed' : u = t \/ (u \in Committed /\ tx'[u] = tx[u])
          /\ tx'[t].commit = op + 1 /\ tx'[t].snapshot = tx[t].snapshot
          /\ tx'[t].writes = f.writes /\ tx[t].snapshot \in Nat
        BY <1>3, InstallStep
    <2>2. \A u \in Committed' : tx'[u].commit \in 1..op'
        BY <1>0, <2>1 DEF CommitInv
    <2>3. ASSUME NEW k \in f.writes PROVE versions'[k][op + 1] # Absent
        <3>1. k \in Keys /\ versions[k] \in Row
            BY Bounds DEF TypeOK, Row
        <3>2. versions'[k] = [versions[k] EXCEPT ![op + 1] = Written(f)[k]]
            BY <1>3, <3>1 DEF CommitInstall, PutVersioned
        <3>3. versions'[k][op + 1] = Written(f)[k]
            BY <2>1, <3>1, <3>2 DEF Row
        <3> QED BY <1>0, <3>3 DEF Written, Absent, Tombstone
    <2>4. \A u \in Committed' : \A k \in tx'[u].writes : versions'[k][tx'[u].commit] # Absent
        BY <1>0, <1>1, <2>1, <2>3 DEF CommitInv
    <2>5. \A u, w \in Committed' : tx'[u].commit = tx'[w].commit => u = w
        <3>1. \A u \in Committed : tx[u].commit # op + 1
            BY <1>0 DEF CommitInv
        <3> QED BY <2>1, <3>1 DEF CommitInv
    <2>6. ASSUME NEW u \in Committed, NEW k \in tx[u].writes, k \in f.writes
          PROVE  tx[u].commit <= tx[t].snapshot
        <3>1. ~ HasVersionInRange(k, tx[t].snapshot, op)
            BY <1>3, <2>6 DEF CommitInstall, Conflict
        <3>2. versions[k][tx[u].commit] # Absent /\ tx[u].commit \in 1..op
            BY DEF CommitInv
        <3>3. tx[u].commit \notin (tx[t].snapshot + 1)..op
            BY <3>1, <3>2 DEF HasVersionInRange
        <3> QED BY <1>0, <2>1, <3>2, <3>3
    <2>7. ASSUME NEW u \in Committed', NEW w \in Committed', tx'[u].commit < tx'[w].commit,
                 tx'[u].writes \cap tx'[w].writes # {}
          PROVE  tx'[u].commit <= tx'[w].snapshot
        <3>1. u # t
            <4>1. tx'[w].commit \in 1..(op + 1)
                BY <2>1, <2>2
            <4> QED BY <1>0, <2>1, <2>7, <4>1
        <3>2. CASE w = t
            <4>1. PICK k : k \in tx[u].writes /\ k \in f.writes
                BY <2>1, <2>7, <3>1, <3>2
            <4> QED BY <2>1, <2>6, <3>1, <3>2, <4>1
        <3>3. CASE w # t
            BY <2>1, <2>7, <3>1, <3>3 DEF FirstCommitterWins
        <3> QED BY <3>2, <3>3
    <2> QED BY <2>2, <2>4, <2>5, <2>7 DEF CommitInv, FirstCommitterWins
<1> QED BY <1>2, <1>3

\* Commit numbers are distinct and every version a commit made is still there, a
\* value or a tombstone; with that the write-write check is an invariant.
THEOREM CommitsCorrect == Spec => [](CommitInv /\ FirstCommitterWins)
<1>1. Init => CommitInv /\ FirstCommitterWins
    <2> SUFFICES ASSUME Init PROVE CommitInv /\ FirstCommitterWins
        OBVIOUS
    <2>1. Committed = {}
        BY DEF Init, NewTx, Committed
    <2> QED BY <2>1 DEF CommitInv, FirstCommitterWins
<1>2. TypeOK /\ CommitInv /\ FirstCommitterWins /\ [Next]_vars
          => CommitInv' /\ FirstCommitterWins'
    BY CommitInvStep
<1> QED BY <1>1, <1>2, TypesCorrect, PTL DEF Spec

\* The write-write check of CommitTx, for any number of transactions and rows:
\* of two committed writers of a row, the later one had the earlier one in its
\* snapshot, through watermarks, tombstones and restarts (has_version_in_range).
THEOREM FirstCommitterWon == Spec => []FirstCommitterWins
BY CommitsCorrect, PTL

----------------------------------------------------------------------------
(* The serializability check *)

\* q is the record p with at least its tags.
Grows(p, q) ==
    /\ q.commit = p.commit /\ q.reads = p.reads /\ q.writes = p.writes
    /\ p.incoming => q.incoming
    /\ p.outgoing => q.outgoing

\* The records the horizon does not cover stay, with their tags.
PendingKept ==
    /\ horizon' >= horizon
    /\ \A p \in pending_txs : p.commit > horizon' => \E q \in pending_txs' : Grows(p, q)

LEMMA GrowsReflexive == \A p : Grows(p, p)
BY DEF Grows

LEMMA TaggedWindowKeeps ==
    ASSUME TypeOK, NEW t \in Txs, NEW f \in Footprints, NEW p \in pending_txs,
           horizon' = Forget(pending_txs \ Window(f)), p.commit > horizon'
    PROVE  /\ p \in Window(f)
           /\ p \in Rivals(t, f) => Tagged(p, f.reads, f.writes) \in TaggedWindow(t, f)
           /\ p \notin Rivals(t, f) => p \in TaggedWindow(t, f)
           /\ \E q \in TaggedWindow(t, f) : Grows(p, q)
<1>1. pending_txs \ Window(f) \in SUBSET pending_txs
    OBVIOUS
<1>2. /\ horizon' \in Nat /\ p.commit \in Nat
      /\ p \in pending_txs \ Window(f) => p.commit <= horizon'
    BY <1>1, ForgetIs DEF TypeOK, Opnums
<1>3. p \in Window(f)
    BY <1>2
<1>4. p \in SsiRecord
    BY WindowTypes
<1>5. Grows(p, Tagged(p, f.reads, f.writes))
    BY <1>4, TaggedIs DEF Grows
<1>6. /\ p \in Rivals(t, f) => Tagged(p, f.reads, f.writes) \in TaggedWindow(t, f)
      /\ p \notin Rivals(t, f) => p \in TaggedWindow(t, f)
    BY <1>3 DEF TaggedWindow
<1> QED BY <1>3, <1>5, <1>6, GrowsReflexive

LEMMA PendingStep ==
    ASSUME TypeOK, [Next]_vars
    PROVE  PendingKept
<1>0. horizon \in Nat /\ horizon >= horizon /\ \A p \in pending_txs : p.commit \in Nat
    BY DEF TypeOK, Opnums
<1>1. ASSUME UNCHANGED <<pending_txs, horizon>> PROVE PendingKept
    BY <1>0, <1>1, GrowsReflexive DEF PendingKept
<1>2. ASSUME NEW kept \in SUBSET pending_txs, pending_txs' = kept,
             horizon' = Forget(pending_txs \ kept)
      PROVE  PendingKept
    <2>1. pending_txs \ kept \in SUBSET pending_txs
        OBVIOUS
    <2>2. /\ horizon' \in Nat /\ horizon' >= horizon
          /\ \A p \in pending_txs \ kept : p.commit <= horizon'
        BY <1>2, <2>1, ForgetIs DEF Opnums
    <2>3. \A p \in pending_txs : p.commit > horizon' => p \in kept
        BY <1>0, <2>2
    <2> QED BY <1>2, <2>2, <2>3, GrowsReflexive DEF PendingKept
<1>3. ASSUME NEW t \in Txs, NEW f \in Footprints, TaggedWindow(t, f) \subseteq pending_txs',
             horizon' = Forget(pending_txs \ Window(f))
      PROVE  PendingKept
    <2>1. pending_txs \ Window(f) \in SUBSET pending_txs
        OBVIOUS
    <2>2. horizon' >= horizon
        BY <1>3, <2>1, ForgetIs
    <2> QED BY <1>3, <2>2, TaggedWindowKeeps DEF PendingKept
<1>4. ASSUME NEW t \in Txs, NEW f \in Footprints,
             CommitConflict(t, f) \/ CommitDangerous(t, f) \/ CommitInstall(t, f)
      PROVE  PendingKept
    BY <1>1, <1>3, <1>4 DEF CommitConflict, CommitDangerous, CommitInstall
<1>5. CASE AdvanceWatermark
    BY <1>2, <1>5 DEF AdvanceWatermark, Kept
<1>6. CASE Restart
    <2>1. pending_txs \ {} = pending_txs /\ {} \in SUBSET pending_txs
        OBVIOUS
    <2>2. pending_txs' = {} /\ horizon' = Forget(pending_txs \ {})
        BY <1>6, <2>1 DEF Restart
    <2> QED BY <1>2, <2>1, <2>2
<1>7. ASSUME NEW t \in Txs, Begin(t) \/ Drop(t) \/ SkipCommit(t) PROVE PendingKept
    BY <1>1, <1>7 DEF Begin, Drop, SkipCommit, volatile
<1>8. ASSUME NEW k \in Keys, NEW what, Put(k, what) \/ SkipPut(k, what) PROVE PendingKept
    BY <1>1, <1>8 DEF Put, SkipPut, volatile
<1>9. ASSUME NEW ks \in TxnRows, Txn(ks) PROVE PendingKept
    BY <1>1, <1>9 DEF Txn, volatile
<1>10. ASSUME NEW r \in Replicas, NEW m, ReportActiveSnapshot(r, m) PROVE PendingKept
    BY <1>1, <1>10 DEF ReportActiveSnapshot
<1>11. CASE HeartbeatRead \/ RejectWatermark \/ NoEffect \/ UNCHANGED vars
    BY <1>1, <1>11 DEF HeartbeatRead, RejectWatermark, NoEffect, vars, volatile
<1> QED BY <1>4, <1>5, <1>6, <1>7, <1>8, <1>9, <1>10, <1>11 DEF Next

LEMMA TrackedTypes ==
    ASSUME TypeOK, CommitInv
    PROVE  \A t \in Tracked : /\ t \in Committed /\ tx[t].reads # {}
                              /\ tx[t].commit \in Nat /\ tx[t].commit \in 1..op
                              /\ tx[t].snapshot \in Nat
BY Bounds DEF TypeOK, CommitInv, Tracked, Committed, Opnums

LEMMA WindowInvStep ==
    ASSUME TypeOK, TypeOK', CommitInv, WindowInv, [Next]_vars
    PROVE  WindowInv'
<1>0. /\ horizon \in Nat /\ horizon' \in Nat /\ op \in Nat
      /\ \A u \in Tracked : tx[u].commit \in Nat /\ tx[u].commit \in 1..op
    <2>1. horizon \in Nat /\ horizon' \in Nat /\ op \in Nat
        BY DEF TypeOK, Opnums
    <2> QED BY <2>1, TrackedTypes
<1>1. PendingKept
    BY PendingStep
<1>2. CASE ~ \E t \in Txs, f \in Footprints : CommitInstall(t, f)
    <2>1. \A u \in Tracked' : u \in Tracked /\ tx'[u] = tx[u]
        BY <1>2, CommittedStep DEF Tracked
    <2>2. ASSUME NEW t \in Tracked', tx'[t].commit > horizon'
          PROVE  \E q \in pending_txs' : RecordOf(q, t)'
        <3>1. t \in Tracked /\ tx'[t] = tx[t] /\ tx[t].commit > horizon
            BY <1>0, <1>1, <2>1, <2>2 DEF PendingKept
        <3>2. PICK p \in pending_txs : RecordOf(p, t)
            BY <3>1 DEF WindowInv
        <3>3. PICK q \in pending_txs' : Grows(p, q)
            BY <1>1, <2>2, <3>1, <3>2 DEF PendingKept, RecordOf
        <3>4. RecordOf(q, t)'
            BY <2>1, <3>1, <3>2, <3>3 DEF RecordOf, Grows, WroteIn, ReadIn
        <3> QED BY <3>4
    <2> QED BY <2>2 DEF WindowInv
<1>3. ASSUME NEW t \in Txs, NEW f \in Footprints, CommitInstall(t, f)
      PROVE  WindowInv'
    <2>1. /\ op' = op + 1 /\ t \notin Committed
          /\ \A u \in Committed' : u = t \/ (u \in Committed /\ tx'[u] = tx[u])
          /\ tx'[t].commit = op + 1 /\ tx'[t].snapshot = tx[t].snapshot
          /\ tx'[t].reads = f.reads /\ tx'[t].writes = f.writes /\ tx[t].snapshot \in Nat
        BY <1>3, InstallStep
    <2>2. \A u \in Tracked' : u = t \/ (u \in Tracked /\ tx'[u] = tx[u])
        BY <2>1 DEF Tracked
    <2>3. ASSUME NEW u \in Tracked, u \in Tracked', tx'[u] = tx[u], tx[u].commit > horizon', u # t
          PROVE  \E q \in pending_txs' : RecordOf(q, u)'
        <3>1. tx[u].commit > horizon
            BY <1>0, <1>1, <2>3 DEF PendingKept
        <3>2. PICK p \in pending_txs : RecordOf(p, u)
            BY <3>1 DEF WindowInv
        <3>3. p.commit = tx[u].commit /\ p \in SsiRecord
            BY <1>3, <3>2, WindowTypes DEF RecordOf
        <3>4. horizon' = Forget(pending_txs \ Window(f)) /\ TaggedWindow(t, f) \subseteq pending_txs'
            BY <1>3 DEF CommitInstall
        <3>5. /\ p \in Window(f)
              /\ p \in Rivals(t, f) => Tagged(p, f.reads, f.writes) \in pending_txs'
              /\ p \notin Rivals(t, f) => p \in pending_txs'
            BY <2>3, <3>3, <3>4, TaggedWindowKeeps
        <3>6. CASE p \in Rivals(t, f)
            <4> DEFINE q == Tagged(p, f.reads, f.writes)
            <4>1. /\ q.commit = p.commit /\ q.reads = p.reads /\ q.writes = p.writes
                  /\ q.incoming <=> (p.incoming \/ WroteIn(p, f.reads))
                  /\ q.outgoing <=> (p.outgoing \/ ReadIn(p, f.writes))
                BY <3>3, TaggedIs
            <4>2. q \in pending_txs'
                BY <3>5, <3>6
            <4> HIDE DEF q
            <4>3. RecordOf(q, u)'
                BY <2>1, <2>2, <2>3, <3>2, <4>1 DEF RecordOf, WroteIn, ReadIn
            <4> QED BY <4>2, <4>3
        <3>7. CASE p \notin Rivals(t, f)
            <4>1. t \in Tracked' => ~ (tx'[t].snapshot < tx[u].commit)
                <5>1. t \in Tracked' => f.reads # {}
                    BY <2>1 DEF Tracked
                <5>2. tx[u].commit < op + 1
                    BY <1>0
                <5>3. f.reads # {} => ~ (tx[t].snapshot < p.commit /\ p.commit < op + 1)
                    BY <3>5, <3>7 DEF Rivals, Concurrent
                <5> QED BY <2>1, <3>3, <5>1, <5>2, <5>3
            <4>2. RecordOf(p, u)'
                BY <2>2, <2>3, <3>2, <4>1 DEF RecordOf, WroteIn, ReadIn
            <4> QED BY <3>5, <3>7, <4>2
        <3> QED BY <3>6, <3>7
    <2>4. ASSUME t \in Tracked'
          PROVE  \E q \in pending_txs' : RecordOf(q, t)'
        <3>1. f.reads # {}
            BY <2>1, <2>4 DEF Tracked
        <3>2. Record(t, f) \in pending_txs'
            BY <1>3, <3>1 DEF CommitInstall
        <3>3. \A u \in Tracked' : ~ (tx'[u].commit > tx'[t].commit)
            BY <1>0, <2>1, <2>2
        <3>4. /\ Record(t, f).commit = op + 1 /\ Record(t, f).reads = f.reads
              /\ Record(t, f).writes = f.writes
            BY DEF Record
        <3>5. PICK q : q = Record(t, f)
            OBVIOUS
        <3>6. RecordOf(q, t)'
            BY <2>1, <3>3, <3>4, <3>5 DEF RecordOf
        <3> QED BY <3>2, <3>5, <3>6
    <2>5. \A u \in Tracked' : u # t => u \in Tracked /\ tx'[u] = tx[u]
        BY <2>2
    <2> QED BY <2>3, <2>4, <2>5 DEF WindowInv
<1> QED BY <1>2, <1>3


LEMMA PivotStep ==
    ASSUME TypeOK, TypeOK', CommitInv, CommitInv', WindowInv, PivotSeen, [Next]_vars
    PROVE  PivotSeen'
<1>0. /\ horizon \in Nat /\ horizon' \in Nat /\ op \in Nat
      /\ \A u \in Tracked : tx[u].commit \in Nat /\ tx[u].commit \in 1..op /\ tx[u].snapshot \in Nat
    <2>1. horizon \in Nat /\ horizon' \in Nat /\ op \in Nat
        BY DEF TypeOK, Opnums
    <2> QED BY <2>1, TrackedTypes
<1>1. horizon' >= horizon
    BY PendingStep DEF PendingKept
<1> SUFFICES ASSUME NEW i \in Tracked', NEW p \in Tracked', NEW o \in Tracked',
                    Precedes(i, p)', Overlap(i, p)', Precedes(p, o)', Overlap(p, o)',
                    \A t \in {i, p, o} : \/ tx'[t].snapshot >= horizon'
                                         \/ \E u \in {i, p, o} : tx'[u].commit > tx'[t].commit
             PROVE  (tx'[i].commit < tx'[p].commit) # (tx'[o].commit < tx'[p].commit)
    BY DEF PivotSeen
<1>2. /\ i # p /\ tx'[i].reads \cap tx'[p].writes # {}
      /\ p # o /\ tx'[p].reads \cap tx'[o].writes # {}
      /\ tx'[i].snapshot < tx'[p].commit /\ tx'[p].snapshot < tx'[i].commit
      /\ tx'[p].snapshot < tx'[o].commit /\ tx'[o].snapshot < tx'[p].commit
    BY DEF Precedes, Overlap
<1>3. CASE /\ i \in Tracked /\ tx'[i] = tx[i] /\ p \in Tracked /\ tx'[p] = tx[p]
           /\ o \in Tracked /\ tx'[o] = tx[o]
    <2>1. Precedes(i, p) /\ Overlap(i, p) /\ Precedes(p, o) /\ Overlap(p, o)
        BY <1>2, <1>3 DEF Precedes, Overlap
    <2>2. \A t \in {i, p, o} : \/ tx[t].snapshot >= horizon
                               \/ \E u \in {i, p, o} : tx[u].commit > tx[t].commit
        BY <1>0, <1>1, <1>3
    <2> QED BY <1>3, <2>1, <2>2 DEF PivotSeen
<1>4. CASE ~ \E t \in Txs, f \in Footprints : CommitInstall(t, f)
    <2>1. \A u \in Tracked' : u \in Tracked /\ tx'[u] = tx[u]
        BY <1>4, CommittedStep DEF Tracked
    <2> QED BY <1>3, <2>1
<1>5. ASSUME NEW t \in Txs, NEW f \in Footprints, CommitInstall(t, f), t \in {i, p, o}
      PROVE  (tx'[i].commit < tx'[p].commit) # (tx'[o].commit < tx'[p].commit)
    <2>1. /\ op' = op + 1 /\ t \notin Committed
          /\ \A u \in Committed' : u = t \/ (u \in Committed /\ tx'[u] = tx[u])
          /\ tx'[t].commit = op + 1 /\ tx'[t].snapshot = tx[t].snapshot
          /\ tx'[t].reads = f.reads /\ tx'[t].writes = f.writes /\ tx[t].snapshot \in Nat
        BY <1>5, InstallStep
    <2>2. \A u \in Tracked' : u = t \/ (u \in Tracked /\ tx'[u] = tx[u])
        BY <2>1 DEF Tracked
    <2>3. \A u \in Tracked' : tx'[u].commit \in Nat /\ (u # t => tx'[u].commit < op + 1)
        BY <1>0, <2>1, <2>2
    <2>4. tx[t].snapshot >= horizon'
        BY <1>0, <1>5, <2>1, <2>3
    <2>5. f.reads # {}
        BY <1>5, <2>1 DEF Tracked
    <2>6. ~ Dangerous(Rivals(t, f), f.reads, f.writes)
        BY <1>5 DEF CommitInstall
    \* The record of an earlier one of the three that t did not see is found.
    <2>7. ASSUME NEW u \in Tracked', u # t, tx[t].snapshot < tx'[u].commit
          PROVE  u \in Tracked /\ tx'[u] = tx[u]
                 /\ \E q \in Rivals(t, f) : q \in SsiRecord /\ RecordOf(q, u)
        <3>1. u \in Tracked /\ tx'[u] = tx[u]
            BY <2>2, <2>7
        <3>2. tx[u].commit > horizon' /\ tx[u].commit > horizon
            BY <1>0, <1>1, <2>1, <2>4, <2>7, <3>1
        <3>3. PICK q \in pending_txs : RecordOf(q, u)
            BY <3>1, <3>2 DEF WindowInv
        <3>4. q.commit = tx[u].commit
            BY <3>3 DEF RecordOf
        <3>5. horizon' = Forget(pending_txs \ Window(f))
            BY <1>5 DEF CommitInstall
        <3>6. q \in Window(f)
            BY <3>2, <3>4, <3>5, TaggedWindowKeeps
        <3>7. q \in Rivals(t, f)
            BY <2>3, <2>5, <2>7, <3>1, <3>4, <3>6 DEF Rivals, Concurrent
        <3>8. q \in SsiRecord
            BY WindowTypes
        <3> QED BY <3>1, <3>3, <3>7, <3>8
    <2>8. CASE t = p
        <3>1. i # t /\ o # t /\ i \in Tracked /\ o \in Tracked /\ tx'[i] = tx[i] /\ tx'[o] = tx[o]
            BY <1>2, <2>2, <2>8
        <3>2. PICK a \in Rivals(t, f) : a \in SsiRecord /\ RecordOf(a, i)
            BY <1>2, <2>1, <2>7, <2>8, <3>1
        <3>3. PICK b \in Rivals(t, f) : b \in SsiRecord /\ RecordOf(b, o)
            BY <1>2, <2>1, <2>7, <2>8, <3>1
        <3>4. ReadIn(a, f.writes)
            BY <1>2, <2>1, <2>8, <3>1, <3>2 DEF RecordOf, ReadIn
        <3>5. WroteIn(b, f.reads)
            <4>1. b.writes = tx[o].writes
                BY <3>3 DEF RecordOf
            <4> QED BY <1>2, <2>1, <2>8, <3>1, <4>1 DEF WroteIn
        <3> QED BY <2>6, <3>4, <3>5 DEF Dangerous
    \* p committed before t: its record would have both tags.
    <2>9. ASSUME t # p,
                 t = i \/ (i \in Tracked /\ tx'[i] = tx[i] /\ tx[i].commit > tx[p].commit),
                 t = o \/ (o \in Tracked /\ tx'[o] = tx[o] /\ tx[o].commit > tx[p].commit)
          PROVE  FALSE
        <3>1. p \in Tracked /\ tx'[p] = tx[p] /\ \E q \in Rivals(t, f) : q \in SsiRecord /\ RecordOf(q, p)
            BY <1>2, <1>5, <2>1, <2>7, <2>8, <2>9
        <3>2. PICK q \in Rivals(t, f) : q \in SsiRecord /\ RecordOf(q, p)
            BY <3>1
        <3>3. q.reads = tx[p].reads /\ q.writes = tx[p].writes
            BY <3>2 DEF RecordOf
        <3>4. q.incoming \/ WroteIn(q, f.reads)
            <4>1. CASE t = i
                BY <1>2, <2>1, <3>1, <3>3, <4>1 DEF WroteIn
            <4>2. CASE i \in Tracked /\ tx'[i] = tx[i] /\ tx[i].commit > tx[p].commit
                <5>1. WroteIn(q, tx[i].reads)
                    BY <1>2, <3>1, <3>3, <4>2 DEF WroteIn
                <5>2. tx[i].snapshot < tx[p].commit
                    BY <1>2, <3>1, <4>2
                <5> QED BY <3>2, <4>2, <5>1, <5>2 DEF RecordOf
            <4> QED BY <2>9, <4>1, <4>2
        <3>5. q.outgoing \/ ReadIn(q, f.writes)
            <4>1. CASE t = o
                BY <1>2, <2>1, <3>1, <3>3, <4>1 DEF ReadIn
            <4>2. CASE o \in Tracked /\ tx'[o] = tx[o] /\ tx[o].commit > tx[p].commit
                <5>1. ReadIn(q, tx[o].writes)
                    BY <1>2, <3>1, <3>3, <4>2 DEF ReadIn
                <5>2. tx[o].snapshot < tx[p].commit
                    BY <1>2, <3>1, <4>2
                <5> QED BY <3>2, <4>2, <5>1, <5>2 DEF RecordOf
            <4> QED BY <2>9, <4>1, <4>2
        <3>6. Tagged(q, f.reads, f.writes).incoming /\ Tagged(q, f.reads, f.writes).outgoing
            BY <3>2, <3>4, <3>5, TaggedIs
        <3> QED BY <2>6, <3>2, <3>6 DEF Dangerous
    <2>10. CASE t # p
        <3>1. p \in Tracked /\ tx'[p] = tx[p] /\ tx'[p].commit < op + 1
            BY <2>2, <2>3, <2>10
        <3>2. \A u \in Tracked' : u = t \/ u = p \/ tx'[u].commit < tx'[p].commit
                                 \/ (u \in Tracked /\ tx'[u] = tx[u] /\ tx[u].commit > tx[p].commit)
            <4>1. ASSUME NEW u \in Tracked', u # t, u # p
                  PROVE  u \in Tracked /\ tx'[u] = tx[u] /\ tx[u].commit # tx[p].commit
                BY <2>2, <3>1, <4>1 DEF CommitInv, Tracked
            <4>2. \A u \in Tracked' : tx'[u].commit \in Nat
                BY <2>3
            <4> QED BY <3>1, <4>1, <4>2
        <3>3. ~ (tx'[t].commit < tx'[p].commit)
            BY <2>1, <2>3, <3>1
        <3>4. tx'[i].commit < tx'[p].commit \/ tx'[o].commit < tx'[p].commit
            BY <1>2, <2>9, <2>10, <3>2
        <3>5. CASE tx'[i].commit < tx'[p].commit
            <4>1. t = o
                BY <1>5, <2>10, <3>3, <3>5
            <4> QED BY <3>3, <3>5, <4>1
        <3>6. CASE tx'[o].commit < tx'[p].commit
            <4>1. t = i
                BY <1>5, <2>10, <3>3, <3>6
            <4> QED BY <3>3, <3>6, <4>1
        <3> QED BY <3>4, <3>5, <3>6
    <2> QED BY <2>8, <2>10
<1>6. ASSUME NEW t \in Txs, NEW f \in Footprints, CommitInstall(t, f), t \notin {i, p, o}
      PROVE  (tx'[i].commit < tx'[p].commit) # (tx'[o].commit < tx'[p].commit)
    <2>1. \A u \in Committed' : u = t \/ (u \in Committed /\ tx'[u] = tx[u])
        BY <1>6, InstallStep
    <2>2. \A u \in Tracked' : u = t \/ (u \in Tracked /\ tx'[u] = tx[u])
        BY <2>1 DEF Tracked
    <2> QED BY <1>3, <1>6, <2>2
<1> QED BY <1>4, <1>5, <1>6

\* Every pivot whose last transaction still had the records it needs was refused,
\* write skew included, however commits, refusals, prunings and restarts
\* interleave (detect_dangerous_structure, prune_pending_txs).
THEOREM PivotsRefused == Spec => []PivotSeen
<1>1. Init => WindowInv /\ PivotSeen
    <2> SUFFICES ASSUME Init PROVE WindowInv /\ PivotSeen
        OBVIOUS
    <2>1. Tracked = {}
        BY DEF Init, NewTx, Committed, Tracked
    <2> QED BY <2>1 DEF WindowInv, PivotSeen
<1>2. /\ TypeOK /\ TypeOK' /\ CommitInv /\ CommitInv' /\ WindowInv /\ PivotSeen /\ [Next]_vars
      => WindowInv' /\ PivotSeen'
    BY WindowInvStep, PivotStep
<1> QED BY <1>1, <1>2, TypesCorrect, CommitsCorrect, PTL DEF Spec


============================================================================
