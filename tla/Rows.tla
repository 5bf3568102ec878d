-------------------------------- MODULE Rows --------------------------------
(***************************************************************************)
(* Tables, rows, indexes and constraints of one state machine (the data    *)
(* and schema arms of kessel-sm `apply`, with the read cache of            *)
(* kessel-cache).                                                          *)
(*                                                                         *)
(* Operations are applied one at a time.  An operation outside a           *)
(* transaction writes its keys one by one: the row, then each index entry, *)
(* then the counter; a table's schema, then the entries of a new index.    *)
(* It is modelled by its stages, the stores after each of these writes; a  *)
(* crash keeps one of them, and the replay guard never runs the rest.  A   *)
(* deletion and a Txn collect their writes and append them in key order.   *)
(*                                                                         *)
(* A write of a row is a version of it, numbered by the operation, or by   *)
(* the place of the member in a Txn: member i has the number of the Txn    *)
(* plus i.  Reads find the highest version, so the operations that come    *)
(* after a Txn may write versions nobody sees.                             *)
(*                                                                         *)
(* A column holds an object id or NULL.  The bytes of a NULL are zero, as  *)
(* are those of id 0, and an index sees only bytes.                        *)
(***************************************************************************)
EXTENDS Integers, Sequences, FiniteSets, FiniteSetsExt, SequencesExt

CONSTANTS
    Ids,         \* Ids[t]: the object ids rows of type t may have
    Declared,    \* Declared[t]: columns of CREATE TABLE, as field ids
    SerialField, \* SerialField[t]: the column, if any, that shows the id of
                 \* a type with autoincrement ids
    SerialMax,   \* the last id autoincrement hands out (u64::MAX)
    Inputs,      \* Inputs[t]: values of whole records of t
    Sets,        \* columns and values of an UpdateSet: <<t, f, v>>
    FkOptions,   \* columns that may reference a type: <<t, f, rt, ON DELETE>>
    Indexable,   \* single-column indexes that may be asked for: <<t, f>>
    Composites,  \* composite indexes that may be asked for: <<t, cols>>
    Batches,     \* operations of a Txn
    Capacity,    \* entries of the read cache
    MaxField,    \* bound: field ids
    MaxEvents    \* bound: schema changes of existing tables, operations with
                 \* a write nobody sees, and, for two, operations cut by a crash

Types == DOMAIN Declared
Serial == DOMAIN SerialField
NULL == -1
SERIAL_SENTINEL == -2
Fields == 1..MaxField
Keys == {<<t, i>> \in Types \X UNION {Ids[t] : t \in Types} : i \in Ids[t]}

\* Keys are stored by type, then by object id.
KeyOrder == SetToSortSeq(Keys, LAMBDA k, l : k[1] < l[1] \/ (k[1] = l[1] /\ k[2] < l[2]))
InOrder(ks) == SelectSeq(KeyOrder, LAMBDA k : k \in ks)

ASSUME RowsAssumption ==
    /\ Types = 1..Cardinality(Types)
    /\ DOMAIN Ids = Types /\ DOMAIN Inputs = Types
    /\ \A t \in Types : /\ Ids[t] \subseteq Nat /\ Inputs[t] \subseteq Nat \cup {NULL}
                        /\ Declared[t] # {} /\ Declared[t] \subseteq Fields
    /\ \A o \in FkOptions : o[4] \in 0..4
    /\ Serial \subseteq Types /\ SerialMax \in Nat
    /\ \A t \in Serial : SerialField[t] \subseteq Declared[t] /\ 1..SerialMax \subseteq Ids[t]
    /\ Capacity \in Nat \ {0} /\ MaxEvents \in Nat

VARIABLES
    db,        \* the store: catalog, next_type_id, rows, index, counter, and
               \*   ahead: by how much the version of a row, or of its
               \*     tombstone, is above the number of the next operation
               \*   at: the place of the member of a Txn that is applied
               \*   shadowed: ghost, rows with a write below their version
    cache,     \* read cache: <<key, record>>, least recently used first
    handed,    \* ghost: serial ids reported to clients, in order
    unindexed, \* ghost: foreign keys whose index was dropped under them
    rewritten, \* ghost: types that lost a column
    cut,       \* ghost: rows and indexes an operation cut by a crash was writing
    events     \* what MaxEvents bounds, so far

vars == <<db, cache, handed, unindexed, rewritten, cut, events>>

-----------------------------------------------------------------------------
(* Records, indexes and the cache. *)

Raw(v) == IF v = NULL THEN 0 ELSE v
\* A column's bytes in a record, as a set of at most one value: a record
\* written before the column was added ends before its slot, unless its
\* padding covers it.
Slot(ot, rec, f) ==
    IF f \in DOMAIN rec THEN {Raw(rec[f])} ELSE IF f \in ot.covered THEN {0} ELSE {}
KeysOf(ot, rec, cols) ==
    {k \in [DOMAIN cols -> UNION {Slot(ot, rec, f) : f \in ToSet(cols)}] :
        \A i \in DOMAIN cols : k[i] \in Slot(ot, rec, cols[i])}
\* Index entries are keyed by index, value and object id.
Entries(d, t, ix, id, rec) == {<<t, ix, k, id>> : k \in KeysOf(d.catalog[t], rec, ix[2])}

Eq(f) == <<"eq", <<f>>>>
Ord(f) == <<"ord", <<f>>>>
Comp(cols) == <<"comp", cols>>
HasIndex(ot, ix) == ix \in ToSet(ot.indexes)
\* The order idx_maintain visits a type's indexes in.
Maintained(d, t) ==
    LET OfKind(kind) == SelectSeq(d.catalog[t].indexes, LAMBDA ix : ix[1] = kind)
    IN  IF t \in DOMAIN d.catalog THEN OfKind("eq") \o OfKind("ord") \o OfKind("comp") ELSE <<>>

is_codec_record(ot, rec) == DOMAIN rec = ot.fields
RowsOf(d, t) == {k \in DOMAIN d.rows : k[1] = t}
\* A row's content, a set of at most one record, after a write of a version:
\* nothing is seen of it below the row's version.
Written(d, k, content) ==
    LET stay == DOMAIN d.rows \ {k} IN
    IF d.ahead[k] > d.at THEN [d EXCEPT !.shadowed = @ \cup {k}]
    ELSE [d EXCEPT !.ahead[k] = d.at,
                   !.rows = [j \in IF content = {} THEN stay ELSE stay \cup {k} |->
                                IF j = k THEN CHOOSE rec \in content : TRUE ELSE @[j]]]
WithRow(d, k, rec) == Written(d, k, {rec})
WithoutRow(d, k) == Written(d, k, {})
\* The store when n more operations have their numbers.
Aged(d, n) == [d EXCEPT !.at = 0, !.ahead = [k \in Keys |-> Max({0, @[k] - n})]]
\* Mutant: the scan is not cut at the value's last byte.
idx_lookup_below(d, t, f, v) == {e[4] : e \in {x \in d.index : x[1] = t /\ x[2] = Eq(f) /\ x[3][1] >= v}}
idx_lookup(d, t, f, v) == {e[4] : e \in {x \in d.index : x[1] = t /\ x[2] = Eq(f) /\ x[3] = <<v>>}}
\* Mutant: the entry of the old value stays.
ReindexNew(stages, t, id, old, new, ix) ==
    LET d == Last(stages)
        come == UNION {Entries(d, t, ix, id, r) : r \in new}
    IN  IF come = {} THEN stages ELSE Append(stages, [d EXCEPT !.index = @ \cup come])
\* idx_maintain of one index: nothing when the bytes are the same.
Reindex(stages, t, id, old, new, ix) ==
    LET d == Last(stages)
        gone == UNION {Entries(d, t, ix, id, r) : r \in old}
        come == UNION {Entries(d, t, ix, id, r) : r \in new}
        less == [d EXCEPT !.index = @ \ gone]
        more == [less EXCEPT !.index = @ \cup come]
    IN  IF gone = come THEN stages
        ELSE stages \o (IF gone = {} THEN <<>> ELSE <<less>>) \o (IF come = {} THEN <<>> ELSE <<more>>)

\* The stages of a write of one row: old and new are sets of at most one record.
idx_maintain(d, k, old, new) ==
    FoldLeft(LAMBDA s, ix : Reindex(s, k[1], k[2], old, new, ix), <<d>>,
             Maintained(d, k[1]))

Store(d, k, old, rec) == idx_maintain(WithRow(d, k, rec), k, old, {rec})

Evict(c, k) == SelectSeq(c, LAMBDA e : e[1] # k)
Cached(c, k) == \E i \in DOMAIN c : c[i][1] = k
Insert(c, k, rec) ==
    Append(IF ~Cached(c, k) /\ Len(c) >= Capacity THEN Tail(c) ELSE Evict(c, k), <<k, rec>>)

-----------------------------------------------------------------------------
(* Row operations: what they write, do to the cache and answer. *)

\* ids: the serial ids the answer reports.
Result(stages, c, ok, ids) == [stages |-> stages, cache |-> c, ok |-> ok, ids |-> ids]
Rejected(c) == Result(<<>>, c, FALSE, <<>>)
Final(d, stages) == IF stages = <<>> THEN d ELSE Last(stages)
\* Mutant: one holder is taken to be the row itself.
unique_conflict_many(d, t, f, v, id) == Cardinality(idx_lookup(d, t, f, v)) > 1
unique_conflict(d, t, f, v, id) == \E i \in idx_lookup(d, t, f, v) : i # id
check_unique(d, t, rec, id) ==
    \A f \in d.catalog[t].unique : \A v \in Slot(d.catalog[t], rec, f) : ~unique_conflict(d, t, f, v, id)
References(rec, f) == f \in DOMAIN rec /\ rec[f] # NULL
check_fk(d, t, rec) ==
    is_codec_record(d.catalog[t], rec) =>
        \A fk \in d.catalog[t].fks : References(rec, fk[1]) => <<fk[2], rec[fk[1]]>> \in DOMAIN d.rows
\* The id of a new row: the next value of the counter for a serial type.
Assigned(d, t, id) ==
    IF t \in Serial /\ id = SERIAL_SENTINEL THEN d.counter[t] + 1 ELSE id
\* Mutant: the counter is not stored.
Uncounted(stages, t, id) == stages
Counted(stages, t, id) == Append(stages, [Last(stages) EXCEPT !.counter[t] = id])

\* The assigned id is written into the column that shows it.
patch_serial_field(ot, t, rec, id) ==
    IF is_codec_record(ot, rec)
    THEN [f \in DOMAIN rec |-> IF f \in SerialField[t] THEN id ELSE rec[f]] ELSE rec

\* The record is checked before it is patched.
CreateOf(d, c, t, id, rec) ==
    LET new == Assigned(d, t, id)
        k == <<t, new>>
        patched == IF new = id THEN rec ELSE patch_serial_field(d.catalog[t], t, rec, new)
        stored == Store(d, k, {}, patched)
    IN  IF \/ t \notin DOMAIN d.catalog
           \/ new # id /\ d.counter[t] = SerialMax
           \/ k \in DOMAIN d.rows
           \/ ~check_unique(d, t, rec, new) \/ ~check_fk(d, t, rec)
        THEN Rejected(c)
        ELSE IF new = id THEN Result(stored, Insert(c, k, rec), TRUE, <<>>)
        ELSE Result(Counted(stored, t, new), Insert(c, k, patched), TRUE, <<k>>)

UpdateOf(d, c, t, id, rec) ==
    LET k == <<t, id>> IN
    IF \/ t \notin DOMAIN d.catalog \/ k \notin DOMAIN d.rows
       \/ ~check_unique(d, t, rec, id) \/ ~check_fk(d, t, rec)
    THEN Rejected(c)
    ELSE Result(Store(d, k, {d.rows[k]}, rec), Insert(c, k, rec), TRUE, <<>>)

\* Decoding: columns the record does not have yet are NULL.
decode(ot, rec) == [f \in ot.fields |-> IF f \in DOMAIN rec THEN rec[f] ELSE NULL]

\* A value to set is bytes: zero bytes are a value, not a NULL.
UpdateSetOf(d, c, t, id, f, v) ==
    IF <<t, id>> \notin DOMAIN d.rows \/ t \notin DOMAIN d.catalog \/ f \notin d.catalog[t].fields
    THEN Rejected(c)
    ELSE UpdateOf(d, c, t, id, [decode(d.catalog[t], d.rows[<<t, id>>]) EXCEPT ![f] = Raw(v)])

\* The rows that reference row k through a foreign key with one of the
\* actions, with the referencing column, found through the index.
Referrers(d, k, actions) ==
    LET Pointing(t) == {fk \in d.catalog[t].fks : fk[2] = k[1] /\ fk[3] \in actions}
        Through(t, f) == {<<t, i, f>> : i \in idx_lookup(d, t, f, k[2])}
    IN  UNION {UNION {Through(t, fk[1]) : fk \in Pointing(t)} : t \in DOMAIN d.catalog}
Row(r) == <<r[1], r[2]>>
\* Mutant: only direct referrers go.
cascade_children(d, k) == {k} \cup {Row(r) : r \in Referrers(d, k, {2})}
cascade_collect(d, k) ==
    LET reached[n \in 0..Cardinality(Keys)] ==
            IF n = 0 THEN {k}
            ELSE reached[n - 1] \cup {Row(r) : r \in UNION {Referrers(d, j, {2}) : j \in reached[n - 1]}}
    IN  reached[Cardinality(Keys)]
Restricted(d, closure) == \E k \in closure : Referrers(d, k, {1}) # {}

\* SET DEFAULT is SET NULL: no column has a default here.
collect_set_null(d, closure) ==
    {r \in UNION {Referrers(d, k, {3, 4}) : k \in closure} : Row(r) \notin closure}
\* The null bit is set only in a record of the current shape.
Nulled(ot, rec, fs) ==
    [f \in DOMAIN rec |-> IF f \notin fs THEN rec[f] ELSE IF is_codec_record(ot, rec) THEN NULL ELSE 0]

NullColumns(d, k, targets) ==
    IF k \notin DOMAIN d.rows THEN d
    ELSE LET rec == d.rows[k]
             fs == {r[3] : r \in {x \in targets : Row(x) = k}}
         IN  Last(Store(d, k, {rec}, Nulled(d.catalog[k[1]], rec, fs)))
RemoveRow(d, k) ==
    IF k \notin DOMAIN d.rows THEN d ELSE Last(idx_maintain(WithoutRow(d, k), k, {d.rows[k]}, {}))

\* A row's record, if any, with its version.
Version(d, k) == <<{d.rows[j] : j \in DOMAIN d.rows \cap {k}}, d.ahead[k]>>
Changed(d, e) == {k \in Keys : Version(d, k) # Version(e, k)}
ChangedEntries(d, e) == (d.index \ e.index) \cup (e.index \ d.index)
\* commit_txn: the overlay's frames in key order.  The rows of a type come
\* before its ordered, composite and equality entries, counters come last.
commit_txn(d, e) ==
    LET PutRow(s, k) ==
            Append(s, [Last(s) EXCEPT !.ahead[k] = e.ahead[k],
                !.rows = [j \in (DOMAIN @ \ {k}) \cup (DOMAIN e.rows \cap {k}) |->
                             IF j = k THEN e.rows[j] ELSE @[j]]])
        PutEntry(x, s) == Append(s, [Last(s) EXCEPT !.index = (@ \ {x}) \cup (e.index \cap {x})])
        RowsIn(t) == InOrder({k \in Changed(d, e) : k[1] = t})
        EntriesIn(t, kind) == {x \in ChangedEntries(d, e) : x[1] = t /\ x[2][1] = kind}
        OfType(s, t) ==
            FoldLeft(LAMBDA q, kind : FoldSet(PutEntry, q, EntriesIn(t, kind)),
                     FoldLeft(PutRow, s, RowsIn(t)), <<"ord", "comp", "eq">>)
    IN  Append(FoldLeft(OfType, <<d>>, [t \in Types |-> t]), e)

DeleteOf(d, c, t, id) ==
    LET closure == cascade_collect(d, <<t, id>>)
        targets == collect_set_null(d, closure)
        touched == {Row(r) : r \in targets}
        nulled == FoldLeft(LAMBDA e, k : NullColumns(e, k, targets), d, InOrder(touched))
        removed == FoldLeft(RemoveRow, nulled, InOrder(closure))
        kept == SelectSeq(c, LAMBDA e : e[1] \notin touched \cup closure)
    IN  IF <<t, id>> \notin DOMAIN d.rows \/ Restricted(d, closure)
        THEN Rejected(c)
        ELSE Result(commit_txn(d, removed), kept, TRUE, <<>>)

GetByIdOf(d, c, t, id) ==
    LET k == <<t, id>>
        hit == SelectSeq(c, LAMBDA e : e[1] = k)
    IN  IF hit # <<>> THEN Result(<<>>, Insert(c, k, hit[1][2]), TRUE, <<>>)
        ELSE IF k \in DOMAIN d.rows THEN Result(<<>>, Insert(c, k, d.rows[k]), TRUE, <<>>)
        ELSE Rejected(c)

\* A new record has every column of the type as it is now.
NewRecord(d, t, v) == [f \in IF t \in DOMAIN d.catalog THEN d.catalog[t].fields ELSE {} |-> v]

ApplyOp(d, c, o) ==
    CASE o.op = "create" -> CreateOf(d, c, o.t, o.id, NewRecord(d, o.t, o.v))
      [] o.op = "set"    -> UpdateSetOf(d, c, o.t, o.id, o.f, o.v)
      [] o.op = "delete" -> DeleteOf(d, c, o.t, o.id)
      [] o.op = "get"    -> GetByIdOf(d, c, o.t, o.id)
\* Op::Txn: members see the overlay; each has the number after the last one's.
Members(d, c, ops) ==
    LET Member(s, o) ==
            IF ~s.ok THEN s
            ELSE LET r == ApplyOp(s.db, s.cache, o)
                 IN  [db |-> [Final(s.db, r.stages) EXCEPT !.at = @ + 1], cache |-> r.cache,
                      ok |-> r.ok, ids |-> s.ids \o r.ids]
    IN  FoldLeft(Member, [db |-> d, cache |-> c, ok |-> TRUE, ids |-> <<>>], ops)
\* Mutant: the cache keeps what the members put there.
TxnKeepsCache(d, c, ops) ==
    LET end == Members(d, c, ops)
    IN  IF end.ok THEN Result(commit_txn(d, end.db), end.cache, TRUE, <<>>) ELSE Rejected(end.cache)
\* The first failure rolls all back; ids are reported when every member has one.
TxnOf(d, c, ops) ==
    LET end == Members(d, c, ops)
    IN  IF end.ok
        THEN Result(commit_txn(d, end.db), end.cache, TRUE,
                    IF Len(end.ids) = Len(ops) THEN end.ids ELSE <<>>)
        ELSE Rejected(<<>>)

-----------------------------------------------------------------------------
(* Schema operations. *)

Indexed(d, t, ix) == [d EXCEPT !.catalog[t].indexes = Append(@, ix)]
\* The entries of the rows are added one by one, in id order.
Backfill(d, t, ix) ==
    LET ks == InOrder(RowsOf(d, t))
    IN  [n \in DOMAIN ks |->
            [d EXCEPT !.index = @ \cup UNION {Entries(d, t, ix, ks[m][2], d.rows[ks[m]]) : m \in 1..n}]]
\* The schema is persisted with the index before its entries are.
BuildIndex(d, t, ix) ==
    IF HasIndex(d.catalog[t], ix) THEN <<>>
    ELSE LET e == Indexed(d, t, ix) IN <<e>> \o Backfill(e, t, ix)

HasColumn(d, t, f) == t \in DOMAIN d.catalog /\ f \in d.catalog[t].fields

Duplicates(d, t, f) ==
    LET Bytes(k) == Slot(d.catalog[t], d.rows[k], f)
    IN  \E k, l \in RowsOf(d, t) : k # l /\ Bytes(k) \cap Bytes(l) # {}
\* A duplicate found after the index is built leaves the index behind.
AddUniqueOf(d, t, f) ==
    LET built == BuildIndex(d, t, Eq(f))
        e == Final(d, built)
    IN  IF ~HasColumn(d, t, f) \/ f \in d.catalog[t].unique THEN <<>>
        ELSE IF Duplicates(e, t, f) THEN built
        ELSE Append(built, [e EXCEPT !.catalog[t].unique = @ \cup {f}])

Dangling(d, t, f, rt) ==
    \E k \in RowsOf(d, t) :
        /\ is_codec_record(d.catalog[t], d.rows[k]) /\ References(d.rows[k], f)
        /\ <<rt, d.rows[k][f]>> \notin DOMAIN d.rows
add_foreign_key(d, t, f, rt, od) ==
    LET built == IF od = 0 THEN <<>> ELSE BuildIndex(d, t, Eq(f))
        e == Final(d, built)
    IN  IF \/ ~HasColumn(d, t, f) \/ rt \notin DOMAIN d.catalog
           \/ \E fk \in d.catalog[t].fks : fk[1] = f /\ fk[2] = rt
           \/ Dangling(d, t, f, rt)
        THEN <<>>
        ELSE Append(built, [e EXCEPT !.catalog[t].fks = @ \cup {<<f, rt, od>>}])

\* CREATE TABLE: the declared foreign keys are resolved first and added
\* one by one after the type is persisted.
CreateTypeOf(d, fks) ==
    LET t == d.next
        ot == [fields |-> Declared[t], covered |-> {}, indexes |-> <<>>, unique |-> {}, fks |-> {}]
        made == [d EXCEPT !.catalog = [u \in DOMAIN @ \cup {t} |-> IF u = t THEN ot ELSE @[u]],
                          !.next = t + 1]
    IN  IF \E fk \in fks : fk[2] \notin DOMAIN d.catalog THEN <<>>
        ELSE FoldLeft(LAMBDA s, fk : s \o add_foreign_key(Last(s), t, fk[1], fk[2], fk[3]),
                      <<made>>, SetToSeq(fks))

DropTypeOf(d, t) ==
    LET emptied == FoldLeft(RemoveRow, d, InOrder(RowsOf(d, t))) IN
    IF t \notin DOMAIN d.catalog \/ \E u \in DOMAIN d.catalog \ {t} : \E fk \in d.catalog[u].fks : fk[2] = t
    THEN <<>>
    ELSE <<[emptied EXCEPT !.catalog = [u \in DOMAIN @ \ {t} |-> @[u]]]>>

\* The schema without the indexes in gone, and the store without their entries.
Unindexed(d, t, gone) ==
    [d EXCEPT !.index = {e \in @ : e[1] # t \/ e[2] \notin gone},
              !.catalog[t].indexes = SelectSeq(@, LAMBDA ix : ix \notin gone),
              !.catalog[t].unique = {f \in @ : Eq(f) \notin gone /\ Ord(f) \notin gone}]
\* The entries are deleted one by one before the schema is persisted.
DropIndexOf(d, t, cols) ==
    LET gone == {ix \in ToSet(d.catalog[t].indexes) : ix[2] = cols}
        less == Unindexed(d, t, gone)
        Unlink(x, s) == Append(s, [Last(s) EXCEPT !.index = @ \ {x}])
    IN  IF gone = {} THEN <<>>
        ELSE Append(FoldSet(Unlink, <<d>>, d.index \ less.index), less)

\* Records grow to the next power of two: padded says whether the records
\* that are there have room for the new column.
AlterTypeAddFieldOf(d, t, padded) ==
    LET f == Max(d.catalog[t].fields) + 1 IN
    <<[d EXCEPT !.catalog[t].fields = @ \cup {f},
                !.catalog[t].covered = IF padded THEN @ \cup {f} ELSE @]>>

\* Every record is written again, without the column, in the new shape.
DropFieldOf(d, t, f) ==
    LET gone == {ix \in ToSet(d.catalog[t].indexes) : f \in ToSet(ix[2])}
        less == [Unindexed(d, t, gone) EXCEPT !.catalog[t].fields = @ \ {f},
                                              !.catalog[t].covered = @ \ {f}]
        Rewrite(e, k) == WithRow(e, k, decode(e.catalog[t], e.rows[k]))
    IN  IF ~HasColumn(d, t, f) \/ Cardinality(d.catalog[t].fields) = 1
           \/ \E fk \in d.catalog[t].fks : fk[1] = f
        THEN <<>>
        ELSE <<FoldLeft(Rewrite, less, InOrder(RowsOf(d, t)))>>

-----------------------------------------------------------------------------
Init ==
    /\ db = [catalog |-> <<>>, next |-> 1, rows |-> <<>>, index |-> {},
             counter |-> [t \in Types |-> 0], ahead |-> [k \in Keys |-> 0], at |-> 0,
             shadowed |-> {}]
    /\ cache = <<>> /\ handed = <<>>
    /\ unindexed = {} /\ rewritten = {} /\ cut = [rows |-> {}, indexes |-> {}]
    /\ events = 0

Spend(n) == events + n <= MaxEvents /\ events' = events + n

\* After a restart the replay guard answers operations up to the highest
\* number framed without running them: n numbers pass.
Reopened(d) == {Aged(d, n) : n \in 0..Max({d.ahead[k] : k \in Keys})}

\* A crash after some of an operation's writes, and the restart.
Crash(stages, ks, ixs, cost) ==
    /\ Spend(cost)
    /\ \E d \in ToSet(stages) \ {db, Last(stages)} : db' \in Reopened(Aged(d, 1))
    /\ cache' = <<>>
    /\ cut' = [rows |-> cut.rows \cup ks, indexes |-> cut.indexes \cup ixs]
    /\ UNCHANGED <<handed, unindexed, rewritten>>

Shadowing(d) == IF d.shadowed = db.shadowed THEN 0 ELSE 1
\* The rows an operation writes, or has index entries of.
Touched(d, e) == Changed(d, e) \cup {<<x[1], x[4]>> : x \in ChangedEntries(d, e)}
\* A row operation: what it answers matters only for serial ids.
RowOp(r) ==
    \/ /\ db' = Aged(Final(db, r.stages), 1) /\ cache' = r.cache
       /\ handed' = handed \o r.ids
       /\ Spend(Shadowing(Final(db, r.stages)))
       /\ UNCHANGED <<unindexed, rewritten, cut>>
    \/ /\ r.stages # <<>>
       /\ Crash(r.stages, Touched(db, Last(r.stages)), {}, 2)

Create(t, id, v) == RowOp(CreateOf(db, cache, t, id, NewRecord(db, t, v)))
Update(t, id, v) == RowOp(UpdateOf(db, cache, t, id, NewRecord(db, t, v)))
UpdateSet(t, id, f, v) == RowOp(UpdateSetOf(db, cache, t, id, f, v))
Delete(t, id) == RowOp(DeleteOf(db, cache, t, id))
GetById(t, id) == RowOp(GetByIdOf(db, cache, t, id))
Txn(ops) == RowOp(TxnOf(db, cache, ops))

\* A schema operation: lost are foreign keys that lose their index, shrunk
\* types that lose a column, ixs the indexes it builds or drops.
Ddl(stages, ixs, lost, shrunk, cost) ==
    /\ events + cost <= MaxEvents
    /\ stages # <<>>
    /\ \/ /\ db' = Aged(Last(stages), 1) /\ Spend(cost + Shadowing(Last(stages)))
          /\ unindexed' = unindexed \cup lost /\ rewritten' = rewritten \cup shrunk
          /\ UNCHANGED <<cache, handed, cut>>
       \/ Crash(stages, {}, ixs, cost + 1)

CreateType(fks) ==
    /\ db.next \in Types
    /\ Ddl(CreateTypeOf(db, fks), {}, {}, {}, 0)
DropType(t) == Ddl(DropTypeOf(db, t), {}, {}, {}, 1)
CreateIndex(t, f) ==
    /\ HasColumn(db, t, f)
    /\ Ddl(BuildIndex(db, t, Eq(f)), {<<t, Eq(f)>>}, {}, {}, 1)
AddOrderedIndex(t, f) ==
    /\ HasColumn(db, t, f)
    /\ Ddl(BuildIndex(db, t, Ord(f)), {<<t, Ord(f)>>}, {}, {}, 1)
AddCompositeIndex(t, cols) ==
    /\ \A f \in ToSet(cols) : HasColumn(db, t, f)
    /\ Ddl(BuildIndex(db, t, Comp(cols)), {<<t, Comp(cols)>>}, {}, {}, 1)
AddUnique(t, f) == Ddl(AddUniqueOf(db, t, f), {<<t, Eq(f)>>}, {}, {}, 1)
AddForeignKey(t, f, rt, od) ==
    Ddl(add_foreign_key(db, t, f, rt, od), {<<t, Eq(f)>>}, {}, {}, 1)
DropIndex(t, cols) ==
    /\ t \in DOMAIN db.catalog
    /\ Ddl(DropIndexOf(db, t, cols), {<<t, <<kind, cols>>>> : kind \in {"eq", "ord", "comp"}},
           {<<t, f>> : f \in {x \in Fields : <<x>> = cols}}, {}, 1)
AlterTypeAddField(t, padded) ==
    /\ t \in DOMAIN db.catalog /\ MaxField \notin db.catalog[t].fields
    /\ Ddl(AlterTypeAddFieldOf(db, t, padded), {}, {}, {}, 1)
DropField(t, f) == Ddl(DropFieldOf(db, t, f), {}, {}, {t}, 1)

\* The process stops between two operations.
Restart ==
    /\ cache' = <<>> /\ db' \in Reopened(db)
    /\ UNCHANGED <<handed, unindexed, rewritten, cut, events>>

Next ==
    \/ \E t \in Types : \E id \in Ids[t] :
          \/ \E v \in Inputs[t] : Create(t, id, v) \/ Update(t, id, v)
          \/ \E s \in Sets : s[1] = t /\ UpdateSet(t, id, s[2], s[3])
          \/ Delete(t, id)
          \/ GetById(t, id)
    \/ \E t \in Serial : \E v \in Inputs[t] : Create(t, SERIAL_SENTINEL, v)
    \/ \E ops \in Batches : Txn(ops)
    \/ \E fks \in {{}} \cup {{<<o[2], o[3], o[4]>>} : o \in {x \in FkOptions : x[1] = db.next}} :
          CreateType(fks)
    \/ \E t \in Types : DropType(t) \/ \E padded \in BOOLEAN : AlterTypeAddField(t, padded)
    \/ \E o \in Indexable : \/ CreateIndex(o[1], o[2]) \/ AddOrderedIndex(o[1], o[2])
                            \/ AddUnique(o[1], o[2]) \/ DropIndex(o[1], <<o[2]>>)
                            \/ DropField(o[1], o[2])
    \/ \E o \in Composites : AddCompositeIndex(o[1], o[2]) \/ DropIndex(o[1], o[2])
    \/ \E o \in FkOptions : AddForeignKey(o[1], o[2], o[3], o[4])
    \/ Restart

Spec == Init /\ [][Next]_vars

-----------------------------------------------------------------------------
(* Properties. *)

Live == DOMAIN db.catalog
\* Rows with no write cut by a crash and none below their version.
Whole(k) == k \notin cut.rows \cup db.shadowed
Sound(t, ix) == <<t, ix>> \notin cut.indexes
Patched(t) == IF t \in Serial THEN SerialField[t] ELSE {}

\* Store, schema, cache and counters are well formed: rows belong to live
\* types, and the read cache (kessel-cache `insert`) has one entry per row
\* and no more than its capacity.
TypeOK ==
    /\ Live \subseteq 1..(db.next - 1) /\ db.next - 1 \in 0..Cardinality(Types)
    /\ \A t \in Live : db.catalog[t].fields \subseteq Fields /\ db.catalog[t].unique \subseteq Fields
    /\ \A k \in DOMAIN db.rows : k \in Keys /\ DOMAIN db.rows[k] \subseteq Fields
    /\ \A k \in DOMAIN db.rows \ db.shadowed : k[1] \in Live
    /\ db.counter \in [Types -> Nat] /\ db.ahead \in [Keys -> Nat] /\ db.at = 0
    /\ Len(cache) <= Capacity
    /\ \A i, j \in DOMAIN cache : cache[i][1] = cache[j][1] => i = j

\* The index entries are those of the rows: no entry names a value its row
\* does not have, and no row is missing (`idx_maintain`, the backfills, the
\* prefixes DropIndex, DropField and DropType delete).  A write or a build
\* cut by a crash is excepted for good, as is a row one write of which is
\* below a version a Txn gave it: its entries follow every write, reads do
\* not.  So are NULL columns of tables that lost a column: DropField widens
\* short records without indexing them.
IndexExact ==
    /\ \A e \in db.index :
          \/ ~Whole(<<e[1], e[4]>>) \/ ~Sound(e[1], e[2])
          \/ /\ e[1] \in Live /\ HasIndex(db.catalog[e[1]], e[2])
             /\ <<e[1], e[4]>> \in DOMAIN db.rows
             /\ e[3] \in KeysOf(db.catalog[e[1]], db.rows[<<e[1], e[4]>>], e[2][2])
    /\ \A t \in Live : \A ix \in ToSet(db.catalog[t].indexes), k \in RowsOf(db, t) :
          \/ ~Whole(k) \/ ~Sound(t, ix)
          \/ t \in rewritten /\ \E f \in ToSet(ix[2]) : ~References(db.rows[k], f)
          \/ Entries(db, t, ix, k[2], db.rows[k]) \subseteq db.index

\* Rows that constraints are about: of the current shape, in a table that
\* never lost a column, with no write cut by a crash or below its version.
Checked(k) ==
    Whole(k) /\ k[1] \notin rewritten /\ is_codec_record(db.catalog[k[1]], db.rows[k])

\* No two rows have the same value in a UNIQUE column (`check_unique`,
\* AddUnique's scan), whatever writes, cascades and transactions did.  The
\* column that shows a serial id is excepted: `patch_serial_field` writes it
\* after the check.
UniqueHolds ==
    \A t \in Live : \A f \in db.catalog[t].unique : Sound(t, Eq(f)) /\ f \notin Patched(t) =>
        \A k, l \in {r \in RowsOf(db, t) : Checked(r)} :
            k # l /\ db.rows[k][f] = db.rows[l][f] => db.rows[k][f] = NULL

\* A reference with an ON DELETE action points to a row that is there:
\* `check_fk` on writes, RESTRICT, CASCADE through several tables and SET
\* NULL on deletes.  Excepted are foreign keys whose index was dropped.
NoDangling ==
    \A k \in DOMAIN db.rows : Checked(k) =>
        \A fk \in db.catalog[k[1]].fks :
            \/ fk[3] = 0 \/ <<k[1], fk[1]>> \in unindexed \/ ~Sound(k[1], Eq(fk[1]))
            \/ References(db.rows[k], fk[1]) => <<fk[2], db.rows[k][fk[1]]>> \in DOMAIN db.rows

\* The read cache holds what the store holds, through transactions that
\* abort after their members filled it and cascades that change other rows,
\* except for tables that were dropped or lost a column and rows one write
\* of which is below a version a Txn gave them: the cache takes every write.
CacheCoherent ==
    \A i \in DOMAIN cache :
        LET k == cache[i][1] IN
        k[1] \in Live \ rewritten /\ k \notin db.shadowed =>
            k \in DOMAIN db.rows /\ db.rows[k] = cache[i][2]

\* An id reported by autoincrement is never reported again, through
\* deletions, transactions that abort, explicit ids and crashes.
SerialNeverReused == \A i, j \in DOMAIN handed : handed[i] = handed[j] => i = j

\* A deletion takes one row and rows whose bytes reference a row it takes:
\* `cascade_collect` follows no other row (a NULL has the bytes of id 0).  A
\* row whose tombstone is below its version counts as taken.
CascadeOnlyReferrers ==
    [][LET taken == DOMAIN db.rows \ DOMAIN db'.rows
           hit == taken \cup (db'.shadowed \ db.shadowed)
           Follows(k) == \E j \in hit \ {k} : \E fk \in db.catalog[k[1]].fks :
                            fk[2] = j[1] /\ fk[3] = 2 /\ j[2] \in Slot(db.catalog[k[1]], db.rows[k], fk[1])
       IN  db'.catalog = db.catalog /\ cut' = cut /\ (\A k \in taken : Whole(k)) =>
             \A k, l \in taken : Follows(k) \/ Follows(l) \/ k = l]_vars

============================================================================
