------------------------------ MODULE Sharded -------------------------------
(***************************************************************************)
(* The in-process sharded engine (sharded_engine.rs) and its scatter pool  *)
(* (scatter_scan.rs): K engines behind one dispatcher.  An operation of    *)
(* one key goes to the engine that owns the key, DDL goes to every engine  *)
(* in turn, a scan is answered by every engine and merged.  An engine is   *)
(* taken at its interface: it executes an operation at one instant or      *)
(* sheds it.  There is one table; a row is an id with one numeric column.  *)
(***************************************************************************)
EXTENDS Integers, Sequences, FiniteSets, FiniteSetsExt, SequencesExt

CONSTANTS
    K,          \* shards, numbered from 0
    Ids,        \* row ids, numbers
    ShardOf,    \* shard_of_key: the shard that owns an id
    Values,     \* what a row may hold
    None,       \* no row
    Contents,   \* the rows the behaviours start from
    Callers,    \* threads that call the dispatcher
    Requests,   \* bound: the operations each may issue as its n-th call
    Workers,    \* threads of the scatter pool
    PoolBound   \* capacity of the pool's queue (64 in the code)

Shards == 0..(K - 1)
Scans == {"select", "sorted", "query", "find", "aggregate", "group"}

ASSUME ShardedAssumption ==
    /\ K \in Nat /\ K >= 2 /\ PoolBound \in Nat \ {0}
    /\ Ids \subseteq Nat /\ Values \subseteq Int
    /\ ShardOf \in [Ids -> Shards] /\ None \notin Values
    /\ Contents \subseteq [Ids -> Values \cup {None}]

\* Callers issue operations of the kinds the dispatcher routes; writes are of rows.
ASSUME RequestsAssumption ==
    \A c \in Callers :
        /\ Len(Requests[c]) \in Nat /\ DOMAIN Requests[c] = 1..Len(Requests[c])
        /\ \A n \in DOMAIN Requests[c] : \A op \in Requests[c][n] :
              /\ op.kind \in Scans \cup {"put", "txn", "ddl", "sqlddl"}
              /\ op.kind = "put" => op.id \in Ids /\ op.val \in Values \cup {None}
              /\ op.kind = "txn" => \A i \in DOMAIN op.puts :
                                       i \in Ids /\ op.puts[i] \in Values \cup {None}

VARIABLES
    rows,     \* the rows of all shards: each lives on the shard of its id
    catalog,  \* types of a shard, in the order they were created there
    queue,    \* work items of the pool
    worker,   \* the item a pool thread is working on
    call,     \* the call each caller is in, or its last one
    apart     \* ghost: a type was created on some shards only, or in two orders

vars == <<rows, catalog, queue, worker, call, apart>>

Owned(s) == {i \in Ids : ShardOf[i] = s}
Slice(s) == [i \in Owned(s) |-> rows[i]]

----------------------------------------------------------------------------
(* What one engine answers, over the rows m it has.                        *)

Got(v) == [kind |-> "got", val |-> v]
Unavailable == [kind |-> "unavailable"]
Rejected == [kind |-> "error"]
NoReply == [kind |-> "none"]

Matching(op, m) == {i \in DOMAIN m : m[i] \in op.where}
Take(seq, limit) == IF limit = 0 THEN seq ELSE SubSeq(seq, 1, Min({limit, Len(seq)}))
Skip(seq, n) == SubSeq(seq, n + 1, Len(seq))
Row(m, i) == [id |-> i, val |-> m[i]]
ByKey(S) == SetToSortSeq(S, <)

\* SelectSorted: by (value, id), turned round as a whole if descending.
Ordered(op, m) ==
    LET up == SetToSortSeq(Matching(op, m),
                 LAMBDA i, j : m[i] < m[j] \/ (m[i] = m[j] /\ i < j))
    IN  IF op.desc THEN Reverse(up) ELSE up

\* A numeric aggregate; the least and the largest of no rows are 0.
Fold(fold, m, S) ==
    CASE fold = "count" -> Cardinality(S)
      [] fold = "sum" -> MapThenSumSet(LAMBDA i : m[i], S)
      [] fold = "min" -> IF S = {} THEN 0 ELSE Min({m[i] : i \in S})
      [] fold = "max" -> IF S = {} THEN 0 ELSE Max({m[i] : i \in S})
      [] fold = "avg" -> IF S = {} THEN 0 ELSE MapThenSumSet(LAMBDA i : m[i], S) \div Cardinality(S)

GroupFold(op, m) ==
    [v \in {m[i] : i \in Matching(op, m)} |->
        Fold(op.fold, m, {i \in Matching(op, m) : m[i] = v})]

ReadOnlyOp(op, m) ==
    CASE op.kind = "select" -> LET s == Take(ByKey(Matching(op, m)), op.limit)
                               IN  [k \in DOMAIN s |-> Row(m, s[k])]
      [] op.kind = "sorted" -> LET s == Take(Skip(Ordered(op, m), op.offset), op.limit)
                               IN  [k \in DOMAIN s |-> Row(m, s[k])]
      [] op.kind \in {"query", "find"} -> ByKey(Matching(op, m))
      [] op.kind = "aggregate" -> Fold(op.fold, m, Matching(op, m))
      [] op.kind = "group" -> GroupFold(op, m)

----------------------------------------------------------------------------
(* The merges.  parts[k] is what shard k - 1 answered.                     *)

\* merge_sorted: the next row is the least head, of the lowest shard if equal.
MergeSorted(op, parts) ==
    LET at == UNION {{<<k, j>> : j \in DOMAIN parts[k]} : k \in DOMAIN parts}
        val(p) == parts[p[1]][p[2]].val
        before(p, q) ==
            IF p[1] = q[1] THEN p[2] < q[2]
            ELSE IF val(p) = val(q) THEN p[1] < q[1]
            ELSE IF op.desc THEN val(p) > val(q) ELSE val(p) < val(q)
        s == SetToSortSeq(at, before)
        all == [k \in DOMAIN s |-> parts[s[k][1]][s[k][2]]]
    IN  Take(Skip(all, op.offset), op.limit)

Combine(fold, S) ==
    CASE fold \in {"count", "sum"} -> MapThenSumSet(LAMBDA p : p[2], S)
      [] fold = "min" -> Min({p[2] : p \in S})
      [] fold = "max" -> Max({p[2] : p \in S})

MergeAggregate(fold, parts) ==
    Combine(fold, {<<k, parts[k]>> : k \in DOMAIN parts})

\* merge_group_aggregate: groups of the same key are combined.
MergeGroups(fold, parts) ==
    [v \in UNION {DOMAIN parts[k] : k \in DOMAIN parts} |->
        Combine(fold, {<<k, parts[k][v]>> : k \in {k \in DOMAIN parts : v \in DOMAIN parts[k]}})]

MergeScanResults(op, parts) ==
    CASE op.kind = "find" -> Got(FlattenSeq(parts))
      [] op.kind = "query" -> Got(ByKey(UNION {Range(parts[k]) : k \in DOMAIN parts}))
      [] op.kind = "sorted" -> Got(MergeSorted(op, parts))
      [] op.kind = "aggregate" -> IF op.fold = "avg" THEN Rejected
                                  ELSE Got(MergeAggregate(op.fold, parts))
      [] op.kind = "group" -> IF op.fold = "avg" THEN Rejected
                              ELSE Got(MergeGroups(op.fold, parts))

----------------------------------------------------------------------------
(* Routing.                                                                *)

\* The shards the members of a transaction are on; a member with no key has none.
TouchedBy(op) == {ShardOf[i] : i \in DOMAIN op.puts}

ClassifyTxn(op) ==
    IF op.scan \/ Cardinality(TouchedBy(op)) > 1 THEN "reject" ELSE "single"

\* route_op; a SQL statement is not decoded and goes to shard 0.
Route(op) ==
    CASE op.kind = "put" -> "single"
      [] op.kind = "txn" -> ClassifyTxn(op)
      [] op.kind = "ddl" -> "broadcast"
      [] op.kind = "sqlddl" -> "single"
      [] op.kind = "find" -> "serial"
      [] op.kind \in Scans \ {"find"} -> "send"

Idle == [n |-> 0, op |-> [kind |-> "none"], phase |-> "idle", at |-> 0, got |-> <<>>,
         replies |-> [s \in Shards |-> NoReply], bad |-> NoReply, cancel |-> TRUE,
         result |-> NoReply, seen |-> [s \in Shards |-> {}]]
NoItem == [caller |-> None, n |-> 0, shard |-> 0, reply |-> NoReply]

Init ==
    /\ rows \in Contents
    /\ catalog = [s \in Shards |-> <<>>]
    /\ queue = <<>> /\ worker = [w \in Workers |-> NoItem]
    /\ call = [c \in Callers |-> Idle] /\ apart = FALSE

Busy(c) == call[c].phase # "idle"
NextRequests(c) == IF call[c].n < Len(Requests[c]) THEN Requests[c][call[c].n + 1] ELSE {}
Creating(c) == call[c].phase = "broadcast"

\* A call begins: the dispatcher decodes and routes the operation.
Begin(c, op) ==
    /\ ~Busy(c)
    /\ call' = [call EXCEPT ![c] =
          [Idle EXCEPT !.n = call[c].n + 1, !.op = op, !.phase = Route(op), !.cancel = FALSE,
                       !.seen = [s \in Shards |-> {Slice(s)}]]]
    /\ apart' = (apart \/ (op.kind = "ddl" /\ \E d \in Callers : Creating(d)))
    /\ UNCHANGED <<rows, catalog, queue, worker>>

\* The call returns; every return sets the flag its work items look at.
Finish(k, result) ==
    [k EXCEPT !.phase = "idle", !.result = result, !.cancel = TRUE, !.bad = NoReply,
              !.replies = Idle.replies, !.got = <<>>, !.at = 0]

Write(op, m) ==
    IF op.kind = "put" THEN [m EXCEPT ![op.id] = op.val]
    ELSE [i \in DOMAIN m |-> IF i \in DOMAIN op.puts THEN op.puts[i] ELSE m[i]]

\* Calls in progress note what the shards hold now.
Noted(m) ==
    [c \in Callers |->
        IF Busy(c)
        THEN [call[c] EXCEPT !.seen =
                 [s \in Shards |-> @[s] \cup {[i \in Owned(s) |-> m[i]]}]]
        ELSE call[c]]

\* A write, or a transaction of one shard, on the shard that owns it; all
\* its members take effect together.  The engine may be full and shed it.
Apply(c) ==
    /\ call[c].phase = "single" /\ call[c].op.kind \in {"put", "txn"}
    /\ LET new == Write(call[c].op, rows) IN
       \/ rows' = new /\ call' = [Noted(new) EXCEPT ![c] = Finish(@, Got(0))]
       \/ UNCHANGED rows /\ call' = [call EXCEPT ![c] = Finish(@, Unavailable)]
    /\ UNCHANGED <<catalog, queue, worker, apart>>

\* A transaction of several shards, or with a scan: refused before any shard sees it.
CrossShardReject(c) ==
    /\ call[c].phase = "reject"
    /\ call' = [call EXCEPT ![c] = Finish(@, Rejected)]
    /\ UNCHANGED <<rows, catalog, queue, worker, apart>>

\* DDL as a SQL statement reaches the catalog of shard 0 only.
SqlDdl(c) ==
    /\ call[c].phase = "single" /\ call[c].op.kind = "sqlddl"
    /\ \/ /\ catalog' = [catalog EXCEPT ![0] = Append(@, <<c, call[c].n>>)]
          /\ call' = [call EXCEPT ![c] = Finish(@, Got(Len(catalog[0]) + 1))]
          /\ apart' = TRUE
       \/ /\ call' = [call EXCEPT ![c] = Finish(@, Unavailable)]
          /\ UNCHANGED <<catalog, apart>>
    /\ UNCHANGED <<rows, queue, worker>>

\* Mutant: the answer of the first shard ends the broadcast.
BroadcastFirst(c) ==
    /\ Creating(c)
    /\ catalog' = [catalog EXCEPT ![0] = Append(@, <<c, call[c].n>>)]
    /\ call' = [call EXCEPT ![c] = Finish(@, Got(Len(catalog[0]) + 1))]
    /\ UNCHANGED <<rows, queue, worker, apart>>

\* DDL on the next shard, with no lock against another broadcast.  Every
\* shard is visited; the answer is the one of shard 0, the type's number there.
Broadcast(c) ==
    /\ Creating(c)
    /\ LET k == call[c]
           done(r) == IF k.at = K - 1
                      THEN Finish(k, k.got[1])
                      ELSE [k EXCEPT !.at = @ + 1, !.got = Append(@, r)]
       IN  \/ /\ catalog' = [catalog EXCEPT ![k.at] = Append(@, <<c, k.n>>)]
              /\ call' = [call EXCEPT ![c] = done(Got(Len(catalog[k.at]) + 1))]
              /\ UNCHANGED apart
           \/ /\ call' = [call EXCEPT ![c] = done(Unavailable)]
              /\ apart' = TRUE /\ UNCHANGED catalog
    /\ UNCHANGED <<rows, queue, worker>>

----------------------------------------------------------------------------
(* Scans.                                                                  *)

\* scatter_serial: an index lookup reads one shard after another itself.
WalkShard(c) ==
    LET k == call[c] parts == Append(k.got, ReadOnlyOp(k.op, Slice(k.at))) IN
    /\ k.phase = "serial"
    /\ call' = [call EXCEPT ![c] =
          IF k.at = K - 1 THEN Finish(k, MergeScanResults(k.op, parts))
          ELSE [k EXCEPT !.at = @ + 1, !.got = parts]]
    /\ UNCHANGED <<rows, catalog, queue, worker, apart>>

\* One work item per shard; send blocks while the queue is full.
SendItem(c) ==
    LET k == call[c] IN
    /\ k.phase = "send" /\ Len(queue) < PoolBound
    /\ queue' = Append(queue, [caller |-> c, n |-> k.n, shard |-> k.at, reply |-> NoReply])
    /\ call' = [call EXCEPT ![c] = IF k.at = K - 1 THEN [k EXCEPT !.phase = "gather", !.at = 0]
                                   ELSE [k EXCEPT !.at = @ + 1]]
    /\ UNCHANGED <<rows, catalog, worker, apart>>

\* A pool thread takes the next item.
Recv(w) ==
    /\ worker[w] = NoItem /\ queue # <<>>
    /\ worker' = [worker EXCEPT ![w] = Head(queue)]
    /\ queue' = Tail(queue)
    /\ UNCHANGED <<rows, catalog, call, apart>>

Current(item) == call[item.caller].n = item.n
Cancelled(item) == ~Current(item) \/ call[item.caller].cancel

\* The shard answers on the pool's thread; a cancelled item is not executed.
Work(w) ==
    LET item == worker[w] IN
    /\ item.caller # None /\ item.reply = NoReply
    /\ worker' = [worker EXCEPT ![w].reply =
          IF Cancelled(item) THEN Unavailable
          ELSE Got(ReadOnlyOp(call[item.caller].op, Slice(item.shard)))]
    /\ UNCHANGED <<rows, catalog, queue, call, apart>>

\* The reply channel belongs to one shard of one call; after the call
\* returned nobody receives from it.
Deliver(item) ==
    [call EXCEPT ![item.caller].replies[item.shard] =
        IF Current(item) /\ Busy(item.caller) THEN item.reply ELSE @]

\* Mutant: a thread leaves its loop at a cancelled item.
FreedUnlessCancelled(w) ==
    IF worker[w].reply = Unavailable THEN [worker EXCEPT ![w] = [NoItem EXCEPT !.n = 1]]
    ELSE [worker EXCEPT ![w] = NoItem]

\* Back to the head of the loop, whatever became of the item.
Freed(w) == [worker EXCEPT ![w] = NoItem]

\* The reply is sent, and the thread is free.
Reply(w) ==
    /\ worker[w].reply # NoReply
    /\ call' = Deliver(worker[w]) /\ worker' = Freed(w)
    /\ UNCHANGED <<rows, catalog, queue, apart>>

\* Mutant: a shard that failed is left out (partial_on_timeout).
TakePartial(k, r) ==
    LET out == IF r.kind = "got" THEN Take(k.got \o r.val, k.op.limit) ELSE k.got IN
    IF k.at = K - 1 \/ (k.op.limit # 0 /\ Len(out) >= k.op.limit) THEN Finish(k, Got(out))
    ELSE [k EXCEPT !.at = @ + 1, !.got = out]

\* Rows are appended shard by shard until LIMIT; the first failure is the answer.
TakeUnordered(k, r) ==
    LET out == IF r.kind = "got" THEN Take(k.got \o r.val, k.op.limit) ELSE <<>> IN
    IF r.kind # "got" THEN Finish(k, r)
    ELSE IF k.at = K - 1 \/ (k.op.limit # 0 /\ Len(out) >= k.op.limit) THEN Finish(k, Got(out))
    ELSE [k EXCEPT !.at = @ + 1, !.got = out]

\* All shards are gathered; the first failure cancels the others and is the answer.
TakeGathered(k, r) ==
    LET bad == IF k.bad = NoReply /\ r.kind # "got" THEN r ELSE k.bad
        parts == IF r.kind = "got" THEN Append(k.got, r.val) ELSE k.got
    IN  IF k.at < K - 1
        THEN [k EXCEPT !.at = @ + 1, !.got = parts, !.bad = bad, !.cancel = @ \/ bad # NoReply]
        ELSE Finish(k, IF bad # NoReply THEN bad ELSE MergeScanResults(k.op, parts))

Taken(k, r) == IF k.op.kind = "select" THEN TakeUnordered(k, r) ELSE TakeGathered(k, r)

\* Replies are received in the order of the shards.
Collect(c) ==
    LET k == call[c] r == k.replies[k.at] IN
    /\ k.phase = "gather" /\ r # NoReply
    /\ call' = [call EXCEPT ![c] = Taken(k, r)]
    /\ UNCHANGED <<rows, catalog, queue, worker, apart>>

\* The deadline of the shard passes before its reply.
TimeOut(c) ==
    LET k == call[c] IN
    /\ k.phase = "gather" /\ k.replies[k.at] = NoReply
    /\ call' = [call EXCEPT ![c] = Taken(k, Unavailable)]
    /\ UNCHANGED <<rows, catalog, queue, worker, apart>>

Next ==
    \/ \E c \in Callers :
        \/ \E op \in NextRequests(c) : Begin(c, op)
        \/ Apply(c) \/ CrossShardReject(c) \/ SqlDdl(c) \/ Broadcast(c)
        \/ WalkShard(c) \/ SendItem(c) \/ Collect(c) \/ TimeOut(c)
    \/ \E w \in Workers : Recv(w) \/ Work(w) \/ Reply(w)

Spec == Init /\ [][Next]_vars

\* Every thread keeps running; a deadline need not pass.
FairSpec ==
    /\ Spec
    /\ \A c \in Callers :
        /\ WF_vars(Apply(c)) /\ WF_vars(CrossShardReject(c)) /\ WF_vars(SqlDdl(c))
        /\ WF_vars(Broadcast(c)) /\ WF_vars(WalkShard(c))
        /\ WF_vars(SendItem(c)) /\ WF_vars(Collect(c))
    /\ \A w \in Workers : WF_vars(Recv(w)) /\ WF_vars(Work(w)) /\ WF_vars(Reply(w))

----------------------------------------------------------------------------
TypeOK ==
    /\ rows \in [Ids -> Values \cup {None}]
    /\ \A s \in Shards : Range(catalog[s]) \subseteq Callers \X Nat
    /\ Len(queue) <= PoolBound
    /\ \A c \in Callers :
        /\ call[c].phase \in {"idle", "single", "reject", "broadcast", "serial", "send", "gather"}
        /\ call[c].at \in Shards /\ call[c].n <= Len(Requests[c])

\* One engine with the rows m could have given this answer: the same value,
\* the same ids, as many matching rows as LIMIT allows, or rows of the same
\* values in the same order (which of several equal rows comes first is open).
AnswersFor(op, ans, m) ==
    LET ref == ReadOnlyOp(op, m)
        distinctRows ==
            /\ IsInjective(ans)
            /\ \A k \in DOMAIN ans : ans[k].id \in Matching(op, m) /\ ans[k] = Row(m, ans[k].id)
    IN  CASE op.kind = "select" -> distinctRows /\ Len(ans) = Len(ref)
          [] op.kind = "sorted" -> /\ distinctRows /\ Len(ans) = Len(ref)
                                   /\ \A k \in DOMAIN ans : ans[k].val = ref[k].val
          [] op.kind = "find" -> IsInjective(ans) /\ Range(ans) = Range(ref)
          [] OTHER -> ans = ref

\* Where the merge knowingly or not leaves the single engine: OFFSET is
\* applied on the shards and again in the merge, and the 0 of a shard with no
\* matching row takes part in MIN and MAX.
MergeDeparts(op, m) ==
    \/ op.kind = "sorted" /\ op.offset > 0
    \/ /\ op.kind = "aggregate" /\ op.fold \in {"min", "max"}
       /\ \E s \in Shards : Matching(op, m) \cap Owned(s) = {}

\* The tables a scan can have read: each shard at one instant of the call.
Mixes(seen) ==
    {m \in [Ids -> Values \cup {None}] : \A s \in Shards : [i \in Owned(s) |-> m[i]] \in seen[s]}

(* A scan that answers is answered as if one engine held the rows, each    *)
(* shard's as they were at one instant of the call: no shard is missing,   *)
(* taken twice or answered from an earlier call, whatever timed out, was   *)
(* cancelled or came late, and a transaction is seen whole or not at all.  *)
AsIfUnsharded ==
    \A c \in Callers :
        ~Busy(c) /\ call[c].op.kind \in Scans /\ call[c].result.kind = "got" =>
            \E m \in Mixes(call[c].seen) :
                MergeDeparts(call[c].op, m) \/ AnswersFor(call[c].op, call[c].result.val, m)

(* The same with no exception: MIN and MAX are "byte-identical to the K=1  *)
(* baseline" and sorted pages skip OFFSET rows, as the merges' comments    *)
(* have it.                                                                *)
KInvariant ==
    \A c \in Callers :
        ~Busy(c) /\ call[c].op.kind \in Scans /\ call[c].result.kind = "got" =>
            \E m \in Mixes(call[c].seen) : AnswersFor(call[c].op, call[c].result.val, m)

(* A type whose creation was acknowledged has, on every shard, the number  *)
(* its creator was told, as long as no two broadcasts overlapped, no shard *)
(* shed one and no DDL came as SQL: the dispatcher reads shard 0's catalog *)
(* for all.                                                                *)
CatalogsAgree ==
    ~apart => \A c \in Callers :
        ~Busy(c) /\ call[c].op.kind = "ddl" /\ call[c].result.kind = "got" =>
            \A s \in Shards :
                /\ call[c].result.val \in DOMAIN catalog[s]
                /\ catalog[s][call[c].result.val] = <<c, call[c].n>>

(* Every call returns although the pool's queue is bounded, its threads    *)
(* are shared and items of calls that gave up are still queued; no         *)
(* deadline has to pass for it.                                            *)
CallsReturn == \A c \in Callers : Busy(c) ~> ~Busy(c)

============================================================================
