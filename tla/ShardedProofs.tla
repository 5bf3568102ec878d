--------------------------- MODULE ShardedProofs ---------------------------
(***************************************************************************)
(* Proofs about Sharded, for any number of shards, rows, callers, pool     *)
(* threads and requests: types, catalogs that agree while no broadcast     *)
(* overlapped another, and scans that are the merge of one answer per      *)
(* shard, each of a state the shard had during the call.                   *)
(*                                                                         *)
(* What an engine computes (ReadOnlyOp) and what the merges make of it is  *)
(* never looked into.                                                      *)
(***************************************************************************)
EXTENDS Sharded, SequenceTheorems, TLAPS

----------------------------------------------------------------------------
(* The invariant *)

Phases == {"idle", "single", "reject", "broadcast", "serial", "send", "gather"}
CallFields == {"n", "op", "phase", "at", "got", "replies", "bad", "cancel", "result", "seen"}
ItemFields == {"caller", "n", "shard", "reply"}

IsSequence(q) == \E S : q \in Seq(S)

Tables == [Ids -> Values \cup {None}]
\* What shard s holds if the rows are m.
SliceOf(m, s) == [i \in Owned(s) |-> m[i]]

\* v is what a shard answered that held one of the slices in S.
ReadAt(op, v, S) == \E sl \in S : v = ReadOnlyOp(op, sl)

\* got has the answers of the first t shards, each of a state it was seen in.
Parts(op, got, t, seen) ==
    IsSequence(got) /\ Len(got) = t /\ \A i \in 1..t : ReadAt(op, got[i], seen[i - 1])

\* h[i] has the rows of the first i shards up to LIMIT, each of a state it was seen in.
Rows(op, h, t, seen) ==
    /\ h[0] = <<>>
    /\ \A i \in 1..t : \E sl \in seen[i - 1] : h[i] = Take(h[i - 1] \o ReadOnlyOp(op, sl), op.limit)

\* got has the rows of the first t shards up to LIMIT.
RowsOf(op, got, t, seen) == \E h : h[t] = got /\ Rows(op, h, t, seen)

\* What is known of an operation by the way it is routed.
Routed(k) ==
    /\ k.phase = "broadcast" <=> k.op.kind = "ddl"
    /\ k.phase = "single" => k.op.kind \in {"put", "txn", "sqlddl"}
    /\ k.phase = "single" /\ k.op.kind = "put" => k.op.id \in Ids /\ k.op.val \in Values \cup {None}
    /\ k.phase = "single" /\ k.op.kind = "txn" =>
           \A i \in DOMAIN k.op.puts : i \in Ids /\ k.op.puts[i] \in Values \cup {None}
    /\ k.phase = "reject" => k.op.kind = "txn"
    /\ k.phase = "serial" => k.op.kind = "find"
    /\ k.phase \in {"send", "gather"} => k.op.kind \in Scans \ {"find"}

\* What has been gathered so far.
Gathered(k) ==
    /\ k.phase = "send" => k.got = <<>> /\ k.bad = NoReply
    /\ k.phase = "broadcast" => IsSequence(k.got) /\ Len(k.got) = k.at
    /\ k.phase = "serial" => Parts(k.op, k.got, k.at, k.seen)
    /\ k.phase = "gather" /\ k.op.kind = "select" =>
           \E h : h[k.at] = k.got /\ Rows(k.op, h, k.at, k.seen)
    /\ k.phase = "gather" /\ k.op.kind # "select" =>
           IF k.bad = NoReply THEN Parts(k.op, k.got, k.at, k.seen) ELSE k.bad.kind # "got"

\* The table each shard's answer is of, and the answer made of them all: the
\* merge, or for SELECT the rows of one shard after another until LIMIT.
OneAnswerPerShard(op, result, m) ==
    IF op.kind # "select"
    THEN result = MergeScanResults(op, [i \in 1..K |-> ReadOnlyOp(op, SliceOf(m, i - 1))])
    ELSE \E t \in 1..K : \E h :
            /\ h[0] = <<>>
            /\ \A i \in 1..t : h[i] = Take(h[i - 1] \o ReadOnlyOp(op, SliceOf(m, i - 1)), op.limit)
            /\ result = Got(h[t]) /\ (t = K \/ (op.limit # 0 /\ Len(h[t]) >= op.limit))

Answered(k) ==
    k.phase = "idle" /\ k.op.kind \in Scans /\ k.result.kind = "got" =>
        \E m \in Mixes(k.seen) : OneAnswerPerShard(k.op, k.result, m)

CallShape(c, k) ==
    /\ DOMAIN k = CallFields /\ k.n \in Nat /\ k.n <= Len(Requests[c])
    /\ k.phase \in Phases /\ k.at \in Shards
    /\ DOMAIN k.replies = Shards /\ DOMAIN k.seen = Shards
    /\ \A s \in Shards : k.seen[s] \subseteq [Owned(s) -> Values \cup {None}]

\* The call k of caller c, while the rows are m.
CallOK(c, k, m) ==
    /\ CallShape(c, k)
    /\ k.phase # "idle" =>
          /\ Routed(k) /\ \A s \in Shards : SliceOf(m, s) \in k.seen[s]
          /\ \A s \in Shards : k.replies[s].kind = "got" => ReadAt(k.op, k.replies[s].val, k.seen[s])
    /\ Gathered(k) /\ Answered(k)

\* A work item of the calls cl: of a call that began, and if the call is still in
\* progress, answered by its shard for that call.
ItemOK(cl, it) ==
    /\ DOMAIN it = ItemFields /\ it.caller \in Callers /\ it.n \in Nat /\ it.shard \in Shards
    /\ it.n <= cl[it.caller].n
    /\ it.n = cl[it.caller].n /\ cl[it.caller].phase # "idle" /\ it.reply.kind = "got" =>
           ReadAt(cl[it.caller].op, it.reply.val, cl[it.caller].seen[it.shard])

PoolOK ==
    /\ IsSequence(queue) /\ Len(queue) <= PoolBound
    /\ \A i \in 1..Len(queue) : ItemOK(call, queue[i])
    /\ DOMAIN worker = Workers
    /\ \A w \in Workers : worker[w] = NoItem \/ ItemOK(call, worker[w])

\* The catalogs cat of the shards while the calls are cl: equal, but for the type
\* that is being created, which the first shards have already.
Even(cl, cat) ==
    /\ \A c, d \in Callers : cl[c].phase = "broadcast" /\ cl[d].phase = "broadcast" => c = d
    /\ (\A c \in Callers : cl[c].phase # "broadcast") => \A s \in Shards : cat[s] = cat[K - 1]
    /\ \A c \in Callers : cl[c].phase = "broadcast" =>
          /\ \A s \in Shards : cat[s] = IF s < cl[c].at THEN Append(cat[K - 1], <<c, cl[c].n>>)
                                        ELSE cat[K - 1]
          /\ cl[c].at # 0 => cl[c].got[1] = Got(Len(cat[K - 1]) + 1)
    /\ \A c \in Callers :
          cl[c].phase = "idle" /\ cl[c].op.kind = "ddl" /\ cl[c].result.kind = "got" =>
              \A s \in Shards : /\ cl[c].result.val \in 1..Len(cat[s])
                                /\ cat[s][cl[c].result.val] = <<c, cl[c].n>>

CatalogsOK ==
    /\ DOMAIN catalog = Shards /\ \A s \in Shards : catalog[s] \in Seq(Callers \X Nat)
    /\ ~ apart => Even(call, catalog)

Inv ==
    /\ rows \in Tables /\ DOMAIN call = Callers /\ \A c \in Callers : CallOK(c, call[c], rows)
    /\ PoolOK /\ CatalogsOK

----------------------------------------------------------------------------
(* A call's record *)

LEMMA ShardsAre ==
    /\ K \in Nat /\ K >= 2 /\ 0 \in Shards /\ K - 1 \in Shards /\ Shards \subseteq Nat
    /\ \A s \in Shards : s # K - 1 => s + 1 \in Shards
    /\ \A i \in 1..K : i - 1 \in Shards
    /\ \A s \in Shards : s < K /\ s <= K - 1
BY ShardedAssumption DEF Shards

LEMMA KindsApart ==
    /\ Got(0).kind = "got" /\ \A v : Got(v).kind = "got" /\ Got(v).val = v
    /\ Unavailable.kind = "unavailable" /\ Rejected.kind = "error" /\ NoReply.kind = "none"
    /\ Unavailable # NoReply /\ \A v : Got(v) # NoReply
<1>1. \A v : Got(v).kind = "got" /\ Got(v).val = v
    BY DEF Got
<1>2. Unavailable.kind = "unavailable" /\ Rejected.kind = "error" /\ NoReply.kind = "none"
    BY DEF Unavailable, Rejected, NoReply
<1>3. Unavailable # NoReply /\ \A v : Got(v) # NoReply
    BY <1>1, <1>2
<1> QED BY <1>1, <1>2, <1>3

LEMMA SliceIs == \A s : Slice(s) = SliceOf(rows, s)
BY DEF Slice, SliceOf

LEMMA SliceType ==
    ASSUME NEW m \in Tables, NEW s
    PROVE  SliceOf(m, s) \in [Owned(s) -> Values \cup {None}]
BY DEF Tables, SliceOf, Owned

\* The call returns.
Finished(k, t, result) ==
    /\ DOMAIN t = CallFields /\ t.n = k.n /\ t.op = k.op /\ t.phase = "idle" /\ t.at = 0
    /\ t.got = <<>> /\ t.bad = NoReply /\ t.result = result /\ t.seen = k.seen
    /\ DOMAIN t.replies = Shards

LEMMA FinishIs ==
    ASSUME NEW c, NEW k, CallShape(c, k), NEW result
    PROVE  Finished(k, Finish(k, result), result)
<1>1. DOMAIN Idle.replies = Shards
    BY DEF Idle
<1> QED BY <1>1 DEF Finish, Finished, CallShape, CallFields

\* It is a call that has returned, and if it was a scan it was answered rightly.
LEMMA FinishOK ==
    ASSUME NEW c, NEW k, CallShape(c, k), NEW result, NEW m,
           k.op.kind \in Scans /\ result.kind = "got" => Answered(Finish(k, result))
    PROVE  CallOK(c, Finish(k, result), m)
<1>1. PICK t : t = Finish(k, result)
    OBVIOUS
<1>2. Finished(k, t, result)
    BY <1>1, FinishIs
<1>3. CallShape(c, t)
    BY <1>2, ShardsAre DEF Finished, CallShape, Phases
<1>4. Gathered(t)
    BY <1>2 DEF Finished, Gathered
<1>5. Answered(t)
    BY <1>1, <1>2 DEF Finished, Answered
<1>6. t.phase = "idle"
    BY <1>2 DEF Finished
<1> QED BY <1>1, <1>3, <1>4, <1>5, <1>6 DEF CallOK

\* Shards answered for one table: the slices, put together, are a mix of what was seen.
LEMMA Mixed ==
    ASSUME NEW seen, \A s \in Shards : seen[s] \subseteq [Owned(s) -> Values \cup {None}],
           NEW f, \A s \in Shards : f[s] \in seen[s]
    PROVE  \E m \in Mixes(seen) : \A s \in Shards : SliceOf(m, s) = f[s]
<1>1. PICK m : m = [i \in Ids |-> f[ShardOf[i]][i]]
    OBVIOUS
<1>2. \A i \in Ids : ShardOf[i] \in Shards /\ i \in Owned(ShardOf[i])
    BY ShardedAssumption DEF Owned
<1>3. \A s \in Shards : f[s] \in [Owned(s) -> Values \cup {None}]
    OBVIOUS
<1>4. m \in [Ids -> Values \cup {None}]
    BY <1>1, <1>2, <1>3
<1>5. ASSUME NEW s \in Shards PROVE SliceOf(m, s) = f[s]
    <2>1. \A i \in Owned(s) : i \in Ids /\ ShardOf[i] = s
        BY DEF Owned
    <2>2. \A i \in Owned(s) : m[i] = f[s][i]
        BY <1>1, <2>1
    <2>3. SliceOf(m, s) = [i \in Owned(s) |-> f[s][i]]
        BY <2>2 DEF SliceOf
    <2> QED BY <1>3, <2>3
<1>6. m \in Mixes(seen)
    BY <1>4, <1>5 DEF Mixes, SliceOf
<1> QED BY <1>5, <1>6

\* All shards answered.
LEMMA AllParts ==
    ASSUME NEW c, NEW k, CallShape(c, k), k.op.kind # "select", NEW parts,
           Parts(k.op, parts, K, k.seen), NEW t, Finished(k, t, MergeScanResults(k.op, parts))
    PROVE  Answered(t)
<1>1. PICK f : f = [s \in Shards |-> CHOOSE sl \in k.seen[s] : parts[s + 1] = ReadOnlyOp(k.op, sl)]
    OBVIOUS
<1>2. ASSUME NEW s \in Shards PROVE f[s] \in k.seen[s] /\ parts[s + 1] = ReadOnlyOp(k.op, f[s])
    <2>1. s + 1 \in 1..K /\ (s + 1) - 1 = s
        BY ShardedAssumption DEF Shards
    <2>2. \E sl \in k.seen[s] : parts[s + 1] = ReadOnlyOp(k.op, sl)
        BY <2>1 DEF Parts, ReadAt
    <2> QED BY <1>1, <2>2
<1>3. PICK m \in Mixes(k.seen) : \A s \in Shards : SliceOf(m, s) = f[s]
    BY <1>2, Mixed DEF CallShape
<1>4. parts = [i \in 1..K |-> ReadOnlyOp(k.op, SliceOf(m, i - 1))]
    <2>1. PICK S : parts \in Seq(S) /\ Len(parts) = K
        BY DEF Parts, IsSequence
    <2>2. parts = [i \in 1..K |-> parts[i]]
        BY <2>1
    <2>3. \A i \in 1..K : i - 1 \in Shards /\ (i - 1) + 1 = i
        BY ShardedAssumption DEF Shards
    <2>4. \A i \in 1..K : parts[i] = ReadOnlyOp(k.op, SliceOf(m, i - 1))
        BY <1>2, <1>3, <2>3
    <2> QED BY <2>2, <2>4
<1>5. OneAnswerPerShard(t.op, t.result, m) /\ t.seen = k.seen
    BY <1>4 DEF OneAnswerPerShard, Finished
<1> QED BY <1>3, <1>5 DEF Answered

\* The rows of the first t shards were enough, or t is the last.
LEMMA AllRows ==
    ASSUME NEW c, NEW k, CallShape(c, k), k.op.kind = "select", \A s \in Shards : k.seen[s] # {},
           NEW t \in 1..K, NEW h, Rows(k.op, h, t, k.seen),
           t = K \/ (k.op.limit # 0 /\ Len(h[t]) >= k.op.limit),
           NEW u, Finished(k, u, Got(h[t]))
    PROVE  Answered(u)
<1> DEFINE Good(s, sl) == s + 1 <= t => h[s + 1] = Take(h[s] \o ReadOnlyOp(k.op, sl), k.op.limit)
<1>1. PICK f : f = [s \in Shards |-> CHOOSE sl \in k.seen[s] : Good(s, sl)]
    OBVIOUS
<1>2. ASSUME NEW s \in Shards PROVE f[s] \in k.seen[s] /\ Good(s, f[s])
    <2>1. \E sl \in k.seen[s] : Good(s, sl)
        <3>1. CASE s + 1 <= t
            <4>1. s + 1 \in 1..t /\ (s + 1) - 1 = s
                BY <3>1, ShardedAssumption DEF Shards
            <4> QED BY <4>1 DEF Rows
        <3>2. CASE ~ (s + 1 <= t)
            BY <3>2
        <3> QED BY <3>1, <3>2
    <2> HIDE DEF Good
    <2> QED BY <1>1, <2>1
<1>3. PICK m \in Mixes(k.seen) : \A s \in Shards : SliceOf(m, s) = f[s]
    <2> HIDE DEF Good
    <2>1. \A s \in Shards : f[s] \in k.seen[s]
        BY <1>2
    <2> QED BY <2>1, Mixed DEF CallShape
<1>4. \A i \in 1..t : h[i] = Take(h[i - 1] \o ReadOnlyOp(k.op, SliceOf(m, i - 1)), k.op.limit)
    <2> TAKE i \in 1..t
    <2>1. PICK s : s = i - 1
        OBVIOUS
    <2>2. s \in Shards /\ s + 1 = i /\ s + 1 <= t
        BY <2>1, ShardedAssumption DEF Shards
    <2>3. Good(s, f[s])
        BY <1>2, <2>2
    <2> QED BY <1>3, <2>1, <2>2, <2>3
<1>5. /\ u.seen = k.seen /\ u.op = k.op /\ u.result = Got(h[t])
    BY DEF Finished
<1>6. OneAnswerPerShard(u.op, u.result, m)
    BY <1>4, <1>5 DEF OneAnswerPerShard, Rows
<1> QED BY <1>3, <1>5, <1>6 DEF Answered

LEMMA Extended ==
    ASSUME NEW q, IsSequence(q), NEW v
    PROVE  /\ IsSequence(Append(q, v)) /\ Len(Append(q, v)) = Len(q) + 1 /\ Len(q) \in Nat
           /\ \A i \in 1..Len(q) : Append(q, v)[i] = q[i]
           /\ Append(q, v)[Len(q) + 1] = v
<1>1. PICK S : q \in Seq(S)
    BY DEF IsSequence
<1>2. PICK T : T = S \cup {v}
    OBVIOUS
<1>3. q \in Seq(T) /\ v \in T
    <2>1. S \subseteq T
        BY <1>2
    <2> QED BY <1>1, <1>2, <2>1, SeqMonotonic
<1>4. /\ Append(q, v) \in Seq(T) /\ Len(Append(q, v)) = Len(q) + 1
      /\ \A i \in 1..Len(q) : Append(q, v)[i] = q[i]
      /\ Append(q, v)[Len(q) + 1] = v
    BY <1>3, AppendProperties
<1>5. Len(q) \in Nat
    BY <1>1, LenProperties
<1> QED BY <1>4, <1>5 DEF IsSequence

----------------------------------------------------------------------------
(* What a step leaves alone *)

\* From k0 to k a call goes on, returns or begins.
Goes(k0, k) ==
    \/ /\ k.n = k0.n
       /\ k.phase # "idle" => /\ k0.phase # "idle" /\ k.op = k0.op
                              /\ \A s \in Shards : k0.seen[s] \subseteq k.seen[s]
    \/ k.n = k0.n + 1

LEMMA ItemsStay ==
    ASSUME NEW cl, NEW dl, \A c \in Callers : cl[c].n \in Nat /\ Goes(cl[c], dl[c]),
           NEW it, ItemOK(cl, it)
    PROVE  ItemOK(dl, it)
<1>1. PICK c : c = it.caller
    OBVIOUS
<1>2. /\ c \in Callers /\ it.n \in Nat /\ it.n <= cl[c].n /\ it.shard \in Shards /\ DOMAIN it = ItemFields
      /\ it.n = cl[c].n /\ cl[c].phase # "idle" /\ it.reply.kind = "got" =>
           ReadAt(cl[c].op, it.reply.val, cl[c].seen[it.shard])
    BY <1>1 DEF ItemOK
<1>3. cl[c].n \in Nat /\ Goes(cl[c], dl[c])
    BY <1>2
<1>4. CASE dl[c].n = cl[c].n + 1
    <2>1. it.n <= dl[c].n /\ it.n # dl[c].n
        BY <1>2, <1>3, <1>4
    <2> QED BY <1>1, <1>2, <2>1 DEF ItemOK
<1>5. CASE /\ dl[c].n = cl[c].n
           /\ dl[c].phase # "idle" => /\ cl[c].phase # "idle" /\ dl[c].op = cl[c].op
                                      /\ \A s \in Shards : cl[c].seen[s] \subseteq dl[c].seen[s]
    <2>1. it.n = dl[c].n /\ dl[c].phase # "idle" /\ it.reply.kind = "got" =>
             ReadAt(dl[c].op, it.reply.val, dl[c].seen[it.shard])
        BY <1>2, <1>5 DEF ReadAt
    <2> QED BY <1>1, <1>2, <1>5, <2>1 DEF ItemOK
<1> QED BY <1>3, <1>4, <1>5 DEF Goes

\* The call creates no type, before or after.
NoDdl(k0, k) ==
    k0.phase # "broadcast" /\ k.phase # "broadcast" /\ (k.phase = "idle" => k.op.kind # "ddl")
SameDdl(k0, k) ==
    /\ k.phase = k0.phase /\ k.op = k0.op /\ k.n = k0.n /\ k.at = k0.at /\ k.got = k0.got
    /\ k.result = k0.result

LEMMA EvenStays ==
    ASSUME NEW cl, NEW dl, NEW cat, Even(cl, cat),
           \A c \in Callers : SameDdl(cl[c], dl[c]) \/ NoDdl(cl[c], dl[c])
    PROVE  Even(dl, cat)
<1>1. \A c \in Callers : dl[c].phase = "broadcast" => SameDdl(cl[c], dl[c])
    BY DEF NoDdl
<1>2. \A c \in Callers : cl[c].phase = "broadcast" => dl[c].phase = "broadcast"
    BY DEF NoDdl, SameDdl
<1>3. \A c \in Callers : dl[c].phase = "broadcast" => cl[c].phase = "broadcast"
    BY <1>1 DEF SameDdl
<1>4. \A c, d \in Callers : dl[c].phase = "broadcast" /\ dl[d].phase = "broadcast" => c = d
    BY <1>3 DEF Even
<1>5. (\A c \in Callers : dl[c].phase # "broadcast") => \A s \in Shards : cat[s] = cat[K - 1]
    BY <1>2 DEF Even
<1>6. ASSUME NEW c \in Callers, dl[c].phase = "broadcast"
      PROVE  /\ \A s \in Shards : cat[s] = IF s < dl[c].at THEN Append(cat[K - 1], <<c, dl[c].n>>)
                                           ELSE cat[K - 1]
             /\ dl[c].at # 0 => dl[c].got[1] = Got(Len(cat[K - 1]) + 1)
    <2>1. SameDdl(cl[c], dl[c]) /\ cl[c].phase = "broadcast"
        BY <1>1, <1>3, <1>6
    <2>2. /\ \A s \in Shards : cat[s] = IF s < cl[c].at THEN Append(cat[K - 1], <<c, cl[c].n>>)
                                        ELSE cat[K - 1]
          /\ cl[c].at # 0 => cl[c].got[1] = Got(Len(cat[K - 1]) + 1)
        BY <2>1 DEF Even
    <2>3. dl[c].at = cl[c].at /\ dl[c].n = cl[c].n /\ dl[c].got = cl[c].got
        BY <2>1 DEF SameDdl
    <2> QED BY <2>2, <2>3
<1>7. ASSUME NEW c \in Callers, dl[c].phase = "idle", dl[c].op.kind = "ddl", dl[c].result.kind = "got",
             NEW s \in Shards
      PROVE  dl[c].result.val \in 1..Len(cat[s]) /\ cat[s][dl[c].result.val] = <<c, dl[c].n>>
    <2>1. SameDdl(cl[c], dl[c])
        BY <1>7 DEF NoDdl
    <2> QED BY <1>7, <2>1 DEF Even, SameDdl
<1> QED BY <1>4, <1>5, <1>6, <1>7 DEF Even

LEMMA OneCall ==
    ASSUME Inv, NEW c \in Callers, NEW k, call' = [call EXCEPT ![c] = k], CallOK(c, k, rows),
           rows' = rows, Goes(call[c], k)
    PROVE  /\ rows' \in Tables /\ DOMAIN call' = Callers
           /\ \A x \in Callers : CallOK(x, call'[x], rows')
           /\ \A it : ItemOK(call, it) => ItemOK(call', it)
           /\ call'[c] = k /\ \A x \in Callers : x # c => call'[x] = call[x]
<1>1. DOMAIN call' = Callers /\ call'[c] = k /\ \A x \in Callers : x # c => call'[x] = call[x]
    BY DEF Inv
<1>2. \A x \in Callers : CallOK(x, call'[x], rows')
    BY <1>1 DEF Inv
<1>3. \A x \in Callers : call[x].n \in Nat
    BY DEF Inv, CallOK, CallShape
<1>4. \A x \in Callers : Goes(call[x], call'[x])
    BY <1>1 DEF Goes
<1>5. PICK dl : dl = call'
    OBVIOUS
<1>6. \A it : ItemOK(call, it) => ItemOK(dl, it)
    BY <1>3, <1>4, <1>5, ItemsStay
<1> QED BY <1>1, <1>2, <1>5, <1>6 DEF Inv

LEMMA SamePool ==
    ASSUME Inv, \A it : ItemOK(call, it) => ItemOK(call', it), UNCHANGED <<queue, worker>>
    PROVE  PoolOK'
BY DEF Inv, PoolOK, IsSequence

LEMMA SameCatalogs ==
    ASSUME Inv, \A x \in Callers : SameDdl(call[x], call'[x]) \/ NoDdl(call[x], call'[x]),
           catalog' = catalog, apart => apart'
    PROVE  CatalogsOK'
<1>1. PICK dl : dl = call'
    OBVIOUS
<1>2. ~ apart' => Even(dl, catalog)
    BY <1>1, EvenStays DEF Inv, CatalogsOK
<1> QED BY <1>1, <1>2 DEF Inv, CatalogsOK

\* A step of one call that creates no type and touches nothing else.
LEMMA OneStep ==
    ASSUME Inv, NEW c \in Callers, NEW k, call' = [call EXCEPT ![c] = k], CallOK(c, k, rows),
           Goes(call[c], k), NoDdl(call[c], k), UNCHANGED <<rows, catalog, queue, worker>>,
           apart => apart'
    PROVE  Inv'
<1>1. /\ rows' \in Tables /\ DOMAIN call' = Callers
      /\ \A x \in Callers : CallOK(x, call'[x], rows')
      /\ \A it : ItemOK(call, it) => ItemOK(call', it)
      /\ call'[c] = k /\ \A x \in Callers : x # c => call'[x] = call[x]
    BY OneCall
<1>2. PoolOK'
    BY <1>1, SamePool
<1>3. \A x \in Callers : SameDdl(call[x], call'[x]) \/ NoDdl(call[x], call'[x])
    BY <1>1 DEF SameDdl
<1>4. CatalogsOK'
    BY <1>3, SameCatalogs
<1> QED BY <1>1, <1>2, <1>4 DEF Inv

\* A call that is in progress, and what it becomes when it returns.
LEMMA InProgress ==
    ASSUME Inv, NEW c \in Callers, NEW k, k = call[c], k.phase # "idle"
    PROVE  /\ CallShape(c, k) /\ Routed(k) /\ Gathered(k)
           /\ \A s \in Shards : SliceOf(rows, s) \in k.seen[s]
           /\ \A s \in Shards : k.replies[s].kind = "got" => ReadAt(k.op, k.replies[s].val, k.seen[s])
BY DEF Inv, CallOK

LEMMA FinishGoes ==
    ASSUME NEW c, NEW k, CallShape(c, k), NEW result
    PROVE  /\ Goes(k, Finish(k, result))
           /\ k.phase # "broadcast" /\ k.op.kind # "ddl" => NoDdl(k, Finish(k, result))
<1>1. PICK t : t = Finish(k, result)
    OBVIOUS
<1>2. Finished(k, t, result)
    BY <1>1, FinishIs
<1> QED BY <1>1, <1>2 DEF Finished, Goes, NoDdl

----------------------------------------------------------------------------
(* The steps of a call *)

LEMMA BeginStep ==
    ASSUME Inv, NEW c \in Callers, NEW op \in NextRequests(c), Begin(c, op)
    PROVE  Inv'
<1>1. PICK k0 : k0 = call[c]
    OBVIOUS
<1>2. CallShape(c, k0) /\ k0.phase = "idle" /\ k0.n \in Nat
    BY <1>1 DEF Begin, Busy, Inv, CallOK, CallShape
<1>3. Len(Requests[c]) \in Nat /\ DOMAIN Requests[c] = 1..Len(Requests[c])
    BY RequestsAssumption
<1>4. k0.n < Len(Requests[c]) /\ op \in Requests[c][k0.n + 1]
    BY <1>1 DEF NextRequests
<1>5. k0.n + 1 \in DOMAIN Requests[c] /\ k0.n + 1 <= Len(Requests[c])
    BY <1>2, <1>3, <1>4
<1>6. /\ op.kind \in Scans \cup {"put", "txn", "ddl", "sqlddl"}
      /\ op.kind = "put" => op.id \in Ids /\ op.val \in Values \cup {None}
      /\ op.kind = "txn" => \A i \in DOMAIN op.puts : i \in Ids /\ op.puts[i] \in Values \cup {None}
    BY <1>4, <1>5, RequestsAssumption
<1>7. PICK k : k = [Idle EXCEPT !.n = call[c].n + 1, !.op = op, !.phase = Route(op), !.cancel = FALSE,
                               !.seen = [s \in Shards |-> {Slice(s)}]]
    OBVIOUS
<1>8. /\ DOMAIN k = CallFields /\ k.n = k0.n + 1 /\ k.op = op /\ k.phase = Route(op) /\ k.at = 0
      /\ k.got = <<>> /\ k.bad = NoReply /\ k.replies = [s \in Shards |-> NoReply]
      /\ k.seen = [s \in Shards |-> {Slice(s)}]
    BY <1>1, <1>7 DEF Idle, CallFields
<1>9. \A s \in Shards : k.seen[s] \subseteq [Owned(s) -> Values \cup {None}]
    <2>1. \A s \in Shards : Slice(s) \in [Owned(s) -> Values \cup {None}]
        BY SliceIs, SliceType DEF Inv
    <2> QED BY <1>8, <2>1
<1>10. CASE op.kind # "ddl"
    <2>1. k.phase \in {"single", "reject", "serial", "send"} /\ Routed(k)
        <3>1. CASE op.kind = "put"
            <4>1. Route(op) = "single"
                BY <3>1 DEF Route, Scans
            <4> QED BY <1>6, <1>8, <3>1, <4>1 DEF Routed
        <3>2. CASE op.kind = "txn"
            <4>1. Route(op) \in {"single", "reject"}
                BY <3>2 DEF Route, ClassifyTxn, Scans
            <4> QED BY <1>6, <1>8, <3>2, <4>1 DEF Routed
        <3>3. CASE op.kind = "sqlddl"
            <4>1. Route(op) = "single"
                BY <3>3 DEF Route, Scans
            <4> QED BY <1>6, <1>8, <3>3, <4>1 DEF Routed
        <3>4. CASE op.kind = "find"
            <4>1. Route(op) = "serial"
                BY <3>4 DEF Route, Scans
            <4> QED BY <1>6, <1>8, <3>4, <4>1 DEF Routed, Scans
        <3>5. CASE op.kind \in Scans \ {"find"}
            <4>1. Route(op) = "send"
                BY <3>5 DEF Route, Scans
            <4> QED BY <1>6, <1>8, <3>5, <4>1 DEF Routed, Scans
        <3> QED BY <1>6, <1>10, <3>1, <3>2, <3>3, <3>4, <3>5
    <2> QED
        <3>1. CallOK(c, k, rows) /\ Goes(call[c], k) /\ NoDdl(call[c], k)
            <4>1. \A s \in Shards : k.seen[s] = {SliceOf(rows, s)}
                BY <1>8, SliceIs
            <4>2. CallShape(c, k)
                <5>1. k.n \in Nat /\ k.n <= Len(Requests[c])
                    BY <1>2, <1>5, <1>8
                <5>2. k.phase \in Phases
                    BY <2>1 DEF Phases
                <5> QED BY <1>8, <1>9, <5>1, <5>2, ShardsAre DEF CallShape
            <4>3. Gathered(k)
                <5>1. IsSequence(<<>>) /\ Len(<<>>) = 0
                    <6>1. <<>> \in Seq({}) /\ Len(<<>>) = 0
                        BY EmptySeq
                    <6> QED BY <6>1 DEF IsSequence
                <5>2. Parts(k.op, k.got, 0, k.seen)
                    BY <1>8, <5>1 DEF Parts
                <5> QED BY <1>8, <2>1, <5>2 DEF Gathered
            <4>4. Answered(k)
                BY <2>1 DEF Answered
            <4>5. \A s \in Shards : k.replies[s].kind # "got"
                BY <1>8, KindsApart
            <4>6. CallOK(c, k, rows)
                BY <2>1, <4>1, <4>2, <4>3, <4>4, <4>5 DEF CallOK
            <4>7. Goes(k0, k)
                BY <1>8 DEF Goes
            <4>8. NoDdl(k0, k)
                BY <1>2, <2>1 DEF NoDdl
            <4> QED BY <1>1, <4>6, <4>7, <4>8
        <3>2. call' = [call EXCEPT ![c] = k] /\ UNCHANGED <<rows, catalog, queue, worker>>
              /\ (apart => apart')
            BY <1>7 DEF Begin
        <3> QED BY <3>1, <3>2, OneStep
<1>11. CASE op.kind = "ddl"
    <2>1. k.phase = "broadcast" /\ Routed(k)
        <3>1. Route(op) = "broadcast"
            BY <1>11 DEF Route, Scans
        <3> QED BY <1>8, <1>11, <3>1 DEF Routed
    <2>2. \A s \in Shards : k.seen[s] = {SliceOf(rows, s)}
        BY <1>8, SliceIs
    <2>3. CallShape(c, k)
        <3>1. k.n \in Nat /\ k.n <= Len(Requests[c])
            BY <1>2, <1>5, <1>8
        <3>2. k.phase \in Phases
            BY <2>1 DEF Phases
        <3> QED BY <1>8, <1>9, <3>1, <3>2, ShardsAre DEF CallShape
    <2>4. Gathered(k) /\ Answered(k)
        <3>1. IsSequence(<<>>) /\ Len(<<>>) = 0
            <4>1. <<>> \in Seq({}) /\ Len(<<>>) = 0
                BY EmptySeq
            <4> QED BY <4>1 DEF IsSequence
        <3> QED BY <1>8, <2>1, <3>1 DEF Gathered, Answered
    <2>5. \A s \in Shards : k.replies[s].kind # "got"
        BY <1>8, KindsApart
    <2>6. CallOK(c, k, rows)
        BY <2>1, <2>2, <2>3, <2>4, <2>5 DEF CallOK
    <2>7. Goes(call[c], k)
        BY <1>1, <1>8 DEF Goes
    <2>8. call' = [call EXCEPT ![c] = k] /\ UNCHANGED <<rows, catalog, queue, worker>>
        BY <1>7 DEF Begin
    <2>9. /\ rows' \in Tables /\ DOMAIN call' = Callers
          /\ \A x \in Callers : CallOK(x, call'[x], rows')
          /\ \A it : ItemOK(call, it) => ItemOK(call', it)
          /\ call'[c] = k /\ \A x \in Callers : x # c => call'[x] = call[x]
        BY <2>6, <2>7, <2>8, OneCall
    <2>10. PoolOK'
        BY <2>8, <2>9, SamePool
    <2>11. ASSUME ~ apart' PROVE Even(call', catalog)
        <3>1. ~ apart /\ \A d \in Callers : call[d].phase # "broadcast"
            BY <1>11, <2>11 DEF Begin, Creating
        <3>2. Even(call, catalog) /\ \A s \in Shards : catalog[s] = catalog[K - 1]
            BY <3>1 DEF Inv, CatalogsOK, Even
        <3>3. PICK dl : dl = call'
            OBVIOUS
        <3>4. dl[c].phase = "broadcast" /\ dl[c].at = 0 /\ \A x \in Callers : x # c => dl[x] = call[x]
            BY <1>8, <2>1, <2>9, <3>3
        <3>5. \A s \in Shards : ~ (s < 0)
            BY ShardsAre
        <3>6. \A x, d \in Callers : dl[x].phase = "broadcast" /\ dl[d].phase = "broadcast" => x = d
            BY <3>1, <3>4
        <3>7. \A x \in Callers : dl[x].phase = "broadcast" => x = c
            BY <3>1, <3>4
        <3>8. ASSUME NEW x \in Callers, dl[x].phase = "idle", dl[x].op.kind = "ddl",
                     dl[x].result.kind = "got", NEW s \in Shards
              PROVE  dl[x].result.val \in 1..Len(catalog[s]) /\ catalog[s][dl[x].result.val] = <<x, dl[x].n>>
            <4>1. dl[x] = call[x]
                BY <3>4, <3>8
            <4> QED BY <3>2, <3>8, <4>1 DEF Even
        <3>9. Even(dl, catalog)
            BY <3>2, <3>4, <3>5, <3>6, <3>7, <3>8 DEF Even
        <3> QED BY <3>3, <3>9
    <2>12. CatalogsOK'
        BY <2>8, <2>11 DEF Inv, CatalogsOK
    <2> QED BY <2>9, <2>10, <2>12 DEF Inv
<1> QED BY <1>10, <1>11

LEMMA RejectStep ==
    ASSUME Inv, NEW c \in Callers, CrossShardReject(c)
    PROVE  Inv'
<1>1. PICK k : k = call[c]
    OBVIOUS
<1>2. k.phase = "reject" /\ CallShape(c, k) /\ Routed(k)
    BY <1>1, InProgress DEF CrossShardReject
<1>3. k.op.kind = "txn"
    BY <1>2 DEF Routed
<1>4. PICK t : t = Finish(k, Rejected)
    OBVIOUS
<1>5. CallOK(c, t, rows) /\ Goes(k, t) /\ NoDdl(k, t)
    BY <1>2, <1>3, <1>4, FinishOK, FinishGoes, KindsApart DEF Scans
<1>6. call' = [call EXCEPT ![c] = t] /\ UNCHANGED <<rows, catalog, queue, worker, apart>>
    BY <1>1, <1>4 DEF CrossShardReject
<1> QED BY <1>1, <1>5, <1>6, OneStep

\* One more shard has answered.
LEMMA OneMorePart ==
    ASSUME NEW op, NEW seen, NEW a \in Shards, NEW q, Parts(op, q, a, seen), NEW v, ReadAt(op, v, seen[a])
    PROVE  Parts(op, Append(q, v), a + 1, seen)
<1>1. a \in Nat /\ IsSequence(q) /\ Len(q) = a /\ \A i \in 1..a : ReadAt(op, q[i], seen[i - 1])
    BY ShardsAre DEF Parts
<1>2. /\ IsSequence(Append(q, v)) /\ Len(Append(q, v)) = a + 1
      /\ \A i \in 1..a : Append(q, v)[i] = q[i]
      /\ Append(q, v)[a + 1] = v
    BY <1>1, Extended
<1>3. \A i \in 1..(a + 1) : ReadAt(op, Append(q, v)[i], seen[i - 1])
    <2> TAKE i \in 1..(a + 1)
    <2>1. i \in 1..a \/ (i = a + 1 /\ i - 1 = a)
        BY <1>1
    <2>2. CASE i \in 1..a
        BY <1>1, <1>2, <2>2
    <2>3. CASE i = a + 1 /\ i - 1 = a
        BY <1>2, <2>3
    <2> QED BY <2>1, <2>2, <2>3
<1> QED BY <1>2, <1>3 DEF Parts

\* The next shard of an index lookup.
LEMMA WalkStep ==
    ASSUME Inv, NEW c \in Callers, WalkShard(c)
    PROVE  Inv'
<1>1. PICK k : k = call[c]
    OBVIOUS
<1>2. k.phase = "serial" /\ CallShape(c, k) /\ Routed(k) /\ Parts(k.op, k.got, k.at, k.seen)
      /\ (\A s \in Shards : SliceOf(rows, s) \in k.seen[s])
    BY <1>1, InProgress DEF WalkShard, Gathered
<1>3. k.op.kind = "find" /\ k.at \in Shards
    BY <1>2 DEF Routed, CallShape
<1>4. PICK parts : parts = Append(k.got, ReadOnlyOp(k.op, SliceOf(rows, k.at)))
    OBVIOUS
<1>5. Parts(k.op, parts, k.at + 1, k.seen)
    <2>1. PICK v : v = ReadOnlyOp(k.op, SliceOf(rows, k.at))
        OBVIOUS
    <2>2. ReadAt(k.op, v, k.seen[k.at])
        BY <1>2, <1>3, <2>1 DEF ReadAt
    <2> QED BY <1>2, <1>3, <1>4, <2>1, <2>2, OneMorePart
<1>6. PICK t : t = IF k.at = K - 1 THEN Finish(k, MergeScanResults(k.op, parts))
                   ELSE [k EXCEPT !.at = @ + 1, !.got = parts]
    OBVIOUS
<1>7. call' = [call EXCEPT ![c] = t] /\ UNCHANGED <<rows, catalog, queue, worker, apart>>
    BY <1>1, <1>4, <1>6, SliceIs DEF WalkShard
<1>8. CASE k.at = K - 1
    <2>1. PICK r : r = MergeScanResults(k.op, parts)
        OBVIOUS
    <2>2. t = Finish(k, r)
        BY <1>6, <1>8, <2>1
    <2>3. Finished(k, t, r)
        BY <1>2, <2>2, FinishIs
    <2>4. k.at + 1 = K
        BY <1>8, ShardsAre
    <2>5. Answered(t)
        BY <1>2, <1>3, <1>5, <2>1, <2>3, <2>4, AllParts
    <2>6. CallOK(c, t, rows) /\ Goes(k, t) /\ NoDdl(k, t)
        BY <1>2, <1>3, <2>2, <2>5, FinishOK, FinishGoes
    <2> QED BY <1>1, <1>7, <2>6, OneStep
<1>9. CASE k.at # K - 1
    <2>1. /\ DOMAIN t = CallFields /\ t.n = k.n /\ t.op = k.op /\ t.phase = "serial" /\ t.at = k.at + 1
          /\ t.got = parts /\ t.replies = k.replies /\ t.seen = k.seen
        BY <1>2, <1>6, <1>9 DEF CallShape, CallFields
    <2>2. t.at \in Shards
        BY <1>3, <1>9, <2>1, ShardsAre
    <2>3. CallShape(c, t)
        BY <1>2, <2>1, <2>2 DEF CallShape, Phases
    <2>4. Routed(t)
        BY <1>3, <2>1 DEF Routed
    <2>5. Gathered(t) /\ Answered(t)
        BY <1>5, <2>1 DEF Gathered, Answered
    <2>6. \A s \in Shards : t.replies[s].kind = "got" => ReadAt(t.op, t.replies[s].val, t.seen[s])
        BY <1>1, <1>2, <2>1, InProgress
    <2>7. CallOK(c, t, rows)
        BY <1>2, <2>1, <2>3, <2>4, <2>5, <2>6 DEF CallOK
    <2>8. Goes(k, t) /\ NoDdl(k, t)
        BY <1>2, <2>1 DEF Goes, NoDdl
    <2> QED BY <1>1, <1>7, <2>7, <2>8, OneStep
<1> QED BY <1>8, <1>9

----------------------------------------------------------------------------
(* Writes *)

\* k goes on with more states of the shards seen.
Saw(k0, k) ==
    /\ DOMAIN k = CallFields /\ k.n = k0.n /\ k.op = k0.op /\ k.phase = k0.phase /\ k.at = k0.at
    /\ k.got = k0.got /\ k.replies = k0.replies /\ k.bad = k0.bad /\ k.result = k0.result
    /\ DOMAIN k.seen = Shards /\ \A s \in Shards : k0.seen[s] \subseteq k.seen[s]

LEMMA SawMore ==
    ASSUME NEW c, NEW k0, NEW m0, NEW k, NEW m, CallOK(c, k0, m0), k0.phase # "idle", Saw(k0, k),
           \A s \in Shards : k.seen[s] \subseteq [Owned(s) -> Values \cup {None}],
           \A s \in Shards : SliceOf(m, s) \in k.seen[s]
    PROVE  CallOK(c, k, m)
<1>1. CallShape(c, k)
    BY DEF CallOK, CallShape, Saw
<1>2. Routed(k)
    BY DEF CallOK, Routed, Saw
<1>3. \A s \in Shards : k.replies[s].kind = "got" => ReadAt(k.op, k.replies[s].val, k.seen[s])
    BY DEF CallOK, ReadAt, Saw
<1>4. k.at \in Shards
    BY <1>1 DEF CallShape
<1>5. \A i \in 1..k.at : k0.seen[i - 1] \subseteq k.seen[i - 1]
    <2>1. \A i \in 1..k.at : i - 1 \in Shards
        BY <1>4, ShardedAssumption DEF Shards
    <2> QED BY <2>1 DEF Saw
<1>6. ASSUME NEW q, Parts(k0.op, q, k.at, k0.seen)
      PROVE  Parts(k0.op, q, k.at, k.seen)
    BY <1>5, <1>6 DEF Parts, ReadAt
<1>7. ASSUME NEW h, Rows(k0.op, h, k.at, k0.seen)
      PROVE  Rows(k0.op, h, k.at, k.seen)
    BY <1>5, <1>7 DEF Rows
<1>8. Gathered(k)
    <2>1. Gathered(k0) /\ k.at = k0.at /\ k.got = k0.got /\ k.op = k0.op /\ k.phase = k0.phase /\ k.bad = k0.bad
        BY DEF CallOK, Saw
    <2>2. /\ k.phase = "send" => k.got = <<>> /\ k.bad = NoReply
          /\ k.phase = "broadcast" => IsSequence(k.got) /\ Len(k.got) = k.at
          /\ k.phase = "serial" => Parts(k.op, k.got, k.at, k.seen)
        BY <1>6, <2>1 DEF Gathered
    <2>3. k.phase = "gather" /\ k.op.kind = "select" =>
               \E h : h[k.at] = k.got /\ Rows(k.op, h, k.at, k.seen)
        BY <1>7, <2>1 DEF Gathered
    <2>4. k.phase = "gather" /\ k.op.kind # "select" =>
               IF k.bad = NoReply THEN Parts(k.op, k.got, k.at, k.seen) ELSE k.bad.kind # "got"
        BY <1>6, <2>1 DEF Gathered
    <2> QED BY <2>2, <2>3, <2>4 DEF Gathered
<1>9. Answered(k)
    BY DEF Answered, Saw
<1> QED BY <1>1, <1>2, <1>3, <1>8, <1>9 DEF CallOK

\* A call that has returned does not depend on the rows.
LEMMA Returned ==
    ASSUME NEW c, NEW k, NEW m0, NEW m, CallOK(c, k, m0), k.phase = "idle"
    PROVE  CallOK(c, k, m)
BY DEF CallOK

LEMMA NotedIs ==
    ASSUME Inv, NEW m \in Tables, NEW x \in Callers, call[x].phase # "idle"
    PROVE  /\ Saw(call[x], Noted(m)[x]) /\ CallOK(x, Noted(m)[x], m)
<1>1. PICK k0, k : k0 = call[x] /\ k = Noted(m)[x]
    OBVIOUS
<1>2. k = [k0 EXCEPT !.seen = [s \in Shards |-> @[s] \cup {SliceOf(m, s)}]]
    BY <1>1 DEF Noted, Busy, SliceOf
<1>3. CallOK(x, k0, rows)
    BY <1>1 DEF Inv
<1>4. DOMAIN k0 = CallFields /\ \A s \in Shards : k0.seen[s] \subseteq [Owned(s) -> Values \cup {None}]
    BY <1>3 DEF CallOK, CallShape
<1>5. k.seen = [s \in Shards |-> k0.seen[s] \cup {SliceOf(m, s)}]
    BY <1>2, <1>4 DEF CallFields
<1>6. Saw(k0, k)
    <2>1. /\ DOMAIN k = CallFields /\ k.n = k0.n /\ k.op = k0.op /\ k.phase = k0.phase /\ k.at = k0.at
          /\ k.got = k0.got /\ k.replies = k0.replies /\ k.bad = k0.bad /\ k.result = k0.result
        BY <1>2, <1>4 DEF CallFields
    <2> QED BY <1>5, <2>1 DEF Saw
<1>7. \A s \in Shards : /\ k.seen[s] \subseteq [Owned(s) -> Values \cup {None}]
                        /\ SliceOf(m, s) \in k.seen[s]
    BY <1>4, <1>5, SliceType
<1>8. CallOK(x, k, m)
    BY <1>1, <1>3, <1>6, <1>7, SawMore
<1> QED BY <1>1, <1>6, <1>8

LEMMA WriteType ==
    ASSUME NEW m \in Tables, NEW op, op.kind \in {"put", "txn"},
           op.kind = "put" => op.id \in Ids /\ op.val \in Values \cup {None},
           op.kind = "txn" => \A i \in DOMAIN op.puts : i \in Ids /\ op.puts[i] \in Values \cup {None}
    PROVE  Write(op, m) \in Tables
<1>1. CASE op.kind = "put"
    BY <1>1 DEF Write, Tables
<1>2. CASE op.kind = "txn"
    BY <1>2 DEF Write, Tables
<1> QED BY <1>1, <1>2

\* The write takes effect, or is shed.
LEMMA ApplyStep ==
    ASSUME Inv, NEW c \in Callers, Apply(c)
    PROVE  Inv'
<1>1. PICK k : k = call[c]
    OBVIOUS
<1>2. /\ k.phase = "single" /\ k.op.kind \in {"put", "txn"} /\ CallShape(c, k) /\ Routed(k)
      /\ UNCHANGED <<catalog, queue, worker, apart>>
    BY <1>1, InProgress DEF Apply
<1>3. k.op.kind \notin Scans /\ k.op.kind # "ddl"
    BY <1>2 DEF Scans
<1>4. PICK new : new = Write(k.op, rows)
    OBVIOUS
<1>5. new \in Tables
    BY <1>2, <1>4, WriteType DEF Routed, Inv
<1>6. CASE rows' = new /\ call' = [Noted(new) EXCEPT ![c] = Finish(@, Got(0))]
    <2>1. PICK N : N = Noted(new)
        OBVIOUS
    <2>2. DOMAIN N = Callers /\ \A x \in Callers : call[x].phase = "idle" => N[x] = call[x]
        BY <2>1 DEF Noted, Busy
    <2>3. \A x \in Callers : call[x].phase # "idle" => Saw(call[x], N[x]) /\ CallOK(x, N[x], new)
        BY <1>5, <2>1, NotedIs
    <2>4. PICK t : t = Finish(N[c], Got(0))
        OBVIOUS
    <2>5. call' = [N EXCEPT ![c] = t]
        BY <1>6, <2>1, <2>4
    <2>6. DOMAIN call' = Callers /\ call'[c] = t /\ \A x \in Callers : x # c => call'[x] = N[x]
        BY <2>2, <2>5
    <2>7. Saw(k, N[c]) /\ CallShape(c, N[c]) /\ N[c].op = k.op /\ N[c].phase = k.phase /\ N[c].n = k.n
        BY <1>1, <1>2, <2>3 DEF CallOK, Saw
    <2>8. CallOK(c, t, new)
        BY <1>3, <2>4, <2>7, FinishOK
    <2>9. Finished(N[c], t, Got(0))
        BY <2>4, <2>7, FinishIs
    <2>10. \A x \in Callers : CallOK(x, call'[x], new)
        <3> TAKE x \in Callers
        <3>1. CASE x = c
            BY <2>6, <2>8, <3>1
        <3>2. CASE x # c /\ call[x].phase # "idle"
            BY <2>3, <2>6, <3>2
        <3>3. CASE x # c /\ call[x].phase = "idle"
            <4>1. CallOK(x, call[x], rows) /\ call'[x] = call[x]
                BY <2>2, <2>6, <3>3 DEF Inv
            <4>2. CallOK(x, call[x], new)
                BY <3>3, <4>1, Returned
            <4> QED BY <4>1, <4>2
        <3> QED BY <3>1, <3>2, <3>3
    <2>11. ASSUME NEW x \in Callers
           PROVE  /\ Goes(call[x], call'[x]) /\ call[x].n \in Nat
                  /\ SameDdl(call[x], call'[x]) \/ NoDdl(call[x], call'[x])
        <3>1. call[x].n \in Nat
            BY DEF Inv, CallOK, CallShape
        <3>2. CASE x = c
            <4>1. t.n = k.n /\ t.phase = "idle" /\ t.op = k.op
                BY <2>7, <2>9 DEF Finished
            <4> QED BY <1>1, <1>2, <1>3, <2>6, <3>1, <3>2, <4>1 DEF Goes, NoDdl
        <3>3. CASE x # c /\ call[x].phase # "idle"
            <4>1. Saw(call[x], call'[x])
                BY <2>3, <2>6, <3>3
            <4>2. Goes(call[x], call'[x])
                BY <3>3, <4>1 DEF Saw, Goes
            <4>3. SameDdl(call[x], call'[x])
                BY <4>1 DEF Saw, SameDdl
            <4> QED BY <3>1, <4>2, <4>3
        <3>4. CASE x # c /\ call[x].phase = "idle"
            <4>1. call'[x] = call[x]
                BY <2>2, <2>6, <3>4
            <4> QED BY <3>1, <3>4, <4>1 DEF Goes, SameDdl
        <3> QED BY <3>2, <3>3, <3>4
    <2>12. \A it : ItemOK(call, it) => ItemOK(call', it)
        <3>1. PICK dl : dl = call'
            OBVIOUS
        <3>2. \A it : ItemOK(call, it) => ItemOK(dl, it)
            BY <2>11, <3>1, ItemsStay
        <3> QED BY <3>1, <3>2
    <2>13. PoolOK'
        BY <1>2, <2>12, SamePool
    <2>14. CatalogsOK'
        BY <1>2, <2>11, SameCatalogs
    <2> QED BY <1>5, <1>6, <2>6, <2>10, <2>13, <2>14 DEF Inv
<1>7. CASE UNCHANGED rows /\ call' = [call EXCEPT ![c] = Finish(@, Unavailable)]
    <2>1. PICK t : t = Finish(k, Unavailable)
        OBVIOUS
    <2>2. CallOK(c, t, rows) /\ Goes(k, t) /\ NoDdl(k, t)
        BY <1>2, <1>3, <2>1, FinishOK, FinishGoes
    <2>3. call' = [call EXCEPT ![c] = t]
        BY <1>1, <1>7, <2>1
    <2> QED BY <1>1, <1>2, <1>7, <2>2, <2>3, OneStep
<1> QED BY <1>1, <1>4, <1>6, <1>7 DEF Apply

----------------------------------------------------------------------------
(* Types are created *)

\* A SQL statement creates a type on shard 0, or is shed.
LEMMA SqlDdlStep ==
    ASSUME Inv, NEW c \in Callers, SqlDdl(c)
    PROVE  Inv'
<1>1. PICK k : k = call[c]
    OBVIOUS
<1>2. /\ k.phase = "single" /\ k.op.kind = "sqlddl" /\ CallShape(c, k)
      /\ UNCHANGED <<rows, queue, worker>>
    BY <1>1, InProgress DEF SqlDdl
<1>3. k.op.kind \notin Scans /\ k.op.kind # "ddl"
    BY <1>2 DEF Scans
<1>4. CASE /\ catalog' = [catalog EXCEPT ![0] = Append(@, <<c, call[c].n>>)]
           /\ call' = [call EXCEPT ![c] = Finish(@, Got(Len(catalog[0]) + 1))] /\ apart' = TRUE
    <2>1. PICK r, t : r = Got(Len(catalog[0]) + 1) /\ t = Finish(k, r)
        OBVIOUS
    <2>2. CallOK(c, t, rows) /\ Goes(k, t)
        BY <1>2, <1>3, <2>1, FinishOK, FinishGoes
    <2>3. call' = [call EXCEPT ![c] = t]
        BY <1>1, <1>4, <2>1
    <2>4. /\ rows' \in Tables /\ DOMAIN call' = Callers
          /\ \A x \in Callers : CallOK(x, call'[x], rows')
          /\ \A it : ItemOK(call, it) => ItemOK(call', it)
        BY <1>1, <1>2, <2>2, <2>3, OneCall
    <2>5. PoolOK'
        BY <1>2, <2>4, SamePool
    <2>6. <<c, call[c].n>> \in Callers \X Nat
        BY <1>1, <1>2 DEF CallShape
    <2>7. DOMAIN catalog' = Shards /\ \A s \in Shards : catalog'[s] \in Seq(Callers \X Nat)
        <3>1. DOMAIN catalog = Shards /\ \A s \in Shards : catalog[s] \in Seq(Callers \X Nat)
            BY DEF Inv, CatalogsOK
        <3>2. Append(catalog[0], <<c, call[c].n>>) \in Seq(Callers \X Nat)
            BY <2>6, <3>1, ShardsAre, AppendProperties
        <3> QED BY <1>4, <3>1, <3>2
    <2>8. CatalogsOK'
        BY <1>4, <2>7 DEF CatalogsOK
    <2> QED BY <2>4, <2>5, <2>8 DEF Inv
<1>5. CASE call' = [call EXCEPT ![c] = Finish(@, Unavailable)] /\ UNCHANGED <<catalog, apart>>
    <2>1. PICK t : t = Finish(k, Unavailable)
        OBVIOUS
    <2>2. CallOK(c, t, rows) /\ Goes(k, t) /\ NoDdl(k, t)
        BY <1>2, <1>3, <2>1, FinishOK, FinishGoes
    <2>3. call' = [call EXCEPT ![c] = t]
        BY <1>1, <1>5, <2>1
    <2> QED BY <1>1, <1>2, <1>5, <2>2, <2>3, OneStep
<1> QED BY <1>4, <1>5 DEF SqlDdl

\* What a broadcast that goes on becomes, and that both outcomes are calls in order.
BroadcastDone(k, r) ==
    IF k.at = K - 1 THEN Finish(k, k.got[1]) ELSE [k EXCEPT !.at = @ + 1, !.got = Append(@, r)]

\* The next shard of a broadcast.
Onward(k, t, r) ==
    /\ DOMAIN t = CallFields /\ t.n = k.n /\ t.op = k.op /\ t.phase = "broadcast"
    /\ t.at = k.at + 1 /\ t.got = Append(k.got, r) /\ t.replies = k.replies /\ t.seen = k.seen

LEMMA BroadcastCall ==
    ASSUME Inv, NEW c \in Callers, NEW k, k = call[c], k.phase = "broadcast",
           NEW r, NEW t, t = BroadcastDone(k, r)
    PROVE  /\ CallOK(c, t, rows) /\ Goes(k, t)
           /\ k.at = K - 1 => Finished(k, t, k.got[1])
           /\ k.at # K - 1 => Onward(k, t, r)
           /\ k.at \in Shards /\ k.op.kind = "ddl" /\ k.n \in Nat
<1>1. /\ CallShape(c, k) /\ Routed(k) /\ Gathered(k)
      /\ \A s \in Shards : SliceOf(rows, s) \in k.seen[s]
      /\ \A s \in Shards : k.replies[s].kind = "got" => ReadAt(k.op, k.replies[s].val, k.seen[s])
    BY InProgress
<1>2. k.op.kind = "ddl" /\ k.op.kind \notin Scans /\ k.at \in Shards /\ k.n \in Nat
    BY <1>1 DEF Routed, CallShape, Scans
<1>3. IsSequence(k.got) /\ Len(k.got) = k.at
    BY <1>1 DEF Gathered
<1>4. CASE k.at = K - 1
    <2>1. PICK g : g = k.got[1]
        OBVIOUS
    <2>2. t = Finish(k, g)
        BY <1>4, <2>1 DEF BroadcastDone
    <2>3. Finished(k, t, g) /\ CallOK(c, t, rows) /\ Goes(k, t)
        BY <1>1, <1>2, <2>2, FinishIs, FinishOK, FinishGoes
    <2> QED BY <1>2, <1>4, <2>1, <2>3
<1>5. CASE k.at # K - 1
    <2>1. t = [k EXCEPT !.at = @ + 1, !.got = Append(@, r)]
        BY <1>5 DEF BroadcastDone
    <2>2. Onward(k, t, r)
        BY <1>1, <2>1 DEF CallShape, CallFields, Onward
    <2>3. CallShape(c, t)
        <3>1. t.at \in Shards
            BY <1>2, <1>5, <2>2, ShardsAre DEF Onward
        <3> QED BY <1>1, <2>2, <3>1 DEF CallShape, Phases, Onward
    <2>4. Routed(t)
        BY <1>2, <2>2 DEF Routed, Onward
    <2>5. Gathered(t) /\ Answered(t)
        <3>1. IsSequence(t.got) /\ Len(t.got) = t.at
            BY <1>3, <2>2, Extended DEF Onward
        <3> QED BY <2>2, <3>1 DEF Gathered, Answered, Onward
    <2>6. CallOK(c, t, rows)
        BY <1>1, <2>2, <2>3, <2>4, <2>5 DEF CallOK, Onward
    <2>7. Goes(k, t)
        BY <2>2 DEF Goes, Onward
    <2> QED BY <1>2, <1>5, <2>2, <2>6, <2>7
<1> QED BY <1>4, <1>5

\* A type is appended to the catalog of shard a: what was there stays.
CatalogGrown(cat, new, a, e) ==
    /\ DOMAIN new = Shards /\ \A s \in Shards : new[s] \in Seq(Callers \X Nat)
    /\ new[a] = Append(cat[a], e) /\ \A s \in Shards : s # a => new[s] = cat[s]
    /\ Len(Append(cat[a], e)) = Len(cat[a]) + 1 /\ Len(cat[a]) \in Nat
    /\ Append(cat[a], e)[Len(cat[a]) + 1] = e
    /\ \A s \in Shards : \A j \in 1..Len(cat[s]) : j \in 1..Len(new[s]) /\ new[s][j] = cat[s][j]

LEMMA CatalogGrows ==
    ASSUME NEW cat, DOMAIN cat = Shards, \A s \in Shards : cat[s] \in Seq(Callers \X Nat),
           NEW a \in Shards, NEW e \in Callers \X Nat, NEW new, new = [cat EXCEPT ![a] = Append(@, e)]
    PROVE  CatalogGrown(cat, new, a, e)
<1>1. PICK q : q = cat[a] /\ q \in Seq(Callers \X Nat)
    OBVIOUS
<1>2. /\ Append(q, e) \in Seq(Callers \X Nat) /\ Len(Append(q, e)) = Len(q) + 1 /\ Len(q) \in Nat
      /\ \A j \in 1..Len(q) : Append(q, e)[j] = q[j]
      /\ Append(q, e)[Len(q) + 1] = e
    BY <1>1, AppendProperties, LenProperties
<1>3. DOMAIN new = Shards /\ new[a] = Append(q, e) /\ \A s \in Shards : s # a => new[s] = cat[s]
    BY <1>1
<1>4. \A s \in Shards : new[s] \in Seq(Callers \X Nat)
    BY <1>2, <1>3
<1>5. ASSUME NEW s \in Shards, NEW j \in 1..Len(cat[s])
      PROVE  j \in 1..Len(new[s]) /\ new[s][j] = cat[s][j]
    <2>1. CASE s = a
        <3>1. j \in 1..Len(q)
            BY <1>1, <2>1
        <3>2. j \in 1..Len(Append(q, e))
            BY <1>2, <3>1
        <3> QED BY <1>1, <1>2, <1>3, <2>1, <3>1, <3>2
    <2>2. CASE s # a
        BY <1>3, <2>2
    <2> QED BY <2>1, <2>2
<1> QED BY <1>1, <1>2, <1>3, <1>4, <1>5 DEF CatalogGrown

\* The type reaches the next shard, and the catalogs stay even: the last to get
\* it ends the broadcast.
LEMMA EvenBroadcast ==
    ASSUME NEW cl, NEW cat, Even(cl, cat), DOMAIN cat = Shards,
           \A s \in Shards : cat[s] \in Seq(Callers \X Nat),
           NEW c \in Callers, NEW k, k = cl[c], k.phase = "broadcast", k.at \in Shards, k.n \in Nat,
           IsSequence(k.got), Len(k.got) = k.at,
           NEW dl, NEW t, NEW r, dl[c] = t, \A x \in Callers : x # c => dl[x] = cl[x],
           r = Got(Len(cat[k.at]) + 1),
           k.at = K - 1 => Finished(k, t, k.got[1]), k.at # K - 1 => Onward(k, t, r),
           NEW new, new = [cat EXCEPT ![k.at] = Append(@, <<c, k.n>>)]
    PROVE  Even(dl, new)
<1>1. PICK a, e, base : a = k.at /\ e = <<c, k.n>> /\ base = cat[K - 1]
    OBVIOUS
<1>2. a \in Shards /\ e \in Callers \X Nat /\ K - 1 \in Shards /\ a \in Nat /\ K \in Nat /\ K >= 2
    BY <1>1, ShardsAre
<1>3. /\ \A s \in Shards : cat[s] = IF s < a THEN Append(base, e) ELSE base
      /\ a # 0 => k.got[1] = Got(Len(base) + 1)
    BY <1>1 DEF Even
<1>4. cat[a] = base /\ r = Got(Len(base) + 1)
    BY <1>1, <1>2, <1>3
<1>5. new = [cat EXCEPT ![a] = Append(@, e)]
    BY <1>1
<1>6. /\ DOMAIN new = Shards /\ new[a] = Append(base, e) /\ \A s \in Shards : s # a => new[s] = cat[s]
      /\ Len(Append(base, e)) = Len(base) + 1 /\ Len(base) \in Nat
      /\ Append(base, e)[Len(base) + 1] = e
      /\ \A s \in Shards : \A j \in 1..Len(cat[s]) : j \in 1..Len(new[s]) /\ new[s][j] = cat[s][j]
    <2>2. a \in Shards /\ e \in Callers \X Nat
        BY <1>2
    <2>3. DOMAIN cat = Shards /\ \A s \in Shards : cat[s] \in Seq(Callers \X Nat)
        OBVIOUS
    <2>1. CatalogGrown(cat, new, a, e)
        BY <1>5, <2>2, <2>3, CatalogGrows
    <2> QED BY <1>4, <2>1 DEF CatalogGrown
<1>7. \A x \in Callers : x # c => dl[x] = cl[x] /\ cl[x].phase # "broadcast"
    BY DEF Even
<1>8. ASSUME NEW x \in Callers, x # c, dl[x].phase = "idle", dl[x].op.kind = "ddl",
             dl[x].result.kind = "got", NEW s \in Shards
      PROVE  dl[x].result.val \in 1..Len(new[s]) /\ new[s][dl[x].result.val] = <<x, dl[x].n>>
    <2>1. dl[x] = cl[x]
        BY <1>7, <1>8
    <2>2. cl[x].result.val \in 1..Len(cat[s]) /\ cat[s][cl[x].result.val] = <<x, cl[x].n>>
        BY <1>8, <2>1 DEF Even
    <2>3. PICK v : v = cl[x].result.val
        OBVIOUS
    <2>4. v \in 1..Len(cat[s]) /\ cat[s][v] = <<x, cl[x].n>>
        BY <2>2, <2>3
    <2>5. v \in 1..Len(new[s]) /\ new[s][v] = cat[s][v]
        BY <1>6, <2>4
    <2> QED BY <2>1, <2>3, <2>4, <2>5
<1>9. CASE a # K - 1
    <2>1. Onward(k, t, r)
        BY <1>1, <1>9
    <2>2. t.phase = "broadcast" /\ t.at = a + 1 /\ t.n = k.n /\ t.got = Append(k.got, r)
        BY <1>1, <2>1 DEF Onward
    <2>3. new[K - 1] = base
        BY <1>1, <1>2, <1>6, <1>9
    <2>4. \A s \in Shards : new[s] = IF s < a + 1 THEN Append(base, e) ELSE base
        <3> TAKE s \in Shards
        <3>1. s \in Nat
            BY ShardsAre
        <3>2. CASE s = a
            <4>1. s < a + 1
                BY <1>2, <3>2
            <4> QED BY <1>6, <3>2, <4>1
        <3>3. CASE s # a
            <4>1. s < a <=> s < a + 1
                BY <1>2, <3>1, <3>3
            <4> QED BY <1>3, <1>6, <3>3, <4>1
        <3> QED BY <3>2, <3>3
    <2>5. t.got[1] = Got(Len(base) + 1)
        <3>1. PICK q : q = k.got
            OBVIOUS
        <3>2. IsSequence(q) /\ Len(q) = a
            BY <1>1, <3>1
        <3>3. /\ \A i \in 1..a : Append(q, r)[i] = q[i]
              /\ Append(q, r)[a + 1] = r
            BY <3>2, Extended
        <3>4. CASE a = 0
            BY <1>4, <2>2, <3>1, <3>3, <3>4
        <3>5. CASE a # 0
            <4>1. 1 \in 1..a
                BY <1>2, <3>5
            <4> QED BY <1>3, <2>2, <3>1, <3>3, <3>5, <4>1
        <3> QED BY <3>4, <3>5
    <2>6. \A x, d \in Callers : dl[x].phase = "broadcast" /\ dl[d].phase = "broadcast" => x = d
        BY <1>7
    <2>7. ASSUME NEW x \in Callers, dl[x].phase = "broadcast"
          PROVE  /\ \A s \in Shards : new[s] = IF s < dl[x].at THEN Append(new[K - 1], <<x, dl[x].n>>)
                                               ELSE new[K - 1]
                 /\ dl[x].at # 0 => dl[x].got[1] = Got(Len(new[K - 1]) + 1)
        <3>1. x = c /\ dl[x] = t
            BY <1>7, <2>7
        <3>2. <<x, dl[x].n>> = e
            BY <1>1, <2>2, <3>1
        <3>3. PICK b : b = a + 1
            OBVIOUS
        <3>4. dl[x].at = b /\ \A s \in Shards : new[s] = IF s < b THEN Append(base, e) ELSE base
            BY <2>2, <2>4, <3>1, <3>3
        <3>5. dl[x].got[1] = Got(Len(base) + 1)
            BY <2>5, <3>1
        <3> QED BY <2>3, <3>2, <3>4, <3>5
    <2>8. dl[c].phase = "broadcast"
        BY <2>2
    <2>9. \A x \in Callers : dl[x].phase = "idle" => x # c
        BY <2>8
    <2>10. \A x \in Callers :
             dl[x].phase = "idle" /\ dl[x].op.kind = "ddl" /\ dl[x].result.kind = "got" =>
                 \A s \in Shards : /\ dl[x].result.val \in 1..Len(new[s])
                                   /\ new[s][dl[x].result.val] = <<x, dl[x].n>>
        BY <1>8, <2>9
    <2> QED BY <2>6, <2>7, <2>8, <2>10 DEF Even
<1>10. CASE a = K - 1
    <2>1. Finished(k, t, k.got[1])
        BY <1>1, <1>10
    <2>2. t.phase = "idle" /\ t.n = k.n /\ t.result = Got(Len(base) + 1)
        BY <1>2, <1>3, <1>10, <2>1 DEF Finished
    <2>3. \A s \in Shards : new[s] = Append(base, e)
        <3> TAKE s \in Shards
        <3>1. CASE s = a
            BY <1>6, <3>1
        <3>2. CASE s # a
            <4>1. s < a
                BY <1>2, <1>10, <3>2, ShardsAre
            <4> QED BY <1>3, <1>6, <3>2, <4>1
        <3> QED BY <3>1, <3>2
    <2>4. \A x \in Callers : dl[x].phase # "broadcast"
        BY <1>7, <2>2
    <2>5. \A s \in Shards : new[s] = new[K - 1]
        BY <1>2, <2>3
    <2>6. ASSUME NEW x \in Callers, dl[x].phase = "idle", dl[x].op.kind = "ddl",
                 dl[x].result.kind = "got", NEW s \in Shards
          PROVE  dl[x].result.val \in 1..Len(new[s]) /\ new[s][dl[x].result.val] = <<x, dl[x].n>>
        <3>1. CASE x = c
            <4>1. dl[x].result.val = Len(base) + 1 /\ <<x, dl[x].n>> = e
                BY <1>1, <2>2, <3>1, KindsApart
            <4>2. Len(base) + 1 \in 1..Len(Append(base, e))
                BY <1>6
            <4> QED BY <1>6, <2>3, <4>1, <4>2
        <3>2. CASE x # c
            BY <1>8, <2>6, <3>2
        <3> QED BY <3>1, <3>2
    <2> QED BY <2>4, <2>5, <2>6 DEF Even
<1> QED BY <1>9, <1>10

LEMMA BroadcastStep ==
    ASSUME Inv, NEW c \in Callers, Broadcast(c)
    PROVE  Inv'
<1>1. PICK k : k = call[c]
    OBVIOUS
<1>2. k.phase = "broadcast" /\ UNCHANGED <<rows, queue, worker>>
    BY <1>1 DEF Broadcast, Creating
<1>3. \/ /\ catalog' = [catalog EXCEPT ![k.at] = Append(@, <<c, k.n>>)]
         /\ call' = [call EXCEPT ![c] = BroadcastDone(k, Got(Len(catalog[k.at]) + 1))]
         /\ UNCHANGED apart
      \/ /\ call' = [call EXCEPT ![c] = BroadcastDone(k, Unavailable)]
         /\ apart' = TRUE /\ UNCHANGED catalog
    BY <1>1 DEF Broadcast, BroadcastDone
<1>4. PICK r, t : /\ t = BroadcastDone(k, r) /\ call' = [call EXCEPT ![c] = t]
                  /\ \/ /\ catalog' = [catalog EXCEPT ![k.at] = Append(@, <<c, k.n>>)]
                        /\ r = Got(Len(catalog[k.at]) + 1) /\ UNCHANGED apart
                     \/ apart' = TRUE /\ UNCHANGED catalog
    BY <1>3
<1>5. /\ CallOK(c, t, rows) /\ Goes(k, t)
      /\ k.at = K - 1 => Finished(k, t, k.got[1])
      /\ k.at # K - 1 => Onward(k, t, r)
      /\ k.at \in Shards /\ k.n \in Nat
    BY <1>1, <1>2, <1>4, BroadcastCall
<1>6. /\ rows' \in Tables /\ DOMAIN call' = Callers
      /\ \A x \in Callers : CallOK(x, call'[x], rows')
      /\ \A it : ItemOK(call, it) => ItemOK(call', it)
      /\ call'[c] = t /\ \A x \in Callers : x # c => call'[x] = call[x]
    BY <1>1, <1>2, <1>4, <1>5, OneCall
<1>7. PoolOK'
    BY <1>2, <1>6, SamePool
<1>8. DOMAIN catalog = Shards /\ \A s \in Shards : catalog[s] \in Seq(Callers \X Nat)
    BY DEF Inv, CatalogsOK
<1>9. CASE apart' = TRUE /\ UNCHANGED catalog
    <2>1. CatalogsOK'
        BY <1>8, <1>9 DEF CatalogsOK
    <2> QED BY <1>6, <1>7, <2>1 DEF Inv
<1>10. CASE /\ catalog' = [catalog EXCEPT ![k.at] = Append(@, <<c, k.n>>)]
            /\ r = Got(Len(catalog[k.at]) + 1) /\ UNCHANGED apart
    <2>1. PICK new, dl, e : new = catalog' /\ dl = call' /\ e = <<c, k.n>>
        OBVIOUS
    <2>2. e \in Callers \X Nat /\ new = [catalog EXCEPT ![k.at] = Append(@, e)]
        BY <1>5, <1>10, <2>1
    <2>3. DOMAIN new = Shards /\ \A s \in Shards : new[s] \in Seq(Callers \X Nat)
        BY <1>5, <1>8, <2>2, CatalogGrows DEF CatalogGrown
    <2>4. IsSequence(k.got) /\ Len(k.got) = k.at
        BY <1>1, <1>2, InProgress DEF Gathered
    <2>5. ASSUME ~ apart PROVE Even(dl, new)
        <3>1. Even(call, catalog)
            BY <2>5 DEF Inv, CatalogsOK
        <3>2. dl[c] = t /\ \A x \in Callers : x # c => dl[x] = call[x]
            BY <1>6, <2>1
        <3>3. new = [catalog EXCEPT ![k.at] = Append(@, <<c, k.n>>)]
            BY <1>10, <2>1
        <3>4. r = Got(Len(catalog[k.at]) + 1)
            BY <1>10
        <3>5. /\ k.at = K - 1 => Finished(k, t, k.got[1])
              /\ k.at # K - 1 => Onward(k, t, r)
              /\ k.at \in Shards /\ k.n \in Nat
            BY <1>5
        <3> QED BY <1>1, <1>2, <1>8, <2>4, <3>1, <3>2, <3>3, <3>4, <3>5, EvenBroadcast, Zenon
    <2>6. CatalogsOK'
        BY <1>10, <2>1, <2>3, <2>5 DEF CatalogsOK
    <2> QED BY <1>6, <1>7, <2>6 DEF Inv
<1> QED BY <1>4, <1>9, <1>10

----------------------------------------------------------------------------
(* The pool *)

\* An item of a call in progress is queued.
LEMMA SendStep ==
    ASSUME Inv, NEW c \in Callers, SendItem(c)
    PROVE  Inv'
<1>1. PICK k : k = call[c]
    OBVIOUS
<1>2. PICK it : it = [caller |-> c, n |-> k.n, shard |-> k.at, reply |-> NoReply]
    OBVIOUS
<1>3. PICK t : t = IF k.at = K - 1 THEN [k EXCEPT !.phase = "gather", !.at = 0] ELSE [k EXCEPT !.at = @ + 1]
    OBVIOUS
<1>4. /\ k.phase = "send" /\ Len(queue) < PoolBound /\ queue' = Append(queue, it)
      /\ call' = [call EXCEPT ![c] = t] /\ UNCHANGED <<rows, catalog, worker, apart>>
    BY <1>1, <1>2, <1>3 DEF SendItem
<1>5. /\ CallShape(c, k) /\ Routed(k) /\ Gathered(k)
      /\ \A s \in Shards : SliceOf(rows, s) \in k.seen[s]
      /\ \A s \in Shards : k.replies[s].kind = "got" => ReadAt(k.op, k.replies[s].val, k.seen[s])
    BY <1>1, <1>4, InProgress
<1>6. /\ DOMAIN k = CallFields /\ k.n \in Nat /\ k.at \in Shards /\ k.op.kind \in Scans \ {"find"}
      /\ k.got = <<>> /\ k.bad = NoReply
    BY <1>4, <1>5 DEF CallShape, Routed, Gathered
<1>7. /\ DOMAIN t = CallFields /\ t.n = k.n /\ t.op = k.op /\ t.phase \in {"send", "gather"}
      /\ t.got = <<>> /\ t.bad = NoReply /\ t.replies = k.replies /\ t.seen = k.seen /\ t.result = k.result
    BY <1>3, <1>4, <1>6 DEF CallFields
<1>8. t.at \in Shards /\ (t.phase = "gather" => t.at = 0)
    <2>1. CASE k.at = K - 1
        <3>1. t.at = 0
            BY <1>3, <1>6, <2>1 DEF CallFields
        <3> QED BY <3>1, ShardsAre
    <2>2. CASE k.at # K - 1
        <3>1. t.at = k.at + 1 /\ t.phase = "send"
            BY <1>3, <1>4, <1>6, <2>2 DEF CallFields
        <3> QED BY <1>6, <2>2, <3>1, ShardsAre
    <2> QED BY <2>1, <2>2
<1>9. CallShape(c, t)
    BY <1>5, <1>7, <1>8 DEF CallShape, Phases
<1>10. Routed(t)
    BY <1>6, <1>7 DEF Routed, Scans
<1>11. Gathered(t)
    <2>1. IsSequence(<<>>) /\ Len(<<>>) = 0
        <3>1. <<>> \in Seq({}) /\ Len(<<>>) = 0
            BY EmptySeq
        <3> QED BY <3>1 DEF IsSequence
    <2>2. Parts(t.op, <<>>, 0, t.seen)
        BY <2>1 DEF Parts
    <2>3. \E h : h[0] = <<>> /\ Rows(t.op, h, 0, t.seen)
        <3>1. PICK h : h = [i \in {0} |-> <<>>]
            OBVIOUS
        <3> QED BY <3>1 DEF Rows
    <2> QED BY <1>7, <1>8, <2>2, <2>3 DEF Gathered
<1>12. CallOK(c, t, rows)
    <2>1. Answered(t)
        BY <1>7 DEF Answered
    <2> QED BY <1>5, <1>7, <1>9, <1>10, <1>11, <2>1 DEF CallOK
<1>13. Goes(k, t) /\ NoDdl(k, t)
    BY <1>4, <1>7 DEF Goes, NoDdl
<1>14. /\ rows' \in Tables /\ DOMAIN call' = Callers
       /\ \A x \in Callers : CallOK(x, call'[x], rows')
       /\ \A x : ItemOK(call, x) => ItemOK(call', x)
       /\ call'[c] = t /\ \A x \in Callers : x # c => call'[x] = call[x]
    BY <1>1, <1>4, <1>12, <1>13, OneCall
<1>15. ItemOK(call', it)
    <2>1. /\ DOMAIN it = ItemFields /\ it.caller = c /\ it.n = k.n /\ it.shard = k.at /\ it.reply = NoReply
        BY <1>2 DEF ItemFields
    <2>2. it.reply.kind # "got"
        BY <2>1, KindsApart
    <2>3. it.n <= k.n
        BY <1>6, <2>1
    <2> QED BY <1>1, <1>6, <1>7, <1>14, <2>1, <2>2, <2>3 DEF ItemOK
<1>16. PoolOK'
    <2>1. IsSequence(queue) /\ \A i \in 1..Len(queue) : ItemOK(call, queue[i])
        BY DEF Inv, PoolOK
    <2>2. /\ IsSequence(Append(queue, it)) /\ Len(Append(queue, it)) = Len(queue) + 1 /\ Len(queue) \in Nat
          /\ \A i \in 1..Len(queue) : Append(queue, it)[i] = queue[i]
          /\ Append(queue, it)[Len(queue) + 1] = it
        BY <2>1, Extended
    <2>3. Len(queue') <= PoolBound
        BY <1>4, <2>2, ShardedAssumption
    <2>4. IsSequence(queue')
        BY <1>4, <2>2
    <2>5. ASSUME NEW i \in 1..Len(queue') PROVE ItemOK(call', queue'[i])
        <3>1. i \in 1..Len(queue) \/ i = Len(queue) + 1
            BY <1>4, <2>2
        <3> QED BY <1>4, <1>14, <1>15, <2>1, <2>2, <3>1
    <2>6. DOMAIN worker' = Workers /\ \A w \in Workers : worker'[w] = NoItem \/ ItemOK(call', worker'[w])
        BY <1>4, <1>14 DEF Inv, PoolOK
    <2> QED BY <2>3, <2>4, <2>5, <2>6 DEF PoolOK, IsSequence
<1>17. CatalogsOK'
    <2>1. \A x \in Callers : SameDdl(call[x], call'[x]) \/ NoDdl(call[x], call'[x])
        BY <1>1, <1>13, <1>14 DEF SameDdl
    <2> QED BY <1>4, <2>1, SameCatalogs
<1> QED BY <1>14, <1>16, <1>17 DEF Inv

\* Nothing but the pool changes.
LEMMA PoolStep ==
    ASSUME Inv, UNCHANGED <<rows, catalog, call, apart>>, PoolOK'
    PROVE  Inv'
BY DEF Inv, CatalogsOK

LEMMA RecvStep ==
    ASSUME Inv, NEW w \in Workers, Recv(w)
    PROVE  Inv'
<1>1. PICK S : queue \in Seq(S)
    BY DEF Inv, PoolOK, IsSequence
<1>2. queue # <<>> /\ worker' = [worker EXCEPT ![w] = Head(queue)] /\ queue' = Tail(queue)
      /\ UNCHANGED <<rows, catalog, call, apart>>
    BY DEF Recv
<1>3. /\ Head(queue) = queue[1] /\ Tail(queue) \in Seq(S) /\ Len(Tail(queue)) = Len(queue) - 1
      /\ Len(queue) \in Nat /\ Len(queue) >= 1
      /\ \A i \in 1..Len(Tail(queue)) : Tail(queue)[i] = queue[i + 1]
    BY <1>1, <1>2, HeadTailProperties, LenProperties, EmptySeq
<1>4. /\ Len(queue) <= PoolBound /\ \A i \in 1..Len(queue) : ItemOK(call, queue[i])
      /\ DOMAIN worker = Workers /\ \A x \in Workers : worker[x] = NoItem \/ ItemOK(call, worker[x])
    BY DEF Inv, PoolOK
<1>5. 1 \in 1..Len(queue) /\ \A i \in 1..Len(Tail(queue)) : i + 1 \in 1..Len(queue)
    BY <1>3
<1>6. Len(queue') <= PoolBound
    BY <1>2, <1>3, <1>4, ShardedAssumption
<1>7. \A i \in 1..Len(queue') : ItemOK(call, queue'[i])
    BY <1>2, <1>3, <1>4, <1>5
<1>8. DOMAIN worker' = Workers /\ \A x \in Workers : worker'[x] = NoItem \/ ItemOK(call, worker'[x])
    BY <1>2, <1>3, <1>4, <1>5
<1>9. PoolOK'
    BY <1>1, <1>2, <1>3, <1>6, <1>7, <1>8 DEF PoolOK, IsSequence
<1> QED BY <1>2, <1>9, PoolStep

\* The shard answers for the call as its rows are now.
LEMMA WorkStep ==
    ASSUME Inv, NEW w \in Workers, Work(w)
    PROVE  Inv'
<1>1. PICK it, c : it = worker[w] /\ c = it.caller
    OBVIOUS
<1>2. PICK r : r = IF Cancelled(it) THEN Unavailable ELSE Got(ReadOnlyOp(call[c].op, Slice(it.shard)))
    OBVIOUS
<1>3. /\ c # None /\ it.reply = NoReply /\ worker' = [worker EXCEPT ![w].reply = r]
      /\ UNCHANGED <<rows, catalog, queue, call, apart>>
    BY <1>1, <1>2 DEF Work
<1>4. /\ IsSequence(queue) /\ Len(queue) <= PoolBound /\ \A i \in 1..Len(queue) : ItemOK(call, queue[i])
      /\ DOMAIN worker = Workers /\ \A x \in Workers : worker[x] = NoItem \/ ItemOK(call, worker[x])
    BY DEF Inv, PoolOK
<1>5. ItemOK(call, it)
    BY <1>1, <1>3, <1>4 DEF NoItem
<1>6. PICK jt : jt = [it EXCEPT !.reply = r]
    OBVIOUS
<1>7. worker' = [worker EXCEPT ![w] = jt]
    BY <1>1, <1>3, <1>6
<1>8. /\ DOMAIN jt = ItemFields /\ jt.caller = c /\ jt.n = it.n /\ jt.shard = it.shard /\ jt.reply = r
    BY <1>1, <1>5, <1>6 DEF ItemOK, ItemFields
<1>9. it.n = call[c].n /\ call[c].phase # "idle" /\ r.kind = "got" =>
         ReadAt(call[c].op, r.val, call[c].seen[it.shard])
    <2> HAVE it.n = call[c].n /\ call[c].phase # "idle" /\ r.kind = "got"
    <2>1. r = Got(ReadOnlyOp(call[c].op, Slice(it.shard)))
        BY <1>2, KindsApart
    <2>2. r.val = ReadOnlyOp(call[c].op, SliceOf(rows, it.shard))
        BY <2>1, KindsApart, SliceIs
    <2>3. c \in Callers /\ it.shard \in Shards
        BY <1>1, <1>5 DEF ItemOK
    <2>4. SliceOf(rows, it.shard) \in call[c].seen[it.shard]
        BY <2>3, InProgress
    <2> QED BY <2>2, <2>4 DEF ReadAt
<1>10. ItemOK(call, jt)
    BY <1>1, <1>5, <1>8, <1>9 DEF ItemOK
<1>11. PoolOK'
    BY <1>3, <1>4, <1>7, <1>10 DEF PoolOK, IsSequence
<1> QED BY <1>3, <1>11, PoolStep

\* The reply reaches the call it is for, or nobody.
LEMMA ReplyStep ==
    ASSUME Inv, NEW w \in Workers, Reply(w)
    PROVE  Inv'
<1>1. PICK it, c, k : it = worker[w] /\ c = it.caller /\ k = call[c]
    OBVIOUS
<1>2. /\ it.reply # NoReply /\ call' = Deliver(it) /\ worker' = [worker EXCEPT ![w] = NoItem]
      /\ UNCHANGED <<rows, catalog, queue, apart>>
    BY <1>1 DEF Reply, Freed
<1>3. /\ IsSequence(queue) /\ Len(queue) <= PoolBound /\ \A i \in 1..Len(queue) : ItemOK(call, queue[i])
      /\ DOMAIN worker = Workers /\ \A x \in Workers : worker[x] = NoItem \/ ItemOK(call, worker[x])
    BY DEF Inv, PoolOK
<1>4. ItemOK(call, it)
    BY <1>1, <1>2, <1>3 DEF NoItem
<1>5. c \in Callers /\ it.shard \in Shards
    BY <1>1, <1>4 DEF ItemOK
<1>6. PICK a, r : a = it.shard /\ r = IF Current(it) /\ Busy(c) THEN it.reply ELSE k.replies[a]
    OBVIOUS
<1>7. PICK t : t = [k EXCEPT !.replies = [@ EXCEPT ![a] = r]]
    OBVIOUS
<1>8. call' = [call EXCEPT ![c] = t]
    BY <1>1, <1>2, <1>6, <1>7 DEF Deliver
<1>9. CallOK(c, k, rows)
    BY <1>1, <1>5 DEF Inv
<1>10. DOMAIN k = CallFields /\ DOMAIN k.replies = Shards
    BY <1>9 DEF CallOK, CallShape
<1>11. /\ DOMAIN t = CallFields /\ t.n = k.n /\ t.op = k.op /\ t.phase = k.phase /\ t.at = k.at
       /\ t.got = k.got /\ t.bad = k.bad /\ t.result = k.result /\ t.seen = k.seen
       /\ t.replies = [k.replies EXCEPT ![a] = r]
    BY <1>7, <1>10 DEF CallFields
<1>12. \A s \in Shards : s # a => t.replies[s] = k.replies[s]
    BY <1>10, <1>11
<1>13. DOMAIN t.replies = Shards /\ t.replies[a] = r
    BY <1>5, <1>6, <1>10, <1>11
<1>14. CallOK(c, t, rows)
    <2>1. CallShape(c, t)
        BY <1>9, <1>11, <1>13 DEF CallOK, CallShape
    <2>2. Gathered(t)
        BY <1>9, <1>11 DEF CallOK, Gathered
    <2>3. Answered(t)
        BY <1>9, <1>11 DEF CallOK, Answered
    <2>4. ASSUME t.phase # "idle"
          PROVE  /\ Routed(t) /\ \A s \in Shards : SliceOf(rows, s) \in t.seen[s]
                 /\ \A s \in Shards : t.replies[s].kind = "got" => ReadAt(t.op, t.replies[s].val, t.seen[s])
        <3>1. Routed(t) /\ \A s \in Shards : SliceOf(rows, s) \in t.seen[s]
            BY <1>9, <1>11, <2>4 DEF CallOK, Routed
        <3>2. \A s \in Shards : k.replies[s].kind = "got" => ReadAt(k.op, k.replies[s].val, k.seen[s])
            BY <1>9, <1>11, <2>4 DEF CallOK
        <3>3. r.kind = "got" => ReadAt(k.op, r.val, k.seen[a])
            <4>1. CASE Current(it) /\ Busy(c)
                BY <1>1, <1>4, <1>6, <4>1 DEF ItemOK, Current, Busy
            <4>2. CASE ~ (Current(it) /\ Busy(c))
                BY <1>5, <1>6, <3>2, <4>2
            <4> QED BY <4>1, <4>2
        <3>4. ASSUME NEW s \in Shards, t.replies[s].kind = "got"
              PROVE  ReadAt(t.op, t.replies[s].val, t.seen[s])
            <4>1. CASE s = a
                BY <1>11, <1>13, <3>3, <3>4, <4>1
            <4>2. CASE s # a
                BY <1>11, <1>12, <3>2, <3>4, <4>2
            <4> QED BY <4>1, <4>2
        <3> QED BY <3>1, <3>4
    <2> QED BY <2>1, <2>2, <2>3, <2>4 DEF CallOK
<1>15. Goes(k, t) /\ SameDdl(k, t)
    BY <1>11 DEF Goes, SameDdl
<1>16. /\ rows' \in Tables /\ DOMAIN call' = Callers
       /\ \A x \in Callers : CallOK(x, call'[x], rows')
       /\ \A x : ItemOK(call, x) => ItemOK(call', x)
       /\ call'[c] = t /\ \A x \in Callers : x # c => call'[x] = call[x]
    BY <1>1, <1>2, <1>5, <1>8, <1>14, <1>15, OneCall
<1>17. PoolOK'
    <2>1. IsSequence(queue') /\ Len(queue') <= PoolBound
        BY <1>2, <1>3
    <2>2. \A i \in 1..Len(queue') : ItemOK(call', queue'[i])
        BY <1>2, <1>3, <1>16
    <2>3. DOMAIN worker' = Workers /\ \A x \in Workers : worker'[x] = NoItem \/ ItemOK(call', worker'[x])
        BY <1>2, <1>3, <1>16
    <2> QED BY <2>1, <2>2, <2>3 DEF PoolOK, IsSequence
<1>18. CatalogsOK'
    <2>1. \A x \in Callers : SameDdl(call[x], call'[x]) \/ NoDdl(call[x], call'[x])
        BY <1>1, <1>15, <1>16 DEF SameDdl
    <2> QED BY <1>2, <2>1, SameCatalogs
<1> QED BY <1>16, <1>17, <1>18 DEF Inv

----------------------------------------------------------------------------
(* Gathering *)

\* The rows of one more shard, up to LIMIT.
LEMMA OneMoreRows ==
    ASSUME NEW op, NEW seen, NEW a \in Shards, NEW h0, Rows(op, h0, a, seen), NEW v, ReadAt(op, v, seen[a]),
           NEW out, out = Take(h0[a] \o v, op.limit)
    PROVE  RowsOf(op, out, a + 1, seen)
<1>1. a \in Nat
    BY ShardsAre
<1>2. PICK h : h = [i \in 0..(a + 1) |-> IF i = a + 1 THEN out ELSE h0[i]]
    OBVIOUS
<1>3. h[a + 1] = out /\ \A i \in 0..a : h[i] = h0[i]
    BY <1>1, <1>2
<1>4. h[0] = <<>>
    BY <1>1, <1>3 DEF Rows
<1>5. ASSUME NEW i \in 1..(a + 1)
      PROVE  \E sl \in seen[i - 1] : h[i] = Take(h[i - 1] \o ReadOnlyOp(op, sl), op.limit)
    <2>1. i \in 1..a \/ (i = a + 1 /\ i - 1 = a)
        BY <1>1
    <2>2. CASE i \in 1..a
        <3>1. PICK sl \in seen[i - 1] : h0[i] = Take(h0[i - 1] \o ReadOnlyOp(op, sl), op.limit)
            BY <2>2 DEF Rows
        <3>2. i \in 0..a /\ i - 1 \in 0..a
            BY <1>1, <2>2
        <3>3. h[i] = h0[i] /\ h[i - 1] = h0[i - 1]
            BY <1>3, <3>2
        <3> QED BY <3>1, <3>3
    <2>3. CASE i = a + 1 /\ i - 1 = a
        <3>1. PICK sl \in seen[a] : v = ReadOnlyOp(op, sl)
            BY DEF ReadAt
        <3>2. h[i] = out /\ h[i - 1] = h0[a]
            BY <1>1, <1>3, <2>3
        <3> QED BY <2>3, <3>1, <3>2
    <2> QED BY <2>1, <2>2, <2>3
<1> QED BY <1>3, <1>4, <1>5 DEF Rows, RowsOf

\* The next reply has been taken and the call goes on.
TookOne(k, t, got, bad) ==
    /\ DOMAIN t = CallFields /\ t.n = k.n /\ t.op = k.op /\ t.phase = k.phase /\ t.at = k.at + 1
    /\ t.got = got /\ t.bad = bad /\ t.replies = k.replies /\ t.seen = k.seen /\ t.result = k.result

LEMMA TookOneOK ==
    ASSUME NEW c, NEW k, NEW m, CallOK(c, k, m), k.phase = "gather", k.at # K - 1,
           NEW got, NEW bad, NEW t, TookOne(k, t, got, bad),
           k.op.kind = "select" => \E h : h[k.at + 1] = got /\ Rows(k.op, h, k.at + 1, k.seen),
           k.op.kind # "select" =>
               IF bad = NoReply THEN Parts(k.op, got, k.at + 1, k.seen) ELSE bad.kind # "got"
    PROVE  CallOK(c, t, m) /\ Goes(k, t) /\ NoDdl(k, t)
<1>1. CallShape(c, k) /\ Routed(k) /\ k.at \in Shards
    BY DEF CallOK, CallShape
<1>2. k.at + 1 \in Shards
    BY <1>1, ShardsAre
<1>3. CallShape(c, t)
    BY <1>1, <1>2 DEF CallShape, TookOne
<1>4. Routed(t)
    BY <1>1 DEF Routed, TookOne
<1>5. Gathered(t)
    BY DEF Gathered, TookOne
<1>6. Answered(t)
    BY DEF Answered, TookOne
<1>7. /\ \A s \in Shards : SliceOf(m, s) \in t.seen[s]
      /\ \A s \in Shards : t.replies[s].kind = "got" => ReadAt(t.op, t.replies[s].val, t.seen[s])
    BY DEF CallOK, TookOne
<1>8. CallOK(c, t, m)
    BY <1>3, <1>4, <1>5, <1>6, <1>7 DEF CallOK
<1>9. Goes(k, t) /\ NoDdl(k, t)
    BY DEF Goes, NoDdl, TookOne
<1> QED BY <1>8, <1>9

\* The reply r of the next shard, or its failure, is taken.
LEMMA TakenOK ==
    ASSUME NEW c, NEW k, NEW m, CallOK(c, k, m), k.phase = "gather",
           NEW r, r # NoReply, r.kind = "got" => ReadAt(k.op, r.val, k.seen[k.at])
    PROVE  CallOK(c, Taken(k, r), m) /\ Goes(k, Taken(k, r)) /\ NoDdl(k, Taken(k, r))
<1>1. /\ CallShape(c, k) /\ Routed(k) /\ Gathered(k) /\ DOMAIN k = CallFields
      /\ \A s \in Shards : SliceOf(m, s) \in k.seen[s]
    BY DEF CallOK, CallShape
<1>2. k.at \in Shards /\ k.op.kind \in Scans /\ k.op.kind # "ddl"
    BY <1>1 DEF CallShape, Routed, Scans
<1>3. k.at + 1 \in 1..K /\ (k.at = K - 1 => k.at + 1 = K) /\ (k.at < K - 1 <=> k.at # K - 1)
    BY <1>2, ShardedAssumption DEF Shards
<1>4. PICK t : t = Taken(k, r)
    OBVIOUS
<1>5. ASSUME NEW res, t = Finish(k, res), res.kind = "got" => Answered(t)
      PROVE  CallOK(c, t, m) /\ Goes(k, t) /\ NoDdl(k, t)
    BY <1>1, <1>2, <1>5, FinishOK, FinishGoes
<1>6. CASE k.op.kind = "select"
    <2>1. PICK out : out = IF r.kind = "got" THEN Take(k.got \o r.val, k.op.limit) ELSE <<>>
        OBVIOUS
    <2>2. t = IF r.kind # "got" THEN Finish(k, r)
              ELSE IF k.at = K - 1 \/ (k.op.limit # 0 /\ Len(out) >= k.op.limit) THEN Finish(k, Got(out))
              ELSE [k EXCEPT !.at = @ + 1, !.got = out]
        BY <1>4, <1>6, <2>1 DEF Taken, TakeUnordered
    <2>3. CASE r.kind # "got"
        BY <1>4, <1>5, <2>2, <2>3
    <2>4. CASE r.kind = "got"
        <3>1. PICK h0 : h0[k.at] = k.got /\ Rows(k.op, h0, k.at, k.seen)
            BY <1>1, <1>6 DEF Gathered
        <3>2. ReadAt(k.op, r.val, k.seen[k.at]) /\ out = Take(h0[k.at] \o r.val, k.op.limit)
            BY <2>1, <2>4, <3>1
        <3>3. PICK h : h[k.at + 1] = out /\ Rows(k.op, h, k.at + 1, k.seen)
            <4>1. PICK a, op, seen, v : a = k.at /\ op = k.op /\ seen = k.seen /\ v = r.val
                OBVIOUS
            <4>2. /\ a \in Shards /\ Rows(op, h0, a, seen) /\ ReadAt(op, v, seen[a])
                  /\ out = Take(h0[a] \o v, op.limit)
                BY <1>2, <3>1, <3>2, <4>1
            <4>3. RowsOf(op, out, a + 1, seen)
                BY <4>2, OneMoreRows
            <4> QED BY <4>1, <4>3 DEF RowsOf
        <3>4. CASE k.at = K - 1 \/ (k.op.limit # 0 /\ Len(out) >= k.op.limit)
            <4>1. t = Finish(k, Got(out))
                BY <2>2, <2>4, <3>4
            <4>2. PICK a : a = k.at + 1
                OBVIOUS
            <4>3. /\ a \in 1..K /\ h[a] = out /\ Rows(k.op, h, a, k.seen)
                  /\ a = K \/ (k.op.limit # 0 /\ Len(h[a]) >= k.op.limit)
                BY <1>3, <3>3, <3>4, <4>2
            <4>4. Finished(k, t, Got(h[a]))
                BY <1>1, <4>1, <4>3, FinishIs
            <4>5. \A s \in Shards : k.seen[s] # {}
                BY <1>1
            <4>6. Answered(t)
                BY <1>1, <1>6, <4>3, <4>4, <4>5, AllRows
            <4> QED BY <1>4, <1>5, <4>1, <4>6
        <3>5. CASE ~ (k.at = K - 1 \/ (k.op.limit # 0 /\ Len(out) >= k.op.limit))
            <4>1. t = [k EXCEPT !.at = @ + 1, !.got = out] /\ k.at # K - 1
                BY <2>2, <2>4, <3>5
            <4>2. PICK b : b = k.bad
                OBVIOUS
            <4>3. TookOne(k, t, out, b)
                BY <1>1, <4>1, <4>2 DEF TookOne, CallFields
            <4>4. \E g : g[k.at + 1] = out /\ Rows(k.op, g, k.at + 1, k.seen)
                BY <3>3
            <4> QED BY <1>4, <1>6, <4>1, <4>3, <4>4, TookOneOK
        <3> QED BY <3>4, <3>5
    <2> QED BY <2>3, <2>4
<1>7. CASE k.op.kind # "select"
    <2>1. PICK bad, parts : /\ bad = IF k.bad = NoReply /\ r.kind # "got" THEN r ELSE k.bad
                            /\ parts = IF r.kind = "got" THEN Append(k.got, r.val) ELSE k.got
        OBVIOUS
    <2>2. t = IF k.at < K - 1
              THEN [k EXCEPT !.at = @ + 1, !.got = parts, !.bad = bad, !.cancel = @ \/ bad # NoReply]
              ELSE Finish(k, IF bad # NoReply THEN bad ELSE MergeScanResults(k.op, parts))
        BY <1>4, <1>7, <2>1 DEF Taken, TakeGathered
    <2>3. IF bad = NoReply THEN Parts(k.op, parts, k.at + 1, k.seen) ELSE bad.kind # "got"
        <3>1. IF k.bad = NoReply THEN Parts(k.op, k.got, k.at, k.seen) ELSE k.bad.kind # "got"
            BY <1>1, <1>7 DEF Gathered
        <3>2. CASE k.bad = NoReply /\ r.kind = "got"
            <4>1. PICK v : v = r.val
                OBVIOUS
            <4>2. Parts(k.op, Append(k.got, v), k.at + 1, k.seen)
                BY <1>2, <3>1, <3>2, <4>1, OneMorePart
            <4> QED BY <2>1, <3>2, <4>1, <4>2
        <3>3. CASE k.bad = NoReply /\ r.kind # "got"
            BY <2>1, <3>3
        <3>4. CASE k.bad # NoReply
            BY <2>1, <3>1, <3>4
        <3> QED BY <3>2, <3>3, <3>4
    <2>4. CASE k.at = K - 1
        <3>1. PICK res : res = IF bad # NoReply THEN bad ELSE MergeScanResults(k.op, parts)
            OBVIOUS
        <3>2. t = Finish(k, res)
            BY <1>3, <2>2, <2>4, <3>1
        <3>3. ASSUME res.kind = "got" PROVE Answered(t)
            <4>1. bad = NoReply /\ res = MergeScanResults(k.op, parts)
                BY <2>3, <3>1, <3>3
            <4>2. Parts(k.op, parts, K, k.seen)
                BY <1>3, <2>3, <2>4, <4>1
            <4>3. Finished(k, t, MergeScanResults(k.op, parts))
                BY <1>1, <3>2, <4>1, FinishIs
            <4> QED BY <1>1, <1>7, <4>2, <4>3, AllParts
        <3> QED BY <1>4, <1>5, <3>2, <3>3
    <2>5. CASE k.at # K - 1
        <3>1. t = [k EXCEPT !.at = @ + 1, !.got = parts, !.bad = bad, !.cancel = @ \/ bad # NoReply]
            BY <1>3, <2>2, <2>5
        <3>2. TookOne(k, t, parts, bad)
            BY <1>1, <3>1 DEF TookOne, CallFields
        <3> QED BY <1>4, <1>7, <2>3, <2>5, <3>2, TookOneOK
    <2> QED BY <2>4, <2>5
<1> QED BY <1>6, <1>7

LEMMA CollectStep ==
    ASSUME Inv, NEW c \in Callers, Collect(c)
    PROVE  Inv'
<1>1. PICK k, r : k = call[c] /\ r = k.replies[k.at]
    OBVIOUS
<1>2. /\ k.phase = "gather" /\ r # NoReply /\ call' = [call EXCEPT ![c] = Taken(k, r)]
      /\ UNCHANGED <<rows, catalog, queue, worker, apart>>
    BY <1>1 DEF Collect
<1>3. CallOK(c, k, rows) /\ k.at \in Shards
    BY <1>1 DEF Inv, CallOK, CallShape
<1>4. r.kind = "got" => ReadAt(k.op, r.val, k.seen[k.at])
    BY <1>1, <1>2, <1>3 DEF CallOK
<1>5. PICK t : t = Taken(k, r)
    OBVIOUS
<1>6. CallOK(c, t, rows) /\ Goes(k, t) /\ NoDdl(k, t)
    BY <1>2, <1>3, <1>4, <1>5, TakenOK
<1> QED BY <1>1, <1>2, <1>5, <1>6, OneStep

LEMMA TimeOutStep ==
    ASSUME Inv, NEW c \in Callers, TimeOut(c)
    PROVE  Inv'
<1>1. PICK k, r : k = call[c] /\ r = Unavailable
    OBVIOUS
<1>2. /\ k.phase = "gather" /\ call' = [call EXCEPT ![c] = Taken(k, r)]
      /\ UNCHANGED <<rows, catalog, queue, worker, apart>>
    BY <1>1 DEF TimeOut
<1>3. CallOK(c, k, rows) /\ r # NoReply /\ r.kind # "got"
    BY <1>1, KindsApart DEF Inv
<1>4. PICK t : t = Taken(k, r)
    OBVIOUS
<1>5. CallOK(c, t, rows) /\ Goes(k, t) /\ NoDdl(k, t)
    BY <1>2, <1>3, <1>4, TakenOK
<1> QED BY <1>1, <1>2, <1>4, <1>5, OneStep

----------------------------------------------------------------------------
(* The theorems *)

LEMMA InitInv == Init => Inv
<1> SUFFICES ASSUME Init PROVE Inv
    OBVIOUS
<1>1. rows \in Tables /\ DOMAIN call = Callers /\ \A c \in Callers : call[c] = Idle
    BY ShardedAssumption DEF Init, Tables
<1>2. ASSUME NEW c \in Callers PROVE CallOK(c, Idle, rows)
    <2>1. Len(Requests[c]) \in Nat
        BY RequestsAssumption
    <2>2. PICK k : k = Idle
        OBVIOUS
    <2>3. /\ DOMAIN k = CallFields /\ k.n = 0 /\ k.op.kind = "none" /\ k.phase = "idle" /\ k.at = 0
          /\ DOMAIN k.replies = Shards /\ k.seen = [s \in Shards |-> {}]
        BY <2>2 DEF Idle, CallFields
    <2>4. 0 <= Len(Requests[c])
        BY <2>1
    <2>5. CallShape(c, k)
        BY <2>3, <2>4, ShardsAre DEF CallShape, Phases
    <2>6. Gathered(k) /\ Answered(k)
        BY <2>3 DEF Gathered, Answered, Scans
    <2> QED BY <2>2, <2>3, <2>5, <2>6 DEF CallOK
<1>3. PoolOK
    <2>1. <<>> \in Seq({}) /\ Len(<<>>) = 0
        BY EmptySeq
    <2>2. IsSequence(queue) /\ Len(queue) <= PoolBound /\ 1..Len(queue) = {}
        BY <2>1, ShardedAssumption DEF Init, IsSequence
    <2>3. DOMAIN worker = Workers /\ \A w \in Workers : worker[w] = NoItem
        BY DEF Init
    <2> QED BY <2>2, <2>3 DEF PoolOK
<1>4. CatalogsOK
    <2>1. DOMAIN catalog = Shards /\ \A s \in Shards : catalog[s] = <<>>
        BY DEF Init
    <2>2. <<>> \in Seq(Callers \X Nat)
        BY EmptySeq
    <2>3. Idle.phase = "idle" /\ Idle.op.kind = "none"
        BY DEF Idle
    <2>4. Even(call, catalog)
        BY <1>1, <2>1, <2>3, ShardsAre DEF Even
    <2> QED BY <2>1, <2>2, <2>4 DEF CatalogsOK
<1> QED BY <1>1, <1>2, <1>3, <1>4 DEF Inv

LEMMA NextInv == Inv /\ [Next]_vars => Inv'
<1> SUFFICES ASSUME Inv, [Next]_vars PROVE Inv'
    OBVIOUS
<1>1. ASSUME NEW c \in Callers, NEW op \in NextRequests(c), Begin(c, op) PROVE Inv'
    BY <1>1, BeginStep
<1>2. ASSUME NEW c \in Callers, Apply(c) \/ CrossShardReject(c) \/ SqlDdl(c) \/ Broadcast(c) PROVE Inv'
    BY <1>2, ApplyStep, RejectStep, SqlDdlStep, BroadcastStep
<1>3. ASSUME NEW c \in Callers, WalkShard(c) \/ SendItem(c) \/ Collect(c) \/ TimeOut(c) PROVE Inv'
    BY <1>3, WalkStep, SendStep, CollectStep, TimeOutStep
<1>4. ASSUME NEW w \in Workers, Recv(w) \/ Work(w) \/ Reply(w) PROVE Inv'
    BY <1>4, RecvStep, WorkStep, ReplyStep
<1>5. CASE UNCHANGED vars
    <2>1. UNCHANGED <<rows, catalog, call, apart>> /\ UNCHANGED <<queue, worker>>
        BY <1>5 DEF vars
    <2>2. PoolOK'
        BY <2>1 DEF Inv, PoolOK, IsSequence
    <2> QED BY <2>1, <2>2, PoolStep
<1> QED BY <1>1, <1>2, <1>3, <1>4, <1>5 DEF Next

\* What is known of calls, work items and catalogs holds in every state of the
\* dispatcher and its scatter pool.
THEOREM ShardedInv == Spec => []Inv
BY InitInv, NextInv, PTL DEF Spec

\* The dispatcher's state has its types: rows of known values, types numbered by
\* their creators, a pool's queue within its bound (send blocks on a full
\* sync_channel) and calls in a known phase, at a shard there is.
THEOREM ShardedTypes == Spec => []TypeOK
<1>1. Inv => TypeOK
    <2> SUFFICES ASSUME Inv PROVE TypeOK
        OBVIOUS
    <2>1. rows \in [Ids -> Values \cup {None}] /\ Len(queue) <= PoolBound
        BY DEF Inv, Tables, PoolOK
    <2>2. ASSUME NEW s \in Shards PROVE Range(catalog[s]) \subseteq Callers \X Nat
        <3>1. PICK q : q = catalog[s] /\ q \in Seq(Callers \X Nat)
            BY DEF Inv, CatalogsOK
        <3>2. q \in [1..Len(q) -> Callers \X Nat]
            BY <3>1, LenProperties
        <3> QED BY <3>1, <3>2 DEF Range
    <2>3. \A c \in Callers : CallShape(c, call[c])
        BY DEF Inv, CallOK
    <2> QED BY <2>1, <2>2, <2>3 DEF TypeOK, CallShape, Phases
<1> QED BY <1>1, ShardedInv, PTL

\* An acknowledged type has, on every shard, the number its creator was told, for
\* any number of shards and callers: what the broadcast of the dispatcher gives
\* while no two broadcasts overlapped, no shard shed one and no DDL came as SQL.
THEOREM CatalogsStayEven == Spec => []CatalogsAgree
<1>1. Inv => CatalogsAgree
    <2> SUFFICES ASSUME Inv, ~ apart, NEW c \in Callers, ~ Busy(c), call[c].op.kind = "ddl",
                        call[c].result.kind = "got", NEW s \in Shards
                 PROVE  /\ call[c].result.val \in DOMAIN catalog[s]
                        /\ catalog[s][call[c].result.val] = <<c, call[c].n>>
        BY DEF CatalogsAgree
    <2>1. call[c].result.val \in 1..Len(catalog[s]) /\ catalog[s][call[c].result.val] = <<c, call[c].n>>
        BY DEF Inv, CatalogsOK, Even, Busy
    <2>2. PICK q : q = catalog[s] /\ q \in Seq(Callers \X Nat)
        BY DEF Inv, CatalogsOK
    <2>3. DOMAIN q = 1..Len(q)
        BY <2>2, LenProperties
    <2> QED BY <2>1, <2>2, <2>3
<1> QED BY <1>1, ShardedInv, PTL

\* A scan that answers is the merge of exactly one answer of every shard (for
\* SELECT, of the shards up to LIMIT), all of one table, each shard's rows of
\* which were its rows at one instant of the call.
ScansGathered ==
    \A c \in Callers :
        ~ Busy(c) /\ call[c].op.kind \in Scans /\ call[c].result.kind = "got" =>
            \E m \in Mixes(call[c].seen) : OneAnswerPerShard(call[c].op, call[c].result, m)

\* No shard is missing from the answer of the scatter pool, taken twice or taken
\* from the reply to an earlier call, whatever timed out, was cancelled or came
\* late: the half of AsIfUnsharded that is the protocol's, the other half being
\* what the merges compute.
THEOREM ScansAreGathered == Spec => []ScansGathered
<1>1. Inv => ScansGathered
    BY DEF Inv, CallOK, Answered, ScansGathered, Busy
<1> QED BY <1>1, ShardedInv, PTL

============================================================================
