---------------------------- MODULE EngineProofs ----------------------------
(***************************************************************************)
(* Proofs about Engine, for every finite set of callers, every limit and   *)
(* every bound.                                                            *)
(***************************************************************************)
EXTENDS Engine, NumberFacts, SequenceTheorems, FiniteSetTheorems, TLAPS

Busy == {c \in Callers : state[c] # "idle"}
Admitted == {c \in Callers : state[c] \in {"admitted", "waiting", "replied"}}

\* A caller in the channel or in the batch is waiting, and is there once; who is
\* inside a call has a call number.
Held ==
    /\ \A i \in DOMAIN queue : state[queue[i]] = "waiting"
    /\ \A i \in DOMAIN batch : state[batch[i].caller] = "waiting"
    /\ \A i, j \in DOMAIN queue : queue[i] = queue[j] => i = j
    /\ \A i \in DOMAIN queue, j \in DOMAIN batch : queue[i] # batch[j].caller
    /\ \A c \in Callers : state[c] # "idle" => calls[c] >= 1

\* The counter counts the callers inside a call, shed ones included.
Counted ==
    /\ inflight = Cardinality(Busy)
    /\ Cardinality(Admitted) <= MaxInflight

\* The op numbers of the WAL are bounded.
OpsBounded == \A i \in DOMAIN wal : wal[i][1] <= cursor + n

Inv == TypeOK /\ Held /\ Counted /\ OpsBounded

----------------------------------------------------------------------------
(* Frames and callers *)

\* What the first frames of a WAL stand for is kept when they are.
LEMMA PrefixGrows ==
    ASSUME NEW w, NEW x, NEW j \in Nat, NEW k \in Nat, j <= k,
           \A i \in 1..j : x[i] = w[i]
    PROVE  {w[i][2] : i \in 1..j} \subseteq {x[i][2] : i \in 1..k}
<1> SUFFICES ASSUME NEW i \in 1..j PROVE w[i][2] \in {x[l][2] : l \in 1..k}
    OBVIOUS
<1>1. i \in 1..k /\ x[i][2] = w[i][2]
    OBVIOUS
<1> QED BY <1>1

\* Requests that are in the WAL are requests.
LEMMA EffectsType ==
    ASSUME TypeOK
    PROVE  Effects \subseteq Requests
<1>1. wal \in Seq(Nat \X Requests) /\ flushed \subseteq Requests
    BY DEF TypeOK
<1>2. \A i \in 1..Len(wal) : wal[i] \in Nat \X Requests
    BY <1>1
<1>3. \A i \in 1..Len(wal) : wal[i][2] \in Requests
    BY <1>2
<1> QED BY <1>1, <1>3 DEF Effects, InWal

\* Who is in the channel or in the batch is a caller.
LEMMA MembersType ==
    ASSUME TypeOK
    PROVE  /\ \A i \in DOMAIN queue : queue[i] \in Callers
           /\ \A i \in DOMAIN batch : batch[i].caller \in Callers
           /\ \A i \in DOMAIN batch : batch[i].shown \subseteq Requests
<1> DEFINE Answers == [caller : Callers, shown : SUBSET Requests]
<1>1. queue \in Seq(Callers) /\ batch \in Seq(Answers)
    BY DEF TypeOK
<1>2. \A b \in Answers : b.caller \in Callers /\ b.shown \subseteq Requests
    OBVIOUS
<1> HIDE DEF Answers
<1>3. \A i \in DOMAIN batch : batch[i] \in Answers
    BY <1>1
<1> QED BY <1>1, <1>2, <1>3

\* The sets of callers are finite.
LEMMA CallersFinite ==
    /\ IsFiniteSet(Busy) /\ Cardinality(Busy) \in Nat
    /\ IsFiniteSet(Admitted) /\ Cardinality(Admitted) \in Nat
<1>1. Busy \subseteq Callers /\ Admitted \subseteq Callers
    BY DEF Busy, Admitted
<1>2. IsFiniteSet(Callers)
    BY EngineBounds
<1> QED BY <1>1, <1>2, FS_Subset, FS_CardinalityType

\* Admitted callers are busy.
LEMMA AdmittedBusy == Cardinality(Admitted) <= Cardinality(Busy)
<1>1. Admitted \subseteq Busy
    BY DEF Busy, Admitted
<1> QED BY <1>1, CallersFinite, FS_Subset

----------------------------------------------------------------------------
(* The callers *)

LEMMA BypassReadInv ==
    ASSUME Inv, NEW c \in Callers, BypassRead(c)
    PROVE  Inv'
<1> USE DEF Inv
<1>1. calls' = [calls EXCEPT ![c] = @ + 1] /\ calls[c] < MaxCalls /\ state[c] = "idle"
    BY DEF BypassRead
<1>2. TypeOK'
    <2>1. calls' \in [Callers -> 0..MaxCalls]
        BY <1>1, EngineBounds DEF TypeOK
    <2>2. seen' \subseteq Requests
        BY EffectsType DEF BypassRead, TypeOK
    <2> QED BY <2>1, <2>2 DEF TypeOK, BypassRead, durable
<1>3. Held'
    <2>1. \A d \in Callers : state[d] # "idle" => calls'[d] >= 1
        BY <1>1 DEF Held, TypeOK
    <2> QED BY <2>1 DEF Held, BypassRead
<1>4. Counted'
    BY DEF Counted, BypassRead, Busy, Admitted
<1>5. OpsBounded'
    BY DEF OpsBounded, BypassRead, durable
<1> QED BY <1>2, <1>3, <1>4, <1>5

LEMMA CallInv ==
    ASSUME Inv, NEW c \in Callers, NEW k \in Kinds, Call(c, k)
    PROVE  Inv'
<1> USE DEF Inv
<1>1. /\ state[c] = "idle" /\ calls[c] < MaxCalls
      /\ calls' = [calls EXCEPT ![c] = @ + 1]
      /\ state' = [state EXCEPT ![c] = IF Full THEN "shed" ELSE "admitted"]
      /\ kind' = [kind EXCEPT ![c] = k]
      /\ inflight' = inflight + 1
    BY DEF Call, Count
<1>2. TypeOK'
    <2>1. calls' \in [Callers -> 0..MaxCalls]
        <3>1. calls \in [Callers -> 0..MaxCalls] /\ MaxCalls \in Nat
            BY EngineBounds DEF TypeOK
        <3>2. calls[c] + 1 \in 0..MaxCalls
            BY <1>1, <3>1
        <3> QED BY <1>1, <3>1, <3>2
    <2>2. state' \in [Callers -> {"idle", "shed", "admitted", "waiting", "replied"}]
        BY <1>1 DEF TypeOK
    <2>3. kind' \in [Callers -> Kinds \cup {"none"}]
        BY <1>1 DEF TypeOK
    <2>4. inflight' \in Nat
        BY <1>1 DEF TypeOK
    <2> QED BY <2>1, <2>2, <2>3, <2>4 DEF TypeOK, Call, durable
<1>3. Held'
    <2>1. \A d \in Callers : state'[d] # "idle" => calls'[d] >= 1
        BY <1>1 DEF Held, TypeOK
    <2>2. \A d \in Callers : state[d] = "waiting" => state'[d] = "waiting"
        BY <1>1 DEF TypeOK
    <2> QED BY <2>1, <2>2, MembersType DEF Held, Call
<1>4. Counted'
    <2>1. Busy' = Busy \cup {c} /\ c \notin Busy
        BY <1>1 DEF Busy, TypeOK
    <2>2. Cardinality(Busy') = Cardinality(Busy) + 1
        BY <2>1, CallersFinite, FS_AddElement
    <2>3. inflight' = Cardinality(Busy')
        BY <1>1, <2>2 DEF Counted
    <2>4. CASE Full
        <3>1. Admitted' = Admitted
            BY <1>1, <2>4 DEF Admitted, TypeOK
        <3> QED BY <2>3, <3>1 DEF Counted
    <2>5. CASE ~ Full
        <3>1. Admitted' = Admitted \cup {c} /\ c \notin Admitted
            BY <1>1, <2>5 DEF Admitted, TypeOK
        <3>2. Cardinality(Admitted') = Cardinality(Admitted) + 1
            BY <3>1, CallersFinite, FS_AddElement
        <3>3. Cardinality(Admitted) < MaxInflight
            BY <2>5, AdmittedBusy, CallersFinite, EngineBounds DEF Full, Counted
        <3> QED BY <2>3, <3>2, <3>3, CallersFinite, EngineBounds DEF Counted
    <2> QED BY <2>4, <2>5
<1>5. OpsBounded'
    BY DEF OpsBounded, Call, durable
<1> QED BY <1>2, <1>3, <1>4, <1>5

LEMMA ReturnInv ==
    ASSUME Inv, NEW c \in Callers, Return(c)
    PROVE  Inv'
<1> USE DEF Inv
<1>1. /\ state[c] \in {"shed", "replied"}
      /\ state' = [state EXCEPT ![c] = "idle"]
      /\ inflight' = inflight - 1
    BY DEF Return
<1>2. Busy' = Busy \ {c} /\ c \in Busy
    BY <1>1 DEF Busy, TypeOK
<1>3. Cardinality(Busy') = Cardinality(Busy) - 1
    BY <1>2, CallersFinite, FS_RemoveElement
<1>4. Cardinality(Busy') \in Nat
    BY <1>2, CallersFinite, FS_RemoveElement, FS_CardinalityType
<1>5. inflight' = Cardinality(Busy')
    BY <1>1, <1>3 DEF Counted
<1>6. TypeOK'
    <2>1. state' \in [Callers -> {"idle", "shed", "admitted", "waiting", "replied"}]
        BY <1>1 DEF TypeOK
    <2>2. inflight' \in Nat
        BY <1>4, <1>5
    <2> QED BY <2>1, <2>2 DEF TypeOK, Return, durable
<1>7. Held'
    <2>1. \A d \in Callers : state'[d] # "idle" => calls[d] >= 1
        BY <1>1 DEF Held, TypeOK
    <2>2. \A d \in Callers : state[d] = "waiting" => state'[d] = "waiting"
        BY <1>1 DEF TypeOK
    <2> QED BY <2>1, <2>2, MembersType DEF Held, Return
<1>8. Counted'
    <2>1. Admitted' \subseteq Admitted
        BY <1>1 DEF Admitted, TypeOK
    <2>2. Cardinality(Admitted') <= Cardinality(Admitted) /\ Cardinality(Admitted') \in Nat
        BY <2>1, CallersFinite, FS_Subset, FS_CardinalityType
    <2> QED BY <1>5, <2>2, CallersFinite, EngineBounds DEF Counted
<1>9. OpsBounded'
    BY DEF OpsBounded, Return, durable
<1> QED BY <1>6, <1>7, <1>8, <1>9

LEMMA SendInv ==
    ASSUME Inv, NEW c \in Callers, Send(c)
    PROVE  Inv'
<1> USE DEF Inv
<1>1. /\ state[c] = "admitted"
      /\ state' = [state EXCEPT ![c] = "waiting"]
      /\ queue' = Append(queue, c)
      /\ batch' = batch /\ calls' = calls
    BY DEF Send
<1>2. TypeOK'
    <2>1. state' \in [Callers -> {"idle", "shed", "admitted", "waiting", "replied"}]
        BY <1>1 DEF TypeOK
    <2>2. queue' \in Seq(Callers)
        BY <1>1 DEF TypeOK
    <2> QED BY <2>1, <2>2 DEF TypeOK, Send, durable
<1>3. Held'
    <2>1. /\ Len(queue) \in Nat /\ DOMAIN queue = 1..Len(queue)
          /\ DOMAIN queue' = 1..(Len(queue) + 1)
          /\ queue'[Len(queue) + 1] = c
          /\ \A i \in DOMAIN queue : queue'[i] = queue[i] /\ queue[i] \in Callers
        BY <1>1 DEF TypeOK
    <2>2. \A i \in DOMAIN queue : queue[i] # c
        BY <1>1 DEF Held
    <2>3. \A i \in DOMAIN batch : batch[i].caller # c /\ batch[i].caller \in Callers
        BY <1>1, MembersType DEF Held
    <2>4. \A d \in Callers : state'[d] = IF d = c THEN "waiting" ELSE state[d]
        BY <1>1 DEF TypeOK
    <2>5. \A i \in DOMAIN queue' : state'[queue'[i]] = "waiting"
        BY <2>1, <2>4 DEF Held
    <2>6. \A i \in DOMAIN batch' : state'[batch'[i].caller] = "waiting"
        BY <1>1, <2>3, <2>4 DEF Held
    <2>7. \A i, j \in DOMAIN queue' : queue'[i] = queue'[j] => i = j
        BY <2>1, <2>2 DEF Held
    <2>8. \A i \in DOMAIN queue', j \in DOMAIN batch' : queue'[i] # batch'[j].caller
        BY <1>1, <2>1, <2>3 DEF Held
    <2>9. \A d \in Callers : state'[d] # "idle" => calls'[d] >= 1
        BY <1>1, <2>4 DEF Held
    <2> QED BY <2>5, <2>6, <2>7, <2>8, <2>9 DEF Held
<1>4. Counted'
    <2>1. Busy' = Busy /\ Admitted' = Admitted
        BY <1>1 DEF Busy, Admitted, TypeOK
    <2> QED BY <2>1 DEF Counted, Send
<1>5. OpsBounded'
    BY DEF OpsBounded, Send, durable
<1> QED BY <1>2, <1>3, <1>4, <1>5

----------------------------------------------------------------------------
(* The engine thread *)

LEMMA ComputeInv ==
    ASSUME Inv, Compute
    PROVE  Inv'
<1> DEFINE c == Head(queue)
           k == kind[c]
           frame == <<n, <<c, calls[c]>>>>
           entry == [caller |-> c, shown |-> IF k = "read" THEN Effects ELSE {}]
<1> USE DEF Inv
<1>1. /\ queue # <<>>
      /\ queue' = Tail(queue)
      /\ batch' = Append(batch, entry)
      /\ n' = IF k = "snapshot" THEN n ELSE n + 1
      /\ skipped' = IF Skipped(k) THEN skipped \cup {<<c, calls[c]>>} ELSE skipped
      /\ \/ UNCHANGED <<cursor, wal, synced, flushed, man_op>>
         \/ /\ k = "write" /\ wal' = Append(wal, frame) /\ cursor' = Max({cursor, n})
            /\ UNCHANGED <<synced, flushed, man_op>>
         \/ /\ k = "txn" /\ wal' = Append(wal, frame) /\ synced' = Len(wal')
            /\ UNCHANGED <<cursor, flushed, man_op>>
         \/ /\ flushed' = Effects /\ wal' = <<>> /\ synced' = 0
            /\ man_op' = IF wal = <<>> THEN man_op ELSE Max({cursor, man_op})
            /\ UNCHANGED cursor
      /\ UNCHANGED <<callers, inflight, acked, seen, recovered, restarts>>
    BY DEF Compute, durable
<1>2. /\ Len(queue) \in Nat \ {0} /\ 1 \in DOMAIN queue /\ c = queue[1] /\ c \in Callers
      /\ DOMAIN queue = 1..Len(queue)
      /\ DOMAIN Tail(queue) = 1..(Len(queue) - 1)
      /\ \A i \in DOMAIN Tail(queue) : Tail(queue)[i] = queue[i + 1]
    BY <1>1 DEF TypeOK
<1>3. state[c] = "waiting" /\ calls[c] >= 1 /\ calls[c] \in 1..MaxCalls
    <2>1. state[c] = "waiting"
        BY <1>2 DEF Held
    <2>2. calls[c] \in 0..MaxCalls
        BY <1>2 DEF TypeOK
    <2>3. calls[c] >= 1
        BY <1>2, <2>1 DEF Held
    <2> HIDE DEF c
    <2> QED BY <2>1, <2>2, <2>3, EngineBounds
<1>4. <<c, calls[c]>> \in Requests
    BY <1>2, <1>3 DEF Requests
<1>5. n \in Nat /\ cursor \in Nat /\ man_op \in Nat /\ synced \in Nat
    BY DEF TypeOK
<1>6. frame \in Nat \X Requests
    BY <1>4, <1>5
<1>7. wal \in Seq(Nat \X Requests) /\ Len(wal) \in Nat
    BY DEF TypeOK
<1>8. entry \in [caller : Callers, shown : SUBSET Requests]
    BY <1>2, EffectsType
<1>9. Append(wal, frame) \in Seq(Nat \X Requests) /\ Len(Append(wal, frame)) \in Nat
    <2> HIDE DEF frame
    <2> QED BY <1>6, <1>7
<1>10. Max({cursor, n}) \in Nat /\ Max({cursor, man_op}) \in Nat /\ Max({cursor, n}) >= cursor
    BY <1>5, MaxOfTwo
<1> HIDE DEF frame, entry, c, k
<1>11. TypeOK'
    <2>1. queue' \in Seq(Callers)
        BY <1>1 DEF TypeOK
    <2>2. batch' \in Seq([caller : Callers, shown : SUBSET Requests])
        BY <1>1, <1>8 DEF TypeOK
    <2>3. wal' \in Seq(Nat \X Requests)
        <3>1. <<>> \in Seq(Nat \X Requests)
            OBVIOUS
        <3> QED BY <1>1, <1>7, <1>9, <3>1
    <2>4. synced' \in Nat /\ cursor' \in Nat /\ man_op' \in Nat /\ n' \in Nat
        BY <1>1, <1>5, <1>9, <1>10 DEF durable
    <2>5. flushed' \subseteq Requests /\ skipped' \subseteq Requests
        BY <1>1, <1>4, EffectsType DEF TypeOK, durable
    <2> QED BY <1>1, <2>1, <2>2, <2>3, <2>4, <2>5 DEF TypeOK, callers
<1>12. Held'
    <2>1. /\ Len(batch) \in Nat /\ DOMAIN batch = 1..Len(batch)
          /\ DOMAIN batch' = 1..(Len(batch) + 1)
          /\ batch'[Len(batch) + 1] = entry
          /\ \A i \in DOMAIN batch : batch'[i] = batch[i]
        <3> DEFINE Answers == [caller : Callers, shown : SUBSET Requests]
        <3>1. entry \in Answers /\ batch \in Seq(Answers)
            BY <1>8 DEF TypeOK
        <3> HIDE DEF Answers
        <3> QED BY <1>1, <3>1
    <2>2. entry.caller = c
        BY DEF entry
    <2>3. \A i \in DOMAIN queue' : i + 1 \in DOMAIN queue /\ i + 1 # 1 /\ queue'[i] = queue[i + 1]
        BY <1>1, <1>2
    <2>4. \A i \in DOMAIN queue' : queue'[i] # c
        BY <1>2, <2>3 DEF Held
    <2>5. \A i \in DOMAIN queue' : state'[queue'[i]] = "waiting"
        BY <1>1, <2>3 DEF Held, callers
    <2>6. \A i \in DOMAIN batch' : state'[batch'[i].caller] = "waiting"
        BY <1>1, <1>3, <2>1, <2>2 DEF Held, callers
    <2>7. \A i, j \in DOMAIN queue' : queue'[i] = queue'[j] => i = j
        BY <1>1, <1>2, <2>3 DEF Held
    <2>8. \A i \in DOMAIN queue', j \in DOMAIN batch' : queue'[i] # batch'[j].caller
        BY <2>1, <2>2, <2>3, <2>4 DEF Held
    <2>9. \A d \in Callers : state'[d] # "idle" => calls'[d] >= 1
        BY <1>1 DEF Held, callers
    <2> QED BY <2>5, <2>6, <2>7, <2>8, <2>9 DEF Held
<1>13. Counted'
    BY <1>1 DEF Counted, Busy, Admitted, callers
<1>14. OpsBounded'
    <2>1. cursor' + n' \in Nat /\ cursor + n <= cursor' + n'
        BY <1>1, <1>5, <1>10 DEF durable
    <2>2. CASE wal' = wal
        BY <1>7, <2>1, <2>2, <1>5 DEF OpsBounded
    <2>3. CASE wal' = <<>>
        BY <2>3 DEF OpsBounded
    <2>4. CASE wal' = Append(wal, frame)
        <3>1. frame[1] = n
            BY DEF frame
        <3>2. n <= cursor' + n'
            BY <1>5, <2>1
        <3>3. /\ DOMAIN wal' = 1..(Len(wal) + 1) /\ wal'[Len(wal) + 1] = frame
              /\ DOMAIN wal = 1..Len(wal)
              /\ \A i \in DOMAIN wal : wal'[i] = wal[i] /\ wal[i] \in Nat \X Requests
            BY <1>6, <1>7, <2>4
        <3>4. \A i \in DOMAIN wal : wal[i][1] \in Nat
            BY <3>3
        <3> QED BY <1>5, <1>7, <2>1, <3>1, <3>2, <3>3, <3>4 DEF OpsBounded
    <2> QED BY <1>1, <2>2, <2>3, <2>4 DEF durable
<1> QED BY <1>11, <1>12, <1>13, <1>14

LEMMA ReplyInv ==
    ASSUME Inv, Reply
    PROVE  Inv'
<1> USE DEF Inv
<1>1. /\ batch' = <<>>
      /\ state' = [c \in Callers |-> IF c \in Answered THEN "replied" ELSE state[c]]
      /\ acked' = acked \cup {<<c, calls[c]>> : c \in {x \in Answered : Mutating(kind[x])}}
      /\ seen' = seen \cup UNION {batch[i].shown : i \in DOMAIN batch}
      /\ synced' = Len(wal) \/ synced' = synced
      /\ UNCHANGED <<n, cursor, wal, flushed, man_op, queue, calls, kind, inflight, skipped, recovered, restarts>>
    BY DEF Reply, SyncBatch
<1>2. Answered \subseteq Callers /\ \A c \in Answered : state[c] = "waiting"
    BY MembersType DEF Answered, Held
<1>3. \A c \in Answered : <<c, calls[c]>> \in Requests
    BY <1>2, EngineBounds DEF Held, TypeOK, Requests
<1>4. TypeOK'
    <2>1. state' \in [Callers -> {"idle", "shed", "admitted", "waiting", "replied"}]
        BY <1>1 DEF TypeOK
    <2>2. acked' \subseteq Requests
        BY <1>1, <1>3 DEF TypeOK
    <2>3. seen' \subseteq Requests
        BY <1>1, MembersType DEF TypeOK
    <2>4. synced' \in Nat
        BY <1>1 DEF TypeOK
    <2>5. batch' \in Seq([caller : Callers, shown : SUBSET Requests])
        BY <1>1
    <2> QED BY <1>1, <2>1, <2>2, <2>3, <2>4, <2>5 DEF TypeOK
<1>5. Held'
    <2>1. \A i \in DOMAIN queue : queue[i] \notin Answered
        BY DEF Answered, Held
    <2>2. \A i \in DOMAIN queue' : state'[queue'[i]] = "waiting"
        BY <1>1, <2>1, MembersType DEF Held
    <2>3. \A d \in Callers : state'[d] # "idle" => state[d] # "idle"
        BY <1>1, <1>2
    <2> QED BY <1>1, <2>2, <2>3 DEF Held
<1>6. Counted'
    <2>1. Busy' = Busy /\ Admitted' = Admitted
        BY <1>1, <1>2 DEF Busy, Admitted
    <2> QED BY <1>1, <2>1 DEF Counted
<1>7. OpsBounded'
    BY <1>1 DEF OpsBounded
<1> QED BY <1>4, <1>5, <1>6, <1>7

LEMMA RestartInv ==
    ASSUME Inv, Restart
    PROVE  Inv'
<1> USE DEF Inv
<1>1. PICK kept \in synced .. Len(wal) :
          /\ wal' = SubSeq(wal, 1, kept)
          /\ cursor' = Max({man_op} \cup {wal[i][1] : i \in 1..kept})
          /\ recovered' = recovered \cup (InWal(kept) \ DurableEffects)
    BY DEF Restart
<1>2. /\ synced' = synced /\ n' = 1
      /\ queue' = <<>> /\ batch' = <<>>
      /\ state' = [c \in Callers |-> "idle"]
      /\ inflight' = 0 /\ restarts' = restarts + 1
      /\ UNCHANGED <<flushed, man_op, calls, kind, acked, seen, skipped>>
    BY DEF Restart
<1>3. /\ n \in Nat /\ cursor \in Nat /\ man_op \in Nat /\ synced \in Nat /\ restarts \in Nat
      /\ wal \in Seq(Nat \X Requests) /\ Len(wal) \in Nat
    BY DEF TypeOK
<1>4. kept \in Nat /\ kept <= Len(wal) /\ \A i \in 1..kept : i \in DOMAIN wal
    BY <1>3
<1>5. /\ wal' \in Seq(Nat \X Requests) /\ Len(wal') = kept /\ DOMAIN wal' = 1..kept
      /\ \A i \in 1..kept : wal'[i] = wal[i]
    <2>1. CASE kept = 0
        <3>1. wal' = <<>>
            BY <1>1, <1>3, <2>1, SubSeqEmpty
        <3> QED BY <2>1, <3>1
    <2>2. CASE kept > 0
        BY <1>1, <1>3, <1>4, <2>2, SubSeqProperties
    <2> QED BY <1>4, <2>1, <2>2
<1>6. \A i \in 1..kept : wal[i][1] \in Nat /\ wal[i][1] <= cursor + n
    <2>1. \A i \in 1..kept : wal[i] \in Nat \X Requests
        BY <1>3, <1>4
    <2>2. \A i \in 1..kept : wal[i][1] \in Nat
        BY <2>1
    <2> QED BY <1>4, <2>2 DEF OpsBounded
<1>7. cursor' \in Nat /\ \A i \in 1..kept : wal[i][1] <= cursor'
    <2> DEFINE ops == {man_op} \cup {wal[i][1] : i \in 1..kept}
    <2>1. ops \subseteq 0..(cursor + n + man_op) /\ ops # {}
        BY <1>3, <1>6
    <2>2. cursor + n + man_op \in Nat
        BY <1>3
    <2>3. \A i \in 1..kept : wal[i][1] \in ops
        OBVIOUS
    <2>4. cursor' = Max(ops)
        BY <1>1
    <2> HIDE DEF ops
    <2>5. Max(ops) \in ops /\ \A x \in ops : x <= Max(ops)
        BY <2>1, <2>2, MaxOfBounded
    <2>6. cursor' \in Nat
        <3>1. Max(ops) \in 0..(cursor + n + man_op)
            BY <2>1, <2>5
        <3> QED BY <2>2, <2>4, <3>1
    <2> QED BY <2>3, <2>4, <2>5, <2>6
<1>8. TypeOK'
    <2>1. state' \in [Callers -> {"idle", "shed", "admitted", "waiting", "replied"}]
        BY <1>2
    <2>2. queue' \in Seq(Callers) /\ batch' \in Seq([caller : Callers, shown : SUBSET Requests])
        BY <1>2
    <2>3. {n', cursor', synced', man_op', inflight', restarts'} \subseteq Nat
        BY <1>2, <1>3, <1>4, <1>5, <1>7
    <2>4. recovered' \subseteq Requests
        <3>1. \A i \in 1..kept : wal[i] \in Nat \X Requests
            BY <1>3, <1>4
        <3>2. \A i \in 1..kept : wal[i][2] \in Requests
            BY <3>1
        <3> QED BY <1>1, <3>2 DEF InWal, TypeOK
    <2> QED BY <1>2, <1>5, <2>1, <2>2, <2>3, <2>4 DEF TypeOK
<1>9. Held'
    BY <1>2 DEF Held
<1>10. Counted'
    <2>1. Busy' = {} /\ Admitted' = {}
        BY <1>2 DEF Busy, Admitted
    <2> QED BY <1>2, <2>1, FS_EmptySet, EngineBounds DEF Counted
<1>11. OpsBounded'
    BY <1>2, <1>5, <1>6, <1>7 DEF OpsBounded
<1> QED BY <1>8, <1>9, <1>10, <1>11

----------------------------------------------------------------------------
(* Theorems *)

\* The invariant behind the theorems is inductive.
LEMMA Invariance == Spec => []Inv
<1>1. Init => Inv
    <2> SUFFICES ASSUME Init PROVE Inv
        OBVIOUS
    <2>1. Busy = {} /\ Admitted = {}
        BY DEF Init, Busy, Admitted
    <2>2. Counted
        BY <2>1, FS_EmptySet, EngineBounds DEF Init, Counted
    <2>3. TypeOK
        BY EngineBounds DEF Init, TypeOK
    <2>4. Held /\ OpsBounded
        BY DEF Init, Held, OpsBounded
    <2> QED BY <2>2, <2>3, <2>4 DEF Inv
<1>2. Inv /\ [Next]_vars => Inv'
    <2> SUFFICES ASSUME Inv, [Next]_vars PROVE Inv'
        OBVIOUS
    <2>1. ASSUME NEW c \in Callers, BypassRead(c) \/ Return(c) \/ Send(c)
          PROVE  Inv'
        BY <2>1, BypassReadInv, ReturnInv, SendInv
    <2>2. ASSUME NEW c \in Callers, NEW k \in Kinds, Call(c, k)
          PROVE  Inv'
        BY <2>2, CallInv
    <2>3. CASE Compute \/ Reply \/ Restart
        BY <2>3, ComputeInv, ReplyInv, RestartInv
    <2>4. CASE UNCHANGED vars
        BY <2>4 DEF vars, durable, callers, Inv, TypeOK, Held, Counted, OpsBounded, Busy, Admitted
    <2> QED BY <2>1, <2>2, <2>3, <2>4 DEF Next
<1> QED BY <1>1, <1>2, PTL DEF Spec

\* Every action of the callers and of the engine thread keeps the types; that
\* the counter never drops below zero needs the whole invariant.
THEOREM TypeCorrect == Spec => []TypeOK
<1>1. Inv => TypeOK
    BY DEF Inv
<1> QED BY <1>1, Invariance, PTL

\* However many callers race on fetch_add and fetch_sub, and whatever the limit,
\* at most max_inflight of them are past the admission check.
THEOREM AdmissionBounded == Spec => []InflightBounded
<1>1. Inv => InflightBounded
    BY DEF Inv, Counted, Admitted, InflightBounded
<1> QED BY <1>1, Invariance, PTL

----------------------------------------------------------------------------
(* Durability.  Between batches everything in the WAL is durable or was        *)
(* replayed by a restart; inside one, what a queued read was shown and what a  *)
(* write did is at least in the WAL.                                           *)

Pending ==
    /\ synced <= Len(wal)
    /\ batch = <<>> => Effects \subseteq DurableEffects \cup recovered
    /\ \A i \in DOMAIN batch : batch[i].shown \subseteq Effects
    /\ \A i \in DOMAIN batch :
          Mutating(kind[batch[i].caller])
              => <<batch[i].caller, calls[batch[i].caller]>> \in Effects \cup skipped

DurInv == Pending /\ ShownDurable /\ DurableUnlessSkipped

\* Durable effects are effects, and all of them are when the WAL is synced.
LEMMA DurableIsEffect ==
    ASSUME TypeOK, synced <= Len(wal)
    PROVE  /\ DurableEffects \subseteq Effects
           /\ synced = Len(wal) => DurableEffects = Effects
<1>1. synced \in Nat /\ Len(wal) \in Nat
    BY DEF TypeOK
<1>2. InWal(synced) \subseteq InWal(Len(wal))
    BY <1>1, PrefixGrows DEF InWal
<1> QED BY <1>2 DEF DurableEffects, Effects

\* Steps of the callers other than the bypass touch nothing DurInv is about,
\* except a caller that is in no batch.
LEMMA CallerDur ==
    ASSUME Inv, DurInv, NEW c \in Callers, state[c] # "waiting",
           UNCHANGED <<wal, synced, flushed, batch, acked, seen, skipped, recovered>>,
           \A d \in Callers \ {c} : kind'[d] = kind[d] /\ calls'[d] = calls[d]
    PROVE  DurInv'
<1>1. \A i \in DOMAIN batch : batch[i].caller \in Callers \ {c}
    BY MembersType DEF Inv, Held
<1>2. Effects' = Effects /\ DurableEffects' = DurableEffects
    BY DEF Effects, DurableEffects, InWal
<1>3. Pending'
    BY <1>1, <1>2 DEF DurInv, Pending, Mutating
<1> QED BY <1>2, <1>3 DEF DurInv, ShownDurable, DurableUnlessSkipped

LEMMA BypassReadDur ==
    ASSUME Inv, DurInv, NEW c \in Callers, BypassRead(c)
    PROVE  DurInv'
<1>1. /\ batch = <<>> /\ batch' = batch /\ seen' = seen \cup Effects
      /\ UNCHANGED <<wal, synced, flushed, acked, skipped, recovered>>
    BY DEF BypassRead, MayBypass, durable
<1>2. Effects \subseteq DurableEffects \cup recovered
    BY <1>1 DEF DurInv, Pending
<1>3. Effects' = Effects /\ DurableEffects' = DurableEffects
    BY <1>1 DEF Effects, DurableEffects, InWal
<1>4. Pending'
    BY <1>1, <1>3 DEF DurInv, Pending
<1> QED BY <1>1, <1>2, <1>3, <1>4 DEF DurInv, ShownDurable, DurableUnlessSkipped

\* What Compute does to the files: nothing, a frame more, a synced frame more,
\* or a flush.  No effect and no durable effect is lost.
LEMMA ComputeGrows ==
    ASSUME Inv, DurInv, Compute
    PROVE  /\ Effects \subseteq Effects' /\ DurableEffects \subseteq DurableEffects'
           /\ synced' <= Len(wal')
           /\ LET c == Head(queue)
              IN  Mutating(kind[c]) => <<c, calls[c]>> \in Effects' \cup skipped'
<1> DEFINE c == Head(queue)
           k == kind[c]
           frame == <<n, <<c, calls[c]>>>>
<1>1. /\ wal \in Seq(Nat \X Requests) /\ Len(wal) \in Nat /\ synced \in Nat
      /\ synced <= Len(wal)
    BY DEF Inv, TypeOK, DurInv, Pending
<1>2. frame[2] = <<c, calls[c]>>
    OBVIOUS
<1>3. skipped' = IF Skipped(k) THEN skipped \cup {<<c, calls[c]>>} ELSE skipped
    BY DEF Compute
<1>4. CASE (k = "read" \/ Skipped(k)) /\ UNCHANGED <<wal, synced, flushed>>
    <2>1. Effects' = Effects /\ DurableEffects' = DurableEffects
        BY <1>4 DEF Effects, DurableEffects, InWal
    <2> QED BY <1>1, <1>3, <1>4, <2>1 DEF Mutating
<1>5. CASE /\ k \in {"write", "txn"} /\ flushed' = flushed /\ wal' = Append(wal, frame)
           /\ synced' \in {synced, Len(wal')}
    <2> HIDE DEF frame, k, c
    <2>1. /\ Len(wal') = Len(wal) + 1 /\ wal'[Len(wal) + 1] = frame
          /\ \A i \in 1..Len(wal) : wal'[i] = wal[i]
        BY <1>1, <1>5
    <2>2. synced' \in Nat /\ synced <= synced' /\ synced' <= Len(wal') /\ Len(wal') \in Nat
        BY <1>1, <1>5, <2>1
    <2>3. \A i \in 1..synced : wal'[i] = wal[i]
        BY <1>1, <2>1
    <2>4. InWal(Len(wal)) \subseteq InWal(Len(wal))'
        BY <1>1, <2>1, <2>2, PrefixGrows DEF InWal
    <2>5. InWal(synced) \subseteq InWal(synced)'
        <3> SUFFICES ASSUME NEW i \in 1..synced
                     PROVE  \E j \in 1..synced' : wal'[j][2] = wal[i][2]
            BY DEF InWal
        <3>1. i \in 1..synced'
            BY <1>1, <2>2
        <3> QED BY <2>3, <3>1
    <2>6. frame[2] \in InWal(Len(wal))'
        BY <1>1, <2>1 DEF InWal
    <2> QED BY <1>2, <1>5, <2>2, <2>4, <2>5, <2>6 DEF Effects, DurableEffects, c, k
<1>6. CASE k = "snapshot" /\ flushed' = Effects /\ wal' = <<>> /\ synced' = 0
    <2>1. Effects \subseteq Effects' /\ Effects \subseteq DurableEffects'
        BY <1>6 DEF Effects, DurableEffects
    <2>2. DurableEffects \subseteq Effects
        BY <1>1, DurableIsEffect DEF Inv
    <2>3. ~ Mutating(k)
        BY <1>6 DEF Mutating
    <2> QED BY <1>6, <2>1, <2>2, <2>3
<1> QED BY <1>4, <1>5, <1>6 DEF Compute, durable

LEMMA ComputeDur ==
    ASSUME Inv, DurInv, Compute
    PROVE  DurInv'
<1> DEFINE c == Head(queue)
           entry == [caller |-> c, shown |-> IF kind[c] = "read" THEN Effects ELSE {}]
           Answers == [caller : Callers, shown : SUBSET Requests]
<1>1. /\ queue # <<>> /\ batch' = Append(batch, entry)
      /\ UNCHANGED <<kind, calls, acked, seen, recovered>>
      /\ skipped \subseteq skipped'
    BY DEF Compute, callers
<1>2. entry.caller = c /\ entry.shown \subseteq Effects
    OBVIOUS
<1>3. entry \in Answers /\ batch \in Seq(Answers)
    BY <1>1, EffectsType DEF Inv, TypeOK
<1>4. /\ Effects \subseteq Effects' /\ DurableEffects \subseteq DurableEffects'
      /\ synced' <= Len(wal')
      /\ Mutating(kind[c]) => <<c, calls[c]>> \in Effects' \cup skipped'
    BY ComputeGrows
<1> HIDE DEF entry, Answers, c
<1>5. /\ Len(batch) \in Nat /\ DOMAIN batch = 1..Len(batch)
      /\ DOMAIN batch' = 1..(Len(batch) + 1)
      /\ batch'[Len(batch) + 1] = entry
      /\ \A i \in DOMAIN batch : batch'[i] = batch[i]
    BY <1>1, <1>3
<1>6. batch' # <<>>
    BY <1>5
<1>7. \A i \in DOMAIN batch' : batch'[i].shown \subseteq Effects'
    BY <1>2, <1>4, <1>5 DEF DurInv, Pending
<1>8. \A i \in DOMAIN batch' :
          Mutating(kind'[batch'[i].caller])
              => <<batch'[i].caller, calls'[batch'[i].caller]>> \in Effects' \cup skipped'
    BY <1>1, <1>2, <1>4, <1>5 DEF DurInv, Pending
<1>9. Pending'
    BY <1>4, <1>6, <1>7, <1>8 DEF Pending, Mutating
<1> QED BY <1>1, <1>4, <1>9 DEF DurInv, ShownDurable, DurableUnlessSkipped

\* The sync of a batch that does not fail makes all effects durable.
LEMMA ReplyDur ==
    ASSUME SyncMayFail = FALSE, Inv, DurInv, Reply
    PROVE  DurInv'
<1>1. /\ batch' = <<>> /\ synced' = Len(wal)
      /\ acked' = acked \cup {<<c, calls[c]>> : c \in {x \in Answered : Mutating(kind[x])}}
      /\ seen' = seen \cup UNION {batch[i].shown : i \in DOMAIN batch}
      /\ UNCHANGED <<wal, flushed, skipped, recovered>>
    BY DEF Reply, SyncBatch
<1>2. Effects' = Effects /\ DurableEffects' = Effects
    BY <1>1 DEF Effects, DurableEffects, InWal
<1>3. DurableEffects \subseteq Effects
    BY DurableIsEffect DEF Inv, DurInv, Pending
<1>4. Len(wal) \in Nat
    BY DEF Inv, TypeOK
<1>5. Pending'
    BY <1>1, <1>2, <1>4 DEF Pending
<1>6. seen' \subseteq Effects \cup recovered
    BY <1>1, <1>3 DEF DurInv, Pending, ShownDurable
<1>7. \A c \in {x \in Answered : Mutating(kind[x])} : <<c, calls[c]>> \in Effects \cup skipped
    BY DEF DurInv, Pending, Answered
<1>8. acked' \subseteq Effects \cup skipped
    BY <1>1, <1>3, <1>7 DEF DurInv, DurableUnlessSkipped
<1> QED BY <1>1, <1>2, <1>5, <1>6, <1>8 DEF DurInv, ShownDurable, DurableUnlessSkipped

LEMMA RestartDur ==
    ASSUME Inv, DurInv, Restart
    PROVE  DurInv'
<1>1. PICK kept \in synced .. Len(wal) :
          /\ wal' = SubSeq(wal, 1, kept)
          /\ recovered' = recovered \cup (InWal(kept) \ DurableEffects)
    BY DEF Restart
<1>2. /\ synced' = synced /\ batch' = <<>>
      /\ UNCHANGED <<flushed, acked, seen, skipped>>
    BY DEF Restart
<1>3. /\ wal \in Seq(Nat \X Requests) /\ Len(wal) \in Nat /\ synced \in Nat
      /\ synced <= Len(wal)
    BY DEF Inv, TypeOK, DurInv, Pending
<1>4. kept \in Nat /\ synced <= kept /\ kept <= Len(wal)
    BY <1>3
<1>5. Len(wal') = kept /\ \A i \in 1..kept : wal'[i] = wal[i]
    <2>1. CASE kept = 0
        <3>1. wal' = <<>>
            BY <1>1, <1>3, <1>4, <2>1, SubSeqEmpty
        <3> QED BY <2>1, <3>1
    <2>2. CASE kept > 0
        BY <1>1, <1>3, <1>4, <2>2, SubSeqProperties
    <2> QED BY <1>4, <2>1, <2>2
<1>6. \A i \in 1..synced : wal'[i] = wal[i]
    BY <1>3, <1>4, <1>5
<1>7. InWal(synced)' = InWal(synced)
    BY <1>2, <1>6 DEF InWal
<1>8. DurableEffects' = DurableEffects
    BY <1>2, <1>7 DEF DurableEffects
<1>9. InWal(Len(wal))' = InWal(kept)
    BY <1>5 DEF InWal
<1>10. Effects' \subseteq DurableEffects' \cup recovered'
    BY <1>1, <1>2, <1>8, <1>9 DEF Effects, DurableEffects
<1>11. Pending'
    BY <1>2, <1>3, <1>4, <1>5, <1>10 DEF Pending
<1> QED BY <1>1, <1>2, <1>8, <1>11 DEF DurInv, ShownDurable, DurableUnlessSkipped

\* DurInv is inductive relative to Inv when the sync does not fail.
LEMMA DurInvariance ==
    ASSUME SyncMayFail = FALSE
    PROVE  Spec => []DurInv
<1>1. Init => DurInv
    <2> SUFFICES ASSUME Init PROVE DurInv
        OBVIOUS
    <2>1. /\ wal = <<>> /\ Len(wal) = 0 /\ synced = 0 /\ flushed = {} /\ batch = <<>>
          /\ acked = {} /\ seen = {}
        BY DEF Init
    <2>2. Effects = {}
        BY <2>1 DEF Effects, InWal
    <2> QED BY <2>1, <2>2 DEF DurInv, Pending, ShownDurable, DurableUnlessSkipped
<1>2. Inv /\ DurInv /\ [Next]_vars => DurInv'
    <2> SUFFICES ASSUME Inv, DurInv, [Next]_vars PROVE DurInv'
        OBVIOUS
    <2>1. ASSUME NEW c \in Callers, BypassRead(c) PROVE DurInv'
        BY <2>1, BypassReadDur
    <2>2. ASSUME NEW c \in Callers, Return(c) \/ Send(c) PROVE DurInv'
        BY <2>2, CallerDur DEF Return, Send, durable
    <2>3. ASSUME NEW c \in Callers, NEW k \in Kinds, Call(c, k) PROVE DurInv'
        <3>1. \A d \in Callers \ {c} : kind'[d] = kind[d] /\ calls'[d] = calls[d]
            BY <2>3 DEF Call, Inv, TypeOK
        <3> QED BY <2>3, <3>1, CallerDur DEF Call, durable
    <2>4. CASE Compute \/ Reply \/ Restart
        BY <2>4, ComputeDur, ReplyDur, RestartDur
    <2>5. CASE UNCHANGED vars
        <3>1. UNCHANGED <<wal, synced, flushed, batch, kind, calls, acked, seen, skipped, recovered>>
            BY <2>5 DEF vars, durable, callers
        <3>2. Effects' = Effects /\ DurableEffects' = DurableEffects
            BY <3>1 DEF Effects, DurableEffects, InWal
        <3>3. Pending'
            BY <3>1, <3>2 DEF DurInv, Pending, Mutating
        <3> QED BY <3>1, <3>2, <3>3 DEF DurInv, ShownDurable, DurableUnlessSkipped
    <2> QED BY <2>1, <2>2, <2>3, <2>4, <2>5 DEF Next
<1> QED BY <1>1, <1>2, Invariance, PTL DEF Spec

\* With a sync that does not fail, nothing a read has shown is ever lost, through
\* any number of restarts, except what a restart replayed from frames no sync
\* covered: neither a queued read nor one that takes the bypass sees a write of
\* the running process before it is durable when its answer goes out.
THEOREM ShownStaysDurable ==
    ASSUME SyncMayFail = FALSE
    PROVE  Spec => []ShownDurable
<1>1. DurInv => ShownDurable
    BY DEF DurInv
<1> QED BY <1>1, DurInvariance, PTL

\* With a sync that does not fail, an acknowledged write is durable, through any
\* number of restarts, or was swallowed by the replay guard of apply.
THEOREM AckedStaysDurable ==
    ASSUME SyncMayFail = FALSE
    PROVE  Spec => []DurableUnlessSkipped
<1>1. DurInv => DurableUnlessSkipped
    BY DEF DurInv
<1> QED BY <1>1, DurInvariance, PTL

============================================================================
