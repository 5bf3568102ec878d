-------------------------- MODULE CrossShardProofs --------------------------
(***************************************************************************)
(* Proofs about CrossShard, for every number of shards and routers, every  *)
(* set of transactions and every bound.                                    *)
(*                                                                         *)
(* The argument: a stored verdict never changes, so that the verdicts of   *)
(* the participants of a number, once all are stored, are a decision.      *)
(* Every decision a router acts on, in a drive or in a call it gave up, is *)
(* backed by stored verdicts: all of them yes, or one of them no.          *)
(***************************************************************************)
EXTENDS CrossShard, NumberFacts, FiniteSetTheorems, SequenceTheorems, TLAPS

\* Shard s has a slice of the entry q of the log lg.
Takes(lg, s, q) == Slices[lg[q]][s] # <<>>

\* The verdicts vt make a decision d of number q, for good.
Backs(lg, vt, d, q) ==
    IF d THEN \A s \in Shards : Takes(lg, s, q) => vt[s][q] = "yes"
    ELSE \E s \in Shards : Takes(lg, s, q) /\ vt[s][q] = "no"

\* A call names what the sequencer has, and a commit carries a backed decision.
CallOK(lg, vt, c) ==
    /\ c.phase = "append" => c.txn \in Txns
    /\ c.phase \in {"decide", "commit"} => c.seq \in 1..Len(lg) /\ c.shard \in Shards
    /\ c.phase = "commit" => Backs(lg, vt, c.decision, c.seq)

\* A drive has asked the participants before its shard, or passed the shards
\* before it.
DriveOK(lg, vt, cu, j) ==
    /\ CallOK(lg, vt, j)
    /\ j.phase = "idle" => j = Idle
    /\ j.phase \in {"decide", "commit"} => j.seq <= j.last /\ j.last <= Len(lg)
    /\ j.phase = "decide" =>
          /\ Takes(lg, j.shard, j.seq)
          /\ IF j.decision
             THEN \A s \in Shards : s < j.shard /\ Takes(lg, s, j.seq) => vt[s][j.seq] = "yes"
             ELSE Backs(lg, vt, FALSE, j.seq)
    /\ j.phase = "commit" => \A s \in Shards : s < j.shard => cu[s] >= j.seq

Shape ==
    /\ log \in Seq(Txns) /\ Len(log) <= MaxSeq
    /\ cursor \in [Shards -> Nat] /\ \A s \in Shards : cursor[s] <= Len(log)
    /\ vote \in [Shards -> [Seqs -> {"none", "yes", "no"}]]
    /\ outcome \in [Shards -> [Seqs -> {"none", "applied", "skipped"}]]

\* Every shard has a row.
OneRowEach == row = [s \in Shards |-> row[s]]

\* A shard has done something with exactly the numbers it passed, and what it
\* did is what the verdicts say.
Outcomes ==
    \A s \in Shards, q \in Seqs :
        /\ outcome[s][q] # "none" <=> q <= cursor[s]
        /\ outcome[s][q] = "applied" => Backs(log, vote, TRUE, q)
        /\ outcome[s][q] = "skipped" => Backs(log, vote, FALSE, q)

\* A session transaction has one number.
Unique ==
    \A p, q \in 1..Len(log) : log[p] = log[q] /\ log[p] \in Sessions => p = q

\* A yes that is not stale was given in turn and still holds.
Steady ==
    \A s \in Shards : /\ row[s] # "failed"
                      /\ \A q \in Seqs :
                            vote[s][q] = "yes" /\ <<s, q>> \notin stale /\ cursor[s] < q
                                => /\ cursor[s] = q - 1 /\ q <= Len(log)
                                   /\ RunSlice(row[s], Slices[log[q]][s]) # "failed"

Drives ==
    /\ job \in [Routers -> Jobs]
    /\ \A r \in Routers : DriveOK(log, vote, cursor, job[r])
    /\ upto \in [Routers -> Nat] /\ \A r \in Routers : upto[r] <= Len(log)
    /\ late \subseteq Calls
    /\ \A c \in late : CallOK(log, vote, c)

\* An answer is backed, and every shard has passed its number.
Answered ==
    /\ answers \subseteq [txn : Txns, seq : Seqs, result : {"ok", "aborted"}]
    /\ \A a \in answers : /\ a.seq <= Len(log)
                          /\ Backs(log, vote, a.result = "ok", a.seq)
                          /\ \A s \in Shards : cursor[s] >= a.seq

ShardInv == Shape /\ OneRowEach /\ Outcomes /\ Unique /\ Steady

Inv == ShardInv /\ Drives /\ Answered

\* What a step may do to the log, the verdicts and the cursors.
Grows ==
    /\ Len(log) <= Len(log')
    /\ \A q \in 1..Len(log) : log'[q] = log[q]
    /\ \A s \in Shards, q \in Seqs : vote[s][q] # "none" => vote'[s][q] = vote[s][q]
    /\ \A s \in Shards : cursor[s] <= cursor'[s]

----------------------------------------------------------------------------
(* Operators *)

\* The next participant from shard s on: none is left out, and there is none
\* only if the result is K + 1.
LEMMA NextParticipant ==
    ASSUME NEW t \in Txns, NEW s \in Nat \ {0}
    PROVE  LET p == Participant(t, s) IN
           /\ p \in Nat /\ p <= K + 1 /\ (p <= K => p >= s)
           /\ p <= K => Slices[t][p] # <<>>
           /\ \A i \in Shards : i >= s /\ i < p => Slices[t][i] = <<>>
<1> DEFINE S == {K + 1} \cup {i \in s..K : Slices[t][i] # <<>>}
<1>1. K \in Nat
    BY CrossShardAssumption
<1>2. S \subseteq Nat /\ S # {} /\ K + 1 \in S
    BY <1>1
<1>3. Min(S) \in S /\ \A k \in S : Min(S) <= k
    <2> HIDE DEF S
    <2> QED BY <1>2, MinOfNaturals
<1>4. Participant(t, s) = Min(S)
    BY DEF Participant
<1>5. \A i \in Shards : i >= s /\ i < Min(S) => i \notin S
    BY <1>1, <1>2, <1>3 DEF Shards
<1>6. \A i \in Shards : i >= s /\ i \notin S => Slices[t][i] = <<>>
    BY <1>1 DEF Shards
<1> QED BY <1>1, <1>2, <1>3, <1>4, <1>5, <1>6

\* A transaction has a first participant.
LEMMA FirstParticipant ==
    ASSUME NEW t \in Txns
    PROVE  LET p == Participant(t, 1) IN
           /\ p \in Shards /\ Slices[t][p] # <<>>
           /\ \A i \in Shards : i < p => Slices[t][i] = <<>>
<1>1. PICK s \in Shards : Slices[t][s] # <<>>
    BY CrossShardAssumption
<1>2. /\ Participant(t, 1) \in Nat /\ (Participant(t, 1) <= K => Participant(t, 1) >= 1)
      /\ Participant(t, 1) <= K => Slices[t][Participant(t, 1)] # <<>>
      /\ \A i \in Shards : i >= 1 /\ i < Participant(t, 1) => Slices[t][i] = <<>>
    BY NextParticipant
<1>3. K \in Nat
    BY CrossShardAssumption
<1>4. s >= 1 /\ s <= K /\ s \in Nat
    BY <1>3 DEF Shards
<1>5. Participant(t, 1) <= s
    BY <1>1, <1>2, <1>4
<1> QED BY <1>2, <1>3, <1>4, <1>5 DEF Shards

\* An empty slice leaves the row as it is.
LEMMA EmptySlice ==
    ASSUME NEW r
    PROVE  RunSlice(r, <<>>) = r
<1> DEFINE F(g) == [S \in SUBSET DOMAIN <<>> |->
                      IF S = {} THEN r ELSE Effect(g[S \ {Max(S)}], <<>>[Max(S)])]
           iter == CHOOSE g : g = F(g)
<1>1. RunSlice(r, <<>>) = iter[DOMAIN <<>>]
    BY DEF RunSlice, FoldLeft, MapThenFoldSet
<1>2. SUBSET DOMAIN <<>> = {{}} /\ DOMAIN <<>> = {}
    OBVIOUS
<1>3. \A g : F(g) = [S \in {{}} |-> r]
    BY <1>2
<1>4. \E g : g = F(g)
    <2>1. [S \in {{}} |-> r] = F([S \in {{}} |-> r])
        BY <1>3
    <2> QED BY <2>1
<1>5. iter = F(iter)
    <2> HIDE DEF F
    <2> QED BY <1>4
<1>6. iter[{}] = r
    <2> HIDE DEF iter, F
    <2>1. iter = [S \in {{}} |-> r]
        BY <1>3, <1>5
    <2> QED BY <2>1
<1> QED BY <1>1, <1>2, <1>6

\* A decision cannot be backed both ways.
LEMMA BackedOneWay ==
    ASSUME NEW lg, NEW vt, NEW q, Backs(lg, vt, TRUE, q), Backs(lg, vt, FALSE, q)
    PROVE  FALSE
BY DEF Backs

\* What is backed stays backed, and calls and drives stay in order, when the log,
\* the verdicts and the cursors only grow.
LEMMA BacksStays ==
    ASSUME Shape, Shape', Grows, NEW d \in BOOLEAN, NEW q \in 1..Len(log),
           Backs(log, vote, d, q)
    PROVE  Backs(log', vote', d, q)
<1>1. q \in Seqs /\ log'[q] = log[q]
    BY CrossShardAssumption DEF Shape, Seqs, Grows
<1>2. \A s \in Shards : vote[s][q] # "none" => vote'[s][q] = vote[s][q]
    BY <1>1 DEF Grows
<1> QED BY <1>1, <1>2 DEF Backs, Takes

LEMMA CallStays ==
    ASSUME Shape, Shape', Grows, NEW c, c.phase = "commit" => c.decision \in BOOLEAN,
           CallOK(log, vote, c)
    PROVE  CallOK(log', vote', c)
<1>1. Len(log) \in Nat /\ Len(log') \in Nat /\ Len(log) <= Len(log')
    BY DEF Shape, Grows
<1>2. c.phase \in {"decide", "commit"} => c.seq \in 1..Len(log) /\ c.seq \in 1..Len(log')
    BY <1>1 DEF CallOK
<1> QED BY <1>2, BacksStays DEF CallOK

LEMMA DriveStays ==
    ASSUME Shape, Shape', Grows, NEW j \in Jobs, DriveOK(log, vote, cursor, j)
    PROVE  DriveOK(log', vote', cursor', j)
<1>1. Len(log) \in Nat /\ Len(log') \in Nat /\ Len(log) <= Len(log') /\ MaxSeq \in Nat
      /\ Len(log) <= MaxSeq
    BY CrossShardAssumption DEF Shape, Grows
<1>2. j.decision \in BOOLEAN /\ j.seq \in Nat /\ j.last \in Nat
    BY <1>1 DEF Jobs
<1>3. CallOK(log', vote', j)
    BY <1>2, CallStays DEF DriveOK
<1>4. j.phase \in {"decide", "commit"} =>
        /\ j.seq \in 1..Len(log) /\ j.seq \in Seqs /\ log'[j.seq] = log[j.seq]
        /\ j.last <= Len(log')
    BY <1>1, <1>2 DEF DriveOK, CallOK, Seqs, Grows
<1>5. ASSUME j.phase = "decide"
      PROVE /\ Takes(log', j.shard, j.seq)
            /\ IF j.decision
               THEN \A s \in Shards : s < j.shard /\ Takes(log', s, j.seq) => vote'[s][j.seq] = "yes"
               ELSE Backs(log', vote', FALSE, j.seq)
    <2>1. CASE j.decision
        BY <1>4, <1>5, <2>1 DEF DriveOK, Takes, Grows
    <2>2. CASE ~ j.decision
        BY <1>4, <1>5, <2>2, BacksStays DEF DriveOK, Takes
    <2> QED BY <1>2, <2>1, <2>2
<1>6. ASSUME j.phase = "commit", NEW s \in Shards, s < j.shard
      PROVE cursor'[s] >= j.seq
    <2>1. cursor[s] \in Nat /\ cursor'[s] \in Nat /\ cursor[s] <= cursor'[s]
        BY DEF Shape, Grows
    <2>2. cursor[s] >= j.seq
        BY <1>6 DEF DriveOK
    <2> QED BY <1>2, <2>1, <2>2
<1> QED BY <1>3, <1>4, <1>5, <1>6 DEF DriveOK

LEMMA AnsweredStays ==
    ASSUME Shape, Shape', Grows, Answered, answers' = answers
    PROVE  Answered'
<1> SUFFICES ASSUME NEW a \in answers
             PROVE  /\ a.seq <= Len(log')
                    /\ Backs(log', vote', a.result = "ok", a.seq)
                    /\ \A s \in Shards : cursor'[s] >= a.seq
    BY DEF Answered
<1>1. Len(log) \in Nat /\ Len(log') \in Nat /\ Len(log) <= Len(log') /\ MaxSeq \in Nat
    BY CrossShardAssumption DEF Shape, Grows
<1>2. a.seq \in 1..Len(log)
    BY <1>1 DEF Answered, Seqs
<1>3. Backs(log', vote', a.result = "ok", a.seq)
    BY <1>2, BacksStays DEF Answered
<1>4. \A s \in Shards : cursor'[s] >= a.seq
    <2> TAKE s \in Shards
    <2>1. cursor[s] \in Nat /\ cursor'[s] \in Nat /\ cursor[s] <= cursor'[s] /\ cursor[s] >= a.seq
        BY DEF Shape, Grows, Answered
    <2> QED BY <1>2, <2>1
<1> QED BY <1>1, <1>2, <1>3, <1>4

----------------------------------------------------------------------------
(* The shards' and the sequencer's operations *)

\* Op::XshardDecide keeps the shard invariants, and its answer is stored.
LEMMA DecideKeeps ==
    ASSUME ShardInv, NEW s \in Shards, NEW q \in 1..Len(log),
           XshardDecide(s, q, Slices[log[q]][s])
    PROVE  /\ ShardInv' /\ Grows
           /\ Verdict(s, q, Slices[log[q]][s]) \in {"yes", "no"}
           /\ vote'[s][q] = Verdict(s, q, Slices[log[q]][s])
<1> DEFINE v == Verdict(s, q, Slices[log[q]][s])
<1>1. /\ log' = log /\ row' = row /\ cursor' = cursor /\ outcome' = outcome
      /\ vote' = [vote EXCEPT ![s][q] = v]
      /\ stale' = IF vote[s][q] = "none" /\ cursor[s] < q - 1 THEN stale \cup {<<s, q>>} ELSE stale
    BY DEF XshardDecide
<1>2. q \in Seqs /\ MaxSeq \in Nat /\ Len(log) \in Nat
    BY CrossShardAssumption DEF Seqs, ShardInv, Shape
<1>3. v \in {"yes", "no"}
    BY <1>2 DEF Verdict, DryRun, ShardInv, Shape
<1>4. vote[s][q] # "none" => v = vote[s][q]
    BY DEF Verdict
<1>5. vote[s][q] = "none" /\ v = "yes" => RunSlice(row[s], Slices[log[q]][s]) # "failed"
    BY DEF Verdict, DryRun
<1> HIDE DEF v
<1>6. Shape'
    BY <1>1, <1>2, <1>3 DEF ShardInv, Shape
<1>7. \A u \in Shards, p \in Seqs : vote'[u][p] = IF u = s /\ p = q THEN v ELSE vote[u][p]
    BY <1>1, <1>2 DEF ShardInv, Shape
<1>8. Grows
    BY <1>1, <1>2, <1>4, <1>7 DEF Grows, ShardInv, Shape
<1>9. Outcomes'
    <2> SUFFICES ASSUME NEW u \in Shards, NEW p \in Seqs
                 PROVE /\ outcome'[u][p] # "none" <=> p <= cursor'[u]
                       /\ outcome'[u][p] = "applied" => Backs(log', vote', TRUE, p)
                       /\ outcome'[u][p] = "skipped" => Backs(log', vote', FALSE, p)
        BY DEF Outcomes
    <2>1. /\ outcome[u][p] # "none" <=> p <= cursor[u]
          /\ outcome[u][p] = "applied" => Backs(log, vote, TRUE, p)
          /\ outcome[u][p] = "skipped" => Backs(log, vote, FALSE, p)
        BY DEF ShardInv, Outcomes
    <2>2. p <= cursor[u] => p \in 1..Len(log)
        BY <1>2 DEF ShardInv, Shape, Seqs
    <2> QED BY <1>1, <1>6, <1>8, <2>1, <2>2, BacksStays DEF ShardInv
<1>10. Unique' /\ OneRowEach'
    BY <1>1 DEF ShardInv, Unique, OneRowEach
<1>11. Steady'
    <2> SUFFICES ASSUME NEW u \in Shards, NEW p \in Seqs, vote'[u][p] = "yes",
                        <<u, p>> \notin stale', cursor'[u] < p
                 PROVE /\ cursor'[u] = p - 1 /\ p <= Len(log')
                       /\ RunSlice(row'[u], Slices[log'[p]][u]) # "failed"
        BY <1>1 DEF Steady, ShardInv
    <2>1. CASE vote[u][p] = "yes"
        BY <1>1, <2>1 DEF ShardInv, Steady
    <2>2. CASE vote[u][p] # "yes"
        <3>1. u = s /\ p = q /\ v = "yes" /\ vote[s][q] = "none"
            BY <1>2, <1>4, <1>7, <2>2
        <3>2. ~ (cursor[s] < q - 1)
            BY <1>1, <3>1
        <3>3. cursor[s] \in Nat /\ q \in Nat
            BY <1>2 DEF ShardInv, Shape
        <3> QED BY <1>1, <1>2, <1>5, <3>1, <3>2, <3>3
    <2> QED BY <2>1, <2>2
<1> QED BY <1>2, <1>3, <1>6, <1>7, <1>8, <1>9, <1>10, <1>11 DEF ShardInv, v

\* Op::XshardCommit with a backed decision keeps the shard invariants; when the
\* reply is Ok, the shard has passed the number.
LEMMA CommitKeeps ==
    ASSUME ShardInv, NEW s \in Shards, NEW q \in 1..Len(log), NEW d \in BOOLEAN,
           Backs(log, vote, d, q), XshardCommit(s, q, Slices[log[q]][s], d)
    PROVE  /\ ShardInv' /\ Grows
           /\ CommitOk(s, q, Slices[log[q]][s], d) => cursor'[s] >= q
<1> DEFINE slice == Slices[log[q]][s]
<1>1. log' = log /\ vote' = vote /\ stale' = stale
    BY DEF XshardCommit
<1>2. q \in Seqs /\ MaxSeq \in Nat /\ Len(log) \in Nat /\ q \in Nat /\ cursor[s] \in Nat
    BY CrossShardAssumption DEF Seqs, ShardInv, Shape
<1>3. CASE ~ Advances(s, q, slice, d)
    <2>1. row' = row /\ cursor' = cursor /\ outcome' = outcome
        BY <1>3 DEF XshardCommit
    <2>2. Shape' /\ Grows
        BY <1>1, <2>1 DEF ShardInv, Shape, Grows
    <2>3. OneRowEach' /\ Outcomes' /\ Unique' /\ Steady'
        BY <1>1, <2>1 DEF ShardInv, OneRowEach, Outcomes, Unique, Steady
    <2> QED BY <1>2, <1>3, <2>1, <2>2, <2>3 DEF CommitOk, ShardInv
<1>4. CASE Advances(s, q, slice, d)
    <2>1. /\ cursor' = [cursor EXCEPT ![s] = q]
          /\ row' = [row EXCEPT ![s] = IF d THEN RunSlice(@, slice) ELSE @]
          /\ outcome' = [outcome EXCEPT ![s][q] = IF d THEN "applied" ELSE "skipped"]
        BY <1>4 DEF XshardCommit
    <2>2. q = cursor[s] + 1 /\ (d => RunSlice(row[s], slice) # "failed")
        BY <1>4 DEF Advances, SliceFails
    <2> HIDE DEF slice
    <2>3. Shape' /\ Grows
        BY <1>1, <1>2, <2>1, <2>2 DEF ShardInv, Shape, Grows
    <2>4. \A u \in Shards : cursor'[u] = IF u = s THEN q ELSE cursor[u]
        BY <2>1 DEF ShardInv, Shape
    <2>5. Outcomes'
        <3> SUFFICES ASSUME NEW u \in Shards, NEW p \in Seqs
                     PROVE /\ outcome'[u][p] # "none" <=> p <= cursor'[u]
                           /\ outcome'[u][p] = "applied" => Backs(log', vote', TRUE, p)
                           /\ outcome'[u][p] = "skipped" => Backs(log', vote', FALSE, p)
            BY DEF Outcomes
        <3>1. /\ outcome[u][p] # "none" <=> p <= cursor[u]
              /\ outcome[u][p] = "applied" => Backs(log, vote, TRUE, p)
              /\ outcome[u][p] = "skipped" => Backs(log, vote, FALSE, p)
            BY DEF ShardInv, Outcomes
        <3>2. outcome'[u][p] = IF u = s /\ p = q THEN IF d THEN "applied" ELSE "skipped"
                               ELSE outcome[u][p]
            BY <1>2, <2>1 DEF ShardInv, Shape
        <3>3. p \in Nat
            BY <1>2 DEF Seqs
        <3>4. outcome'[u][p] # "none" <=> p <= cursor'[u]
            BY <1>2, <2>2, <2>4, <3>1, <3>2, <3>3
        <3>5. CASE u = s /\ p = q
            <4>1. CASE d
                BY <1>1, <3>2, <3>4, <3>5, <4>1
            <4>2. CASE ~ d
                <5>1. d = FALSE
                    BY <4>2
                <5> QED BY <1>1, <3>2, <3>4, <3>5, <5>1
            <4> QED BY <4>1, <4>2
        <3>6. CASE ~ (u = s /\ p = q)
            <4>1. outcome'[u][p] = outcome[u][p]
                BY <3>2, <3>6
            <4> QED BY <1>1, <3>1, <3>4, <4>1
        <3> QED BY <3>5, <3>6
    <2>6. Unique' /\ OneRowEach'
        <3>1. OneRowEach'
            BY <2>1 DEF ShardInv, OneRowEach
        <3> QED BY <1>1, <3>1 DEF ShardInv, Unique
    <2>7. Steady'
        <3> SUFFICES ASSUME NEW u \in Shards
                     PROVE /\ row'[u] # "failed"
                           /\ \A p \in Seqs :
                                vote'[u][p] = "yes" /\ <<u, p>> \notin stale' /\ cursor'[u] < p
                                  => /\ cursor'[u] = p - 1 /\ p <= Len(log')
                                     /\ RunSlice(row'[u], Slices[log'[p]][u]) # "failed"
            BY DEF Steady
        <3>1. CASE u # s
            <4>1. cursor'[u] = cursor[u] /\ row'[u] = row[u]
                BY <2>1, <2>4, <3>1 DEF ShardInv, OneRowEach
            <4> QED BY <1>1, <4>1 DEF ShardInv, Steady
        <3>2. CASE u = s
            <4>1. row'[s] # "failed"
                BY <2>1, <2>2 DEF ShardInv, OneRowEach, Steady
            <4>2. \A p \in Seqs : cursor[s] + 1 < p /\ vote[s][p] = "yes" => <<s, p>> \in stale
                <5> SUFFICES ASSUME NEW p \in Seqs, cursor[s] + 1 < p, vote[s][p] = "yes",
                                    <<s, p>> \notin stale
                             PROVE FALSE
                    OBVIOUS
                <5>1. p \in Nat
                    BY <1>2 DEF Seqs
                <5>2. cursor[s] = p - 1
                    BY <1>2, <5>1 DEF ShardInv, Steady
                <5> QED BY <1>2, <5>1, <5>2
            <4> QED BY <1>1, <2>2, <2>4, <3>2, <4>1, <4>2
        <3> QED BY <3>1, <3>2
    <2> QED BY <1>2, <2>3, <2>4, <2>5, <2>6, <2>7 DEF ShardInv
<1> QED BY <1>3, <1>4

\* Op::SeqAppendOnce answers a number whose entry is the transaction.
LEMMA AppendKeeps ==
    ASSUME ShardInv, NEW t \in Txns, SeqAppendOnce(t)
    PROVE  /\ ShardInv' /\ Grows
           /\ Assigned(t) \in 1..Len(log') /\ log'[Assigned(t)] = t
<1>1. /\ row' = row /\ cursor' = cursor /\ vote' = vote /\ outcome' = outcome /\ stale' = stale
      /\ log' = IF Appended(t) = {} THEN Append(log, t) ELSE log
    BY DEF SeqAppendOnce, shards
<1>2. log \in Seq(Txns) /\ Len(log) \in Nat /\ Len(log) <= MaxSeq /\ MaxSeq \in Nat
    BY CrossShardAssumption DEF ShardInv, Shape
<1>3. CASE Appended(t) = {}
    <2>1. Len(log) < MaxSeq /\ log' = Append(log, t) /\ Assigned(t) = Len(log) + 1
        BY <1>1, <1>3 DEF SeqAppendOnce, Assigned
    <2>2. /\ log' \in Seq(Txns) /\ Len(log') = Len(log) + 1 /\ log'[Len(log) + 1] = t
          /\ \A q \in 1..Len(log) : log'[q] = log[q]
        BY <1>2, <2>1
    <2>3. Shape' /\ Grows
        <3>1. Len(log') <= MaxSeq /\ \A u \in Shards : cursor'[u] <= Len(log')
            BY <1>1, <1>2, <2>1, <2>2 DEF ShardInv, Shape
        <3>2. \A u \in Shards : cursor[u] \in Nat
            BY DEF ShardInv, Shape
        <3> QED BY <1>1, <1>2, <2>2, <3>1, <3>2 DEF ShardInv, Shape, Grows
    <2>4. Outcomes'
        <3> SUFFICES ASSUME NEW u \in Shards, NEW p \in Seqs
                     PROVE /\ outcome[u][p] # "none" <=> p <= cursor[u]
                           /\ outcome[u][p] = "applied" => Backs(log', vote', TRUE, p)
                           /\ outcome[u][p] = "skipped" => Backs(log', vote', FALSE, p)
            BY <1>1 DEF Outcomes
        <3>1. /\ outcome[u][p] # "none" <=> p <= cursor[u]
              /\ outcome[u][p] = "applied" => Backs(log, vote, TRUE, p)
              /\ outcome[u][p] = "skipped" => Backs(log, vote, FALSE, p)
            BY DEF ShardInv, Outcomes
        <3>2. p <= cursor[u] => p \in 1..Len(log)
            BY <1>2 DEF ShardInv, Shape, Seqs
        <3> QED BY <2>3, <3>1, <3>2, BacksStays DEF ShardInv
    <2>5. Unique'
        <3> SUFFICES ASSUME NEW p \in 1..Len(log'), NEW q \in 1..Len(log'),
                            log'[p] = log'[q], log'[p] \in Sessions
                     PROVE p = q
            BY DEF Unique
        <3>1. t \in Sessions => \A i \in 1..Len(log) : log[i] # t
            BY <1>2, <1>3 DEF Appended
        <3>2. \A i \in 1..Len(log') : i \in 1..Len(log) \/ i = Len(log) + 1
            BY <1>2, <2>2
        <3> QED BY <2>2, <3>1, <3>2 DEF ShardInv, Unique
    <2>6. Steady'
        <3> SUFFICES ASSUME NEW u \in Shards, NEW p \in Seqs, vote[u][p] = "yes",
                            <<u, p>> \notin stale, cursor[u] < p
                     PROVE /\ cursor[u] = p - 1 /\ p <= Len(log')
                           /\ RunSlice(row[u], Slices[log'[p]][u]) # "failed"
            BY <1>1 DEF Steady, ShardInv
        <3>1. /\ cursor[u] = p - 1 /\ p <= Len(log)
              /\ RunSlice(row[u], Slices[log[p]][u]) # "failed"
            BY DEF ShardInv, Steady
        <3>2. p \in 1..Len(log)
            BY <1>2, <3>1 DEF Seqs
        <3> QED BY <1>2, <2>2, <3>1, <3>2
    <2>7. OneRowEach'
        BY <1>1 DEF ShardInv, OneRowEach
    <2> QED BY <1>2, <2>1, <2>2, <2>3, <2>4, <2>5, <2>6, <2>7 DEF ShardInv
<1>4. CASE Appended(t) # {}
    <2>1. log' = log /\ Assigned(t) = Min(Appended(t))
        BY <1>1, <1>4 DEF Assigned
    <2>2. Appended(t) \subseteq {q \in 1..Len(log) : log[q] = t}
        BY <1>2 DEF Appended
    <2>3. Min(Appended(t)) \in Appended(t)
        BY <1>2, <1>4, <2>2, MinOfNaturals
    <2>4. Shape' /\ Grows
        BY <1>1, <2>1 DEF ShardInv, Shape, Grows
    <2>5. OneRowEach' /\ Outcomes' /\ Unique' /\ Steady'
        BY <1>1, <2>1 DEF ShardInv, OneRowEach, Outcomes, Unique, Steady
    <2> QED BY <2>1, <2>2, <2>3, <2>4, <2>5 DEF ShardInv
<1> QED BY <1>3, <1>4

\* A client's own write of a row makes the verdicts of its shard stale.
LEMMA PointWriteKeeps ==
    ASSUME ShardInv, NEW s \in Shared, NEW kind, PointWrite(s, kind)
    PROVE  ShardInv' /\ Grows
<1>1. /\ log' = log /\ cursor' = cursor /\ vote' = vote /\ outcome' = outcome
      /\ row' = [row EXCEPT ![s] = Effect(@, kind)] /\ Effect(row[s], kind) # "failed"
      /\ stale' = stale \cup {<<s, q>> : q \in {p \in Seqs : vote[s][p] # "none"}}
    BY DEF PointWrite
<1>2. s \in Shards
    BY CrossShardAssumption
<1>3. Shape' /\ Grows
    BY <1>1 DEF ShardInv, Shape, Grows
<1>4. OneRowEach' /\ Outcomes' /\ Unique'
    BY <1>1 DEF ShardInv, OneRowEach, Outcomes, Unique
<1>5. Steady'
    <2> SUFFICES ASSUME NEW u \in Shards
                 PROVE /\ row'[u] # "failed"
                       /\ \A p \in Seqs :
                            vote[u][p] = "yes" /\ <<u, p>> \notin stale' /\ cursor[u] < p
                              => /\ cursor[u] = p - 1 /\ p <= Len(log)
                                 /\ RunSlice(row'[u], Slices[log[p]][u]) # "failed"
        BY <1>1 DEF Steady
    <2>1. CASE u # s
        <3>1. row'[u] = row[u]
            BY <1>1, <2>1 DEF ShardInv, OneRowEach
        <3>2. \A p \in Seqs : <<u, p>> \notin stale' => <<u, p>> \notin stale
            BY <1>1
        <3> QED BY <3>1, <3>2 DEF ShardInv, Steady
    <2>2. CASE u = s
        <3>1. row'[s] # "failed"
            BY <1>1, <1>2 DEF ShardInv, OneRowEach
        <3>2. \A p \in Seqs : vote[s][p] = "yes" => <<s, p>> \in stale'
            BY <1>1
        <3> QED BY <2>2, <3>1, <3>2
    <2> QED BY <2>1, <2>2
<1> QED BY <1>3, <1>4, <1>5 DEF ShardInv

----------------------------------------------------------------------------
(* The router *)

\* The other routers' drives, the recoveries and the late calls stay in order
\* when one router's drive becomes j.
LEMMA DrivesKept ==
    ASSUME Shape, Shape', Grows, Drives, NEW r \in Routers, NEW j \in Jobs,
           DriveOK(log', vote', cursor', j), job' = [job EXCEPT ![r] = j],
           upto' \in [Routers -> Nat], \A x \in Routers : upto'[x] <= Len(log'),
           late' \subseteq Calls,
           \A c \in late' \ late : CallOK(log', vote', c)
    PROVE  Drives'
<1>1. job' \in [Routers -> Jobs]
    BY DEF Drives
<1>2. \A x \in Routers : DriveOK(log', vote', cursor', job'[x])
    <2> TAKE x \in Routers
    <2>1. CASE x = r
        BY <2>1 DEF Drives
    <2>2. CASE x # r
        <3>1. job'[x] = job[x] /\ job[x] \in Jobs /\ DriveOK(log, vote, cursor, job[x])
            BY <2>2 DEF Drives
        <3> QED BY <3>1, DriveStays
    <2> QED BY <2>1, <2>2
<1>3. \A c \in late' : CallOK(log', vote', c)
    <2> TAKE c \in late'
    <2>1. CASE c \in late
        <3>1. CallOK(log, vote, c) /\ c.decision \in BOOLEAN
            BY <2>1 DEF Drives, Calls
        <3> QED BY <3>1, CallStays
    <2> QED BY <2>1
<1> QED BY <1>1, <1>2, <1>3 DEF Drives

\* recover waits for no more than the log has, also after the log has grown.
LEMMA UptoKept ==
    ASSUME Shape, Shape', Grows, Drives, upto' = upto
    PROVE  upto' \in [Routers -> Nat] /\ \A x \in Routers : upto'[x] <= Len(log')
<1>1. Len(log) \in Nat /\ Len(log') \in Nat /\ Len(log) <= Len(log')
    BY DEF Shape, Grows
<1>2. \A x \in Routers : upto[x] \in Nat /\ upto[x] <= Len(log)
    BY DEF Drives
<1> QED BY <1>1, <1>2 DEF Drives

\* No drive is in order, and so is a drive that begins.
LEMMA IdleOK == Idle \in Jobs /\ ~ (Idle.phase = "append") /\ \A lg, vt, cu : DriveOK(lg, vt, cu, Idle)
BY CrossShardAssumption DEF Idle, Jobs, DriveOK, CallOK

LEMMA DriveBegins ==
    ASSUME NEW lg \in Seq(Txns), Len(lg) <= MaxSeq, NEW vt, NEW cu, NEW q \in 1..Len(lg),
           NEW last \in Nat, q <= last, last <= Len(lg), NEW txn \in Txns \cup {NoTxn}
    PROVE  /\ Drive(lg[q], q, last, txn) \in Jobs
           /\ DriveOK(lg, vt, cu, Drive(lg[q], q, last, txn))
<1> DEFINE d == Drive(lg[q], q, last, txn)
           p == Participant(lg[q], 1)
<1>1. lg[q] \in Txns /\ Len(lg) \in Nat /\ MaxSeq \in Nat /\ K \in Nat
    <2>1. MaxSeq \in Nat /\ K \in Nat
        BY CrossShardAssumption
    <2> QED BY <2>1
<1>2. /\ p \in Shards /\ Slices[lg[q]][p] # <<>>
      /\ \A i \in Shards : i < p => Slices[lg[q]][i] = <<>>
    BY <1>1, FirstParticipant
<1>3. /\ d.phase = "decide" /\ d.txn = txn /\ d.seq = q /\ d.last = last
      /\ d.shard = p /\ d.decision = TRUE
    BY DEF Drive
<1>4. d \in Jobs
    BY <1>1, <1>2 DEF Drive, Jobs, Shards
<1> HIDE DEF d, p
<1>5. DriveOK(lg, vt, cu, d)
    BY <1>2, <1>3 DEF DriveOK, CallOK, Takes
<1> QED BY <1>4, <1>5 DEF d

LEMMA SubmitKeeps ==
    ASSUME Inv, NEW r \in Routers, NEW t \in Txns, Submit(r, t)
    PROVE  Inv'
<1> DEFINE j == [Idle EXCEPT !.phase = "append", !.txn = t]
<1>1. /\ log' = log /\ row' = row /\ cursor' = cursor /\ vote' = vote
      /\ outcome' = outcome /\ stale' = stale
      /\ upto' = upto /\ late' = late /\ answers' = answers /\ job' = [job EXCEPT ![r] = j]
    BY DEF Submit, shards
<1>2. ShardInv'
    <2>1. Shape'
        BY <1>1 DEF Inv, ShardInv, Shape
    <2> QED BY <1>1, <2>1 DEF Inv, ShardInv, OneRowEach, Outcomes, Unique, Steady
<1>3. Grows
    BY <1>1 DEF Grows, Inv, ShardInv, Shape
<1>4. j \in Jobs
    BY IdleOK DEF Jobs
<1>5. DriveOK(log', vote', cursor', j)
    BY DEF Idle, DriveOK, CallOK
<1> HIDE DEF j
<1>6. Drives'
    BY <1>1, <1>2, <1>3, <1>4, <1>5, UptoKept, DrivesKept DEF Inv, ShardInv, Drives
<1> QED BY <1>1, <1>2, <1>3, <1>6, AnsweredStays DEF Inv, ShardInv

LEMMA SequenceStepKeeps ==
    ASSUME Inv, NEW r \in Routers, SequenceStep(r)
    PROVE  Inv'
<1> DEFINE t == job[r].txn
           j == Drive(t, Assigned(t), Assigned(t), t)
<1>1. /\ job[r].phase = "append" /\ SeqAppendOnce(t)
      /\ job' = [job EXCEPT ![r] = j] /\ upto' = upto /\ late' = late /\ answers' = answers
    BY DEF SequenceStep
<1>2. t \in Txns
    BY <1>1 DEF Inv, Drives, DriveOK, CallOK
<1>3. /\ ShardInv' /\ Grows
      /\ Assigned(t) \in 1..Len(log') /\ log'[Assigned(t)] = t
    <2> HIDE DEF t
    <2> QED BY <1>1, <1>2, AppendKeeps DEF Inv
<1>4. log' \in Seq(Txns) /\ Len(log') <= MaxSeq
    BY <1>3 DEF ShardInv, Shape
<1>5. j \in Jobs /\ DriveOK(log', vote', cursor', j)
    <2>1. Assigned(t) \in Nat /\ Assigned(t) <= Len(log') /\ Assigned(t) <= Assigned(t)
        BY <1>3, <1>4
    <2> HIDE DEF t
    <2> QED BY <1>2, <1>3, <1>4, <2>1, DriveBegins
<1> HIDE DEF j
<1>6. Drives'
    BY <1>1, <1>3, <1>5, UptoKept, DrivesKept DEF Inv, ShardInv, Drives
<1> QED BY <1>1, <1>3, <1>6, AnsweredStays DEF Inv, ShardInv

\* Phase 1 ends with a backed decision, and until then has what it needs.
LEMMA DecideStepKeeps ==
    ASSUME Inv, NEW r \in Routers, DecideStep(r)
    PROVE  Inv'
<1> DEFINE j == job[r]
           q == j.seq
           s == j.shard
           slice == Slices[log[q]][s]
           next == Participant(log[q], s + 1)
           decision == j.decision /\ Verdict(s, q, slice) = "yes"
           onward == [j EXCEPT !.shard = next, !.decision = decision]
           turn == [j EXCEPT !.phase = "commit", !.shard = 1, !.decision = decision]
           new == IF next <= K THEN onward ELSE turn
<1>1. /\ j.phase = "decide" /\ XshardDecide(s, q, slice)
      /\ job' = [job EXCEPT ![r] = new] /\ upto' = upto /\ late' = late /\ answers' = answers
    BY DEF DecideStep
<1>2. j \in Jobs /\ DriveOK(log, vote, cursor, j)
    BY DEF Inv, Drives
<1>3. q \in 1..Len(log) /\ s \in Shards /\ j.last \in Nat /\ j.decision \in BOOLEAN
      /\ q <= j.last /\ j.last <= Len(log) /\ Takes(log, s, q)
    BY <1>1, <1>2, CrossShardAssumption DEF DriveOK, CallOK, Jobs
<1>4. IF j.decision THEN \A u \in Shards : u < s /\ Takes(log, u, q) => vote[u][q] = "yes"
      ELSE Backs(log, vote, FALSE, q)
    BY <1>1, <1>2 DEF DriveOK
<1>5. /\ log' = log /\ cursor' = cursor
      /\ log \in Seq(Txns) /\ Len(log) \in Nat /\ MaxSeq \in Nat /\ Len(log) <= MaxSeq
      /\ K \in Nat /\ 1 <= K /\ log[q] \in Txns /\ s \in Nat /\ q \in Seqs
    <2>1. K \in Nat \ {0} /\ MaxSeq \in Nat
        BY CrossShardAssumption
    <2>2. log \in Seq(Txns) /\ Len(log) <= MaxSeq /\ log' = log /\ cursor' = cursor
        BY <1>1 DEF Inv, ShardInv, Shape, XshardDecide
    <2> QED BY <1>3, <2>1, <2>2 DEF Shards, Seqs
<1> HIDE DEF j
<1>6. /\ ShardInv' /\ Grows
      /\ Verdict(s, q, slice) \in {"yes", "no"} /\ vote'[s][q] = Verdict(s, q, slice)
    <2> HIDE DEF q, s
    <2> QED BY <1>1, <1>3, DecideKeeps DEF Inv
<1>7. /\ next \in Nat /\ next <= K + 1 /\ (next <= K => next >= s + 1)
      /\ next <= K => Slices[log[q]][next] # <<>>
      /\ \A i \in Shards : i >= s + 1 /\ i < next => Slices[log[q]][i] = <<>>
    <2> HIDE DEF q, s
    <2>1. s + 1 \in Nat \ {0}
        BY <1>5
    <2> QED BY <1>5, <2>1, NextParticipant
<1> HIDE DEF next, slice
<1>8. decision => \A u \in Shards : u < next /\ Takes(log', u, q) => vote'[u][q] = "yes"
    <2> SUFFICES ASSUME decision, NEW u \in Shards, u < next, Takes(log, u, q)
                 PROVE  vote'[u][q] = "yes"
        BY <1>5
    <2>1. CASE u < s
        BY <1>4, <1>5, <1>6, <2>1 DEF Grows
    <2>2. CASE u = s
        BY <1>6, <2>2
    <2>3. CASE u > s
        <3>1. u >= s + 1
            BY <1>5, <2>3 DEF Shards
        <3> QED BY <1>7, <3>1 DEF Takes
    <2> QED BY <1>5, <2>1, <2>2, <2>3 DEF Shards
<1>9. ~ decision => Backs(log', vote', FALSE, q)
    <2>1. CASE j.decision /\ Verdict(s, q, slice) = "no"
        BY <1>3, <1>5, <1>6, <2>1 DEF Backs
    <2>2. CASE ~ j.decision
        BY <1>3, <1>4, <1>6, <2>2, BacksStays DEF Inv, ShardInv
    <2> QED BY <1>3, <1>6, <2>1, <2>2
<1>10. decision \in BOOLEAN
    BY <1>3
<1> HIDE DEF decision
<1>11. CASE next <= K
    <2>1. next \in Shards
        BY <1>5, <1>7, <1>11 DEF Shards
    <2>2. onward \in Jobs
        <3>1. next \in 0..K
            BY <1>5, <1>7, <1>11
        <3> QED BY <1>2, <1>10, <3>1 DEF Jobs
    <2>3. /\ onward.phase = "decide" /\ onward.seq = q /\ onward.last = j.last
          /\ onward.shard = next /\ onward.decision = decision
        BY <1>1, <1>2 DEF Jobs
    <2> HIDE DEF onward
    <2>4. Takes(log', next, q)
        BY <1>5, <1>7, <1>11 DEF Takes
    <2>5. DriveOK(log', vote', cursor', onward)
        BY <1>3, <1>5, <1>8, <1>9, <1>10, <2>1, <2>3, <2>4 DEF DriveOK, CallOK
    <2>6. job' = [job EXCEPT ![r] = onward]
        BY <1>1, <1>11
    <2>7. Drives'
        BY <1>1, <1>6, <2>2, <2>5, <2>6, UptoKept, DrivesKept DEF Inv, ShardInv, Drives
    <2> QED BY <1>1, <1>6, <2>7, AnsweredStays DEF Inv, ShardInv
<1>12. CASE ~ (next <= K)
    <2>1. next = K + 1
        BY <1>5, <1>7, <1>12
    <2>2. Backs(log', vote', decision, q)
        <3>1. \A u \in Shards : u < next
            BY <1>5, <2>1 DEF Shards
        <3>2. CASE decision
            <4>1. decision = TRUE
                BY <3>2, <1>10
            <4> QED BY <1>8, <3>1, <4>1 DEF Backs
        <3>3. CASE ~ decision
            <4>1. decision = FALSE
                BY <3>3, <1>10
            <4> QED BY <1>9, <4>1
        <3> QED BY <3>2, <3>3
    <2>3. turn \in Jobs
        <3>1. 1 \in 0..K
            BY <1>5
        <3> QED BY <1>2, <1>10, <3>1 DEF Jobs
    <2>4. /\ turn.phase = "commit" /\ turn.seq = q /\ turn.last = j.last
          /\ turn.shard = 1 /\ turn.decision = decision
        BY <1>2 DEF Jobs
    <2> HIDE DEF turn
    <2>5. 1 \in Shards /\ \A u \in Shards : ~ (u < 1)
        BY <1>5 DEF Shards
    <2>6. DriveOK(log', vote', cursor', turn)
        BY <1>3, <1>5, <2>2, <2>4, <2>5 DEF DriveOK, CallOK
    <2>7. job' = [job EXCEPT ![r] = turn]
        BY <1>1, <1>12
    <2>8. Drives'
        BY <1>1, <1>6, <2>3, <2>6, <2>7, UptoKept, DrivesKept DEF Inv, ShardInv, Drives
    <2> QED BY <1>1, <1>6, <2>8, AnsweredStays DEF Inv, ShardInv
<1> QED BY <1>11, <1>12

\* Phase 2 passes the shards in order with the one decision, and answers when
\* all have passed.
LEMMA CommitStepKeeps ==
    ASSUME Inv, NEW r \in Routers, CommitStep(r)
    PROVE  Inv'
<1> DEFINE j == job[r]
           q == j.seq
           s == j.shard
           slice == Slices[log[q]][s]
           ok == CommitOk(s, q, slice, j.decision)
           done == ok /\ s = K
           onward == [j EXCEPT !.shard = @ + 1]
           another == Drive(log[q + 1], q + 1, j.last, NoTxn)
           new == IF ~ ok \/ (done /\ q = j.last) THEN Idle
                  ELSE IF done THEN another ELSE onward
<1>1. /\ j.phase = "commit" /\ XshardCommit(s, q, slice, j.decision)
      /\ job' = [job EXCEPT ![r] = new] /\ upto' = upto /\ late' = late
      /\ answers' = IF done /\ j.txn # NoTxn THEN answers \cup {Reply(j)} ELSE answers
    BY DEF CommitStep
<1>2. j \in Jobs /\ DriveOK(log, vote, cursor, j)
    BY DEF Inv, Drives
<1>3. /\ q \in 1..Len(log) /\ s \in Shards /\ j.last \in Nat /\ j.decision \in BOOLEAN
      /\ q <= j.last /\ j.last <= Len(log) /\ Backs(log, vote, j.decision, q)
      /\ \A u \in Shards : u < s => cursor[u] >= q
    BY <1>1, <1>2, CrossShardAssumption DEF DriveOK, CallOK, Jobs
<1>4. /\ log' = log /\ vote' = vote
      /\ log \in Seq(Txns) /\ Len(log) \in Nat /\ MaxSeq \in Nat /\ Len(log) <= MaxSeq
      /\ K \in Nat /\ 1 <= K /\ s \in Nat /\ q \in Nat /\ q \in Seqs
    <2>1. K \in Nat \ {0} /\ MaxSeq \in Nat
        BY CrossShardAssumption
    <2>2. log \in Seq(Txns) /\ Len(log) <= MaxSeq /\ log' = log /\ vote' = vote
        BY <1>1 DEF Inv, ShardInv, Shape, XshardCommit
    <2> QED BY <1>3, <2>1, <2>2 DEF Shards, Seqs
<1> HIDE DEF j
<1>5. ShardInv' /\ Grows /\ (ok => cursor'[s] >= q)
    <2> HIDE DEF q, s
    <2> QED BY <1>1, <1>3, CommitKeeps DEF Inv
<1> HIDE DEF ok, slice
<1>6. ok => \A u \in Shards : u < s + 1 => cursor'[u] >= q
    <2> SUFFICES ASSUME ok, NEW u \in Shards, u < s + 1 PROVE cursor'[u] >= q
        OBVIOUS
    <2>1. CASE u = s
        BY <1>5, <2>1
    <2>2. CASE u < s
        <3>1. cursor[u] \in Nat /\ cursor'[u] \in Nat /\ cursor[u] <= cursor'[u] /\ cursor[u] >= q
            BY <1>3, <1>5, <2>2 DEF Inv, ShardInv, Shape, Grows
        <3> QED BY <1>4, <3>1
    <2> QED BY <1>4, <2>1, <2>2 DEF Shards
<1>7. new \in Jobs /\ DriveOK(log', vote', cursor', new)
    <2>1. CASE ~ ok \/ (done /\ q = j.last)
        BY <2>1, IdleOK
    <2>2. CASE done /\ q # j.last
        <3>1. q + 1 \in 1..Len(log) /\ q + 1 <= j.last
            BY <1>3, <1>4, <2>2
        <3>2. another \in Jobs /\ DriveOK(log', vote', cursor', another)
            BY <1>3, <1>4, <3>1, DriveBegins
        <3> QED BY <2>2, <3>2
    <2>3. CASE ok /\ s # K
        <3>1. s + 1 \in Shards
            BY <1>3, <1>4, <2>3 DEF Shards
        <3>2. onward \in Jobs
            BY <1>2, <1>4, <3>1 DEF Jobs, Shards
        <3>3. /\ onward.phase = "commit" /\ onward.seq = q /\ onward.last = j.last
              /\ onward.shard = s + 1 /\ onward.decision = j.decision
            BY <1>1, <1>2 DEF Jobs
        <3> HIDE DEF onward
        <3>4. DriveOK(log', vote', cursor', onward)
            BY <1>3, <1>4, <1>6, <2>3, <3>1, <3>3 DEF DriveOK, CallOK
        <3> QED BY <2>3, <3>2, <3>4
    <2> QED BY <2>1, <2>2, <2>3
<1> HIDE DEF new
<1>8. Drives'
    BY <1>1, <1>5, <1>7, UptoKept, DrivesKept DEF Inv, ShardInv, Drives
<1>9. Answered'
    <2>1. CASE ~ (done /\ j.txn # NoTxn)
        BY <1>1, <1>5, <2>1, AnsweredStays DEF Inv, ShardInv
    <2>2. CASE done /\ j.txn # NoTxn
        <3> DEFINE a == Reply(j)
        <3>1. answers' = answers \cup {a}
            BY <1>1, <2>2
        <3>2. a.seq = q /\ a.result = (IF j.decision THEN "ok" ELSE "aborted")
            BY DEF Reply
        <3>3. a \in [txn : Txns, seq : Seqs, result : {"ok", "aborted"}]
            BY <1>2, <1>4, <2>2 DEF Reply, Jobs
        <3> HIDE DEF a
        <3>4. Backs(log', vote', a.result = "ok", a.seq)
            <4>1. (a.result = "ok") = j.decision
                BY <1>3, <3>2
            <4> QED BY <1>3, <1>4, <3>2, <4>1
        <3>5. \A u \in Shards : cursor'[u] >= a.seq
            BY <1>4, <1>6, <2>2, <3>2 DEF Shards
        <3>6. a.seq <= Len(log')
            BY <1>3, <1>4, <3>2
        <3>7. \A b \in answers : /\ b.seq <= Len(log')
                                 /\ Backs(log', vote', b.result = "ok", b.seq)
                                 /\ \A u \in Shards : cursor'[u] >= b.seq
            <4> TAKE b \in answers
            <4>1. b.seq \in Seqs /\ b.seq <= Len(log) /\ Backs(log, vote, b.result = "ok", b.seq)
                BY DEF Inv, Answered
            <4>2. \A u \in Shards : cursor'[u] >= b.seq
                <5> TAKE u \in Shards
                <5>1. /\ cursor[u] \in Nat /\ cursor'[u] \in Nat /\ cursor[u] <= cursor'[u]
                      /\ cursor[u] >= b.seq
                    BY <1>5 DEF Inv, Answered, ShardInv, Shape, Grows
                <5>2. b.seq \in Nat
                    BY <1>4, <4>1 DEF Seqs
                <5> QED BY <5>1, <5>2
            <4> QED BY <1>4, <4>1, <4>2
        <3> QED BY <3>1, <3>3, <3>4, <3>5, <3>6, <3>7 DEF Inv, Answered
    <2> QED BY <2>1, <2>2
<1> QED BY <1>5, <1>8, <1>9 DEF Inv

\* The steps that touch no shard.
LEMMA ShardsUntouched ==
    ASSUME ShardInv, log' = log, row' = row, cursor' = cursor, vote' = vote,
           outcome' = outcome, stale' = stale
    PROVE  ShardInv' /\ Grows
<1>1. Shape' /\ Grows
    BY DEF ShardInv, Shape, Grows
<1>2. OneRowEach' /\ Outcomes' /\ Unique' /\ Steady'
    BY DEF ShardInv, OneRowEach, Outcomes, Unique, Steady
<1> QED BY <1>1, <1>2 DEF ShardInv

LEMMA RecoverKeeps ==
    ASSUME Inv, NEW r \in Routers, RecoverRead(r) \/ RecoverDrive(r)
    PROVE  Inv'
<1>1. /\ log' = log /\ row' = row /\ cursor' = cursor /\ vote' = vote
      /\ outcome' = outcome /\ stale' = stale /\ late' = late /\ answers' = answers
    BY DEF RecoverRead, RecoverDrive, shards
<1>2. ShardInv' /\ Grows
    BY <1>1, ShardsUntouched DEF Inv
<1>3. Answered'
    BY <1>1, <1>2, AnsweredStays DEF Inv, ShardInv
<1>4. Len(log) \in Nat /\ log \in Seq(Txns) /\ Len(log) <= MaxSeq
    BY DEF Inv, ShardInv, Shape
<1>5. CASE RecoverRead(r)
    <2>1. job' = job /\ upto' = [upto EXCEPT ![r] = Len(log)]
        BY <1>5 DEF RecoverRead
    <2>2. upto' \in [Routers -> Nat] /\ \A x \in Routers : upto'[x] <= Len(log')
        BY <1>1, <1>4, <2>1 DEF Inv, Drives
    <2>3. job' = [job EXCEPT ![r] = job[r]] /\ job[r] \in Jobs /\ DriveOK(log', vote', cursor', job[r])
        BY <1>1, <2>1 DEF Inv, Drives
    <2>4. Drives'
        BY <1>1, <1>2, <2>2, <2>3, DrivesKept DEF Inv, ShardInv, Drives
    <2> QED BY <1>2, <1>3, <2>4 DEF Inv
<1>6. CASE RecoverDrive(r)
    <2> DEFINE j == Drive(log[1], 1, upto[r], NoTxn)
    <2>1. upto[r] > 0 /\ job' = [job EXCEPT ![r] = j] /\ upto' = [upto EXCEPT ![r] = 0]
        BY <1>6 DEF RecoverDrive
    <2>2. upto[r] \in Nat /\ upto[r] <= Len(log)
        BY DEF Inv, Drives
    <2>3. 1 \in 1..Len(log) /\ 1 <= upto[r]
        BY <1>4, <2>1, <2>2
    <2>4. j \in Jobs /\ DriveOK(log', vote', cursor', j)
        BY <1>1, <1>4, <2>2, <2>3, DriveBegins
    <2>5. upto' \in [Routers -> Nat] /\ \A x \in Routers : upto'[x] <= Len(log')
        BY <1>1, <1>4, <2>1 DEF Inv, Drives
    <2> HIDE DEF j
    <2>6. Drives'
        BY <1>1, <1>2, <2>1, <2>4, <2>5, DrivesKept DEF Inv, ShardInv, Drives
    <2> QED BY <1>2, <1>3, <2>6 DEF Inv
<1> QED BY <1>5, <1>6

\* What a drive leaves behind when it is cut off is in order.
LEMMA AbandonKeeps ==
    ASSUME Inv, NEW r \in Routers, Abandon(r)
    PROVE  Inv'
<1> DEFINE j == job[r]
           c == Call(j)
<1>1. /\ log' = log /\ row' = row /\ cursor' = cursor /\ vote' = vote
      /\ outcome' = outcome /\ stale' = stale /\ answers' = answers
      /\ j # Idle /\ job' = [job EXCEPT ![r] = Idle] /\ late' = late \cup {c}
      /\ \E u \in {0, upto[r]} : upto' = [upto EXCEPT ![r] = u]
    BY DEF Abandon, shards
<1>2. ShardInv' /\ Grows
    BY <1>1, ShardsUntouched DEF Inv
<1>3. Answered'
    BY <1>1, <1>2, AnsweredStays DEF Inv, ShardInv
<1>4. upto' \in [Routers -> Nat] /\ \A x \in Routers : upto'[x] <= Len(log')
    <2>1. Len(log) \in Nat
        BY DEF Inv, ShardInv, Shape
    <2> QED BY <1>1, <2>1 DEF Inv, Drives
<1>5. j \in Jobs /\ DriveOK(log, vote, cursor, j)
    BY DEF Inv, Drives
<1>6. c.phase = j.phase /\ c.txn = j.txn /\ c.seq = j.seq /\ c.shard = j.shard
      /\ c.decision = j.decision
    BY DEF Call
<1>7. CASE j.phase # "idle"
    <2>1. c \in Calls
        BY <1>5, <1>7 DEF Call, Calls, Jobs
    <2> HIDE DEF j, c
    <2>2. CallOK(log', vote', c)
        BY <1>1, <1>5, <1>6 DEF DriveOK, CallOK
    <2>3. late' \subseteq Calls /\ \A d \in late' \ late : CallOK(log', vote', d)
        BY <1>1, <2>1, <2>2 DEF Inv, Drives
    <2>4. Drives'
        BY <1>1, <1>2, <1>4, <2>3, IdleOK, DrivesKept DEF Inv, ShardInv
    <2> QED BY <1>2, <1>3, <2>4 DEF Inv
<1>8. CASE j.phase = "idle"
    BY <1>1, <1>5, <1>8 DEF DriveOK
<1> QED BY <1>7, <1>8

\* A call that is executed late does what it would have done in time.
LEMMA ExecuteLateKeeps ==
    ASSUME Inv, NEW c \in late, ExecuteLate(c)
    PROVE  Inv'
<1>1. /\ late' = late \ {c} /\ job' = job /\ upto' = upto /\ answers' = answers
      /\ CASE c.phase = "append" -> SeqAppendOnce(c.txn)
           [] c.phase = "decide" -> XshardDecide(c.shard, c.seq, Slices[log[c.seq]][c.shard])
           [] c.phase = "commit" ->
                 XshardCommit(c.shard, c.seq, Slices[log[c.seq]][c.shard], c.decision)
    BY DEF ExecuteLate, routers
<1>2. c \in Calls /\ CallOK(log, vote, c)
    BY DEF Inv, Drives
<1>3. c.phase \in {"append", "decide", "commit"} /\ c.decision \in BOOLEAN
    BY <1>2 DEF Calls
<1>4. ShardInv' /\ Grows
    <2>1. CASE c.phase = "append"
        BY <1>1, <1>2, <2>1, AppendKeeps DEF Inv, CallOK
    <2>2. CASE c.phase = "decide"
        BY <1>1, <1>2, <2>2, DecideKeeps DEF Inv, CallOK
    <2>3. CASE c.phase = "commit"
        BY <1>1, <1>2, <1>3, <2>3, CommitKeeps DEF Inv, CallOK
    <2> QED BY <1>3, <2>1, <2>2, <2>3
<1>5. Answered'
    BY <1>1, <1>4, AnsweredStays DEF Inv, ShardInv
<1>6. Drives'
    <2>1. \A r \in Routers : DriveOK(log', vote', cursor', job'[r])
        BY <1>1, <1>4, DriveStays DEF Inv, ShardInv, Drives
    <2>2. \A d \in late' : CallOK(log', vote', d)
        BY <1>1, <1>4, CallStays DEF Inv, ShardInv, Drives, Calls
    <2>3. upto' \in [Routers -> Nat] /\ \A x \in Routers : upto'[x] <= Len(log')
        BY <1>1, <1>4, UptoKept DEF Inv, ShardInv
    <2> QED BY <1>1, <2>1, <2>2, <2>3 DEF Inv, Drives
<1> QED BY <1>4, <1>5, <1>6 DEF Inv

----------------------------------------------------------------------------
(* The theorems *)

\* Inv is an invariant: every operation of a shard or the sequencer, in a drive
\* or late, keeps it.
THEOREM Invariant == Spec => []Inv
<1>1. Init => Inv
    <2> SUFFICES ASSUME Init PROVE Inv
        OBVIOUS
    <2>1. MaxSeq \in Nat /\ K \in Nat /\ InitRow \in [Shards -> {"absent", "present"}]
        BY CrossShardAssumption
    <2>2. Shape /\ Unique
        BY <2>1 DEF Init, Shape, Unique
    <2>3. Outcomes
        BY <2>1 DEF Init, Outcomes, Seqs
    <2>4. OneRowEach
        BY <2>1 DEF Init, OneRowEach
    <2>5. Steady
        BY <2>1 DEF Init, Steady, Seqs
    <2>6. Drives
        BY <2>1, IdleOK DEF Init, Drives
    <2> QED BY <2>2, <2>3, <2>4, <2>5, <2>6 DEF Inv, ShardInv, Answered, Init
<1>2. Inv /\ [Next]_vars => Inv'
    <2> SUFFICES ASSUME Inv, [Next]_vars PROVE Inv'
        OBVIOUS
    <2>1. ASSUME NEW r \in Routers, NEW t \in Txns, Submit(r, t) PROVE Inv'
        BY <2>1, SubmitKeeps
    <2>2. ASSUME NEW r \in Routers, SequenceStep(r) PROVE Inv'
        BY <2>2, SequenceStepKeeps
    <2>3. ASSUME NEW r \in Routers, DecideStep(r) PROVE Inv'
        BY <2>3, DecideStepKeeps
    <2>4. ASSUME NEW r \in Routers, CommitStep(r) PROVE Inv'
        BY <2>4, CommitStepKeeps
    <2>5. ASSUME NEW r \in Routers, Abandon(r) PROVE Inv'
        BY <2>5, AbandonKeeps
    <2>6. ASSUME NEW r \in Restarted, RecoverRead(r) \/ RecoverDrive(r) PROVE Inv'
        <3>1. r \in Routers
            BY <2>6, CrossShardAssumption
        <3> QED BY <2>6, <3>1, RecoverKeeps
    <2>7. ASSUME NEW c \in late, ExecuteLate(c) PROVE Inv'
        BY <2>7, ExecuteLateKeeps
    <2>8. ASSUME NEW s \in Shared, NEW kind \in Kinds, PointWrite(s, kind) PROVE Inv'
        <3>1. ShardInv' /\ Grows
            BY <2>8, PointWriteKeeps DEF Inv
        <3>2. /\ log' = log /\ vote' = vote /\ cursor' = cursor
              /\ late' = late /\ job' = job /\ upto' = upto /\ answers' = answers
            BY <2>8 DEF PointWrite, routers
        <3>3. Drives'
            BY <3>2 DEF Inv, Drives
        <3> QED BY <3>1, <3>2, <3>3, AnsweredStays DEF Inv, ShardInv
    <2>9. CASE UNCHANGED vars
        <3>1. /\ log' = log /\ row' = row /\ cursor' = cursor /\ vote' = vote
              /\ outcome' = outcome /\ stale' = stale
              /\ late' = late /\ job' = job /\ upto' = upto /\ answers' = answers
            BY <2>9 DEF vars, shards, routers
        <3>2. ShardInv' /\ Grows
            BY <3>1, ShardsUntouched DEF Inv
        <3>3. Drives'
            BY <3>1 DEF Inv, Drives
        <3> QED BY <3>1, <3>2, <3>3, AnsweredStays DEF Inv, ShardInv
    <2> QED BY <2>1, <2>2, <2>3, <2>4, <2>5, <2>6, <2>7, <2>8, <2>9 DEF Next
<1> QED BY <1>1, <1>2, PTL DEF Spec

\* No two shards ever do different things with one number (drive_seq), whichever
\* routers, late calls and clients there are.
THEOREM DecidedOnce == Spec => []OneDecision
<1>1. Inv => OneDecision
    <2> SUFFICES ASSUME Inv, NEW q \in Seqs, NEW s \in Shards, NEW u \in Shards,
                        outcome[s][q] # "none", outcome[u][q] # "none",
                        outcome[s][q] # outcome[u][q]
                 PROVE  FALSE
        BY DEF OneDecision
    <2>1. outcome[s][q] \in {"none", "applied", "skipped"} /\ outcome[u][q] \in {"none", "applied", "skipped"}
        BY DEF Inv, ShardInv, Shape
    <2>2. Backs(log, vote, TRUE, q) /\ Backs(log, vote, FALSE, q)
        BY <2>1 DEF Inv, ShardInv, Outcomes
    <2> QED BY <2>2, BackedOneWay
<1> QED BY <1>1, Invariant, PTL

\* What a client was told (commit_cross_shard) is what every shard did.
THEOREM AnswersHold == Spec => []AnswerHonest
<1>1. Inv => AnswerHonest
    <2> SUFFICES ASSUME Inv, NEW a \in answers, NEW s \in Shards
                 PROVE  outcome[s][a.seq] = IF a.result = "ok" THEN "applied" ELSE "skipped"
        BY DEF AnswerHonest
    <2>1. /\ a.seq \in Seqs /\ cursor[s] >= a.seq /\ Backs(log, vote, a.result = "ok", a.seq)
          /\ a.result \in {"ok", "aborted"}
        BY DEF Inv, Answered
    <2>2. MaxSeq \in Nat /\ a.seq \in Nat /\ cursor[s] \in Nat
        BY <2>1, CrossShardAssumption DEF Inv, ShardInv, Shape, Seqs
    <2>3. outcome[s][a.seq] \in {"applied", "skipped"}
        <3>1. a.seq <= cursor[s]
            BY <2>1, <2>2
        <3>2. outcome[s][a.seq] # "none"
            BY <2>1, <3>1 DEF Inv, ShardInv, Outcomes
        <3> QED BY <2>1, <3>2 DEF Inv, ShardInv, Shape
    <2>4. /\ outcome[s][a.seq] = "applied" => Backs(log, vote, TRUE, a.seq)
          /\ outcome[s][a.seq] = "skipped" => Backs(log, vote, FALSE, a.seq)
        BY <2>1 DEF Inv, ShardInv, Outcomes
    <2>5. CASE a.result = "ok"
        <3>1. Backs(log, vote, TRUE, a.seq)
            BY <2>1, <2>5
        <3> QED BY <2>3, <2>4, <2>5, <3>1, BackedOneWay
    <2>6. CASE a.result = "aborted"
        <3>1. (a.result = "ok") = FALSE
            BY <2>6
        <3>2. Backs(log, vote, FALSE, a.seq)
            BY <2>1, <3>1
        <3> QED BY <2>3, <2>4, <2>6, <3>2, BackedOneWay
    <2> QED BY <2>1, <2>5, <2>6
<1> QED BY <1>1, Invariant, PTL

\* A session transaction is applied at most once on a shard, however often it is
\* submitted: SeqAppendOnce gives it one number.
THEOREM SessionsOnce == Spec => []AppliedOnce
<1>1. Inv => AppliedOnce
    <2> SUFFICES ASSUME Inv, NEW t \in Sessions, NEW s \in Shards
                 PROVE  Cardinality({q \in DOMAIN log : log[q] = t /\ outcome[s][q] = "applied"}) <= 1
        BY DEF AppliedOnce
    <2> DEFINE A == {q \in DOMAIN log : log[q] = t /\ outcome[s][q] = "applied"}
    <2>1. \A p, q \in A : p = q
        BY DEF Inv, ShardInv, Shape, Unique
    <2> HIDE DEF A
    <2>2. CASE A = {}
        BY <2>2, FS_EmptySet DEF A
    <2>3. CASE A # {}
        <3>1. PICK q \in A : TRUE
            BY <2>3
        <3>2. A = {q}
            BY <2>1, <3>1
        <3>3. Cardinality(A) = 1
            BY <3>2, FS_Singleton
        <3> QED BY <3>3 DEF A
    <2> QED BY <2>2, <2>3
<1> QED BY <1>1, Invariant, PTL

\* A shard that cannot apply an agreed slice when its turn has come gave its
\* verdict too early (XshardDecide does not look at the cursor), or its row was
\* written since.
THEOREM TurnsHold == Spec => []BlockedOnlyIfStale
<1>1. Inv => BlockedOnlyIfStale
    <2> SUFFICES ASSUME Inv, NEW s \in Shards, NEW q \in Seqs, Blocked(s, q), <<s, q>> \notin stale
                 PROVE  FALSE
        BY DEF BlockedOnlyIfStale
    <2>1. /\ q = cursor[s] + 1
          /\ Slices[log[q]][s] = <<>> \/ vote[s][q] = "yes"
          /\ RunSlice(row[s], Slices[log[q]][s]) = "failed"
        BY DEF Blocked, Agreed
    <2>2. CASE Slices[log[q]][s] = <<>>
        BY <2>1, <2>2, EmptySlice DEF Inv, ShardInv, Steady
    <2>3. CASE vote[s][q] = "yes"
        <3>1. cursor[s] < q
            BY <2>1 DEF Inv, ShardInv, Shape
        <3> QED BY <2>1, <2>3, <3>1 DEF Inv, ShardInv, Steady
    <2> QED BY <2>1, <2>2, <2>3
<1> QED BY <1>1, Invariant, PTL

============================================================================
