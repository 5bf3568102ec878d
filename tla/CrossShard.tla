----------------------------- MODULE CrossShard -----------------------------
(***************************************************************************)
(* Cross-shard transactions: the router's two-phase drive of a global      *)
(* sequence (router.rs) and the sequencer and shard operations it calls    *)
(* (SeqAppendOnce, SeqRead, XshardDecide, XshardCommit of kessel-sm).      *)
(*                                                                         *)
(* Each shard group and the sequencer group is one replicated state        *)
(* machine; a call to it is one step.  A call that its caller gives up on  *)
(* (time-out, lost request, lost reply, dead router) may still be executed *)
(* at any later time, or never.  A router process drives at most one       *)
(* transaction at a time (the xs mutex); several processes may run.        *)
(* A shard holds one row that the slices create, update and delete.        *)
(***************************************************************************)
EXTENDS Naturals, Sequences, FiniteSets, FiniteSetsExt, SequencesExt

CONSTANTS
    K,         \* number of shards
    Txns,      \* transactions of clients
    Slices,    \* Slices[t][i]: what t does on shard i, a sequence of kinds
    InitRow,   \* whether the row of a shard exists at the start
    Sessions,  \* transactions sent in a session frame, with a stable dedup key
    Routers,   \* router processes
    Restarted, \* the router processes on which recover is called
    NoTxn,     \* no transaction
    MaxSeq,    \* bound: entries of the sequencer's log
    Tries,     \* bound: submissions of each transaction
    Shared,    \* shards whose row other clients write as well
    MaxFaults  \* bound: calls given up, routers killed and writes of others

Shards == 1..K
Seqs == 1..MaxSeq
Kinds == {"create", "update", "delete"}

ASSUME CrossShardAssumption ==
    /\ K \in Nat \ {0} /\ MaxSeq \in Nat /\ Tries \in [Txns -> Nat]
    /\ MaxFaults \in Nat
    /\ InitRow \in [Shards -> {"absent", "present"}]
    /\ Slices \in [Txns -> [Shards -> Seq(Kinds)]]
    /\ \A t \in Txns : \E s \in Shards : Slices[t][s] # <<>>
    /\ Sessions \subseteq Txns /\ NoTxn \notin Txns
    /\ Restarted \subseteq Routers /\ Shared \subseteq Shards

VARIABLES
    log,       \* sequencer: descriptors by sequence number
    row,       \* shard: whether its row exists
    cursor,    \* shard: last sequence number passed
    vote,      \* shard: stored verdict of a sequence number
    job,       \* router: the drive that holds the mutex
    upto,      \* router: length of the log read by a recover waiting for it
    late,      \* calls given up that may still be executed
    tries, faults,
    outcome,   \* ghost: what a shard did when it passed a sequence number
    answers,   \* ghost: results sent to clients
    stale      \* ghost: <<shard, seq>> whose row may have changed since the vote

shards == <<row, cursor, vote, outcome, stale>>
routers == <<job, upto>>
vars == <<log, shards, routers, late, tries, faults, answers>>

----------------------------------------------------------------------------
(* The state machine of a shard. *)

\* What an operation leaves of the row; "failed" stays.
Effect(r, kind) ==
    CASE r = "failed" -> "failed"
      [] kind = "create" -> IF r = "absent" THEN "present" ELSE "failed"
      [] kind = "update" -> IF r = "present" THEN "present" ELSE "failed"
      [] kind = "delete" -> IF r = "present" THEN "absent" ELSE "failed"

\* A slice applied to the row inside one storage transaction.
RunSlice(r, slice) == FoldLeft(Effect, r, slice)

\* Mutant: Exists is not among the results that count as a failure.
DryRunLenient(r, slice) ==
    IF RunSlice(r, slice) = "failed" /\ slice[1] # "create" THEN "no" ELSE "yes"

\* Dry run of a slice: applied, judged and rolled back.
DryRun(r, slice) == IF RunSlice(r, slice) = "failed" THEN "no" ELSE "yes"

\* Mutant: the verdict is computed again at every call.
VerdictAnew(s, q, slice) == DryRun(row[s], slice)

\* Op::XshardDecide answers the stored verdict, or that of a dry run now.
Verdict(s, q, slice) == IF vote[s][q] # "none" THEN vote[s][q] ELSE DryRun(row[s], slice)

\* Op::XshardDecide; the ghost notes a verdict given before its turn.
XshardDecide(s, q, slice) ==
    /\ vote' = [vote EXCEPT ![s][q] = Verdict(s, q, slice)]
    /\ stale' = IF vote[s][q] = "none" /\ cursor[s] < q - 1
                THEN stale \cup {<<s, q>>} ELSE stale
    /\ UNCHANGED <<log, row, cursor, outcome>>

SliceFails(s, slice, commit) == commit /\ RunSlice(row[s], slice) = "failed"

\* Op::XshardCommit takes effect: the next number, and no member fails.
Advances(s, q, slice, commit) == q = cursor[s] + 1 /\ ~ SliceFails(s, slice, commit)

\* Mutant: the router does not look at the reply.
CommitSent(s, q, slice, commit) == TRUE

\* Mutant: a number passed before is an error.
CommitOkOnce(s, q, slice, commit) == Advances(s, q, slice, commit)

\* The reply is Ok: it takes effect, or the cursor had passed the number.
CommitOk(s, q, slice, commit) == q <= cursor[s] \/ Advances(s, q, slice, commit)

XshardCommit(s, q, slice, commit) ==
    /\ IF Advances(s, q, slice, commit)
       THEN /\ cursor' = [cursor EXCEPT ![s] = q]
            /\ row' = [row EXCEPT ![s] = IF commit THEN RunSlice(@, slice) ELSE @]
            /\ outcome' = [outcome EXCEPT ![s][q] = IF commit THEN "applied" ELSE "skipped"]
       ELSE UNCHANGED <<row, cursor, outcome>>
    /\ UNCHANGED <<log, vote, stale>>

----------------------------------------------------------------------------
(* The sequencer's state machine. *)

\* Mutant: the dedup key is not looked up.
NeverAppended(t) == {}

\* The entries under the dedup key of t; a bare operation has a fresh key.
Appended(t) == IF t \in Sessions THEN {q \in DOMAIN log : log[q] = t} ELSE {}

\* The number Op::SeqAppendOnce answers.
Assigned(t) == IF Appended(t) = {} THEN Len(log) + 1 ELSE Min(Appended(t))

SeqAppendOnce(t) ==
    /\ Appended(t) = {} => Len(log) < MaxSeq
    /\ log' = IF Appended(t) = {} THEN Append(log, t) ELSE log
    /\ UNCHANGED <<shards>>

----------------------------------------------------------------------------
(* The router. *)

Idle == [phase |-> "idle", txn |-> NoTxn, seq |-> 0, last |-> 0, shard |-> 0, decision |-> TRUE]

\* The first participant of t from shard s on; K + 1 if there is none.
Participant(t, s) == Min({K + 1} \cup {i \in s..K : Slices[t][i] # <<>>})

\* drive_seq(q), as the first of the numbers q..last.
Drive(t, q, last, txn) ==
    [phase |-> "decide", txn |-> txn, seq |-> q, last |-> last,
     shard |-> Participant(t, 1), decision |-> TRUE]

Init ==
    /\ log = <<>>
    /\ row = InitRow /\ cursor = [s \in Shards |-> 0]
    /\ vote = [s \in Shards |-> [q \in Seqs |-> "none"]]
    /\ outcome = [s \in Shards |-> [q \in Seqs |-> "none"]] /\ stale = {}
    /\ job = [r \in Routers |-> Idle] /\ upto = [r \in Routers |-> 0]
    /\ late = {} /\ tries = [t \in Txns |-> 0] /\ faults = 0
    /\ answers = {}

\* handle, commit_cross_shard: slices computed, mutex taken.
Submit(r, t) ==
    /\ job[r] = Idle /\ tries[t] < Tries[t]
    /\ tries' = [tries EXCEPT ![t] = @ + 1]
    /\ job' = [job EXCEPT ![r] = [Idle EXCEPT !.phase = "append", !.txn = t]]
    /\ UNCHANGED <<log, shards, upto, late, faults, answers>>

\* commit_cross_shard: the number of the transaction.
SequenceStep(r) ==
    LET t == job[r].txn IN
    /\ job[r].phase = "append"
    /\ SeqAppendOnce(t)
    /\ job' = [job EXCEPT ![r] = Drive(t, Assigned(t), Assigned(t), t)]
    /\ UNCHANGED <<upto, late, tries, faults, answers>>

\* drive_seq, phase 1: the next participant's verdict; after the last one,
\* phase 2 starts at the first shard.
DecideStep(r) ==
    LET j == job[r]
        slice == Slices[log[j.seq]][j.shard]
        next == Participant(log[j.seq], j.shard + 1)
        decision == j.decision /\ Verdict(j.shard, j.seq, slice) = "yes" IN
    /\ j.phase = "decide"
    /\ XshardDecide(j.shard, j.seq, slice)
    /\ job' = [job EXCEPT ![r] =
          IF next <= K THEN [j EXCEPT !.shard = next, !.decision = decision]
          ELSE [j EXCEPT !.phase = "commit", !.shard = 1, !.decision = decision]]
    /\ UNCHANGED <<upto, late, tries, faults, answers>>

\* The reply the client of drive j gets after the last shard.
Reply(j) == [txn |-> j.txn, seq |-> j.seq, result |-> IF j.decision THEN "ok" ELSE "aborted"]

\* drive_seq, phase 2: every shard in order.  An error ends the drive; after
\* the last shard recover goes on with the next number.
CommitStep(r) ==
    LET j == job[r]
        slice == Slices[log[j.seq]][j.shard]
        ok == CommitOk(j.shard, j.seq, slice, j.decision)
        done == ok /\ j.shard = K IN
    /\ j.phase = "commit"
    /\ XshardCommit(j.shard, j.seq, slice, j.decision)
    /\ job' = [job EXCEPT ![r] =
          IF ~ ok \/ (done /\ j.seq = j.last) THEN Idle
          ELSE IF done THEN Drive(log[j.seq + 1], j.seq + 1, j.last, NoTxn)
          ELSE [j EXCEPT !.shard = @ + 1]]
    /\ answers' = IF done /\ j.txn # NoTxn THEN answers \cup {Reply(j)} ELSE answers
    /\ UNCHANGED <<upto, late, tries, faults>>

\* recover: the log is read before the mutex is taken.
RecoverRead(r) ==
    /\ upto[r] = 0 /\ log # <<>>
    /\ upto' = [upto EXCEPT ![r] = Len(log)]
    /\ UNCHANGED <<log, shards, job, late, tries, faults, answers>>

RecoverDrive(r) ==
    /\ upto[r] > 0 /\ job[r] = Idle
    /\ job' = [job EXCEPT ![r] = Drive(log[1], 1, upto[r], NoTxn)]
    /\ upto' = [upto EXCEPT ![r] = 0]
    /\ UNCHANGED <<log, shards, late, tries, faults, answers>>

----------------------------------------------------------------------------
(* Failures and other clients. *)

\* The call a drive is waiting for.
Call(j) == [phase |-> j.phase, txn |-> j.txn, seq |-> j.seq, shard |-> j.shard, decision |-> j.decision]

\* The call fails after its attempts, and the drive with it; the whole router
\* process may be what died.
Abandon(r) ==
    /\ job[r] # Idle /\ faults < MaxFaults
    /\ faults' = faults + 1
    /\ job' = [job EXCEPT ![r] = Idle]
    /\ \E u \in {0, upto[r]} : upto' = [upto EXCEPT ![r] = u]
    /\ late' = late \cup {Call(job[r])}
    /\ UNCHANGED <<log, shards, tries, answers>>

\* A call given up is executed after all; nobody hears the reply.
ExecuteLate(c) ==
    /\ c \in late
    /\ late' = late \ {c}
    /\ CASE c.phase = "append" -> SeqAppendOnce(c.txn)
         [] c.phase = "decide" -> XshardDecide(c.shard, c.seq, Slices[log[c.seq]][c.shard])
         [] c.phase = "commit" ->
               XshardCommit(c.shard, c.seq, Slices[log[c.seq]][c.shard], c.decision)
    /\ UNCHANGED <<routers, tries, faults, answers>>

\* Route::One: a client writes the row of one shard, with no regard to votes.
PointWrite(s, kind) ==
    /\ faults < MaxFaults
    /\ Effect(row[s], kind) # "failed"
    /\ faults' = faults + 1
    /\ row' = [row EXCEPT ![s] = Effect(@, kind)]
    /\ stale' = stale \cup {<<s, q>> : q \in {p \in Seqs : vote[s][p] # "none"}}
    /\ UNCHANGED <<log, cursor, vote, outcome, routers, late, tries, answers>>

RouterStep(r) == SequenceStep(r) \/ DecideStep(r) \/ CommitStep(r)

Next ==
    \/ \E r \in Routers, t \in Txns : Submit(r, t)
    \/ \E r \in Routers : SequenceStep(r) \/ DecideStep(r) \/ CommitStep(r) \/ Abandon(r)
    \/ \E r \in Restarted : RecoverRead(r) \/ RecoverDrive(r)
    \/ \E c \in late : ExecuteLate(c)
    \/ \E s \in Shared, kind \in Kinds : PointWrite(s, kind)

Spec == Init /\ [][Next]_vars

\* A drive's thread runs on, and a recover that was called gets the mutex.
\* Nothing says that recover is called.
FairSpec ==
    /\ Spec
    /\ \A r \in Routers : WF_vars(RouterStep(r))
    /\ \A r \in Restarted : WF_vars(RecoverDrive(r))

----------------------------------------------------------------------------
Calls == [phase : {"append", "decide", "commit"}, txn : Txns \cup {NoTxn},
          seq : 0..MaxSeq, shard : 0..K, decision : BOOLEAN]
Jobs == [phase : {"idle", "append", "decide", "commit"}, txn : Txns \cup {NoTxn},
         seq : 0..MaxSeq, last : 0..MaxSeq, shard : 0..K, decision : BOOLEAN]

TypeOK ==
    /\ log \in Seq(Txns) /\ Len(log) <= MaxSeq
    /\ row \in [Shards -> {"absent", "present"}] /\ cursor \in [Shards -> 0..Len(log)]
    /\ vote \in [Shards -> [Seqs -> {"none", "yes", "no"}]]
    /\ outcome \in [Shards -> [Seqs -> {"none", "applied", "skipped"}]]
    /\ stale \subseteq Shards \X Seqs
    /\ job \in [Routers -> Jobs] /\ upto \in [Routers -> 0..Len(log)]
    /\ late \subseteq Calls
    /\ (\A t \in Txns : tries[t] \in 0..Tries[t]) /\ faults \in 0..MaxFaults
    /\ answers \subseteq [txn : Txns, seq : Seqs, result : {"ok", "aborted"}]

(* No two shards ever do different things with one sequence number,        *)
(* whichever routers drove it, were cut off while they did or left a call  *)
(* behind: the global decision is a function of verdicts that do not       *)
(* change once stored.                                                     *)
OneDecision ==
    \A q \in Seqs : \A s, u \in Shards :
        outcome[s][q] # "none" /\ outcome[u][q] # "none" => outcome[s][q] = outcome[u][q]

(* A client that is answered Ok has its slices on every shard, and one     *)
(* that is told "atomic - no shard applied it" has them on none, now and   *)
(* for every later re-drive.                                               *)
AnswerHonest ==
    \A a \in answers : \A s \in Shards :
        outcome[s][a.seq] = IF a.result = "ok" THEN "applied" ELSE "skipped"

(* However often a session transaction is submitted, through whichever     *)
(* router, and however late its calls arrive, a shard applies it once.     *)
AppliedOnce ==
    \A t \in Sessions, s \in Shards :
        Cardinality({q \in DOMAIN log : log[q] = t /\ outcome[s][q] = "applied"}) <= 1

\* All participants voted yes on q.
Agreed(q) == \A s \in Shards : Slices[log[q]][s] = <<>> \/ vote[s][q] = "yes"

\* Shard s is at q, q was agreed, and its slice cannot be applied: every
\* drive of q ends here, and every later number is out of order.
Blocked(s, q) ==
    /\ q \in DOMAIN log /\ q = cursor[s] + 1 /\ Agreed(q)
    /\ RunSlice(row[s], Slices[log[q]][s]) = "failed"

(* An agreed slice can be applied when its turn comes, unless the verdict  *)
(* was given before the shard had passed the earlier numbers or the row    *)
(* was written by somebody else since: verdicts given in turn hold.        *)
BlockedOnlyIfStale == \A s \in Shards, q \in Seqs : Blocked(s, q) => <<s, q>> \in stale

(* The transaction is all-or-none: no shard has applied its slice of a     *)
(* number that another shard is unable to apply.                           *)
AllOrNone ==
    \A q \in Seqs : \A s, u \in Shards :
        outcome[s][q] = "applied" /\ Slices[log[q]][s] # <<>> => ~ Blocked(u, q)

(* One call of recover is enough: if none of its calls fails and nothing   *)
(* else does meanwhile, every shard passes the whole log it read, whichever*)
(* routers appended it, were cut off driving it or drive it at the same    *)
(* time, unless a shard is blocked by a stale verdict.                     *)
RecoverCompletes ==
    \A r \in Restarted, n \in Seqs, f \in 0..MaxFaults :
        (upto[r] = n /\ faults = f) ~>
            \/ \A s \in Shards : cursor[s] >= n
            \/ faults > f
            \/ \E s \in Shards, q \in Seqs : Blocked(s, q)

============================================================================
