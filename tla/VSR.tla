-------------------------------- MODULE VSR --------------------------------
(***************************************************************************)
(* Viewstamped replication as crates/kessel-vsr/src/lib.rs implements it:  *)
(* one action per handler of Replica::handle, the local submission of a    *)
(* request, and the three outcomes of Replica::tick.                       *)
(*                                                                         *)
(* A log entry keeps its op_number, client and req; the operation itself   *)
(* and its result are data, so a result is the position at which the       *)
(* operation was applied.  ticks_idle and vc_retries only decide WHEN a    *)
(* tick times out, so a timeout may happen at any tick; view_changes_total *)
(* and last_primary_op_seen are metrics nothing else reads.                *)
(*                                                                         *)
(* The network (the simulator's bus, or the writer threads of cluster.rs)  *)
(* is the set msgs: a packet may be delivered in any order or never.  With *)
(* Redeliver a packet also stays in msgs once delivered, so it may arrive  *)
(* again; without it every send is delivered at most once.  A crashed      *)
(* (crash-stop) replica is one that takes no further step.                 *)
(***************************************************************************)
EXTENDS Integers, Sequences, FiniteSets, FiniteSetsExt, SequencesExt

CONSTANTS
    N,          \* number of replicas
    Clients,    \* client ids
    MaxReq,     \* bound: request numbers a client uses
    MaxView,    \* bound: views
    MaxLog,     \* bound: entries a primary appends to its log
    MaxDvc,     \* bound: DoViewChange messages one replica keeps for a view
    Timers,     \* bound: the replicas whose timer thread gets to run
    Contacts,   \* bound: Contacts[c], the replicas client c submits to
    Alive,      \* the replicas that never crash
    Redeliver   \* may a delivered packet be delivered again?

Replicas == 0..(N - 1)
Views == 0..MaxView
Reqs == 1..MaxReq

ASSUME NAssumption == N \in Nat \ {0}
ASSUME BoundsAssumption ==
    /\ MaxReq \in Nat /\ MaxView \in Nat /\ MaxLog \in Nat /\ MaxDvc \in Nat
    /\ Redeliver \in BOOLEAN /\ Timers \subseteq Replicas /\ Alive \subseteq Replicas
    /\ Contacts \in [Clients -> SUBSET Replicas]

Quorum == N \div 2 + 1
PrimaryOf(v) == v % N

VARIABLES
    view, normal_view, status, log, commit, client_table,
    prepare_ok,     \* prepare_ok[r]: the pairs <<op_number, replica>> acked
    svc_votes,      \* svc_votes[r]: the pairs <<view, replica>> received
    dvc,            \* dvc[r][v]: the Vec of DoViewChange kept for view v
    max_view_seen,
    applied,        \* applied[r]: the entries handed to sm.apply, in order
    msgs,           \* packets in the network
    replies,        \* replies emitted to clients
    misinstalled    \* history: a log was installed as Misinstalls says, or on
                    \* DoViewChanges of fewer than Quorum different replicas

replica_vars == <<view, normal_view, status, log, commit, client_table,
                  prepare_ok, svc_votes, dvc, max_view_seen, applied>>
vars == <<replica_vars, msgs, replies, misinstalled>>

----------------------------------------------------------------------------
(* Data *)

Entry == [op_number : Nat, client : Clients, req : Reqs]

\* What a replica puts into a DoViewChange message.
Dvc == [log : Seq(Entry), commit : Nat, normal_view : Views, replica : Replicas]

Message ==
         [type : {"Request"}, client : Clients, req : Reqs]
    \cup [type : {"Prepare"}, view : Views, entry : Entry, commit : Nat]
    \cup [type : {"PrepareOk"}, view : Views, op_number : Nat, replica : Replicas]
    \cup [type : {"Commit"}, view : Views, commit : Nat]
    \cup [type : {"StartViewChange"}, view : Views, replica : Replicas]
    \cup [type : {"DoViewChange"}, view : Views, dvc : Dvc]
    \cup [type : {"StartView"}, view : Views, log : Seq(Entry), commit : Nat]
    \cup [type : {"GetState"}, view : Views, after : Nat, replica : Replicas]
    \cup [type : {"NewState"}, view : Views, suffix : Seq(Entry), commit : Nat]

Packet == [dst : Replicas, msg : Message]
Reply == [client : Clients, req : Reqs, res : Nat]

\* The client has no entry in the table: request numbers start at 1.
NoReply == [req |-> 0, res |-> 0]

\* A packet addressed to the sender itself never leaves the node.
Send(r, p, m) == IF p = r THEN {} ELSE {[dst |-> p, msg |-> m]}
Broadcast(r, m) == {[dst |-> p, msg |-> m] : p \in Replicas \ {r}}

\* What is left in the network once packet p has been delivered.
Rest(p) == IF Redeliver THEN msgs ELSE msgs \ {p}

Init ==
    /\ view = [r \in Replicas |-> 0]
    /\ normal_view = [r \in Replicas |-> 0]
    /\ status = [r \in Replicas |-> "Normal"]
    /\ log = [r \in Replicas |-> <<>>]
    /\ commit = [r \in Replicas |-> 0]
    /\ client_table = [r \in Replicas |-> [c \in Clients |-> NoReply]]
    /\ prepare_ok = [r \in Replicas |-> {}]
    /\ svc_votes = [r \in Replicas |-> {}]
    /\ dvc = [r \in Replicas |-> [v \in Views |-> <<>>]]
    /\ max_view_seen = [r \in Replicas |-> 0]
    /\ applied = [r \in Replicas |-> <<>>]
    /\ msgs = {}
    /\ replies = {}
    /\ misinstalled = FALSE

----------------------------------------------------------------------------
(* Steps the handlers share *)

\* advance_view_to with the status the caller sets next to it.
Adopt(r, v, st) ==
    /\ view' = [view EXCEPT ![r] = v]
    /\ status' = [status EXCEPT ![r] = st]

\* handle: the highest view of any inbound message.
SeeView(r, v) ==
    max_view_seen' = [max_view_seen EXCEPT ![r] = Max({@, v})]

\* The commit number apply_through(target) ends with, on log lg.
AppliedTo(r, lg, target) == Max({commit[r], Min({target, Len(lg)})})

\* apply_through, for a replica whose log is lg and whose view is v: entries
\* commit+1 .. target are applied in order, each one overwriting its client's
\* table entry; only the primary emits the replies.
ApplyThrough(r, lg, target, v) ==
    LET t == AppliedTo(r, lg, target)
        new == commit[r] + 1 .. t
    IN  /\ commit' = [commit EXCEPT ![r] = t]
        /\ applied' = [applied EXCEPT ![r] = @ \o SubSeq(lg, commit[r] + 1, t)]
        /\ client_table' = [client_table EXCEPT ![r] =
              [c \in Clients |->
                 LET own == {k \in new : lg[k].client = c}
                 IN  IF own = {} THEN client_table[r][c]
                     ELSE [req |-> lg[Max(own)].req, res |-> Max(own)]]]
        /\ replies' = replies \cup
              IF PrimaryOf(v) = r
              THEN {[client |-> lg[k].client, req |-> lg[k].req, res |-> k] : k \in new}
              ELSE {}

\* History only: a log installed in a view the replica is already Normal in
\* should extend the log it has there.
Misinstalls(r, v, lg) ==
    /\ status[r] = "Normal" /\ view[r] = v
    /\ ~ IsPrefix(log[r], lg)

----------------------------------------------------------------------------
(* Normal case *)

\* Mutant: off by one.
AnsweredEarly(r, c, q) == q <= client_table[r][c].req + 1

\* The client table holds the result of this request, or of a later one.
Answered(r, c, q) == q <= client_table[r][c].req

\* on_request: the whole handler, for a request that reached replica r; net is
\* what remains in the network.
OnRequest(r, c, q, net) ==
    /\ \/ /\ status[r] # "Normal"                     \* dropped: mid view change
          /\ msgs' = net
          /\ UNCHANGED <<log, prepare_ok, replies>>
       \/ /\ status[r] = "Normal"
          /\ Answered(r, c, q)                           \* answered from the table
          /\ replies' = replies \cup
                {[client |-> c, req |-> q, res |-> client_table[r][c].res]}
          /\ msgs' = net
          /\ UNCHANGED <<log, prepare_ok>>
       \/ /\ status[r] = "Normal" /\ PrimaryOf(view[r]) # r
          /\ ~ Answered(r, c, q)                         \* relayed
          /\ msgs' = net \cup Send(r, PrimaryOf(view[r]),
                                   [type |-> "Request", client |-> c, req |-> q])
          /\ UNCHANGED <<log, prepare_ok, replies>>
       \/ /\ status[r] = "Normal" /\ PrimaryOf(view[r]) = r
          /\ ~ Answered(r, c, q)                         \* appended
          /\ Len(log[r]) < MaxLog
          /\ LET e == [op_number |-> Len(log[r]) + 1, client |-> c, req |-> q]
             IN  /\ log' = [log EXCEPT ![r] = Append(@, e)]
                 /\ prepare_ok' = [prepare_ok EXCEPT ![r] = @ \cup {<<e.op_number, r>>}]
                 /\ msgs' = net \cup Broadcast(r, [type |-> "Prepare", view |-> view[r],
                                                   entry |-> e, commit |-> commit[r]])
          /\ UNCHANGED replies
    /\ UNCHANGED <<view, normal_view, status, commit, client_table, svc_votes, dvc,
                   max_view_seen, applied, misinstalled>>

\* A caller submits its request, or repeats it, at any replica it likes.
Submit(r, c, q) ==
    /\ q = 1 \/ \E rp \in replies : rp.client = c /\ rp.req = q - 1
    /\ OnRequest(r, c, q, msgs)

ReceiveRequest(p) == OnRequest(p.dst, p.msg.client, p.msg.req, Rest(p))

\* Mutant: becomes Normal in the higher view with the log it has.
JoinAsNormal(r, v, net) ==
    /\ Adopt(r, v, "Normal")
    /\ msgs' = net \cup Send(r, PrimaryOf(v),
                             [type |-> "GetState", view |-> v, after |-> 0, replica |-> r])
    /\ UNCHANGED <<log, commit, applied, client_table, replies>>

\* on_prepare and on_commit_msg, first part: a higher view exists.  Take its
\* number, not its status, and ask its primary for the log.
SolicitState(r, v, net) ==
    /\ Adopt(r, v, "ViewChange")
    /\ msgs' = net \cup Send(r, PrimaryOf(v),
                             [type |-> "GetState", view |-> v, after |-> 0, replica |-> r])
    /\ UNCHANGED <<log, commit, applied, client_table, replies>>

\* Mutant: also drops the messages of its own view.
StaleOrCurrent(r, v) == v <= view[r]

\* A message of a view this replica has left behind.
Stale(r, v) == v < view[r]

\* An older view, or one this replica is still recovering: nothing happens.
IgnoreInView(r, v, net) ==
    /\ Stale(r, v) \/ (v = view[r] /\ status[r] # "Normal")
    /\ msgs' = net
    /\ UNCHANGED <<view, status, log, commit, applied, client_table, replies>>

\* Mutant: takes an entry beyond a gap.
ContinuesAfterGap(lg, e) == e.op_number > Len(lg)

\* The entry is the next one of the log.
Continues(lg, e) == e.op_number = Len(lg) + 1

\* on_prepare
OnPrepare(p) ==
    LET r == p.dst  m == p.msg  k == m.entry.op_number
        ack == [type |-> "PrepareOk", view |-> m.view, op_number |-> k, replica |-> r]
        gap == [type |-> "GetState", view |-> m.view, after |-> Len(log[r]), replica |-> r]
    IN  /\ SeeView(r, m.view)
        /\ \/ IgnoreInView(r, m.view, Rest(p))
           \/ m.view > view[r] /\ SolicitState(r, m.view, Rest(p))
           \/ /\ m.view = view[r] /\ status[r] = "Normal"
              /\ LET lg == IF Continues(log[r], m.entry) THEN Append(log[r], m.entry) ELSE log[r]
                 IN  /\ log' = [log EXCEPT ![r] = lg]
                     /\ ApplyThrough(r, lg, m.commit, m.view)
              /\ msgs' = Rest(p) \cup Send(r, PrimaryOf(m.view),
                                           IF k <= Len(log[r]) + 1 THEN ack ELSE gap)
              /\ UNCHANGED <<view, status>>
        /\ UNCHANGED <<normal_view, prepare_ok, svc_votes, dvc, misinstalled>>

\* The replicas prepare_ok[k] of r counts once `acked` has been added.
Acks(acked, k) == {a \in Replicas : <<k, a>> \in acked}

\* Mutant: never reaches the end of the log.
CommitTargetBelow(r, acked, t) ==
    /\ t < Len(log[r])
    /\ \A k \in commit[r] + 1 .. t : Cardinality(Acks(acked, k)) >= Quorum

\* The op number on_prepare_ok commits up to: contiguous and quorum-acked.
CommitTarget(r, acked, t) ==
    /\ \A k \in commit[r] + 1 .. t : Cardinality(Acks(acked, k)) >= Quorum
    /\ \/ t >= Len(log[r])
       \/ Cardinality(Acks(acked, t + 1)) < Quorum

\* on_prepare_ok
OnPrepareOk(p) ==
    LET r == p.dst  m == p.msg
        acked == prepare_ok[r] \cup {<<m.op_number, m.replica>>, <<m.op_number, r>>}
        advance == Cardinality(Acks(acked, m.op_number)) >= Quorum /\ m.op_number > commit[r]
    IN  /\ SeeView(r, m.view)
        /\ \/ /\ m.view # view[r] \/ PrimaryOf(view[r]) # r \/ status[r] # "Normal"
              /\ msgs' = Rest(p)
              /\ UNCHANGED <<prepare_ok, commit, applied, client_table, replies>>
           \/ /\ m.view = view[r] /\ PrimaryOf(view[r]) = r /\ status[r] = "Normal"
              /\ prepare_ok' = [prepare_ok EXCEPT ![r] = acked]
              /\ \/ /\ ~ advance
                    /\ msgs' = Rest(p)
                    /\ UNCHANGED <<commit, applied, client_table, replies>>
                 \/ /\ advance
                    /\ \E t \in commit[r] .. Max({commit[r], Len(log[r])}) :
                          /\ CommitTarget(r, acked, t)
                          /\ ApplyThrough(r, log[r], t, view[r])
                          /\ msgs' = Rest(p) \cup
                                Broadcast(r, [type |-> "Commit", view |-> view[r], commit |-> t])
        /\ UNCHANGED <<view, normal_view, status, log, svc_votes, dvc, misinstalled>>

\* Mutant: the call of apply_through is missing.
OnCommitNoApply(p) ==
    LET r == p.dst  m == p.msg
    IN  /\ SeeView(r, m.view)
        /\ \/ IgnoreInView(r, m.view, Rest(p))
           \/ m.view > view[r] /\ SolicitState(r, m.view, Rest(p))
           \/ /\ m.view = view[r] /\ status[r] = "Normal"
              /\ msgs' = Rest(p)
              /\ UNCHANGED <<view, status, log, commit, applied, client_table, replies>>
        /\ UNCHANGED <<normal_view, prepare_ok, svc_votes, dvc, misinstalled>>

\* on_commit_msg
OnCommit(p) ==
    LET r == p.dst  m == p.msg
    IN  /\ SeeView(r, m.view)
        /\ \/ IgnoreInView(r, m.view, Rest(p))
           \/ m.view > view[r] /\ SolicitState(r, m.view, Rest(p))
           \/ /\ m.view = view[r] /\ status[r] = "Normal"
              /\ ApplyThrough(r, log[r], m.commit, m.view)
              /\ msgs' = Rest(p) \cup
                    (IF m.commit > Len(log[r])
                     THEN Send(r, PrimaryOf(m.view),
                               [type |-> "GetState", view |-> m.view,
                                after |-> Len(log[r]), replica |-> r])
                     ELSE {})
              /\ UNCHANGED <<view, status, log>>
        /\ UNCHANGED <<normal_view, prepare_ok, svc_votes, dvc, misinstalled>>

----------------------------------------------------------------------------
(* State transfer *)

\* GetState: only a Normal replica of the same view answers.
OnGetState(p) ==
    LET r == p.dst  m == p.msg
        answers == m.view = view[r] /\ status[r] = "Normal" /\ Len(log[r]) >= m.after
    IN  /\ SeeView(r, m.view)
        /\ msgs' = Rest(p) \cup
              (IF answers
               THEN Send(r, m.replica, [type |-> "NewState", view |-> m.view,
                                        suffix |-> SubSeq(log[r], m.after + 1, Len(log[r])),
                                        commit |-> commit[r]])
               ELSE {})
        /\ UNCHANGED <<view, normal_view, status, log, commit, client_table, prepare_ok,
                       svc_votes, dvc, applied, replies, misinstalled>>

\* Mutant: appends the suffix without looking at its numbers.
GapFillBlindly(lg, suffix) == lg \o suffix

\* The in-Normal gap fill of NewState pushes each entry that continues the log.
\* A suffix is numbered contiguously (NumberedLogs), so that is its part above
\* Len(lg), unless even its first entry would leave a gap.
GapFill(lg, suffix) ==
    IF suffix = <<>> \/ suffix[1].op_number > Len(lg) + 1 THEN lg
    ELSE lg \o SubSeq(suffix, Len(lg) + 2 - suffix[1].op_number, Len(suffix))

\* NewState
OnNewState(p) ==
    LET r == p.dst  m == p.msg
    IN  /\ SeeView(r, m.view)
        /\ \/ /\ m.view # view[r]
              /\ msgs' = Rest(p)
              /\ UNCHANGED <<normal_view, status, log, commit, applied, client_table, replies>>
           \/ /\ m.view = view[r]
              /\ LET lg == IF status[r] = "Normal" THEN GapFill(log[r], m.suffix)
                           ELSE m.suffix
                 IN  /\ log' = [log EXCEPT ![r] = lg]
                     /\ ApplyThrough(r, lg, m.commit, m.view)
                     /\ msgs' = Rest(p) \cup
                           Send(r, PrimaryOf(m.view),
                                [type |-> "PrepareOk", view |-> m.view,
                                 op_number |-> Len(lg), replica |-> r])
              /\ status' = [status EXCEPT ![r] = "Normal"]
              /\ normal_view' = [normal_view EXCEPT ![r] = m.view]
        /\ UNCHANGED <<view, prepare_ok, svc_votes, dvc, misinstalled>>

----------------------------------------------------------------------------
(* View change *)

\* Mutant: of two logs of one view, either will do.
BetterByView(a, b) == a.normal_view > b.normal_view

Better(a, b) ==
    \/ a.normal_view > b.normal_view
    \/ a.normal_view = b.normal_view /\ Len(a.log) > Len(b.log)

\* Mutant: compares in the wrong direction.
IsWorst(ds, i) ==
    \A j \in DOMAIN ds : ~ Better(ds[i], ds[j]) /\ (j < i => Better(ds[j], ds[i]))

\* maybe_finish_view_change takes the first of the most up-to-date logs...
IsBest(ds, i) ==
    \A j \in DOMAIN ds : ~ Better(ds[j], ds[i]) /\ (j < i => Better(ds[i], ds[j]))
\* ... and the highest commit number, of whatever DoViewChange.
IsMaxCommit(ds, i) == \A j \in DOMAIN ds : ds[j].commit <= ds[i].commit

\* maybe_finish_view_change once ds, the messages kept for view v, are enough.
FinishViewChange(r, v, ds, net) ==
    \E b, x \in DOMAIN ds :
        /\ IsBest(ds, b)
        /\ IsMaxCommit(ds, x)
        /\ Adopt(r, v, "Normal")
        /\ normal_view' = [normal_view EXCEPT ![r] = v]
        /\ log' = [log EXCEPT ![r] = ds[b].log]
        /\ prepare_ok' = [prepare_ok EXCEPT ![r] = {}]
        /\ ApplyThrough(r, ds[b].log, ds[x].commit, v)
        /\ msgs' = net \cup Broadcast(r, [type |-> "StartView", view |-> v,
                                          log |-> ds[b].log, commit |-> ds[x].commit])
        /\ misinstalled' = \/ misinstalled
                           \/ Misinstalls(r, v, ds[b].log)
                           \/ Cardinality({ds[i].replica : i \in DOMAIN ds}) < Quorum

\* Mutant: wants more than a quorum.
MayFinishLate(r, v, ds) == PrimaryOf(v) = r /\ v >= view[r] /\ Len(ds) > Quorum

\* The guard of maybe_finish_view_change.  It does not ask whether the view
\* change is already over, nor whose messages ds holds.
MayFinish(r, v, ds) == PrimaryOf(v) = r /\ v >= view[r] /\ Len(ds) >= Quorum

\* A DoViewChange d is pushed for view v and the view change finished if it may
\* be; otherwise r is left in view av with status st.
PushDvc(r, v, d, av, st, net) ==
    LET ds == Append(dvc[r][v], d)
    IN  /\ Len(dvc[r][v]) < MaxDvc
        /\ dvc' = [dvc EXCEPT ![r][v] = ds]
        /\ \/ MayFinish(r, v, ds) /\ FinishViewChange(r, v, ds, net)
           \/ /\ ~ MayFinish(r, v, ds)
              /\ Adopt(r, av, st)
              /\ msgs' = net
              /\ UNCHANGED <<normal_view, log, prepare_ok, commit, applied, client_table,
                             replies, misinstalled>>

\* DoViewChange
OnDoViewChange(p) ==
    LET r == p.dst  m == p.msg
    IN  /\ SeeView(r, m.view)
        /\ PushDvc(r, m.view, m.dvc, view[r], status[r], Rest(p))
        /\ UNCHANGED svc_votes

\* maybe_finish_svc for a replica that is in view v with status st and has just
\* recorded `votes`: with a quorum of votes it sends its DoViewChange, or keeps
\* it if it is the primary of v itself.
MaybeFinishSvc(r, v, st, votes, net) ==
    LET enough == /\ st = "ViewChange"
                  /\ Cardinality({a \in Replicas : <<v, a>> \in votes}) >= Quorum
        mine == [log |-> log[r], commit |-> commit[r], normal_view |-> normal_view[r],
                 replica |-> r]
    IN  /\ svc_votes' = [svc_votes EXCEPT ![r] = votes]
        /\ \/ enough /\ PrimaryOf(v) = r /\ PushDvc(r, v, mine, v, st, net)
           \/ /\ ~ (enough /\ PrimaryOf(v) = r)
              /\ Adopt(r, v, st)
              /\ msgs' = net \cup
                    (IF enough
                     THEN Send(r, PrimaryOf(v),
                               [type |-> "DoViewChange", view |-> v, dvc |-> mine])
                     ELSE {})
              /\ UNCHANGED <<dvc, normal_view, log, prepare_ok, commit, applied,
                             client_table, replies, misinstalled>>

\* on_svc
OnStartViewChange(p) ==
    LET r == p.dst  m == p.msg
    IN  /\ SeeView(r, m.view)
        /\ \/ /\ Stale(r, m.view)
              /\ msgs' = Rest(p)
              /\ UNCHANGED <<view, status, svc_votes, dvc, normal_view, log, prepare_ok,
                             commit, applied, client_table, replies, misinstalled>>
           \/ /\ ~ Stale(r, m.view)
              /\ MaybeFinishSvc(r, m.view,
                                IF m.view > view[r] THEN "ViewChange" ELSE status[r],
                                svc_votes[r] \cup {<<m.view, m.replica>>, <<m.view, r>>},
                                Rest(p))

\* on_start_view
OnStartView(p) ==
    LET r == p.dst  m == p.msg
    IN  /\ SeeView(r, m.view)
        /\ \/ /\ Stale(r, m.view)
              /\ msgs' = Rest(p)
              /\ UNCHANGED <<view, status, normal_view, log, commit, applied, client_table,
                             replies, misinstalled>>
           \/ /\ ~ Stale(r, m.view)
              /\ Adopt(r, m.view, "Normal")
              /\ normal_view' = [normal_view EXCEPT ![r] = m.view]
              /\ log' = [log EXCEPT ![r] = m.log]
              /\ ApplyThrough(r, m.log, m.commit, m.view)
              /\ msgs' = Rest(p) \cup
                    Send(r, PrimaryOf(m.view),
                         [type |-> "PrepareOk", view |-> m.view,
                          op_number |-> Len(m.log), replica |-> r])
              /\ misinstalled' = (misinstalled \/ Misinstalls(r, m.view, m.log))
        /\ UNCHANGED <<prepare_ok, svc_votes, dvc>>

----------------------------------------------------------------------------
(* tick *)

\* The primary's heartbeat: Commit, and every uncommitted Prepare again.
Heartbeat(r) ==
    /\ PrimaryOf(view[r]) = r /\ status[r] = "Normal"
    /\ msgs' = msgs
          \cup Broadcast(r, [type |-> "Commit", view |-> view[r], commit |-> commit[r]])
          \cup UNION {Broadcast(r, [type |-> "Prepare", view |-> view[r],
                                    entry |-> log[r][k], commit |-> commit[r]]) :
                      k \in commit[r] + 1 .. Len(log[r])}
    /\ UNCHANGED <<replica_vars, replies, misinstalled>>

SvcMessage(r, v) == [type |-> "StartViewChange", view |-> v, replica |-> r]

\* start_view_change: a backup that heard nothing from its primary for
\* PRIMARY_TIMEOUT_TICKS, or a replica whose view change stalled too often,
\* moves past the highest view anyone has reached.
Timeout(r) ==
    LET v == Max({view[r], max_view_seen[r]}) + 1
    IN  /\ PrimaryOf(view[r]) # r \/ status[r] # "Normal"
        /\ v <= MaxView
        /\ max_view_seen' = [max_view_seen EXCEPT ![r] = v]
        /\ MaybeFinishSvc(r, v, "ViewChange", svc_votes[r] \cup {<<v, r>>},
                          msgs \cup Broadcast(r, SvcMessage(r, v)))

\* A stalled view change: resend StartViewChange and try both quorums again.
\* The call of maybe_finish_view_change after maybe_finish_svc changes nothing:
\* by StalledLacksQuorum there are not enough messages unless maybe_finish_svc
\* has just pushed one, and then it repeats what that call has done.
RetryViewChange(r) ==
    LET v == view[r]
        net == msgs \cup Broadcast(r, SvcMessage(r, v))
        votes == svc_votes[r] \cup {<<v, r>>}
    IN  /\ status[r] = "ViewChange"
        /\ MaybeFinishSvc(r, v, "ViewChange", votes, net)
        /\ UNCHANGED max_view_seen

----------------------------------------------------------------------------

Receive(p) ==
    \/ p.msg.type = "Request" /\ ReceiveRequest(p)
    \/ p.msg.type = "Prepare" /\ OnPrepare(p)
    \/ p.msg.type = "PrepareOk" /\ OnPrepareOk(p)
    \/ p.msg.type = "Commit" /\ OnCommit(p)
    \/ p.msg.type = "StartViewChange" /\ OnStartViewChange(p)
    \/ p.msg.type = "DoViewChange" /\ OnDoViewChange(p)
    \/ p.msg.type = "StartView" /\ OnStartView(p)
    \/ p.msg.type = "GetState" /\ OnGetState(p)
    \/ p.msg.type = "NewState" /\ OnNewState(p)

Tick(r) == Heartbeat(r) \/ Timeout(r) \/ RetryViewChange(r)

Next ==
    \/ \E c \in Clients, q \in Reqs : \E r \in Contacts[c] : Submit(r, c, q)
    \/ \E p \in msgs : Receive(p)
    \/ \E r \in Timers : Tick(r)

Spec == Init /\ [][Next]_vars

\* A live node's engine thread keeps draining its queue and its timer thread
\* keeps ticking: packets are handled, heartbeats sent, stalled view changes
\* retried.  Nothing makes a client submit, a timeout fire or a replica outside
\* Alive take any step.
Fairness ==
    \A r \in Alive :
        /\ WF_vars(\E p \in msgs : p.dst = r /\ Receive(p))
        /\ r \in Timers => WF_vars(Heartbeat(r)) /\ WF_vars(RetryViewChange(r))

FairSpec == Spec /\ Fairness

----------------------------------------------------------------------------
(* Properties *)

\* The type invariant of the replicas (struct Replica), of the network and of
\* the replies.
TypeOK ==
    /\ view \in [Replicas -> Views]
    /\ normal_view \in [Replicas -> Views]
    /\ status \in [Replicas -> {"Normal", "ViewChange"}]
    /\ log \in [Replicas -> Seq(Entry)]
    /\ commit \in [Replicas -> Nat]
    /\ client_table \in [Replicas -> [Clients -> [req : 0..MaxReq, res : Nat]]]
    /\ prepare_ok \in [Replicas -> SUBSET (Nat \X Replicas)]
    /\ svc_votes \in [Replicas -> SUBSET (Views \X Replicas)]
    /\ dvc \in [Replicas -> [Views -> Seq(Dvc)]]
    /\ max_view_seen \in [Replicas -> Views]
    /\ applied \in [Replicas -> Seq(Entry)]
    /\ msgs \subseteq Packet
    /\ replies \subseteq Reply
    /\ misinstalled \in BOOLEAN

\* A replica is Normal exactly when it holds the log of the view it is in, and
\* it never times out into a view below one it has heard of.
ViewDiscipline ==
    \A r \in Replicas :
        /\ normal_view[r] <= view[r] /\ view[r] <= max_view_seen[r]
        /\ status[r] = "Normal" <=> normal_view[r] = view[r]

\* A primary waiting for its view change has not got enough DoViewChanges yet.
StalledLacksQuorum ==
    \A r \in Replicas :
        status[r] = "ViewChange" /\ PrimaryOf(view[r]) = r
            => Len(dvc[r][view[r]]) < Quorum

Numbered(lg, from) == \A k \in 1..Len(lg) : lg[k].op_number = from + k - 1

\* Every log, wherever it is, numbers its entries 1, 2, 3...: apply passes these
\* numbers to the state machine, which drops what is not above its cursor.
NumberedLogs ==
    /\ \A r \in Replicas : Numbered(log[r], 1) /\ Numbered(applied[r], 1)
    /\ \A r \in Replicas, v \in Views : \A i \in DOMAIN dvc[r][v] :
          Numbered(dvc[r][v][i].log, 1)
    /\ \A p \in msgs : p.msg.type = "StartView" => Numbered(p.msg.log, 1)

\* No two replicas have applied different operations at the same position.
Agreement ==
    \A r, s \in Replicas : \A k \in 1..Len(applied[r]) :
        k <= Len(applied[s]) => applied[r][k] = applied[s][k]

\* The view change keeps Agreement as long as no log was misinstalled: a
\* DoViewChange quorum of different replicas, and no log cut within a view.
SafeUnlessMisinstalled == ~ misinstalled => Agreement

Holders(k, e) == {s \in Replicas : k <= Len(log[s]) /\ log[s][k] = e}

\* What any replica has applied is in the logs of a quorum, at its position, so
\* that no crash of a minority and no later view change can lose it.
Durable ==
    ~ misinstalled =>
        \A r \in Replicas : \A k \in 1..Len(applied[r]) :
            Cardinality(Holders(k, applied[r][k])) >= Quorum

\* A reply, from a fresh commit or from a client table, reports a position at
\* which some replica applied that request of that client, or a later one.
ReplyBacked ==
    \A rp \in replies : \E r \in Replicas :
        /\ rp.res \in 1..Len(applied[r])
        /\ applied[r][rp.res].client = rp.client
        /\ applied[r][rp.res].req >= rp.req

\* on_request and apply_through: no request is executed twice.
ExactlyOnce ==
    \A r \in Replicas : \A j, k \in 1..Len(applied[r]) :
        /\ applied[r][j].client = applied[r][k].client
        /\ applied[r][j].req = applied[r][k].req
        => j = k

Logged(c, q) ==
    \E r \in Replicas :
        /\ PrimaryOf(view[r]) = r /\ status[r] = "Normal"
        /\ \E k \in 1..Len(log[r]) : log[r][k].client = c /\ log[r][k].req = q

Replied(c, q) == \E rp \in replies : rp.client = c /\ rp.req = q

\* While the view is stable, what the primary logs is eventually answered,
\* however few of the backups beyond a quorum are running.
RequestsComplete ==
    \A c \in Clients, q \in Reqs : Logged(c, q) ~> Replied(c, q)

\* What one replica commits, every live replica eventually applies.
BackupsCatchUp ==
    \A s \in Alive, k \in 1..MaxLog :
        (\E r \in Replicas : commit[r] >= k) ~> (commit[s] >= k)

\* A live replica that entered a view change gets out of it, although the old
\* primary is dead and StartViewChange is not relayed by those who receive it.
ViewChangeCompletes ==
    \A r \in Alive : (status[r] = "ViewChange") ~> (status[r] = "Normal")

\* The sequence the replicas agree on: the longest one applied.
Chosen == CHOOSE s \in Range(applied) : \A r \in Replicas : Len(applied[r]) <= Len(s)

RL == INSTANCE ReplicatedLog WITH chosen <- Chosen, learned <- applied

\* In a stable view the protocol implements one replicated log.
ImplementsReplicatedLog == RL!Spec

============================================================================
