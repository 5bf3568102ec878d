------------------------------ MODULE Cluster -------------------------------
(***************************************************************************)
(* A cluster node in front of its replica (cluster.rs) and the failover    *)
(* client (ClusterClient of kessel-client): how a statement is submitted,  *)
(* relayed, redirected, retried and answered while the primary changes.    *)
(*                                                                         *)
(* Replication is taken at its interface: one committed log, entries only  *)
(* the primary has accepted, and a client table that every node derives    *)
(* from the prefix it has applied.  A node that has not heard of the new   *)
(* view still acts on its old one.  A statement is one operation, a SQL    *)
(* UPDATE (a read of the row, then a write of the patched record) or an    *)
(* UPDATE ... WHERE (a query for the rows, then a Txn that sets a column). *)
(***************************************************************************)
EXTENDS Naturals, Sequences, FiniteSets, FiniteSetsExt, SequencesExt

CONSTANTS
    N,         \* nodes, numbered from 0
    Stmts,     \* statements, each of a client of its own
    Kind,      \* "op", "update" or "dml"
    Column,    \* the column an UPDATE assigns
    Columns,
    Sessions,  \* operations sent in a session frame
    NoStmt,
    MaxView,   \* bound: views
    Budgets    \* bound: how often each statement may be handed to an engine

Nodes == 0..(N - 1)

ASSUME ClusterAssumption ==
    /\ N \in Nat \ {0} /\ MaxView \in Nat /\ Budgets \subseteq [Stmts -> Nat]
    /\ Kind \in [Stmts -> {"op", "update", "dml"}] /\ Column \in [Stmts -> Columns]
    /\ Sessions \subseteq {s \in Stmts : Kind[s] = "op"} /\ NoStmt \notin Stmts

VARIABLES
    log,       \* replication: the committed entries
    view,      \* replication: the newest view with a primary
    accepted,  \* entries a node took as primary and has not seen committed
    applied,   \* how much of log a node has applied
    nview,     \* the view a node is in
    normal,    \* whether its status is Normal
    relays,    \* requests backups sent on to their primary
    pending,   \* continuations of a node, by key
    raw_seq,   \* next id of apply_raw on a node
    iseq,      \* last internal id of a node
    call,      \* the statements' clients
    budget,    \* the bound on attempts of this behaviour
    orphans,   \* ghost: keys a node can no longer answer
    users      \* ghost: which statements used a key

replication == <<log, view, applied, nview, normal>>
engine == <<accepted, relays, pending, iseq, call, orphans, users>>
vars == <<replication, engine, raw_seq, budget>>

----------------------------------------------------------------------------
(* The replica, as the engine thread sees it. *)

BlankRow == [c \in Columns |-> NoStmt]

\* What an entry does to the row.
Effect(row, e) ==
    CASE e.kind = "update" -> e.rec
      [] e.kind = "set" -> [row EXCEPT ![Column[e.stmt]] = e.stmt]
      [] OTHER -> row

RowAt(i) == FoldLeft(Effect, BlankRow, SubSeq(log, 1, i))

\* What applying entry i returned.
ResultAt(i) ==
    CASE log[i].kind = "read" -> [kind |-> "record", rec |-> RowAt(i), at |-> i]
      [] log[i].kind = "query" -> [kind |-> "ids", rec |-> BlankRow, at |-> i]
      [] OTHER -> [kind |-> "ok", rec |-> BlankRow, at |-> i]

\* client_table of node n: the last applied entry with the key, 0 if none.
Cached(n, key) == Max({0} \cup {i \in 1..applied[n] : log[i].key = key})

\* is_active_primary
IsActivePrimary(n) == nview[n] % N = n /\ normal[n]

\* Keys: disjoint ranges, but the counters of all nodes start alike.
SessionKey(s) == <<"session", s>>
RawKey(k) == <<"raw", k>>
InternalKey(k) == <<"internal", k>>

----------------------------------------------------------------------------
(* The engine thread.  Its steps compute on st, the record of what the     *)
(* thread may change while it handles one event.                           *)

Engine == [accepted |-> accepted, relays |-> relays, pending |-> pending,
           iseq |-> iseq, call |-> call, orphans |-> orphans, users |-> users]

Become(st) ==
    /\ accepted' = st.accepted /\ relays' = st.relays /\ pending' = st.pending
    /\ iseq' = st.iseq /\ call' = st.call /\ orphans' = st.orphans /\ users' = st.users

Waiters(st, n, key) == {m \in st.pending[n] : m.key = key}

\* pending.insert: replaces the continuation the key had.
Insert(st, n, m) ==
    [st EXCEPT !.pending[n] = (@ \ Waiters(st, n, m.key)) \cup {m},
               !.users = @ \cup {<<m.key, m.stmt>>},
               !.orphans = @ \ {<<n, m.key>>}]

\* The result reaches the client, if it still waits for this attempt.
Answer(st, n, m, result) ==
    [st EXCEPT !.pending[n] = @ \ {m},
               !.call[m.stmt] = IF @.state = "waiting" /\ @.sends = m.sends
                                THEN [@ EXCEPT !.state = result] ELSE @]

\* Mutant: the primary answers when it accepts, not when it commits.
AcceptAnswered(st, n, e) ==
    LET w == Waiters(st, n, e.key) IN
    IF normal[n] /\ w # {} THEN Answer(st, n, CHOOSE m \in w : TRUE, "ok") ELSE st

\* on_request without a cached result: accepted by a primary, relayed by a
\* backup to the primary of its view, dropped during a view change.
Accept(st, n, e) ==
    IF ~ normal[n] THEN st
    ELSE IF nview[n] % N = n THEN [st EXCEPT !.accepted[n] = Append(@, e)]
    ELSE [st EXCEPT !.relays = @ \cup {[to |-> nview[n] % N, entry |-> e]}]

\* Mutant: the columns that are not assigned are left blank.
PatchBlank(rec, s) == [BlankRow EXCEPT ![Column[s]] = s]

\* build_update
Patch(rec, s) == [rec EXCEPT ![Column[s]] = s]

\* The second half of an UPDATE or UPDATE ... WHERE, under an internal key.
\* Nobody redirects it when the node is not the primary.
FollowUp(st, n, m, result) ==
    LET key == InternalKey(st.iseq[n] + 1)
        e == [key |-> key, stmt |-> m.stmt, at |-> result.at,
              kind |-> IF m.cont = "update" THEN "update" ELSE "set",
              rec |-> Patch(result.rec, m.stmt)]
        w == [key |-> key, stmt |-> m.stmt, sends |-> m.sends, cont |-> "reply"]
        st1 == [st EXCEPT !.iseq[n] = @ + 1, !.pending[n] = @ \ {m}]
        st2 == Insert(st1, n, w) IN
    IF Cached(n, key) # 0 /\ normal[n] THEN Answer(st2, n, w, ResultAt(Cached(n, key)).kind)
    ELSE Accept(IF IsActivePrimary(n) THEN st2
                ELSE [st2 EXCEPT !.orphans = @ \cup {<<n, key>>}], n, e)

\* process: a reply of the replica is routed by its key.
Route(st, n, key, result) ==
    IF Waiters(st, n, key) = {} THEN st
    ELSE LET m == CHOOSE w \in Waiters(st, n, key) : TRUE IN
         IF m.cont = "reply" \/ result.kind = "ok" THEN Answer(st, n, m, result.kind)
         ELSE IF (m.cont = "update") # (result.kind = "record") THEN Answer(st, n, m, "error")
         ELSE FollowUp(st, n, m, result)

\* Replica::handle of a request, and process of what comes out at once.
Request(st, n, e) ==
    IF normal[n] /\ Cached(n, e.key) # 0 THEN Route(st, n, e.key, ResultAt(Cached(n, e.key)))
    ELSE Accept(st, n, e)

\* Mutant: nobody is told to try another node.
RedirectNone(st, n, key) == st

\* redirect: what is still pending on a node that is not the active primary
\* is answered Unavailable.
Redirect(st, n, key) ==
    IF IsActivePrimary(n) \/ Waiters(st, n, key) = {} THEN st
    ELSE Answer(st, n, CHOOSE w \in Waiters(st, n, key) : TRUE, "unavailable")

\* Ev::Client and Ev::ClientRaw with the first operation of statement s.
Submit(st, n, s, key) ==
    LET cont == IF Kind[s] = "op" THEN "reply" ELSE Kind[s]
        e == [key |-> key, stmt |-> s, at |-> 0, rec |-> BlankRow,
              kind |-> CASE Kind[s] = "op" -> "write"
                         [] Kind[s] = "update" -> "read"
                         [] Kind[s] = "dml" -> "query"]
        m == [key |-> key, stmt |-> s, sends |-> st.call[s].sends, cont |-> cont] IN
    Redirect(Request(Insert(st, n, m), n, e), n, key)

\* The client's attempt, and the engine's when it is sent again.
Sending(s, n, key) ==
    [Engine EXCEPT !.call[s] = [state |-> "waiting", node |-> n, key |-> key, sends |-> @.sends + 1]]

----------------------------------------------------------------------------
Init ==
    /\ log = <<>> /\ view = 0
    /\ accepted = [n \in Nodes |-> <<>>] /\ applied = [n \in Nodes |-> 0]
    /\ nview = [n \in Nodes |-> 0] /\ normal = [n \in Nodes |-> TRUE]
    /\ relays = {} /\ pending = [n \in Nodes |-> {}]
    /\ raw_seq = [n \in Nodes |-> 0] /\ iseq = [n \in Nodes |-> 0]
    /\ call = [s \in Stmts |-> [state |-> "idle", node |-> 0, key |-> <<>>, sends |-> 0]]
    /\ orphans = {} /\ users = {} /\ budget \in Budgets

\* The client starts at any address and goes on in turn.
MaySend(s, n) ==
    /\ call[s].state = "idle" /\ call[s].sends < budget[s]
    /\ call[s].sends = 0 \/ n = call[s].node

\* ClusterClient sends a session frame: submit_as with the client's own key.
SendSession(s, n) ==
    /\ s \in Sessions /\ MaySend(s, n)
    /\ Become(Submit(Sending(s, n, SessionKey(s)), n, s, SessionKey(s)))
    /\ UNCHANGED <<replication, raw_seq, budget>>

\* ClusterClient::sql: apply_raw takes a new id at every attempt.
SendRaw(s, n) ==
    /\ s \notin Sessions /\ MaySend(s, n)
    /\ raw_seq' = [raw_seq EXCEPT ![n] = @ + 1]
    /\ Become(Submit(Sending(s, n, RawKey(raw_seq[n])), n, s, RawKey(raw_seq[n])))
    /\ UNCHANGED <<replication, budget>>

\* submit_with_unavailable_retry: same node and key.
Resend(s) ==
    LET n == call[s].node key == call[s].key IN
    /\ call[s].state = "unavailable" /\ call[s].sends < budget[s]
    /\ Become(Submit(Sending(s, n, key), n, s, key))
    /\ UNCHANGED <<replication, raw_seq, budget>>

\* The retry budget or the client's read time-out is over: next address.
Rotate(s) ==
    /\ call[s].state \in {"waiting", "unavailable"} /\ call[s].sends < budget[s]
    /\ call' = [call EXCEPT ![s].state = "idle", ![s].node = (@ + 1) % N]
    /\ UNCHANGED <<replication, accepted, relays, pending, iseq, orphans, users, raw_seq, budget>>

\* Ev::Peer with a relayed request.
RelayArrive(r) ==
    /\ r \in relays
    /\ Become(Request([Engine EXCEPT !.relays = @ \ {r}], r.to, r.entry))
    /\ UNCHANGED <<replication, raw_seq, budget>>

----------------------------------------------------------------------------
(* Replication, external to this module: VSR models it. *)

\* Ghost: what is pending on n when it stops serving a view.
Orphaned(n) == {<<n, m.key>> : m \in pending[n]}

\* A quorum has the next entry of the primary of the newest view.
Commit(n) ==
    /\ nview[n] = view /\ IsActivePrimary(n)
    /\ applied[n] = Len(log) /\ accepted[n] # <<>>
    /\ log' = Append(log, Head(accepted[n]))
    /\ applied' = [applied EXCEPT ![n] = @ + 1]
    /\ Become(Route([Engine EXCEPT !.accepted[n] = Tail(@)],
                    n, Head(accepted[n]).key, ResultAt(Len(log))'))
    /\ UNCHANGED <<view, nview, normal, raw_seq, budget>>

\* apply_through on a node that is behind: only a primary replies.
CatchUp(n) ==
    /\ nview[n] = view /\ normal[n] /\ applied[n] < Len(log)
    /\ applied' = [applied EXCEPT ![n] = @ + 1]
    /\ IF nview[n] % N = n
       THEN Become(Route(Engine, n, log[applied[n] + 1].key, ResultAt(applied[n] + 1)))
       ELSE UNCHANGED engine
    /\ UNCHANGED <<log, view, nview, normal, raw_seq, budget>>

\* A node's timer runs out: its status is ViewChange until a view begins.
StartViewChange(n) ==
    /\ view < MaxView /\ normal[n]
    /\ normal' = [normal EXCEPT ![n] = FALSE]
    /\ orphans' = orphans \cup Orphaned(n)
    /\ UNCHANGED <<log, view, applied, nview, accepted, relays, pending, iseq, call, users, raw_seq, budget>>

\* View v begins.  Its primary knows all that was committed, and the first k
\* of the entries the last primary had accepted.
BeginView(v, k) ==
    LET p == v % N old == accepted[view % N] IN
    /\ v > view /\ v <= MaxView /\ k <= Len(old)
    /\ view' = v /\ nview' = [nview EXCEPT ![p] = v]
    /\ normal' = [normal EXCEPT ![p] = TRUE]
    /\ accepted' = [accepted EXCEPT ![p] = SubSeq(old, 1, k)]
    /\ orphans' = orphans \cup Orphaned(p)
    /\ UNCHANGED <<log, applied, relays, pending, iseq, call, users, raw_seq, budget>>

\* A node hears of the newest view and drops what only it had accepted.
JoinView(n) ==
    /\ nview[n] < view
    /\ nview' = [nview EXCEPT ![n] = view]
    /\ normal' = [normal EXCEPT ![n] = TRUE]
    /\ accepted' = [accepted EXCEPT ![n] = <<>>]
    /\ orphans' = orphans \cup Orphaned(n)
    /\ UNCHANGED <<log, view, applied, relays, pending, iseq, call, users, raw_seq, budget>>

Next ==
    \/ \E s \in Stmts, n \in Nodes : SendSession(s, n) \/ SendRaw(s, n)
    \/ \E s \in Stmts : Resend(s) \/ Rotate(s)
    \/ \E r \in relays : RelayArrive(r)
    \/ \E n \in Nodes : Commit(n) \/ CatchUp(n) \/ StartViewChange(n) \/ JoinView(n)
    \/ \E v \in 1..MaxView, k \in 0..Len(accepted[view % N]) : BeginView(v, k)

Spec == Init /\ [][Next]_vars

----------------------------------------------------------------------------
States == {"idle", "waiting", "unavailable", "ok", "record", "ids", "error"}

TypeOK ==
    /\ view \in 0..MaxView /\ nview \in [Nodes -> 0..view] /\ normal \in [Nodes -> BOOLEAN]
    /\ applied \in [Nodes -> 0..Len(log)]
    /\ \A n \in Nodes : accepted[n] # <<>> => nview[n] % N = n
    /\ \A s \in Stmts : call[s].state \in States /\ call[s].sends \in 0..budget[s]
    /\ orphans \subseteq Nodes \X {u[1] : u \in users}

\* No other statement ever used a key of s.
OwnKeys(s) == \A u, w \in users : u[1] = w[1] /\ u[2] = s => w[2] = s

\* The write of s is committed.
Executed(s) == \E i \in DOMAIN log : log[i].stmt = s /\ log[i].kind \in {"write", "update", "set"}

(* A statement whose keys nobody else used is answered with its own        *)
(* result and only after its write is committed, through redirects,        *)
(* relays, retries on other nodes and lost entries of deposed primaries.   *)
AnsweredOwn ==
    \A s \in Stmts : OwnKeys(s) =>
        /\ call[s].state \notin {"record", "ids", "error"}
        /\ call[s].state = "ok" => Executed(s)

(* No lost wake-up: whoever waits on a node waits for an entry the node    *)
(* still has to see committed, unless the node stopped serving its view    *)
(* since, or sent the second half of an UPDATE on to another primary.      *)
NoLostWakeup ==
    \A n \in Nodes : \A m \in pending[n] :
        \/ <<n, m.key>> \in orphans
        \/ \E i \in DOMAIN accepted[n] : accepted[n][i].key = m.key
        \/ \E i \in (applied[n] + 1)..Len(log) : log[i].key = m.key

\* The last committed assignment of column c, 0 if none.
LastSet(c) ==
    Max({0} \cup {i \in DOMAIN log : log[i].kind \in {"update", "set"} /\ Column[log[i].stmt] = c})

(* A column has the value of the last committed statement that assigned    *)
(* it, unless a later UPDATE wrote back a record it had read before that   *)
(* assignment: the only way the read-modify-write loses an update.         *)
UpdatesKept ==
    \A c \in Columns :
        LET i == LastSet(c) row == RowAt(Len(log)) IN
        \/ row[c] = IF i = 0 THEN NoStmt ELSE log[i].stmt
        \/ \E j \in (i + 1)..Len(log) : log[j].kind = "update" /\ log[j].at < i

(* A statement that is answered Ok was executed: two calls never share a   *)
(* key, each of them "picks a fresh VSR client id".                        *)
AnsweredExecuted == \A s \in Stmts : call[s].state = "ok" => Executed(s)

============================================================================
