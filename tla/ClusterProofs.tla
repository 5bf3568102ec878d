--------------------------- MODULE ClusterProofs ---------------------------
(***************************************************************************)
(* Proofs about Cluster, for any number of nodes, statements, views and    *)
(* attempts: types, no lost wake-up, honest answers to statements whose    *)
(* keys nobody else used, and no update lost but by a stale write-back.    *)
(*                                                                         *)
(* The engine's steps compute on the record st, so the invariant is stated *)
(* for such a record and a log, and every operator is shown to keep it.    *)
(* What the log makes of the row is a fold: its equations are derived from *)
(* the fold's definition and only the last invariant needs them.           *)
(***************************************************************************)
EXTENDS Cluster, NumberFacts, SequenceTheorems, TLAPS

----------------------------------------------------------------------------
(* The invariant *)

InternalKeys == {InternalKey(k) : k \in Nat}
ClientKeys == {<<>>} \cup {SessionKey(s) : s \in Stmts} \cup {RawKey(k) : k \in Nat}

\* The first operation of a statement, and what is to be done with its result.
FirstKind(s) ==
    CASE Kind[s] = "op" -> "write" [] Kind[s] = "update" -> "read" [] Kind[s] = "dml" -> "query"
FirstCont(s) == IF Kind[s] = "op" THEN "reply" ELSE Kind[s]

\* Entry e is of a statement that used its key, and of the kind its key says.
EntryOK(us, e) ==
    /\ e.stmt \in Stmts /\ <<e.key, e.stmt>> \in us
    /\ \/ e.key \in InternalKeys /\ e.kind \in {"update", "set"}
       \/ e.key \in ClientKeys /\ e.kind = FirstKind(e.stmt)

\* So is continuation m.
WaiterOK(us, m) ==
    /\ m.stmt \in Stmts /\ <<m.key, m.stmt>> \in us
    /\ \/ m.key \in InternalKeys /\ m.cont = "reply"
       \/ m.key \in ClientKeys /\ m.cont = FirstCont(m.stmt)

\* With users us nobody else ever used a key of s.
Own(us, s) == \A u, w \in us : u[1] = w[1] /\ u[2] = s => w[2] = s

ExecutedIn(lg, s) ==
    \E i \in 1..Len(lg) : lg[i].stmt = s /\ lg[i].kind \in {"write", "update", "set"}

\* What a client with keys of its own may be told.
Honest(us, lg, s, state) ==
    Own(us, s) => state \notin {"record", "ids", "error"} /\ (state = "ok" => ExecutedIn(lg, s))

Calls == [state : States, node : Nodes, key : ClientKeys, sends : Nat]

Fields == {"accepted", "relays", "pending", "iseq", "call", "orphans", "users"}

\* The engines' state st is a record of functions ...
Shape(st) ==
    /\ DOMAIN st = Fields
    /\ DOMAIN st.accepted = Nodes /\ DOMAIN st.pending = Nodes
    /\ st.iseq \in [Nodes -> Nat] /\ st.call \in [Stmts -> Calls]

IsSequence(q) == \E S : q \in Seq(S)

\* ... whose entries and continuations are what their keys say, one continuation
\* per key, and clients were told the truth about the log lg.
EngineOK(st, lg) ==
    /\ Shape(st)
    /\ \A n \in Nodes :
          /\ IsSequence(st.accepted[n])
          /\ \A i \in 1..Len(st.accepted[n]) : EntryOK(st.users, st.accepted[n][i])
          /\ st.accepted[n] # <<>> => nview[n] % N = n
          /\ \A m \in st.pending[n] : WaiterOK(st.users, m)
          /\ \A m, w \in st.pending[n] : m.key = w.key => m = w
    /\ \A r \in st.relays : r.to \in Nodes /\ EntryOK(st.users, r.entry)
    /\ \A o \in st.orphans : \E n \in Nodes, u \in st.users : o = <<n, u[1]>>
    /\ \A i \in 1..Len(lg) : EntryOK(st.users, lg[i])
    /\ \A s \in Stmts : Honest(st.users, lg, s, st.call[s].state) /\ st.call[s].sends <= budget[s]

\* A node that has applied a entries of lg is yet to see key committed, and will
\* answer then, or can no longer answer.
Awaited(st, lg, a, n, key) ==
    \/ <<n, key>> \in st.orphans
    \/ /\ IsActivePrimary(n)
       /\ \/ \E i \in 1..Len(st.accepted[n]) : st.accepted[n][i].key = key
          \/ \E i \in (a + 1)..Len(lg) : lg[i].key = key

\* Nobody waits in vain, except for key k on node x.
Awake(st, lg, ap, x, k) ==
    \A n \in Nodes : \A m \in st.pending[n] :
        (n = x /\ m.key = k) \/ Awaited(st, lg, ap[n], n, m.key)

\* No exception: N is not a node.
AllAwake(st, lg, ap) == Awake(st, lg, ap, N, <<>>)

Replicated ==
    /\ IsSequence(log) /\ applied \in [Nodes -> Nat] /\ \A n \in Nodes : applied[n] <= Len(log)
    /\ view \in 0..MaxView /\ nview \in [Nodes -> Nat] /\ \A n \in Nodes : nview[n] <= view
    /\ normal \in [Nodes -> BOOLEAN] /\ raw_seq \in [Nodes -> Nat] /\ budget \in [Stmts -> Nat]

Inv == Replicated /\ EngineOK(Engine, log) /\ AllAwake(Engine, log, applied)

----------------------------------------------------------------------------
(* The engine's record *)

\* t is st after m was inserted on node n.
Inserted(st, t, n, m) ==
    /\ Shape(t) /\ t.accepted = st.accepted /\ t.relays = st.relays
    /\ t.iseq = st.iseq /\ t.call = st.call
    /\ t.users = st.users \cup {<<m.key, m.stmt>>} /\ t.orphans = st.orphans \ {<<n, m.key>>}
    /\ t.pending[n] = {w \in st.pending[n] : w.key # m.key} \cup {m}
    /\ \A x \in Nodes : x # n => t.pending[x] = st.pending[x]

LEMMA InsertIs ==
    ASSUME NEW st, Shape(st), NEW n \in Nodes, NEW m
    PROVE  Inserted(st, Insert(st, n, m), n, m)
<1> DEFINE P == (st.pending[n] \ Waiters(st, n, m.key)) \cup {m}
           t == Insert(st, n, m)
<1>1. /\ DOMAIN t = Fields /\ t.accepted = st.accepted /\ t.relays = st.relays
      /\ t.iseq = st.iseq /\ t.call = st.call /\ t.users = st.users \cup {<<m.key, m.stmt>>}
      /\ t.orphans = st.orphans \ {<<n, m.key>>} /\ t.pending = [st.pending EXCEPT ![n] = P]
    BY DEF Insert, Shape, Fields
<1>2. P = {w \in st.pending[n] : w.key # m.key} \cup {m}
    BY DEF Waiters
<1> HIDE DEF P, t
<1>3. /\ DOMAIN t.pending = Nodes /\ t.pending[n] = P
      /\ \A x \in Nodes : x # n => t.pending[x] = st.pending[x]
    BY <1>1 DEF Shape
<1>4. Shape(t)
    BY <1>1, <1>3 DEF Shape
<1>5. Inserted(st, t, n, m)
    BY <1>1, <1>2, <1>3, <1>4 DEF Inserted
<1> QED BY <1>5 DEF t

\* t is st after the answer result to m on node n.
Answered(st, t, n, m, result) ==
    /\ Shape(t) /\ t.accepted = st.accepted /\ t.relays = st.relays
    /\ t.iseq = st.iseq /\ t.users = st.users /\ t.orphans = st.orphans
    /\ t.pending[n] = st.pending[n] \ {m}
    /\ \A x \in Nodes : x # n => t.pending[x] = st.pending[x]
    /\ \A s \in Stmts : /\ t.call[s].sends = st.call[s].sends
                        /\ \/ t.call[s] = st.call[s]
                           \/ s = m.stmt /\ t.call[s].state = result

LEMMA AnswerIs ==
    ASSUME NEW st, Shape(st), NEW n \in Nodes, NEW m, m.stmt \in Stmts, NEW result \in States
    PROVE  Answered(st, Answer(st, n, m, result), n, m, result)
<1> DEFINE c == st.call[m.stmt]
           d == IF c.state = "waiting" /\ c.sends = m.sends THEN [c EXCEPT !.state = result] ELSE c
           cs == [st.call EXCEPT ![m.stmt] = d]
           t == Answer(st, n, m, result)
<1>1. /\ DOMAIN t = Fields /\ t.accepted = st.accepted /\ t.relays = st.relays
      /\ t.iseq = st.iseq /\ t.users = st.users /\ t.orphans = st.orphans
      /\ t.pending = [st.pending EXCEPT ![n] = st.pending[n] \ {m}] /\ t.call = cs
    BY DEF Answer, Shape, Fields
<1>2. c \in Calls
    BY DEF Shape
<1>3. d \in Calls /\ d.sends = c.sends /\ (d = c \/ d.state = result)
    BY <1>2 DEF Calls
<1>4. /\ cs \in [Stmts -> Calls]
      /\ \A s \in Stmts : cs[s].sends = st.call[s].sends
                          /\ (cs[s] = st.call[s] \/ (s = m.stmt /\ cs[s].state = result))
    <2> HIDE DEF d
    <2> QED BY <1>3 DEF Shape
<1> HIDE DEF cs, t
<1>5. /\ DOMAIN t.pending = Nodes /\ t.pending[n] = st.pending[n] \ {m}
      /\ \A x \in Nodes : x # n => t.pending[x] = st.pending[x]
    BY <1>1 DEF Shape
<1>6. Shape(t)
    BY <1>1, <1>4, <1>5 DEF Shape
<1>7. Answered(st, t, n, m, result)
    BY <1>1, <1>4, <1>5, <1>6 DEF Answered
<1> QED BY <1>7 DEF t

\* What on_request makes of an entry.
LEMMA AcceptIs ==
    ASSUME NEW st, Shape(st), NEW n \in Nodes, NEW e
    PROVE  \/ Accept(st, n, e) = st /\ ~ IsActivePrimary(n)
           \/ /\ IsActivePrimary(n) /\ nview[n] % N = n
              /\ Shape(Accept(st, n, e))
              /\ Accept(st, n, e).accepted[n] = Append(st.accepted[n], e)
              /\ \A x \in Nodes : x # n => Accept(st, n, e).accepted[x] = st.accepted[x]
              /\ Accept(st, n, e).relays = st.relays /\ Accept(st, n, e).pending = st.pending
              /\ Accept(st, n, e).iseq = st.iseq /\ Accept(st, n, e).call = st.call
              /\ Accept(st, n, e).orphans = st.orphans /\ Accept(st, n, e).users = st.users
           \/ /\ ~ IsActivePrimary(n)
              /\ Shape(Accept(st, n, e))
              /\ Accept(st, n, e).relays = st.relays \cup {[to |-> nview[n] % N, entry |-> e]}
              /\ Accept(st, n, e).accepted = st.accepted /\ Accept(st, n, e).pending = st.pending
              /\ Accept(st, n, e).iseq = st.iseq /\ Accept(st, n, e).call = st.call
              /\ Accept(st, n, e).orphans = st.orphans /\ Accept(st, n, e).users = st.users
<1>1. CASE ~ normal[n]
    BY <1>1 DEF Accept, IsActivePrimary
<1> DEFINE t == Accept(st, n, e)
<1>2. CASE normal[n] /\ nview[n] % N = n
    <2>1. /\ DOMAIN t = Fields /\ t.accepted = [st.accepted EXCEPT ![n] = Append(st.accepted[n], e)]
          /\ t.relays = st.relays /\ t.pending = st.pending /\ t.iseq = st.iseq
          /\ t.call = st.call /\ t.orphans = st.orphans /\ t.users = st.users
        BY <1>2 DEF Accept, Shape, Fields
    <2> HIDE DEF t
    <2>2. /\ t.accepted[n] = Append(st.accepted[n], e) /\ DOMAIN t.accepted = Nodes
          /\ \A x \in Nodes : x # n => t.accepted[x] = st.accepted[x]
        BY <2>1 DEF Shape
    <2>3. Shape(t)
        BY <2>1, <2>2 DEF Shape
    <2> QED BY <1>2, <2>1, <2>2, <2>3 DEF IsActivePrimary, t
<1>3. CASE normal[n] /\ nview[n] % N # n
    <2>1. /\ DOMAIN t = Fields /\ t.relays = st.relays \cup {[to |-> nview[n] % N, entry |-> e]}
          /\ t.accepted = st.accepted /\ t.pending = st.pending /\ t.iseq = st.iseq
          /\ t.call = st.call /\ t.orphans = st.orphans /\ t.users = st.users
        BY <1>3 DEF Accept, Shape, Fields
    <2> HIDE DEF t
    <2>2. Shape(t)
        BY <2>1 DEF Shape
    <2> QED BY <1>3, <2>1, <2>2 DEF IsActivePrimary, t
<1> QED BY <1>1, <1>2, <1>3

----------------------------------------------------------------------------
(* Keys, users and exceptions *)

LEMMA KeysApart == \A k : ~ (k \in InternalKeys /\ k \in ClientKeys)
BY DEF InternalKeys, ClientKeys, InternalKey, SessionKey, RawKey

LEMMA NodesAre == N \in Nat /\ N > 0 /\ N \notin Nodes /\ Nodes \subseteq Nat
                  /\ \A v \in Nat : v % N \in Nodes
BY ClusterAssumption DEF Nodes

LEMMA MoreUsers ==
    ASSUME NEW us, NEW vs, us \subseteq vs
    PROVE  /\ \A e : EntryOK(us, e) => EntryOK(vs, e)
           /\ \A m : WaiterOK(us, m) => WaiterOK(vs, m)
           /\ \A lg, s, x : Honest(us, lg, s, x) => Honest(vs, lg, s, x)
<1>1. \A s : Own(vs, s) => Own(us, s)
    BY DEF Own
<1> QED BY <1>1 DEF EntryOK, WaiterOK, Honest

LEMMA AwakeWeaker ==
    ASSUME NEW st, NEW lg, NEW ap, AllAwake(st, lg, ap), NEW x, NEW k
    PROVE  Awake(st, lg, ap, x, k)
BY NodesAre DEF AllAwake, Awake

\* The exception is none if nobody waits for it.
LEMMA AwakeAll ==
    ASSUME NEW st, NEW lg, NEW ap, NEW x, NEW k, Awake(st, lg, ap, x, k),
           x \in Nodes => \A m \in st.pending[x] : m.key # k
    PROVE  AllAwake(st, lg, ap)
BY DEF AllAwake, Awake

\* Sequences of whatever.
LEMMA Grown ==
    ASSUME NEW q, IsSequence(q), NEW e
    PROVE  /\ IsSequence(Append(q, e)) /\ Len(Append(q, e)) = Len(q) + 1 /\ Len(q) \in Nat
           /\ \A i \in 1..Len(q) : i \in 1..Len(q) + 1 /\ Append(q, e)[i] = q[i]
           /\ Append(q, e)[Len(q) + 1] = e /\ Append(q, e) # <<>>
           /\ \A i \in 1..Len(q) + 1 : i \in 1..Len(q) \/ i = Len(q) + 1
           /\ Len(q) + 1 \in 1..Len(q) + 1
<1>1. PICK S : q \in Seq(S)
    BY DEF IsSequence
<1>2. PICK T : T = S \cup {e}
    OBVIOUS
<1>3. q \in Seq(T) /\ e \in T
    <2>1. \A i \in 1..Len(q) : q[i] \in T
        BY <1>1, <1>2, ElementOfSeq
    <2>2. S \subseteq T
        BY <1>2
    <2> QED BY <1>1, <1>2, <2>2, SeqMonotonic
<1>4. /\ Append(q, e) \in Seq(T) /\ Len(Append(q, e)) = Len(q) + 1
      /\ \A i \in 1..Len(q) : Append(q, e)[i] = q[i]
      /\ Append(q, e)[Len(q) + 1] = e /\ Append(q, e) # <<>>
    BY <1>3, AppendProperties
<1>5. Len(q) \in Nat
    BY <1>1, LenProperties
<1>6. IsSequence(Append(q, e))
    BY <1>4 DEF IsSequence
<1> QED BY <1>4, <1>5, <1>6

----------------------------------------------------------------------------
(* The operators keep the invariant *)

LEMMA InsertOK ==
    ASSUME NEW st, NEW lg, EngineOK(st, lg), NEW n \in Nodes, NEW m, WaiterOK({<<m.key, m.stmt>>}, m)
    PROVE  /\ EngineOK(Insert(st, n, m), lg)
           /\ m \in Insert(st, n, m).pending[n]
           /\ \A ap : Awake(st, lg, ap, n, m.key) => Awake(Insert(st, n, m), lg, ap, n, m.key)
<1>0. Shape(st)
    BY DEF EngineOK
<1>1. PICK t : t = Insert(st, n, m)
    OBVIOUS
<1>2a. Inserted(st, t, n, m)
    BY <1>0, <1>1, InsertIs
<1>2. /\ Shape(t) /\ t.accepted = st.accepted /\ t.relays = st.relays
      /\ t.iseq = st.iseq /\ t.call = st.call
      /\ t.users = st.users \cup {<<m.key, m.stmt>>} /\ t.orphans = st.orphans \ {<<n, m.key>>}
      /\ t.pending[n] = {w \in st.pending[n] : w.key # m.key} \cup {m}
      /\ \A x \in Nodes : x # n => t.pending[x] = st.pending[x]
    BY <1>2a DEF Inserted
<1>3. /\ \A e : EntryOK(st.users, e) => EntryOK(t.users, e)
      /\ \A w : WaiterOK(st.users, w) => WaiterOK(t.users, w)
      /\ \A s, x : Honest(st.users, lg, s, x) => Honest(t.users, lg, s, x)
    BY <1>2, MoreUsers
<1>4. WaiterOK(t.users, m)
    BY <1>2, MoreUsers
<1>5. ASSUME NEW x \in Nodes
      PROVE  /\ \A w \in t.pending[x] : WaiterOK(t.users, w)
             /\ \A v, w \in t.pending[x] : v.key = w.key => v = w
    <2>1. /\ \A w \in st.pending[x] : WaiterOK(st.users, w)
          /\ \A v, w \in st.pending[x] : v.key = w.key => v = w
        BY DEF EngineOK
    <2>2. CASE x = n
        BY <1>2, <1>3, <1>4, <2>1, <2>2
    <2>3. CASE x # n
        BY <1>2, <1>3, <2>1, <2>3
    <2> QED BY <2>2, <2>3
<1>6. \A o \in t.orphans : \E x \in Nodes, u \in t.users : o = <<x, u[1]>>
    BY <1>2 DEF EngineOK
<1>7. EngineOK(t, lg)
    BY <1>2, <1>3, <1>5, <1>6 DEF EngineOK
<1>8. ASSUME NEW ap, Awake(st, lg, ap, n, m.key) PROVE Awake(t, lg, ap, n, m.key)
    <2> SUFFICES ASSUME NEW x \in Nodes, NEW w \in t.pending[x], ~ (x = n /\ w.key = m.key)
                 PROVE  Awaited(t, lg, ap[x], x, w.key)
        BY DEF Awake
    <2>1. w \in st.pending[x]
        BY <1>2
    <2>2. Awaited(st, lg, ap[x], x, w.key)
        BY <1>8, <2>1 DEF Awake
    <2>3. <<x, w.key>> # <<n, m.key>>
        OBVIOUS
    <2>4. <<x, w.key>> \in st.orphans => <<x, w.key>> \in t.orphans
        BY <1>2, <2>3
    <2> QED BY <1>2, <2>2, <2>4 DEF Awaited
<1> QED BY <1>1, <1>2, <1>7, <1>8

LEMMA AnswerOK ==
    ASSUME NEW st, NEW lg, EngineOK(st, lg), NEW n \in Nodes, NEW m \in st.pending[n],
           NEW result \in States, Honest(st.users, lg, m.stmt, result)
    PROVE  /\ EngineOK(Answer(st, n, m, result), lg)
           /\ \A ap : Awake(st, lg, ap, n, m.key) => AllAwake(Answer(st, n, m, result), lg, ap)
<1>0. m.stmt \in Stmts /\ Shape(st)
    BY DEF EngineOK, WaiterOK
<1>1. PICK t : t = Answer(st, n, m, result)
    OBVIOUS
<1>2. Answered(st, t, n, m, result)
    BY <1>0, <1>1, AnswerIs
<1>3. \A x \in Nodes : t.pending[x] \subseteq st.pending[x]
    BY <1>2 DEF Answered
<1>4. \A s \in Stmts : Honest(t.users, lg, s, t.call[s].state) /\ t.call[s].sends <= budget[s]
    BY <1>2 DEF EngineOK, Answered
<1>5. EngineOK(t, lg)
    BY <1>2, <1>3, <1>4 DEF EngineOK, Answered
<1>6. ASSUME NEW ap, Awake(st, lg, ap, n, m.key) PROVE AllAwake(t, lg, ap)
    <2>1. \A x \in Nodes : \A w \in t.pending[x] :
             (x = n /\ w.key = m.key) \/ Awaited(st, lg, ap[x], x, w.key)
        BY <1>3, <1>6 DEF Awake
    <2>2. \A x, k, a : Awaited(st, lg, a, x, k) => Awaited(t, lg, a, x, k)
        BY <1>2 DEF Awaited, Answered
    <2>3. Awake(t, lg, ap, n, m.key)
        BY <2>1, <2>2 DEF Awake
    <2>4. \A w \in t.pending[n] : w.key # m.key
        BY <1>2 DEF EngineOK, Answered
    <2> QED BY <2>3, <2>4, AwakeAll
<1> QED BY <1>1, <1>5, <1>6

LEMMA AcceptOK ==
    ASSUME Replicated, NEW st, NEW lg, EngineOK(st, lg), NEW n \in Nodes, NEW e,
           EntryOK(st.users, e)
    PROVE  /\ EngineOK(Accept(st, n, e), lg)
           /\ \A ap, x, k : Awake(st, lg, ap, x, k) => Awake(Accept(st, n, e), lg, ap, x, k)
           /\ \A ap : IsActivePrimary(n) /\ Awake(st, lg, ap, n, e.key)
                         => AllAwake(Accept(st, n, e), lg, ap)
<1>1. PICK t : t = Accept(st, n, e)
    OBVIOUS
<1>2. CASE t = st /\ ~ IsActivePrimary(n)
    BY <1>1, <1>2
<1>3. CASE /\ ~ IsActivePrimary(n)
           /\ Shape(t) /\ t.relays = st.relays \cup {[to |-> nview[n] % N, entry |-> e]}
           /\ t.accepted = st.accepted /\ t.pending = st.pending
           /\ t.iseq = st.iseq /\ t.call = st.call
           /\ t.orphans = st.orphans /\ t.users = st.users
    <2>1. nview[n] % N \in Nodes
        BY NodesAre DEF Replicated
    <2>2. \A r \in t.relays : r.to \in Nodes /\ EntryOK(t.users, r.entry)
        BY <1>3, <2>1 DEF EngineOK
    <2>3. EngineOK(t, lg)
        BY <1>3, <2>2 DEF EngineOK
    <2>4. \A ap, x, k : Awake(st, lg, ap, x, k) => Awake(t, lg, ap, x, k)
        <3>1. \A x, k, a : Awaited(st, lg, a, x, k) => Awaited(t, lg, a, x, k)
            BY <1>3 DEF Awaited
        <3> QED BY <1>3, <3>1 DEF Awake
    <2> QED BY <1>1, <1>3, <2>3, <2>4
<1>4. CASE /\ IsActivePrimary(n) /\ nview[n] % N = n /\ Shape(t)
           /\ t.accepted[n] = Append(st.accepted[n], e)
           /\ \A x \in Nodes : x # n => t.accepted[x] = st.accepted[x]
           /\ t.relays = st.relays /\ t.pending = st.pending
           /\ t.iseq = st.iseq /\ t.call = st.call
           /\ t.orphans = st.orphans /\ t.users = st.users
    <2>0. PICK q : q = st.accepted[n]
        OBVIOUS
    <2>1. IsSequence(q) /\ \A i \in 1..Len(q) : EntryOK(st.users, q[i])
        BY <2>0 DEF EngineOK
    <2>2. PICK p : p = Append(q, e)
        OBVIOUS
    <2>3. /\ IsSequence(p) /\ Len(p) = Len(q) + 1 /\ Len(q) \in Nat
          /\ \A i \in 1..Len(q) : i \in 1..Len(p) /\ p[i] = q[i]
          /\ Len(q) + 1 \in 1..Len(p) /\ p[Len(q) + 1] = e
          /\ \A i \in 1..Len(p) : i \in 1..Len(q) \/ i = Len(q) + 1
        BY <2>1, <2>2, Grown
    <2>4. t.accepted[n] = p
        BY <1>4, <2>0, <2>2
    <2>5. \A i \in 1..Len(p) : EntryOK(t.users, p[i])
        BY <1>4, <2>1, <2>3
    <2>6. ASSUME NEW x \in Nodes
          PROVE  /\ IsSequence(t.accepted[x])
                 /\ \A i \in 1..Len(t.accepted[x]) : EntryOK(t.users, t.accepted[x][i])
                 /\ t.accepted[x] # <<>> => nview[x] % N = x
        <3>1. CASE x = n
            BY <1>4, <2>3, <2>4, <2>5, <3>1
        <3>2. CASE x # n
            BY <1>4, <3>2 DEF EngineOK
        <3> QED BY <3>1, <3>2
    <2>7. EngineOK(t, lg)
        BY <1>4, <2>6 DEF EngineOK
    <2>8. \A x \in Nodes : \A k, a : Awaited(st, lg, a, x, k) => Awaited(t, lg, a, x, k)
        <3> TAKE x \in Nodes
        <3> TAKE k, a
        <3>1. CASE x = n
            <4>1. (\E i \in 1..Len(q) : q[i].key = k) => \E i \in 1..Len(p) : p[i].key = k
                BY <2>3
            <4> QED BY <1>4, <2>0, <2>4, <3>1, <4>1 DEF Awaited
        <3>2. CASE x # n
            BY <1>4, <3>2 DEF Awaited
        <3> QED BY <3>1, <3>2
    <2>9. \A ap, x, k : Awake(st, lg, ap, x, k) => Awake(t, lg, ap, x, k)
        BY <1>4, <2>8 DEF Awake
    <2>10. \A a : Awaited(t, lg, a, n, e.key)
        BY <1>4, <2>3, <2>4 DEF Awaited
    <2>11. \A ap : Awake(st, lg, ap, n, e.key) => AllAwake(t, lg, ap)
        <3> TAKE ap
        <3> HAVE Awake(st, lg, ap, n, e.key)
        <3>1. Awake(t, lg, ap, n, e.key)
            BY <2>9
        <3>2. \A x \in Nodes : \A m \in t.pending[x] : Awaited(t, lg, ap[x], x, m.key)
            BY <2>10, <3>1 DEF Awake
        <3> QED BY <3>2 DEF Awake, AllAwake
    <2> QED BY <1>1, <2>7, <2>9, <2>11
<1> QED
    <2>1. Shape(st)
        BY DEF EngineOK
    <2> QED BY <1>1, <1>2, <1>3, <1>4, <2>1, AcceptIs
----------------------------------------------------------------------------
(* Results *)

KindOf(kind) == CASE kind = "read" -> "record" [] kind = "query" -> "ids" [] OTHER -> "ok"

LEMMA ResultKind == \A i : ResultAt(i).kind = KindOf(log[i].kind)
BY DEF ResultAt, KindOf

\* A hit in the client table is an entry of the log with that key.
LEMMA CachedIs ==
    ASSUME Replicated, NEW n \in Nodes, NEW key, Cached(n, key) # 0
    PROVE  Cached(n, key) \in 1..Len(log) /\ log[Cached(n, key)].key = key
<1> DEFINE S == {0} \cup {i \in 1..applied[n] : log[i].key = key}
<1>1. PICK L : log \in Seq(L)
    BY DEF Replicated, IsSequence
<1>2. Len(log) \in Nat
    BY <1>1, LenProperties
<1>3. applied[n] \in Nat /\ applied[n] <= Len(log)
    BY DEF Replicated
<1>4. S \subseteq 0..applied[n] /\ S # {}
    BY <1>3
<1>5. \A i \in S : i # 0 => i \in 1..Len(log) /\ log[i].key = key
    BY <1>2, <1>3
<1> HIDE DEF S
<1>6. Max(S) \in S
    BY <1>3, <1>4, MaxOfBounded
<1>7. Cached(n, key) = Max(S)
    BY DEF Cached, S
<1> QED BY <1>5, <1>6, <1>7

\* What the result of entry i of the log may be used for: it answers a reply and
\* an "ok" ends a statement; a result of the wrong kind shows that the key of the
\* statement was used by another one.
LEMMA Truth ==
    ASSUME NEW st, NEW lg, EngineOK(st, lg), NEW n \in Nodes, NEW m \in st.pending[n],
           NEW i \in 1..Len(lg), lg[i].key = m.key
    PROVE  /\ KindOf(lg[i].kind) \in States
           /\ m.cont = "reply" \/ KindOf(lg[i].kind) = "ok"
                 => Honest(st.users, lg, m.stmt, KindOf(lg[i].kind))
           /\ m.cont # "reply" /\ (m.cont = "update") # (KindOf(lg[i].kind) = "record")
                 /\ KindOf(lg[i].kind) # "ok" => Honest(st.users, lg, m.stmt, "error")
<1>1. PICK e : e = lg[i]
    OBVIOUS
<1>2. EntryOK(st.users, e) /\ WaiterOK(st.users, m) /\ e.key = m.key
    BY <1>1 DEF EngineOK
<1>3. KindOf(e.kind) \in States
    BY DEF KindOf, States
<1>4. Own(st.users, m.stmt) => e.stmt = m.stmt
    <2>1. <<e.key, e.stmt>> \in st.users /\ <<m.key, m.stmt>> \in st.users
        BY <1>2 DEF EntryOK, WaiterOK
    <2> QED BY <1>2, <2>1 DEF Own
<1>5. ASSUME e.stmt = m.stmt
      PROVE  \/ e.kind \in {"write", "update", "set"}
             \/ e.kind = "read" /\ m.cont = "update"
             \/ e.kind = "query" /\ m.cont = "dml"
    <2>1. CASE e.key \in InternalKeys
        BY <1>2, <2>1, KeysApart DEF EntryOK
    <2>2. CASE e.key \in ClientKeys
        <3>1. e.kind = FirstKind(m.stmt) /\ m.cont = FirstCont(m.stmt)
            BY <1>2, <1>5, <2>2, KeysApart DEF EntryOK, WaiterOK
        <3>2. Kind[m.stmt] \in {"op", "update", "dml"}
            BY <1>2, ClusterAssumption DEF WaiterOK
        <3> QED BY <3>1, <3>2 DEF FirstKind, FirstCont
    <2> QED BY <1>2, <2>1, <2>2 DEF EntryOK
<1>6. e.kind \in {"write", "update", "set"} => KindOf(e.kind) = "ok"
    BY DEF KindOf
<1>7. e.stmt = m.stmt /\ e.kind \in {"write", "update", "set"} => ExecutedIn(lg, m.stmt)
    BY <1>1 DEF ExecutedIn
<1>8. KindOf("read") = "record" /\ KindOf("query") = "ids"
    BY DEF KindOf
<1>9. CASE ~ Own(st.users, m.stmt)
    BY <1>1, <1>3, <1>9 DEF Honest
<1>10. CASE Own(st.users, m.stmt)
    <2>1. e.stmt = m.stmt
        BY <1>4, <1>10
    <2>2. CASE e.kind \in {"write", "update", "set"}
        <3>1. KindOf(e.kind) = "ok" /\ ExecutedIn(lg, m.stmt)
            BY <1>6, <1>7, <2>1, <2>2
        <3> QED BY <1>1, <1>3, <3>1 DEF Honest
    <2>3. CASE e.kind = "read" /\ m.cont = "update"
        BY <1>1, <1>3, <1>8, <2>3
    <2>4. CASE e.kind = "query" /\ m.cont = "dml"
        BY <1>1, <1>3, <1>8, <2>4
    <2> QED BY <1>5, <2>1, <2>2, <2>3, <2>4
<1> QED BY <1>9, <1>10

\* A node gives up on a key it waits for.
LEMMA OrphanOK ==
    ASSUME NEW st, NEW lg, EngineOK(st, lg), NEW n \in Nodes, NEW w \in st.pending[n],
           NEW t, t = [st EXCEPT !.orphans = @ \cup {<<n, w.key>>}]
    PROVE  /\ EngineOK(t, lg) /\ t.users = st.users
           /\ \A ap : Awake(st, lg, ap, n, w.key) => AllAwake(t, lg, ap)
<1>1. Shape(st)
    BY DEF EngineOK
<1>2. /\ DOMAIN t = Fields /\ t.accepted = st.accepted /\ t.relays = st.relays
      /\ t.pending = st.pending /\ t.iseq = st.iseq /\ t.users = st.users /\ t.call = st.call
      /\ t.orphans = st.orphans \cup {<<n, w.key>>}
    BY <1>1 DEF Shape, Fields
<1>3. Shape(t)
    BY <1>1, <1>2 DEF Shape
<1>4. \A o \in t.orphans : \E x \in Nodes, u \in t.users : o = <<x, u[1]>>
    <2>1. <<w.key, w.stmt>> \in t.users
        BY <1>2 DEF EngineOK, WaiterOK
    <2>2. \E x \in Nodes, u \in t.users : <<n, w.key>> = <<x, u[1]>>
        BY <2>1
    <2>3. \A o \in st.orphans : \E x \in Nodes, u \in t.users : o = <<x, u[1]>>
        BY <1>2 DEF EngineOK
    <2> QED BY <1>2, <2>2, <2>3
<1>5. EngineOK(t, lg)
    BY <1>2, <1>3, <1>4 DEF EngineOK
<1>6. \A x, k, a : Awaited(st, lg, a, x, k) => Awaited(t, lg, a, x, k)
    BY <1>2 DEF Awaited
<1>7. \A a : Awaited(t, lg, a, n, w.key)
    BY <1>2 DEF Awaited
<1>8. ASSUME NEW ap, Awake(st, lg, ap, n, w.key) PROVE AllAwake(t, lg, ap)
    <2>1. \A x \in Nodes : \A m \in t.pending[x] : Awaited(t, lg, ap[x], x, m.key)
        BY <1>2, <1>6, <1>7, <1>8 DEF Awake
    <2> QED BY <2>1 DEF Awake, AllAwake
<1> QED BY <1>2, <1>5, <1>8

\* The log lg goes on where log ends.
Longer(lg) == /\ Len(lg) \in Nat /\ Len(log) \in Nat /\ Len(log) <= Len(lg)
              /\ \A i \in 1..Len(log) : lg[i] = log[i]

\* The first half of a statement is done: its continuation leaves the table.
LEMMA TakeOK ==
    ASSUME NEW st, NEW lg, EngineOK(st, lg), NEW n \in Nodes, NEW m \in st.pending[n],
           NEW t, t = [st EXCEPT !.iseq[n] = @ + 1, !.pending[n] = @ \ {m}]
    PROVE  /\ EngineOK(t, lg)
           /\ \A ap : Awake(st, lg, ap, n, m.key) => AllAwake(t, lg, ap)
<1>1. Shape(st)
    BY DEF EngineOK
<1>2. /\ DOMAIN t = Fields /\ t.accepted = st.accepted /\ t.relays = st.relays
      /\ t.iseq = [st.iseq EXCEPT ![n] = st.iseq[n] + 1]
      /\ t.pending = [st.pending EXCEPT ![n] = st.pending[n] \ {m}]
      /\ t.users = st.users /\ t.call = st.call /\ t.orphans = st.orphans
    BY <1>1 DEF Shape, Fields
<1>3. /\ t.iseq \in [Nodes -> Nat] /\ DOMAIN t.pending = Nodes
      /\ \A x \in Nodes : t.pending[x] \subseteq st.pending[x]
      /\ t.pending[n] = st.pending[n] \ {m}
    BY <1>1, <1>2 DEF Shape
<1>4. Shape(t)
    BY <1>1, <1>2, <1>3 DEF Shape
<1>5. EngineOK(t, lg)
    BY <1>2, <1>3, <1>4 DEF EngineOK
<1>6. \A x, k, a : Awaited(st, lg, a, x, k) => Awaited(t, lg, a, x, k)
    BY <1>2 DEF Awaited
<1>7. ASSUME NEW ap, Awake(st, lg, ap, n, m.key) PROVE AllAwake(t, lg, ap)
    <2>1. Awake(t, lg, ap, n, m.key)
        BY <1>3, <1>6, <1>7 DEF Awake
    <2>2. \A w \in t.pending[n] : w.key # m.key
        BY <1>3 DEF EngineOK
    <2> QED BY <2>1, <2>2, AwakeAll
<1> QED BY <1>5, <1>7

LEMMA FollowUpOK ==
    ASSUME Replicated, NEW st, NEW lg, EngineOK(st, lg), Longer(lg), NEW n \in Nodes,
           NEW m \in st.pending[n], NEW result
    PROVE  /\ EngineOK(FollowUp(st, n, m, result), lg)
           /\ \A ap : Awake(st, lg, ap, n, m.key) => AllAwake(FollowUp(st, n, m, result), lg, ap)
<1>1. PICK key : key = InternalKey(st.iseq[n] + 1)
    OBVIOUS
<1>2. PICK e : e = [key |-> key, stmt |-> m.stmt, at |-> result.at,
                    kind |-> IF m.cont = "update" THEN "update" ELSE "set",
                    rec |-> Patch(result.rec, m.stmt)]
    OBVIOUS
<1>3. PICK w : w = [key |-> key, stmt |-> m.stmt, sends |-> m.sends, cont |-> "reply"]
    OBVIOUS
<1>4. PICK st1 : st1 = [st EXCEPT !.iseq[n] = @ + 1, !.pending[n] = @ \ {m}]
    OBVIOUS
<1>5. PICK st2 : st2 = Insert(st1, n, w)
    OBVIOUS
<1>6. PICK st3 : st3 = [st2 EXCEPT !.orphans = @ \cup {<<n, key>>}]
    OBVIOUS
<1>7. PICK t : t = FollowUp(st, n, m, result)
    OBVIOUS
<1>8. t = IF Cached(n, key) # 0 /\ normal[n] THEN Answer(st2, n, w, ResultAt(Cached(n, key)).kind)
          ELSE Accept(IF IsActivePrimary(n) THEN st2 ELSE st3, n, e)
    BY <1>1, <1>2, <1>3, <1>4, <1>5, <1>6, <1>7 DEF FollowUp
<1>9. key \in InternalKeys
    <2>1. st.iseq[n] + 1 \in Nat
        BY DEF EngineOK, Shape
    <2> QED BY <1>1, <2>1 DEF InternalKeys
<1>10. m.stmt \in Stmts
    BY DEF EngineOK, WaiterOK
<1>11. w.key = key /\ w.stmt = m.stmt /\ w.cont = "reply"
    BY <1>3
<1>12. e.key = key /\ e.stmt = m.stmt /\ e.kind \in {"update", "set"}
    BY <1>2
<1>13. WaiterOK({<<w.key, w.stmt>>}, w)
    BY <1>9, <1>10, <1>11 DEF WaiterOK
<1>14. /\ EngineOK(st1, lg)
       /\ \A ap : Awake(st, lg, ap, n, m.key) => AllAwake(st1, lg, ap)
    BY <1>4, TakeOK
<1>15. /\ EngineOK(st2, lg) /\ w \in st2.pending[n]
       /\ \A ap : Awake(st1, lg, ap, n, w.key) => Awake(st2, lg, ap, n, w.key)
    BY <1>5, <1>13, <1>14, InsertOK
<1>16. \A ap : Awake(st, lg, ap, n, m.key) => Awake(st2, lg, ap, n, w.key)
    BY <1>14, <1>15, AwakeWeaker
<1>17. <<key, m.stmt>> \in st2.users
    BY <1>11, <1>15 DEF EngineOK, WaiterOK
<1>18. EntryOK(st2.users, e)
    BY <1>9, <1>10, <1>12, <1>17 DEF EntryOK
<1>19. CASE Cached(n, key) # 0 /\ normal[n]
    <2>1. PICK i : i = Cached(n, key)
        OBVIOUS
    <2>2. i \in 1..Len(log) /\ log[i].key = key
        BY <1>19, <2>1, CachedIs
    <2>3. i \in 1..Len(lg) /\ lg[i] = log[i]
        BY <2>2 DEF Longer
    <2>4. PICK k : k = ResultAt(i).kind
        OBVIOUS
    <2>5. k = KindOf(lg[i].kind)
        BY <2>3, <2>4, ResultKind
    <2>6. k \in States /\ Honest(st2.users, lg, w.stmt, k)
        BY <1>11, <1>15, <2>2, <2>3, <2>5, Truth
    <2>7. t = Answer(st2, n, w, k)
        BY <1>8, <1>19, <2>1, <2>4
    <2>8. EngineOK(t, lg) /\ \A ap : Awake(st2, lg, ap, n, w.key) => AllAwake(t, lg, ap)
        BY <1>15, <2>6, <2>7, AnswerOK
    <2> QED BY <1>7, <1>16, <2>8
<1>20. CASE ~ (Cached(n, key) # 0 /\ normal[n]) /\ IsActivePrimary(n)
    <2>1. t = Accept(st2, n, e)
        BY <1>8, <1>20
    <2>2. /\ EngineOK(t, lg)
          /\ \A ap : Awake(st2, lg, ap, n, e.key) => AllAwake(t, lg, ap)
        BY <1>15, <1>18, <1>20, <2>1, AcceptOK
    <2> QED BY <1>7, <1>11, <1>12, <1>16, <2>2
<1>21. CASE ~ (Cached(n, key) # 0 /\ normal[n]) /\ ~ IsActivePrimary(n)
    <2>1. t = Accept(st3, n, e)
        BY <1>8, <1>21
    <2>2. /\ EngineOK(st3, lg) /\ st3.users = st2.users
          /\ \A ap : Awake(st2, lg, ap, n, w.key) => AllAwake(st3, lg, ap)
        BY <1>6, <1>11, <1>15, OrphanOK
    <2>3. EntryOK(st3.users, e)
        BY <1>18, <2>2
    <2>4. /\ EngineOK(t, lg)
          /\ \A ap : Awake(st3, lg, ap, N, <<>>) => Awake(t, lg, ap, N, <<>>)
        BY <2>1, <2>2, <2>3, AcceptOK
    <2> QED BY <1>7, <1>16, <2>2, <2>4 DEF AllAwake
<1> QED BY <1>19, <1>20, <1>21

\* The reply to entry i of the log reaches whoever waits for its key.
LEMMA RouteOK ==
    ASSUME Replicated, NEW st, NEW lg, EngineOK(st, lg), Longer(lg), NEW n \in Nodes, NEW key,
           NEW i \in 1..Len(lg), lg[i].key = key, NEW result, result.kind = KindOf(lg[i].kind)
    PROVE  /\ EngineOK(Route(st, n, key, result), lg)
           /\ \A ap : Awake(st, lg, ap, n, key) => AllAwake(Route(st, n, key, result), lg, ap)
<1>1. CASE Waiters(st, n, key) = {}
    <2>1. \A m \in st.pending[n] : m.key # key
        BY <1>1 DEF Waiters
    <2>2. Route(st, n, key, result) = st
        BY <1>1 DEF Route
    <2> QED BY <2>1, <2>2, AwakeAll
<1>2. CASE Waiters(st, n, key) # {}
    <2>1. PICK m : m = CHOOSE w \in Waiters(st, n, key) : TRUE
        OBVIOUS
    <2>2. m \in st.pending[n] /\ m.key = key
        <3>1. m \in Waiters(st, n, key)
            BY <1>2, <2>1
        <3> QED BY <3>1 DEF Waiters
    <2>3. PICK t : t = Route(st, n, key, result)
        OBVIOUS
    <2>4. t = IF m.cont = "reply" \/ result.kind = "ok" THEN Answer(st, n, m, result.kind)
              ELSE IF (m.cont = "update") # (result.kind = "record") THEN Answer(st, n, m, "error")
              ELSE FollowUp(st, n, m, result)
        BY <1>2, <2>1, <2>3 DEF Route
    <2>5. /\ result.kind \in States
          /\ m.cont = "reply" \/ result.kind = "ok" => Honest(st.users, lg, m.stmt, result.kind)
          /\ m.cont # "reply" /\ (m.cont = "update") # (result.kind = "record")
                /\ result.kind # "ok" => Honest(st.users, lg, m.stmt, "error")
        BY <2>2, Truth
    <2>6. CASE m.cont = "reply" \/ result.kind = "ok"
        <3>1. PICK k : k = result.kind
            OBVIOUS
        <3>2. t = Answer(st, n, m, k) /\ k \in States /\ Honest(st.users, lg, m.stmt, k)
            BY <2>4, <2>5, <2>6, <3>1
        <3> QED BY <2>2, <2>3, <3>2, AnswerOK
    <2>7. CASE ~ (m.cont = "reply" \/ result.kind = "ok")
               /\ (m.cont = "update") # (result.kind = "record")
        <3>1. t = Answer(st, n, m, "error") /\ Honest(st.users, lg, m.stmt, "error")
            BY <2>4, <2>5, <2>7
        <3>2. "error" \in States
            BY DEF States
        <3> QED BY <2>2, <2>3, <3>1, <3>2, AnswerOK
    <2>8. CASE ~ (m.cont = "reply" \/ result.kind = "ok")
               /\ ~ ((m.cont = "update") # (result.kind = "record"))
        <3>1. t = FollowUp(st, n, m, result)
            BY <2>4, <2>8
        <3> QED BY <2>2, <2>3, <3>1, FollowUpOK
    <2> QED BY <2>6, <2>7, <2>8
<1> QED BY <1>1, <1>2

LEMMA LongerSelf == Replicated => Longer(log)
<1> SUFFICES ASSUME Replicated PROVE Len(log) \in Nat
    BY DEF Longer
<1>1. PICK L : log \in Seq(L)
    BY DEF Replicated, IsSequence
<1> QED BY <1>1, LenProperties

LEMMA RequestOK ==
    ASSUME Replicated, NEW st, EngineOK(st, log), NEW n \in Nodes, NEW e, EntryOK(st.users, e)
    PROVE  /\ EngineOK(Request(st, n, e), log)
           /\ Awake(st, log, applied, n, e.key) => Awake(Request(st, n, e), log, applied, n, e.key)
           /\ Awake(st, log, applied, n, e.key) /\ IsActivePrimary(n)
                 => AllAwake(Request(st, n, e), log, applied)
           /\ AllAwake(st, log, applied) => AllAwake(Request(st, n, e), log, applied)
<1>1. PICK t : t = Request(st, n, e)
    OBVIOUS
<1>2. CASE normal[n] /\ Cached(n, e.key) # 0
    <2>1. PICK i : i = Cached(n, e.key)
        OBVIOUS
    <2>2. i \in 1..Len(log) /\ log[i].key = e.key
        BY <1>2, <2>1, CachedIs
    <2>3. PICK result : result = ResultAt(i)
        OBVIOUS
    <2>4. result.kind = KindOf(log[i].kind)
        BY <2>3, ResultKind
    <2>5. PICK k : k = e.key
        OBVIOUS
    <2>6. t = Route(st, n, k, result)
        BY <1>1, <1>2, <2>1, <2>3, <2>5 DEF Request
    <2>7. /\ EngineOK(t, log)
          /\ Awake(st, log, applied, n, k) => AllAwake(t, log, applied)
        BY <2>2, <2>4, <2>5, <2>6, RouteOK, LongerSelf
    <2> QED BY <1>1, <2>5, <2>7, AwakeWeaker
<1>3. CASE ~ (normal[n] /\ Cached(n, e.key) # 0)
    <2>1. t = Accept(st, n, e)
        BY <1>1, <1>3 DEF Request
    <2>2. /\ EngineOK(t, log)
          /\ \A x, k : Awake(st, log, applied, x, k) => Awake(t, log, applied, x, k)
          /\ IsActivePrimary(n) /\ Awake(st, log, applied, n, e.key) => AllAwake(t, log, applied)
        BY <2>1, AcceptOK
    <2> QED BY <1>1, <2>2 DEF AllAwake
<1> QED BY <1>2, <1>3

LEMMA RedirectOK ==
    ASSUME NEW st, NEW lg, EngineOK(st, lg), NEW n \in Nodes, NEW key, NEW ap,
           Awake(st, lg, ap, n, key), IsActivePrimary(n) => AllAwake(st, lg, ap)
    PROVE  EngineOK(Redirect(st, n, key), lg) /\ AllAwake(Redirect(st, n, key), lg, ap)
<1>1. CASE IsActivePrimary(n)
    BY <1>1 DEF Redirect
<1>2. CASE Waiters(st, n, key) = {}
    <2>1. \A m \in st.pending[n] : m.key # key
        BY <1>2 DEF Waiters
    <2>2. Redirect(st, n, key) = st
        BY <1>2 DEF Redirect
    <2> QED BY <2>1, <2>2, AwakeAll
<1>3. CASE ~ IsActivePrimary(n) /\ Waiters(st, n, key) # {}
    <2>1. PICK m : m = CHOOSE w \in Waiters(st, n, key) : TRUE
        OBVIOUS
    <2>2. m \in st.pending[n] /\ m.key = key
        <3>1. m \in Waiters(st, n, key)
            BY <1>3, <2>1
        <3> QED BY <3>1 DEF Waiters
    <2>3. Redirect(st, n, key) = Answer(st, n, m, "unavailable")
        BY <1>3, <2>1 DEF Redirect
    <2>4. "unavailable" \in States /\ Honest(st.users, lg, m.stmt, "unavailable")
        BY DEF States, Honest
    <2> QED BY <2>2, <2>3, <2>4, AnswerOK
<1> QED BY <1>1, <1>2, <1>3

LEMMA SubmitOK ==
    ASSUME Replicated, NEW st, EngineOK(st, log), AllAwake(st, log, applied), NEW n \in Nodes,
           NEW s \in Stmts, NEW key \in ClientKeys
    PROVE  EngineOK(Submit(st, n, s, key), log) /\ AllAwake(Submit(st, n, s, key), log, applied)
<1>1. PICK m : m = [key |-> key, stmt |-> s, sends |-> st.call[s].sends,
                    cont |-> IF Kind[s] = "op" THEN "reply" ELSE Kind[s]]
    OBVIOUS
<1>2. PICK e : e = [key |-> key, stmt |-> s, at |-> 0, rec |-> BlankRow,
                    kind |-> CASE Kind[s] = "op" -> "write"
                               [] Kind[s] = "update" -> "read"
                               [] Kind[s] = "dml" -> "query"]
    OBVIOUS
<1>3. PICK st1 : st1 = Insert(st, n, m)
    OBVIOUS
<1>4. PICK st2 : st2 = Request(st1, n, e)
    OBVIOUS
<1>5. Submit(st, n, s, key) = Redirect(st2, n, key)
    BY <1>1, <1>2, <1>3, <1>4 DEF Submit
<1>6. m.key = key /\ m.stmt = s /\ m.cont = FirstCont(s)
    BY <1>1 DEF FirstCont
<1>7. e.key = key /\ e.stmt = s /\ e.kind = FirstKind(s)
    BY <1>2 DEF FirstKind
<1>8. WaiterOK({<<m.key, m.stmt>>}, m)
    BY <1>6 DEF WaiterOK
<1>9. Awake(st, log, applied, n, m.key)
    BY AwakeWeaker
<1>10. EngineOK(st1, log) /\ m \in st1.pending[n] /\ Awake(st1, log, applied, n, m.key)
    BY <1>3, <1>8, <1>9, InsertOK
<1>11. <<key, s>> \in st1.users
    BY <1>6, <1>10 DEF EngineOK, WaiterOK
<1>12. EntryOK(st1.users, e)
    BY <1>7, <1>11 DEF EntryOK
<1>13. Awake(st1, log, applied, n, e.key)
    BY <1>6, <1>7, <1>10
<1>14. /\ EngineOK(st2, log) /\ Awake(st2, log, applied, n, e.key)
       /\ IsActivePrimary(n) => AllAwake(st2, log, applied)
    BY <1>4, <1>10, <1>12, <1>13, RequestOK
<1>15. Awake(st2, log, applied, n, key)
    BY <1>7, <1>14
<1> QED BY <1>5, <1>14, <1>15, RedirectOK

LEMMA EngineIs ==
    /\ DOMAIN Engine = Fields
    /\ Engine.accepted = accepted /\ Engine.relays = relays /\ Engine.pending = pending
    /\ Engine.iseq = iseq /\ Engine.call = call /\ Engine.orphans = orphans /\ Engine.users = users
BY DEF Engine, Fields

\* The client of s is in state c, which tells it nothing of the statement.
LEMMA CallOK ==
    ASSUME Inv, NEW s \in Stmts, NEW c \in Calls, c.state \in {"idle", "waiting"},
           c.sends <= budget[s], NEW t, t = [Engine EXCEPT !.call[s] = c]
    PROVE  EngineOK(t, log) /\ AllAwake(t, log, applied)
<1>1. PICK st : st = Engine
    OBVIOUS
<1>2. EngineOK(st, log) /\ AllAwake(st, log, applied) /\ Shape(st)
    BY <1>1 DEF Inv, EngineOK
<1>3. /\ DOMAIN t = Fields /\ t.accepted = st.accepted /\ t.relays = st.relays
      /\ t.pending = st.pending /\ t.iseq = st.iseq /\ t.users = st.users
      /\ t.orphans = st.orphans /\ t.call = [st.call EXCEPT ![s] = c]
    BY <1>1, <1>2 DEF Shape, Fields
<1>4. t.call \in [Stmts -> Calls] /\ t.call[s] = c /\ \A x \in Stmts : x # s => t.call[x] = st.call[x]
    <2>1. PICK f : f = st.call
        OBVIOUS
    <2>2. f \in [Stmts -> Calls]
        BY <1>2, <2>1 DEF Shape
    <2>3. PICK g : g = [f EXCEPT ![s] = c]
        OBVIOUS
    <2>4. g \in [Stmts -> Calls] /\ g[s] = c /\ \A x \in Stmts : x # s => g[x] = f[x]
        BY <2>2, <2>3
    <2> QED BY <1>3, <2>1, <2>3, <2>4
<1>5. Shape(t)
    BY <1>2, <1>3, <1>4 DEF Shape
<1>6. Honest(t.users, log, s, c.state)
    BY DEF Honest
<1>7. \A x \in Stmts : Honest(t.users, log, x, t.call[x].state) /\ t.call[x].sends <= budget[x]
    <2> TAKE x \in Stmts
    <2>1. CASE x = s
        BY <1>4, <1>6, <2>1
    <2>2. CASE x # s
        BY <1>2, <1>3, <1>4, <2>2 DEF EngineOK
    <2> QED BY <2>1, <2>2
<1>8. EngineOK(t, log)
    BY <1>2, <1>3, <1>5, <1>7 DEF EngineOK
<1>9. \A x, k, a : Awaited(st, log, a, x, k) => Awaited(t, log, a, x, k)
    BY <1>3 DEF Awaited
<1>10. AllAwake(t, log, applied)
    BY <1>2, <1>3, <1>9 DEF AllAwake, Awake
<1> QED BY <1>8, <1>10

LEMMA SendingOK ==
    ASSUME Inv, NEW s \in Stmts, NEW n \in Nodes, NEW key \in ClientKeys,
           call[s].sends < budget[s]
    PROVE  EngineOK(Sending(s, n, key), log) /\ AllAwake(Sending(s, n, key), log, applied)
<1>1. PICK c : c = [state |-> "waiting", node |-> n, key |-> key, sends |-> call[s].sends + 1]
    OBVIOUS
<1>2. call[s].sends \in Nat /\ budget[s] \in Nat
    BY EngineIs DEF Inv, EngineOK, Shape, Calls, Replicated
<1>3. c \in Calls /\ c.state = "waiting" /\ c.sends <= budget[s]
    BY <1>1, <1>2 DEF Calls, States
<1>4. Sending(s, n, key) = [Engine EXCEPT !.call[s] = c]
    BY <1>1, EngineIs DEF Sending
<1> QED BY <1>3, <1>4, CallOK

\* The engine's state becomes st, and replication goes on to lg and ap.
LEMMA Becomes ==
    ASSUME NEW st, NEW lg, NEW ap, EngineOK(st, lg), AllAwake(st, lg, ap), Become(st),
           log' = lg, applied' = ap, UNCHANGED <<nview, normal, budget>>
    PROVE  EngineOK(Engine, log)' /\ AllAwake(Engine, log, applied)'
<1>1. PICK t : t = Engine'
    OBVIOUS
<1>2. /\ DOMAIN t = Fields /\ t.accepted = st.accepted /\ t.relays = st.relays
      /\ t.pending = st.pending /\ t.iseq = st.iseq /\ t.call = st.call
      /\ t.orphans = st.orphans /\ t.users = st.users
    BY <1>1 DEF Engine, Become, Fields
<1>3. Shape(t)
    BY <1>2 DEF EngineOK, Shape
<1>4. EngineOK(t, lg)
    BY <1>2, <1>3 DEF EngineOK
<1>5. \A x, k, a : Awaited(st, lg, a, x, k) => Awaited(t, lg, a, x, k)
    BY <1>2 DEF Awaited
<1>6. AllAwake(t, lg, ap)
    BY <1>2, <1>5 DEF AllAwake, Awake
<1>7. EngineOK(Engine, log)'
    BY <1>1, <1>4 DEF EngineOK
<1>8. \A x : IsActivePrimary(x)' = IsActivePrimary(x)
    BY DEF IsActivePrimary
<1>9. AllAwake(Engine, log, applied)'
    BY <1>1, <1>6, <1>8 DEF AllAwake, Awake, Awaited
<1> QED BY <1>7, <1>9

----------------------------------------------------------------------------
(* The clients' steps *)

LEMMA SameReplication ==
    ASSUME Inv, UNCHANGED <<replication, budget>>, raw_seq' \in [Nodes -> Nat]
    PROVE  Replicated'
BY DEF Inv, Replicated, replication

LEMMA SubmitStep ==
    ASSUME Inv, NEW s \in Stmts, NEW n \in Nodes, NEW key \in ClientKeys,
           call[s].sends < budget[s], Become(Submit(Sending(s, n, key), n, s, key)),
           UNCHANGED <<replication, budget>>, raw_seq' \in [Nodes -> Nat]
    PROVE  Inv'
<1>1. PICK st : st = Sending(s, n, key)
    OBVIOUS
<1>2. EngineOK(st, log) /\ AllAwake(st, log, applied)
    BY <1>1, SendingOK
<1>3. PICK t : t = Submit(st, n, s, key)
    OBVIOUS
<1>4. EngineOK(t, log) /\ AllAwake(t, log, applied)
    BY <1>2, <1>3, SubmitOK DEF Inv
<1>5. Become(t)
    BY <1>1, <1>3
<1>6. log' = log /\ applied' = applied /\ UNCHANGED <<nview, normal, budget>>
    BY DEF replication
<1>7. EngineOK(Engine, log)' /\ AllAwake(Engine, log, applied)'
    BY <1>4, <1>5, <1>6, Becomes
<1> QED BY <1>7, SameReplication DEF Inv

LEMMA ClientSteps ==
    ASSUME Inv, NEW s \in Stmts, NEW n \in Nodes,
           SendSession(s, n) \/ SendRaw(s, n) \/ Resend(s)
    PROVE  Inv'
<1>1. raw_seq \in [Nodes -> Nat]
    BY DEF Inv, Replicated
<1>2. CASE SendSession(s, n)
    <2>1. SessionKey(s) \in ClientKeys
        BY DEF ClientKeys
    <2>2. call[s].sends < budget[s] /\ UNCHANGED <<replication, budget>> /\ raw_seq' = raw_seq
        BY <1>2 DEF SendSession, MaySend
    <2>3. Become(Submit(Sending(s, n, SessionKey(s)), n, s, SessionKey(s)))
        BY <1>2 DEF SendSession
    <2> QED BY <1>1, <2>1, <2>2, <2>3, SubmitStep
<1>3. CASE SendRaw(s, n)
    <2>1. RawKey(raw_seq[n]) \in ClientKeys
        BY <1>1 DEF ClientKeys
    <2>2. call[s].sends < budget[s] /\ UNCHANGED <<replication, budget>>
        BY <1>3 DEF SendRaw, MaySend
    <2>3. raw_seq' \in [Nodes -> Nat]
        BY <1>1, <1>3 DEF SendRaw
    <2>4. Become(Submit(Sending(s, n, RawKey(raw_seq[n])), n, s, RawKey(raw_seq[n])))
        BY <1>3 DEF SendRaw
    <2> QED BY <2>1, <2>2, <2>3, <2>4, SubmitStep
<1>4. CASE Resend(s)
    <2>1. call[s].node \in Nodes /\ call[s].key \in ClientKeys
        BY EngineIs DEF Inv, EngineOK, Shape, Calls
    <2>2. call[s].sends < budget[s] /\ UNCHANGED <<replication, budget>> /\ raw_seq' = raw_seq
        BY <1>4 DEF Resend
    <2>3. Become(Submit(Sending(s, call[s].node, call[s].key), call[s].node, s, call[s].key))
        BY <1>4 DEF Resend
    <2> QED BY <1>1, <2>1, <2>2, <2>3, SubmitStep
<1> QED BY <1>2, <1>3, <1>4

LEMMA RotateStep ==
    ASSUME Inv, NEW s \in Stmts, Rotate(s)
    PROVE  Inv'
<1>1. call \in [Stmts -> Calls] /\ call[s].sends <= budget[s]
    BY EngineIs DEF Inv, EngineOK, Shape
<1>2. PICK c : c = [call[s] EXCEPT !.state = "idle", !.node = (call[s].node + 1) % N]
    OBVIOUS
<1>3. c \in Calls /\ c.state = "idle" /\ c.sends = call[s].sends
    <2>1. (call[s].node + 1) % N \in Nodes
        <3>1. call[s] \in Calls
            BY <1>1
        <3>2. PICK a : a = call[s].node
            OBVIOUS
        <3>3. a \in Nodes
            BY <3>1, <3>2 DEF Calls
        <3>4. a + 1 \in Nat
            BY <3>3, ClusterAssumption DEF Nodes
        <3>5. (a + 1) % N \in Nodes
            BY <3>4, NodesAre
        <3> QED BY <3>2, <3>5
    <2> QED BY <1>1, <1>2, <2>1 DEF Calls, States
<1>4. call' = [call EXCEPT ![s] = c]
    BY <1>1, <1>2 DEF Rotate, Calls
<1>5. PICK t : t = [Engine EXCEPT !.call[s] = c]
    OBVIOUS
<1>6. EngineOK(t, log) /\ AllAwake(t, log, applied)
    BY <1>1, <1>3, <1>5, CallOK
<1>7. Become(t)
    BY <1>4, <1>5 DEF Become, Engine, Rotate
<1>8. UNCHANGED <<replication, budget, raw_seq>> /\ raw_seq \in [Nodes -> Nat]
    BY DEF Rotate, Inv, Replicated
<1>9. log' = log /\ applied' = applied /\ UNCHANGED <<nview, normal, budget>>
    BY <1>8 DEF replication
<1>10. EngineOK(Engine, log)' /\ AllAwake(Engine, log, applied)'
    BY <1>6, <1>7, <1>9, Becomes
<1> QED BY <1>8, <1>10, SameReplication DEF Inv

LEMMA RelayStep ==
    ASSUME Inv, NEW r \in relays, RelayArrive(r)
    PROVE  Inv'
<1>1. PICK st : st = Engine
    OBVIOUS
<1>2. EngineOK(st, log) /\ AllAwake(st, log, applied) /\ Shape(st) /\ r \in st.relays
    BY <1>1, EngineIs DEF Inv, EngineOK
<1>3. PICK u : u = [st EXCEPT !.relays = @ \ {r}]
    OBVIOUS
<1>4. /\ DOMAIN u = Fields /\ u.accepted = st.accepted /\ u.relays = st.relays \ {r}
      /\ u.pending = st.pending /\ u.iseq = st.iseq /\ u.users = st.users
      /\ u.orphans = st.orphans /\ u.call = st.call
    BY <1>2, <1>3 DEF Shape, Fields
<1>5. Shape(u)
    BY <1>2, <1>4 DEF Shape
<1>6. EngineOK(u, log)
    BY <1>2, <1>4, <1>5 DEF EngineOK
<1>7. \A x, k, a : Awaited(st, log, a, x, k) => Awaited(u, log, a, x, k)
    BY <1>4 DEF Awaited
<1>8. AllAwake(u, log, applied)
    BY <1>2, <1>4, <1>7 DEF AllAwake, Awake
<1>9. PICK n, e : n = r.to /\ e = r.entry
    OBVIOUS
<1>10. n \in Nodes /\ EntryOK(u.users, e)
    BY <1>2, <1>4, <1>9 DEF EngineOK
<1>11. PICK t : t = Request(u, n, e)
    OBVIOUS
<1>12. EngineOK(t, log) /\ AllAwake(t, log, applied)
    BY <1>6, <1>8, <1>10, <1>11, RequestOK DEF Inv
<1>13. Become(t)
    BY <1>1, <1>3, <1>9, <1>11 DEF RelayArrive
<1>14. UNCHANGED <<replication, budget, raw_seq>> /\ raw_seq \in [Nodes -> Nat]
    BY DEF RelayArrive, Inv, Replicated
<1>15. log' = log /\ applied' = applied /\ UNCHANGED <<nview, normal, budget>>
    BY <1>14 DEF replication
<1>16. EngineOK(Engine, log)' /\ AllAwake(Engine, log, applied)'
    BY <1>12, <1>13, <1>15, Becomes
<1> QED BY <1>14, <1>16, SameReplication DEF Inv

----------------------------------------------------------------------------
(* The steps of replication *)

\* The log grows by an entry e that a statement used its key for.
LEMMA LogGrows ==
    ASSUME Replicated, NEW st, EngineOK(st, log), NEW e, EntryOK(st.users, e),
           NEW lg, lg = Append(log, e)
    PROVE  EngineOK(st, lg) /\ Longer(lg) /\ Len(lg) = Len(log) + 1 /\ lg[Len(lg)] = e
<1>1. /\ IsSequence(lg) /\ Len(lg) = Len(log) + 1 /\ Len(log) \in Nat
      /\ \A i \in 1..Len(log) : i \in 1..Len(lg) /\ lg[i] = log[i]
      /\ Len(log) + 1 \in 1..Len(lg) /\ lg[Len(log) + 1] = e
      /\ \A i \in 1..Len(lg) : i \in 1..Len(log) \/ i = Len(log) + 1
    BY Grown DEF Replicated
<1>2. \A i \in 1..Len(lg) : EntryOK(st.users, lg[i])
    BY <1>1 DEF EngineOK
<1>3. \A s : ExecutedIn(log, s) => ExecutedIn(lg, s)
    BY <1>1 DEF ExecutedIn
<1>4. \A s, x : Honest(st.users, log, s, x) => Honest(st.users, lg, s, x)
    BY <1>3 DEF Honest
<1>5. EngineOK(st, lg)
    BY <1>2, <1>4 DEF EngineOK
<1> QED BY <1>1, <1>5 DEF Longer

LEMMA Shrunk ==
    ASSUME NEW q, IsSequence(q), q # <<>>
    PROVE  /\ IsSequence(Tail(q)) /\ Len(Tail(q)) = Len(q) - 1 /\ Len(q) \in Nat \ {0}
           /\ \A i \in 1..Len(Tail(q)) : i + 1 \in 1..Len(q) /\ Tail(q)[i] = q[i + 1]
           /\ Head(q) = q[1] /\ 1 \in 1..Len(q)
<1>1. PICK S : q \in Seq(S)
    BY DEF IsSequence
<1>2. /\ Head(q) = q[1] /\ Tail(q) \in Seq(S) /\ Len(Tail(q)) = Len(q) - 1
      /\ \A i \in 1..Len(Tail(q)) : Tail(q)[i] = q[i + 1]
    BY <1>1, HeadTailProperties, ElementOfSeq
<1>3. Len(q) \in Nat \ {0}
    BY <1>1, EmptySeq, LenProperties
<1>4. IsSequence(Tail(q))
    BY <1>2 DEF IsSequence
<1> QED BY <1>2, <1>3, <1>4

LEMMA CommitStep ==
    ASSUME Inv, NEW n \in Nodes, Commit(n)
    PROVE  Inv'
<1>1. PICK st : st = Engine
    OBVIOUS
<1>2. EngineOK(st, log) /\ AllAwake(st, log, applied) /\ Shape(st) /\ st.accepted = accepted
    BY <1>1, EngineIs DEF Inv, EngineOK
<1>3. PICK q : q = accepted[n]
    OBVIOUS
<1>4. q # <<>> /\ applied[n] = Len(log) /\ IsActivePrimary(n) /\ IsSequence(q)
    BY <1>2, <1>3 DEF Commit, EngineOK
<1>5. PICK r, h : r = Tail(q) /\ h = Head(q)
    OBVIOUS
<1>6. /\ IsSequence(r) /\ Len(r) = Len(q) - 1 /\ Len(q) \in Nat \ {0}
      /\ \A i \in 1..Len(r) : i + 1 \in 1..Len(q) /\ r[i] = q[i + 1]
      /\ h = q[1] /\ 1 \in 1..Len(q)
    BY <1>4, <1>5, Shrunk
<1>7. PICK u : u = [st EXCEPT !.accepted[n] = r]
    OBVIOUS
<1>8. /\ DOMAIN u = Fields /\ u.accepted = [st.accepted EXCEPT ![n] = r] /\ u.relays = st.relays
      /\ u.pending = st.pending /\ u.iseq = st.iseq /\ u.users = st.users
      /\ u.orphans = st.orphans /\ u.call = st.call
    BY <1>2, <1>7 DEF Shape, Fields
<1>9. /\ DOMAIN u.accepted = Nodes /\ u.accepted[n] = r
      /\ \A x \in Nodes : x # n => u.accepted[x] = st.accepted[x]
    BY <1>2, <1>8 DEF Shape
<1>10. Shape(u)
    BY <1>2, <1>8, <1>9 DEF Shape
<1>11. \A i \in 1..Len(q) : EntryOK(u.users, q[i])
    BY <1>2, <1>3, <1>8 DEF EngineOK
<1>12. EngineOK(u, log)
    <2>1. ASSUME NEW x \in Nodes
          PROVE  /\ IsSequence(u.accepted[x])
                 /\ \A i \in 1..Len(u.accepted[x]) : EntryOK(u.users, u.accepted[x][i])
                 /\ u.accepted[x] # <<>> => nview[x] % N = x
        <3>1. CASE x = n
            <4>1. \A i \in 1..Len(r) : EntryOK(u.users, r[i])
                BY <1>6, <1>11
            <4> QED BY <1>4, <1>6, <1>9, <3>1, <4>1 DEF IsActivePrimary
        <3>2. CASE x # n
            BY <1>2, <1>8, <1>9, <3>2 DEF EngineOK
        <3> QED BY <3>1, <3>2
    <2> QED BY <1>2, <1>8, <1>10, <2>1 DEF EngineOK
<1>13. PICK lg : lg = log'
    OBVIOUS
<1>14. lg = Append(log, h)
    BY <1>3, <1>5, <1>13 DEF Commit
<1>15. EntryOK(u.users, h)
    BY <1>6, <1>11
<1>16. EngineOK(u, lg) /\ Longer(lg) /\ Len(lg) = Len(log) + 1 /\ lg[Len(lg)] = h
    BY <1>12, <1>14, <1>15, LogGrows DEF Inv
<1>17. PICK ap : ap = applied'
    OBVIOUS
<1>18. ap = [applied EXCEPT ![n] = applied[n] + 1]
    BY <1>17 DEF Commit
<1>19. Awake(u, lg, ap, n, h.key)
    <2> SUFFICES ASSUME NEW x \in Nodes, NEW m \in u.pending[x], ~ (x = n /\ m.key = h.key)
                 PROVE  Awaited(u, lg, ap[x], x, m.key)
        BY DEF Awake
    <2>1. Awaited(st, log, applied[x], x, m.key)
        BY <1>2, <1>8, NodesAre DEF AllAwake, Awake
    <2>2. CASE <<x, m.key>> \in st.orphans
        BY <1>8, <2>2 DEF Awaited
    <2>3. ASSUME IsActivePrimary(x), NEW i \in 1..Len(st.accepted[x]), st.accepted[x][i].key = m.key
          PROVE  Awaited(u, lg, ap[x], x, m.key)
        <3>1. CASE x = n
            <4>1. i \in 1..Len(q) /\ q[i].key = m.key
                BY <1>2, <1>3, <2>3, <3>1
            <4>2. i # 1
                BY <1>6, <3>1, <4>1
            <4>3. i - 1 \in 1..Len(r) /\ (i - 1) + 1 = i
                BY <1>6, <4>1, <4>2
            <4>4. r[i - 1].key = m.key
                BY <1>6, <4>1, <4>3
            <4> QED BY <1>9, <2>3, <3>1, <4>3, <4>4 DEF Awaited
        <3>2. CASE x # n
            BY <1>9, <2>3, <3>2 DEF Awaited
        <3> QED BY <3>1, <3>2
    <2>4. ASSUME IsActivePrimary(x), NEW i \in (applied[x] + 1)..Len(log), log[i].key = m.key
          PROVE  Awaited(u, lg, ap[x], x, m.key)
        <3>1. applied \in [Nodes -> Nat] /\ Len(log) \in Nat
            BY <1>16 DEF Inv, Replicated, Longer
        <3>2. x # n
            BY <1>4, <2>4, <3>1
        <3>3. ap[x] = applied[x] /\ applied[x] \in Nat
            BY <1>18, <3>1, <3>2
        <3>4. i \in (ap[x] + 1)..Len(lg) /\ i \in 1..Len(log)
            BY <1>16, <3>1, <3>3
        <3>5. lg[i].key = m.key
            BY <1>16, <2>4, <3>4 DEF Longer
        <3> QED BY <2>4, <3>4, <3>5 DEF Awaited
    <2> QED BY <2>1, <2>2, <2>3, <2>4 DEF Awaited
<1>20. PICK result : result = ResultAt(Len(log))'
    OBVIOUS
<1>21. result.kind = KindOf(lg[Len(lg)].kind)
    BY <1>13, <1>20 DEF ResultAt, KindOf
<1>22. PICK key : key = h.key
    OBVIOUS
<1>23. PICK t : t = Route(u, n, key, result)
    OBVIOUS
<1>24. Len(lg) \in 1..Len(lg)
    BY <1>16 DEF Longer
<1>25. EngineOK(t, lg) /\ AllAwake(t, lg, ap)
    BY <1>16, <1>19, <1>21, <1>22, <1>23, <1>24, RouteOK DEF Inv
<1>26. Become(t)
    BY <1>1, <1>3, <1>5, <1>7, <1>20, <1>22, <1>23, EngineIs DEF Commit
<1>27. UNCHANGED <<nview, normal, budget, view, raw_seq>>
    BY DEF Commit
<1>28. EngineOK(Engine, log)' /\ AllAwake(Engine, log, applied)'
    BY <1>13, <1>17, <1>25, <1>26, <1>27, Becomes
<1>29. Replicated'
    <2>1. IsSequence(lg)
        BY <1>14, Grown DEF Inv, Replicated
    <2>2. ap \in [Nodes -> Nat] /\ \A x \in Nodes : ap[x] <= Len(lg)
        BY <1>4, <1>16, <1>18 DEF Inv, Replicated, Longer
    <2>3. IsSequence(log') /\ applied' \in [Nodes -> Nat] /\ \A x \in Nodes : applied'[x] <= Len(log')
        BY <1>13, <1>17, <2>1, <2>2
    <2> QED BY <1>27, <2>3 DEF Inv, Replicated, IsSequence
<1> QED BY <1>28, <1>29 DEF Inv

LEMMA CatchUpStep ==
    ASSUME Inv, NEW n \in Nodes, CatchUp(n)
    PROVE  Inv'
<1>1. PICK st : st = Engine
    OBVIOUS
<1>2. EngineOK(st, log) /\ AllAwake(st, log, applied)
    BY <1>1 DEF Inv
<1>3. PICK ap : ap = applied'
    OBVIOUS
<1>4. ap = [applied EXCEPT ![n] = applied[n] + 1]
    BY <1>3 DEF CatchUp
<1>5. PICK j : j = applied[n] + 1
    OBVIOUS
<1>6. Longer(log) /\ Len(log) \in Nat /\ applied \in [Nodes -> Nat] /\ applied[n] < Len(log)
    BY LongerSelf DEF Inv, Replicated, CatchUp, Longer
<1>7. /\ j \in 1..Len(log) /\ ap[n] = j /\ \A x \in Nodes : x # n => ap[x] = applied[x]
      /\ ap \in [Nodes -> Nat] /\ \A x \in Nodes : ap[x] <= Len(log)
    BY <1>4, <1>5, <1>6 DEF Inv, Replicated
<1>8. log' = log /\ UNCHANGED <<nview, normal, budget, view, raw_seq>>
    BY DEF CatchUp
<1>9. Replicated'
    <2>1. applied' \in [Nodes -> Nat] /\ \A x \in Nodes : applied'[x] <= Len(log')
        BY <1>3, <1>7, <1>8
    <2> QED BY <1>8, <2>1 DEF Inv, Replicated, IsSequence
<1>10. CASE nview[n] % N = n
    <2>1. PICK key, result : key = log[j].key /\ result = ResultAt(j)
        OBVIOUS
    <2>2. Awake(st, log, ap, n, key)
        <3> SUFFICES ASSUME NEW x \in Nodes, NEW m \in st.pending[x], ~ (x = n /\ m.key = key)
                     PROVE  Awaited(st, log, ap[x], x, m.key)
            BY DEF Awake
        <3>1. Awaited(st, log, applied[x], x, m.key)
            BY <1>2, NodesAre DEF AllAwake, Awake
        <3>2. CASE x # n
            BY <1>7, <3>1, <3>2
        <3>3. CASE x = n
            <4>1. ASSUME NEW i \in (applied[x] + 1)..Len(log), log[i].key = m.key
                  PROVE  i \in (ap[x] + 1)..Len(log)
                <5>1. i # j
                    BY <2>1, <3>3, <4>1
                <5> QED BY <1>5, <1>6, <1>7, <3>3, <5>1
            <4> QED BY <3>1, <4>1 DEF Awaited
        <3> QED BY <3>2, <3>3
    <2>3. PICK t : t = Route(st, n, key, result)
        OBVIOUS
    <2>4. result.kind = KindOf(log[j].kind)
        BY <2>1, ResultKind
    <2>5. EngineOK(t, log) /\ AllAwake(t, log, ap)
        BY <1>2, <1>6, <1>7, <2>1, <2>2, <2>3, <2>4, RouteOK DEF Inv
    <2>6. Become(t)
        BY <1>1, <1>5, <1>10, <2>1, <2>3 DEF CatchUp
    <2>7. EngineOK(Engine, log)' /\ AllAwake(Engine, log, applied)'
        BY <1>3, <1>8, <2>5, <2>6, Becomes
    <2> QED BY <1>9, <2>7 DEF Inv
<1>11. CASE nview[n] % N # n
    <2>1. \A k, a, b : Awaited(st, log, a, n, k) => Awaited(st, log, b, n, k)
        BY <1>11 DEF Awaited, IsActivePrimary
    <2>2. AllAwake(st, log, ap)
        <3> SUFFICES ASSUME NEW x \in Nodes, NEW m \in st.pending[x]
                     PROVE  Awaited(st, log, ap[x], x, m.key)
            BY DEF Awake, AllAwake
        <3>1. Awaited(st, log, applied[x], x, m.key)
            BY <1>2, NodesAre DEF AllAwake, Awake
        <3> QED BY <1>7, <2>1, <3>1
    <2>3. Become(st)
        BY <1>1, <1>11, EngineIs DEF CatchUp, Become, engine
    <2>4. EngineOK(Engine, log)' /\ AllAwake(Engine, log, applied)'
        BY <1>2, <1>3, <1>8, <2>2, <2>3, Becomes
    <2> QED BY <1>9, <2>4 DEF Inv
<1> QED BY <1>10, <1>11

\* Node p stops serving its view: it can no longer answer anybody, and what it has
\* accepted is q from now on.
LEMMA ViewStep ==
    ASSUME Inv, NEW p \in Nodes, NEW q, IsSequence(q),
           \A i \in 1..Len(q) : EntryOK(users, q[i]), q # <<>> => nview'[p] % N = p,
           DOMAIN accepted' = Nodes, accepted'[p] = q,
           \A x \in Nodes : x # p => accepted'[x] = accepted[x],
           orphans' = orphans \cup Orphaned(p),
           \A x \in Nodes : x # p => nview'[x] = nview[x] /\ normal'[x] = normal[x],
           UNCHANGED <<log, applied, relays, pending, iseq, call, users, budget>>
    PROVE  EngineOK(Engine, log)' /\ AllAwake(Engine, log, applied)'
<1>1. PICK st : st = Engine
    OBVIOUS
<1>2. EngineOK(st, log) /\ AllAwake(st, log, applied) /\ Shape(st)
    BY <1>1 DEF Inv, EngineOK
<1>3. PICK t : t = Engine'
    OBVIOUS
<1>4. /\ DOMAIN t = Fields /\ t.accepted = accepted' /\ st.accepted = accepted
      /\ t.relays = st.relays /\ t.pending = st.pending /\ t.iseq = st.iseq
      /\ t.call = st.call /\ t.users = st.users
      /\ t.orphans = st.orphans \cup {<<p, m.key>> : m \in st.pending[p]}
    BY <1>1, <1>3 DEF Engine, Fields, Orphaned
<1>5. /\ DOMAIN t.accepted = Nodes /\ t.accepted[p] = q
      /\ \A x \in Nodes : x # p => t.accepted[x] = st.accepted[x]
    BY <1>4
<1>6. Shape(t)
    BY <1>2, <1>4, <1>5 DEF Shape
<1>7. st.users = users
    BY <1>1, EngineIs
<1>8. ASSUME NEW x \in Nodes
      PROVE  /\ IsSequence(t.accepted[x])
             /\ \A i \in 1..Len(t.accepted[x]) : EntryOK(t.users, t.accepted[x][i])
             /\ t.accepted[x] # <<>> => nview'[x] % N = x
    <2>1. CASE x = p
        BY <1>4, <1>5, <1>7, <2>1
    <2>2. CASE x # p
        BY <1>2, <1>4, <1>5, <2>2 DEF EngineOK
    <2> QED BY <2>1, <2>2
<1>9. ASSUME NEW o \in t.orphans PROVE \E x \in Nodes, u \in t.users : o = <<x, u[1]>>
    <2>1. CASE o \in st.orphans
        BY <1>2, <1>4, <2>1 DEF EngineOK
    <2>2. ASSUME NEW m \in st.pending[p], o = <<p, m.key>>
          PROVE  \E x \in Nodes, u \in t.users : o = <<x, u[1]>>
        <3>1. <<m.key, m.stmt>> \in t.users
            BY <1>2, <1>4 DEF EngineOK, WaiterOK
        <3> QED BY <2>2, <3>1
    <2> QED BY <1>4, <2>1, <2>2
<1>10. EngineOK(Engine, log)'
    <2>1. /\ \A x \in Nodes :
                /\ \A m \in t.pending[x] : WaiterOK(t.users, m)
                /\ \A m, w \in t.pending[x] : m.key = w.key => m = w
          /\ \A r \in t.relays : r.to \in Nodes /\ EntryOK(t.users, r.entry)
          /\ \A i \in 1..Len(log) : EntryOK(t.users, log[i])
          /\ \A s \in Stmts : Honest(t.users, log, s, t.call[s].state) /\ t.call[s].sends <= budget[s]
        BY <1>2, <1>4 DEF EngineOK
    <2> QED BY <1>3, <1>6, <1>8, <1>9, <2>1 DEF EngineOK
<1>11. AllAwake(Engine, log, applied)'
    <2>1. ASSUME NEW x \in Nodes, NEW m \in t.pending[x], x # p
          PROVE  \/ <<x, m.key>> \in t.orphans
                 \/ /\ IsActivePrimary(x)'
                    /\ \/ \E i \in 1..Len(t.accepted[x]) : t.accepted[x][i].key = m.key
                       \/ \E i \in (applied[x] + 1)..Len(log) : log[i].key = m.key
        <3>1. Awaited(st, log, applied[x], x, m.key)
            BY <1>2, <1>4, NodesAre DEF AllAwake, Awake
        <3>2. IsActivePrimary(x)' = IsActivePrimary(x)
            BY <2>1 DEF IsActivePrimary
        <3>3. t.accepted[x] = st.accepted[x]
            BY <1>5, <2>1
        <3> QED BY <1>4, <3>1, <3>2, <3>3 DEF Awaited
    <2>2. \A m \in t.pending[p] : <<p, m.key>> \in t.orphans
        BY <1>4
    <2>3. \A x \in Nodes : \A m \in t.pending[x] :
              \/ <<x, m.key>> \in t.orphans
              \/ /\ IsActivePrimary(x)'
                 /\ \/ \E i \in 1..Len(t.accepted[x]) : t.accepted[x][i].key = m.key
                    \/ \E i \in (applied[x] + 1)..Len(log) : log[i].key = m.key
        BY <2>1, <2>2
    <2>4. ASSUME NEW x \in Nodes, NEW m \in Engine'.pending[x]
          PROVE  Awaited(Engine, log, applied[x], x, m.key)'
        <3>1. m \in t.pending[x]
            BY <1>3
        <3>2. log' = log /\ applied'[x] = applied[x]
            OBVIOUS
        <3> QED BY <1>3, <2>3, <3>1, <3>2 DEF Awaited
    <2> QED BY <2>4 DEF AllAwake, Awake
<1> QED BY <1>10, <1>11

LEMMA ViewSteps ==
    ASSUME Inv, NEW n \in Nodes, StartViewChange(n) \/ JoinView(n)
    PROVE  Inv'
<1>1. PICK st : st = Engine
    OBVIOUS
<1>2. EngineOK(st, log) /\ Shape(st) /\ st.accepted = accepted /\ st.users = users
    BY <1>1, EngineIs DEF Inv, EngineOK
<1>3. /\ view \in 0..MaxView /\ view \in Nat /\ nview \in [Nodes -> Nat]
      /\ normal \in [Nodes -> BOOLEAN] /\ \A x \in Nodes : nview[x] <= view
    BY ClusterAssumption DEF Inv, Replicated
<1>4. CASE StartViewChange(n)
    <2>1. PICK q : q = accepted[n]
        OBVIOUS
    <2>2. IsSequence(q) /\ (\A i \in 1..Len(q) : EntryOK(users, q[i])) /\ (q # <<>> => nview[n] % N = n)
        BY <1>2, <2>1 DEF EngineOK
    <2>3. accepted' = accepted /\ DOMAIN accepted = Nodes
        BY <1>2, <1>4 DEF StartViewChange, Shape
    <2>4. /\ nview' = nview /\ orphans' = orphans \cup Orphaned(n)
          /\ normal' = [normal EXCEPT ![n] = FALSE]
          /\ UNCHANGED <<log, applied, relays, pending, iseq, call, users, budget, view, raw_seq>>
        BY <1>4 DEF StartViewChange
    <2>5. normal' \in [Nodes -> BOOLEAN] /\ \A x \in Nodes : x # n => normal'[x] = normal[x]
        BY <1>3, <2>4
    <2>6. EngineOK(Engine, log)' /\ AllAwake(Engine, log, applied)'
        BY <2>1, <2>2, <2>3, <2>4, <2>5, ViewStep
    <2>7. Replicated'
        BY <2>4, <2>5 DEF Inv, Replicated, IsSequence
    <2> QED BY <2>6, <2>7 DEF Inv
<1>5. CASE JoinView(n)
    <2>1. IsSequence(<<>>) /\ \A i \in 1..Len(<<>>) : EntryOK(users, <<>>[i])
        <3>1. <<>> \in Seq({}) /\ Len(<<>>) = 0
            BY EmptySeq
        <3> QED BY <3>1 DEF IsSequence
    <2>2. /\ nview' = [nview EXCEPT ![n] = view] /\ orphans' = orphans \cup Orphaned(n)
          /\ normal' = [normal EXCEPT ![n] = TRUE] /\ accepted' = [accepted EXCEPT ![n] = <<>>]
          /\ UNCHANGED <<log, applied, relays, pending, iseq, call, users, budget, view, raw_seq>>
        BY <1>5 DEF JoinView
    <2>3. /\ normal' \in [Nodes -> BOOLEAN] /\ nview' \in [Nodes -> Nat]
          /\ \A x \in Nodes : x # n => nview'[x] = nview[x] /\ normal'[x] = normal[x]
          /\ \A x \in Nodes : nview'[x] <= view
        BY <1>3, <2>2
    <2>4. /\ DOMAIN accepted' = Nodes /\ accepted'[n] = <<>>
          /\ \A x \in Nodes : x # n => accepted'[x] = accepted[x]
        BY <1>2, <2>2 DEF Shape
    <2>5. EngineOK(Engine, log)' /\ AllAwake(Engine, log, applied)'
        BY <2>1, <2>2, <2>3, <2>4, ViewStep
    <2>6. Replicated'
        BY <2>2, <2>3 DEF Inv, Replicated, IsSequence
    <2> QED BY <2>5, <2>6 DEF Inv
<1> QED BY <1>4, <1>5

LEMMA BeginViewStep ==
    ASSUME Inv, NEW v \in 1..MaxView, NEW k \in 0..Len(accepted[view % N]), BeginView(v, k)
    PROVE  Inv'
<1>1. PICK st : st = Engine
    OBVIOUS
<1>2. EngineOK(st, log) /\ Shape(st) /\ st.accepted = accepted /\ st.users = users
    BY <1>1, EngineIs DEF Inv, EngineOK
<1>3. /\ view \in 0..MaxView /\ view \in Nat /\ nview \in [Nodes -> Nat] /\ MaxView \in Nat
      /\ normal \in [Nodes -> BOOLEAN] /\ \A x \in Nodes : nview[x] <= view
    BY ClusterAssumption DEF Inv, Replicated
<1>4. PICK old : old = accepted[view % N]
    OBVIOUS
<1>5. PICK p, q : p = v % N /\ q = SubSeq(old, 1, k)
    OBVIOUS
<1>6. v \in Nat /\ view % N \in Nodes /\ p \in Nodes
    BY <1>3, <1>5, NodesAre
<1>7. IsSequence(old) /\ \A i \in 1..Len(old) : EntryOK(users, old[i])
    BY <1>2, <1>4, <1>6 DEF EngineOK
<1>8. IsSequence(q) /\ \A i \in 1..Len(q) : EntryOK(users, q[i])
    <2>1. PICK S : old \in Seq(S)
        BY <1>7 DEF IsSequence
    <2>2. Len(old) \in Nat /\ k \in 0..Len(old)
        BY <1>4, <2>1, LenProperties
    <2>3. q \in Seq(S) /\ Len(q) = k /\ \A i \in 1..k : q[i] = old[i]
        BY <1>5, <2>1, <2>2
    <2>4. \A i \in 1..Len(q) : EntryOK(users, q[i])
        BY <1>7, <2>2, <2>3
    <2> QED BY <2>3, <2>4 DEF IsSequence
<1>9. /\ nview' = [nview EXCEPT ![p] = v] /\ orphans' = orphans \cup Orphaned(p)
      /\ normal' = [normal EXCEPT ![p] = TRUE] /\ accepted' = [accepted EXCEPT ![p] = q]
      /\ UNCHANGED <<log, applied, relays, pending, iseq, call, users, budget, raw_seq>>
      /\ view' = v /\ v > view
    BY <1>4, <1>5 DEF BeginView
<1>10. /\ normal' \in [Nodes -> BOOLEAN] /\ nview' \in [Nodes -> Nat] /\ nview'[p] = v
       /\ \A x \in Nodes : x # p => nview'[x] = nview[x] /\ normal'[x] = normal[x]
       /\ \A x \in Nodes : nview'[x] <= v
    BY <1>3, <1>6, <1>9
<1>11. nview'[p] % N = p
    BY <1>5, <1>10
<1>12. /\ DOMAIN accepted' = Nodes /\ accepted'[p] = q
       /\ \A x \in Nodes : x # p => accepted'[x] = accepted[x]
    BY <1>2, <1>6, <1>9 DEF Shape
<1>13. EngineOK(Engine, log)' /\ AllAwake(Engine, log, applied)'
    BY <1>6, <1>8, <1>9, <1>10, <1>11, <1>12, ViewStep
<1>14. view' \in 0..MaxView
    BY <1>3, <1>6, <1>9
<1>15. Replicated'
    BY <1>9, <1>10, <1>14 DEF Inv, Replicated, IsSequence
<1> QED BY <1>13, <1>15 DEF Inv

----------------------------------------------------------------------------
(* The theorems *)

LEMMA InitInv == Init => Inv
<1> SUFFICES ASSUME Init PROVE Inv
    OBVIOUS
<1>1. IsSequence(<<>>) /\ Len(<<>>) = 0
    <2>1. <<>> \in Seq({}) /\ Len(<<>>) = 0
        BY EmptySeq
    <2> QED BY <2>1 DEF IsSequence
<1>2. Replicated
    BY <1>1, ClusterAssumption DEF Init, Replicated
<1>3. PICK st : st = Engine
    OBVIOUS
<1>4. /\ DOMAIN st = Fields /\ st.accepted = [n \in Nodes |-> <<>>] /\ st.relays = {}
      /\ st.pending = [n \in Nodes |-> {}] /\ st.iseq = [n \in Nodes |-> 0]
      /\ st.call = [s \in Stmts |-> [state |-> "idle", node |-> 0, key |-> <<>>, sends |-> 0]]
      /\ st.orphans = {} /\ st.users = {}
    BY <1>3, EngineIs DEF Init
<1>5. /\ \A n \in Nodes : st.accepted[n] = <<>> /\ st.pending[n] = {}
      /\ \A s \in Stmts : st.call[s].state = "idle" /\ st.call[s].sends = 0
    BY <1>4
<1>6. Shape(st)
    <2>1. 0 \in Nodes
        BY ClusterAssumption DEF Nodes
    <2>2. [state |-> "idle", node |-> 0, key |-> <<>>, sends |-> 0] \in Calls
        BY <2>1 DEF Calls, States, ClientKeys
    <2> QED BY <1>4, <2>2 DEF Shape
<1>7. \A s \in Stmts : Honest(st.users, log, s, st.call[s].state) /\ st.call[s].sends <= budget[s]
    <2>1. \A s \in Stmts : budget[s] \in Nat
        BY <1>2 DEF Replicated
    <2>2. \A s : Honest(st.users, log, s, "idle")
        BY DEF Honest
    <2> QED BY <1>5, <2>1, <2>2
<1>8. log = <<>> /\ \A i \in 1..Len(log) : FALSE
    BY <1>1 DEF Init
<1>9. EngineOK(st, log)
    BY <1>1, <1>4, <1>5, <1>6, <1>7, <1>8 DEF EngineOK
<1>10. AllAwake(st, log, applied)
    BY <1>5 DEF AllAwake, Awake
<1> QED BY <1>2, <1>3, <1>9, <1>10 DEF Inv

LEMMA NextInv == Inv /\ [Next]_vars => Inv'
<1> SUFFICES ASSUME Inv, [Next]_vars PROVE Inv'
    OBVIOUS
<1>1. ASSUME NEW s \in Stmts, NEW n \in Nodes, SendSession(s, n) \/ SendRaw(s, n) PROVE Inv'
    BY <1>1, ClientSteps
<1>2. ASSUME NEW s \in Stmts, Resend(s) PROVE Inv'
    <2>1. 0 \in Nodes
        BY ClusterAssumption DEF Nodes
    <2> QED BY <1>2, <2>1, ClientSteps
<1>3. ASSUME NEW s \in Stmts, Rotate(s) PROVE Inv'
    BY <1>3, RotateStep
<1>4. ASSUME NEW r \in relays, RelayArrive(r) PROVE Inv'
    BY <1>4, RelayStep
<1>5. ASSUME NEW n \in Nodes, Commit(n) PROVE Inv'
    BY <1>5, CommitStep
<1>6. ASSUME NEW n \in Nodes, CatchUp(n) PROVE Inv'
    BY <1>6, CatchUpStep
<1>7. ASSUME NEW n \in Nodes, StartViewChange(n) \/ JoinView(n) PROVE Inv'
    BY <1>7, ViewSteps
<1>8. ASSUME NEW v \in 1..MaxView, NEW k \in 0..Len(accepted[view % N]), BeginView(v, k) PROVE Inv'
    BY <1>8, BeginViewStep
<1>9. CASE UNCHANGED vars
    <2>1. PICK st : st = Engine
        OBVIOUS
    <2>2. EngineOK(st, log) /\ AllAwake(st, log, applied)
        BY <2>1 DEF Inv
    <2>3. Become(st) /\ UNCHANGED <<replication, budget, raw_seq>>
        BY <1>9, <2>1, EngineIs DEF Become, vars, engine, replication
    <2>4. log' = log /\ applied' = applied /\ UNCHANGED <<nview, normal, budget>>
        BY <2>3 DEF replication
    <2>5. EngineOK(Engine, log)' /\ AllAwake(Engine, log, applied)'
        BY <2>2, <2>3, <2>4, Becomes
    <2>6. raw_seq' \in [Nodes -> Nat]
        BY <2>3 DEF Inv, Replicated
    <2> QED BY <2>3, <2>5, <2>6, SameReplication DEF Inv
<1> QED BY <1>1, <1>2, <1>3, <1>4, <1>5, <1>6, <1>7, <1>8, <1>9 DEF Next

LEMMA Invariance == Spec => []Inv
BY InitInv, NextInv, PTL DEF Spec

LEMMA InvWakes == Inv => NoLostWakeup
<1> SUFFICES ASSUME Inv, NEW n \in Nodes, NEW m \in pending[n]
             PROVE  \/ <<n, m.key>> \in orphans
                    \/ \E i \in DOMAIN accepted[n] : accepted[n][i].key = m.key
                    \/ \E i \in (applied[n] + 1)..Len(log) : log[i].key = m.key
    BY DEF NoLostWakeup
<1>1. PICK st : st = Engine
    OBVIOUS
<1>2. /\ EngineOK(st, log) /\ AllAwake(st, log, applied) /\ st.pending = pending
      /\ st.accepted = accepted /\ st.orphans = orphans
    BY <1>1, EngineIs DEF Inv
<1>3. Awaited(st, log, applied[n], n, m.key)
    BY <1>2, NodesAre DEF AllAwake, Awake
<1>4. DOMAIN accepted[n] = 1..Len(accepted[n])
    <2>1. IsSequence(accepted[n])
        BY <1>2 DEF EngineOK
    <2>2. PICK S : accepted[n] \in Seq(S)
        BY <2>1 DEF IsSequence
    <2> QED BY <2>2, LenProperties
<1> QED BY <1>2, <1>3, <1>4 DEF Awaited

LEMMA InvAnswers == Inv => AnsweredOwn
<1> SUFFICES ASSUME Inv, NEW s \in Stmts, OwnKeys(s)
             PROVE  /\ call[s].state \notin {"record", "ids", "error"}
                    /\ call[s].state = "ok" => Executed(s)
    BY DEF AnsweredOwn
<1>1. PICK st : st = Engine
    OBVIOUS
<1>2. EngineOK(st, log) /\ st.call = call /\ st.users = users
    BY <1>1, EngineIs DEF Inv
<1>3. Own(users, s)
    BY DEF Own, OwnKeys
<1>4. call[s].state \notin {"record", "ids", "error"} /\ (call[s].state = "ok" => ExecutedIn(log, s))
    BY <1>2, <1>3 DEF EngineOK, Honest
<1>5. DOMAIN log = 1..Len(log)
    <2>1. PICK S : log \in Seq(S)
        BY DEF Inv, Replicated, IsSequence
    <2> QED BY <2>1, LenProperties
<1> QED BY <1>4, <1>5 DEF Executed, ExecutedIn

LEMMA InvType == Inv => TypeOK
<1> SUFFICES ASSUME Inv PROVE TypeOK
    OBVIOUS
<1>1. PICK st : st = Engine
    OBVIOUS
<1>2. /\ EngineOK(st, log) /\ Shape(st) /\ st.call = call /\ st.users = users
      /\ st.orphans = orphans /\ st.accepted = accepted
    BY <1>1, EngineIs DEF Inv, EngineOK
<1>3. /\ view \in 0..MaxView /\ view \in Nat /\ nview \in [Nodes -> 0..view]
      /\ normal \in [Nodes -> BOOLEAN]
    BY ClusterAssumption DEF Inv, Replicated
<1>4. applied \in [Nodes -> 0..Len(log)]
    BY LongerSelf DEF Inv, Replicated, Longer
<1>5. \A n \in Nodes : accepted[n] # <<>> => nview[n] % N = n
    BY <1>2 DEF EngineOK
<1>6. \A s \in Stmts : call[s].state \in States /\ call[s].sends \in 0..budget[s]
    <2> TAKE s \in Stmts
    <2>1. call[s] \in Calls /\ call[s].sends <= budget[s] /\ budget[s] \in Nat
        BY <1>2 DEF EngineOK, Shape, Inv, Replicated
    <2> QED BY <2>1 DEF Calls
<1>7. orphans \subseteq Nodes \X {u[1] : u \in users}
    BY <1>2 DEF EngineOK
<1> QED BY <1>3, <1>4, <1>5, <1>6, <1>7 DEF TypeOK

(* Every step of the nodes, the clients and replication keeps the types:   *)
(* a node serves no view beyond the newest, applies no more than is        *)
(* committed, holds accepted entries only as primary, and no statement     *)
(* overspends its attempts.                                                *)
THEOREM ClusterTypes == Spec => []TypeOK
BY Invariance, InvType, PTL

(* No lost wake-up (NoLostWakeup): for any number of nodes and statements, *)
(* a continuation that `pending` of cluster.rs holds is for an entry the   *)
(* node has yet to see committed, or the node is known to have stopped     *)
(* serving the view, or sent the follow-up elsewhere.                      *)
THEOREM NobodyWaitsInVain == Spec => []NoLostWakeup
BY Invariance, InvWakes, PTL

(* Answers are honest (AnsweredOwn): a statement whose keys nobody else    *)
(* used is never given another's result, and is told ok only after its     *)
(* write is committed, through redirects, relays, retries and view changes.*)
THEOREM AnswersOwn == Spec => []AnsweredOwn
BY Invariance, InvAnswers, PTL

----------------------------------------------------------------------------
(* The row as the log makes it: what FoldLeft computes *)

\* The function of sets of positions that FoldLeft(Effect, BlankRow, q) chooses.
Iter(it, q, m) ==
    it = [s \in SUBSET (1..m) |-> IF s = {} THEN BlankRow
                                  ELSE Effect(it[s \ {Max(s)}], q[Max(s)])]

LEMMA FoldIs ==
    ASSUME NEW S, NEW q \in Seq(S)
    PROVE  FoldLeft(Effect, BlankRow, q) = (CHOOSE it : Iter(it, q, Len(q)))[1..Len(q)]
<1>1. DOMAIN q = 1..Len(q)
  OBVIOUS
<1>2. FoldLeft(Effect, BlankRow, q) = (CHOOSE it : it = [s \in SUBSET (DOMAIN q) |-> IF s = {} THEN BlankRow
                                  ELSE Effect(it[s \ {Max(s)}], q[Max(s)])])[DOMAIN q]
  BY DEF FoldLeft, MapThenFoldSet
<1> QED BY <1>1, <1>2 DEF Iter

RowValues == [Columns -> Stmts \cup {NoStmt}]

LEMMA RowTrace ==
    ASSUME NEW S, NEW q \in Seq(S), \A i \in 1..Len(q), r \in RowValues : Effect(r, q[i]) \in RowValues
    PROVE  \E h : /\ h[0] = BlankRow /\ h[Len(q)] = FoldLeft(Effect, BlankRow, q)
                  /\ \A i \in 1..Len(q) : h[i] = Effect(h[i - 1], q[i])
                  /\ \A i \in 0..Len(q) : h[i] \in RowValues
<1>1. PICK m : m = Len(q)
    OBVIOUS
<1>2. m \in Nat
    BY <1>1
<1>3. BlankRow \in RowValues
    BY DEF BlankRow, RowValues
<1>4. PICK G : G = [x \in RowValues \X (1..m) |-> Effect(x[1], q[x[2]])]
    OBVIOUS
<1>5. G \in [RowValues \X (1..m) -> RowValues]
    BY <1>1, <1>4
<1>6a. PICK it : FoldsTo(it, RowValues, BlankRow, m, G)
    BY <1>2, <1>3, <1>5, IterExists
<1>6. /\ it \in [SUBSET (1..m) -> RowValues] /\ it[{}] = BlankRow
      /\ \A s \in SUBSET (1..m) : s # {} => it[s] = G[<<it[s \ {Max(s)}], Max(s)>>]
    BY <1>6a DEF FoldsTo
<1>7. \A s \in SUBSET (1..m) : s # {} => Max(s) \in s /\ \A i \in s : i <= Max(s)
    <2> TAKE s \in SUBSET (1..m)
    <2> HAVE s # {}
    <2>1. s \subseteq 0..m
        BY <1>2
    <2> QED BY <1>2, <2>1, MaxOfBounded
<1>8. \A s \in SUBSET (1..m) :
          it[s] = IF s = {} THEN BlankRow ELSE Effect(it[s \ {Max(s)}], q[Max(s)])
    <2> TAKE s \in SUBSET (1..m)
    <2>1. CASE s = {}
        BY <1>6, <2>1
    <2>2. CASE s # {}
        <3>1. Max(s) \in 1..m /\ s \ {Max(s)} \in SUBSET (1..m)
            BY <1>7, <2>2
        <3>2. it[s \ {Max(s)}] \in RowValues
            BY <1>6, <3>1
        <3>3. PICK x : x = <<it[s \ {Max(s)}], Max(s)>>
            OBVIOUS
        <3>4. x \in RowValues \X (1..m) /\ x[1] = it[s \ {Max(s)}] /\ x[2] = Max(s)
            BY <3>1, <3>2, <3>3
        <3>5. G[x] = Effect(x[1], q[x[2]])
            BY <1>4, <3>4
        <3> QED BY <1>6, <2>2, <3>3, <3>4, <3>5
    <2> QED BY <2>1, <2>2
<1>9. Iter(it, q, m)
    BY <1>6, <1>8 DEF Iter
<1>10. PICK c : c = CHOOSE x : Iter(x, q, m)
    OBVIOUS
<1>11. Iter(c, q, m)
    BY <1>9, <1>10
<1>12. \A s \in SUBSET (1..m) :
          c[s] = IF s = {} THEN BlankRow ELSE Effect(c[s \ {Max(s)}], q[Max(s)])
    BY <1>11 DEF Iter
<1>13. PICK h : h = [i \in 0..m |-> c[1..i]]
    OBVIOUS
<1>14. h[0] = BlankRow
    <2>1. 1..0 = {} /\ 0 \in 0..m
        BY <1>2
    <2> QED BY <1>12, <1>13, <2>1
<1>15. h[m] = FoldLeft(Effect, BlankRow, q)
    <2>1. FoldLeft(Effect, BlankRow, q) = (CHOOSE x : Iter(x, q, m))[1..m]
        BY <1>1, FoldIs
    <2>2. m \in 0..m
        BY <1>2
    <2> QED BY <1>10, <1>13, <2>1, <2>2
<1>16. ASSUME NEW i \in 1..m PROVE h[i] = Effect(h[i - 1], q[i])
    <2>1. PICK s : s = 1..i
        OBVIOUS
    <2>2. s \in SUBSET (1..m) /\ s # {} /\ i \in s /\ \A j \in s : j <= i
        <3>1. i \in Nat /\ 1 <= i /\ i <= m
            BY <1>2
        <3>2. i \in s /\ \A j \in s : j <= i /\ j \in 1..m
            BY <1>2, <2>1, <3>1
        <3> QED BY <3>2
    <2>3. Max(s) \in s /\ i <= Max(s)
        BY <1>7, <2>2
    <2>4. Max(s) = i
        BY <2>1, <2>2, <2>3
    <2>5. s \ {i} = 1..(i - 1)
        BY <2>1
    <2>6. c[s] = Effect(c[1..(i - 1)], q[i])
        BY <1>12, <2>2, <2>4, <2>5
    <2>7. i \in 0..m /\ i - 1 \in 0..m
        BY <1>2
    <2> QED BY <1>13, <2>1, <2>6, <2>7
<1>17. \A i \in 0..m : h[i] \in RowValues
    <2> DEFINE Bad == {i \in 0..m : h[i] \notin RowValues}
    <2> SUFFICES ASSUME Bad # {} PROVE FALSE
        OBVIOUS
    <2>1. Bad \subseteq Nat
        BY <1>2
    <2>2. PICK k \in Bad : \A j \in Bad : k <= j
        <3> HIDE DEF Bad
        <3> QED BY <2>1, LeastNatural
    <2>3. k # 0
        BY <1>3, <1>14
    <2>4. k \in 1..m /\ k - 1 \in 0..m /\ ~ (k <= k - 1)
        BY <1>2, <2>3
    <2>5. h[k - 1] \in RowValues
        BY <2>2, <2>4
    <2>6. Effect(h[k - 1], q[k]) \in RowValues
        BY <1>1, <2>4, <2>5
    <2> QED BY <1>16, <2>4, <2>6
<1> QED BY <1>1, <1>14, <1>15, <1>16, <1>17

\* The row after i entries of lg, and the entries' own facts.
RowIn(lg, i) == FoldLeft(Effect, BlankRow, SubSeq(lg, 1, i))

\* An UPDATE's entry writes back the row that was read after e.at entries of lg.
Fresh(lg, e) ==
    e.kind = "update" => e.at \in 0..Len(lg) /\ e.rec = Patch(RowIn(lg, e.at), e.stmt)

\* Every UPDATE in lg wrote back what it had read before its own place in lg.
ReadBefore(lg) ==
    /\ IsSequence(lg)
    /\ \A i \in 1..Len(lg) : lg[i].stmt \in Stmts
    /\ \A i \in 1..Len(lg) : lg[i].kind = "update" =>
           lg[i].at \in 0..(i - 1) /\ lg[i].rec = Patch(RowIn(lg, lg[i].at), lg[i].stmt)

LEMMA EffectTyped ==
    ASSUME NEW r \in RowValues, NEW e, e.stmt \in Stmts, e.kind = "update" => e.rec \in RowValues
    PROVE  Effect(r, e) \in RowValues
<1>1. CASE e.kind = "update"
    BY <1>1 DEF Effect
<1>2. CASE e.kind = "set"
    <2>1. Effect(r, e) = [r EXCEPT ![Column[e.stmt]] = e.stmt]
        BY <1>2 DEF Effect
    <2> QED BY <2>1 DEF RowValues
<1>3. CASE e.kind # "update" /\ e.kind # "set"
    BY <1>3 DEF Effect
<1> QED BY <1>1, <1>2, <1>3

LEMMA PatchTyped ==
    ASSUME NEW r \in RowValues, NEW s \in Stmts
    PROVE  /\ Patch(r, s) \in RowValues /\ Patch(r, s)[Column[s]] = s
           /\ \A c \in Columns : c # Column[s] => Patch(r, s)[c] = r[c]
BY ClusterAssumption DEF Patch, RowValues

\* A prefix of a sequence.
LEMMA Prefix ==
    ASSUME NEW q, IsSequence(q), NEW k \in 0..Len(q)
    PROVE  /\ \E S : SubSeq(q, 1, k) \in Seq(S)
           /\ Len(SubSeq(q, 1, k)) = k /\ Len(q) \in Nat /\ k \in Nat
           /\ \A i \in 1..k : SubSeq(q, 1, k)[i] = q[i]
<1>1. PICK S : q \in Seq(S)
    BY DEF IsSequence
<1>2. Len(q) \in Nat /\ k \in 0..Len(q)
    BY <1>1, LenProperties
<1>3. PICK p : p = SubSeq(q, 1, k)
    OBVIOUS
<1>4. p \in Seq(S) /\ Len(p) = k /\ \A i \in 1..k : p[i] = q[i]
    BY <1>1, <1>2, <1>3
<1> QED BY <1>2, <1>3, <1>4

\* If the entries before k have typed records, a trace of the rows up to k exists.
LEMMA PrefixTrace ==
    ASSUME NEW lg, IsSequence(lg), NEW k \in 0..Len(lg),
           \A i \in 1..k : lg[i].stmt \in Stmts /\ (lg[i].kind = "update" => lg[i].rec \in RowValues)
    PROVE  \E h : /\ h[0] = BlankRow /\ h[k] = RowIn(lg, k)
                  /\ \A i \in 1..k : h[i] = Effect(h[i - 1], lg[i])
                  /\ \A i \in 0..k : h[i] \in RowValues
<1>1. PICK q : q = SubSeq(lg, 1, k)
    OBVIOUS
<1>2. PICK S : q \in Seq(S)
    BY <1>1, Prefix
<1>3. Len(q) = k /\ k \in Nat /\ \A i \in 1..k : q[i] = lg[i]
    BY <1>1, Prefix
<1>4. \A i \in 1..Len(q), r \in RowValues : Effect(r, q[i]) \in RowValues
    BY <1>3, EffectTyped
<1>5. PICK h : /\ h[0] = BlankRow /\ h[Len(q)] = FoldLeft(Effect, BlankRow, q)
               /\ \A i \in 1..Len(q) : h[i] = Effect(h[i - 1], q[i])
               /\ \A i \in 0..Len(q) : h[i] \in RowValues
    BY <1>2, <1>4, RowTrace
<1>6. h[k] = RowIn(lg, k)
    BY <1>1, <1>3, <1>5 DEF RowIn
<1> QED BY <1>3, <1>5, <1>6

LEMMA RowsTyped ==
    ASSUME NEW lg, ReadBefore(lg)
    PROVE  \A k \in 0..Len(lg) : RowIn(lg, k) \in RowValues
<1>1. IsSequence(lg)
    BY DEF ReadBefore
<1>2. Len(lg) \in Nat
    <2>1. PICK S : lg \in Seq(S)
        BY <1>1 DEF IsSequence
    <2> QED BY <2>1, LenProperties
<1> DEFINE Bad == {k \in 0..Len(lg) : RowIn(lg, k) \notin RowValues}
<1> SUFFICES ASSUME Bad # {} PROVE FALSE
    OBVIOUS
<1>3. Bad \subseteq Nat
    BY <1>2
<1>4. PICK k \in Bad : \A j \in Bad : k <= j
    <2> HIDE DEF Bad
    <2> QED BY <1>3, LeastNatural
<1>5. k \in 0..Len(lg) /\ k \in Nat /\ \A j \in 0..Len(lg) : j < k => RowIn(lg, j) \in RowValues
    BY <1>2, <1>4
<1>6. ASSUME NEW i \in 1..k
      PROVE  lg[i].stmt \in Stmts /\ (lg[i].kind = "update" => lg[i].rec \in RowValues)
    <2>1. i \in 1..Len(lg)
        BY <1>2, <1>5
    <2>2. lg[i].stmt \in Stmts
        BY <2>1 DEF ReadBefore
    <2>3. CASE lg[i].kind = "update"
        <3>1. lg[i].at \in 0..(i - 1) /\ lg[i].rec = Patch(RowIn(lg, lg[i].at), lg[i].stmt)
            BY <2>1, <2>3 DEF ReadBefore
        <3>2. RowIn(lg, lg[i].at) \in RowValues
            BY <1>2, <1>5, <2>1, <3>1
        <3> QED BY <2>2, <3>1, <3>2, PatchTyped
    <2> QED BY <2>2, <2>3
<1>7. PICK h : h[k] = RowIn(lg, k) /\ \A i \in 0..k : h[i] \in RowValues
    BY <1>1, <1>5, <1>6, PrefixTrace
<1>8. k \in 0..k
    BY <1>5
<1> QED BY <1>7, <1>8

\* The row before any entry, and from one entry to the next.
LEMMA RowSteps ==
    ASSUME NEW lg, ReadBefore(lg)
    PROVE  /\ RowIn(lg, 0) = BlankRow
           /\ \A k \in 1..Len(lg) : RowIn(lg, k) = Effect(RowIn(lg, k - 1), lg[k])
<1>1. IsSequence(lg)
    BY DEF ReadBefore
<1>2. Len(lg) \in Nat
    <2>1. PICK S : lg \in Seq(S)
        BY <1>1 DEF IsSequence
    <2> QED BY <2>1, LenProperties
<1>3. \A i \in 1..Len(lg) :
          lg[i].stmt \in Stmts /\ (lg[i].kind = "update" => lg[i].rec \in RowValues)
    <2> TAKE i \in 1..Len(lg)
    <2>1. lg[i].stmt \in Stmts
        BY DEF ReadBefore
    <2>2. CASE lg[i].kind = "update"
        <3>1. lg[i].at \in 0..(i - 1) /\ lg[i].rec = Patch(RowIn(lg, lg[i].at), lg[i].stmt)
            BY <2>2 DEF ReadBefore
        <3>2. RowIn(lg, lg[i].at) \in RowValues
            BY <1>2, <3>1, RowsTyped
        <3> QED BY <2>1, <3>1, <3>2, PatchTyped
    <2> QED BY <2>1, <2>2
<1>4. RowIn(lg, 0) = BlankRow
    <2>1. 0 \in 0..Len(lg)
        BY <1>2
    <2>2. \A i \in 1..0 : lg[i].stmt \in Stmts /\ (lg[i].kind = "update" => lg[i].rec \in RowValues)
        OBVIOUS
    <2> QED BY <1>1, <2>1, <2>2, PrefixTrace
<1>5. ASSUME NEW k \in 1..Len(lg) PROVE RowIn(lg, k) = Effect(RowIn(lg, k - 1), lg[k])
    <2>1. k \in 0..Len(lg) /\ k - 1 \in 0..Len(lg) /\ k - 1 \in Nat /\ k \in Nat
        BY <1>2
    <2>2a. \A i \in 1..k : i \in 1..Len(lg)
        BY <1>2, <2>1
    <2>2b. \A i \in 1..k : lg[i].stmt \in Stmts /\ (lg[i].kind = "update" => lg[i].rec \in RowValues)
        BY <1>3, <2>2a
    <2>2. PICK h : /\ h[0] = BlankRow /\ h[k] = RowIn(lg, k)
                   /\ \A i \in 1..k : h[i] = Effect(h[i - 1], lg[i])
        BY <1>1, <2>1, <2>2b, PrefixTrace
    <2>3. PICK p : p = k - 1
        OBVIOUS
    <2>4. p \in 0..Len(lg) /\ p \in Nat /\ \A i \in 1..p : i \in 1..Len(lg) /\ i \in 1..k
        BY <1>2, <2>1, <2>3
    <2>5. \A i \in 1..p : lg[i].stmt \in Stmts /\ (lg[i].kind = "update" => lg[i].rec \in RowValues)
        BY <1>3, <2>4
    <2>6. PICK g : /\ g[0] = BlankRow /\ g[p] = RowIn(lg, p)
                   /\ \A i \in 1..p : g[i] = Effect(g[i - 1], lg[i])
        BY <1>1, <2>4, <2>5, PrefixTrace
    <2>7. \A i \in 1..p : h[i - 1] = g[i - 1] => h[i] = g[i]
        BY <2>2, <2>4, <2>6
    <2>8. \A i \in 0..p : h[i] = g[i]
        <3>1. h[0] = g[0] /\ p \in Nat
            BY <2>2, <2>4, <2>6
        <3> QED BY <2>7, <3>1, SameTrace
    <2>9. h[p] = g[p]
        BY <2>4, <2>8
    <2>10. h[k] = Effect(h[k - 1], lg[k])
        BY <2>1, <2>2
    <2> QED BY <2>2, <2>3, <2>6, <2>9, <2>10
<1> QED BY <1>4, <1>5

\* A longer log has the same rows.
LEMMA RowsStay ==
    ASSUME NEW lg, IsSequence(lg), NEW e, NEW k \in 0..Len(lg)
    PROVE  RowIn(Append(lg, e), k) = RowIn(lg, k)
<1>1. PICK g : g = Append(lg, e)
    OBVIOUS
<1>2. /\ IsSequence(g) /\ Len(g) = Len(lg) + 1 /\ Len(lg) \in Nat
      /\ \A i \in 1..Len(lg) : g[i] = lg[i]
    BY <1>1, Grown
<1>3. k \in 0..Len(g) /\ k \in Nat /\ \A i \in 1..k : i \in 1..Len(lg)
    BY <1>2
<1>4. SubSeq(g, 1, k) = SubSeq(lg, 1, k)
    <2>1. PICK S : SubSeq(lg, 1, k) \in Seq(S)
        BY Prefix
    <2>2. PICK T : SubSeq(g, 1, k) \in Seq(T)
        BY <1>2, <1>3, Prefix
    <2>3. PICK a, b : a = SubSeq(lg, 1, k) /\ b = SubSeq(g, 1, k)
        OBVIOUS
    <2>4. /\ Len(a) = k /\ Len(b) = k
          /\ \A i \in 1..k : a[i] = lg[i] /\ b[i] = g[i]
        BY <1>2, <1>3, <2>3, Prefix
    <2>5. \A i \in 1..k : a[i] = b[i]
        BY <1>2, <1>3, <2>4
    <2>6. a = b
        BY <2>1, <2>2, <2>3, <2>4, <2>5, LenProperties
    <2> QED BY <2>3, <2>6
<1> QED BY <1>1, <1>4 DEF RowIn

----------------------------------------------------------------------------
(* What the log makes of a column *)

Assigns(e, c) == e.kind \in {"update", "set"} /\ Column[e.stmt] = c

\* Entry i is the last of the first k that assigns c; 0 if none does.
LastOf(lg, k, c, i) ==
    /\ i \in 0..k /\ (i # 0 => Assigns(lg[i], c))
    /\ \A j \in (i + 1)..k : ~ Assigns(lg[j], c)

\* Column c has that value after k entries, unless an UPDATE undid it.
Kept(lg, k, c, i) ==
    \/ RowIn(lg, k)[c] = IF i = 0 THEN NoStmt ELSE lg[i].stmt
    \/ \E j \in (i + 1)..k : lg[j].kind = "update" /\ lg[j].at < i

LEMMA ColumnStep ==
    ASSUME NEW lg, ReadBefore(lg), NEW k \in 1..Len(lg), NEW c \in Columns, NEW i, LastOf(lg, k, c, i),
           \A p \in 0..(k - 1) : \A j : LastOf(lg, p, c, j) => Kept(lg, p, c, j)
    PROVE  Kept(lg, k, c, i)
<1>1. Len(lg) \in Nat
    <2>1. PICK S : lg \in Seq(S)
        BY DEF ReadBefore, IsSequence
    <2> QED BY <2>1, LenProperties
<1>2. PICK e : e = lg[k]
    OBVIOUS
<1>3. e.stmt \in Stmts /\ k \in Nat /\ k - 1 \in 0..(k - 1) /\ k - 1 \in 0..Len(lg)
    BY <1>1, <1>2 DEF ReadBefore
<1>4. PICK r, s : r = RowIn(lg, k - 1) /\ s = RowIn(lg, k)
    OBVIOUS
<1>5. r \in RowValues /\ s = Effect(r, e)
    BY <1>2, <1>3, <1>4, RowsTyped, RowSteps
<1>6. CASE Assigns(e, c)
    <2>1. i = k
        <3>1. i \in 0..k /\ ~ (k \in (i + 1)..k)
            BY <1>2, <1>6 DEF LastOf
        <3> QED BY <1>3, <3>1
    <2>2. s[c] = e.stmt
        <3>1. CASE e.kind = "set"
            <4>1. s = [r EXCEPT ![Column[e.stmt]] = e.stmt]
                BY <1>5, <3>1 DEF Effect
            <4> QED BY <1>5, <1>6, <4>1 DEF RowValues, Assigns
        <3>2. CASE e.kind = "update"
            <4>1. e.at \in 0..(k - 1) /\ e.rec = Patch(RowIn(lg, e.at), e.stmt)
                BY <1>2, <3>2 DEF ReadBefore
            <4>2. e.at \in 0..Len(lg)
                BY <1>1, <1>3, <4>1
            <4>3. RowIn(lg, e.at) \in RowValues
                BY <4>2, RowsTyped
            <4>4. s = Patch(RowIn(lg, e.at), e.stmt)
                BY <1>5, <3>2, <4>1 DEF Effect
            <4> QED BY <1>3, <1>6, <4>3, <4>4, PatchTyped DEF Assigns
        <3> QED BY <1>6, <3>1, <3>2 DEF Assigns
    <2>3. k # 0
        BY <1>3
    <2> QED BY <1>2, <1>4, <2>1, <2>2, <2>3 DEF Kept
<1>7. CASE ~ Assigns(e, c)
    <2>1. i \in 0..(k - 1)
        <3>1. i \in 0..k /\ i # k
            BY <1>2, <1>3, <1>7 DEF LastOf
        <3> QED BY <1>3, <3>1
    <2>2. \A p \in 0..(k - 1) : i <= p => LastOf(lg, p, c, i)
        <3> TAKE p \in 0..(k - 1)
        <3> HAVE i <= p
        <3>1. i \in 0..p /\ \A j \in (i + 1)..p : j \in (i + 1)..k
            BY <1>3, <2>1
        <3> QED BY <3>1 DEF LastOf
    <2>3. CASE e.kind # "update"
        <3>1. LastOf(lg, k - 1, c, i)
            BY <1>3, <2>1, <2>2
        <3>2. Kept(lg, k - 1, c, i)
            BY <1>3, <3>1
        <3>3. s[c] = r[c]
            <4>1. CASE e.kind = "set"
                <5>1. s = [r EXCEPT ![Column[e.stmt]] = e.stmt] /\ Column[e.stmt] # c
                    BY <1>5, <1>7, <4>1 DEF Effect, Assigns
                <5> QED BY <1>5, <5>1 DEF RowValues
            <4>2. CASE e.kind # "set"
                BY <1>5, <2>3, <4>2 DEF Effect
            <4> QED BY <4>1, <4>2
        <3>4. \A j \in (i + 1)..(k - 1) : j \in (i + 1)..k
            BY <1>3, <2>1
        <3> QED BY <1>4, <3>2, <3>3, <3>4 DEF Kept
    <2>4. CASE e.kind = "update"
        <3>1. e.at \in 0..(k - 1) /\ e.rec = Patch(RowIn(lg, e.at), e.stmt)
            BY <1>2, <2>4 DEF ReadBefore
        <3>2. CASE e.at < i
            <4>1. k \in (i + 1)..k
                BY <1>3, <2>1
            <4> QED BY <1>2, <2>4, <3>2, <4>1 DEF Kept
        <3>3. CASE ~ (e.at < i)
            <4>1. PICK p : p = e.at
                OBVIOUS
            <4>2. p \in 0..(k - 1) /\ i <= p /\ p \in 0..Len(lg)
                BY <1>1, <1>3, <2>1, <3>1, <3>3, <4>1
            <4>3. Kept(lg, p, c, i)
                BY <2>2, <4>2
            <4>4. RowIn(lg, p) \in RowValues
                BY <4>2, RowsTyped
            <4>5. s = Patch(RowIn(lg, p), e.stmt)
                BY <1>5, <2>4, <3>1, <4>1 DEF Effect
            <4>6. c # Column[e.stmt]
                BY <1>7, <2>4 DEF Assigns
            <4>7. s[c] = RowIn(lg, p)[c]
                BY <1>3, <4>4, <4>5, <4>6, PatchTyped
            <4>8. \A j \in (i + 1)..p : j \in (i + 1)..k
                BY <1>3, <2>1, <4>2
            <4> QED BY <1>4, <4>3, <4>7, <4>8 DEF Kept
        <3> QED BY <3>2, <3>3
    <2> QED BY <2>3, <2>4
<1> QED BY <1>6, <1>7

LEMMA ColumnsKept ==
    ASSUME NEW lg, ReadBefore(lg), NEW c \in Columns
    PROVE  \A k \in 0..Len(lg) : \A i : LastOf(lg, k, c, i) => Kept(lg, k, c, i)
<1>1. Len(lg) \in Nat
    <2>1. PICK S : lg \in Seq(S)
        BY DEF ReadBefore, IsSequence
    <2> QED BY <2>1, LenProperties
<1> DEFINE Bad == {k \in 0..Len(lg) : ~ \A i : LastOf(lg, k, c, i) => Kept(lg, k, c, i)}
<1> SUFFICES ASSUME Bad # {} PROVE FALSE
    OBVIOUS
<1>2. Bad \subseteq Nat
    BY <1>1
<1>3. PICK k \in Bad : \A j \in Bad : k <= j
    <2> HIDE DEF Bad
    <2> QED BY <1>2, LeastNatural
<1>4. k \in 0..Len(lg) /\ k \in Nat
    BY <1>1
<1>5. PICK i : LastOf(lg, k, c, i) /\ ~ Kept(lg, k, c, i)
    OBVIOUS
<1>6. CASE k = 0
    <2>1. i = 0
        BY <1>5, <1>6 DEF LastOf
    <2>2. RowIn(lg, 0)[c] = NoStmt
        BY RowSteps DEF BlankRow
    <2> QED BY <1>5, <1>6, <2>1, <2>2 DEF Kept
<1>7. CASE k # 0
    <2>1. k \in 1..Len(lg)
        BY <1>1, <1>4, <1>7
    <2>2. \A p \in 0..(k - 1) : p \in 0..Len(lg) /\ ~ (k <= p)
        BY <1>1, <1>4
    <2>3. \A p \in 0..(k - 1) : \A j : LastOf(lg, p, c, j) => Kept(lg, p, c, j)
        BY <1>3, <2>2
    <2>4. Kept(lg, k, c, i)
        BY <1>5, <2>1, <2>3, ColumnStep
    <2> QED BY <1>5, <2>4
<1> QED BY <1>6, <1>7

----------------------------------------------------------------------------
(* Where an engine's entries come from *)

\* Entry e is in the engines' state st, accepted or on its way to a primary.
Holds(st, e) ==
    \/ \E n \in Nodes : \E i \in 1..Len(st.accepted[n]) : e = st.accepted[n][i]
    \/ \E r \in st.relays : e = r.entry

Listed(st) ==
    /\ DOMAIN st = Fields /\ DOMAIN st.accepted = Nodes
    /\ \A n \in Nodes : IsSequence(st.accepted[n])

SameEntries(st, t) ==
    DOMAIN t = Fields /\ t.accepted = st.accepted /\ t.relays = st.relays

LEMMA SameHolds ==
    ASSUME NEW st, NEW t, Listed(st), SameEntries(st, t)
    PROVE  Listed(t) /\ \A e : Holds(t, e) <=> Holds(st, e)
BY DEF Listed, SameEntries, Holds

LEMMA NoEntry ==
    ASSUME NEW st, Listed(st), NEW n, NEW m
    PROVE  /\ SameEntries(st, Insert(st, n, m))
           /\ \A result : SameEntries(st, Answer(st, n, m, result))
           /\ SameEntries(st, [st EXCEPT !.iseq[n] = @ + 1, !.pending[n] = @ \ {m}])
           /\ \A key : SameEntries(st, [st EXCEPT !.orphans = @ \cup {<<n, key>>}])
<1>1. SameEntries(st, Insert(st, n, m))
    BY DEF Listed, SameEntries, Insert, Fields
<1>2. ASSUME NEW result PROVE SameEntries(st, Answer(st, n, m, result))
    BY DEF Listed, SameEntries, Answer, Fields
<1>3. SameEntries(st, [st EXCEPT !.iseq[n] = @ + 1, !.pending[n] = @ \ {m}])
    BY DEF Listed, SameEntries, Fields
<1>4. ASSUME NEW key PROVE SameEntries(st, [st EXCEPT !.orphans = @ \cup {<<n, key>>}])
    BY DEF Listed, SameEntries, Fields
<1> QED BY <1>1, <1>2, <1>3, <1>4

LEMMA AcceptBrings ==
    ASSUME NEW st, Listed(st), NEW n \in Nodes, NEW e
    PROVE  Listed(Accept(st, n, e)) /\ \A x : Holds(Accept(st, n, e), x) => Holds(st, x) \/ x = e
<1>1. PICK t : t = Accept(st, n, e)
    OBVIOUS
<1>2. CASE ~ normal[n]
    BY <1>2 DEF Accept
<1>3. CASE normal[n] /\ nview[n] % N = n
    <2>1. PICK q : q = st.accepted[n]
        OBVIOUS
    <2>2. PICK p : p = Append(q, e)
        OBVIOUS
    <2>3. /\ DOMAIN t = Fields /\ t.accepted = [st.accepted EXCEPT ![n] = p] /\ t.relays = st.relays
        BY <1>1, <1>3, <2>1, <2>2 DEF Accept, Listed, Fields
    <2>4. /\ t.accepted[n] = p /\ DOMAIN t.accepted = Nodes
          /\ \A x \in Nodes : x # n => t.accepted[x] = st.accepted[x]
        BY <2>3 DEF Listed
    <2>5. IsSequence(q)
        BY <2>1 DEF Listed
    <2>6. /\ IsSequence(p) /\ Len(p) = Len(q) + 1 /\ Len(q) \in Nat
          /\ \A i \in 1..Len(q) : p[i] = q[i]
          /\ p[Len(q) + 1] = e /\ \A i \in 1..Len(p) : i \in 1..Len(q) \/ i = Len(q) + 1
        BY <2>2, <2>5, Grown
    <2>7. \A x \in Nodes : IsSequence(t.accepted[x])
        BY <2>4, <2>6 DEF Listed
    <2>8. \A i \in 1..Len(p) : p[i] = e \/ \E j \in 1..Len(q) : p[i] = q[j]
        BY <2>6
    <2>9. ASSUME NEW x \in Nodes, NEW i \in 1..Len(t.accepted[x])
          PROVE  Holds(st, t.accepted[x][i]) \/ t.accepted[x][i] = e
        <3>1. CASE x = n
            <4>1. i \in 1..Len(p) /\ t.accepted[x][i] = p[i]
                BY <2>4, <2>9, <3>1
            <4> QED BY <2>1, <2>8, <4>1 DEF Holds
        <3>2. CASE x # n
            BY <2>4, <2>9, <3>2 DEF Holds
        <3> QED BY <3>1, <3>2
    <2>10. \A r \in t.relays : Holds(st, r.entry)
        BY <2>3 DEF Holds
    <2>11. ASSUME NEW x, Holds(t, x) PROVE Holds(st, x) \/ x = e
        BY <2>9, <2>10, <2>11 DEF Holds
    <2> QED BY <1>1, <2>3, <2>4, <2>7, <2>11 DEF Listed
<1>4. CASE normal[n] /\ nview[n] % N # n
    <2>1. PICK r : r = [to |-> nview[n] % N, entry |-> e]
        OBVIOUS
    <2>2. DOMAIN t = Fields /\ t.relays = st.relays \cup {r} /\ t.accepted = st.accepted /\ r.entry = e
        BY <1>1, <1>4, <2>1 DEF Accept, Listed, Fields
    <2>3. \A x : Holds(t, x) => Holds(st, x) \/ x = e
        BY <2>2 DEF Holds
    <2> QED BY <1>1, <2>2, <2>3 DEF Listed
<1> QED BY <1>2, <1>3, <1>4

\* The entry x writes back what result says was read.
WritesBack(x, result) ==
    x.kind = "update" =>
        result.kind = "record" /\ x.at = result.at /\ x.rec = Patch(result.rec, x.stmt)

LEMMA FollowUpBrings ==
    ASSUME NEW st, Listed(st), NEW n \in Nodes, NEW m, NEW result,
           m.cont = "update" => result.kind = "record"
    PROVE  /\ Listed(FollowUp(st, n, m, result))
           /\ \A x : Holds(FollowUp(st, n, m, result), x) => Holds(st, x) \/ WritesBack(x, result)
<1>1. PICK key : key = InternalKey(st.iseq[n] + 1)
    OBVIOUS
<1>2. PICK e : e = [key |-> key, stmt |-> m.stmt, at |-> result.at,
                    kind |-> IF m.cont = "update" THEN "update" ELSE "set",
                    rec |-> Patch(result.rec, m.stmt)]
    OBVIOUS
<1>3. PICK w : w = [key |-> key, stmt |-> m.stmt, sends |-> m.sends, cont |-> "reply"]
    OBVIOUS
<1>4. PICK st1 : st1 = [st EXCEPT !.iseq[n] = @ + 1, !.pending[n] = @ \ {m}]
    OBVIOUS
<1>5. PICK st2 : st2 = Insert(st1, n, w)
    OBVIOUS
<1>6. PICK st3 : st3 = [st2 EXCEPT !.orphans = @ \cup {<<n, key>>}]
    OBVIOUS
<1>7. PICK t : t = FollowUp(st, n, m, result)
    OBVIOUS
<1>8. t = IF Cached(n, key) # 0 /\ normal[n] THEN Answer(st2, n, w, ResultAt(Cached(n, key)).kind)
          ELSE Accept(IF IsActivePrimary(n) THEN st2 ELSE st3, n, e)
    BY <1>1, <1>2, <1>3, <1>4, <1>5, <1>6, <1>7 DEF FollowUp
<1>9. WritesBack(e, result)
    BY <1>2 DEF WritesBack
<1>10. SameEntries(st, st1)
    BY <1>4, NoEntry
<1>11. Listed(st1) /\ \A x : Holds(st1, x) <=> Holds(st, x)
    BY <1>10, SameHolds
<1>12. SameEntries(st1, st2)
    BY <1>5, <1>11, NoEntry
<1>13. Listed(st2) /\ \A x : Holds(st2, x) <=> Holds(st, x)
    BY <1>11, <1>12, SameHolds
<1>14. SameEntries(st2, st3)
    BY <1>6, <1>13, NoEntry
<1>15. Listed(st3) /\ \A x : Holds(st3, x) <=> Holds(st, x)
    BY <1>13, <1>14, SameHolds
<1>16. CASE Cached(n, key) # 0 /\ normal[n]
    <2>1. PICK k : k = ResultAt(Cached(n, key)).kind
        OBVIOUS
    <2>2. t = Answer(st2, n, w, k)
        BY <1>8, <1>16, <2>1
    <2>3. SameEntries(st2, t)
        BY <1>13, <2>2, NoEntry
    <2> QED BY <1>7, <1>13, <2>3, SameHolds
<1>17. CASE ~ (Cached(n, key) # 0 /\ normal[n])
    <2>1. PICK u : u = IF IsActivePrimary(n) THEN st2 ELSE st3
        OBVIOUS
    <2>2. t = Accept(u, n, e)
        BY <1>8, <1>17, <2>1
    <2>3. Listed(u) /\ \A x : Holds(u, x) <=> Holds(st, x)
        BY <1>13, <1>15, <2>1
    <2>4. Listed(t) /\ \A x : Holds(t, x) => Holds(u, x) \/ x = e
        BY <2>2, <2>3, AcceptBrings
    <2> QED BY <1>7, <1>9, <2>3, <2>4
<1> QED BY <1>16, <1>17

LEMMA RouteBrings ==
    ASSUME NEW st, Listed(st), NEW n \in Nodes, NEW key, NEW result
    PROVE  /\ Listed(Route(st, n, key, result))
           /\ \A x : Holds(Route(st, n, key, result), x) => Holds(st, x) \/ WritesBack(x, result)
<1>1. CASE Waiters(st, n, key) = {}
    BY <1>1 DEF Route
<1>2. CASE Waiters(st, n, key) # {}
    <2>1. PICK m : m = CHOOSE w \in Waiters(st, n, key) : TRUE
        OBVIOUS
    <2>2. PICK t : t = Route(st, n, key, result)
        OBVIOUS
    <2>3. t = IF m.cont = "reply" \/ result.kind = "ok" THEN Answer(st, n, m, result.kind)
              ELSE IF (m.cont = "update") # (result.kind = "record") THEN Answer(st, n, m, "error")
              ELSE FollowUp(st, n, m, result)
        BY <1>2, <2>1, <2>2 DEF Route
    <2>4. PICK k : k = IF m.cont = "reply" \/ result.kind = "ok" THEN result.kind ELSE "error"
        OBVIOUS
    <2>5. CASE t = Answer(st, n, m, k)
        <3>1. SameEntries(st, t)
            BY <2>5, NoEntry
        <3> QED BY <2>2, <3>1, SameHolds
    <2>6. CASE t = FollowUp(st, n, m, result) /\ (m.cont = "update" => result.kind = "record")
        BY <2>2, <2>6, FollowUpBrings
    <2> QED BY <2>3, <2>4, <2>5, <2>6
<1> QED BY <1>1, <1>2

----------------------------------------------------------------------------
(* The invariant of the rows: every UPDATE that is committed, accepted or    *)
(* relayed writes back the row as some prefix of the log made it.            *)

FreshInv == ReadBefore(log) /\ \A e : Holds(Engine, e) => Fresh(log, e)

LEMMA ResultFresh ==
    ASSUME NEW lg, NEW i \in 0..Len(lg), NEW result,
           result.kind = "record" => result.at = i /\ result.rec = RowIn(lg, i),
           NEW x, WritesBack(x, result)
    PROVE  Fresh(lg, x)
BY DEF WritesBack, Fresh

LEMMA ResultAtIs ==
    ASSUME NEW i
    PROVE  ResultAt(i).kind = "record" => ResultAt(i).at = i /\ ResultAt(i).rec = RowIn(log, i)
<1>1. CASE log[i].kind = "read"
    BY <1>1 DEF ResultAt, RowAt, RowIn
<1>2. CASE log[i].kind # "read"
    <2>1. ResultAt(i).kind # "record"
        BY <1>2 DEF ResultAt
    <2> QED BY <2>1
<1> QED BY <1>1, <1>2

LEMMA RequestBrings ==
    ASSUME Replicated, NEW st, Listed(st), NEW n \in Nodes, NEW e
    PROVE  /\ Listed(Request(st, n, e))
           /\ \A x : Holds(Request(st, n, e), x) => Holds(st, x) \/ x = e \/ Fresh(log, x)
<1>1. PICK t : t = Request(st, n, e)
    OBVIOUS
<1>2. CASE normal[n] /\ Cached(n, e.key) # 0
    <2>1. PICK i, k : i = Cached(n, e.key) /\ k = e.key
        OBVIOUS
    <2>2. i \in 1..Len(log)
        BY <1>2, <2>1, CachedIs
    <2>3. PICK result : result = ResultAt(i)
        OBVIOUS
    <2>4. t = Route(st, n, k, result)
        BY <1>1, <1>2, <2>1, <2>3 DEF Request
    <2>5. Listed(t) /\ \A x : Holds(t, x) => Holds(st, x) \/ WritesBack(x, result)
        BY <2>4, RouteBrings
    <2>6. i \in 0..Len(log)
        BY <2>2, LongerSelf DEF Longer
    <2>7. result.kind = "record" => result.at = i /\ result.rec = RowIn(log, i)
        BY <2>3, ResultAtIs
    <2>8. \A x : WritesBack(x, result) => Fresh(log, x)
        BY <2>6, <2>7, ResultFresh
    <2> QED BY <1>1, <2>5, <2>8
<1>3. CASE ~ (normal[n] /\ Cached(n, e.key) # 0)
    <2>1. t = Accept(st, n, e)
        BY <1>1, <1>3 DEF Request
    <2> QED BY <1>1, <2>1, AcceptBrings
<1> QED BY <1>2, <1>3

LEMMA SubmitBrings ==
    ASSUME Replicated, NEW st, Listed(st), NEW n \in Nodes, NEW s \in Stmts, NEW key
    PROVE  \A x : Holds(Submit(st, n, s, key), x) => Holds(st, x) \/ Fresh(log, x)
<1>1. PICK m : m = [key |-> key, stmt |-> s, sends |-> st.call[s].sends,
                    cont |-> IF Kind[s] = "op" THEN "reply" ELSE Kind[s]]
    OBVIOUS
<1>2. PICK e : e = [key |-> key, stmt |-> s, at |-> 0, rec |-> BlankRow,
                    kind |-> CASE Kind[s] = "op" -> "write"
                               [] Kind[s] = "update" -> "read"
                               [] Kind[s] = "dml" -> "query"]
    OBVIOUS
<1>3. PICK st1 : st1 = Insert(st, n, m)
    OBVIOUS
<1>4. PICK st2 : st2 = Request(st1, n, e)
    OBVIOUS
<1>5. PICK t : t = Submit(st, n, s, key)
    OBVIOUS
<1>6. t = Redirect(st2, n, key)
    BY <1>1, <1>2, <1>3, <1>4, <1>5 DEF Submit
<1>7. SameEntries(st, st1)
    BY <1>3, NoEntry
<1>8. Listed(st1) /\ \A x : Holds(st1, x) <=> Holds(st, x)
    BY <1>7, SameHolds
<1>9. Listed(st2) /\ \A x : Holds(st2, x) => Holds(st1, x) \/ x = e \/ Fresh(log, x)
    BY <1>4, <1>8, RequestBrings
<1>10. Fresh(log, e)
    <2>1. Kind[s] \in {"op", "update", "dml"}
        BY ClusterAssumption
    <2>2. e.kind # "update"
        BY <1>2, <2>1
    <2> QED BY <2>2 DEF Fresh
<1>11. CASE t = st2
    BY <1>5, <1>8, <1>9, <1>10, <1>11
<1>12. CASE t # st2
    <2>1. PICK w : t = Answer(st2, n, w, "unavailable")
        BY <1>6, <1>12 DEF Redirect
    <2>2. SameEntries(st2, t)
        BY <1>9, <2>1, NoEntry
    <2>3. \A x : Holds(t, x) <=> Holds(st2, x)
        BY <1>9, <2>2, SameHolds
    <2> QED BY <1>5, <1>8, <1>9, <1>10, <2>3
<1> QED BY <1>11, <1>12

LEMMA EngineListed == Inv => Listed(Engine)
<1> SUFFICES ASSUME Inv PROVE Listed(Engine)
    OBVIOUS
<1>1. PICK st : st = Engine
    OBVIOUS
<1>2. EngineOK(st, log)
    BY <1>1 DEF Inv
<1>3. Listed(st)
    BY <1>2 DEF EngineOK, Shape, Listed
<1> QED BY <1>1, <1>3

\* The log is the same, and every entry the engines hold was there or is fresh.
LEMMA FreshStays ==
    ASSUME FreshInv, log' = log, NEW t, t = Engine',
           \A x : Holds(t, x) => Holds(Engine, x) \/ Fresh(log, x)
    PROVE  FreshInv'
<1>1. \A x : Holds(t, x) => Fresh(log, x)
    BY DEF FreshInv
<1>2. \A x : Holds(Engine, x)' <=> Holds(t, x)
    BY DEF Holds
<1>3. \A x : Fresh(log, x)' <=> Fresh(log, x)
    BY DEF Fresh, RowIn
<1>4. ReadBefore(log)' <=> ReadBefore(log)
    BY DEF ReadBefore, RowIn, IsSequence
<1> QED BY <1>1, <1>2, <1>3, <1>4 DEF FreshInv

LEMMA BecomeHolds ==
    ASSUME NEW st, Become(st)
    PROVE  \A x : Holds(Engine', x) <=> Holds(st, x)
<1>1. PICK t : t = Engine'
    OBVIOUS
<1>2. t.accepted = st.accepted /\ t.relays = st.relays
    BY <1>1 DEF Engine, Become
<1>3. \A x : Holds(t, x) <=> Holds(st, x)
    BY <1>2 DEF Holds
<1> QED BY <1>1, <1>3

LEMMA FreshSubmit ==
    ASSUME Inv, FreshInv, NEW s \in Stmts, NEW n \in Nodes, NEW key,
           Become(Submit(Sending(s, n, key), n, s, key)), log' = log
    PROVE  FreshInv'
<1>1. PICK st : st = Sending(s, n, key)
    OBVIOUS
<1>2. SameEntries(Engine, st)
    BY <1>1, EngineIs DEF Sending, SameEntries, Fields
<1>3. Listed(st) /\ \A x : Holds(st, x) <=> Holds(Engine, x)
    BY <1>2, EngineListed, SameHolds
<1>4. PICK t : t = Submit(st, n, s, key)
    OBVIOUS
<1>5. \A x : Holds(t, x) => Holds(st, x) \/ Fresh(log, x)
    BY <1>3, <1>4, SubmitBrings DEF Inv
<1>6. \A x : Holds(Engine', x) => Holds(Engine, x) \/ Fresh(log, x)
    BY <1>1, <1>3, <1>4, <1>5, BecomeHolds
<1> QED BY <1>6, FreshStays

LEMMA FreshRelay ==
    ASSUME Inv, FreshInv, NEW r \in relays, RelayArrive(r)
    PROVE  FreshInv'
<1>1. PICK st : st = Engine
    OBVIOUS
<1>2. Listed(st) /\ r \in st.relays /\ r.to \in Nodes
    BY <1>1, EngineIs, EngineListed DEF Inv, EngineOK
<1>3. PICK u : u = [st EXCEPT !.relays = @ \ {r}]
    OBVIOUS
<1>4. DOMAIN u = Fields /\ u.accepted = st.accepted /\ u.relays = st.relays \ {r}
    BY <1>2, <1>3 DEF Listed, Fields
<1>5. Listed(u) /\ \A x : Holds(u, x) => Holds(st, x)
    BY <1>2, <1>4 DEF Listed, Holds
<1>6. PICK n, e : n = r.to /\ e = r.entry
    OBVIOUS
<1>7. Holds(st, e)
    BY <1>2, <1>6 DEF Holds
<1>8. PICK t : t = Request(u, n, e)
    OBVIOUS
<1>9. \A x : Holds(t, x) => Holds(u, x) \/ x = e \/ Fresh(log, x)
    BY <1>2, <1>5, <1>6, <1>8, RequestBrings DEF Inv
<1>10. Become(t)
    BY <1>1, <1>3, <1>6, <1>8 DEF RelayArrive
<1>11. \A x : Holds(Engine', x) => Holds(Engine, x) \/ Fresh(log, x)
    BY <1>1, <1>5, <1>7, <1>9, <1>10, BecomeHolds
<1>12. log' = log
    BY DEF RelayArrive, replication
<1> QED BY <1>11, <1>12, FreshStays

\* One more entry, which was read before its place in the log.
LEMMA LongerLog ==
    ASSUME NEW lg, ReadBefore(lg), NEW e, e.stmt \in Stmts, Fresh(lg, e)
    PROVE  /\ ReadBefore(Append(lg, e)) /\ Len(Append(lg, e)) = Len(lg) + 1 /\ Len(lg) \in Nat
           /\ \A x : Fresh(lg, x) => Fresh(Append(lg, e), x)
<1>1. PICK g : g = Append(lg, e)
    OBVIOUS
<1>2. IsSequence(lg)
    BY DEF ReadBefore
<1>3. /\ IsSequence(g) /\ Len(g) = Len(lg) + 1 /\ Len(lg) \in Nat
      /\ \A i \in 1..Len(lg) : g[i] = lg[i]
      /\ g[Len(lg) + 1] = e /\ \A i \in 1..Len(g) : i \in 1..Len(lg) \/ i = Len(lg) + 1
    BY <1>1, <1>2, Grown
<1>4. \A k \in 0..Len(lg) : RowIn(g, k) = RowIn(lg, k)
    BY <1>1, <1>2, RowsStay
<1>5. \A x : Fresh(lg, x) => Fresh(g, x)
    BY <1>3, <1>4 DEF Fresh
<1>6. ASSUME NEW i \in 1..Len(g)
      PROVE  /\ g[i].stmt \in Stmts
             /\ g[i].kind = "update" =>
                  g[i].at \in 0..(i - 1) /\ g[i].rec = Patch(RowIn(g, g[i].at), g[i].stmt)
    <2>1. CASE i \in 1..Len(lg)
        <3>1. g[i] = lg[i] /\ lg[i].stmt \in Stmts
            BY <1>3, <2>1 DEF ReadBefore
        <3>2. CASE lg[i].kind = "update"
            <4>1. lg[i].at \in 0..(i - 1) /\ lg[i].rec = Patch(RowIn(lg, lg[i].at), lg[i].stmt)
                BY <2>1, <3>2 DEF ReadBefore
            <4>2. lg[i].at \in 0..Len(lg)
                BY <1>3, <2>1, <4>1
            <4> QED BY <1>4, <3>1, <4>1, <4>2
        <3> QED BY <3>1, <3>2
    <2>2. CASE i = Len(lg) + 1
        <3>1. g[i] = e /\ i - 1 = Len(lg)
            BY <1>3, <2>2
        <3> QED BY <1>4, <3>1 DEF Fresh
    <2> QED BY <1>3, <2>1, <2>2
<1>7. ReadBefore(g)
    BY <1>3, <1>6 DEF ReadBefore
<1> QED BY <1>1, <1>3, <1>5, <1>7

LEMMA FreshCommit ==
    ASSUME Inv, FreshInv, NEW n \in Nodes, Commit(n)
    PROVE  FreshInv'
<1>1. PICK st : st = Engine
    OBVIOUS
<1>2. Listed(st) /\ st.accepted = accepted /\ EngineOK(st, log)
    BY <1>1, EngineIs, EngineListed DEF Inv
<1>3. PICK q : q = accepted[n]
    OBVIOUS
<1>4. q # <<>> /\ IsSequence(q)
    BY <1>2, <1>3 DEF Commit, Listed
<1>5. PICK r, h : r = Tail(q) /\ h = Head(q)
    OBVIOUS
<1>6. /\ IsSequence(r) /\ Len(r) = Len(q) - 1 /\ Len(q) \in Nat \ {0}
      /\ \A i \in 1..Len(r) : i + 1 \in 1..Len(q) /\ r[i] = q[i + 1]
      /\ h = q[1] /\ 1 \in 1..Len(q)
    BY <1>4, <1>5, Shrunk
<1>7. PICK u : u = [st EXCEPT !.accepted[n] = r]
    OBVIOUS
<1>8. DOMAIN u = Fields /\ u.accepted = [st.accepted EXCEPT ![n] = r] /\ u.relays = st.relays
    BY <1>2, <1>7 DEF Listed, Fields
<1>9. /\ DOMAIN u.accepted = Nodes /\ u.accepted[n] = r
      /\ \A x \in Nodes : x # n => u.accepted[x] = st.accepted[x]
    BY <1>2, <1>8 DEF Listed
<1>10. Listed(u)
    BY <1>2, <1>6, <1>8, <1>9 DEF Listed
<1>11. Holds(st, h) /\ h.stmt \in Stmts
    <2>1. h = st.accepted[n][1] /\ 1 \in 1..Len(st.accepted[n])
        BY <1>2, <1>3, <1>6
    <2>2. EntryOK(st.users, h)
        BY <1>2, <2>1 DEF EngineOK
    <2> QED BY <2>1, <2>2 DEF Holds, EntryOK
<1>12. \A i \in 1..Len(r) : Holds(st, r[i])
    BY <1>2, <1>3, <1>6 DEF Holds
<1>13. ASSUME NEW x, Holds(u, x) PROVE Holds(st, x)
    <2>1. CASE \E y \in u.relays : x = y.entry
        BY <1>8, <2>1 DEF Holds
    <2>2. ASSUME NEW y \in Nodes, NEW i \in 1..Len(u.accepted[y]), x = u.accepted[y][i]
          PROVE  Holds(st, x)
        <3>1. CASE y = n
            BY <1>9, <1>12, <2>2, <3>1
        <3>2. CASE y # n
            BY <1>9, <2>2, <3>2 DEF Holds
        <3> QED BY <3>1, <3>2
    <2> QED BY <1>13, <2>1, <2>2 DEF Holds
<1>14. PICK lg : lg = log'
    OBVIOUS
<1>15. lg = Append(log, h)
    BY <1>3, <1>5, <1>14 DEF Commit
<1>16. ReadBefore(log) /\ Fresh(log, h) /\ \A x : Holds(u, x) => Fresh(log, x)
    BY <1>1, <1>11, <1>13 DEF FreshInv
<1>17. /\ ReadBefore(lg) /\ Len(lg) = Len(log) + 1 /\ Len(log) \in Nat
       /\ \A x : Holds(u, x) => Fresh(lg, x)
    BY <1>11, <1>15, <1>16, LongerLog
<1>18. PICK result : result = ResultAt(Len(log))'
    OBVIOUS
<1>19. result.kind = "record" => result.at = Len(lg) /\ result.rec = RowIn(lg, Len(lg))
    <2>1. (ResultAt(Len(log)).kind = "record" =>
              ResultAt(Len(log)).at = Len(log) /\ ResultAt(Len(log)).rec = RowIn(log, Len(log)))'
        <3>1. CASE lg[Len(lg)].kind = "read"
            BY <1>14, <3>1 DEF ResultAt, RowAt, RowIn
        <3>2. CASE lg[Len(lg)].kind # "read"
            <4>1. ResultAt(Len(log)).kind' # "record"
                BY <1>14, <3>2 DEF ResultAt
            <4> QED BY <4>1
        <3> QED BY <3>1, <3>2
    <2> QED BY <1>14, <1>18, <2>1 DEF RowIn
<1>20. Len(lg) \in 0..Len(lg)
    BY <1>17
<1>21. \A x : WritesBack(x, result) => Fresh(lg, x)
    BY <1>19, <1>20, ResultFresh
<1>22. PICK key : key = h.key
    OBVIOUS
<1>23. PICK t : t = Route(u, n, key, result)
    OBVIOUS
<1>24. \A x : Holds(t, x) => Holds(u, x) \/ WritesBack(x, result)
    BY <1>10, <1>23, RouteBrings
<1>25. Become(t)
    BY <1>1, <1>3, <1>5, <1>7, <1>18, <1>22, <1>23, EngineIs DEF Commit
<1>26. \A x : Holds(Engine', x) => Fresh(lg, x)
    BY <1>17, <1>21, <1>24, <1>25, BecomeHolds
<1>27. \A x : Holds(Engine, x)' <=> Holds(Engine', x)
    BY DEF Holds
<1>28. \A x : Fresh(log, x)' <=> Fresh(lg, x)
    BY <1>14 DEF Fresh, RowIn
<1>29. ReadBefore(log)' <=> ReadBefore(lg)
    BY <1>14 DEF ReadBefore, RowIn, IsSequence
<1> QED BY <1>17, <1>26, <1>27, <1>28, <1>29 DEF FreshInv

LEMMA FreshCatchUp ==
    ASSUME Inv, FreshInv, NEW n \in Nodes, CatchUp(n)
    PROVE  FreshInv'
<1>1. log' = log
    BY DEF CatchUp
<1>2. CASE nview[n] % N = n
    <2>1. PICK j : j = applied[n] + 1
        OBVIOUS
    <2>2. j \in 0..Len(log)
        BY <2>1, LongerSelf DEF Inv, Replicated, CatchUp, Longer
    <2>3. PICK key, result : key = log[j].key /\ result = ResultAt(j)
        OBVIOUS
    <2>4. PICK st : st = Engine
        OBVIOUS
    <2>5. PICK t : t = Route(st, n, key, result)
        OBVIOUS
    <2>6. Become(t)
        BY <1>2, <2>1, <2>3, <2>4, <2>5 DEF CatchUp
    <2>7. Listed(st)
        BY <2>4, EngineListed
    <2>8. \A x : Holds(t, x) => Holds(st, x) \/ WritesBack(x, result)
        BY <2>5, <2>7, RouteBrings
    <2>9. result.kind = "record" => result.at = j /\ result.rec = RowIn(log, j)
        BY <2>3, ResultAtIs
    <2>10. \A x : WritesBack(x, result) => Fresh(log, x)
        BY <2>2, <2>9, ResultFresh
    <2>11. \A x : Holds(Engine', x) => Holds(Engine, x) \/ Fresh(log, x)
        BY <2>4, <2>6, <2>8, <2>10, BecomeHolds
    <2> QED BY <1>1, <2>11, FreshStays
<1>3. CASE nview[n] % N # n
    <2>1. accepted' = accepted /\ relays' = relays
        BY <1>3 DEF CatchUp, engine
    <2>2. \A x : Holds(Engine', x) => Holds(Engine, x)
        BY <2>1 DEF Engine, Holds
    <2> QED BY <1>1, <2>2, FreshStays
<1> QED BY <1>2, <1>3

\* What node p has accepted is cut to a prefix of what some node had.
LEMMA FreshView ==
    ASSUME Inv, FreshInv, NEW p \in Nodes, NEW o \in Nodes, NEW q, IsSequence(q),
           \A i \in 1..Len(q) : i \in 1..Len(accepted[o]) /\ q[i] = accepted[o][i],
           accepted' = [accepted EXCEPT ![p] = q], relays' = relays, log' = log
    PROVE  FreshInv'
<1>1. PICK st, t : st = Engine /\ t = Engine'
    OBVIOUS
<1>2. Listed(st) /\ st.accepted = accepted /\ st.relays = relays
    BY <1>1, EngineIs, EngineListed
<1>3. t.accepted = [accepted EXCEPT ![p] = q] /\ t.relays = relays
    BY <1>1 DEF Engine
<1>4. t.accepted[p] = q /\ \A x \in Nodes : x # p => t.accepted[x] = st.accepted[x]
    BY <1>2, <1>3 DEF Listed
<1>5. \A i \in 1..Len(q) : Holds(st, q[i])
    BY <1>2 DEF Holds
<1>6. ASSUME NEW x, Holds(t, x) PROVE Holds(st, x)
    <2>1. CASE \E y \in t.relays : x = y.entry
        BY <1>2, <1>3, <2>1 DEF Holds
    <2>2. ASSUME NEW y \in Nodes, NEW i \in 1..Len(t.accepted[y]), x = t.accepted[y][i]
          PROVE  Holds(st, x)
        <3>1. CASE y = p
            BY <1>4, <1>5, <2>2, <3>1
        <3>2. CASE y # p
            BY <1>4, <2>2, <3>2 DEF Holds
        <3> QED BY <3>1, <3>2
    <2> QED BY <1>6, <2>1, <2>2 DEF Holds
<1> QED BY <1>1, <1>6, FreshStays

LEMMA FreshBegin ==
    ASSUME Inv, FreshInv, NEW v \in 1..MaxView, NEW k \in 0..Len(accepted[view % N]), BeginView(v, k)
    PROVE  FreshInv'
<1>1. PICK o, p, q : o = view % N /\ p = v % N /\ q = SubSeq(accepted[o], 1, k)
    OBVIOUS
<1>2. o \in Nodes /\ p \in Nodes
    <2>1. view \in Nat /\ v \in Nat
        BY ClusterAssumption DEF Inv, Replicated
    <2> QED BY <1>1, <2>1, NodesAre
<1>3. IsSequence(accepted[o])
    BY <1>2, EngineIs, EngineListed DEF Listed
<1>4. PICK S : q \in Seq(S)
    BY <1>1, <1>3, Prefix
<1>5. /\ Len(q) = k /\ k \in Nat /\ Len(accepted[o]) \in Nat
      /\ \A i \in 1..k : q[i] = accepted[o][i]
    BY <1>1, <1>3, Prefix
<1>6. \A i \in 1..Len(q) : i \in 1..Len(accepted[o]) /\ q[i] = accepted[o][i]
    BY <1>1, <1>5
<1>7. accepted' = [accepted EXCEPT ![p] = q] /\ relays' = relays /\ log' = log
    BY <1>1 DEF BeginView
<1>8. IsSequence(q)
    BY <1>4 DEF IsSequence
<1> QED BY <1>2, <1>6, <1>7, <1>8, FreshView

LEMMA FreshJoin ==
    ASSUME Inv, FreshInv, NEW n \in Nodes, JoinView(n)
    PROVE  FreshInv'
<1>1. PICK q : q = << >>
    OBVIOUS
<1>2. IsSequence(q) /\ Len(q) = 0
    <2>1. <<>> \in Seq({}) /\ Len(<<>>) = 0
        BY EmptySeq
    <2> QED BY <1>1, <2>1 DEF IsSequence
<1>3. accepted' = [accepted EXCEPT ![n] = q] /\ relays' = relays /\ log' = log
    BY <1>1 DEF JoinView
<1>4. \A i \in 1..Len(q) : i \in 1..Len(accepted[n]) /\ q[i] = accepted[n][i]
    BY <1>2
<1> QED BY <1>2, <1>3, <1>4, FreshView

LEMMA FreshNext == Inv /\ FreshInv /\ [Next]_vars => FreshInv'
<1> SUFFICES ASSUME Inv, FreshInv, [Next]_vars PROVE FreshInv'
    OBVIOUS
<1>1. ASSUME NEW s \in Stmts, NEW n \in Nodes, SendSession(s, n) PROVE FreshInv'
    <2>1. log' = log /\ Become(Submit(Sending(s, n, SessionKey(s)), n, s, SessionKey(s)))
        BY <1>1 DEF SendSession, replication
    <2> QED BY <2>1, FreshSubmit
<1>2. ASSUME NEW s \in Stmts, NEW n \in Nodes, SendRaw(s, n) PROVE FreshInv'
    <2>1. log' = log /\ Become(Submit(Sending(s, n, RawKey(raw_seq[n])), n, s, RawKey(raw_seq[n])))
        BY <1>2 DEF SendRaw, replication
    <2> QED BY <2>1, FreshSubmit
<1>3. ASSUME NEW s \in Stmts, Resend(s) PROVE FreshInv'
    <2>1. call[s].node \in Nodes
        BY EngineIs DEF Inv, EngineOK, Shape, Calls
    <2>2. /\ log' = log
          /\ Become(Submit(Sending(s, call[s].node, call[s].key), call[s].node, s, call[s].key))
        BY <1>3 DEF Resend, replication
    <2> QED BY <2>1, <2>2, FreshSubmit
<1>4. ASSUME NEW r \in relays, RelayArrive(r) PROVE FreshInv'
    BY <1>4, FreshRelay
<1>5. ASSUME NEW n \in Nodes, Commit(n) PROVE FreshInv'
    BY <1>5, FreshCommit
<1>6. ASSUME NEW n \in Nodes, CatchUp(n) PROVE FreshInv'
    BY <1>6, FreshCatchUp
<1>7. ASSUME NEW n \in Nodes, JoinView(n) PROVE FreshInv'
    BY <1>7, FreshJoin
<1>8. ASSUME NEW v \in 1..MaxView, NEW k \in 0..Len(accepted[view % N]), BeginView(v, k)
      PROVE  FreshInv'
    BY <1>8, FreshBegin
<1>9. ASSUME log' = log, accepted' = accepted, relays' = relays PROVE FreshInv'
    <2>1. \A x : Holds(Engine', x) => Holds(Engine, x)
        BY <1>9 DEF Engine, Holds
    <2> QED BY <1>9, <2>1, FreshStays
<1>10. ASSUME NEW s \in Stmts, Rotate(s) PROVE FreshInv'
    BY <1>9, <1>10 DEF Rotate, replication
<1>11. ASSUME NEW n \in Nodes, StartViewChange(n) PROVE FreshInv'
    BY <1>9, <1>11 DEF StartViewChange
<1>12. CASE UNCHANGED vars
    BY <1>9, <1>12 DEF vars, engine, replication
<1> QED BY <1>1, <1>2, <1>3, <1>4, <1>5, <1>6, <1>7, <1>8, <1>10, <1>11, <1>12 DEF Next

LEMMA FreshInit == Init => FreshInv
<1> SUFFICES ASSUME Init PROVE FreshInv
    OBVIOUS
<1>1. <<>> \in Seq({}) /\ Len(<<>>) = 0
    BY EmptySeq
<1>2. ReadBefore(log)
    BY <1>1 DEF Init, ReadBefore, IsSequence
<1>3. PICK st : st = Engine
    OBVIOUS
<1>4. st.accepted = [n \in Nodes |-> <<>>] /\ st.relays = {}
    BY <1>3, EngineIs DEF Init
<1>5. \A n \in Nodes : Len(st.accepted[n]) = 0
    BY <1>1, <1>4
<1>6. \A e : ~ Holds(st, e)
    BY <1>4, <1>5 DEF Holds
<1> QED BY <1>2, <1>3, <1>6 DEF FreshInv

LEMMA FreshKept == FreshInv => UpdatesKept
<1> SUFFICES ASSUME FreshInv, NEW c \in Columns
             PROVE  LET i == LastSet(c) row == RowAt(Len(log)) IN
                    \/ row[c] = IF i = 0 THEN NoStmt ELSE log[i].stmt
                    \/ \E j \in (i + 1)..Len(log) : log[j].kind = "update" /\ log[j].at < i
    BY DEF UpdatesKept
<1>1. ReadBefore(log)
    BY DEF FreshInv
<1>2. PICK S : log \in Seq(S)
    BY <1>1 DEF ReadBefore, IsSequence
<1>3. Len(log) \in Nat /\ DOMAIN log = 1..Len(log)
    BY <1>2, LenProperties
<1> DEFINE T == {0} \cup {i \in DOMAIN log : log[i].kind \in {"update", "set"} /\ Column[log[i].stmt] = c}
<1>4. T \subseteq 0..Len(log) /\ 0 \in T
    BY <1>3
<1>5. \A i \in T : i # 0 => Assigns(log[i], c)
    BY DEF Assigns
<1>6. \A i \in 1..Len(log) : Assigns(log[i], c) => i \in T
    BY <1>3 DEF Assigns
<1>7. LastSet(c) = Max(T)
    BY DEF LastSet
<1> HIDE DEF T
<1>8. PICK i : i = LastSet(c)
    OBVIOUS
<1>9. i \in T /\ \A j \in T : j <= i
    <2>1. T # {}
        BY <1>4
    <2> QED BY <1>3, <1>4, <1>7, <1>8, <2>1, MaxOfBounded
<1>10. LastOf(log, Len(log), c, i)
    <2>1. i \in 0..Len(log)
        BY <1>4, <1>9
    <2>2. \A j \in (i + 1)..Len(log) : j \in 1..Len(log) /\ ~ (j <= i)
        BY <1>3, <2>1
    <2> QED BY <1>5, <1>6, <1>9, <2>1, <2>2 DEF LastOf
<1>11. Len(log) \in 0..Len(log)
    BY <1>3
<1>12. Kept(log, Len(log), c, i)
    BY <1>1, <1>10, <1>11, ColumnsKept
<1> QED BY <1>8, <1>12 DEF Kept, RowIn, RowAt

(* No update is lost but one way (UpdatesKept): for any number of nodes,   *)
(* statements and columns, a column has the value of the last committed    *)
(* statement that assigned it, unless a later UPDATE in process of         *)
(* cluster.rs wrote back a record it had read before that assignment.      *)
THEOREM UpdatesAreKept == Spec => []UpdatesKept
<1>1. Init => Inv /\ FreshInv
    BY InitInv, FreshInit
<1>2. Inv /\ FreshInv /\ [Next]_vars => Inv' /\ FreshInv'
    BY NextInv, FreshNext
<1> QED BY <1>1, <1>2, FreshKept, PTL DEF Spec

============================================================================
