----------------------------- MODULE VSRProofs -----------------------------
(***************************************************************************)
(* Proofs about VSR, for every number of replicas, set of clients and      *)
(* bound: types, messages, replies and views; then, until a log is         *)
(* misinstalled, agreement, durability and the refinement.                 *)
(***************************************************************************)
EXTENDS VSR, NumberFacts, SequenceTheorems, FiniteSetTheorems, TLAPS

----------------------------------------------------------------------------
(* Sequences *)

\* A sub-sequence up to the end is a sequence, also when it is empty.
LEMMA SubSeqType ==
    ASSUME NEW S, NEW s \in Seq(S), NEW a \in Nat \ {0}
    PROVE  SubSeq(s, a, Len(s)) \in Seq(S)
<1>1. Len(s) \in Nat
    OBVIOUS
<1>2. CASE a <= Len(s)
    BY <1>1, <1>2, SubSeqProperties
<1>3. CASE a > Len(s)
    <2>1. SubSeq(s, a, Len(s)) = << >>
        BY <1>1, <1>3, SubSeqEmpty
    <2>2. << >> \in Seq(S)
        OBVIOUS
    <2> QED BY <2>1, <2>2
<1> QED BY <1>1, <1>2, <1>3

LEMMA PrimaryIsReplica ==
    ASSUME NEW v \in Nat
    PROVE  PrimaryOf(v) \in Replicas
BY NAssumption DEF PrimaryOf, Replicas

----------------------------------------------------------------------------
(* apply_through *)

\* The commit number apply_through ends with never falls, and it only rises
\* to a position the log has.
LEMMA AppliedToBounds ==
    ASSUME NEW r, commit[r] \in Nat, NEW lg \in Seq(Entry), NEW target \in Nat
    PROVE  /\ AppliedTo(r, lg, target) \in Nat
           /\ AppliedTo(r, lg, target) >= commit[r]
           /\ AppliedTo(r, lg, target) > commit[r] => AppliedTo(r, lg, target) <= Len(lg)
<1> DEFINE lo == Min({target, Len(lg)})
<1>1. Len(lg) \in Nat
    OBVIOUS
<1>2. lo \in Nat /\ lo <= Len(lg)
    BY <1>1, MinOfTwo
<1> HIDE DEF lo
<1>3. Max({commit[r], lo}) = IF commit[r] > lo THEN commit[r] ELSE lo
    BY <1>2, MaxOfTwo
<1> QED BY <1>1, <1>2, <1>3 DEF AppliedTo, lo

\* What apply_through leaves behind has the right types.
LEMMA ApplyThroughType ==
    ASSUME TypeOK, NEW r \in Replicas, NEW lg \in Seq(Entry), NEW target \in Nat,
           NEW v, ApplyThrough(r, lg, target, v)
    PROVE  /\ commit' \in [Replicas -> Nat]
           /\ applied' \in [Replicas -> Seq(Entry)]
           /\ client_table' \in [Replicas -> [Clients -> [req : 0..MaxReq, res : Nat]]]
           /\ replies' \subseteq Reply
<1> DEFINE t == AppliedTo(r, lg, target)
           new == commit[r] + 1 .. t
<1>1. commit[r] \in Nat /\ Len(lg) \in Nat
    BY DEF TypeOK
<1>2. t \in Nat /\ t >= commit[r] /\ (t > commit[r] => t <= Len(lg))
    BY <1>1, AppliedToBounds
<1> HIDE DEF t
<1>3. \A k \in new : k \in 1..Len(lg) /\ k \in Nat /\ lg[k] \in Entry
    BY <1>1, <1>2
<1>4. SubSeq(lg, commit[r] + 1, t) \in Seq(Entry)
    <2>1. CASE t = commit[r]
        <3>1. SubSeq(lg, commit[r] + 1, t) = << >>
            BY <1>1, <2>1, SubSeqEmpty
        <3>2. << >> \in Seq(Entry)
            OBVIOUS
        <3> QED BY <3>1, <3>2
    <2>2. CASE t > commit[r]
        BY <1>1, <1>2, <2>2, SubSeqProperties
    <2> QED BY <1>1, <1>2, <2>1, <2>2
<1>5. commit' \in [Replicas -> Nat]
    BY <1>2 DEF ApplyThrough, TypeOK, t
<1>6. applied' \in [Replicas -> Seq(Entry)]
    <2>1. applied' = [applied EXCEPT ![r] = @ \o SubSeq(lg, commit[r] + 1, t)]
        BY DEF ApplyThrough, t
    <2>2. applied[r] \o SubSeq(lg, commit[r] + 1, t) \in Seq(Entry)
        BY <1>4, ConcatProperties DEF TypeOK
    <2> QED BY <2>1, <2>2 DEF TypeOK
<1>7. client_table' \in [Replicas -> [Clients -> [req : 0..MaxReq, res : Nat]]]
    <2> DEFINE own(c) == {k \in new : lg[k].client = c}
               row == [c \in Clients |-> IF own(c) = {} THEN client_table[r][c]
                                         ELSE [req |-> lg[Max(own(c))].req, res |-> Max(own(c))]]
    <2>1. client_table' = [client_table EXCEPT ![r] = row]
        BY DEF ApplyThrough, t
    <2>2. ASSUME NEW c \in Clients, own(c) # {}
          PROVE  [req |-> lg[Max(own(c))].req, res |-> Max(own(c))] \in [req : 0..MaxReq, res : Nat]
        <3>1. own(c) \subseteq new /\ own(c) \subseteq 0..t
            BY <1>1, <1>2
        <3> HIDE DEF own
        <3>2. Max(own(c)) \in new
            BY <1>2, <2>2, <3>1, MaxOfBounded
        <3>3. lg[Max(own(c))] \in Entry /\ Max(own(c)) \in Nat
            BY <1>3, <3>2
        <3>4. lg[Max(own(c))].req \in 0..MaxReq
            BY <3>3, BoundsAssumption DEF Entry, Reqs
        <3> QED BY <3>3, <3>4
    <2> HIDE DEF own
    <2>3. row \in [Clients -> [req : 0..MaxReq, res : Nat]]
        BY <2>2 DEF TypeOK
    <2> QED BY <2>1, <2>3 DEF TypeOK
<1>8. replies' \subseteq Reply
    <2>1. \A k \in new : [client |-> lg[k].client, req |-> lg[k].req, res |-> k] \in Reply
        BY <1>3 DEF Entry, Reply
    <2>2. replies' \subseteq replies \cup
              {[client |-> lg[k].client, req |-> lg[k].req, res |-> k] : k \in new}
        BY DEF ApplyThrough, t
    <2> QED BY <2>1, <2>2 DEF TypeOK
<1> QED BY <1>5, <1>6, <1>7, <1>8

----------------------------------------------------------------------------
(* Type correctness *)

LEMMA NetworkType ==
    ASSUME NEW r \in Replicas, NEW p \in Replicas, NEW m \in Message
    PROVE  Send(r, p, m) \subseteq Packet /\ Broadcast(r, m) \subseteq Packet
BY DEF Send, Broadcast, Packet

LEMMA RestType ==
    ASSUME TypeOK, NEW p
    PROVE  Rest(p) \subseteq msgs /\ Rest(p) \subseteq Packet
BY DEF Rest, TypeOK

LEMMA SeeViewType ==
    ASSUME TypeOK, NEW r \in Replicas, NEW v \in Views, SeeView(r, v)
    PROVE  max_view_seen' \in [Replicas -> Views]
<1>1. max_view_seen[r] \in Nat /\ v \in Nat /\ max_view_seen[r] \in Views
    BY BoundsAssumption DEF TypeOK, Views
<1>2. Max({max_view_seen[r], v}) \in Views
    BY <1>1, MaxOfTwo
<1> QED BY <1>2 DEF SeeView, TypeOK

\* The fields of a packet that is in the network.
LEMMA DeliveredType ==
    ASSUME TypeOK, NEW p \in msgs
    PROVE  /\ p.dst \in Replicas
           /\ p.msg.type = "Request" => p.msg.client \in Clients /\ p.msg.req \in Reqs
           /\ p.msg.type = "Prepare" =>
                 p.msg.view \in Views /\ p.msg.entry \in Entry /\ p.msg.commit \in Nat
           /\ p.msg.type = "PrepareOk" =>
                 p.msg.view \in Views /\ p.msg.op_number \in Nat /\ p.msg.replica \in Replicas
           /\ p.msg.type = "Commit" => p.msg.view \in Views /\ p.msg.commit \in Nat
           /\ p.msg.type = "StartViewChange" =>
                 p.msg.view \in Views /\ p.msg.replica \in Replicas
           /\ p.msg.type = "DoViewChange" => p.msg.view \in Views /\ p.msg.dvc \in Dvc
           /\ p.msg.type = "StartView" =>
                 p.msg.view \in Views /\ p.msg.log \in Seq(Entry) /\ p.msg.commit \in Nat
           /\ p.msg.type = "GetState" =>
                 p.msg.view \in Views /\ p.msg.after \in Nat /\ p.msg.replica \in Replicas
           /\ p.msg.type = "NewState" =>
                 p.msg.view \in Views /\ p.msg.suffix \in Seq(Entry) /\ p.msg.commit \in Nat
<1>1. p.dst \in Replicas /\ p.msg \in Message
    BY DEF TypeOK, Packet
<1> QED BY <1>1 DEF Message

LEMMA ViewsAreNaturals == Views \subseteq Nat
BY BoundsAssumption DEF Views

LEMMA OnRequestType ==
    ASSUME TypeOK, NEW r \in Replicas, NEW c \in Clients, NEW q \in Reqs,
           NEW net \in SUBSET Packet, OnRequest(r, c, q, net)
    PROVE  TypeOK'
<1>1. view[r] \in Views /\ PrimaryOf(view[r]) \in Replicas
    BY ViewsAreNaturals, PrimaryIsReplica DEF TypeOK
<1>2. /\ view' = view /\ normal_view' = normal_view /\ status' = status
      /\ commit' = commit /\ client_table' = client_table /\ svc_votes' = svc_votes
      /\ dvc' = dvc /\ max_view_seen' = max_view_seen /\ applied' = applied
      /\ misinstalled' = misinstalled
    BY DEF OnRequest
<1> SUFFICES /\ log' \in [Replicas -> Seq(Entry)]
             /\ prepare_ok' \in [Replicas -> SUBSET (Nat \X Replicas)]
             /\ msgs' \subseteq Packet /\ replies' \subseteq Reply
    BY <1>2 DEF TypeOK
<1>3. CASE status[r] # "Normal" /\ msgs' = net /\ UNCHANGED <<log, prepare_ok, replies>>
    BY <1>3 DEF TypeOK
<1>4. CASE /\ replies' = replies \cup
                {[client |-> c, req |-> q, res |-> client_table[r][c].res]}
           /\ msgs' = net /\ UNCHANGED <<log, prepare_ok>>
    <2>1. client_table[r][c].res \in Nat
        BY DEF TypeOK
    <2>2. [client |-> c, req |-> q, res |-> client_table[r][c].res] \in Reply
        BY <2>1 DEF Reply
    <2> QED BY <1>4, <2>2 DEF TypeOK
<1>5. CASE /\ msgs' = net \cup Send(r, PrimaryOf(view[r]),
                                    [type |-> "Request", client |-> c, req |-> q])
           /\ UNCHANGED <<log, prepare_ok, replies>>
    <2>1. [type |-> "Request", client |-> c, req |-> q] \in Message
        BY DEF Message
    <2> QED BY <1>1, <1>5, <2>1, NetworkType DEF TypeOK
<1>6. CASE LET e == [op_number |-> Len(log[r]) + 1, client |-> c, req |-> q]
           IN  /\ log' = [log EXCEPT ![r] = Append(@, e)]
               /\ prepare_ok' = [prepare_ok EXCEPT ![r] = @ \cup {<<e.op_number, r>>}]
               /\ msgs' = net \cup Broadcast(r, [type |-> "Prepare", view |-> view[r],
                                                 entry |-> e, commit |-> commit[r]])
               /\ UNCHANGED replies
    <2> DEFINE e == [op_number |-> Len(log[r]) + 1, client |-> c, req |-> q]
               m == [type |-> "Prepare", view |-> view[r], entry |-> e, commit |-> commit[r]]
    <2>1. log[r] \in Seq(Entry) /\ commit[r] \in Nat
        BY DEF TypeOK
    <2>2. e \in Entry /\ e.op_number \in Nat
        BY <2>1 DEF Entry
    <2>3. m \in Message
        BY <1>1, <2>1, <2>2 DEF Message
    <2>4. /\ log' = [log EXCEPT ![r] = Append(@, e)]
          /\ prepare_ok' = [prepare_ok EXCEPT ![r] = @ \cup {<<e.op_number, r>>}]
          /\ msgs' = net \cup Broadcast(r, m) /\ replies' = replies
        BY <1>6
    <2> HIDE DEF e, m
    <2>5. Append(log[r], e) \in Seq(Entry)
        BY <2>1, <2>2
    <2>6. msgs' \subseteq Packet
        BY <2>3, <2>4, NetworkType
    <2> QED BY <2>2, <2>4, <2>5, <2>6 DEF TypeOK
<1> QED BY <1>3, <1>4, <1>5, <1>6 DEF OnRequest

LEMMA AdoptType ==
    ASSUME TypeOK, NEW r \in Replicas, NEW v \in Views,
           NEW st \in {"Normal", "ViewChange"}, Adopt(r, v, st)
    PROVE  view' \in [Replicas -> Views] /\ status' \in [Replicas -> {"Normal", "ViewChange"}]
BY DEF Adopt, TypeOK

LEMMA SolicitStateType ==
    ASSUME TypeOK, NEW r \in Replicas, NEW v \in Views, NEW net \in SUBSET Packet,
           SolicitState(r, v, net)
    PROVE  /\ view' \in [Replicas -> Views]
           /\ status' \in [Replicas -> {"Normal", "ViewChange"}]
           /\ msgs' \subseteq Packet
           /\ UNCHANGED <<log, commit, applied, client_table, replies>>
<1>1. [type |-> "GetState", view |-> v, after |-> 0, replica |-> r] \in Message
    BY DEF Message
<1>2. PrimaryOf(v) \in Replicas
    BY ViewsAreNaturals, PrimaryIsReplica
<1>3. msgs' \subseteq Packet
    BY <1>1, <1>2, NetworkType DEF SolicitState
<1> QED BY <1>3, AdoptType DEF SolicitState

LEMMA OnPrepareType ==
    ASSUME TypeOK, NEW p \in msgs, p.msg.type = "Prepare", OnPrepare(p)
    PROVE  TypeOK'
<1> DEFINE r == p.dst
           m == p.msg
           k == m.entry.op_number
           ack == [type |-> "PrepareOk", view |-> m.view, op_number |-> k, replica |-> r]
           gap == [type |-> "GetState", view |-> m.view, after |-> Len(log[r]), replica |-> r]
           lg == IF Continues(log[r], m.entry) THEN Append(log[r], m.entry) ELSE log[r]
<1>1. r \in Replicas /\ m.view \in Views /\ m.entry \in Entry /\ m.commit \in Nat
    BY DeliveredType
<1>2. Rest(p) \in SUBSET Packet
    BY RestType
<1>3. max_view_seen' \in [Replicas -> Views]
    BY <1>1, SeeViewType DEF OnPrepare
<1>4. UNCHANGED <<normal_view, prepare_ok, svc_votes, dvc, misinstalled>>
    BY DEF OnPrepare
<1> SUFFICES /\ view' \in [Replicas -> Views]
             /\ status' \in [Replicas -> {"Normal", "ViewChange"}]
             /\ log' \in [Replicas -> Seq(Entry)]
             /\ commit' \in [Replicas -> Nat]
             /\ applied' \in [Replicas -> Seq(Entry)]
             /\ client_table' \in [Replicas -> [Clients -> [req : 0..MaxReq, res : Nat]]]
             /\ msgs' \subseteq Packet /\ replies' \subseteq Reply
    BY <1>3, <1>4 DEF TypeOK
<1>5. CASE IgnoreInView(r, m.view, Rest(p))
    BY <1>2, <1>5 DEF IgnoreInView, TypeOK
<1>6. CASE SolicitState(r, m.view, Rest(p))
    BY <1>1, <1>2, <1>6, SolicitStateType DEF TypeOK
<1>7. CASE /\ log' = [log EXCEPT ![r] = lg]
           /\ ApplyThrough(r, lg, m.commit, m.view)
           /\ msgs' = Rest(p) \cup Send(r, PrimaryOf(m.view),
                                        IF k <= Len(log[r]) + 1 THEN ack ELSE gap)
           /\ UNCHANGED <<view, status>>
    <2>0. k \in Nat
        BY <1>1 DEF Entry
    <2>1. log[r] \in Seq(Entry) /\ Len(log[r]) \in Nat /\ k \in Nat
        BY <1>1, <2>0 DEF TypeOK
    <2>2. lg \in Seq(Entry)
        BY <1>1, <2>1 DEF Continues
    <2>3. ack \in Message /\ gap \in Message
        BY <1>1, <2>1 DEF Message
    <2>4. PrimaryOf(m.view) \in Replicas
        BY <1>1, ViewsAreNaturals, PrimaryIsReplica
    <2> HIDE DEF lg, ack, gap
    <2>5. msgs' \subseteq Packet
        BY <1>1, <1>2, <1>7, <2>3, <2>4, NetworkType
    <2>6. log' \in [Replicas -> Seq(Entry)]
        BY <1>1, <1>7, <2>2 DEF TypeOK
    <2> QED BY <1>1, <1>7, <2>2, <2>5, <2>6, ApplyThroughType DEF TypeOK
<1> QED BY <1>5, <1>6, <1>7 DEF OnPrepare

LEMMA OnPrepareOkType ==
    ASSUME TypeOK, NEW p \in msgs, p.msg.type = "PrepareOk", OnPrepareOk(p)
    PROVE  TypeOK'
<1> DEFINE r == p.dst
           m == p.msg
           acked == prepare_ok[r] \cup {<<m.op_number, m.replica>>, <<m.op_number, r>>}
<1>1. r \in Replicas /\ m.view \in Views /\ m.op_number \in Nat /\ m.replica \in Replicas
    BY DeliveredType
<1>2. Rest(p) \in SUBSET Packet
    BY RestType
<1>3. max_view_seen' \in [Replicas -> Views]
    BY <1>1, SeeViewType DEF OnPrepareOk
<1>4. UNCHANGED <<view, normal_view, status, log, svc_votes, dvc, misinstalled>>
    BY DEF OnPrepareOk
<1> SUFFICES /\ prepare_ok' \in [Replicas -> SUBSET (Nat \X Replicas)]
             /\ commit' \in [Replicas -> Nat]
             /\ applied' \in [Replicas -> Seq(Entry)]
             /\ client_table' \in [Replicas -> [Clients -> [req : 0..MaxReq, res : Nat]]]
             /\ msgs' \subseteq Packet /\ replies' \subseteq Reply
    BY <1>3, <1>4 DEF TypeOK
<1>8. acked \in SUBSET (Nat \X Replicas)
    <2>1. prepare_ok[r] \subseteq Nat \X Replicas
        BY <1>1 DEF TypeOK
    <2> QED BY <1>1, <2>1
<1> HIDE DEF acked
<1>5. CASE /\ msgs' = Rest(p)
           /\ UNCHANGED <<prepare_ok, commit, applied, client_table, replies>>
    BY <1>2, <1>5 DEF TypeOK
<1>6. CASE prepare_ok' = [prepare_ok EXCEPT ![r] = acked] /\ msgs' = Rest(p)
           /\ UNCHANGED <<commit, applied, client_table, replies>>
    BY <1>1, <1>2, <1>6, <1>8 DEF TypeOK
<1>7. ASSUME prepare_ok' = [prepare_ok EXCEPT ![r] = acked],
             NEW t \in commit[r] .. Max({commit[r], Len(log[r])}),
             ApplyThrough(r, log[r], t, view[r]),
             msgs' = Rest(p) \cup
                Broadcast(r, [type |-> "Commit", view |-> view[r], commit |-> t])
      PROVE  /\ prepare_ok' \in [Replicas -> SUBSET (Nat \X Replicas)]
             /\ commit' \in [Replicas -> Nat]
             /\ applied' \in [Replicas -> Seq(Entry)]
             /\ client_table' \in [Replicas -> [Clients -> [req : 0..MaxReq, res : Nat]]]
             /\ msgs' \subseteq Packet /\ replies' \subseteq Reply
    <2>1. log[r] \in Seq(Entry) /\ commit[r] \in Nat /\ view[r] \in Views
        BY <1>1 DEF TypeOK
    <2>2. t \in Nat
        <3>1. Len(log[r]) \in Nat
            BY <2>1
        <3>2. Max({commit[r], Len(log[r])}) \in Nat
            BY <2>1, <3>1, MaxOfTwo
        <3> QED BY <2>1, <3>2, <1>7
    <2>3. [type |-> "Commit", view |-> view[r], commit |-> t] \in Message
        BY <2>1, <2>2 DEF Message
    <2>4. msgs' \subseteq Packet
        BY <1>1, <1>2, <1>7, <2>3, NetworkType
    <2>5. prepare_ok' \in [Replicas -> SUBSET (Nat \X Replicas)]
        BY <1>1, <1>7, <1>8 DEF TypeOK
    <2> QED BY <1>1, <1>7, <2>1, <2>2, <2>4, <2>5, ApplyThroughType
<1> QED BY <1>5, <1>6, <1>7 DEF OnPrepareOk, acked

LEMMA OnCommitType ==
    ASSUME TypeOK, NEW p \in msgs, p.msg.type = "Commit", OnCommit(p)
    PROVE  TypeOK'
<1> DEFINE r == p.dst
           m == p.msg
           gap == [type |-> "GetState", view |-> m.view, after |-> Len(log[r]), replica |-> r]
<1>1. r \in Replicas /\ m.view \in Views /\ m.commit \in Nat
    BY DeliveredType
<1>2. Rest(p) \in SUBSET Packet
    BY RestType
<1>3. max_view_seen' \in [Replicas -> Views]
    BY <1>1, SeeViewType DEF OnCommit
<1>4. UNCHANGED <<normal_view, prepare_ok, svc_votes, dvc, misinstalled>>
    BY DEF OnCommit
<1> SUFFICES /\ view' \in [Replicas -> Views]
             /\ status' \in [Replicas -> {"Normal", "ViewChange"}]
             /\ log' \in [Replicas -> Seq(Entry)]
             /\ commit' \in [Replicas -> Nat]
             /\ applied' \in [Replicas -> Seq(Entry)]
             /\ client_table' \in [Replicas -> [Clients -> [req : 0..MaxReq, res : Nat]]]
             /\ msgs' \subseteq Packet /\ replies' \subseteq Reply
    BY <1>3, <1>4 DEF TypeOK
<1>5. CASE IgnoreInView(r, m.view, Rest(p))
    BY <1>2, <1>5 DEF IgnoreInView, TypeOK
<1>6. CASE SolicitState(r, m.view, Rest(p))
    BY <1>1, <1>2, <1>6, SolicitStateType DEF TypeOK
<1>7. CASE /\ ApplyThrough(r, log[r], m.commit, m.view)
           /\ msgs' = Rest(p) \cup (IF m.commit > Len(log[r])
                                    THEN Send(r, PrimaryOf(m.view), gap) ELSE {})
           /\ UNCHANGED <<view, status, log>>
    <2>1. log[r] \in Seq(Entry) /\ Len(log[r]) \in Nat
        BY <1>1 DEF TypeOK
    <2>2. gap \in Message
        BY <1>1, <2>1 DEF Message
    <2>3. PrimaryOf(m.view) \in Replicas
        BY <1>1, ViewsAreNaturals, PrimaryIsReplica
    <2> HIDE DEF gap
    <2>4. msgs' \subseteq Packet
        BY <1>1, <1>2, <1>7, <2>2, <2>3, NetworkType
    <2> QED BY <1>1, <1>7, <2>1, <2>4, ApplyThroughType DEF TypeOK
<1> QED BY <1>5, <1>6, <1>7 DEF OnCommit

LEMMA OnGetStateType ==
    ASSUME TypeOK, NEW p \in msgs, p.msg.type = "GetState", OnGetState(p)
    PROVE  TypeOK'
<1> DEFINE r == p.dst
           m == p.msg
           suffix == SubSeq(log[r], m.after + 1, Len(log[r]))
           reply == [type |-> "NewState", view |-> m.view, suffix |-> suffix,
                     commit |-> commit[r]]
<1>1. r \in Replicas /\ m.view \in Views /\ m.after \in Nat /\ m.replica \in Replicas
    BY DeliveredType
<1>2. Rest(p) \in SUBSET Packet
    BY RestType
<1>3. max_view_seen' \in [Replicas -> Views]
    BY <1>1, SeeViewType DEF OnGetState
<1>4. log[r] \in Seq(Entry) /\ Len(log[r]) \in Nat /\ commit[r] \in Nat
    BY <1>1 DEF TypeOK
<1>5. suffix \in Seq(Entry)
    BY <1>1, <1>4, SubSeqType
<1>6. reply \in Message
    <2> HIDE DEF suffix
    <2> QED BY <1>1, <1>4, <1>5 DEF Message
<1> HIDE DEF reply
<1>7. Send(r, m.replica, reply) \subseteq Packet
    BY <1>1, <1>6, NetworkType
<1>8. msgs' \subseteq Rest(p) \cup Send(r, m.replica, reply)
    BY DEF OnGetState, reply
<1> QED BY <1>2, <1>3, <1>7, <1>8 DEF OnGetState, TypeOK

LEMMA GapFillType ==
    ASSUME NEW lg \in Seq(Entry), NEW suffix \in Seq(Entry)
    PROVE  GapFill(lg, suffix) \in Seq(Entry)
<1>1. CASE suffix = <<>> \/ suffix[1].op_number > Len(lg) + 1
    BY <1>1 DEF GapFill
<1>2. CASE ~ (suffix = <<>> \/ suffix[1].op_number > Len(lg) + 1)
    <2>1. suffix[1] \in Entry /\ Len(lg) \in Nat /\ Len(suffix) \in Nat
        BY <1>2
    <2>2. suffix[1].op_number \in Nat
        BY <2>1 DEF Entry
    <2>3. Len(lg) + 2 - suffix[1].op_number \in Nat \ {0}
        BY <1>2, <2>1, <2>2
    <2>4. SubSeq(suffix, Len(lg) + 2 - suffix[1].op_number, Len(suffix)) \in Seq(Entry)
        BY <2>1, <2>3, SubSeqType
    <2> QED BY <1>2, <2>4, ConcatProperties DEF GapFill
<1> QED BY <1>1, <1>2

LEMMA OnNewStateType ==
    ASSUME TypeOK, NEW p \in msgs, p.msg.type = "NewState", OnNewState(p)
    PROVE  TypeOK'
<1> DEFINE r == p.dst
           m == p.msg
           lg == IF status[r] = "Normal" THEN GapFill(log[r], m.suffix) ELSE m.suffix
           ack == [type |-> "PrepareOk", view |-> m.view, op_number |-> Len(lg), replica |-> r]
<1>1. r \in Replicas /\ m.view \in Views /\ m.suffix \in Seq(Entry) /\ m.commit \in Nat
    BY DeliveredType
<1>2. Rest(p) \in SUBSET Packet
    BY RestType
<1>3. max_view_seen' \in [Replicas -> Views]
    BY <1>1, SeeViewType DEF OnNewState
<1>4. UNCHANGED <<view, prepare_ok, svc_votes, dvc, misinstalled>>
    BY DEF OnNewState
<1>5. CASE /\ msgs' = Rest(p)
           /\ UNCHANGED <<normal_view, status, log, commit, applied, client_table, replies>>
    BY <1>2, <1>3, <1>4, <1>5 DEF TypeOK
<1>6. CASE /\ log' = [log EXCEPT ![r] = lg]
           /\ ApplyThrough(r, lg, m.commit, m.view)
           /\ msgs' = Rest(p) \cup Send(r, PrimaryOf(m.view), ack)
           /\ status' = [status EXCEPT ![r] = "Normal"]
           /\ normal_view' = [normal_view EXCEPT ![r] = m.view]
    <2>1. lg \in Seq(Entry)
        BY <1>1, GapFillType DEF TypeOK
    <2> HIDE DEF lg
    <2>2. ack \in Message
        BY <1>1, <2>1 DEF Message
    <2>3. PrimaryOf(m.view) \in Replicas
        BY <1>1, ViewsAreNaturals, PrimaryIsReplica
    <2> HIDE DEF ack
    <2>4. msgs' \subseteq Packet
        BY <1>1, <1>2, <1>6, <2>2, <2>3, NetworkType
    <2>5. /\ log' \in [Replicas -> Seq(Entry)]
          /\ status' \in [Replicas -> {"Normal", "ViewChange"}]
          /\ normal_view' \in [Replicas -> Views]
        BY <1>1, <1>6, <2>1 DEF TypeOK
    <2>6. /\ commit' \in [Replicas -> Nat]
          /\ applied' \in [Replicas -> Seq(Entry)]
          /\ client_table' \in [Replicas -> [Clients -> [req : 0..MaxReq, res : Nat]]]
          /\ replies' \subseteq Reply
        BY <1>1, <1>6, <2>1, ApplyThroughType
    <2> QED BY <1>3, <1>4, <2>4, <2>5, <2>6 DEF TypeOK
<1> QED BY <1>5, <1>6 DEF OnNewState

\* Everything a finished view change writes.
LEMMA FinishViewChangeType ==
    ASSUME TypeOK, NEW r \in Replicas, NEW v \in Views, NEW ds \in Seq(Dvc),
           NEW net \in SUBSET Packet, FinishViewChange(r, v, ds, net)
    PROVE  /\ view' \in [Replicas -> Views]
           /\ status' \in [Replicas -> {"Normal", "ViewChange"}]
           /\ normal_view' \in [Replicas -> Views]
           /\ log' \in [Replicas -> Seq(Entry)]
           /\ prepare_ok' \in [Replicas -> SUBSET (Nat \X Replicas)]
           /\ commit' \in [Replicas -> Nat]
           /\ applied' \in [Replicas -> Seq(Entry)]
           /\ client_table' \in [Replicas -> [Clients -> [req : 0..MaxReq, res : Nat]]]
           /\ msgs' \subseteq Packet /\ replies' \subseteq Reply
           /\ misinstalled' \in BOOLEAN
<1>1. PICK b \in DOMAIN ds, x \in DOMAIN ds :
          /\ Adopt(r, v, "Normal")
          /\ normal_view' = [normal_view EXCEPT ![r] = v]
          /\ log' = [log EXCEPT ![r] = ds[b].log]
          /\ prepare_ok' = [prepare_ok EXCEPT ![r] = {}]
          /\ ApplyThrough(r, ds[b].log, ds[x].commit, v)
          /\ msgs' = net \cup Broadcast(r, [type |-> "StartView", view |-> v,
                                            log |-> ds[b].log, commit |-> ds[x].commit])
          /\ misinstalled' = \/ misinstalled
                             \/ Misinstalls(r, v, ds[b].log)
                             \/ Cardinality({ds[i].replica : i \in DOMAIN ds}) < Quorum
    BY DEF FinishViewChange
<1>2. ds[b] \in Dvc /\ ds[x] \in Dvc
    OBVIOUS
<1>3. ds[b].log \in Seq(Entry) /\ ds[x].commit \in Nat
    BY <1>2 DEF Dvc
<1>4. [type |-> "StartView", view |-> v, log |-> ds[b].log, commit |-> ds[x].commit] \in Message
    BY <1>3 DEF Message
<1>5. msgs' \subseteq Packet
    BY <1>1, <1>4, NetworkType
<1>6. /\ view' \in [Replicas -> Views]
      /\ status' \in [Replicas -> {"Normal", "ViewChange"}]
    BY <1>1, AdoptType
<1>7. /\ normal_view' \in [Replicas -> Views]
      /\ log' \in [Replicas -> Seq(Entry)]
      /\ prepare_ok' \in [Replicas -> SUBSET (Nat \X Replicas)]
    BY <1>1, <1>3 DEF TypeOK
<1>8. /\ commit' \in [Replicas -> Nat]
      /\ applied' \in [Replicas -> Seq(Entry)]
      /\ client_table' \in [Replicas -> [Clients -> [req : 0..MaxReq, res : Nat]]]
      /\ replies' \subseteq Reply
    BY <1>1, <1>3, ApplyThroughType
<1>9. misinstalled' \in BOOLEAN
    BY <1>1
<1> QED BY <1>5, <1>6, <1>7, <1>8, <1>9

\* The same, and dvc, for a pushed DoViewChange.
LEMMA PushDvcType ==
    ASSUME TypeOK, NEW r \in Replicas, NEW v \in Views, NEW d \in Dvc, NEW av \in Views,
           NEW st \in {"Normal", "ViewChange"}, NEW net \in SUBSET Packet,
           PushDvc(r, v, d, av, st, net),
           max_view_seen' \in [Replicas -> Views],
           svc_votes' \in [Replicas -> SUBSET (Views \X Replicas)]
    PROVE  TypeOK'
<1> DEFINE ds == Append(dvc[r][v], d)
<1>1. ds \in Seq(Dvc)
    BY DEF TypeOK
<1> HIDE DEF ds
<1>2. dvc' = [dvc EXCEPT ![r][v] = ds]
    BY DEF PushDvc, ds
<1>3. dvc' \in [Replicas -> [Views -> Seq(Dvc)]]
    BY <1>1, <1>2 DEF TypeOK
<1>4. CASE FinishViewChange(r, v, ds, net)
    BY <1>1, <1>3, <1>4, FinishViewChangeType DEF TypeOK
<1>5. CASE /\ Adopt(r, av, st) /\ msgs' = net
           /\ UNCHANGED <<normal_view, log, prepare_ok, commit, applied, client_table,
                          replies, misinstalled>>
    <2>1. /\ view' \in [Replicas -> Views]
          /\ status' \in [Replicas -> {"Normal", "ViewChange"}]
        BY <1>5, AdoptType
    <2> QED BY <1>3, <1>5, <2>1 DEF TypeOK
<1> QED BY <1>4, <1>5 DEF PushDvc, ds

LEMMA MaybeFinishSvcType ==
    ASSUME TypeOK, NEW r \in Replicas, NEW v \in Views, NEW st \in {"Normal", "ViewChange"},
           NEW votes \in SUBSET (Views \X Replicas), NEW net \in SUBSET Packet,
           MaybeFinishSvc(r, v, st, votes, net),
           max_view_seen' \in [Replicas -> Views]
    PROVE  TypeOK'
<1> DEFINE mine == [log |-> log[r], commit |-> commit[r], normal_view |-> normal_view[r],
                    replica |-> r]
           msg == [type |-> "DoViewChange", view |-> v, dvc |-> mine]
<1>1. mine \in Dvc
    BY DEF Dvc, TypeOK
<1>2. msg \in Message
    <2> HIDE DEF mine
    <2> QED BY <1>1 DEF Message
<1>3. PrimaryOf(v) \in Replicas
    BY ViewsAreNaturals, PrimaryIsReplica
<1>4. svc_votes' \in [Replicas -> SUBSET (Views \X Replicas)]
    BY DEF MaybeFinishSvc, TypeOK
<1>5. CASE PushDvc(r, v, mine, v, st, net)
    <2> HIDE DEF mine
    <2> QED BY <1>1, <1>4, <1>5, PushDvcType
<1>6. CASE /\ Adopt(r, v, st)
           /\ msgs' \subseteq net \cup Send(r, PrimaryOf(v), msg)
           /\ UNCHANGED <<dvc, normal_view, log, prepare_ok, commit, applied,
                          client_table, replies, misinstalled>>
    <2> HIDE DEF msg
    <2>1. msgs' \subseteq Packet
        BY <1>2, <1>3, <1>6, NetworkType
    <2>2. /\ view' \in [Replicas -> Views]
          /\ status' \in [Replicas -> {"Normal", "ViewChange"}]
        BY <1>6, AdoptType
    <2> QED BY <1>4, <1>6, <2>1, <2>2 DEF TypeOK
<1> QED BY <1>5, <1>6 DEF MaybeFinishSvc

LEMMA OnDoViewChangeType ==
    ASSUME TypeOK, NEW p \in msgs, p.msg.type = "DoViewChange", OnDoViewChange(p)
    PROVE  TypeOK'
<1>1. p.dst \in Replicas /\ p.msg.view \in Views /\ p.msg.dvc \in Dvc
    BY DeliveredType
<1>2. Rest(p) \in SUBSET Packet
    BY RestType
<1>3. max_view_seen' \in [Replicas -> Views]
    BY <1>1, SeeViewType DEF OnDoViewChange
<1>4. /\ view[p.dst] \in Views /\ status[p.dst] \in {"Normal", "ViewChange"}
      /\ svc_votes' \in [Replicas -> SUBSET (Views \X Replicas)]
    BY <1>1 DEF TypeOK, OnDoViewChange
<1>5. PushDvc(p.dst, p.msg.view, p.msg.dvc, view[p.dst], status[p.dst], Rest(p))
    BY DEF OnDoViewChange
<1> QED BY <1>1, <1>2, <1>3, <1>4, <1>5, PushDvcType

LEMMA OnStartViewChangeType ==
    ASSUME TypeOK, NEW p \in msgs, p.msg.type = "StartViewChange", OnStartViewChange(p)
    PROVE  TypeOK'
<1> DEFINE r == p.dst
           m == p.msg
           st == IF m.view > view[r] THEN "ViewChange" ELSE status[r]
           votes == svc_votes[r] \cup {<<m.view, m.replica>>, <<m.view, r>>}
<1>1. r \in Replicas /\ m.view \in Views /\ m.replica \in Replicas
    BY DeliveredType
<1>2. Rest(p) \in SUBSET Packet
    BY RestType
<1>3. max_view_seen' \in [Replicas -> Views]
    BY <1>1, SeeViewType DEF OnStartViewChange
<1>4. CASE /\ msgs' = Rest(p)
           /\ UNCHANGED <<view, status, svc_votes, dvc, normal_view, log, prepare_ok,
                          commit, applied, client_table, replies, misinstalled>>
    BY <1>2, <1>3, <1>4 DEF TypeOK
<1>5. CASE MaybeFinishSvc(r, m.view, st, votes, Rest(p))
    <2>1. st \in {"Normal", "ViewChange"}
        BY <1>1 DEF TypeOK
    <2>2. votes \in SUBSET (Views \X Replicas)
        <3>1. svc_votes[r] \subseteq Views \X Replicas
            BY <1>1 DEF TypeOK
        <3> QED BY <1>1, <3>1
    <2> HIDE DEF st, votes
    <2> QED BY <1>1, <1>2, <1>3, <1>5, <2>1, <2>2, MaybeFinishSvcType
<1> QED BY <1>4, <1>5 DEF OnStartViewChange

LEMMA OnStartViewType ==
    ASSUME TypeOK, NEW p \in msgs, p.msg.type = "StartView", OnStartView(p)
    PROVE  TypeOK'
<1> DEFINE r == p.dst
           m == p.msg
           ack == [type |-> "PrepareOk", view |-> m.view, op_number |-> Len(m.log), replica |-> r]
<1>1. r \in Replicas /\ m.view \in Views /\ m.log \in Seq(Entry) /\ m.commit \in Nat
    BY DeliveredType
<1>2. Rest(p) \in SUBSET Packet
    BY RestType
<1>3. max_view_seen' \in [Replicas -> Views]
    BY <1>1, SeeViewType DEF OnStartView
<1>4. UNCHANGED <<prepare_ok, svc_votes, dvc>>
    BY DEF OnStartView
<1>5. CASE /\ msgs' = Rest(p)
           /\ UNCHANGED <<view, status, normal_view, log, commit, applied, client_table,
                          replies, misinstalled>>
    BY <1>2, <1>3, <1>4, <1>5 DEF TypeOK
<1>6. CASE /\ Adopt(r, m.view, "Normal")
           /\ normal_view' = [normal_view EXCEPT ![r] = m.view]
           /\ log' = [log EXCEPT ![r] = m.log]
           /\ ApplyThrough(r, m.log, m.commit, m.view)
           /\ msgs' = Rest(p) \cup Send(r, PrimaryOf(m.view), ack)
           /\ misinstalled' = (misinstalled \/ Misinstalls(r, m.view, m.log))
    <2>1. ack \in Message
        BY <1>1 DEF Message
    <2>2. PrimaryOf(m.view) \in Replicas
        BY <1>1, ViewsAreNaturals, PrimaryIsReplica
    <2> HIDE DEF ack
    <2>3. msgs' \subseteq Packet
        BY <1>1, <1>2, <1>6, <2>1, <2>2, NetworkType
    <2>4. /\ log' \in [Replicas -> Seq(Entry)]
          /\ normal_view' \in [Replicas -> Views]
          /\ misinstalled' \in BOOLEAN
        BY <1>1, <1>6 DEF TypeOK
    <2>5. /\ view' \in [Replicas -> Views]
          /\ status' \in [Replicas -> {"Normal", "ViewChange"}]
        BY <1>1, <1>6, AdoptType
    <2>6. /\ commit' \in [Replicas -> Nat]
          /\ applied' \in [Replicas -> Seq(Entry)]
          /\ client_table' \in [Replicas -> [Clients -> [req : 0..MaxReq, res : Nat]]]
          /\ replies' \subseteq Reply
        BY <1>1, <1>6, ApplyThroughType
    <2> QED BY <1>3, <1>4, <2>3, <2>4, <2>5, <2>6 DEF TypeOK
<1> QED BY <1>5, <1>6 DEF OnStartView

LEMMA HeartbeatType ==
    ASSUME TypeOK, NEW r \in Replicas, Heartbeat(r)
    PROVE  TypeOK'
<1> DEFINE cm == [type |-> "Commit", view |-> view[r], commit |-> commit[r]]
           pm(k) == [type |-> "Prepare", view |-> view[r], entry |-> log[r][k],
                     commit |-> commit[r]]
           ks == commit[r] + 1 .. Len(log[r])
<1>1. view[r] \in Views /\ commit[r] \in Nat /\ log[r] \in Seq(Entry) /\ Len(log[r]) \in Nat
    BY DEF TypeOK
<1>2. cm \in Message
    BY <1>1 DEF Message
<1>3. ASSUME NEW k \in ks
      PROVE  pm(k) \in Message
    <2>1. log[r][k] \in Entry
        BY <1>1
    <2> QED BY <1>1, <2>1 DEF Message
<1> HIDE DEF cm, pm
<1>4. Broadcast(r, cm) \subseteq Packet /\ \A k \in ks : Broadcast(r, pm(k)) \subseteq Packet
    BY <1>2, <1>3, NetworkType
<1>5. msgs' = msgs \cup Broadcast(r, cm) \cup UNION {Broadcast(r, pm(k)) : k \in ks}
    BY DEF Heartbeat, cm, pm
<1>6. msgs' \subseteq Packet
    BY <1>4, <1>5 DEF TypeOK
<1> QED BY <1>6 DEF Heartbeat, replica_vars, TypeOK

LEMMA TimeoutType ==
    ASSUME TypeOK, NEW r \in Replicas, Timeout(r)
    PROVE  TypeOK'
<1> DEFINE v == Max({view[r], max_view_seen[r]}) + 1
           votes == svc_votes[r] \cup {<<v, r>>}
<1>1. view[r] \in Nat /\ max_view_seen[r] \in Nat /\ svc_votes[r] \subseteq Views \X Replicas
    BY ViewsAreNaturals DEF TypeOK
<1>2. v \in Nat /\ v <= MaxView
    BY <1>1, MaxOfTwo DEF Timeout
<1>3. v \in Views
    BY <1>2, BoundsAssumption DEF Views
<1>4. /\ max_view_seen' = [max_view_seen EXCEPT ![r] = v]
      /\ MaybeFinishSvc(r, v, "ViewChange", votes, msgs \cup Broadcast(r, SvcMessage(r, v)))
    BY DEF Timeout
<1> HIDE DEF v
<1>5. SvcMessage(r, v) \in Message
    BY <1>3 DEF SvcMessage, Message
<1>6. msgs \cup Broadcast(r, SvcMessage(r, v)) \in SUBSET Packet
    BY <1>5, NetworkType DEF TypeOK
<1>7. votes \in SUBSET (Views \X Replicas)
    BY <1>1, <1>3
<1>8. max_view_seen' \in [Replicas -> Views]
    BY <1>3, <1>4 DEF TypeOK
<1> HIDE DEF votes
<1> QED BY <1>3, <1>4, <1>6, <1>7, <1>8, MaybeFinishSvcType

LEMMA RetryViewChangeType ==
    ASSUME TypeOK, NEW r \in Replicas, RetryViewChange(r)
    PROVE  TypeOK'
<1> DEFINE v == view[r]
           votes == svc_votes[r] \cup {<<v, r>>}
<1>1. v \in Views /\ svc_votes[r] \subseteq Views \X Replicas
    BY DEF TypeOK
<1>2. MaybeFinishSvc(r, v, "ViewChange", votes, msgs \cup Broadcast(r, SvcMessage(r, v)))
    BY DEF RetryViewChange
<1>3. SvcMessage(r, v) \in Message
    BY <1>1 DEF SvcMessage, Message
<1>4. msgs \cup Broadcast(r, SvcMessage(r, v)) \in SUBSET Packet
    BY <1>3, NetworkType DEF TypeOK
<1>5. votes \in SUBSET (Views \X Replicas)
    BY <1>1
<1>6. max_view_seen' \in [Replicas -> Views]
    BY DEF TypeOK, RetryViewChange
<1> HIDE DEF v, votes
<1> QED BY <1>1, <1>2, <1>4, <1>5, <1>6, MaybeFinishSvcType

\* TypeOK is inductive: no handler of Replica::handle and no tick breaks it.
THEOREM TypeCorrect == Spec => []TypeOK
<1>1. Init => TypeOK
    <2> SUFFICES ASSUME Init PROVE TypeOK
        OBVIOUS
    <2>1. 0 \in Views /\ << >> \in Seq(Entry) /\ << >> \in Seq(Dvc)
        BY BoundsAssumption DEF Views
    <2>2. NoReply \in [req : 0..MaxReq, res : Nat]
        BY BoundsAssumption DEF NoReply
    <2> QED BY <2>1, <2>2 DEF Init, TypeOK
<1>2. TypeOK /\ [Next]_vars => TypeOK'
    <2> SUFFICES ASSUME TypeOK, [Next]_vars PROVE TypeOK'
        OBVIOUS
    <2>1. ASSUME NEW c \in Clients, NEW q \in Reqs, NEW r \in Contacts[c], Submit(r, c, q)
          PROVE  TypeOK'
        <3>1. r \in Replicas
            BY <2>1, BoundsAssumption
        <3>2. msgs \in SUBSET Packet
            BY DEF TypeOK
        <3> QED BY <2>1, <3>1, <3>2, OnRequestType DEF Submit
    <2>2. ASSUME NEW p \in msgs, p.msg.type = "Request", ReceiveRequest(p)
          PROVE  TypeOK'
        BY <2>2, DeliveredType, RestType, OnRequestType DEF ReceiveRequest
    <2>3. ASSUME NEW p \in msgs, Receive(p)
          PROVE  TypeOK'
        BY <2>2, <2>3, OnPrepareType, OnPrepareOkType, OnCommitType, OnStartViewChangeType,
           OnDoViewChangeType, OnStartViewType, OnGetStateType, OnNewStateType DEF Receive
    <2>4. ASSUME NEW r \in Timers, Tick(r)
          PROVE  TypeOK'
        <3>1. r \in Replicas
            BY <2>4, BoundsAssumption
        <3> QED BY <2>4, <3>1, HeartbeatType, TimeoutType, RetryViewChangeType DEF Tick
    <2>5. CASE UNCHANGED vars
        BY <2>5 DEF vars, replica_vars, TypeOK
    <2> QED BY <2>1, <2>3, <2>4, <2>5 DEF Next
<1> QED BY <1>1, <1>2, PTL DEF Spec

----------------------------------------------------------------------------
(* Views *)

\* What StalledLacksQuorum needs: a primary that is not yet Normal in view v,
\* and has not left it behind, has not got enough DoViewChanges for v, also
\* while it is still in an earlier view.
ShortOfQuorum(r) ==
    \A v \in Views :
        PrimaryOf(v) = r /\ v > normal_view[r] /\ v >= view[r] => Len(dvc[r][v]) < Quorum

ViewInv == ViewDiscipline /\ \A r \in Replicas : ShortOfQuorum(r)

\* What a step of replica r does to views: nobody else's change, its own never
\* fall, and the bookkeeping of views is right again afterwards.
ViewStep(r) ==
    /\ \A s \in Replicas \ {r} :
          /\ view'[s] = view[s] /\ normal_view'[s] = normal_view[s]
          /\ status'[s] = status[s] /\ max_view_seen'[s] = max_view_seen[s]
          /\ dvc'[s] = dvc[s]
    /\ view[r] <= view'[r] /\ normal_view[r] <= normal_view'[r]
    /\ normal_view'[r] <= view'[r] /\ view'[r] <= max_view_seen'[r]
    /\ status'[r] = "Normal" <=> normal_view'[r] = view'[r]
    /\ ShortOfQuorum(r)'

\* ViewStep(r) for a step that receives no DoViewChange.
LEMMA ViewStepSameDvc ==
    ASSUME TypeOK, TypeOK', ViewInv, NEW r \in Replicas, dvc' = dvc,
           \A s \in Replicas \ {r} :
              /\ view'[s] = view[s] /\ normal_view'[s] = normal_view[s]
              /\ status'[s] = status[s] /\ max_view_seen'[s] = max_view_seen[s],
           view[r] <= view'[r], normal_view[r] <= normal_view'[r],
           normal_view'[r] <= view'[r], view'[r] <= max_view_seen'[r],
           status'[r] = "Normal" <=> normal_view'[r] = view'[r]
    PROVE  ViewStep(r)
<1>1. /\ view[r] \in Nat /\ normal_view[r] \in Nat /\ view'[r] \in Nat
      /\ normal_view'[r] \in Nat
    BY ViewsAreNaturals DEF TypeOK
<1>2. ShortOfQuorum(r)
    BY DEF ViewInv
<1>3. ShortOfQuorum(r)'
    BY <1>1, <1>2, ViewsAreNaturals DEF ShortOfQuorum
<1> QED BY <1>3 DEF ViewStep

\* SeeView only raises max_view_seen, to at least the view of the message.
LEMMA SeeViewRaises ==
    ASSUME TypeOK, NEW r \in Replicas, NEW v \in Views, SeeView(r, v)
    PROVE  /\ \A s \in Replicas \ {r} : max_view_seen'[s] = max_view_seen[s]
           /\ max_view_seen'[r] >= max_view_seen[r] /\ max_view_seen'[r] >= v
           /\ max_view_seen'[r] \in Nat
<1>1. max_view_seen[r] \in Nat /\ v \in Nat
    BY ViewsAreNaturals DEF TypeOK
<1>2. max_view_seen'[r] = Max({max_view_seen[r], v})
    BY DEF SeeView, TypeOK
<1>3. \A s \in Replicas \ {r} : max_view_seen'[s] = max_view_seen[s]
    BY DEF SeeView, TypeOK
<1> QED BY <1>1, <1>2, <1>3, MaxOfTwo

\* What is known of the views of one replica.
LEMMA ViewsOfReplica ==
    ASSUME TypeOK, ViewInv, NEW r \in Replicas
    PROVE  /\ view[r] \in Nat /\ normal_view[r] \in Nat /\ max_view_seen[r] \in Nat
           /\ normal_view[r] <= view[r] /\ view[r] <= max_view_seen[r]
           /\ status[r] = "Normal" <=> normal_view[r] = view[r]
BY ViewsAreNaturals DEF TypeOK, ViewInv, ViewDiscipline

\* A handler that only notes the message's view.
LEMMA ViewStepSeen ==
    ASSUME TypeOK, TypeOK', ViewInv, NEW r \in Replicas, NEW v \in Views, SeeView(r, v),
           UNCHANGED <<view, normal_view, status, dvc>>
    PROVE  ViewStep(r)
<1>1. max_view_seen'[r] \in Nat /\ max_view_seen'[r] >= max_view_seen[r]
    BY SeeViewRaises
<1>2. \A s \in Replicas \ {r} : max_view_seen'[s] = max_view_seen[s]
    BY SeeViewRaises
<1> QED BY <1>1, <1>2, ViewsOfReplica, ViewStepSameDvc

\* A handler that adopts the message's view, not below its own, and becomes
\* Normal in it, or not Normal in a higher one.
LEMMA ViewStepAdopted ==
    ASSUME TypeOK, TypeOK', ViewInv, NEW r \in Replicas, NEW v \in Views, SeeView(r, v),
           dvc' = dvc, v >= view[r], NEW st, Adopt(r, v, st),
           \/ st = "Normal" /\ normal_view' = [normal_view EXCEPT ![r] = v]
           \/ st = "ViewChange" /\ v > view[r] /\ normal_view' = normal_view
    PROVE  ViewStep(r)
<1>1. max_view_seen'[r] \in Nat /\ max_view_seen'[r] >= v /\ v \in Nat
    BY SeeViewRaises, ViewsAreNaturals
<1>2. \A s \in Replicas \ {r} :
          /\ view'[s] = view[s] /\ normal_view'[s] = normal_view[s]
          /\ status'[s] = status[s] /\ max_view_seen'[s] = max_view_seen[s]
    BY SeeViewRaises DEF Adopt, TypeOK
<1>3. view'[r] = v /\ status'[r] = st
    BY DEF Adopt, TypeOK
<1>4. \/ st = "Normal" /\ normal_view'[r] = v
      \/ st = "ViewChange" /\ v > view[r] /\ normal_view'[r] = normal_view[r]
    BY DEF TypeOK
<1> QED BY <1>1, <1>2, <1>3, <1>4, ViewsOfReplica, ViewStepSameDvc

\* A pushed DoViewChange finishes the view change or leaves too few of them.
LEMMA ViewStepPushed ==
    ASSUME TypeOK, TypeOK', ViewInv, NEW r \in Replicas, NEW v \in Views, NEW d \in Dvc,
           NEW av \in Views, NEW st, NEW net, PushDvc(r, v, d, av, st, net),
           \A s \in Replicas \ {r} : max_view_seen'[s] = max_view_seen[s],
           max_view_seen'[r] >= v, max_view_seen'[r] >= av,
           av >= view[r], st = "Normal" <=> normal_view[r] = av
    PROVE  ViewStep(r)
<1> DEFINE ds == Append(dvc[r][v], d)
<1>0. v \in Nat /\ av \in Nat /\ max_view_seen'[r] \in Nat /\ Len(ds) \in Nat
    <2>1. dvc[r][v] \in Seq(Dvc) /\ max_view_seen'[r] \in Views
        BY DEF TypeOK
    <2>2. ds \in Seq(Dvc)
        BY <2>1
    <2> HIDE DEF ds
    <2>3. Len(ds) \in Nat
        BY <2>2
    <2> QED BY <2>1, <2>3, ViewsAreNaturals
<1> HIDE DEF ds
<1>1. dvc' = [dvc EXCEPT ![r][v] = ds]
    BY DEF PushDvc, ds
<1>2. /\ \A s \in Replicas \ {r} : dvc'[s] = dvc[s]
      /\ dvc'[r][v] = ds
      /\ \A w \in Views \ {v} : dvc'[r][w] = dvc[r][w]
    BY <1>1 DEF TypeOK
<1>3. ShortOfQuorum(r)
    BY DEF ViewInv
<1>4. CASE MayFinish(r, v, ds) /\ FinishViewChange(r, v, ds, net)
    <2>1. Adopt(r, v, "Normal") /\ normal_view' = [normal_view EXCEPT ![r] = v]
        BY <1>4 DEF FinishViewChange
    <2>2. v >= view[r]
        BY <1>4 DEF MayFinish
    <2>3. view'[r] = v /\ status'[r] = "Normal" /\ normal_view'[r] = v
        BY <2>1 DEF Adopt, TypeOK
    <2>4. \A s \in Replicas \ {r} :
             /\ view'[s] = view[s] /\ normal_view'[s] = normal_view[s]
             /\ status'[s] = status[s]
        BY <2>1 DEF Adopt, TypeOK
    <2>5. ASSUME NEW w \in Views, PrimaryOf(w) = r, w > normal_view'[r], w >= view'[r]
          PROVE  Len(dvc'[r][w]) < Quorum
        <3>0. w \in Nat /\ view[r] \in Nat /\ normal_view[r] \in Nat /\ normal_view[r] <= view[r]
              /\ w > v
            BY <2>3, <2>5, ViewsOfReplica, ViewsAreNaturals
        <3>1. w \in Nat /\ w > normal_view[r] /\ w >= view[r] /\ w # v
            BY <1>0, <2>2, <3>0
        <3> QED BY <1>2, <1>3, <2>5, <3>1 DEF ShortOfQuorum
    <2>6. ShortOfQuorum(r)'
        BY <2>5 DEF ShortOfQuorum
    <2> QED BY <1>0, <1>2, <2>2, <2>3, <2>4, <2>6, ViewsOfReplica DEF ViewStep
<1>5. CASE ~ MayFinish(r, v, ds) /\ Adopt(r, av, st) /\ normal_view' = normal_view
    <2>1. view'[r] = av /\ status'[r] = st
        BY <1>5 DEF Adopt, TypeOK
    <2>2. \A s \in Replicas \ {r} :
             /\ view'[s] = view[s] /\ normal_view'[s] = normal_view[s]
             /\ status'[s] = status[s]
        BY <1>5 DEF Adopt, TypeOK
    <2>3. ASSUME NEW w \in Views, PrimaryOf(w) = r, w > normal_view'[r], w >= view'[r]
          PROVE  Len(dvc'[r][w]) < Quorum
        <3>1. CASE w = v
            <4>1. ~ (Len(ds) >= Quorum)
                BY <1>0, <1>5, <2>1, <2>3, <3>1, ViewsOfReplica DEF MayFinish
            <4>2. Quorum \in Nat
                BY NAssumption DEF Quorum
            <4> QED BY <1>0, <1>2, <3>1, <4>1, <4>2
        <3>2. CASE w # v
            <4>0. w \in Nat /\ view[r] \in Nat /\ w >= av /\ normal_view'[r] = normal_view[r]
                BY <1>5, <2>1, <2>3, ViewsOfReplica, ViewsAreNaturals
            <4>1. w \in Nat /\ w > normal_view[r] /\ w >= view[r]
                BY <1>0, <2>3, <4>0
            <4>2. dvc'[r][w] = dvc[r][w]
                BY <1>2, <3>2
            <4> QED BY <1>3, <2>3, <4>1, <4>2 DEF ShortOfQuorum
        <3> QED BY <3>1, <3>2
    <2>4. ShortOfQuorum(r)'
        BY <2>3 DEF ShortOfQuorum
    <2> QED BY <1>0, <1>2, <1>5, <2>1, <2>2, <2>4, ViewsOfReplica DEF ViewStep
<1> QED BY <1>4, <1>5 DEF PushDvc, ds

LEMMA ViewStepSvc ==
    ASSUME TypeOK, TypeOK', ViewInv, NEW r \in Replicas, NEW v \in Views, NEW st,
           NEW votes, NEW net, MaybeFinishSvc(r, v, st, votes, net),
           \A s \in Replicas \ {r} : max_view_seen'[s] = max_view_seen[s],
           max_view_seen'[r] >= v, v >= view[r], st = "Normal" <=> normal_view[r] = v
    PROVE  ViewStep(r)
<1> DEFINE mine == [log |-> log[r], commit |-> commit[r], normal_view |-> normal_view[r],
                    replica |-> r]
<1>1. mine \in Dvc
    BY DEF Dvc, TypeOK
<1>2. CASE PushDvc(r, v, mine, v, st, net)
    <2> HIDE DEF mine
    <2> QED BY <1>1, <1>2, ViewStepPushed
<1>3. CASE Adopt(r, v, st) /\ UNCHANGED <<dvc, normal_view>>
    <2>1. view'[r] = v /\ status'[r] = st /\ v \in Nat /\ max_view_seen'[r] \in Nat
        BY <1>3, ViewsAreNaturals DEF Adopt, TypeOK
    <2>2. \A s \in Replicas \ {r} :
             /\ view'[s] = view[s] /\ normal_view'[s] = normal_view[s]
             /\ status'[s] = status[s]
        BY <1>3 DEF Adopt, TypeOK
    <2> QED BY <1>3, <2>1, <2>2, ViewsOfReplica, ViewStepSameDvc
<1> QED BY <1>2, <1>3 DEF MaybeFinishSvc

\* Every message handler is a ViewStep of the replica that receives it.
LEMMA ViewStepReceive ==
    ASSUME TypeOK, TypeOK', ViewInv, NEW p \in msgs, Receive(p)
    PROVE  p.dst \in Replicas /\ ViewStep(p.dst)
<1> DEFINE r == p.dst
           m == p.msg
<1>0. r \in Replicas
    BY DeliveredType
<1>1. CASE m.type = "Request" /\ ReceiveRequest(p)
    <2>1. UNCHANGED <<view, normal_view, status, dvc, max_view_seen>>
        BY <1>1 DEF ReceiveRequest, OnRequest
    <2> QED BY <1>0, <2>1, ViewsOfReplica, ViewStepSameDvc
<1>2. CASE m.type = "Prepare" /\ OnPrepare(p)
    <2>1. m.view \in Views
        BY <1>2, DeliveredType
    <2>2. SeeView(r, m.view) /\ UNCHANGED <<normal_view, dvc>>
        BY <1>2 DEF OnPrepare
    <2>3. CASE UNCHANGED <<view, status>>
        BY <1>0, <2>1, <2>2, <2>3, ViewStepSeen
    <2>4. CASE m.view > view[r] /\ Adopt(r, m.view, "ViewChange")
        <3>1. m.view \in Nat /\ view[r] \in Nat
            BY <1>0, <2>1, ViewsAreNaturals, ViewsOfReplica
        <3>2. m.view >= view[r]
            BY <2>4, <3>1
        <3> QED BY <1>0, <2>1, <2>2, <2>4, <3>2, ViewStepAdopted
    <2> QED BY <1>2, <2>3, <2>4 DEF OnPrepare, IgnoreInView, SolicitState
<1>3. CASE m.type = "PrepareOk" /\ OnPrepareOk(p)
    <2>1. m.view \in Views
        BY <1>3, DeliveredType
    <2>2. SeeView(r, m.view) /\ UNCHANGED <<view, normal_view, status, dvc>>
        BY <1>3 DEF OnPrepareOk
    <2> QED BY <1>0, <2>1, <2>2, ViewStepSeen
<1>4. CASE m.type = "Commit" /\ OnCommit(p)
    <2>1. m.view \in Views
        BY <1>4, DeliveredType
    <2>2. SeeView(r, m.view) /\ UNCHANGED <<normal_view, dvc>>
        BY <1>4 DEF OnCommit
    <2>3. CASE UNCHANGED <<view, status>>
        BY <1>0, <2>1, <2>2, <2>3, ViewStepSeen
    <2>4. CASE m.view > view[r] /\ Adopt(r, m.view, "ViewChange")
        <3>1. m.view \in Nat /\ view[r] \in Nat
            BY <1>0, <2>1, ViewsAreNaturals, ViewsOfReplica
        <3>2. m.view >= view[r]
            BY <2>4, <3>1
        <3> QED BY <1>0, <2>1, <2>2, <2>4, <3>2, ViewStepAdopted
    <2> QED BY <1>4, <2>3, <2>4 DEF OnCommit, IgnoreInView, SolicitState
<1>5. CASE m.type = "StartViewChange" /\ OnStartViewChange(p)
    <2>1. m.view \in Views
        BY <1>5, DeliveredType
    <2>2. SeeView(r, m.view)
        BY <1>5 DEF OnStartViewChange
    <2>3. CASE UNCHANGED <<view, status, dvc, normal_view>>
        BY <1>0, <2>1, <2>2, <2>3, ViewStepSeen
    <2>4. CASE /\ ~ Stale(r, m.view)
               /\ MaybeFinishSvc(r, m.view,
                                 IF m.view > view[r] THEN "ViewChange" ELSE status[r],
                                 svc_votes[r] \cup {<<m.view, m.replica>>, <<m.view, r>>},
                                 Rest(p))
        <3> DEFINE st == IF m.view > view[r] THEN "ViewChange" ELSE status[r]
        <3>0. m.view \in Nat /\ view[r] \in Nat
            BY <1>0, <2>1, ViewsAreNaturals, ViewsOfReplica
        <3>1. m.view \in Nat /\ m.view >= view[r]
            BY <2>4, <3>0 DEF Stale
        <3>2. st = "Normal" <=> normal_view[r] = m.view
            BY <1>0, <3>1, ViewsOfReplica
        <3> HIDE DEF st
        <3>3. MaybeFinishSvc(r, m.view, st,
                             svc_votes[r] \cup {<<m.view, m.replica>>, <<m.view, r>>}, Rest(p))
            BY <2>4 DEF st
        <3> QED BY <1>0, <2>1, <2>2, <3>1, <3>2, <3>3, SeeViewRaises, ViewStepSvc
    <2> QED BY <1>5, <2>3, <2>4 DEF OnStartViewChange
<1>6. CASE m.type = "DoViewChange" /\ OnDoViewChange(p)
    <2>1. m.view \in Views /\ m.dvc \in Dvc
        BY <1>6, DeliveredType
    <2>2. SeeView(r, m.view) /\ PushDvc(r, m.view, m.dvc, view[r], status[r], Rest(p))
        BY <1>6 DEF OnDoViewChange
    <2>3. view[r] \in Views
        BY <1>0 DEF TypeOK
    <2>4. /\ \A s \in Replicas \ {r} : max_view_seen'[s] = max_view_seen[s]
          /\ max_view_seen'[r] >= m.view /\ max_view_seen'[r] >= max_view_seen[r]
          /\ max_view_seen'[r] \in Nat
        BY <1>0, <2>1, <2>2, SeeViewRaises
    <2>5. /\ max_view_seen'[r] >= view[r] /\ view[r] >= view[r]
          /\ status[r] = "Normal" <=> normal_view[r] = view[r]
        BY <1>0, <2>4, ViewsOfReplica
    <2> QED BY <1>0, <2>1, <2>2, <2>3, <2>4, <2>5, ViewStepPushed
<1>7. CASE m.type = "StartView" /\ OnStartView(p)
    <2>1. m.view \in Views
        BY <1>7, DeliveredType
    <2>2. SeeView(r, m.view) /\ dvc' = dvc
        BY <1>7 DEF OnStartView
    <2>3. CASE UNCHANGED <<view, status, normal_view>>
        BY <1>0, <2>1, <2>2, <2>3, ViewStepSeen
    <2>4. CASE /\ ~ Stale(r, m.view) /\ Adopt(r, m.view, "Normal")
               /\ normal_view' = [normal_view EXCEPT ![r] = m.view]
        <3>0. m.view \in Nat /\ view[r] \in Nat
            BY <1>0, <2>1, ViewsAreNaturals, ViewsOfReplica
        <3>1. m.view >= view[r]
            BY <2>4, <3>0 DEF Stale
        <3> QED BY <1>0, <2>1, <2>2, <2>4, <3>1, ViewStepAdopted
    <2> QED BY <1>7, <2>3, <2>4 DEF OnStartView
<1>8. CASE m.type = "GetState" /\ OnGetState(p)
    <2>1. m.view \in Views
        BY <1>8, DeliveredType
    <2>2. SeeView(r, m.view) /\ UNCHANGED <<view, normal_view, status, dvc>>
        BY <1>8 DEF OnGetState
    <2> QED BY <1>0, <2>1, <2>2, ViewStepSeen
<1>9. CASE m.type = "NewState" /\ OnNewState(p)
    <2>1. m.view \in Views
        BY <1>9, DeliveredType
    <2>2. SeeView(r, m.view) /\ UNCHANGED <<view, dvc>>
        BY <1>9 DEF OnNewState
    <2>3. CASE UNCHANGED <<status, normal_view>>
        BY <1>0, <2>1, <2>2, <2>3, ViewStepSeen
    <2>4. CASE /\ m.view = view[r] /\ status' = [status EXCEPT ![r] = "Normal"]
               /\ normal_view' = [normal_view EXCEPT ![r] = m.view]
        <3>1. view' = [view EXCEPT ![r] = m.view]
            BY <1>0, <2>2, <2>4 DEF TypeOK
        <3>2. Adopt(r, m.view, "Normal") /\ m.view >= view[r]
            BY <1>0, <2>4, <3>1, ViewsOfReplica DEF Adopt
        <3> QED BY <1>0, <2>1, <2>2, <2>4, <3>2, ViewStepAdopted
    <2> QED BY <1>9, <2>3, <2>4 DEF OnNewState
<1> QED BY <1>0, <1>1, <1>2, <1>3, <1>4, <1>5, <1>6, <1>7, <1>8, <1>9 DEF Receive

\* So is every outcome of a tick, for the replica that ticks.
LEMMA ViewStepTick ==
    ASSUME TypeOK, TypeOK', ViewInv, NEW r \in Replicas, Tick(r)
    PROVE  ViewStep(r)
<1>1. CASE Heartbeat(r)
    BY <1>1, ViewsOfReplica, ViewStepSameDvc DEF Heartbeat, replica_vars
<1>2. CASE Timeout(r)
    <2> DEFINE v == Max({view[r], max_view_seen[r]}) + 1
               votes == svc_votes[r] \cup {<<v, r>>}
    <2>1. v \in Nat /\ v <= MaxView /\ v > view[r] /\ v > normal_view[r]
        BY <1>2, ViewsOfReplica, MaxOfTwo DEF Timeout
    <2>2. /\ max_view_seen' = [max_view_seen EXCEPT ![r] = v]
          /\ MaybeFinishSvc(r, v, "ViewChange", votes, msgs \cup Broadcast(r, SvcMessage(r, v)))
        BY <1>2 DEF Timeout
    <2> HIDE DEF v, votes
    <2>3. v \in Views
        BY <2>1, BoundsAssumption DEF Views
    <2>4. /\ \A s \in Replicas \ {r} : max_view_seen'[s] = max_view_seen[s]
          /\ max_view_seen'[r] = v
        BY <2>2 DEF TypeOK
    <2>5. v >= view[r] /\ max_view_seen'[r] >= v /\ normal_view[r] # v
        BY <2>1, <2>4, ViewsOfReplica
    <2> QED BY <2>2, <2>3, <2>4, <2>5, ViewStepSvc
<1>3. CASE RetryViewChange(r)
    <2>1. /\ max_view_seen' = max_view_seen /\ status[r] = "ViewChange"
          /\ MaybeFinishSvc(r, view[r], "ViewChange", svc_votes[r] \cup {<<view[r], r>>},
                            msgs \cup Broadcast(r, SvcMessage(r, view[r])))
        BY <1>3 DEF RetryViewChange
    <2>2. view[r] \in Views
        BY DEF TypeOK
    <2>3. view[r] >= view[r] /\ max_view_seen'[r] >= view[r] /\ normal_view[r] # view[r]
        BY <2>1, ViewsOfReplica
    <2> QED BY <2>1, <2>2, <2>3, ViewStepSvc
<1> QED BY <1>1, <1>2, <1>3 DEF Tick

LEMMA ViewStepSubmit ==
    ASSUME TypeOK, TypeOK', ViewInv, NEW r \in Replicas, NEW c, NEW q, Submit(r, c, q)
    PROVE  ViewStep(r)
<1>1. UNCHANGED <<view, normal_view, status, dvc, max_view_seen>>
    BY DEF Submit, OnRequest
<1> QED BY <1>1, ViewsOfReplica, ViewStepSameDvc

\* No view number of any replica ever falls.
LEMMA ViewStepRaises ==
    ASSUME TypeOK, TypeOK', NEW r \in Replicas, ViewStep(r), NEW s \in Replicas
    PROVE  /\ normal_view[s] \in Nat /\ normal_view'[s] \in Nat
           /\ normal_view[s] <= normal_view'[s]
           /\ view[s] \in Nat /\ view'[s] \in Nat /\ view[s] <= view'[s]
<1>1. /\ normal_view[s] \in Nat /\ normal_view'[s] \in Nat
      /\ view[s] \in Nat /\ view'[s] \in Nat
    BY ViewsAreNaturals DEF TypeOK
<1>2. CASE s = r
    BY <1>1, <1>2 DEF ViewStep
<1>3. CASE s # r
    <2>1. view'[s] = view[s] /\ normal_view'[s] = normal_view[s]
        BY <1>3 DEF ViewStep
    <2> QED BY <1>1, <2>1
<1> QED BY <1>2, <1>3

\* Every step of the protocol is a ViewStep of some replica.
LEMMA EveryViewStep ==
    ASSUME TypeOK, TypeOK', ViewInv, [Next]_vars
    PROVE  (\E r \in Replicas : ViewStep(r)) \/ UNCHANGED vars
<1>1. ASSUME NEW c \in Clients, NEW q \in Reqs, NEW r \in Contacts[c], Submit(r, c, q)
      PROVE  r \in Replicas /\ ViewStep(r)
    <2>1. r \in Replicas
        BY <1>1, BoundsAssumption
    <2> QED BY <1>1, <2>1, ViewStepSubmit
<1>2. ASSUME NEW r \in Timers, Tick(r)
      PROVE  r \in Replicas /\ ViewStep(r)
    <2>1. r \in Replicas
        BY <1>2, BoundsAssumption
    <2> QED BY <1>2, <2>1, ViewStepTick
<1> QED BY <1>1, <1>2, ViewStepReceive DEF Next

LEMMA ViewStepKeepsViewInv ==
    ASSUME ViewInv, NEW r \in Replicas, ViewStep(r)
    PROVE  ViewInv'
<1>1. ViewDiscipline'
    BY DEF ViewInv, ViewDiscipline, ViewStep
<1>2. ASSUME NEW s \in Replicas PROVE ShortOfQuorum(s)'
    BY DEF ViewInv, ShortOfQuorum, ViewStep
<1> QED BY <1>1, <1>2 DEF ViewInv

\* Views, types included, are right in every reachable state.
THEOREM ViewsCorrect == Spec => [](TypeOK /\ ViewInv)
<1>1. Init => ViewInv
    <2> SUFFICES ASSUME Init PROVE ViewInv
        OBVIOUS
    <2>1. Quorum \in Nat /\ Quorum > 0
        BY NAssumption DEF Quorum
    <2>2. \A r \in Replicas, v \in Views : Len(dvc[r][v]) = 0
        BY DEF Init
    <2>3. ViewDiscipline
        BY DEF Init, ViewDiscipline
    <2> QED BY <2>1, <2>2, <2>3 DEF ViewInv, ShortOfQuorum
<1>2. TypeOK /\ TypeOK' /\ ViewInv /\ [Next]_vars => ViewInv'
    <2> SUFFICES ASSUME TypeOK, TypeOK', ViewInv, [Next]_vars PROVE ViewInv'
        OBVIOUS
    <2>1. CASE UNCHANGED vars
        BY <2>1 DEF vars, replica_vars, ViewInv, ViewDiscipline, ShortOfQuorum
    <2> QED BY <2>1, EveryViewStep, ViewStepKeepsViewInv
<1> QED BY <1>1, <1>2, TypeCorrect, PTL DEF Spec

\* A replica is Normal exactly when it holds the log of its view, and its view
\* is never above the highest it has seen (advance_view_to, on_svc, tick).
THEOREM ViewsDisciplined == Spec => []ViewDiscipline
<1>1. ViewInv => ViewDiscipline
    BY DEF ViewInv
<1> QED BY <1>1, ViewsCorrect, PTL

\* maybe_finish_view_change never leaves a quorum of DoViewChanges unused, so
\* the second attempt tick makes is not needed.
THEOREM StalledViewChange == Spec => []StalledLacksQuorum
<1>1. TypeOK /\ ViewInv => StalledLacksQuorum
    <2> SUFFICES ASSUME TypeOK, ViewInv, NEW r \in Replicas, status[r] = "ViewChange",
                        PrimaryOf(view[r]) = r
                 PROVE  Len(dvc[r][view[r]]) < Quorum
        BY DEF StalledLacksQuorum
    <2>1. view[r] \in Views
        BY DEF TypeOK
    <2>2. view[r] > normal_view[r] /\ view[r] >= view[r]
        BY ViewsOfReplica
    <2> QED BY <2>1, <2>2 DEF ViewInv, ShortOfQuorum
<1> QED BY <1>1, ViewsCorrect, PTL

----------------------------------------------------------------------------
(* What apply_through applies *)

\* A replica has applied exactly the entries its commit number covers.
AppliedToCommit == \A r \in Replicas : Len(applied[r]) = commit[r]

\* apply_through appends the entries of the log between the old and the new
\* commit number to what has been applied, and changes nothing before.
LEMMA ApplyThroughAppends ==
    ASSUME TypeOK, AppliedToCommit, NEW r \in Replicas, NEW lg \in Seq(Entry),
           NEW target \in Nat, NEW v, ApplyThrough(r, lg, target, v)
    PROVE  /\ \A s \in Replicas \ {r} : applied'[s] = applied[s] /\ commit'[s] = commit[s]
           /\ commit[r] \in Nat /\ commit'[r] \in Nat /\ commit[r] <= commit'[r]
           /\ commit'[r] > commit[r] => commit'[r] <= Len(lg) /\ commit'[r] <= target
           /\ Len(applied'[r]) = commit'[r]
           /\ \A k \in 1..commit[r] : applied'[r][k] = applied[r][k]
           /\ \A k \in commit[r] + 1 .. commit'[r] : applied'[r][k] = lg[k]
<1> DEFINE t == AppliedTo(r, lg, target)
           new == SubSeq(lg, commit[r] + 1, t)
<1>1. commit[r] \in Nat /\ Len(lg) \in Nat /\ applied[r] \in Seq(Entry)
    BY DEF TypeOK
<1>2. t \in Nat /\ t >= commit[r] /\ (t > commit[r] => t <= Len(lg) /\ t <= target)
    <2> DEFINE lo == Min({target, Len(lg)})
    <2>1. lo \in Nat /\ lo <= Len(lg) /\ lo <= target
        BY <1>1, MinOfTwo
    <2> HIDE DEF lo
    <2>2. Max({commit[r], lo}) = IF commit[r] > lo THEN commit[r] ELSE lo
        BY <1>1, <2>1, MaxOfTwo
    <2> QED BY <1>1, <2>1, <2>2 DEF AppliedTo, lo
<1>3. /\ commit' = [commit EXCEPT ![r] = t]
      /\ applied' = [applied EXCEPT ![r] = applied[r] \o new]
    BY DEF ApplyThrough
<1> HIDE DEF t
<1>4. /\ new \in Seq(Entry) /\ Len(new) = t - commit[r]
      /\ \A i \in 1..(t - commit[r]) : new[i] = lg[commit[r] + i]
    <2>1. CASE t = commit[r]
        <3>1. new = << >>
            BY <1>1, <2>1, SubSeqEmpty
        <3> HIDE DEF new
        <3> QED BY <1>1, <2>1, <3>1
    <2>2. CASE t > commit[r]
        <3>1. /\ commit[r] + 1 \in 1..Len(lg) /\ t \in Nat /\ t <= Len(lg)
              /\ commit[r] + 1 <= t + 1
            BY <1>1, <1>2, <2>2
        <3>2. /\ new \in Seq(Entry) /\ Len(new) = t - (commit[r] + 1) + 1
              /\ \A i \in 1..(t - (commit[r] + 1) + 1) : new[i] = lg[(commit[r] + 1) + i - 1]
            BY <1>1, <1>2, <2>2, <3>1, SubSeqProperties
        <3> HIDE DEF new
        <3>3. t - (commit[r] + 1) + 1 = t - commit[r]
            BY <1>1, <1>2
        <3>4. ASSUME NEW i \in 1..(t - commit[r])
              PROVE  new[i] = lg[commit[r] + i]
            <4>1. (commit[r] + 1) + i - 1 = commit[r] + i
                BY <1>1
            <4> QED BY <3>2, <3>3, <4>1
        <3> QED BY <3>2, <3>3, <3>4
    <2> QED BY <1>1, <1>2, <2>1, <2>2
<1> HIDE DEF new
<1>5. commit'[r] = t /\ applied'[r] = applied[r] \o new
    BY <1>3 DEF TypeOK
<1>6. \A s \in Replicas \ {r} : applied'[s] = applied[s] /\ commit'[s] = commit[s]
    BY <1>3 DEF TypeOK
<1>7. Len(applied[r]) = commit[r]
    BY DEF AppliedToCommit
<1>8. /\ Len(applied[r] \o new) = t
      /\ \A k \in 1..commit[r] : (applied[r] \o new)[k] = applied[r][k]
      /\ \A k \in commit[r] + 1 .. t : (applied[r] \o new)[k] = new[k - commit[r]]
    <2>1. /\ Len(applied[r] \o new) = Len(applied[r]) + Len(new)
          /\ \A k \in 1..Len(applied[r]) + Len(new) : (applied[r] \o new)[k] =
                IF k <= Len(applied[r]) THEN applied[r][k] ELSE new[k - Len(applied[r])]
        BY <1>1, <1>4, ConcatProperties
    <2>2. Len(applied[r]) + Len(new) = t
        BY <1>1, <1>2, <1>4, <1>7
    <2>3. \A k \in 1..commit[r] : k \in 1..t /\ k <= commit[r]
        BY <1>1, <1>2
    <2>4. \A k \in commit[r] + 1 .. t : k \in 1..t /\ ~ (k <= commit[r])
        BY <1>1, <1>2
    <2> QED BY <1>7, <2>1, <2>2, <2>3, <2>4
<1>9. ASSUME NEW k \in commit[r] + 1 .. t PROVE new[k - commit[r]] = lg[k]
    <2>1. k - commit[r] \in 1..(t - commit[r]) /\ commit[r] + (k - commit[r]) = k
        BY <1>1, <1>2
    <2>2. new[k - commit[r]] = lg[commit[r] + (k - commit[r])]
        BY <1>4, <2>1
    <2> QED BY <2>1, <2>2
<1> QED BY <1>1, <1>2, <1>5, <1>6, <1>8, <1>9

\* Every step hands entries to the state machine through apply_through of one
\* replica, or not at all; then it answers at most from a client table.
Works(r) ==
    \/ /\ UNCHANGED <<commit, applied, client_table>>
       /\ \/ replies' = replies
          \/ \E c \in Clients, q \in Reqs :
                /\ Answered(r, c, q)
                /\ replies' = replies \cup
                      {[client |-> c, req |-> q, res |-> client_table[r][c].res]}
    \/ \E lg \in Seq(Entry), target \in Nat, v \in Views : ApplyThrough(r, lg, target, v)

LEMMA WorksPushed ==
    ASSUME TypeOK, NEW r \in Replicas, NEW v \in Views, NEW d \in Dvc, NEW av, NEW st,
           NEW net, PushDvc(r, v, d, av, st, net)
    PROVE  Works(r)
<1> DEFINE ds == Append(dvc[r][v], d)
<1>1. ds \in Seq(Dvc)
    BY DEF TypeOK
<1> HIDE DEF ds
<1>2. CASE FinishViewChange(r, v, ds, net)
    <2>1. PICK b \in DOMAIN ds, x \in DOMAIN ds : ApplyThrough(r, ds[b].log, ds[x].commit, v)
        BY <1>2 DEF FinishViewChange
    <2>2. ds[b] \in Dvc /\ ds[x] \in Dvc
        BY <1>1
    <2>3. ds[b].log \in Seq(Entry) /\ ds[x].commit \in Nat
        BY <2>2 DEF Dvc
    <2> QED BY <2>1, <2>3 DEF Works
<1>3. CASE UNCHANGED <<commit, applied, client_table, replies>>
    BY <1>3 DEF Works
<1> QED BY <1>2, <1>3 DEF PushDvc, ds

LEMMA WorksSvc ==
    ASSUME TypeOK, NEW r \in Replicas, NEW v \in Views, NEW st, NEW votes, NEW net,
           MaybeFinishSvc(r, v, st, votes, net)
    PROVE  Works(r)
<1> DEFINE mine == [log |-> log[r], commit |-> commit[r], normal_view |-> normal_view[r],
                    replica |-> r]
<1>1. mine \in Dvc
    BY DEF Dvc, TypeOK
<1> HIDE DEF mine
<1>2. \/ PushDvc(r, v, mine, v, st, net)
      \/ UNCHANGED <<commit, applied, client_table, replies>>
    BY DEF MaybeFinishSvc, mine
<1> QED BY <1>1, <1>2, WorksPushed DEF Works

LEMMA WorksRequest ==
    ASSUME NEW r \in Replicas, NEW c \in Clients, NEW q \in Reqs, NEW net,
           OnRequest(r, c, q, net)
    PROVE  Works(r)
BY DEF OnRequest, Works

LEMMA WorksReceive ==
    ASSUME TypeOK, NEW p \in msgs, Receive(p)
    PROVE  p.dst \in Replicas /\ Works(p.dst)
<1> DEFINE r == p.dst
           m == p.msg
<1>0. r \in Replicas
    BY DeliveredType
<1>1. log[r] \in Seq(Entry) /\ view[r] \in Views /\ Len(log[r]) \in Nat /\ commit[r] \in Nat
    BY <1>0 DEF TypeOK
<1>2. CASE m.type = "Request" /\ ReceiveRequest(p)
    <2>1. m.client \in Clients /\ m.req \in Reqs
        BY <1>2, DeliveredType
    <2> QED BY <1>0, <1>2, <2>1, WorksRequest DEF ReceiveRequest
<1>3. CASE m.type = "Prepare" /\ OnPrepare(p)
    <2> DEFINE lg == IF Continues(log[r], m.entry) THEN Append(log[r], m.entry) ELSE log[r]
    <2>1. m.view \in Views /\ m.entry \in Entry /\ m.commit \in Nat
        BY <1>3, DeliveredType
    <2>2. lg \in Seq(Entry)
        BY <1>1, <2>1
    <2>3. \/ UNCHANGED <<commit, applied, client_table, replies>>
          \/ ApplyThrough(r, lg, m.commit, m.view)
        BY <1>3 DEF OnPrepare, IgnoreInView, SolicitState
    <2> HIDE DEF lg
    <2> QED BY <1>0, <2>1, <2>2, <2>3 DEF Works
<1>4. CASE m.type = "PrepareOk" /\ OnPrepareOk(p)
    <2>1. \A t \in commit[r] .. Max({commit[r], Len(log[r])}) : t \in Nat
        BY <1>1, MaxOfTwo
    <2>2. \/ UNCHANGED <<commit, applied, client_table, replies>>
          \/ \E t \in commit[r] .. Max({commit[r], Len(log[r])}) :
                ApplyThrough(r, log[r], t, view[r])
        BY <1>4 DEF OnPrepareOk
    <2> QED BY <1>0, <1>1, <2>1, <2>2 DEF Works
<1>5. CASE m.type = "Commit" /\ OnCommit(p)
    <2>1. m.view \in Views /\ m.commit \in Nat
        BY <1>5, DeliveredType
    <2>2. \/ UNCHANGED <<commit, applied, client_table, replies>>
          \/ ApplyThrough(r, log[r], m.commit, m.view)
        BY <1>5 DEF OnCommit, IgnoreInView, SolicitState
    <2> QED BY <1>0, <1>1, <2>1, <2>2 DEF Works
<1>6. CASE m.type = "StartViewChange" /\ OnStartViewChange(p)
    <2>1. m.view \in Views
        BY <1>6, DeliveredType
    <2>2. \/ UNCHANGED <<commit, applied, client_table, replies>>
          \/ \E st, votes, net : MaybeFinishSvc(r, m.view, st, votes, net)
        BY <1>6 DEF OnStartViewChange
    <2> QED BY <1>0, <2>1, <2>2, WorksSvc DEF Works
<1>7. CASE m.type = "DoViewChange" /\ OnDoViewChange(p)
    <2>1. m.view \in Views /\ m.dvc \in Dvc
        BY <1>7, DeliveredType
    <2>2. PushDvc(r, m.view, m.dvc, view[r], status[r], Rest(p))
        BY <1>7 DEF OnDoViewChange
    <2> QED BY <1>0, <2>1, <2>2, WorksPushed
<1>8. CASE m.type = "StartView" /\ OnStartView(p)
    <2>1. m.view \in Views /\ m.log \in Seq(Entry) /\ m.commit \in Nat
        BY <1>8, DeliveredType
    <2>2. \/ UNCHANGED <<commit, applied, client_table, replies>>
          \/ ApplyThrough(r, m.log, m.commit, m.view)
        BY <1>8 DEF OnStartView
    <2> QED BY <1>0, <2>1, <2>2 DEF Works
<1>9. CASE m.type = "GetState" /\ OnGetState(p)
    BY <1>0, <1>9 DEF OnGetState, Works
<1>10. CASE m.type = "NewState" /\ OnNewState(p)
    <2> DEFINE lg == IF status[r] = "Normal" THEN GapFill(log[r], m.suffix) ELSE m.suffix
    <2>1. m.view \in Views /\ m.suffix \in Seq(Entry) /\ m.commit \in Nat
        BY <1>10, DeliveredType
    <2>2. lg \in Seq(Entry)
        BY <1>1, <2>1, GapFillType
    <2>3. \/ UNCHANGED <<commit, applied, client_table, replies>>
          \/ ApplyThrough(r, lg, m.commit, m.view)
        BY <1>10 DEF OnNewState
    <2> HIDE DEF lg
    <2> QED BY <1>0, <2>1, <2>2, <2>3 DEF Works
<1> QED
    BY <1>0, <1>2, <1>3, <1>4, <1>5, <1>6, <1>7, <1>8, <1>9, <1>10 DEF Receive

LEMMA WorksTick ==
    ASSUME TypeOK, NEW r \in Replicas, Tick(r)
    PROVE  Works(r)
<1>1. CASE Heartbeat(r)
    BY <1>1 DEF Heartbeat, replica_vars, Works
<1>2. CASE Timeout(r)
    <2> DEFINE v == Max({view[r], max_view_seen[r]}) + 1
    <2>1. view[r] \in Nat /\ max_view_seen[r] \in Nat
        BY ViewsAreNaturals DEF TypeOK
    <2>2. v \in Nat /\ v <= MaxView
        BY <1>2, <2>1, MaxOfTwo DEF Timeout
    <2>3. \E st, votes, net : MaybeFinishSvc(r, v, st, votes, net)
        BY <1>2 DEF Timeout
    <2> HIDE DEF v
    <2>4. v \in Views
        BY <2>2, BoundsAssumption DEF Views
    <2> QED BY <2>3, <2>4, WorksSvc
<1>3. CASE RetryViewChange(r)
    <2>1. view[r] \in Views
        BY DEF TypeOK
    <2>2. \E st, votes, net : MaybeFinishSvc(r, view[r], st, votes, net)
        BY <1>3 DEF RetryViewChange
    <2> QED BY <2>1, <2>2, WorksSvc
<1> QED BY <1>1, <1>2, <1>3 DEF Tick

LEMMA EveryStepWorks ==
    ASSUME TypeOK, [Next]_vars
    PROVE  (\E r \in Replicas : Works(r)) \/ UNCHANGED vars
<1>1. ASSUME NEW c \in Clients, NEW q \in Reqs, NEW r \in Contacts[c], Submit(r, c, q)
      PROVE  r \in Replicas /\ Works(r)
    <2>1. r \in Replicas
        BY <1>1, BoundsAssumption
    <2> QED BY <1>1, <2>1, WorksRequest DEF Submit
<1>2. ASSUME NEW r \in Timers, Tick(r)
      PROVE  r \in Replicas /\ Works(r)
    <2>1. r \in Replicas
        BY <1>2, BoundsAssumption
    <2> QED BY <1>2, <2>1, WorksTick
<1> QED BY <1>1, <1>2, WorksReceive DEF Next

----------------------------------------------------------------------------
(* Replies *)

\* At position k of ap there is request q of client c, or a later one.
Backed(ap, c, q, k) == k \in 1..Len(ap) /\ ap[k].client = c /\ ap[k].req >= q

\* What a client table remembers, its replica has applied.
TablesBacked ==
    \A r \in Replicas, c \in Clients :
        client_table[r][c].req > 0 =>
            Backed(applied[r], c, client_table[r][c].req, client_table[r][c].res)

ReplyInv == AppliedToCommit /\ TablesBacked /\ ReplyBacked

LEMMA BackedStays ==
    ASSUME NEW ap \in Seq(Entry), NEW aq \in Seq(Entry), Len(ap) <= Len(aq),
           \A k \in 1..Len(ap) : aq[k] = ap[k],
           NEW c, NEW q, NEW k, Backed(ap, c, q, k)
    PROVE  Backed(aq, c, q, k)
<1>1. Len(ap) \in Nat /\ Len(aq) \in Nat
    OBVIOUS
<1>2. k \in 1..Len(aq)
    BY <1>1 DEF Backed
<1> QED BY <1>2 DEF Backed

\* What apply_through writes to the client table and emits is backed by the
\* entries it applies.
LEMMA ApplyThroughBacks ==
    ASSUME TypeOK, TypeOK', ReplyInv, NEW r \in Replicas, NEW lg \in Seq(Entry),
           NEW target \in Nat, NEW v, ApplyThrough(r, lg, target, v)
    PROVE  ReplyInv'
<1> DEFINE t == AppliedTo(r, lg, target)
           new == commit[r] + 1 .. t
           own(c) == {k \in new : lg[k].client = c}
<1>0. AppliedToCommit
    BY DEF ReplyInv
<1>1. /\ commit[r] \in Nat /\ commit'[r] \in Nat /\ commit[r] <= commit'[r]
      /\ commit'[r] > commit[r] => commit'[r] <= Len(lg)
      /\ Len(applied'[r]) = commit'[r]
      /\ \A k \in commit[r] + 1 .. commit'[r] : applied'[r][k] = lg[k]
    BY <1>0, ApplyThroughAppends
<1>2. \A s \in Replicas \ {r} : applied'[s] = applied[s] /\ commit'[s] = commit[s]
    BY <1>0, ApplyThroughAppends
<1>3. \A k \in 1..commit[r] : applied'[r][k] = applied[r][k]
    BY <1>0, ApplyThroughAppends
<1>4. /\ commit'[r] = t
      /\ client_table' = [client_table EXCEPT ![r] =
            [c \in Clients |-> IF own(c) = {} THEN client_table[r][c]
                               ELSE [req |-> lg[Max(own(c))].req, res |-> Max(own(c))]]]
      /\ replies' \subseteq replies \cup
            {[client |-> lg[k].client, req |-> lg[k].req, res |-> k] : k \in new}
    BY DEF ApplyThrough, TypeOK
<1> HIDE DEF t
<1>5. ASSUME NEW s \in Replicas, NEW c, NEW q, NEW k, Backed(applied[s], c, q, k)
      PROVE  Backed(applied'[s], c, q, k)
    <2>1. applied[s] \in Seq(Entry) /\ applied'[s] \in Seq(Entry)
        BY DEF TypeOK
    <2>2. /\ Len(applied[s]) <= Len(applied'[s])
          /\ \A i \in 1..Len(applied[s]) : applied'[s][i] = applied[s][i]
        <3>1. CASE s = r
            BY <1>0, <1>1, <1>3, <3>1 DEF AppliedToCommit
        <3>2. CASE s # r
            BY <1>2, <2>1, <3>2
        <3> QED BY <3>1, <3>2
    <2> QED BY <1>5, <2>1, <2>2, BackedStays
<1>6. ASSUME NEW k \in new
      PROVE  Backed(applied'[r], lg[k].client, lg[k].req, k)
    <2>1. k \in 1..Len(applied'[r]) /\ applied'[r][k] = lg[k] /\ k \in 1..Len(lg)
        BY <1>1, <1>4
    <2>2. lg[k].req \in Nat
        <3>1. lg[k] \in Entry
            BY <2>1
        <3> QED BY <3>1, BoundsAssumption DEF Entry, Reqs
    <2> QED BY <2>1, <2>2 DEF Backed
<1>7. AppliedToCommit'
    BY <1>0, <1>1, <1>2 DEF AppliedToCommit
<1>8. ASSUME NEW s \in Replicas, NEW c \in Clients, client_table'[s][c].req > 0
      PROVE  Backed(applied'[s], c, client_table'[s][c].req, client_table'[s][c].res)
    <2>1. CASE client_table'[s][c] = client_table[s][c]
        <3>1. Backed(applied[s], c, client_table[s][c].req, client_table[s][c].res)
            BY <1>8, <2>1 DEF ReplyInv, TablesBacked
        <3> QED BY <1>5, <2>1, <3>1
    <2>2. CASE s = r /\ own(c) # {}
        <3>1. own(c) \subseteq new /\ own(c) \subseteq 0..t /\ t \in Nat
            BY <1>1, <1>4
        <3>2. Max(own(c)) \in own(c)
            <4> HIDE DEF own
            <4> QED BY <2>2, <3>1, MaxOfBounded
        <3>3. Max(own(c)) \in new /\ lg[Max(own(c))].client = c
            BY <3>2
        <3>4. client_table'[r][c] = [req |-> lg[Max(own(c))].req, res |-> Max(own(c))]
            BY <1>4, <2>2 DEF TypeOK
        <3> HIDE DEF own
        <3> QED BY <1>6, <2>2, <3>3, <3>4
    <2>3. (s = r /\ own(c) # {}) \/ client_table'[s][c] = client_table[s][c]
        BY <1>4 DEF TypeOK
    <2> QED BY <2>1, <2>2, <2>3
<1>9. ASSUME NEW rp \in replies'
      PROVE  \E s \in Replicas : Backed(applied'[s], rp.client, rp.req, rp.res)
    <2>1. CASE rp \in replies
        BY <1>5, <2>1 DEF ReplyInv, ReplyBacked, Backed
    <2>2. CASE \E k \in new : rp = [client |-> lg[k].client, req |-> lg[k].req, res |-> k]
        BY <1>6, <2>2
    <2> QED BY <1>4, <1>9, <2>1, <2>2
<1> QED BY <1>7, <1>8, <1>9 DEF ReplyInv, TablesBacked, ReplyBacked, Backed

\* An answer from the client table is as good as what the table was built from.
LEMMA TableAnswerBacked ==
    ASSUME TypeOK, ReplyInv, UNCHANGED <<commit, applied, client_table>>,
           NEW r \in Replicas, NEW c \in Clients, NEW q \in Reqs, Answered(r, c, q),
           replies' = replies \cup {[client |-> c, req |-> q, res |-> client_table[r][c].res]}
    PROVE  ReplyInv'
<1> DEFINE row == client_table[r][c]
           rq == [client |-> c, req |-> q, res |-> row.res]
<1>1. row.req \in Nat /\ q \in Nat /\ q > 0 /\ q <= row.req
    <2>1. row \in [req : 0..MaxReq, res : Nat]
        BY DEF TypeOK
    <2> QED BY <2>1, BoundsAssumption DEF Reqs, Answered
<1>2. Backed(applied[r], c, row.req, row.res)
    BY <1>1 DEF ReplyInv, TablesBacked
<1>3. applied[r][row.res].req \in Nat
    <2>1. applied[r] \in Seq(Entry)
        BY DEF TypeOK
    <2>2. applied[r][row.res] \in Entry
        BY <1>2, <2>1 DEF Backed
    <2> QED BY <2>2, BoundsAssumption DEF Entry, Reqs
<1> HIDE DEF row
<1>4. Backed(applied[r], c, q, row.res)
    BY <1>1, <1>2, <1>3 DEF Backed
<1>5. replies' = replies \cup {rq}
    BY DEF row
<1>6. ASSUME NEW rp \in replies'
      PROVE  \E s \in Replicas : Backed(applied[s], rp.client, rp.req, rp.res)
    <2>1. CASE rp \in replies
        BY <2>1 DEF ReplyInv, ReplyBacked, Backed
    <2>2. CASE rp = rq
        BY <1>4, <2>2
    <2> QED BY <1>5, <1>6, <2>1, <2>2
<1>7. AppliedToCommit' /\ TablesBacked'
    BY DEF ReplyInv, AppliedToCommit, TablesBacked
<1> QED BY <1>6, <1>7 DEF ReplyInv, ReplyBacked, Backed

\* What a client table remembers its replica has applied, and every reply is
\* backed (apply_through, on_request).
THEOREM RepliesCorrect == Spec => []ReplyInv
<1>1. Init => ReplyInv
    <2> SUFFICES ASSUME Init PROVE ReplyInv
        OBVIOUS
    <2>1. \A r \in Replicas : Len(applied[r]) = commit[r]
        BY DEF Init
    <2>2. \A r \in Replicas, c \in Clients : client_table[r][c].req = 0
        BY DEF Init, NoReply
    <2>3. replies = {}
        BY DEF Init
    <2> QED BY <2>1, <2>2, <2>3 DEF ReplyInv, AppliedToCommit, TablesBacked, ReplyBacked
<1>2. TypeOK /\ TypeOK' /\ ReplyInv /\ [Next]_vars => ReplyInv'
    <2> SUFFICES ASSUME TypeOK, TypeOK', ReplyInv, [Next]_vars PROVE ReplyInv'
        OBVIOUS
    <2>1. CASE UNCHANGED <<commit, applied, client_table, replies>>
        BY <2>1 DEF ReplyInv, AppliedToCommit, TablesBacked, ReplyBacked
    <2>2. CASE UNCHANGED vars
        BY <2>1, <2>2 DEF vars, replica_vars
    <2>3. ASSUME NEW r \in Replicas, Works(r)
          PROVE  ReplyInv'
        BY <2>1, <2>3, TableAnswerBacked, ApplyThroughBacks DEF Works
    <2> QED BY <2>2, <2>3, EveryStepWorks
<1> QED BY <1>1, <1>2, TypeCorrect, PTL DEF Spec

\* No client is ever told a result at a position where no replica applied its
\* request, whether the reply comes from a fresh commit or from a client table
\* (on_request, apply_through), and whatever is lost, repeated or reordered.
THEOREM RepliesBacked == Spec => []ReplyBacked
<1>1. ReplyInv => ReplyBacked
    BY DEF ReplyInv
<1> QED BY <1>1, RepliesCorrect, PTL

----------------------------------------------------------------------------
(* Numbering *)

\* The entries of a suffix follow each other; the first one has a number.
Consecutive(s) ==
    \A k \in 1..Len(s) : s[1].op_number >= 1 /\ s[k].op_number = s[1].op_number + k - 1

\* What a packet says of numbers.  A GetState that asks for less than the whole
\* log, and the suffix that answers it, concern a replica that already has the
\* log of that view, and so will not install the suffix as its log.
NumberedMsg(p) ==
    /\ p.msg.type = "DoViewChange" => Numbered(p.msg.dvc.log, 1)
    /\ p.msg.type = "StartView" => Numbered(p.msg.log, 1)
    /\ p.msg.type = "GetState" =>
          p.msg.after = 0 \/ normal_view[p.msg.replica] >= p.msg.view
    /\ p.msg.type = "NewState" =>
          /\ Consecutive(p.msg.suffix)
          /\ Numbered(p.msg.suffix, 1) \/ normal_view[p.dst] >= p.msg.view

NumberInv ==
    /\ \A r \in Replicas : Numbered(log[r], 1) /\ Numbered(applied[r], 1)
    /\ \A r \in Replicas, v \in Views : \A i \in DOMAIN dvc[r][v] :
          Numbered(dvc[r][v][i].log, 1)
    /\ \A p \in msgs : NumberedMsg(p)

LEMMA NumberedConsecutive ==
    ASSUME NEW s \in Seq(Entry), Numbered(s, 1)
    PROVE  Consecutive(s)
<1>1. ASSUME NEW k \in 1..Len(s)
      PROVE  s[1].op_number >= 1 /\ s[k].op_number = s[1].op_number + k - 1
    <2>1. 1 \in 1..Len(s) /\ Len(s) \in Nat
        OBVIOUS
    <2>2. s[1].op_number = 1 + 1 - 1 /\ s[k].op_number = 1 + k - 1
        BY <2>1 DEF Numbered
    <2> QED BY <2>1, <2>2
<1> QED BY <1>1 DEF Consecutive

\* Any suffix of a numbered log is consecutive.
LEMMA SuffixConsecutive ==
    ASSUME NEW s \in Seq(Entry), Numbered(s, 1), NEW a \in Nat
    PROVE  Consecutive(SubSeq(s, a + 1, Len(s)))
<1> DEFINE u == SubSeq(s, a + 1, Len(s))
<1>0. Len(s) \in Nat
    OBVIOUS
<1>1. CASE a >= Len(s)
    <2>1. u = << >>
        BY <1>0, <1>1, SubSeqEmpty
    <2> HIDE DEF u
    <2>2. Len(u) = 0
        BY <2>1
    <2> QED BY <2>2 DEF Consecutive, u
<1>2. CASE a < Len(s)
    <2>1. \A i \in a + 1 .. Len(s) : s[i] \in Entry
        BY <1>0
    <2>2. /\ Len(u) = IF a + 1 <= Len(s) THEN Len(s) - (a + 1) + 1 ELSE 0
          /\ \A i \in 1..(Len(s) - (a + 1) + 1) : u[i] = s[(a + 1) + i - 1]
        BY <1>0, <2>1, SubSeqProperties
    <2> HIDE DEF u
    <2>3. Len(u) = Len(s) - (a + 1) + 1
        BY <1>0, <1>2, <2>2
    <2>4. ASSUME NEW k \in 1..Len(u)
          PROVE  u[k].op_number = a + k
        <3>1. (a + 1) + k - 1 = a + k /\ a + k \in 1..Len(s) /\ 1 + (a + k) - 1 = a + k
            BY <1>0, <1>2, <2>3
        <3>2. u[k] = s[a + k]
            BY <2>2, <2>3, <3>1
        <3> QED BY <3>1, <3>2 DEF Numbered
    <2>5. ASSUME NEW k \in 1..Len(u)
          PROVE  u[1].op_number >= 1 /\ u[k].op_number = u[1].op_number + k - 1
        <3>1. 1 \in 1..Len(u)
            BY <1>0, <1>2, <2>3
        <3>2. u[1].op_number = a + 1 /\ u[k].op_number = a + k
            BY <2>4, <3>1
        <3> QED BY <3>2
    <2> QED BY <2>5 DEF Consecutive, u
<1> QED BY <1>0, <1>1, <1>2

LEMMA AppendNumbered ==
    ASSUME NEW s \in Seq(Entry), NEW e \in Entry, Numbered(s, 1), e.op_number = Len(s) + 1
    PROVE  Numbered(Append(s, e), 1)
<1>1. /\ Len(s) \in Nat /\ Len(Append(s, e)) = Len(s) + 1
      /\ \A i \in 1..Len(s) : Append(s, e)[i] = s[i]
      /\ Append(s, e)[Len(s) + 1] = e
    BY AppendProperties
<1>2. ASSUME NEW k \in 1..(Len(s) + 1)
      PROVE  Append(s, e)[k].op_number = 1 + k - 1
    <2>1. CASE k \in 1..Len(s)
        BY <1>1, <2>1 DEF Numbered
    <2>2. CASE k = Len(s) + 1
        BY <1>1, <2>2
    <2> QED BY <1>1, <2>1, <2>2
<1> QED BY <1>1, <1>2 DEF Numbered

\* What the in-Normal gap fill makes of a log: the log itself, or the log with
\* the entries of the suffix that have the numbers after it.
LEMMA GapFillEntries ==
    ASSUME NEW lg \in Seq(Entry), NEW suffix \in Seq(Entry), Consecutive(suffix)
    PROVE  /\ GapFill(lg, suffix) \in Seq(Entry)
           /\ Len(lg) <= Len(GapFill(lg, suffix))
           /\ \A k \in 1..Len(lg) : GapFill(lg, suffix)[k] = lg[k]
           /\ \A k \in Len(lg) + 1 .. Len(GapFill(lg, suffix)) :
                 \E i \in 1..Len(suffix) :
                     GapFill(lg, suffix)[k] = suffix[i] /\ suffix[i].op_number = k
<1> DEFINE G == GapFill(lg, suffix)
           a == Len(lg) + 2 - suffix[1].op_number
           u == SubSeq(suffix, a, Len(suffix))
<1>0. Len(lg) \in Nat /\ Len(suffix) \in Nat
    OBVIOUS
<1>1. CASE suffix = <<>> \/ suffix[1].op_number > Len(lg) + 1
    <2>1. G = lg
        BY <1>1 DEF GapFill
    <2> HIDE DEF G
    <2>2. \A k \in Len(lg) + 1 .. Len(lg) : FALSE
        BY <1>0
    <2> QED BY <1>0, <2>1, <2>2 DEF G
<1>2. CASE ~ (suffix = <<>> \/ suffix[1].op_number > Len(lg) + 1)
    <2>1. 1 \in 1..Len(suffix) /\ suffix[1] \in Entry
        BY <1>2
    <2>2. suffix[1].op_number \in Nat /\ suffix[1].op_number >= 1
        BY <2>1 DEF Entry, Consecutive
    <2>3. a \in Nat /\ a >= 1 /\ a <= Len(lg) + 1
        BY <1>0, <1>2, <2>2
    <2>4. G = lg \o u
        BY <1>2 DEF GapFill
    <2>5. a + suffix[1].op_number = Len(lg) + 2
        BY <1>0, <2>2
    <2> HIDE DEF G, a
    <2>6. CASE a > Len(suffix)
        <3>1. u = << >>
            BY <1>0, <2>3, <2>6, SubSeqEmpty
        <3>2. G = lg
            BY <2>4, <3>1
        <3>3. \A k \in Len(lg) + 1 .. Len(lg) : FALSE
            BY <1>0
        <3> QED BY <1>0, <3>2, <3>3 DEF G
    <2>7. CASE a <= Len(suffix)
        <3>1. \A i \in a .. Len(suffix) : suffix[i] \in Entry
            BY <1>0, <2>3
        <3>2. /\ u \in Seq(Entry)
              /\ Len(u) = IF a <= Len(suffix) THEN Len(suffix) - a + 1 ELSE 0
              /\ \A i \in 1..(Len(suffix) - a + 1) : u[i] = suffix[a + i - 1]
            BY <1>0, <2>3, <3>1, SubSeqProperties
        <3> HIDE DEF u
        <3>3. Len(u) = Len(suffix) - a + 1 /\ Len(u) \in Nat
            BY <1>0, <2>3, <2>7, <3>2
        <3>4. /\ G \in Seq(Entry) /\ Len(G) = Len(lg) + Len(u)
              /\ \A k \in 1..Len(lg) + Len(u) :
                    G[k] = IF k <= Len(lg) THEN lg[k] ELSE u[k - Len(lg)]
            BY <2>4, <3>2, ConcatProperties
        <3>5. \A k \in 1..Len(lg) : k \in 1..Len(lg) + Len(u) /\ k <= Len(lg)
            BY <1>0, <3>3
        <3>6. ASSUME NEW k \in Len(lg) + 1 .. Len(G)
              PROVE  \E i \in 1..Len(suffix) : G[k] = suffix[i] /\ suffix[i].op_number = k
            <4> DEFINE j == k - Len(lg)
                       i == a + j - 1
            <4>1. /\ k \in 1..Len(lg) + Len(u) /\ ~ (k <= Len(lg))
                  /\ j \in 1..Len(u) /\ i \in 1..Len(suffix)
                BY <1>0, <2>3, <2>7, <3>3, <3>4
            <4>2. G[k] = u[j]
                BY <3>4, <4>1
            <4>3. u[j] = suffix[i]
                BY <3>2, <3>3, <4>1
            <4>4. suffix[i].op_number = suffix[1].op_number + i - 1
                <5> HIDE DEF i
                <5> QED BY <4>1 DEF Consecutive
            <4>5. suffix[1].op_number + i - 1 = k
                <5>1. k \in Nat /\ i = a + (k - Len(lg)) - 1
                    BY <1>0, <4>1
                <5> HIDE DEF i
                <5> QED BY <1>0, <2>2, <2>3, <2>5, <5>1
            <4> HIDE DEF i, j
            <4> QED BY <4>1, <4>2, <4>3, <4>4, <4>5
        <3>7. Len(lg) <= Len(G) /\ \A k \in 1..Len(lg) : G[k] = lg[k]
            BY <1>0, <3>3, <3>4, <3>5
        <3> QED BY <3>4, <3>6, <3>7 DEF G
    <2> QED BY <1>0, <2>3, <2>6, <2>7
<1> QED BY <1>1, <1>2

LEMMA GapFillNumbered ==
    ASSUME NEW lg \in Seq(Entry), NEW suffix \in Seq(Entry), Consecutive(suffix),
           Numbered(lg, 1)
    PROVE  Numbered(GapFill(lg, suffix), 1)
<1> DEFINE G == GapFill(lg, suffix)
<1>1. /\ G \in Seq(Entry) /\ Len(lg) <= Len(G)
      /\ \A k \in 1..Len(lg) : G[k] = lg[k]
      /\ \A k \in Len(lg) + 1 .. Len(G) : \E i \in 1..Len(suffix) :
            G[k] = suffix[i] /\ suffix[i].op_number = k
    BY GapFillEntries
<1> HIDE DEF G
<1>2. ASSUME NEW k \in 1..Len(G)
      PROVE  G[k].op_number = 1 + k - 1
    <2>1. CASE k \in 1..Len(lg)
        BY <1>1, <2>1 DEF Numbered
    <2>2. CASE k \in Len(lg) + 1 .. Len(G)
        BY <1>1, <2>2
    <2>3. Len(lg) \in Nat /\ Len(G) \in Nat
        BY <1>1
    <2> QED BY <1>1, <2>1, <2>2, <2>3
<1> QED BY <1>2 DEF Numbered, G

\* A step of r that leaves a numbered log, takes over numbered DoViewChanges and
\* sends numbered messages keeps everything numbered.
LEMMA NumberStep ==
    ASSUME TypeOK, TypeOK', AppliedToCommit, NumberInv, NEW r \in Replicas, ViewStep(r),
           NEW lg \in Seq(Entry), Numbered(lg, 1), log' = [log EXCEPT ![r] = lg],
           UNCHANGED applied \/ \E target \in Nat, v \in Views : ApplyThrough(r, lg, target, v),
           \A v \in Views :
              \/ dvc'[r][v] = dvc[r][v]
              \/ \E d \in Dvc : Numbered(d.log, 1) /\ dvc'[r][v] = Append(dvc[r][v], d),
           \A p \in msgs' \ msgs : NumberedMsg(p)'
    PROVE  NumberInv'
<1>1. ASSUME NEW s \in Replicas PROVE Numbered(log'[s], 1)
    BY DEF NumberInv, TypeOK
<1>2. ASSUME NEW s \in Replicas PROVE Numbered(applied'[s], 1)
    <2>1. CASE applied'[s] = applied[s]
        BY <2>1 DEF NumberInv
    <2>2. ASSUME NEW target \in Nat, NEW v \in Views, ApplyThrough(r, lg, target, v), s = r
          PROVE  Numbered(applied'[r], 1)
        <3>1. /\ commit[r] \in Nat /\ commit'[r] \in Nat /\ commit[r] <= commit'[r]
              /\ commit'[r] > commit[r] => commit'[r] <= Len(lg)
              /\ Len(applied'[r]) = commit'[r]
              /\ \A k \in 1..commit[r] : applied'[r][k] = applied[r][k]
              /\ \A k \in commit[r] + 1 .. commit'[r] : applied'[r][k] = lg[k]
            BY <2>2, ApplyThroughAppends
        <3>2. Numbered(applied[r], 1) /\ Len(applied[r]) = commit[r] /\ Len(lg) \in Nat
            BY DEF NumberInv, AppliedToCommit
        <3>3. ASSUME NEW k \in 1..commit'[r]
              PROVE  applied'[r][k].op_number = 1 + k - 1
            <4>1. CASE k \in 1..commit[r]
                BY <3>1, <3>2, <4>1 DEF Numbered
            <4>2. CASE k \in commit[r] + 1 .. commit'[r]
                <5>1. k \in 1..Len(lg)
                    BY <3>1, <3>2, <4>2
                <5> QED BY <3>1, <4>2, <5>1 DEF Numbered
            <4> QED BY <3>1, <4>1, <4>2
        <3> QED BY <3>1, <3>3 DEF Numbered
    <2>3. ASSUME NEW target \in Nat, NEW v \in Views, ApplyThrough(r, lg, target, v), s # r
          PROVE  applied'[s] = applied[s]
        BY <2>3, ApplyThroughAppends
    <2> QED BY <2>1, <2>2, <2>3
<1>3. ASSUME NEW s \in Replicas, NEW v \in Views, NEW i \in DOMAIN dvc'[s][v]
      PROVE  Numbered(dvc'[s][v][i].log, 1)
    <2>1. CASE dvc'[s][v] = dvc[s][v]
        BY <1>3, <2>1 DEF NumberInv
    <2>2. ASSUME NEW d \in Dvc, Numbered(d.log, 1), s = r, dvc'[r][v] = Append(dvc[r][v], d)
          PROVE  Numbered(dvc'[s][v][i].log, 1)
        <3>1. dvc[r][v] \in Seq(Dvc)
            BY DEF TypeOK
        <3>2. /\ DOMAIN dvc[r][v] = 1..Len(dvc[r][v]) /\ Len(dvc[r][v]) \in Nat
              /\ DOMAIN Append(dvc[r][v], d) = 1..(Len(dvc[r][v]) + 1)
              /\ \A j \in 1..Len(dvc[r][v]) : Append(dvc[r][v], d)[j] = dvc[r][v][j]
              /\ Append(dvc[r][v], d)[Len(dvc[r][v]) + 1] = d
            BY <3>1, AppendProperties
        <3>3. i \in DOMAIN dvc[r][v] \/ i = Len(dvc[r][v]) + 1
            BY <1>3, <2>2, <3>2
        <3>4. CASE i \in DOMAIN dvc[r][v]
            BY <2>2, <3>2, <3>4 DEF NumberInv
        <3>5. CASE i = Len(dvc[r][v]) + 1
            BY <2>2, <3>2, <3>5
        <3> QED BY <3>3, <3>4, <3>5
    <2>3. s # r => dvc'[s] = dvc[s]
        BY DEF ViewStep
    <2> QED BY <2>1, <2>2, <2>3
<1>4. ASSUME NEW p \in msgs PROVE NumberedMsg(p)'
    <2>1. \A s \in Replicas : /\ normal_view[s] \in Nat /\ normal_view'[s] \in Nat
                              /\ normal_view[s] <= normal_view'[s]
        BY ViewStepRaises
    <2>2. NumberedMsg(p)
        BY DEF NumberInv
    <2>3. CASE p.msg.type = "GetState"
        <3>1. p.msg.replica \in Replicas /\ p.msg.view \in Nat
            BY <2>3, DeliveredType, ViewsAreNaturals
        <3> QED BY <2>1, <2>2, <2>3, <3>1 DEF NumberedMsg
    <2>4. CASE p.msg.type = "NewState"
        <3>1. p.dst \in Replicas /\ p.msg.view \in Nat
            BY <2>4, DeliveredType, ViewsAreNaturals
        <3> QED BY <2>1, <2>2, <2>4, <3>1 DEF NumberedMsg
    <2>5. CASE p.msg.type # "GetState" /\ p.msg.type # "NewState"
        BY <2>2, <2>5 DEF NumberedMsg
    <2> QED BY <2>3, <2>4, <2>5
<1> QED BY <1>1, <1>2, <1>3, <1>4 DEF NumberInv

\* A message that carries no log and asks for none.
LEMMA PlainMsg ==
    ASSUME NEW p, p.msg.type \in {"Request", "Prepare", "PrepareOk", "Commit", "StartViewChange"}
    PROVE  NumberedMsg(p)'
BY DEF NumberedMsg

\* The members of what a replica sends.
LEMMA Sent ==
    ASSUME NEW r, NEW q, NEW m, NEW p
    PROVE  /\ p \in Send(r, q, m) => p.msg = m /\ p.dst = q /\ q # r
           /\ p \in Broadcast(r, m) => p.msg = m /\ p.dst \in Replicas /\ p.dst # r
BY DEF Send, Broadcast

\* A step of r that changes no log and takes over no DoViewChange.
LEMMA NumberSameLog ==
    ASSUME TypeOK, TypeOK', AppliedToCommit, NumberInv, NEW r \in Replicas, ViewStep(r),
           log' = log, dvc' = dvc,
           \/ UNCHANGED applied
           \/ \E target \in Nat, v \in Views : ApplyThrough(r, log[r], target, v),
           \A p \in msgs' \ msgs : NumberedMsg(p)'
    PROVE  NumberInv'
<1>1. log[r] \in Seq(Entry) /\ Numbered(log[r], 1) /\ log' = [log EXCEPT ![r] = log[r]]
    BY DEF TypeOK, NumberInv
<1> QED BY <1>1, NumberStep

LEMMA RequestNumbered ==
    ASSUME TypeOK, TypeOK', AppliedToCommit, NumberInv, NEW r \in Replicas, ViewStep(r),
           NEW c \in Clients, NEW q \in Reqs, NEW net \in SUBSET msgs, OnRequest(r, c, q, net)
    PROVE  NumberInv'
<1> DEFINE e == [op_number |-> Len(log[r]) + 1, client |-> c, req |-> q]
<1>1. UNCHANGED <<applied, dvc>>
    BY DEF OnRequest
<1>2. CASE log' = log /\ msgs' = net
    BY <1>1, <1>2, NumberSameLog
<1>3. CASE /\ log' = log
           /\ msgs' = net \cup Send(r, PrimaryOf(view[r]),
                                    [type |-> "Request", client |-> c, req |-> q])
    <2>1. \A p \in msgs' \ msgs : p.msg.type = "Request"
        BY <1>3, Sent
    <2> QED BY <1>1, <1>3, <2>1, PlainMsg, NumberSameLog
<1>4. CASE /\ log' = [log EXCEPT ![r] = Append(@, e)]
           /\ msgs' = net \cup Broadcast(r, [type |-> "Prepare", view |-> view[r],
                                             entry |-> e, commit |-> commit[r]])
    <2>1. log[r] \in Seq(Entry) /\ Numbered(log[r], 1)
        BY DEF TypeOK, NumberInv
    <2>2. e \in Entry /\ e.op_number = Len(log[r]) + 1
        BY <2>1 DEF Entry
    <2>3. \A p \in msgs' \ msgs : p.msg.type = "Prepare"
        BY <1>4, Sent
    <2>4. log' = [log EXCEPT ![r] = Append(log[r], e)]
        BY <1>4
    <2> HIDE DEF e
    <2>5. Append(log[r], e) \in Seq(Entry) /\ Numbered(Append(log[r], e), 1)
        BY <2>1, <2>2, AppendNumbered
    <2>6. \A p \in msgs' \ msgs : NumberedMsg(p)'
        BY <2>3, PlainMsg
    <2> QED BY <1>1, <2>4, <2>5, <2>6, NumberStep
<1> QED BY <1>2, <1>3, <1>4 DEF OnRequest

\* A new GetState of r, for the whole log or for its own view.
LEMMA GetStateNumbered ==
    ASSUME TypeOK, NEW r \in Replicas, NEW v \in Views, NEW a, NEW p,
           p.msg = [type |-> "GetState", view |-> v, after |-> a, replica |-> r],
           a = 0 \/ normal_view'[r] >= v
    PROVE  NumberedMsg(p)'
BY DEF NumberedMsg

LEMMA SolicitNumbered ==
    ASSUME TypeOK, TypeOK', AppliedToCommit, NumberInv, NEW r \in Replicas, ViewStep(r),
           NEW v \in Views, NEW net \in SUBSET msgs, SolicitState(r, v, net), dvc' = dvc
    PROVE  NumberInv'
<1>1. ASSUME NEW p \in msgs' \ msgs PROVE NumberedMsg(p)'
    <2>1. p.msg = [type |-> "GetState", view |-> v, after |-> 0, replica |-> r]
        BY <1>1, Sent DEF SolicitState
    <2> QED BY <2>1, GetStateNumbered
<1> QED BY <1>1, NumberSameLog DEF SolicitState

LEMMA PrepareNumbered ==
    ASSUME TypeOK, TypeOK', ViewInv, AppliedToCommit, NumberInv, NEW p \in msgs,
           ViewStep(p.dst), p.msg.type = "Prepare", OnPrepare(p)
    PROVE  NumberInv'
<1> DEFINE r == p.dst
           m == p.msg
           k == m.entry.op_number
           ack == [type |-> "PrepareOk", view |-> m.view, op_number |-> k, replica |-> r]
           gap == [type |-> "GetState", view |-> m.view, after |-> Len(log[r]), replica |-> r]
           lg == IF Continues(log[r], m.entry) THEN Append(log[r], m.entry) ELSE log[r]
<1>1. r \in Replicas /\ m.view \in Views /\ m.entry \in Entry /\ m.commit \in Nat
    BY DeliveredType
<1>2. Rest(p) \in SUBSET msgs
    BY DEF Rest
<1>3. UNCHANGED <<normal_view, dvc>>
    BY DEF OnPrepare
<1>4. CASE IgnoreInView(r, m.view, Rest(p))
    BY <1>1, <1>2, <1>3, <1>4, NumberSameLog DEF IgnoreInView
<1>5. CASE SolicitState(r, m.view, Rest(p))
    BY <1>1, <1>2, <1>3, <1>5, SolicitNumbered
<1>6. CASE /\ m.view = view[r] /\ status[r] = "Normal"
           /\ log' = [log EXCEPT ![r] = lg]
           /\ ApplyThrough(r, lg, m.commit, m.view)
           /\ msgs' = Rest(p) \cup Send(r, PrimaryOf(m.view),
                                        IF k <= Len(log[r]) + 1 THEN ack ELSE gap)
    <2>1. log[r] \in Seq(Entry) /\ Numbered(log[r], 1)
        BY <1>1 DEF TypeOK, NumberInv
    <2>2. lg \in Seq(Entry) /\ Numbered(lg, 1)
        BY <1>1, <2>1, AppendNumbered DEF Continues
    <2>3. normal_view'[r] >= m.view
        BY <1>1, <1>3, <1>6, ViewsOfReplica
    <2>4. ASSUME NEW n \in msgs' \ msgs PROVE NumberedMsg(n)'
        <3>1. n.msg = ack \/ n.msg = gap
            BY <1>2, <1>6, <2>4, Sent
        <3>2. CASE n.msg = ack
            BY <3>2, PlainMsg
        <3>3. CASE n.msg = gap
            BY <1>1, <2>3, <3>3, GetStateNumbered
        <3> QED BY <3>1, <3>2, <3>3
    <2> HIDE DEF lg
    <2> QED BY <1>1, <1>3, <1>6, <2>2, <2>4, NumberStep
<1> QED BY <1>4, <1>5, <1>6 DEF OnPrepare

LEMMA PrepareOkNumbered ==
    ASSUME TypeOK, TypeOK', AppliedToCommit, NumberInv, NEW p \in msgs,
           ViewStep(p.dst), p.msg.type = "PrepareOk", OnPrepareOk(p)
    PROVE  NumberInv'
<1> DEFINE r == p.dst
<1>1. r \in Replicas
    BY DeliveredType
<1>2. log[r] \in Seq(Entry) /\ view[r] \in Views /\ commit[r] \in Nat /\ Len(log[r]) \in Nat
    BY <1>1 DEF TypeOK
<1>3. \A t \in commit[r] .. Max({commit[r], Len(log[r])}) : t \in Nat
    BY <1>2, MaxOfTwo
<1>4. UNCHANGED <<log, dvc>> /\ Rest(p) \subseteq msgs
    BY DEF OnPrepareOk, Rest
<1>5. CASE msgs' = Rest(p) /\ UNCHANGED applied
    BY <1>1, <1>4, <1>5, NumberSameLog
<1>6. ASSUME NEW t \in commit[r] .. Max({commit[r], Len(log[r])}),
             ApplyThrough(r, log[r], t, view[r]),
             msgs' = Rest(p) \cup
                Broadcast(r, [type |-> "Commit", view |-> view[r], commit |-> t])
      PROVE  NumberInv'
    <2>1. \A n \in msgs' \ msgs : n.msg.type = "Commit"
        BY <1>4, <1>6, Sent
    <2>2. \A n \in msgs' \ msgs : NumberedMsg(n)'
        BY <2>1, PlainMsg
    <2> QED BY <1>1, <1>2, <1>3, <1>4, <1>6, <2>2, NumberSameLog
<1> QED BY <1>5, <1>6 DEF OnPrepareOk

LEMMA CommitNumbered ==
    ASSUME TypeOK, TypeOK', ViewInv, AppliedToCommit, NumberInv, NEW p \in msgs,
           ViewStep(p.dst), p.msg.type = "Commit", OnCommit(p)
    PROVE  NumberInv'
<1> DEFINE r == p.dst
           m == p.msg
           gap == [type |-> "GetState", view |-> m.view, after |-> Len(log[r]), replica |-> r]
<1>1. r \in Replicas /\ m.view \in Views /\ m.commit \in Nat
    BY DeliveredType
<1>2. Rest(p) \in SUBSET msgs
    BY DEF Rest
<1>3. UNCHANGED <<normal_view, dvc>>
    BY DEF OnCommit
<1>4. CASE IgnoreInView(r, m.view, Rest(p))
    BY <1>1, <1>2, <1>3, <1>4, NumberSameLog DEF IgnoreInView
<1>5. CASE SolicitState(r, m.view, Rest(p))
    BY <1>1, <1>2, <1>3, <1>5, SolicitNumbered
<1>6. CASE /\ m.view = view[r] /\ status[r] = "Normal" /\ log' = log
           /\ ApplyThrough(r, log[r], m.commit, m.view)
           /\ msgs' = Rest(p) \cup (IF m.commit > Len(log[r])
                                    THEN Send(r, PrimaryOf(m.view), gap) ELSE {})
    <2>1. normal_view'[r] >= m.view
        BY <1>1, <1>3, <1>6, ViewsOfReplica
    <2>2. ASSUME NEW n \in msgs' \ msgs PROVE NumberedMsg(n)'
        <3>1. n.msg = gap
            BY <1>2, <1>6, <2>2, Sent
        <3> QED BY <1>1, <2>1, <3>1, GetStateNumbered
    <2> QED BY <1>1, <1>3, <1>6, <2>2, NumberSameLog
<1> QED BY <1>4, <1>5, <1>6 DEF OnCommit

LEMMA GetStateAnswerNumbered ==
    ASSUME TypeOK, TypeOK', AppliedToCommit, NumberInv, NEW p \in msgs,
           ViewStep(p.dst), p.msg.type = "GetState", OnGetState(p)
    PROVE  NumberInv'
<1> DEFINE r == p.dst
           m == p.msg
           suffix == SubSeq(log[r], m.after + 1, Len(log[r]))
           reply == [type |-> "NewState", view |-> m.view, suffix |-> suffix,
                     commit |-> commit[r]]
<1>1. r \in Replicas /\ m.view \in Views /\ m.after \in Nat /\ m.replica \in Replicas
    BY DeliveredType
<1>2. UNCHANGED <<normal_view, dvc, log, applied>>
    BY DEF OnGetState
<1>3. log[r] \in Seq(Entry) /\ Numbered(log[r], 1)
    BY <1>1 DEF TypeOK, NumberInv
<1>4. Consecutive(suffix)
    BY <1>1, <1>3, SuffixConsecutive
<1>5. Numbered(suffix, 1) \/ normal_view'[m.replica] >= m.view
    <2>1. m.after = 0 \/ normal_view[m.replica] >= m.view
        BY DEF NumberInv, NumberedMsg
    <2>2. CASE m.after = 0
        <3>1. suffix = log[r]
            BY <1>3, <2>2
        <3> QED BY <1>3, <3>1
    <2> QED BY <1>2, <2>1, <2>2
<1> HIDE DEF suffix
<1>6. ASSUME NEW n \in msgs' \ msgs PROVE NumberedMsg(n)'
    <2>1. n \in Send(r, m.replica, reply)
        BY <1>6 DEF OnGetState, Rest, suffix
    <2>2. n.msg = reply /\ n.dst = m.replica
        BY <2>1, Sent
    <2> QED BY <1>4, <1>5, <2>2 DEF NumberedMsg
<1> QED BY <1>1, <1>2, <1>6, NumberSameLog

LEMMA NewStateNumbered ==
    ASSUME TypeOK, TypeOK', ViewInv, AppliedToCommit, NumberInv, NEW p \in msgs,
           ViewStep(p.dst), p.msg.type = "NewState", OnNewState(p)
    PROVE  NumberInv'
<1> DEFINE r == p.dst
           m == p.msg
           lg == IF status[r] = "Normal" THEN GapFill(log[r], m.suffix) ELSE m.suffix
<1>1. r \in Replicas /\ m.view \in Views /\ m.suffix \in Seq(Entry) /\ m.commit \in Nat
    BY DeliveredType
<1>2. dvc' = dvc /\ Rest(p) \subseteq msgs
    BY DEF OnNewState, Rest
<1>3. CASE msgs' = Rest(p) /\ UNCHANGED <<log, applied>>
    BY <1>1, <1>2, <1>3, NumberSameLog
<1>4. CASE /\ m.view = view[r] /\ log' = [log EXCEPT ![r] = lg]
           /\ ApplyThrough(r, lg, m.commit, m.view)
           /\ msgs' = Rest(p) \cup Send(r, PrimaryOf(m.view),
                         [type |-> "PrepareOk", view |-> m.view, op_number |-> Len(lg),
                          replica |-> r])
    <2>1. log[r] \in Seq(Entry) /\ Numbered(log[r], 1)
        BY <1>1 DEF TypeOK, NumberInv
    <2>2. /\ Consecutive(m.suffix)
          /\ Numbered(m.suffix, 1) \/ normal_view[r] >= m.view
        BY DEF NumberInv, NumberedMsg
    <2>3. lg \in Seq(Entry) /\ Numbered(lg, 1)
        <3>1. CASE status[r] = "Normal"
            BY <1>1, <2>1, <2>2, <3>1, GapFillNumbered, GapFillType
        <3>2. CASE status[r] # "Normal"
            <4>1. ~ (normal_view[r] >= m.view)
                BY <1>1, <1>4, <3>2, ViewsOfReplica
            <4> QED BY <1>1, <2>2, <3>2, <4>1
        <3> QED BY <3>1, <3>2
    <2> HIDE DEF lg
    <2>4. \A n \in msgs' \ msgs : n.msg.type = "PrepareOk"
        BY <1>2, <1>4, Sent
    <2>5. \A n \in msgs' \ msgs : NumberedMsg(n)'
        BY <2>4, PlainMsg
    <2> QED BY <1>1, <1>2, <1>4, <2>3, <2>5, NumberStep
<1> QED BY <1>3, <1>4 DEF OnNewState

\* The caller has put at most StartViewChange messages into net.
LEMMA PushedNumbered ==
    ASSUME TypeOK, TypeOK', AppliedToCommit, NumberInv, NEW r \in Replicas, ViewStep(r),
           NEW v \in Views, NEW d \in Dvc, Numbered(d.log, 1), NEW av, NEW st, NEW net,
           PushDvc(r, v, d, av, st, net),
           \A p \in net \ msgs : p.msg.type = "StartViewChange"
    PROVE  NumberInv'
<1> DEFINE ds == Append(dvc[r][v], d)
<1>1. dvc[r][v] \in Seq(Dvc) /\ dvc' = [dvc EXCEPT ![r][v] = ds]
    BY DEF PushDvc, TypeOK
<1>2. \A w \in Views : \/ dvc'[r][w] = dvc[r][w]
                       \/ \E x \in Dvc : Numbered(x.log, 1) /\ dvc'[r][w] = Append(dvc[r][w], x)
    BY <1>1 DEF TypeOK
<1>3. /\ ds \in Seq(Dvc)
      /\ \A i \in DOMAIN ds : Numbered(ds[i].log, 1)
    <2>1. /\ ds \in Seq(Dvc) /\ Len(ds) = Len(dvc[r][v]) + 1 /\ Len(dvc[r][v]) \in Nat
          /\ \A i \in 1..Len(dvc[r][v]) : ds[i] = dvc[r][v][i]
          /\ ds[Len(dvc[r][v]) + 1] = d
        BY <1>1, AppendProperties
    <2>2. \A i \in 1..Len(dvc[r][v]) : Numbered(dvc[r][v][i].log, 1)
        BY <1>1 DEF NumberInv
    <2> HIDE DEF ds
    <2>3. DOMAIN ds = 1..(Len(dvc[r][v]) + 1)
        BY <2>1
    <2>4. \A i \in DOMAIN ds : i \in 1..Len(dvc[r][v]) \/ i = Len(dvc[r][v]) + 1
        BY <2>1, <2>3
    <2> QED BY <2>1, <2>2, <2>4
<1> HIDE DEF ds
<1>4. \A p \in net \ msgs : NumberedMsg(p)'
    BY PlainMsg
<1>5. CASE FinishViewChange(r, v, ds, net)
    <2>1. PICK b \in DOMAIN ds, x \in DOMAIN ds :
              /\ log' = [log EXCEPT ![r] = ds[b].log]
              /\ ApplyThrough(r, ds[b].log, ds[x].commit, v)
              /\ msgs' = net \cup Broadcast(r, [type |-> "StartView", view |-> v,
                                                log |-> ds[b].log, commit |-> ds[x].commit])
        BY <1>5 DEF FinishViewChange
    <2>2. ds[b] \in Dvc /\ ds[x] \in Dvc
        BY <1>3
    <2>3. ds[b].log \in Seq(Entry) /\ ds[x].commit \in Nat /\ Numbered(ds[b].log, 1)
        BY <1>3, <2>2 DEF Dvc
    <2>4. ASSUME NEW p \in msgs' \ msgs PROVE NumberedMsg(p)'
        <3>1. CASE p \in net \ msgs
            BY <1>4, <3>1
        <3>2. CASE p.msg = [type |-> "StartView", view |-> v, log |-> ds[b].log,
                            commit |-> ds[x].commit]
            BY <2>3, <3>2 DEF NumberedMsg
        <3> QED BY <2>1, <2>4, <3>1, <3>2, Sent
    <2> QED BY <1>2, <2>1, <2>3, <2>4, NumberStep
<1>6. CASE msgs' = net /\ UNCHANGED <<log, applied>>
    <2>1. log[r] \in Seq(Entry) /\ Numbered(log[r], 1) /\ log' = [log EXCEPT ![r] = log[r]]
        BY <1>6 DEF TypeOK, NumberInv
    <2> QED BY <1>2, <1>4, <1>6, <2>1, NumberStep
<1> QED BY <1>5, <1>6 DEF PushDvc, ds

LEMMA SvcNumbered ==
    ASSUME TypeOK, TypeOK', AppliedToCommit, NumberInv, NEW r \in Replicas, ViewStep(r),
           NEW v \in Views, NEW st, NEW votes, NEW net, MaybeFinishSvc(r, v, st, votes, net),
           \A p \in net \ msgs : p.msg.type = "StartViewChange"
    PROVE  NumberInv'
<1> DEFINE mine == [log |-> log[r], commit |-> commit[r], normal_view |-> normal_view[r],
                    replica |-> r]
           msg == [type |-> "DoViewChange", view |-> v, dvc |-> mine]
<1>1. mine \in Dvc /\ Numbered(mine.log, 1)
    BY DEF Dvc, TypeOK, NumberInv
<1> HIDE DEF mine
<1>2. CASE PushDvc(r, v, mine, v, st, net)
    BY <1>1, <1>2, PushedNumbered
<1>3. CASE /\ msgs' \subseteq net \cup Send(r, PrimaryOf(v), msg)
           /\ UNCHANGED <<dvc, log, applied>>
    <2>1. ASSUME NEW p \in msgs' \ msgs PROVE NumberedMsg(p)'
        <3>1. CASE p \in net \ msgs
            BY <3>1, PlainMsg
        <3>2. CASE p.msg = msg
            BY <1>1, <3>2 DEF NumberedMsg
        <3> QED BY <1>3, <2>1, <3>1, <3>2, Sent
    <2> QED BY <1>3, <2>1, NumberSameLog
<1> QED BY <1>2, <1>3 DEF MaybeFinishSvc, mine

LEMMA StartViewNumbered ==
    ASSUME TypeOK, TypeOK', AppliedToCommit, NumberInv, NEW p \in msgs,
           ViewStep(p.dst), p.msg.type = "StartView", OnStartView(p)
    PROVE  NumberInv'
<1> DEFINE r == p.dst
           m == p.msg
<1>1. r \in Replicas /\ m.view \in Views /\ m.log \in Seq(Entry) /\ m.commit \in Nat
    BY DeliveredType
<1>2. dvc' = dvc /\ Rest(p) \subseteq msgs
    BY DEF OnStartView, Rest
<1>3. CASE msgs' = Rest(p) /\ UNCHANGED <<log, applied>>
    BY <1>1, <1>2, <1>3, NumberSameLog
<1>4. CASE /\ log' = [log EXCEPT ![r] = m.log]
           /\ ApplyThrough(r, m.log, m.commit, m.view)
           /\ msgs' = Rest(p) \cup Send(r, PrimaryOf(m.view),
                         [type |-> "PrepareOk", view |-> m.view, op_number |-> Len(m.log),
                          replica |-> r])
    <2>1. Numbered(m.log, 1)
        BY DEF NumberInv, NumberedMsg
    <2>2. \A n \in msgs' \ msgs : n.msg.type = "PrepareOk"
        BY <1>2, <1>4, Sent
    <2>3. \A n \in msgs' \ msgs : NumberedMsg(n)'
        BY <2>2, PlainMsg
    <2> QED BY <1>1, <1>2, <1>4, <2>1, <2>3, NumberStep
<1> QED BY <1>3, <1>4 DEF OnStartView

LEMMA ReceiveNumbered ==
    ASSUME TypeOK, TypeOK', ViewInv, AppliedToCommit, NumberInv, NEW p \in msgs, Receive(p)
    PROVE  NumberInv'
<1>1. p.dst \in Replicas /\ ViewStep(p.dst)
    BY ViewStepReceive
<1>2. Rest(p) \in SUBSET msgs
    BY DEF Rest
<1>3. CASE p.msg.type = "Request" /\ ReceiveRequest(p)
    BY <1>1, <1>2, <1>3, DeliveredType, RequestNumbered DEF ReceiveRequest
<1>4. CASE p.msg.type = "StartViewChange" /\ OnStartViewChange(p)
    <2>1. p.msg.view \in Views
        BY <1>4, DeliveredType
    <2>2. CASE msgs' = Rest(p) /\ UNCHANGED <<dvc, log, applied>>
        BY <1>1, <1>2, <2>2, NumberSameLog
    <2>3. CASE \E st, votes : MaybeFinishSvc(p.dst, p.msg.view, st, votes, Rest(p))
        BY <1>1, <1>2, <2>1, <2>3, SvcNumbered
    <2> QED BY <1>4, <2>2, <2>3 DEF OnStartViewChange
<1>5. CASE p.msg.type = "DoViewChange" /\ OnDoViewChange(p)
    <2>1. p.msg.view \in Views /\ p.msg.dvc \in Dvc
        BY <1>5, DeliveredType
    <2>2. Numbered(p.msg.dvc.log, 1)
        BY <1>5 DEF NumberInv, NumberedMsg
    <2>3. PushDvc(p.dst, p.msg.view, p.msg.dvc, view[p.dst], status[p.dst], Rest(p))
        BY <1>5 DEF OnDoViewChange
    <2> QED BY <1>1, <1>2, <2>1, <2>2, <2>3, PushedNumbered
<1> QED BY <1>1, <1>3, <1>4, <1>5, PrepareNumbered, PrepareOkNumbered, CommitNumbered,
           StartViewNumbered, GetStateAnswerNumbered, NewStateNumbered DEF Receive

LEMMA TickNumbered ==
    ASSUME TypeOK, TypeOK', ViewInv, AppliedToCommit, NumberInv, NEW r \in Replicas, Tick(r)
    PROVE  NumberInv'
<1>0. ViewStep(r)
    BY ViewStepTick
<1>1. CASE Heartbeat(r)
    <2>1. ASSUME NEW p \in msgs' \ msgs PROVE p.msg.type \in {"Commit", "Prepare"}
        <3> DEFINE cm == [type |-> "Commit", view |-> view[r], commit |-> commit[r]]
                   pm(k) == [type |-> "Prepare", view |-> view[r], entry |-> log[r][k],
                             commit |-> commit[r]]
                   ks == commit[r] + 1 .. Len(log[r])
        <3>1. p \in Broadcast(r, cm) \/ \E k \in ks : p \in Broadcast(r, pm(k))
            BY <1>1, <2>1 DEF Heartbeat
        <3>2. CASE p \in Broadcast(r, cm)
            BY <3>2, Sent
        <3>3. ASSUME NEW k \in ks, p \in Broadcast(r, pm(k))
              PROVE  p.msg.type = "Prepare"
            BY <3>3, Sent
        <3> QED BY <3>1, <3>2, <3>3
    <2>2. UNCHANGED <<log, dvc, applied>>
        BY <1>1 DEF Heartbeat, replica_vars
    <2>3. \A p \in msgs' \ msgs : NumberedMsg(p)'
        BY <2>1, PlainMsg
    <2> QED BY <1>0, <2>2, <2>3, NumberSameLog
<1>2. ASSUME NEW v \in Views, NEW st, NEW votes,
             MaybeFinishSvc(r, v, st, votes, msgs \cup Broadcast(r, SvcMessage(r, v)))
      PROVE  NumberInv'
    <2>1. \A p \in (msgs \cup Broadcast(r, SvcMessage(r, v))) \ msgs :
             p.msg.type = "StartViewChange"
        BY Sent DEF SvcMessage
    <2> QED BY <1>0, <1>2, <2>1, SvcNumbered
<1>3. CASE Timeout(r)
    <2> DEFINE v == Max({view[r], max_view_seen[r]}) + 1
    <2>1. v \in Nat /\ v <= MaxView
        BY <1>3, ViewsOfReplica, MaxOfTwo DEF Timeout
    <2>2. MaybeFinishSvc(r, v, "ViewChange", svc_votes[r] \cup {<<v, r>>},
                         msgs \cup Broadcast(r, SvcMessage(r, v)))
        BY <1>3 DEF Timeout
    <2> HIDE DEF v
    <2>3. v \in Views
        BY <2>1, BoundsAssumption DEF Views
    <2> QED BY <1>2, <2>2, <2>3
<1>4. CASE RetryViewChange(r)
    <2>1. view[r] \in Views
        BY DEF TypeOK
    <2>2. MaybeFinishSvc(r, view[r], "ViewChange", svc_votes[r] \cup {<<view[r], r>>},
                         msgs \cup Broadcast(r, SvcMessage(r, view[r])))
        BY <1>4 DEF RetryViewChange
    <2> QED BY <1>2, <2>1, <2>2
<1> QED BY <1>1, <1>3, <1>4 DEF Tick

\* Every log in a replica or a message is numbered without a gap, also what a
\* NewState carries to a replica that is behind.
THEOREM NumbersCorrect == Spec => []NumberInv
<1>1. Init => NumberInv
    <2> SUFFICES ASSUME Init PROVE NumberInv
        OBVIOUS
    <2>1. \A r \in Replicas : Len(log[r]) = 0 /\ Len(applied[r]) = 0
        BY DEF Init
    <2>2. \A r \in Replicas, v \in Views : DOMAIN dvc[r][v] = {}
        BY DEF Init
    <2>3. msgs = {}
        BY DEF Init
    <2> QED BY <2>1, <2>2, <2>3 DEF NumberInv, Numbered
<1>2. /\ TypeOK /\ TypeOK' /\ ViewInv /\ ReplyInv /\ NumberInv /\ [Next]_vars
      => NumberInv'
    <2> SUFFICES ASSUME TypeOK, TypeOK', ViewInv, ReplyInv, NumberInv, [Next]_vars
                 PROVE  NumberInv'
        OBVIOUS
    <2>1. AppliedToCommit
        BY DEF ReplyInv
    <2>2. ASSUME NEW c \in Clients, NEW q \in Reqs, NEW r \in Contacts[c], Submit(r, c, q)
          PROVE  NumberInv'
        <3>1. r \in Replicas
            BY <2>2, BoundsAssumption
        <3>2. msgs \in SUBSET msgs /\ OnRequest(r, c, q, msgs)
            BY <2>2 DEF Submit
        <3> QED BY <2>1, <2>2, <3>1, <3>2, ViewStepSubmit, RequestNumbered
    <2>3. ASSUME NEW r \in Timers, Tick(r)
          PROVE  NumberInv'
        <3>1. r \in Replicas
            BY <2>3, BoundsAssumption
        <3> QED BY <2>1, <2>3, <3>1, TickNumbered
    <2>4. CASE UNCHANGED vars
        BY <2>4 DEF vars, replica_vars, NumberInv, NumberedMsg
    <2> QED BY <2>1, <2>2, <2>3, <2>4, ReceiveNumbered DEF Next
<1> QED BY <1>1, <1>2, ViewsCorrect, RepliesCorrect, PTL DEF Spec

\* Logs, what has been applied, and the logs that travel in DoViewChange and
\* StartView messages are numbered 1, 2, 3... without a gap: apply_through hands
\* the state machine every operation at its own number, once.
THEOREM LogsNumbered == Spec => []NumberedLogs
<1>1. NumberInv => NumberedLogs
    BY DEF NumberInv, NumberedMsg, NumberedLogs
<1> QED BY <1>1, NumbersCorrect, PTL

----------------------------------------------------------------------------
(* No replica applies what another one did not, and what has been applied  *)
(* stays in the logs of a quorum, for every number of replicas and every   *)
(* bound, until a log is misinstalled.                                     *)
(*                                                                         *)
(* Every log in the system is the log of a view: a replica's of the last   *)
(* view it was Normal in, a DoViewChange's of its normal_view, a StartView *)
(* or NewState message's of its view.  Within one view there is one        *)
(* sequence of entries, the primary's; a later view begins with the best   *)
(* log of a quorum, which dvc of its primary still holds; so an entry a    *)
(* quorum acknowledged in view u is in the log of every later view.        *)

(* The invariant of the logs *)

Of(type) == {p \in msgs : p.msg.type = type}

\* The DoViewChanges, each with the view it is for: on their way, or kept.
Kept(r, v) == {<<v, dvc[r][v][i]>> : i \in DOMAIN dvc[r][v]}
Dvcs ==
         {<<p.msg.view, p.msg.dvc>> : p \in Of("DoViewChange")}
    \cup UNION {Kept(r, v) : r \in Replicas, v \in Views}

\* The logs, each with its view.  The suffix of a NewState is one if whoever it
\* is for does not have the log of that view yet.
Logs ==
         {<<normal_view[r], log[r]>> : r \in Replicas}
    \cup {<<x[2].normal_view, x[2].log>> : x \in Dvcs}
    \cup {<<p.msg.view, p.msg.log>> : p \in Of("StartView")}
    \cup {<<p.msg.view, p.msg.suffix>> :
            p \in {q \in Of("NewState") : normal_view[q.dst] < q.msg.view}}

\* The entries, each with the view of the log or message it is in.
EntriesOf(v, lg) == {<<v, lg[k]>> : k \in 1..Len(lg)}
InLogs == UNION {EntriesOf(x[1], x[2]) : x \in Logs}
Prepared == {<<p.msg.view, p.msg.entry>> : p \in Of("Prepare")}
Transferred == UNION {EntriesOf(p.msg.view, p.msg.suffix) : p \in Of("NewState")}
Known == InLogs \cup Prepared \cup Transferred

\* The acknowledgements: view, op number and who acknowledges.
Counted(r) == {<<view[r], a[1], a[2]>> : a \in prepare_ok[r]}
Leading == {r \in Replicas : PrimaryOf(view[r]) = r /\ status[r] = "Normal"}
AckSet ==
         {<<p.msg.view, p.msg.op_number, p.msg.replica>> : p \in Of("PrepareOk")}
    \cup UNION {Counted(r) : r \in Leading}

\* The commit numbers, each with the view of the message or log it came with.
CommitNumbers ==
         {<<p.msg.view, p.msg.commit>> :
            p \in Of("Prepare") \cup Of("Commit") \cup Of("StartView") \cup Of("NewState")}
    \cup {<<x[2].normal_view, x[2].commit>> : x \in Dvcs}

\* t goes on from s.
Ext(s, t) == Len(s) <= Len(t) /\ \A k \in 1..Len(s) : t[k] = s[k]

Has(lg, e) == e.op_number \in 1..Len(lg) /\ lg[e.op_number] = e

\* The log of the view's primary reaches k, as long as that is still its log.
PrimaryReaches(v, k) ==
    LET s == PrimaryOf(v)
    IN  normal_view[s] >= v /\ (normal_view[s] = v => k <= Len(log[s]))

\* A view has one entry per op number, and its primary has it.
OneEntry ==
    \A a, b \in Known : a[1] = b[1] /\ a[2].op_number = b[2].op_number => a[2] = b[2]
KnownToPrimary == \A a \in Known : PrimaryReaches(a[1], a[2].op_number)

\* lg goes on from the best log of the DoViewChanges of a quorum in ds.
Grown(ds, lg) ==
    \E D \in SUBSET DOMAIN ds : \E b \in D :
        /\ Cardinality({ds[j].replica : j \in D}) >= Quorum
        /\ \A j \in D : ~ Better(ds[j], ds[b])
        /\ Ext(ds[b].log, lg)

Elected == \A x \in Logs : x[1] > 0 => Grown(dvc[PrimaryOf(x[1])][x[1]], x[2])

\* A DoViewChange for view v was sent in view v, with the log of an earlier one.
SentInView ==
    \A x \in Dvcs : x[2].normal_view < x[1] /\ x[1] <= view[x[2].replica]

\* s has acknowledged k in view v: its log reached k, and so does the log in
\* every DoViewChange it sent afterwards, if that is still the log of v.
AckHolds(v, k, s) ==
    /\ normal_view[s] >= v
    /\ normal_view[s] = v => Len(log[s]) >= k
    /\ \A x \in Dvcs : x[2].replica = s /\ x[1] > v =>
          x[2].normal_view >= v /\ (x[2].normal_view = v => Len(x[2].log) >= k)
    /\ k > 0 => PrimaryReaches(v, k)

Acknowledged == \A a \in AckSet : AckHolds(a[1], a[2], a[3])

\* s has entry e since view u, and so has every DoViewChange it sent later.
Holds(s, u, e) ==
    /\ normal_view[s] >= u /\ Has(log[s], e)
    /\ \A x \in Dvcs : x[2].replica = s /\ x[1] > u =>
          x[2].normal_view >= u /\ Has(x[2].log, e)

\* Entry e, committed in view u, is in a quorum of logs, in every log of a later
\* view, and has no rival in view u.
Locked(u, e) ==
    /\ \E Q \in SUBSET Replicas : Cardinality(Q) >= Quorum /\ \A s \in Q : Holds(s, u, e)
    /\ \A x \in Logs : x[1] > u => Has(x[2], e)
    /\ \A a \in Known : a[1] = u /\ a[2].op_number = e.op_number => a[2] = e
    /\ PrimaryReaches(u, e.op_number)
    /\ normal_view[PrimaryOf(u)] = u => Has(log[PrimaryOf(u)], e)

\* Up to n, everything was committed in view v or before.
LockedUpTo(v, n) ==
    \A k \in 1..n : \E u \in 0..v, e \in Entry : e.op_number = k /\ Locked(u, e)

CommitsLocked == \A c \in CommitNumbers : LockedUpTo(c[1], c[2])

AppliedLocked ==
    \A r \in Replicas : \A k \in 1..commit[r] :
        \E u \in 0..normal_view[r] : Locked(u, applied[r][k])

\* A primary sends nothing of its own view to itself, nor asks itself.
NotToItself ==
    \A p \in msgs :
        /\ p.msg.type \in {"Prepare", "StartView", "NewState"} => p.dst # PrimaryOf(p.msg.view)
        /\ p.msg.type = "GetState" => p.msg.replica # PrimaryOf(p.msg.view)

SafetyInv ==
    /\ OneEntry /\ KnownToPrimary /\ Elected /\ SentInView /\ Acknowledged
    /\ CommitsLocked /\ AppliedLocked /\ NotToItself

SafeSoFar == ~ misinstalled => SafetyInv

----------------------------------------------------------------------------
(* Sequences and quorums *)

LEMMA ExtTransitive ==
    ASSUME NEW S, NEW s \in Seq(S), NEW t \in Seq(S), NEW u \in Seq(S), Ext(s, t), Ext(t, u)
    PROVE  Ext(s, u)
<1>1. Len(s) \in Nat /\ Len(t) \in Nat /\ Len(u) \in Nat
    OBVIOUS
<1>2. \A k \in 1..Len(s) : k \in 1..Len(t)
    BY <1>1 DEF Ext
<1> QED BY <1>1, <1>2 DEF Ext

LEMMA ExtReflexive ==
    ASSUME NEW S, NEW s \in Seq(S)
    PROVE  Ext(s, s)
BY DEF Ext

LEMMA ExtAppend ==
    ASSUME NEW S, NEW s \in Seq(S), NEW e \in S
    PROVE  Ext(s, Append(s, e))
<1>1. Len(s) \in Nat /\ Len(Append(s, e)) = Len(s) + 1
    BY AppendProperties
<1> QED BY <1>1, AppendProperties DEF Ext

LEMMA HasExt ==
    ASSUME NEW s \in Seq(Entry), NEW t \in Seq(Entry), NEW e, Has(s, e), Ext(s, t)
    PROVE  Has(t, e)
<1>1. Len(s) \in Nat /\ Len(t) \in Nat
    OBVIOUS
<1>2. e.op_number \in 1..Len(t)
    BY <1>1 DEF Has, Ext
<1> QED BY <1>2 DEF Has, Ext

\* IsPrefix, as the history variable uses it, is Ext.
LEMMA PrefixExt ==
    ASSUME NEW s \in Seq(Entry), NEW t \in Seq(Entry), IsPrefix(s, t)
    PROVE  Ext(s, t)
<1>1. Len(s) \in Nat /\ Len(t) \in Nat /\ Len(s) <= Len(t)
    BY DEF IsPrefix
<1>2. \A i \in 1..Len(s) : s[i] \in Entry /\ t[i] \in Entry
    BY <1>1
<1>3. \A i \in 1..(Len(s) - 1 + 1) : SubSeq(s, 1, Len(s))[i] = s[1 + i - 1]
    BY <1>1, <1>2, SubSeqProperties
<1>4. \A i \in 1..(Len(s) - 1 + 1) : SubSeq(t, 1, Len(s))[i] = t[1 + i - 1]
    BY <1>1, <1>2, SubSeqProperties
<1>5. SubSeq(s, 1, Len(s)) = SubSeq(t, 1, Len(s))
    BY DEF IsPrefix
<1>6. ASSUME NEW k \in 1..Len(s) PROVE t[k] = s[k]
    <2>1. k \in 1..(Len(s) - 1 + 1) /\ 1 + k - 1 = k
        BY <1>1
    <2> QED BY <1>3, <1>4, <1>5, <2>1
<1> QED BY <1>1, <1>6 DEF Ext

LEMMA ReplicasFinite == IsFiniteSet(Replicas) /\ Cardinality(Replicas) = N
<1>1. N \in Nat /\ N > 0
    BY NAssumption
<1>2. 0 \in Int /\ N - 1 \in Int /\ ~ (0 > N - 1) /\ N - 1 - 0 + 1 = N
    BY <1>1
<1> QED BY <1>2, FS_Interval DEF Replicas

\* Two quorums of replicas have a member in common.
LEMMA QuorumsMeet ==
    ASSUME NEW A \in SUBSET Replicas, NEW B \in SUBSET Replicas,
           Cardinality(A) >= Quorum, Cardinality(B) >= Quorum
    PROVE  \E s \in Replicas : s \in A /\ s \in B
<1>1. N \in Nat
    BY NAssumption
<1>2. Quorum \in Nat /\ Quorum + Quorum > N
    BY <1>1 DEF Quorum
<1>3. IsFiniteSet(A) /\ IsFiniteSet(B)
    BY ReplicasFinite, FS_Subset
<1>4. Cardinality(A) \in Nat /\ Cardinality(B) \in Nat
    BY <1>3, FS_CardinalityType
<1>5. Cardinality(A) + Cardinality(B) > Cardinality(Replicas)
    BY <1>1, <1>2, <1>4, ReplicasFinite
<1>6. A \cap B # {}
    BY <1>5, ReplicasFinite, FS_MajoritiesIntersect
<1> QED BY <1>6

\* A quorum is not empty, and more than a quorum is one.
LEMMA QuorumFacts ==
    ASSUME NEW A \in SUBSET Replicas, NEW B \in SUBSET A, Cardinality(B) >= Quorum
    PROVE  Cardinality(A) >= Quorum /\ \E s \in Replicas : s \in B
<1>1. Quorum \in Nat /\ Quorum > 0
    BY NAssumption DEF Quorum
<1>2. IsFiniteSet(A) /\ IsFiniteSet(B) /\ Cardinality(B) <= Cardinality(A)
    BY ReplicasFinite, FS_Subset
<1>3. Cardinality(A) \in Nat /\ Cardinality(B) \in Nat
    BY <1>2, FS_CardinalityType
<1>4. \E s \in Replicas : s \in B
    BY QuorumsMeet
<1> QED BY <1>1, <1>2, <1>3, <1>4

----------------------------------------------------------------------------
(* What is in the sets *)

LEMMA DvcsMember ==
    /\ \A p \in Of("DoViewChange") : <<p.msg.view, p.msg.dvc>> \in Dvcs
    /\ \A r \in Replicas, v \in Views : \A i \in DOMAIN dvc[r][v] : <<v, dvc[r][v][i]>> \in Dvcs
<1>1. ASSUME NEW r \in Replicas, NEW v \in Views, NEW i \in DOMAIN dvc[r][v]
      PROVE  <<v, dvc[r][v][i]>> \in Dvcs
    <2>1. <<v, dvc[r][v][i]>> \in Kept(r, v)
        BY DEF Kept
    <2> QED BY <2>1 DEF Dvcs
<1>2. \A p \in Of("DoViewChange") : <<p.msg.view, p.msg.dvc>> \in Dvcs
    BY DEF Dvcs
<1> QED BY <1>1, <1>2

LEMMA DvcsFrom ==
    ASSUME NEW x \in Dvcs
    PROVE  \/ \E p \in Of("DoViewChange") : x = <<p.msg.view, p.msg.dvc>>
           \/ \E r \in Replicas, v \in Views : \E i \in DOMAIN dvc[r][v] :
                 x = <<v, dvc[r][v][i]>>
<1>1. \/ \E p \in Of("DoViewChange") : x = <<p.msg.view, p.msg.dvc>>
      \/ \E r \in Replicas, v \in Views : x \in Kept(r, v)
    BY DEF Dvcs
<1>2. ASSUME NEW r \in Replicas, NEW v \in Views, x \in Kept(r, v)
      PROVE  \E i \in DOMAIN dvc[r][v] : x = <<v, dvc[r][v][i]>>
    BY <1>2 DEF Kept
<1> QED BY <1>1, <1>2

LEMMA DvcsType ==
    ASSUME TypeOK, NEW x \in Dvcs
    PROVE  /\ x = <<x[1], x[2]>> /\ x[1] \in Views /\ x[1] \in Nat /\ x[2] \in Dvc
           /\ x[2].log \in Seq(Entry) /\ x[2].commit \in Nat
           /\ x[2].normal_view \in Views /\ x[2].normal_view \in Nat
           /\ x[2].replica \in Replicas
<1>1. /\ x = <<x[1], x[2]>> /\ x[1] \in Views /\ x[2] \in Dvc
    <2>1. CASE \E p \in Of("DoViewChange") : x = <<p.msg.view, p.msg.dvc>>
        BY <2>1, DeliveredType DEF Of
    <2>2. CASE \E r \in Replicas, v \in Views : \E i \in DOMAIN dvc[r][v] :
                   x = <<v, dvc[r][v][i]>>
        BY <2>2 DEF TypeOK
    <2> QED BY <2>1, <2>2, DvcsFrom
<1> QED BY <1>1, ViewsAreNaturals DEF Dvc

LEMMA LogsMember ==
    /\ \A r \in Replicas : <<normal_view[r], log[r]>> \in Logs
    /\ \A x \in Dvcs : <<x[2].normal_view, x[2].log>> \in Logs
    /\ \A p \in Of("StartView") : <<p.msg.view, p.msg.log>> \in Logs
    /\ \A p \in Of("NewState") :
          normal_view[p.dst] < p.msg.view => <<p.msg.view, p.msg.suffix>> \in Logs
BY DEF Logs

\* Every log is numbered.
LEMMA LogsType ==
    ASSUME TypeOK, NumberInv, NEW x \in Logs
    PROVE  /\ x = <<x[1], x[2]>> /\ x[1] \in Views /\ x[1] \in Nat
           /\ x[2] \in Seq(Entry) /\ Numbered(x[2], 1)
<1> SUFFICES x = <<x[1], x[2]>> /\ x[1] \in Views /\ x[2] \in Seq(Entry) /\ Numbered(x[2], 1)
    BY ViewsAreNaturals
<1>1. CASE \E r \in Replicas : x = <<normal_view[r], log[r]>>
    BY <1>1 DEF TypeOK, NumberInv
<1>2. ASSUME NEW y \in Dvcs, x = <<y[2].normal_view, y[2].log>>
      PROVE  x = <<x[1], x[2]>> /\ x[1] \in Views /\ x[2] \in Seq(Entry) /\ Numbered(x[2], 1)
    <2>1. y[2].log \in Seq(Entry) /\ y[2].normal_view \in Views
        BY DvcsType
    <2>2. Numbered(y[2].log, 1)
        <3>1. CASE \E p \in Of("DoViewChange") : y = <<p.msg.view, p.msg.dvc>>
            BY <3>1 DEF Of, NumberInv, NumberedMsg
        <3>2. CASE \E r \in Replicas, v \in Views : \E i \in DOMAIN dvc[r][v] :
                       y = <<v, dvc[r][v][i]>>
            BY <3>2 DEF NumberInv
        <3> QED BY <3>1, <3>2, DvcsFrom
    <2> QED BY <1>2, <2>1, <2>2
<1>3. CASE \E p \in Of("StartView") : x = <<p.msg.view, p.msg.log>>
    BY <1>3, DeliveredType DEF Of, NumberInv, NumberedMsg
<1>4. ASSUME NEW p \in Of("NewState"), normal_view[p.dst] < p.msg.view,
             x = <<p.msg.view, p.msg.suffix>>
      PROVE  x = <<x[1], x[2]>> /\ x[1] \in Views /\ x[2] \in Seq(Entry) /\ Numbered(x[2], 1)
    <2>1. p \in msgs /\ p.msg.type = "NewState"
        BY DEF Of
    <2>2. p.dst \in Replicas /\ p.msg.view \in Views /\ p.msg.suffix \in Seq(Entry)
        BY <2>1, DeliveredType
    <2>3. normal_view[p.dst] \in Nat /\ p.msg.view \in Nat
        BY <2>2, ViewsAreNaturals DEF TypeOK
    <2>4. Numbered(p.msg.suffix, 1) \/ normal_view[p.dst] >= p.msg.view
        BY <2>1 DEF NumberInv, NumberedMsg
    <2>5. Numbered(p.msg.suffix, 1)
        BY <1>4, <2>3, <2>4
    <2> QED BY <1>4, <2>2, <2>5
<1> QED BY <1>1, <1>2, <1>3, <1>4 DEF Logs

LEMMA KnownMember ==
    /\ \A x \in Logs : \A k \in 1..Len(x[2]) : <<x[1], x[2][k]>> \in Known
    /\ \A p \in Of("Prepare") : <<p.msg.view, p.msg.entry>> \in Known
    /\ \A p \in Of("NewState") : \A k \in 1..Len(p.msg.suffix) :
          <<p.msg.view, p.msg.suffix[k]>> \in Known
<1>1. ASSUME NEW x \in Logs, NEW k \in 1..Len(x[2])
      PROVE  <<x[1], x[2][k]>> \in Known
    <2>1. <<x[1], x[2][k]>> \in EntriesOf(x[1], x[2])
        BY DEF EntriesOf
    <2>2. <<x[1], x[2][k]>> \in InLogs
        BY <2>1 DEF InLogs
    <2> QED BY <2>2 DEF Known
<1>2. ASSUME NEW p \in Of("NewState"), NEW k \in 1..Len(p.msg.suffix)
      PROVE  <<p.msg.view, p.msg.suffix[k]>> \in Known
    <2>1. <<p.msg.view, p.msg.suffix[k]>> \in EntriesOf(p.msg.view, p.msg.suffix)
        BY DEF EntriesOf
    <2>2. <<p.msg.view, p.msg.suffix[k]>> \in Transferred
        BY <2>1 DEF Transferred
    <2> QED BY <2>2 DEF Known
<1>3. \A p \in Of("Prepare") : <<p.msg.view, p.msg.entry>> \in Prepared
    BY DEF Prepared
<1>4. \A p \in Of("Prepare") : <<p.msg.view, p.msg.entry>> \in Known
    BY <1>3 DEF Known
<1> QED BY <1>1, <1>2, <1>4

\* What an entry is known from.
LEMMA KnownFrom ==
    ASSUME NEW a \in Known
    PROVE  \/ \E x \in Logs : \E k \in 1..Len(x[2]) : a = <<x[1], x[2][k]>>
           \/ \E p \in Of("Prepare") : a = <<p.msg.view, p.msg.entry>>
           \/ \E p \in Of("NewState") : \E k \in 1..Len(p.msg.suffix) :
                 a = <<p.msg.view, p.msg.suffix[k]>>
<1>1. /\ a \in InLogs => \E x \in Logs : a \in EntriesOf(x[1], x[2])
      /\ a \in Prepared => \E p \in Of("Prepare") : a = <<p.msg.view, p.msg.entry>>
      /\ a \in Transferred =>
            \E p \in Of("NewState") : a \in EntriesOf(p.msg.view, p.msg.suffix)
    BY DEF InLogs, Prepared, Transferred
<1>2. ASSUME NEW v, NEW lg, a \in EntriesOf(v, lg)
      PROVE  \E k \in 1..Len(lg) : a = <<v, lg[k]>>
    BY <1>2 DEF EntriesOf
<1> QED BY <1>1, <1>2 DEF Known

LEMMA KnownType ==
    ASSUME TypeOK, NumberInv, NEW a \in Known
    PROVE  /\ a = <<a[1], a[2]>> /\ a[1] \in Views /\ a[1] \in Nat
           /\ a[2] \in Entry /\ a[2].op_number \in Nat
<1> SUFFICES a = <<a[1], a[2]>> /\ a[1] \in Views /\ a[2] \in Entry
    BY ViewsAreNaturals DEF Entry
<1>1. ASSUME NEW x \in Logs, NEW k \in 1..Len(x[2]), a = <<x[1], x[2][k]>>
      PROVE  a = <<a[1], a[2]>> /\ a[1] \in Views /\ a[2] \in Entry
    BY <1>1, LogsType
<1>2. CASE \E p \in Of("Prepare") : a = <<p.msg.view, p.msg.entry>>
    BY <1>2, DeliveredType DEF Of
<1>3. ASSUME NEW p \in Of("NewState"), NEW k \in 1..Len(p.msg.suffix),
             a = <<p.msg.view, p.msg.suffix[k]>>
      PROVE  a = <<a[1], a[2]>> /\ a[1] \in Views /\ a[2] \in Entry
    BY <1>3, DeliveredType DEF Of
<1> QED BY <1>1, <1>2, <1>3, KnownFrom

\* An entry's number is its place in any log.
LEMMA PlaceIsNumber ==
    ASSUME NEW lg \in Seq(Entry), Numbered(lg, 1), NEW k \in 1..Len(lg)
    PROVE  lg[k] \in Entry /\ lg[k].op_number = k /\ k \in Nat
BY DEF Numbered

\* All of this, as state predicates, so that it can be used of the next state.
LogFrom(x) ==
    \/ \E r \in Replicas : x = <<normal_view[r], log[r]>>
    \/ \E y \in Dvcs : x = <<y[2].normal_view, y[2].log>>
    \/ \E p \in Of("StartView") : x = <<p.msg.view, p.msg.log>>
    \/ \E p \in Of("NewState") :
          normal_view[p.dst] < p.msg.view /\ x = <<p.msg.view, p.msg.suffix>>

SetsDefined ==
    /\ \A x \in Dvcs :
          \/ \E p \in Of("DoViewChange") : x = <<p.msg.view, p.msg.dvc>>
          \/ \E r \in Replicas, v \in Views : \E i \in DOMAIN dvc[r][v] :
                x = <<v, dvc[r][v][i]>>
    /\ \A r \in Replicas, v \in Views : \A i \in DOMAIN dvc[r][v] : <<v, dvc[r][v][i]>> \in Dvcs
    /\ \A x \in Logs : LogFrom(x)
    /\ \A r \in Replicas : <<normal_view[r], log[r]>> \in Logs
    /\ \A a \in Known :
          \/ \E x \in Logs : \E k \in 1..Len(x[2]) : a = <<x[1], x[2][k]>>
          \/ \E p \in Of("Prepare") : a = <<p.msg.view, p.msg.entry>>
          \/ \E p \in Of("NewState") : \E k \in 1..Len(p.msg.suffix) :
                a = <<p.msg.view, p.msg.suffix[k]>>
    /\ \A x \in Logs : \A k \in 1..Len(x[2]) : <<x[1], x[2][k]>> \in Known

DvcPair(x) ==
    /\ x = <<x[1], x[2]>> /\ x[1] \in Views /\ x[1] \in Nat /\ x[2] \in Dvc
    /\ x[2].log \in Seq(Entry) /\ x[2].commit \in Nat
    /\ x[2].normal_view \in Views /\ x[2].normal_view \in Nat
    /\ x[2].replica \in Replicas
LogPair(x) ==
    /\ x = <<x[1], x[2]>> /\ x[1] \in Views /\ x[1] \in Nat
    /\ x[2] \in Seq(Entry) /\ Numbered(x[2], 1)
EntryPair(a) ==
    /\ a = <<a[1], a[2]>> /\ a[1] \in Views /\ a[1] \in Nat
    /\ a[2] \in Entry /\ a[2].op_number \in Nat

SetsTyped ==
    /\ \A x \in Dvcs : DvcPair(x)
    /\ \A x \in Logs : LogPair(x)
    /\ \A a \in Known : EntryPair(a)

LEMMA SetsAreDefined == SetsDefined
<1>1. \A x \in Logs : LogFrom(x)
    BY DEF Logs, LogFrom
<1> QED BY <1>1, DvcsFrom, DvcsMember, LogsMember, KnownFrom, KnownMember DEF SetsDefined

LEMMA SetsAreDefinedNext == SetsDefined'
BY SetsAreDefined, PTL

LEMMA SetsAreTyped == TypeOK /\ NumberInv => SetsTyped
<1> SUFFICES ASSUME TypeOK, NumberInv PROVE SetsTyped
    OBVIOUS
<1>1. ASSUME NEW x \in Dvcs PROVE DvcPair(x)
    BY DvcsType DEF DvcPair
<1>2. ASSUME NEW x \in Logs PROVE LogPair(x)
    BY LogsType DEF LogPair
<1>3. ASSUME NEW a \in Known PROVE EntryPair(a)
    BY KnownType DEF EntryPair
<1> QED BY <1>1, <1>2, <1>3 DEF SetsTyped

LEMMA SetsAreTypedNext == TypeOK' /\ NumberInv' => SetsTyped'
BY SetsAreTyped, PTL

PacketsTyped ==
    \A p \in msgs :
        /\ p.dst \in Replicas
        /\ p.msg.type = "NewState" => p.msg.view \in Views
        /\ p.msg.type = "PrepareOk" =>
              p.msg.view \in Views /\ p.msg.op_number \in Nat /\ p.msg.replica \in Replicas
        /\ p.msg.type \in {"Prepare", "Commit", "StartView", "NewState"} =>
              p.msg.view \in Views /\ p.msg.commit \in Nat

LEMMA PacketsAreTyped == TypeOK => PacketsTyped
BY DeliveredType DEF PacketsTyped

LEMMA PacketsTypedNext == TypeOK' => PacketsTyped'
BY PacketsAreTyped, PTL

----------------------------------------------------------------------------
(* Steps *)

\* x is the DoViewChange replica r sends in this step.
Mine(r, x) ==
    /\ x[2].replica = r /\ x[2].log = log[r] /\ x[2].normal_view = normal_view[r]
    /\ x[2].commit = commit[r]
    /\ normal_view[r] < x[1] /\ x[1] <= view'[r]

\* a is an entry of the log with which r leads its view after this step.
Led(r, a) ==
    /\ PrimaryOf(a[1]) = r /\ a[1] = normal_view'[r]
    /\ \E k \in 1..Len(log'[r]) : a[2] = log'[r][k]

\* x is a log r starts a view with in this step.
Crowned(r, x) == PrimaryOf(x[1]) = r /\ Grown(dvc'[r][x[1]], x[2])

\* No replica's views fall, and within a view its log only grows.
Monotone ==
    \A s \in Replicas :
        /\ view[s] <= view'[s] /\ normal_view[s] <= normal_view'[s]
        /\ normal_view'[s] = normal_view[s] => Ext(log[s], log'[s])

\* What every step does, as long as no log is misinstalled.
SafeStep(r) ==
    /\ Monotone
    /\ \A s \in Replicas, v \in Views : Ext(dvc[s][v], dvc'[s][v])
    /\ \A x \in Dvcs' : x \in Dvcs \/ Mine(r, x)
    /\ \A x \in Logs' : (\E y \in Logs : y[1] = x[1] /\ Ext(y[2], x[2])) \/ Crowned(r, x)
    /\ \A a \in Known' : a \in Known \/ Led(r, a)

Typed == TypeOK /\ NumberInv /\ ViewInv

\* The part of the invariant that does not speak of commits.
StructureInv == OneEntry /\ KnownToPrimary /\ Elected /\ SentInView

\* The facts about numbers that the steps below use.
LEMMA ReplicaNumbers ==
    ASSUME Typed, Typed', NEW s \in Replicas
    PROVE  /\ normal_view[s] \in Nat /\ normal_view'[s] \in Nat
           /\ view[s] \in Nat /\ view'[s] \in Nat
           /\ log[s] \in Seq(Entry) /\ log'[s] \in Seq(Entry)
           /\ Len(log[s]) \in Nat /\ Len(log'[s]) \in Nat
           /\ Numbered(log[s], 1) /\ Numbered(log'[s], 1)
<1>1. /\ normal_view[s] \in Views /\ normal_view'[s] \in Views
      /\ view[s] \in Views /\ view'[s] \in Views
      /\ log[s] \in Seq(Entry) /\ log'[s] \in Seq(Entry)
    BY DEF Typed, TypeOK
<1>2. Numbered(log[s], 1) /\ Numbered(log'[s], 1)
    BY DEF Typed, NumberInv
<1>3. /\ normal_view[s] \in Nat /\ normal_view'[s] \in Nat
      /\ view[s] \in Nat /\ view'[s] \in Nat
    BY <1>1, ViewsAreNaturals
<1>4. ASSUME NEW S, NEW q \in Seq(S) PROVE Len(q) \in Nat
    OBVIOUS
<1>5. Len(log[s]) \in Nat /\ Len(log'[s]) \in Nat
    BY <1>1, <1>4
<1> QED BY <1>1, <1>2, <1>3, <1>5

LEMMA DvcTables ==
    ASSUME Typed, Typed', NEW s \in Replicas, NEW v \in Views
    PROVE  dvc[s][v] \in Seq(Dvc) /\ dvc'[s][v] \in Seq(Dvc)
<1>1. dvc \in [Replicas -> [Views -> Seq(Dvc)]]
    BY DEF Typed, TypeOK
<1>2. dvc' \in [Replicas -> [Views -> Seq(Dvc)]]
    BY DEF Typed, TypeOK
<1>3. dvc[s] \in [Views -> Seq(Dvc)] /\ dvc'[s] \in [Views -> Seq(Dvc)]
    BY <1>1, <1>2
<1> QED BY <1>3

LEMMA PrimaryReachesStays ==
    ASSUME Typed, Typed', Monotone, NEW v \in Nat, NEW k \in Nat, PrimaryReaches(v, k)
    PROVE  PrimaryReaches(v, k)'
<1> DEFINE s == PrimaryOf(v)
<1>1. s \in Replicas
    BY PrimaryIsReplica
<1>2. normal_view[s] >= v /\ (normal_view[s] = v => k <= Len(log[s]))
    BY DEF PrimaryReaches
<1>3. /\ normal_view[s] <= normal_view'[s]
      /\ normal_view'[s] = normal_view[s] => Len(log[s]) <= Len(log'[s])
    BY <1>1 DEF Monotone, Ext
<1>4. /\ normal_view[s] \in Nat /\ normal_view'[s] \in Nat
      /\ Len(log[s]) \in Nat /\ Len(log'[s]) \in Nat
    BY <1>1, ReplicaNumbers
<1>5. normal_view'[s] >= v /\ (normal_view'[s] = v => k <= Len(log'[s]))
    <2> HIDE DEF s
    <2> QED BY <1>2, <1>3, <1>4
<1> QED BY <1>5 DEF PrimaryReaches

LEMMA KnownToPrimaryStays ==
    ASSUME Typed, Typed', StructureInv, NEW r \in Replicas, SafeStep(r)
    PROVE  KnownToPrimary'
<1>1. ASSUME NEW a \in Known' PROVE PrimaryReaches(a[1], a[2].op_number)'
    <2>1. a[1] \in Nat /\ a[2].op_number \in Nat
        BY SetsAreTypedNext DEF Typed, SetsTyped, EntryPair
    <2>2. CASE a \in Known
        <3>1. PrimaryReaches(a[1], a[2].op_number)
            BY <2>2 DEF StructureInv, KnownToPrimary
        <3> QED BY <2>1, <3>1, PrimaryReachesStays DEF SafeStep
    <2>3. CASE Led(r, a)
        <3>1. PICK k \in 1..Len(log'[r]) : a[2] = log'[r][k]
            BY <2>3 DEF Led
        <3>2. a[2].op_number = k
            BY <3>1, ReplicaNumbers, PlaceIsNumber
        <3>3. normal_view'[r] \in Nat /\ Len(log'[r]) \in Nat
            BY ReplicaNumbers
        <3> QED BY <2>3, <3>2, <3>3 DEF Led, PrimaryReaches
    <2> QED BY <2>2, <2>3 DEF SafeStep
<1> QED BY <1>1 DEF KnownToPrimary

\* An entry of the view that r leads, known before, is in the log r leads with.
LEMMA LedAgrees ==
    ASSUME Typed, Typed', StructureInv, NEW r \in Replicas, SafeStep(r),
           NEW a, Led(r, a), NEW b \in Known, a[1] = b[1],
           a[2].op_number = b[2].op_number
    PROVE  a[2] = b[2]
<1> DEFINE v == b[1]
           k == b[2].op_number
<1>1. v \in Nat /\ k \in Nat /\ b = <<b[1], b[2]>> /\ b[2] \in Entry
    BY SetsAreTyped DEF Typed, SetsTyped, EntryPair
<1>2. PrimaryReaches(v, k)
    BY DEF StructureInv, KnownToPrimary
<1>3. PrimaryOf(v) = r /\ normal_view'[r] = v
    BY DEF Led
<1>4. normal_view[r] = v /\ k <= Len(log[r])
    BY <1>1, <1>2, <1>3, ReplicaNumbers DEF PrimaryReaches, SafeStep, Monotone
<1>5. PICK j \in 1..Len(log'[r]) : a[2] = log'[r][j]
    BY DEF Led
<1>6. j = k /\ k \in 1..Len(log'[r])
    BY <1>5, ReplicaNumbers, PlaceIsNumber
<1>7. k \in 1..Len(log[r])
    BY <1>1, <1>4, <1>6, ReplicaNumbers
<1>8. log'[r][k] = log[r][k]
    BY <1>3, <1>4, <1>7 DEF SafeStep, Monotone, Ext
<1>9. <<v, log[r][k]>> \in Known
    <2>1. <<normal_view[r], log[r]>> \in Logs
        BY SetsAreDefined DEF SetsDefined
    <2> QED BY <1>4, <1>7, <2>1, SetsAreDefined DEF SetsDefined
<1>10. log[r][k].op_number = k
    BY <1>7, ReplicaNumbers, PlaceIsNumber
<1>11. \A c \in Known : c[1] = v /\ c[2].op_number = k => c[2] = b[2]
    BY DEF StructureInv, OneEntry
<1> HIDE DEF v, k
<1>12. <<v, log[r][k]>>[1] = v /\ <<v, log[r][k]>>[2] = log[r][k]
    OBVIOUS
<1>13. log[r][k] = b[2]
    BY <1>9, <1>10, <1>11, <1>12
<1> QED BY <1>5, <1>6, <1>8, <1>13

LEMMA OneEntryStays ==
    ASSUME Typed, Typed', StructureInv, NEW r \in Replicas, SafeStep(r)
    PROVE  OneEntry'
<1>1. ASSUME NEW a \in Known', NEW b \in Known', a[1] = b[1],
             a[2].op_number = b[2].op_number
      PROVE  a[2] = b[2]
    <2>1. CASE a \in Known /\ b \in Known
        BY <1>1, <2>1 DEF StructureInv, OneEntry
    <2>2. CASE Led(r, a) /\ b \in Known
        BY <1>1, <2>2, LedAgrees
    <2>3. CASE a \in Known /\ Led(r, b)
        BY <1>1, <2>3, LedAgrees
    <2>4. CASE Led(r, a) /\ Led(r, b)
        <3>1. PICK j \in 1..Len(log'[r]) : a[2] = log'[r][j]
            BY <2>4 DEF Led
        <3>2. PICK k \in 1..Len(log'[r]) : b[2] = log'[r][k]
            BY <2>4 DEF Led
        <3>3. a[2].op_number = j /\ b[2].op_number = k
            BY <3>1, <3>2, ReplicaNumbers, PlaceIsNumber
        <3> QED BY <1>1, <3>1, <3>2, <3>3
    <2> QED BY <2>1, <2>2, <2>3, <2>4 DEF SafeStep
<1> QED BY <1>1 DEF OneEntry

\* A log grown from the kept DoViewChanges is still so when either goes on.
LEMMA GrownStays ==
    ASSUME NEW ds \in Seq(Dvc), NEW ds2 \in Seq(Dvc), Ext(ds, ds2),
           NEW lg \in Seq(Entry), NEW lg2 \in Seq(Entry), Ext(lg, lg2), Grown(ds, lg)
    PROVE  Grown(ds2, lg2)
<1>1a. PICK D \in SUBSET DOMAIN ds : \E b \in D :
         /\ Cardinality({ds[j].replica : j \in D}) >= Quorum
         /\ \A j \in D : ~ Better(ds[j], ds[b])
         /\ Ext(ds[b].log, lg)
    BY DEF Grown
<1>1. PICK b \in D :
         /\ Cardinality({ds[j].replica : j \in D}) >= Quorum
         /\ \A j \in D : ~ Better(ds[j], ds[b])
         /\ Ext(ds[b].log, lg)
    BY <1>1a
<1>2. Len(ds) \in Nat /\ Len(ds2) \in Nat /\ DOMAIN ds = 1..Len(ds) /\ DOMAIN ds2 = 1..Len(ds2)
    OBVIOUS
<1>3. \A j \in D : j \in DOMAIN ds2 /\ ds2[j] = ds[j]
    BY <1>2 DEF Ext
<1>4. {ds2[j].replica : j \in D} = {ds[j].replica : j \in D}
    BY <1>3
<1>5. ds[b] \in Dvc
    BY <1>2
<1>6. ds[b].log \in Seq(Entry)
    BY <1>5 DEF Dvc
<1>7. Ext(ds[b].log, lg2)
    BY <1>1, <1>6, ExtTransitive
<1>8. D \in SUBSET DOMAIN ds2
    BY <1>3
<1>9. \A j \in D : ~ Better(ds2[j], ds2[b])
    BY <1>1, <1>3
<1>10. Cardinality({ds2[j].replica : j \in D}) >= Quorum /\ Ext(ds2[b].log, lg2)
    BY <1>1, <1>3, <1>4, <1>7
<1> QED BY <1>8, <1>9, <1>10 DEF Grown

LEMMA ElectedStays ==
    ASSUME Typed, Typed', StructureInv, NEW r \in Replicas, SafeStep(r)
    PROVE  Elected'
<1>1. ASSUME NEW x \in Logs', x[1] > 0
      PROVE  Grown(dvc'[PrimaryOf(x[1])][x[1]], x[2])
    <2>1. x[1] \in Views /\ x[1] \in Nat /\ x[2] \in Seq(Entry)
        BY SetsAreTypedNext DEF Typed, SetsTyped, LogPair
    <2>2. CASE Crowned(r, x)
        BY <2>2 DEF Crowned
    <2>3. CASE \E y \in Logs : y[1] = x[1] /\ Ext(y[2], x[2])
        <3>1. PICK y \in Logs : y[1] = x[1] /\ Ext(y[2], x[2])
            BY <2>3
        <3>2. y[2] \in Seq(Entry)
            BY SetsAreTyped DEF Typed, SetsTyped, LogPair
        <3>3. PrimaryOf(x[1]) \in Replicas
            BY <2>1, PrimaryIsReplica
        <3>4. Grown(dvc[PrimaryOf(x[1])][x[1]], y[2])
            BY <1>1, <3>1 DEF StructureInv, Elected
        <3>5. /\ dvc[PrimaryOf(x[1])][x[1]] \in Seq(Dvc)
              /\ dvc'[PrimaryOf(x[1])][x[1]] \in Seq(Dvc)
            BY <2>1, <3>3, DvcTables
        <3>6. Ext(dvc[PrimaryOf(x[1])][x[1]], dvc'[PrimaryOf(x[1])][x[1]])
            BY <2>1, <3>3 DEF SafeStep
        <3> QED BY <2>1, <3>1, <3>2, <3>4, <3>5, <3>6, GrownStays
    <2> QED BY <2>2, <2>3 DEF SafeStep
<1> QED BY <1>1 DEF Elected

LEMMA SentInViewStays ==
    ASSUME Typed, Typed', StructureInv, NEW r \in Replicas, SafeStep(r)
    PROVE  SentInView'
<1>1. ASSUME NEW x \in Dvcs'
      PROVE  x[2].normal_view < x[1] /\ x[1] <= view'[x[2].replica]
    <2>1. CASE x \in Dvcs
        <3>1. x[2].normal_view < x[1] /\ x[1] <= view[x[2].replica]
            BY <2>1 DEF StructureInv, SentInView
        <3>2. x[2].replica \in Replicas /\ x[1] \in Nat
            BY <2>1, SetsAreTyped DEF Typed, SetsTyped, DvcPair
        <3>3. view[x[2].replica] <= view'[x[2].replica]
            BY <3>2 DEF SafeStep, Monotone
        <3>4. view[x[2].replica] \in Nat /\ view'[x[2].replica] \in Nat
            BY <3>2, ReplicaNumbers
        <3> QED BY <3>1, <3>2, <3>3, <3>4
    <2>2. CASE Mine(r, x)
        BY <2>2 DEF Mine
    <2> QED BY <2>1, <2>2 DEF SafeStep
<1> QED BY <1>1 DEF SentInView

\* An acknowledgement holds for good.
LEMMA AckHoldsStays ==
    ASSUME Typed, Typed', NEW r \in Replicas, SafeStep(r),
           NEW v \in Nat, NEW k \in Nat, NEW s \in Replicas, AckHolds(v, k, s)
    PROVE  AckHolds(v, k, s)'
<1>0. /\ normal_view[s] \in Nat /\ normal_view'[s] \in Nat
      /\ Len(log[s]) \in Nat /\ Len(log'[s]) \in Nat
    BY ReplicaNumbers
<1>1. /\ normal_view[s] <= normal_view'[s]
      /\ normal_view'[s] = normal_view[s] => Len(log[s]) <= Len(log'[s])
    BY DEF SafeStep, Monotone, Ext
<1>2. normal_view[s] >= v /\ (normal_view[s] = v => Len(log[s]) >= k)
    BY DEF AckHolds
<1>3. normal_view'[s] >= v /\ (normal_view'[s] = v => Len(log'[s]) >= k)
    BY <1>0, <1>1, <1>2
<1>4. ASSUME NEW x \in Dvcs', x[2].replica = s, x[1] > v
      PROVE  x[2].normal_view >= v /\ (x[2].normal_view = v => Len(x[2].log) >= k)
    <2>1. CASE x \in Dvcs
        BY <1>4, <2>1 DEF AckHolds
    <2>2. CASE Mine(r, x)
        BY <1>2, <1>4, <2>2 DEF Mine
    <2> QED BY <2>1, <2>2 DEF SafeStep
<1>5. k > 0 => PrimaryReaches(v, k)'
    BY PrimaryReachesStays DEF SafeStep, AckHolds
<1> QED BY <1>3, <1>4, <1>5 DEF AckHolds

\* So does a lock: the part about DoViewChanges ...
LEMMA DvcsStayLocked ==
    ASSUME NEW r \in Replicas, SafeStep(r), NEW s, NEW u, NEW e, Holds(s, u, e),
           NEW x \in Dvcs', x[2].replica = s, x[1] > u
    PROVE  x[2].normal_view >= u /\ Has(x[2].log, e)
<1>1. CASE x \in Dvcs
    BY <1>1 DEF Holds
<1>2. CASE Mine(r, x)
    BY <1>2 DEF Mine, Holds
<1> QED BY <1>1, <1>2 DEF SafeStep

\* ... about the log a view starts with ...
LEMMA BestLogLocked ==
    ASSUME Typed, Typed', NEW r \in Replicas, SafeStep(r), NEW u \in Nat, NEW e \in Entry,
           Locked(u, e), NEW x \in Logs', x[1] > u, Crowned(r, x)
    PROVE  Has(x[2], e)
<1> DEFINE v == x[1]
           ds == dvc'[r][v]
<1>1. x[1] \in Views /\ x[1] \in Nat /\ x[2] \in Seq(Entry)
    BY SetsAreTypedNext DEF Typed, SetsTyped, LogPair
<1>2. ds \in Seq(Dvc)
    BY <1>1, DvcTables
<1>3a. PICK D \in SUBSET DOMAIN ds : \E b \in D :
         /\ Cardinality({ds[j].replica : j \in D}) >= Quorum
         /\ \A j \in D : ~ Better(ds[j], ds[b])
         /\ Ext(ds[b].log, x[2])
    BY DEF Crowned, Grown
<1>3. PICK b \in D :
         /\ Cardinality({ds[j].replica : j \in D}) >= Quorum
         /\ \A j \in D : ~ Better(ds[j], ds[b])
         /\ Ext(ds[b].log, x[2])
    BY <1>3a
<1>4. PICK Q \in SUBSET Replicas : Cardinality(Q) >= Quorum /\ \A s \in Q : Holds(s, u, e)
    BY DEF Locked
<1>5. \A j \in D : <<v, ds[j]>> \in Dvcs'
    BY <1>1, SetsAreDefinedNext DEF SetsDefined
<1> HIDE DEF v, ds
<1>6. ASSUME NEW j \in D
      PROVE  /\ ds[j].log \in Seq(Entry) /\ Len(ds[j].log) \in Nat
             /\ ds[j].normal_view \in Nat /\ ds[j].replica \in Replicas
    <2>1. ds[j] \in Dvc
        BY <1>2
    <2>2. /\ ds[j].log \in Seq(Entry) /\ ds[j].normal_view \in Views
          /\ ds[j].replica \in Replicas
        BY <2>1 DEF Dvc
    <2>3. ASSUME NEW S, NEW q \in Seq(S) PROVE Len(q) \in Nat
        OBVIOUS
    <2> QED BY <2>2, <2>3, ViewsAreNaturals
<1>7. {ds[j].replica : j \in D} \in SUBSET Replicas
    BY <1>6
<1>8. PICK s \in Replicas : s \in {ds[j].replica : j \in D} /\ s \in Q
    BY <1>3, <1>4, <1>7, QuorumsMeet
<1>9. PICK j \in D : ds[j].replica = s
    BY <1>8
<1>10. ds[j].normal_view >= u /\ Has(ds[j].log, e)
    <2>1. <<v, ds[j]>>[1] = v /\ <<v, ds[j]>>[2] = ds[j]
        OBVIOUS
    <2>2. Holds(s, u, e) /\ v > u
        BY <1>4, <1>8 DEF v
    <2> QED BY <1>5, <1>9, <2>1, <2>2, DvcsStayLocked
<1>11. ~ Better(ds[j], ds[b])
    BY <1>3
<1>12. /\ ds[b].normal_view >= ds[j].normal_view
       /\ ds[b].normal_view = ds[j].normal_view => Len(ds[b].log) >= Len(ds[j].log)
    <2>1. /\ ds[b].normal_view \in Nat /\ ds[j].normal_view \in Nat
          /\ Len(ds[b].log) \in Nat /\ Len(ds[j].log) \in Nat
        BY <1>6
    <2> QED BY <1>11, <2>1 DEF Better
<1>13. <<ds[b].normal_view, ds[b].log>> \in Logs
    <2>1. <<v, ds[b]>>[1] = v /\ <<v, ds[b]>>[2] = ds[b]
        OBVIOUS
    <2>2. CASE <<v, ds[b]>> \in Dvcs
        BY <2>1, <2>2, LogsMember
    <2>3. CASE Mine(r, <<v, ds[b]>>)
        <3>1. ds[b].normal_view = normal_view[r] /\ ds[b].log = log[r]
            BY <2>1, <2>3 DEF Mine
        <3> QED BY <3>1, LogsMember
    <2> QED BY <1>5, <2>2, <2>3 DEF SafeStep
<1> DEFINE y == <<ds[b].normal_view, ds[b].log>>
<1>14. y[1] = ds[b].normal_view /\ y[2] = ds[b].log /\ y \in Logs
    BY <1>13
<1> HIDE DEF y
<1>15. Has(ds[b].log, e)
    <2>0. ds[b].normal_view \in Nat /\ ds[j].normal_view \in Nat
        BY <1>6
    <2>1. CASE ds[b].normal_view > u
        BY <1>14, <2>1 DEF Locked
    <2>2. CASE ds[b].normal_view = u
        <3>1. ds[j].normal_view = u
            BY <1>10, <1>12, <2>0, <2>2
        <3>2. Len(ds[j].log) <= Len(ds[b].log) /\ e.op_number \in 1..Len(ds[j].log)
            BY <1>10, <1>12, <2>2, <3>1 DEF Has
        <3>3. Len(ds[b].log) \in Nat /\ Len(ds[j].log) \in Nat
            BY <1>6
        <3>4. e.op_number \in 1..Len(ds[b].log)
            BY <3>2, <3>3
        <3>5. y[2] \in Seq(Entry) /\ Numbered(y[2], 1)
            BY <1>14, SetsAreTyped DEF Typed, SetsTyped, LogPair
        <3>6. y[2][e.op_number].op_number = e.op_number
            BY <1>14, <3>4, <3>5, PlaceIsNumber
        <3>7. <<y[1], y[2][e.op_number]>> \in Known
            BY <1>14, <3>4, KnownMember
        <3>8. \A a \in Known : a[1] = u /\ a[2].op_number = e.op_number => a[2] = e
            BY DEF Locked
        <3>9. y[2][e.op_number] = e
            BY <1>14, <2>2, <3>6, <3>7, <3>8
        <3> QED BY <1>14, <3>4, <3>9 DEF Has
    <2> QED BY <1>10, <1>12, <2>0, <2>1, <2>2
<1>16. ds[b].log \in Seq(Entry)
    BY <1>6
<1> QED BY <1>1, <1>3, <1>15, <1>16, HasExt

\* ... and every log, replica and entry.
LEMMA LockedStays ==
    ASSUME Typed, Typed', NEW r \in Replicas, SafeStep(r), NEW u \in Nat, NEW e \in Entry,
           Locked(u, e)
    PROVE  Locked(u, e)'
<1> DEFINE k == e.op_number
           P == PrimaryOf(u)
<1>0. k \in Nat /\ P \in Replicas
    BY PrimaryIsReplica DEF Entry
<1>1. ASSUME NEW x \in Logs', x[1] > u PROVE Has(x[2], e)
    <2>1. CASE Crowned(r, x)
        BY <1>1, <2>1, BestLogLocked
    <2>2. CASE \E y \in Logs : y[1] = x[1] /\ Ext(y[2], x[2])
        <3>1. PICK y \in Logs : y[1] = x[1] /\ Ext(y[2], x[2])
            BY <2>2
        <3>2. y[2] \in Seq(Entry)
            BY SetsAreTyped DEF Typed, SetsTyped, LogPair
        <3>3. x[2] \in Seq(Entry)
            BY SetsAreTypedNext DEF Typed, SetsTyped, LogPair
        <3>4. Has(y[2], e)
            BY <1>1, <3>1 DEF Locked
        <3> QED BY <3>1, <3>2, <3>3, <3>4, HasExt
    <2> QED BY <2>1, <2>2 DEF SafeStep
<1>2. ASSUME NEW s \in Replicas, Holds(s, u, e) PROVE Holds(s, u, e)'
    <2>1. normal_view[s] >= u /\ Has(log[s], e)
        BY <1>2 DEF Holds
    <2>2. normal_view[s] <= normal_view'[s]
        BY DEF SafeStep, Monotone
    <2>3. normal_view[s] \in Nat /\ normal_view'[s] \in Nat
        BY ReplicaNumbers
    <2>4. Has(log'[s], e)
        <3>1. CASE normal_view'[s] = normal_view[s]
            <4>1. Ext(log[s], log'[s])
                BY <3>1 DEF SafeStep, Monotone
            <4> QED BY <2>1, <4>1, ReplicaNumbers, HasExt
        <3>2. CASE normal_view'[s] # normal_view[s]
            <4>1. normal_view'[s] > u
                BY <2>1, <2>2, <2>3, <3>2
            <4>2. <<normal_view'[s], log'[s]>> \in Logs'
                BY SetsAreDefinedNext DEF SetsDefined
            <4> QED BY <1>1, <4>1, <4>2
        <3> QED BY <3>1, <3>2
    <2>5. normal_view'[s] >= u
        BY <2>1, <2>2, <2>3
    <2>6. \A x \in Dvcs' : x[2].replica = s /\ x[1] > u =>
             x[2].normal_view >= u /\ Has(x[2].log, e)
        BY <1>2, DvcsStayLocked
    <2> QED BY <2>4, <2>5, <2>6 DEF Holds
<1>3. (\E Q \in SUBSET Replicas :
         Cardinality(Q) >= Quorum /\ \A s \in Q : Holds(s, u, e)')
    <2>1. PICK Q \in SUBSET Replicas : Cardinality(Q) >= Quorum /\ \A s \in Q : Holds(s, u, e)
        BY DEF Locked
    <2> QED BY <1>2, <2>1
<1>4. PrimaryReaches(u, k)
    BY DEF Locked
<1>5. PrimaryReaches(u, k)'
    BY <1>0, <1>4, PrimaryReachesStays DEF SafeStep
<1> HIDE DEF P
<1>6. normal_view'[P] = u => normal_view[P] = u
    <2>1. normal_view[P] >= u
        BY <1>4 DEF PrimaryReaches, P
    <2>2. normal_view[P] <= normal_view'[P]
        BY <1>0 DEF SafeStep, Monotone
    <2> QED BY <1>0, <2>1, <2>2, ReplicaNumbers
<1>7. normal_view'[P] = u => Has(log'[P], e)
    <2> SUFFICES ASSUME normal_view'[P] = u PROVE Has(log'[P], e)
        OBVIOUS
    <2>1. Has(log[P], e)
        BY <1>6 DEF Locked, P
    <2>2. Ext(log[P], log'[P])
        BY <1>0, <1>6 DEF SafeStep, Monotone
    <2> QED BY <1>0, <2>1, <2>2, ReplicaNumbers, HasExt
<1>8. ASSUME NEW a \in Known', a[1] = u, a[2].op_number = k PROVE a[2] = e
    <2>1. CASE a \in Known
        BY <1>8, <2>1 DEF Locked
    <2>2. CASE Led(r, a)
        <3>1. r = P /\ normal_view'[P] = u
            BY <1>8, <2>2 DEF Led, P
        <3>2. PICK j \in 1..Len(log'[r]) : a[2] = log'[r][j]
            BY <2>2 DEF Led
        <3>3. a[2].op_number = j
            BY <3>2, ReplicaNumbers, PlaceIsNumber
        <3> QED BY <1>7, <1>8, <3>1, <3>2, <3>3 DEF Has
    <2> QED BY <2>1, <2>2 DEF SafeStep
<1> QED BY <1>1, <1>3, <1>5, <1>7, <1>8 DEF Locked, P

----------------------------------------------------------------------------
(* An entry a quorum acknowledged is locked *)

\* The later views by induction: the best log of a quorum that view w started
\* from is the log of view v or of a view between the two.
LEMMA NewLock ==
    ASSUME Typed, StructureInv, NEW v \in Nat, NEW k \in Nat, k > 0,
           NEW Q \in SUBSET Replicas, Cardinality(Q) >= Quorum, \A s \in Q : AckHolds(v, k, s),
           normal_view[PrimaryOf(v)] = v, k <= Len(log[PrimaryOf(v)])
    PROVE  Locked(v, log[PrimaryOf(v)][k])
<1> DEFINE P == PrimaryOf(v)
           e == log[P][k]
<1>1. P \in Replicas
    BY PrimaryIsReplica
<1>2. log[P] \in Seq(Entry) /\ Numbered(log[P], 1) /\ Len(log[P]) \in Nat
    <2>1. log[P] \in Seq(Entry) /\ Numbered(log[P], 1)
        BY <1>1 DEF Typed, TypeOK, NumberInv
    <2> QED BY <2>1
<1> HIDE DEF P
<1>3. k \in 1..Len(log[P])
    BY <1>2 DEF P
<1>4. e \in Entry /\ e.op_number = k
    BY <1>2, <1>3, PlaceIsNumber
<1>5. <<v, e>> \in Known
    <2>1. <<normal_view[P], log[P]>> \in Logs
        BY <1>1, LogsMember
    <2> QED BY <1>3, <2>1, KnownMember DEF P
<1> HIDE DEF e
<1>6. \A a \in Known : a[1] = v /\ a[2].op_number = k => a[2] = e
    BY <1>4, <1>5 DEF StructureInv, OneEntry
<1>7. ASSUME NEW x \in Logs, x[1] = v, Len(x[2]) >= k PROVE Has(x[2], e)
    <2>1. x[2] \in Seq(Entry) /\ Numbered(x[2], 1)
        BY SetsAreTyped DEF Typed, SetsTyped, LogPair
    <2>2. k \in 1..Len(x[2])
        BY <1>7, <2>1
    <2>3. x[2][k].op_number = k
        BY <2>1, <2>2, PlaceIsNumber
    <2>4. <<x[1], x[2][k]>> \in Known
        BY <2>2, KnownMember
    <2>5. x[2][k] = e
        BY <1>6, <1>7, <2>3, <2>4
    <2> QED BY <1>4, <2>2, <2>5 DEF Has
<1>8. ASSUME NEW x \in Logs, x[1] > v,
             \A y \in Logs : y[1] > v /\ y[1] < x[1] => Has(y[2], e)
      PROVE  Has(x[2], e)
    <2> DEFINE w == x[1]
               ds == dvc[PrimaryOf(w)][w]
    <2>1. x[1] \in Views /\ x[1] \in Nat /\ x[2] \in Seq(Entry)
        BY SetsAreTyped DEF Typed, SetsTyped, LogPair
    <2>2. PrimaryOf(w) \in Replicas
        BY <2>1, PrimaryIsReplica
    <2>3. ds \in Seq(Dvc)
        BY <2>1, <2>2 DEF Typed, TypeOK
    <2>4. Grown(ds, x[2])
        <3>1. x[1] > 0
            BY <1>8, <2>1
        <3> QED BY <3>1 DEF StructureInv, Elected
    <2>5. \A j \in DOMAIN ds : <<w, ds[j]>> \in Dvcs
        BY <2>1, <2>2, DvcsMember
    <2>6. w > v /\ w \in Nat
        BY <1>8, <2>1
    <2> HIDE DEF w, ds
    <2>7. PICK D \in SUBSET DOMAIN ds : \E b \in D :
             /\ Cardinality({ds[j].replica : j \in D}) >= Quorum
             /\ \A j \in D : ~ Better(ds[j], ds[b])
             /\ Ext(ds[b].log, x[2])
        BY <2>4 DEF Grown
    <2>8. PICK b \in D :
             /\ Cardinality({ds[j].replica : j \in D}) >= Quorum
             /\ \A j \in D : ~ Better(ds[j], ds[b])
             /\ Ext(ds[b].log, x[2])
        BY <2>7
    <2>9. ASSUME NEW j \in D
          PROVE  /\ ds[j].log \in Seq(Entry) /\ Len(ds[j].log) \in Nat
                 /\ ds[j].normal_view \in Nat /\ ds[j].replica \in Replicas
        <3>1. ds[j] \in Dvc
            BY <2>3
        <3>2. /\ ds[j].log \in Seq(Entry) /\ ds[j].normal_view \in Views
              /\ ds[j].replica \in Replicas
            BY <3>1 DEF Dvc
        <3>3. ASSUME NEW S, NEW q \in Seq(S) PROVE Len(q) \in Nat
            OBVIOUS
        <3> QED BY <3>2, <3>3, ViewsAreNaturals
    <2>10. {ds[j].replica : j \in D} \in SUBSET Replicas
        BY <2>9
    <2>11. PICK s \in Replicas : s \in {ds[j].replica : j \in D} /\ s \in Q
        BY <2>8, <2>10, QuorumsMeet
    <2>12. PICK j \in D : ds[j].replica = s
        BY <2>11
    <2>13. ds[j].normal_view >= v /\ (ds[j].normal_view = v => Len(ds[j].log) >= k)
        <3>1. <<w, ds[j]>>[1] = w /\ <<w, ds[j]>>[2] = ds[j] /\ <<w, ds[j]>> \in Dvcs
            BY <2>5
        <3>2. AckHolds(v, k, s)
            BY <2>11
        <3> QED BY <2>6, <2>12, <3>1, <3>2 DEF AckHolds
    <2>14. ds[b].normal_view < w
        <3>1. <<w, ds[b]>>[1] = w /\ <<w, ds[b]>>[2] = ds[b] /\ <<w, ds[b]>> \in Dvcs
            BY <2>5
        <3> QED BY <3>1 DEF StructureInv, SentInView
    <2>15. /\ ds[b].normal_view >= ds[j].normal_view
           /\ ds[b].normal_view = ds[j].normal_view => Len(ds[b].log) >= Len(ds[j].log)
        <3>1. ~ Better(ds[j], ds[b])
            BY <2>8
        <3>2. /\ ds[b].normal_view \in Nat /\ ds[j].normal_view \in Nat
              /\ Len(ds[b].log) \in Nat /\ Len(ds[j].log) \in Nat
            BY <2>9
        <3> QED BY <3>1, <3>2 DEF Better
    <2> DEFINE y == <<ds[b].normal_view, ds[b].log>>
    <2>16. y[1] = ds[b].normal_view /\ y[2] = ds[b].log /\ y \in Logs
        <3>1. <<w, ds[b]>>[2] = ds[b] /\ <<w, ds[b]>> \in Dvcs
            BY <2>5
        <3> QED BY <3>1, LogsMember
    <2> HIDE DEF y
    <2>17. Has(ds[b].log, e)
        <3>1. /\ ds[b].normal_view \in Nat /\ ds[j].normal_view \in Nat
              /\ Len(ds[b].log) \in Nat /\ Len(ds[j].log) \in Nat
            BY <2>9
        <3>2. CASE ds[b].normal_view > v
            BY <1>8, <2>14, <2>16, <3>2 DEF w
        <3>3. CASE ds[b].normal_view = v
            <4>1. Len(ds[b].log) >= k
                BY <2>13, <2>15, <3>1, <3>3
            <4> QED BY <1>7, <2>16, <3>3, <4>1
        <3> QED BY <2>13, <2>15, <3>1, <3>2, <3>3
    <2> QED BY <2>1, <2>8, <2>9, <2>17, HasExt
<1>9. ASSUME NEW x \in Logs, x[1] > v PROVE Has(x[2], e)
    <2> SUFFICES ASSUME ~ Has(x[2], e) PROVE FALSE
        OBVIOUS
    <2> DEFINE Lacking == {y \in Logs : y[1] > v /\ ~ Has(y[2], e)}
               W == {y[1] : y \in Lacking}
    <2>1. \A y \in Logs : y[1] \in Nat
        BY SetsAreTyped DEF Typed, SetsTyped, LogPair
    <2>2. W \subseteq Nat /\ W # {}
        BY <1>9, <2>1
    <2>3. PICK w \in W : \A i \in W : w <= i
        BY <2>2, LeastNatural
    <2>4. PICK y \in Lacking : y[1] = w
        BY <2>3
    <2>5. ASSUME NEW z \in Logs, z[1] > v, z[1] < y[1] PROVE Has(z[2], e)
        <3>1. z[1] \in W => w <= z[1]
            BY <2>3
        <3> QED BY <2>1, <2>4, <2>5, <3>1
    <2> QED BY <1>8, <2>4, <2>5
<1>10. ASSUME NEW s \in Q PROVE Holds(s, v, e)
    <2>1. AckHolds(v, k, s) /\ s \in Replicas
        OBVIOUS
    <2>2. normal_view[s] \in Nat
        BY <2>1, ViewsAreNaturals DEF Typed, TypeOK
    <2> DEFINE y == <<normal_view[s], log[s]>>
    <2>3. y[1] = normal_view[s] /\ y[2] = log[s] /\ y \in Logs
        BY <2>1, LogsMember
    <2> HIDE DEF y
    <2>4. normal_view[s] >= v /\ Has(log[s], e)
        <3>1. normal_view[s] >= v /\ (normal_view[s] = v => Len(log[s]) >= k)
            BY <2>1 DEF AckHolds
        <3>2. CASE normal_view[s] = v
            BY <1>7, <2>3, <3>1, <3>2
        <3>3. CASE normal_view[s] > v
            BY <1>9, <2>3, <3>1, <3>3
        <3> QED BY <2>2, <3>1, <3>2, <3>3
    <2>5. ASSUME NEW x \in Dvcs, x[2].replica = s, x[1] > v
          PROVE  x[2].normal_view >= v /\ Has(x[2].log, e)
        <3>1. x[2].normal_view >= v /\ (x[2].normal_view = v => Len(x[2].log) >= k)
            BY <2>1, <2>5 DEF AckHolds
        <3> DEFINE z == <<x[2].normal_view, x[2].log>>
        <3>2. z[1] = x[2].normal_view /\ z[2] = x[2].log /\ z \in Logs
            BY LogsMember
        <3>3. x[2].normal_view \in Nat
            BY SetsAreTyped DEF Typed, SetsTyped, DvcPair
        <3> HIDE DEF z
        <3>4. CASE x[2].normal_view = v
            BY <1>7, <3>1, <3>2, <3>4
        <3>5. CASE x[2].normal_view > v
            BY <1>9, <3>1, <3>2, <3>5
        <3> QED BY <3>1, <3>3, <3>4, <3>5
    <2> QED BY <2>4, <2>5 DEF Holds
<1>11. PrimaryReaches(v, e.op_number)
    BY <1>4, <1>2 DEF PrimaryReaches, P
<1>12. Has(log[P], e)
    BY <1>3, <1>4 DEF Has, e
<1>13. e = log[PrimaryOf(v)][k]
    BY DEF e, P
<1>14. Locked(v, e)
    BY <1>4, <1>6, <1>9, <1>10, <1>11, <1>12 DEF Locked, P
<1> QED BY <1>13, <1>14

LEMMA LockedUpToLess ==
    ASSUME NEW v \in Nat, NEW n \in Nat, LockedUpTo(v, n), NEW w \in Nat, v <= w,
           NEW m \in Nat, m <= n
    PROVE  LockedUpTo(w, m)
<1>1. \A k \in 1..m : k \in 1..n
    OBVIOUS
<1>2. \A u \in 0..v : u \in 0..w
    OBVIOUS
<1> QED BY <1>1, <1>2 DEF LockedUpTo

\* What a replica has committed is locked.
LEMMA OwnCommitLocked ==
    ASSUME Typed, AppliedLocked, AppliedToCommit, NEW r \in Replicas
    PROVE  LockedUpTo(normal_view[r], commit[r])
<1>1. ASSUME NEW k \in 1..commit[r]
      PROVE  \E u \in 0..normal_view[r], e \in Entry : e.op_number = k /\ Locked(u, e)
    <2>1. PICK u \in 0..normal_view[r] : Locked(u, applied[r][k])
        BY DEF AppliedLocked
    <2>2. applied[r] \in Seq(Entry) /\ Numbered(applied[r], 1) /\ Len(applied[r]) = commit[r]
        BY DEF Typed, TypeOK, NumberInv, AppliedToCommit
    <2>3. applied[r][k] \in Entry /\ applied[r][k].op_number = k
        BY <2>2, PlaceIsNumber
    <2> QED BY <2>1, <2>3
<1> QED BY <1>1 DEF LockedUpTo

----------------------------------------------------------------------------
(* A step of the protocol *)

\* A packet that replica r sends in this step says what r may say.
Polite(r, p) ==
    LET m == p.msg
    IN  /\ m.type = "DoViewChange" => Mine(r, <<m.view, m.dvc>>)
        /\ m.type \in {"Prepare", "StartView"} =>
              PrimaryOf(m.view) = r /\ m.view = normal_view'[r] /\ p.dst # r
        /\ m.type = "Prepare" => \E k \in 1..Len(log'[r]) : m.entry = log'[r][k]
        /\ m.type = "StartView" => m.log = log'[r]
        /\ m.type = "NewState" =>
              /\ m.view = normal_view[r] /\ p.dst # PrimaryOf(m.view)
              /\ normal_view[p.dst] < m.view => m.suffix = log[r]
              /\ \A k \in 1..Len(m.suffix) : \E i \in 1..Len(log[r]) : m.suffix[k] = log[r][i]
        /\ m.type = "GetState" => m.replica = r /\ r # PrimaryOf(m.view)
        /\ m.type = "PrepareOk" =>
              /\ m.replica = r /\ m.view = normal_view'[r] /\ m.view = view'[r]
              /\ m.op_number <= Len(log'[r])
        /\ m.type \in {"Prepare", "Commit", "StartView", "NewState"} =>
              LockedUpTo(m.view, m.commit)

\* The log r has afterwards is the log of its view.
LogStep(r) ==
    LET v == normal_view'[r]
    IN  /\ \A s \in Replicas \ {r} : log'[s] = log[s]
        /\ v = normal_view[r] => Ext(log[r], log'[r])
        /\ (\E y \in Logs : y[1] = v /\ Ext(y[2], log'[r])) \/ Crowned(r, <<v, log'[r]>>)
        /\ (\A k \in 1..Len(log'[r]) : <<v, log'[r][k]>> \in Known) \/ PrimaryOf(v) = r

\* r keeps at most one more DoViewChange, one it was sent or its own.
Keeps(r, v, d) ==
    /\ dvc'[r][v] = Append(dvc[r][v], d)
    /\ <<v, d>> \in Dvcs \/ Mine(r, <<v, d>>)
DvcStep(r) ==
    \A v \in Views : dvc'[r][v] = dvc[r][v] \/ \E d \in Dvc : Keeps(r, v, d)

\* What r counts as acknowledged in the view it leads.
AckStep(r) ==
    /\ \A s \in Replicas \ {r} : prepare_ok'[s] = prepare_ok[s]
    /\ PrimaryOf(view'[r]) = r /\ status'[r] = "Normal" =>
          \A a \in prepare_ok'[r] :
              \/ <<view'[r], a[1], a[2]>> \in AckSet
              \/ a[2] = r /\ a[1] <= Len(log'[r])

\* r applies its log no further than what is locked.
ApplyStep(r) ==
    \/ UNCHANGED <<commit, applied>>
    \/ \E target \in Nat, v \in Views :
          /\ ApplyThrough(r, log'[r], target, v)
          /\ LockedUpTo(normal_view'[r], target)

GoodStep(r) ==
    /\ ViewStep(r) /\ LogStep(r) /\ DvcStep(r) /\ AckStep(r) /\ ApplyStep(r)
    /\ \A p \in msgs' \ msgs : Polite(r, p)

LEMMA DvcsOfStep ==
    ASSUME Typed, Typed', NEW r \in Replicas, GoodStep(r), NEW x \in Dvcs'
    PROVE  x \in Dvcs \/ Mine(r, x)
<1>1. ASSUME NEW p \in Of("DoViewChange")', x = <<p.msg.view, p.msg.dvc>>
      PROVE  x \in Dvcs \/ Mine(r, x)
    <2>1. p \in msgs' /\ p.msg.type = "DoViewChange"
        BY DEF Of
    <2>2. CASE p \in msgs
        <3>1. p \in Of("DoViewChange")
            BY <2>1, <2>2 DEF Of
        <3> QED BY <1>1, <3>1, DvcsMember
    <2>3. CASE p \notin msgs
        BY <1>1, <2>1, <2>3 DEF GoodStep, Polite
    <2> QED BY <2>2, <2>3
<1>2. ASSUME NEW s \in Replicas, NEW v \in Views, NEW i \in DOMAIN dvc'[s][v],
             x = <<v, dvc'[s][v][i]>>
      PROVE  x \in Dvcs \/ Mine(r, x)
    <2>1. CASE dvc'[s][v] = dvc[s][v]
        BY <1>2, <2>1, DvcsMember
    <2>3. s # r => dvc'[s] = dvc[s]
        BY DEF GoodStep, ViewStep
    <2>4. dvc'[r][v] = dvc[r][v] \/ \E d \in Dvc : Keeps(r, v, d)
        BY DEF GoodStep, DvcStep
    <2>5. CASE s = r
        <3>1. CASE dvc'[r][v] = dvc[r][v]
            BY <2>1, <2>5, <3>1
        <3>2. CASE \E d \in Dvc : Keeps(r, v, d)
            <4>0. PICK d \in Dvc : Keeps(r, v, d)
                BY <3>2
            <4>1. /\ dvc'[r][v] = Append(dvc[r][v], d)
                  /\ <<v, d>> \in Dvcs \/ Mine(r, <<v, d>>)
                BY <4>0 DEF Keeps
            <4>2. dvc[r][v] \in Seq(Dvc)
                BY DvcTables
            <4>3. /\ DOMAIN dvc[r][v] = 1..Len(dvc[r][v]) /\ Len(dvc[r][v]) \in Nat
                  /\ DOMAIN Append(dvc[r][v], d) = 1..(Len(dvc[r][v]) + 1)
                  /\ \A j \in 1..Len(dvc[r][v]) : Append(dvc[r][v], d)[j] = dvc[r][v][j]
                  /\ Append(dvc[r][v], d)[Len(dvc[r][v]) + 1] = d
                BY <4>2, AppendProperties
            <4>4. i \in DOMAIN dvc[r][v] \/ i = Len(dvc[r][v]) + 1
                BY <1>2, <2>5, <4>1, <4>3
            <4>5. CASE i \in DOMAIN dvc[r][v]
                <5>1. x = <<v, dvc[r][v][i]>>
                    BY <1>2, <2>5, <4>1, <4>3, <4>5
                <5> QED BY <4>5, <5>1, DvcsMember
            <4>6. CASE i = Len(dvc[r][v]) + 1
                <5>1. x = <<v, d>>
                    BY <1>2, <2>5, <4>1, <4>3, <4>6
                <5> QED BY <2>5, <4>1, <5>1
            <4> QED BY <4>4, <4>5, <4>6
        <3> QED BY <2>4, <2>5, <3>1, <3>2
    <2>6. CASE s # r
        BY <2>1, <2>3, <2>6
    <2> QED BY <2>5, <2>6
<1> QED BY <1>1, <1>2, SetsAreDefinedNext DEF SetsDefined

\* The only new log is the one r has.
LEMMA LogsOfStep ==
    ASSUME Typed, Typed', NEW r \in Replicas, GoodStep(r), NEW x \in Logs'
    PROVE  x \in Logs \/ x = <<normal_view'[r], log'[r]>>
<1>1. ASSUME NEW s \in Replicas, x = <<normal_view'[s], log'[s]>>
      PROVE  x \in Logs \/ x = <<normal_view'[r], log'[r]>>
    <2>1. CASE s = r
        BY <1>1, <2>1
    <2>2. CASE s # r
        <3>1. normal_view'[s] = normal_view[s] /\ log'[s] = log[s]
            BY <2>2 DEF GoodStep, ViewStep, LogStep
        <3> QED BY <1>1, <3>1, LogsMember
    <2> QED BY <2>1, <2>2
<1>2. ASSUME NEW y \in Dvcs', x = <<y[2].normal_view, y[2].log>>
      PROVE  x \in Logs
    <2>1. CASE y \in Dvcs
        BY <1>2, <2>1, LogsMember
    <2>2. CASE Mine(r, y)
        BY <1>2, <2>2, LogsMember DEF Mine
    <2> QED BY <2>1, <2>2, DvcsOfStep
<1>3. ASSUME NEW p \in Of("StartView")', x = <<p.msg.view, p.msg.log>>
      PROVE  x \in Logs \/ x = <<normal_view'[r], log'[r]>>
    <2>1. p \in msgs' /\ p.msg.type = "StartView"
        BY DEF Of
    <2>2. CASE p \in msgs
        <3>1. p \in Of("StartView")
            BY <2>1, <2>2 DEF Of
        <3> QED BY <1>3, <3>1, LogsMember
    <2>3. CASE p \notin msgs
        BY <1>3, <2>1, <2>3 DEF GoodStep, Polite
    <2> QED BY <2>2, <2>3
<1>4. ASSUME NEW p \in Of("NewState")', normal_view'[p.dst] < p.msg.view,
             x = <<p.msg.view, p.msg.suffix>>
      PROVE  x \in Logs
    <2>1. p \in msgs' /\ p.msg.type = "NewState"
        BY DEF Of
    <2>2. p.dst \in Replicas /\ p.msg.view \in Nat
        BY <2>1, PacketsTypedNext, ViewsAreNaturals DEF Typed, PacketsTyped
    <2>3. normal_view[p.dst] < p.msg.view
        <3>1. /\ normal_view[p.dst] \in Nat /\ normal_view'[p.dst] \in Nat
              /\ normal_view[p.dst] <= normal_view'[p.dst]
            BY <2>2, ViewStepRaises DEF Typed, GoodStep
        <3> QED BY <1>4, <2>2, <3>1
    <2>4. CASE p \in msgs
        <3>1. p \in Of("NewState")
            BY <2>1, <2>4 DEF Of
        <3> QED BY <1>4, <2>3, <3>1, LogsMember
    <2>5. CASE p \notin msgs
        <3>1. x = <<normal_view[r], log[r]>>
            BY <1>4, <2>1, <2>3, <2>5 DEF GoodStep, Polite
        <3> QED BY <3>1, LogsMember
    <2> QED BY <2>4, <2>5
<1>5. LogFrom(x)'
    BY SetsAreDefinedNext DEF SetsDefined
<1> QED BY <1>1, <1>2, <1>3, <1>4, <1>5 DEF LogFrom

LEMMA KnownOfStep ==
    ASSUME Typed, Typed', NEW r \in Replicas, GoodStep(r), NEW a \in Known'
    PROVE  a \in Known \/ Led(r, a)
<1>1. ASSUME NEW x \in Logs', NEW k \in 1..Len(x[2]), a = <<x[1], x[2][k]>>
      PROVE  a \in Known \/ Led(r, a)
    <2>1. CASE x \in Logs
        BY <1>1, <2>1, KnownMember
    <2>2. CASE x = <<normal_view'[r], log'[r]>>
        <3>1. x[1] = normal_view'[r] /\ x[2] = log'[r]
            BY <2>2
        <3>2. /\ k \in 1..Len(log'[r]) /\ a = <<normal_view'[r], log'[r][k]>>
              /\ a[1] = normal_view'[r] /\ a[2] = log'[r][k]
            BY <1>1, <3>1
        <3>3. <<normal_view'[r], log'[r][k]>> \in Known \/ PrimaryOf(normal_view'[r]) = r
            BY <3>2 DEF GoodStep, LogStep
        <3> QED BY <3>2, <3>3 DEF Led
    <2> QED BY <2>1, <2>2, LogsOfStep
<1>2. ASSUME NEW p \in Of("Prepare")', a = <<p.msg.view, p.msg.entry>>
      PROVE  a \in Known \/ Led(r, a)
    <2>1. p \in msgs' /\ p.msg.type = "Prepare"
        BY DEF Of
    <2>2. CASE p \in msgs
        <3>1. p \in Of("Prepare")
            BY <2>1, <2>2 DEF Of
        <3> QED BY <1>2, <3>1, KnownMember
    <2>3. CASE p \notin msgs
        <3>1. a[1] = p.msg.view /\ a[2] = p.msg.entry
            BY <1>2
        <3> QED BY <2>1, <2>3, <3>1 DEF GoodStep, Polite, Led
    <2> QED BY <2>2, <2>3
<1>3. ASSUME NEW p \in Of("NewState")', NEW k \in 1..Len(p.msg.suffix),
             a = <<p.msg.view, p.msg.suffix[k]>>
      PROVE  a \in Known
    <2>1. p \in msgs' /\ p.msg.type = "NewState"
        BY DEF Of
    <2>2. CASE p \in msgs
        <3>1. p \in Of("NewState")
            BY <2>1, <2>2 DEF Of
        <3> QED BY <1>3, <3>1, KnownMember
    <2>3. CASE p \notin msgs
        <3>1. p.msg.view = normal_view[r] /\ \E i \in 1..Len(log[r]) : p.msg.suffix[k] = log[r][i]
            BY <2>1, <2>3 DEF GoodStep, Polite
        <3>2. PICK i \in 1..Len(log[r]) : p.msg.suffix[k] = log[r][i]
            BY <3>1
        <3>3. <<normal_view[r], log[r]>> \in Logs
            BY LogsMember
        <3>4. <<normal_view[r], log[r][i]>> \in Known
            BY <3>3, KnownMember
        <3> QED BY <1>3, <3>1, <3>2, <3>4
    <2> QED BY <2>2, <2>3
<1> QED BY <1>1, <1>2, <1>3, SetsAreDefinedNext DEF SetsDefined

LEMMA GoodStepIsSafe ==
    ASSUME Typed, Typed', NEW r \in Replicas, GoodStep(r)
    PROVE  SafeStep(r)
<1>1. Monotone
    <2>1. ASSUME NEW s \in Replicas
          PROVE  /\ view[s] <= view'[s] /\ normal_view[s] <= normal_view'[s]
                 /\ normal_view'[s] = normal_view[s] => Ext(log[s], log'[s])
        <3>1. view[s] <= view'[s] /\ normal_view[s] <= normal_view'[s]
            BY ViewStepRaises DEF Typed, GoodStep
        <3>2. CASE s = r
            BY <3>1, <3>2 DEF GoodStep, LogStep
        <3>3. CASE s # r
            <4>1. log'[s] = log[s]
                BY <3>3 DEF GoodStep, LogStep
            <4> QED BY <3>1, <4>1, ReplicaNumbers, ExtReflexive
        <3> QED BY <3>2, <3>3
    <2> QED BY <2>1 DEF Monotone
<1>2. ASSUME NEW s \in Replicas, NEW v \in Views PROVE Ext(dvc[s][v], dvc'[s][v])
    <2>1. dvc[s][v] \in Seq(Dvc)
        BY DvcTables
    <2>2. CASE dvc'[s][v] = dvc[s][v]
        BY <2>1, <2>2, ExtReflexive
    <2>3. ASSUME NEW d \in Dvc, dvc'[s][v] = Append(dvc[s][v], d)
          PROVE  Ext(dvc[s][v], dvc'[s][v])
        BY <2>1, <2>3, ExtAppend
    <2>4. CASE s = r
        BY <2>2, <2>3, <2>4 DEF GoodStep, DvcStep, Keeps
    <2>5. CASE s # r
        BY <2>2, <2>5 DEF GoodStep, ViewStep
    <2> QED BY <2>4, <2>5
<1>3. ASSUME NEW x \in Logs'
      PROVE  (\E y \in Logs : y[1] = x[1] /\ Ext(y[2], x[2])) \/ Crowned(r, x)
    <2>1. CASE x \in Logs
        <3>1. x[2] \in Seq(Entry)
            BY <2>1, SetsAreTyped DEF Typed, SetsTyped, LogPair
        <3> QED BY <2>1, <3>1, ExtReflexive
    <2>2. CASE x = <<normal_view'[r], log'[r]>>
        <3>1. x[1] = normal_view'[r] /\ x[2] = log'[r]
            BY <2>2
        <3> QED BY <2>2, <3>1 DEF GoodStep, LogStep
    <2> QED BY <2>1, <2>2, LogsOfStep
<1> QED BY <1>1, <1>2, <1>3, DvcsOfStep, KnownOfStep DEF SafeStep

----------------------------------------------------------------------------
(* Such a step keeps the invariant *)

AckFrom(a) ==
    \/ \E p \in Of("PrepareOk") : a = <<p.msg.view, p.msg.op_number, p.msg.replica>>
    \/ \E s \in Leading : \E b \in prepare_ok[s] : a = <<view[s], b[1], b[2]>>

CommitFrom(c) ==
    \/ \E p \in msgs : /\ p.msg.type \in {"Prepare", "Commit", "StartView", "NewState"}
                       /\ c = <<p.msg.view, p.msg.commit>>
    \/ \E x \in Dvcs : c = <<x[2].normal_view, x[2].commit>>

AcksAndCommits ==
    /\ \A a \in AckSet : AckFrom(a)
    /\ \A p \in Of("PrepareOk") : <<p.msg.view, p.msg.op_number, p.msg.replica>> \in AckSet
    /\ \A s \in Leading : \A b \in prepare_ok[s] : <<view[s], b[1], b[2]>> \in AckSet
    /\ \A c \in CommitNumbers : CommitFrom(c)

LEMMA AcksAndCommitsDefined == AcksAndCommits
<1>1. ASSUME NEW a \in AckSet PROVE AckFrom(a)
    <2>1. CASE \E p \in Of("PrepareOk") : a = <<p.msg.view, p.msg.op_number, p.msg.replica>>
        BY <2>1 DEF AckFrom
    <2>2. ASSUME NEW s \in Leading, a \in Counted(s) PROVE AckFrom(a)
        BY <2>2 DEF AckFrom, Counted
    <2> QED BY <2>1, <2>2 DEF AckSet
<1>2. ASSUME NEW s \in Leading, NEW b \in prepare_ok[s]
      PROVE  <<view[s], b[1], b[2]>> \in AckSet
    <2>1. <<view[s], b[1], b[2]>> \in Counted(s)
        BY DEF Counted
    <2> QED BY <2>1 DEF AckSet
<1>3. \A p \in Of("PrepareOk") : <<p.msg.view, p.msg.op_number, p.msg.replica>> \in AckSet
    BY DEF AckSet
<1>4. ASSUME NEW c \in CommitNumbers PROVE CommitFrom(c)
    BY DEF CommitNumbers, CommitFrom, Of
<1> QED BY <1>1, <1>2, <1>3, <1>4 DEF AcksAndCommits

LEMMA AcksAndCommitsNext == AcksAndCommits'
BY AcksAndCommitsDefined, PTL

LEMMA AckSetType ==
    ASSUME TypeOK, NEW a \in AckSet
    PROVE  a[1] \in Nat /\ a[2] \in Nat /\ a[3] \in Replicas
<1>1. CASE \E p \in Of("PrepareOk") : a = <<p.msg.view, p.msg.op_number, p.msg.replica>>
    <2>1. PICK p \in Of("PrepareOk") : a = <<p.msg.view, p.msg.op_number, p.msg.replica>>
        BY <1>1
    <2>2. p.msg.view \in Views /\ p.msg.op_number \in Nat /\ p.msg.replica \in Replicas
        BY PacketsAreTyped DEF PacketsTyped, Of
    <2> QED BY <2>1, <2>2, ViewsAreNaturals
<1>2. CASE \E s \in Leading : \E b \in prepare_ok[s] : a = <<view[s], b[1], b[2]>>
    <2>1. PICK s \in Leading : \E b \in prepare_ok[s] : a = <<view[s], b[1], b[2]>>
        BY <1>2
    <2>2. PICK b \in prepare_ok[s] : a = <<view[s], b[1], b[2]>>
        BY <2>1
    <2>3. s \in Replicas
        BY DEF Leading
    <2>4. view[s] \in Views /\ b \in Nat \X Replicas
        BY <2>3 DEF TypeOK
    <2> QED BY <2>2, <2>4, ViewsAreNaturals
<1> QED BY <1>1, <1>2, AcksAndCommitsDefined DEF AcksAndCommits, AckFrom

\* A replica that is Normal may acknowledge what is in its log.
FreshAcks ==
    \A s \in Replicas : \A k \in Nat :
        normal_view[s] = view[s] /\ k <= Len(log[s]) => AckHolds(view[s], k, s)

LEMMA FreshAcksHold == Typed /\ SentInView /\ KnownToPrimary => FreshAcks
<1> SUFFICES ASSUME Typed, SentInView, KnownToPrimary,
                    NEW s \in Replicas, NEW k \in Nat, normal_view[s] = view[s],
                    k <= Len(log[s])
             PROVE  AckHolds(view[s], k, s)
    BY DEF FreshAcks
<1>1. /\ view[s] \in Nat /\ log[s] \in Seq(Entry) /\ Len(log[s]) \in Nat
      /\ Numbered(log[s], 1)
    <2>1. view[s] \in Views /\ log[s] \in Seq(Entry) /\ Numbered(log[s], 1)
        BY DEF Typed, TypeOK, NumberInv
    <2>2. ASSUME NEW S, NEW q \in Seq(S) PROVE Len(q) \in Nat
        OBVIOUS
    <2> QED BY <2>1, <2>2, ViewsAreNaturals
<1>2. ASSUME NEW x \in Dvcs, x[2].replica = s, x[1] > view[s] PROVE FALSE
    <2>1. x[1] \in Nat
        BY SetsAreTyped DEF Typed, SetsTyped, DvcPair
    <2>2. x[1] <= view[s]
        BY <1>2 DEF SentInView
    <2> QED BY <1>1, <1>2, <2>1, <2>2
<1>3. k > 0 => PrimaryReaches(view[s], k)
    <2> SUFFICES ASSUME k > 0 PROVE PrimaryReaches(view[s], k)
        OBVIOUS
    <2>1. k \in 1..Len(log[s])
        BY <1>1
    <2>2. log[s][k].op_number = k
        BY <1>1, <2>1, PlaceIsNumber
    <2>3. <<normal_view[s], log[s]>> \in Logs
        BY LogsMember
    <2>4. <<view[s], log[s][k]>> \in Known
        BY <2>1, <2>3, KnownMember
    <2> QED BY <2>2, <2>4 DEF KnownToPrimary
<1> QED BY <1>1, <1>2, <1>3 DEF AckHolds

LEMMA FreshAcksHoldNext == Typed' /\ SentInView' /\ KnownToPrimary' => FreshAcks'
BY FreshAcksHold, PTL

\* A replica's log has the locked entry wherever it reaches that far.
LockedInLogs ==
    \A s \in Replicas : \A k \in 1..Len(log[s]) : \A u \in 0..normal_view[s] :
        \A e \in Entry : e.op_number = k /\ Locked(u, e) => log[s][k] = e

LEMMA LogsHaveLocked == Typed => LockedInLogs
<1> SUFFICES ASSUME Typed, NEW s \in Replicas, NEW k \in 1..Len(log[s]),
                    NEW u \in 0..normal_view[s], NEW e \in Entry, e.op_number = k,
                    Locked(u, e)
             PROVE  log[s][k] = e
    BY DEF LockedInLogs
<1>1. normal_view[s] \in Nat /\ log[s] \in Seq(Entry) /\ Numbered(log[s], 1)
    BY ViewsAreNaturals DEF Typed, TypeOK, NumberInv
<1> DEFINE x == <<normal_view[s], log[s]>>
<1>2. x \in Logs /\ x[1] = normal_view[s] /\ x[2] = log[s]
    BY LogsMember
<1> HIDE DEF x
<1>3. CASE normal_view[s] > u
    BY <1>2, <1>3 DEF Locked, Has
<1>4. CASE normal_view[s] = u
    <2>1. <<x[1], x[2][k]>> \in Known
        BY <1>2, KnownMember
    <2>2. log[s][k].op_number = k
        BY <1>1, PlaceIsNumber
    <2> QED BY <1>2, <1>4, <2>1, <2>2 DEF Locked
<1> QED BY <1>1, <1>3, <1>4

LEMMA LogsHaveLockedNext == Typed' => LockedInLogs'
BY LogsHaveLocked, PTL

LEMMA LockedUpToStays ==
    ASSUME Typed, Typed', NEW r \in Replicas, SafeStep(r), NEW v \in Nat, NEW n \in Nat,
           LockedUpTo(v, n)
    PROVE  LockedUpTo(v, n)'
<1>1. ASSUME NEW k \in 1..n
      PROVE  \E u \in 0..v, e \in Entry : e.op_number = k /\ Locked(u, e)'
    <2>1. PICK u \in 0..v, e \in Entry : e.op_number = k /\ Locked(u, e)
        BY DEF LockedUpTo
    <2>2. u \in Nat
        OBVIOUS
    <2>3. Locked(u, e)'
        BY <2>1, <2>2, LockedStays
    <2> QED BY <2>1, <2>3
<1> QED BY <1>1 DEF LockedUpTo

LEMMA AppliedStaysLocked ==
    ASSUME Typed, Typed', AppliedToCommit, AppliedLocked, NEW r \in Replicas,
           GoodStep(r), SafeStep(r)
    PROVE  AppliedLocked'
<1>0. ASSUME NEW s \in Replicas, NEW k \in 1..commit[s]
      PROVE  \E u \in 0..normal_view'[s], e \in Entry : e = applied[s][k] /\ Locked(u, e)'
    <2>1. applied[s] \in Seq(Entry) /\ Len(applied[s]) = commit[s]
        BY DEF Typed, TypeOK, AppliedToCommit
    <2>2. PICK e \in Entry : e = applied[s][k]
        BY <2>1
    <2>3. PICK u \in 0..normal_view[s] : Locked(u, e)
        BY <2>2 DEF AppliedLocked
    <2>4. u \in Nat /\ u \in 0..normal_view'[s]
        BY ReplicaNumbers DEF SafeStep, Monotone
    <2>5. Locked(u, e)'
        BY <2>3, <2>4, LockedStays
    <2> QED BY <2>2, <2>4, <2>5
<1>1. ASSUME \A s \in Replicas : \A k \in 1..commit'[s] :
                \E u \in 0..normal_view'[s], e \in Entry : e = applied'[s][k] /\ Locked(u, e)'
      PROVE  AppliedLocked'
    BY <1>1 DEF AppliedLocked
<1>2. CASE UNCHANGED <<commit, applied>>
    BY <1>0, <1>1, <1>2
<1>3. ASSUME NEW target \in Nat, NEW v \in Views, ApplyThrough(r, log'[r], target, v),
             LockedUpTo(normal_view'[r], target)
      PROVE  AppliedLocked'
    <2>0. /\ log'[r] \in Seq(Entry) /\ Len(log'[r]) \in Nat
          /\ normal_view'[r] \in Nat /\ TypeOK
        BY ReplicaNumbers DEF Typed
    <2>1. /\ \A s \in Replicas \ {r} : applied'[s] = applied[s] /\ commit'[s] = commit[s]
          /\ commit[r] \in Nat /\ commit'[r] \in Nat /\ commit[r] <= commit'[r]
          /\ commit'[r] > commit[r] => commit'[r] <= Len(log'[r]) /\ commit'[r] <= target
          /\ \A k \in 1..commit[r] : applied'[r][k] = applied[r][k]
          /\ \A k \in commit[r] + 1 .. commit'[r] : applied'[r][k] = log'[r][k]
        BY <1>3, <2>0, ApplyThroughAppends
    <2>2. PICK nv \in Nat : nv = normal_view'[r]
        BY <2>0
    <2>3. LockedUpTo(nv, target)'
        BY <1>3, <2>2, LockedUpToStays
    <2>4. ASSUME NEW k \in commit[r] + 1 .. commit'[r]
          PROVE  \E u \in 0..normal_view'[r], e \in Entry : e = applied'[r][k] /\ Locked(u, e)'
        <3>1. k \in 1..target /\ k \in 1..Len(log'[r])
            BY <2>0, <2>1
        <3>2. PICK u \in 0..nv, e \in Entry : e.op_number = k /\ Locked(u, e)'
            BY <2>3, <3>1 DEF LockedUpTo
        <3>3. log'[r][k] = e
            BY <2>2, <3>1, <3>2, LogsHaveLockedNext DEF LockedInLogs
        <3> QED BY <2>1, <2>2, <3>2, <3>3
    <2>5. ASSUME NEW s \in Replicas, NEW k \in 1..commit'[s]
          PROVE  \E u \in 0..normal_view'[s], e \in Entry : e = applied'[s][k] /\ Locked(u, e)'
        <3>1. CASE s # r
            BY <1>0, <2>1, <3>1
        <3>2. CASE s = r /\ k \in 1..commit[r]
            BY <1>0, <2>1, <3>2
        <3>3. CASE s = r /\ k \in commit[r] + 1 .. commit'[r]
            BY <2>4, <3>3
        <3> QED BY <2>1, <3>1, <3>2, <3>3
    <2> QED BY <1>1, <2>5
<1> QED BY <1>2, <1>3 DEF GoodStep, ApplyStep

LEMMA AcknowledgedStays ==
    ASSUME Typed, Typed', Acknowledged, SentInView', KnownToPrimary', NEW r \in Replicas,
           GoodStep(r), SafeStep(r)
    PROVE  Acknowledged'
<1>1. ASSUME NEW v, NEW k, NEW s, <<v, k, s>> \in AckSet PROVE AckHolds(v, k, s)'
    <2> DEFINE a == <<v, k, s>>
    <2>1. a[1] = v /\ a[2] = k /\ a[3] = s /\ a \in AckSet
        BY <1>1
    <2> HIDE DEF a
    <2>2. AckHolds(v, k, s)
        BY <2>1 DEF Acknowledged
    <2>3. v \in Nat /\ k \in Nat /\ s \in Replicas
        BY <2>1, AckSetType DEF Typed
    <2> QED BY <2>2, <2>3, AckHoldsStays
<1>2. ASSUME NEW v, NEW k \in Nat, v = view'[r], normal_view'[r] = v, k <= Len(log'[r])
      PROVE  AckHolds(v, k, r)'
    BY <1>2, FreshAcksHoldNext DEF FreshAcks
<1>3. ASSUME NEW p \in Of("PrepareOk")'
      PROVE  AckHolds(p.msg.view, p.msg.op_number, p.msg.replica)'
    <2>1. p \in msgs' /\ p.msg.type = "PrepareOk"
        BY DEF Of
    <2>2. CASE p \in msgs
        <3>1. p \in Of("PrepareOk")
            BY <2>1, <2>2 DEF Of
        <3>2. <<p.msg.view, p.msg.op_number, p.msg.replica>> \in AckSet
            BY <3>1, AcksAndCommitsDefined DEF AcksAndCommits
        <3> QED BY <1>1, <3>2
    <2>3. CASE p \notin msgs
        <3>1. /\ p.msg.replica = r /\ p.msg.view = normal_view'[r] /\ p.msg.view = view'[r]
              /\ p.msg.op_number <= Len(log'[r])
            BY <2>1, <2>3 DEF GoodStep, Polite
        <3>2. p.msg.op_number \in Nat
            BY <2>1, PacketsTypedNext DEF Typed, PacketsTyped
        <3> QED BY <1>2, <3>1, <3>2
    <2> QED BY <2>2, <2>3
<1>4. ASSUME NEW s \in Leading', NEW b \in prepare_ok'[s], NEW v, v = view'[s]
      PROVE  AckHolds(v, b[1], b[2])'
    <2>1. s \in Replicas /\ PrimaryOf(view'[s]) = s /\ status'[s] = "Normal"
        BY DEF Leading
    <2>2. CASE s # r
        <3>1. view'[s] = view[s] /\ status'[s] = status[s] /\ prepare_ok'[s] = prepare_ok[s]
            BY <2>1, <2>2 DEF GoodStep, ViewStep, AckStep
        <3>2. s \in Leading
            BY <2>1, <3>1 DEF Leading
        <3>3. <<v, b[1], b[2]>> \in AckSet
            BY <1>4, <3>1, <3>2, AcksAndCommitsDefined DEF AcksAndCommits
        <3> QED BY <1>1, <3>3
    <2>3. CASE s = r
        <3>1. CASE <<v, b[1], b[2]>> \in AckSet
            BY <1>1, <3>1
        <3>2. CASE b[2] = r /\ b[1] <= Len(log'[r])
            <4>1. prepare_ok'[r] \in SUBSET (Nat \X Replicas)
                BY DEF Typed, TypeOK
            <4>2. b[1] \in Nat
                BY <2>3, <4>1
            <4>3. normal_view'[r] = v
                BY <1>4, <2>1, <2>3 DEF GoodStep, ViewStep
            <4> QED BY <1>2, <1>4, <2>3, <3>2, <4>2, <4>3
        <3>3. <<v, b[1], b[2]>> \in AckSet \/ (b[2] = r /\ b[1] <= Len(log'[r]))
            BY <1>4, <2>1, <2>3 DEF GoodStep, AckStep
        <3> QED BY <3>1, <3>2, <3>3
    <2> QED BY <2>2, <2>3
<1>5. ASSUME NEW a \in AckSet' PROVE AckHolds(a[1], a[2], a[3])'
    <2>1. CASE \E p \in Of("PrepareOk")' :
                  a = <<p.msg.view, p.msg.op_number, p.msg.replica>>
        BY <1>3, <2>1
    <2>2. CASE \E s \in Leading' : \E b \in prepare_ok'[s] : a = <<view'[s], b[1], b[2]>>
        <3>1. PICK s \in Leading' : \E b \in prepare_ok'[s] : a = <<view'[s], b[1], b[2]>>
            BY <2>2
        <3>2. PICK b \in prepare_ok'[s] : a = <<view'[s], b[1], b[2]>>
            BY <3>1
        <3>3. a[1] = view'[s] /\ a[2] = b[1] /\ a[3] = b[2]
            BY <3>2
        <3> QED BY <1>4, <3>3
    <2>3. AckFrom(a)'
        BY AcksAndCommitsNext DEF AcksAndCommits
    <2> QED BY <2>1, <2>2, <2>3 DEF AckFrom
<1> QED BY <1>5 DEF Acknowledged

LEMMA CommitsStayLocked ==
    ASSUME Typed, Typed', AppliedToCommit, AppliedLocked, CommitsLocked,
           NEW r \in Replicas, GoodStep(r), SafeStep(r)
    PROVE  CommitsLocked'
<1>1. ASSUME NEW p \in msgs', p.msg.type \in {"Prepare", "Commit", "StartView", "NewState"}
      PROVE  LockedUpTo(p.msg.view, p.msg.commit)'
    <2>1. LockedUpTo(p.msg.view, p.msg.commit)
        <3>1. CASE p \in msgs
            <4>1. <<p.msg.view, p.msg.commit>> \in CommitNumbers
                BY <1>1, <3>1 DEF CommitNumbers, Of
            <4> QED BY <4>1 DEF CommitsLocked
        <3>2. CASE p \notin msgs
            BY <1>1, <3>2 DEF GoodStep, Polite
        <3> QED BY <3>1, <3>2
    <2>2. p.msg.view \in Nat /\ p.msg.commit \in Nat
        BY <1>1, PacketsTypedNext, ViewsAreNaturals DEF Typed, PacketsTyped
    <2> QED BY <2>1, <2>2, LockedUpToStays
<1>2. ASSUME NEW x \in Dvcs'
      PROVE  LockedUpTo(x[2].normal_view, x[2].commit)'
    <2>1. LockedUpTo(x[2].normal_view, x[2].commit)
        <3>1. CASE x \in Dvcs
            <4>1. <<x[2].normal_view, x[2].commit>> \in CommitNumbers
                BY <3>1 DEF CommitNumbers
            <4> QED BY <4>1 DEF CommitsLocked
        <3>2. CASE Mine(r, x)
            <4>1. x[2].normal_view = normal_view[r] /\ x[2].commit = commit[r]
                BY <3>2 DEF Mine
            <4> QED BY <4>1, OwnCommitLocked
        <3> QED BY <3>1, <3>2, DvcsOfStep
    <2>2. x[2].normal_view \in Nat /\ x[2].commit \in Nat
        BY SetsAreTypedNext DEF Typed, SetsTyped, DvcPair
    <2> QED BY <2>1, <2>2, LockedUpToStays
<1>3. ASSUME NEW c \in CommitNumbers' PROVE LockedUpTo(c[1], c[2])'
    <2>1. CommitFrom(c)'
        BY AcksAndCommitsNext DEF AcksAndCommits
    <2> QED BY <1>1, <1>2, <2>1 DEF CommitFrom
<1> QED BY <1>3 DEF CommitsLocked

LEMMA GoodStepKeepsSafety ==
    ASSUME Typed, Typed', AppliedToCommit, SafetyInv, NEW r \in Replicas, GoodStep(r)
    PROVE  SafetyInv'
<1>1. SafeStep(r) /\ StructureInv
    BY GoodStepIsSafe DEF SafetyInv, StructureInv
<1>2. OneEntry' /\ KnownToPrimary' /\ Elected' /\ SentInView'
    BY <1>1, OneEntryStays, KnownToPrimaryStays, ElectedStays, SentInViewStays
<1>3. Acknowledged'
    BY <1>1, <1>2, AcknowledgedStays DEF SafetyInv
<1>4. CommitsLocked' /\ AppliedLocked'
    BY <1>1, CommitsStayLocked, AppliedStaysLocked DEF SafetyInv
<1>5. NotToItself'
    <2>1. ASSUME NEW p \in msgs'
          PROVE  /\ p.msg.type \in {"Prepare", "StartView", "NewState"} =>
                       p.dst # PrimaryOf(p.msg.view)
                 /\ p.msg.type = "GetState" => p.msg.replica # PrimaryOf(p.msg.view)
        <3>1. CASE p \in msgs
            BY <3>1 DEF SafetyInv, NotToItself
        <3>2. CASE p \notin msgs
            BY <3>2 DEF GoodStep, Polite
        <3> QED BY <3>1, <3>2
    <2> QED BY <2>1 DEF NotToItself
<1> QED BY <1>2, <1>3, <1>4, <1>5 DEF SafetyInv

----------------------------------------------------------------------------
(* Every handler is such a step *)

Ready == Typed /\ AppliedToCommit /\ SafetyInv

\* The log, the DoViewChanges and the acknowledgements of r are as they were.
LEMMA SameLogStep ==
    ASSUME Ready, Typed', NEW r \in Replicas, ViewStep(r), log' = log,
           normal_view'[r] = normal_view[r]
    PROVE  LogStep(r)
<1>1. log[r] \in Seq(Entry)
    BY ReplicaNumbers DEF Ready
<1> DEFINE y == <<normal_view[r], log[r]>>
<1>2. y \in Logs /\ y[1] = normal_view[r] /\ y[2] = log[r]
    BY LogsMember
<1> HIDE DEF y
<1>3. Ext(log[r], log[r])
    BY <1>1, ExtReflexive
<1>4. \A k \in 1..Len(log[r]) : <<normal_view[r], log[r][k]>> \in Known
    BY <1>2, KnownMember
<1> QED BY <1>2, <1>3, <1>4 DEF LogStep

LEMMA SameAckStep ==
    ASSUME Ready, NEW r \in Replicas, prepare_ok' = prepare_ok,
           \/ view'[r] = view[r] /\ status'[r] = status[r]
           \/ status'[r] # "Normal"
           \/ PrimaryOf(view'[r]) # r
    PROVE  AckStep(r)
<1>1. ASSUME PrimaryOf(view'[r]) = r, status'[r] = "Normal", NEW a \in prepare_ok[r]
      PROVE  <<view'[r], a[1], a[2]>> \in AckSet
    <2>1. r \in Leading /\ view'[r] = view[r]
        BY <1>1 DEF Leading
    <2> QED BY <2>1, AcksAndCommitsDefined DEF AcksAndCommits
<1> QED BY <1>1 DEF AckStep

LEMMA QuietStep ==
    ASSUME Ready, Typed', NEW r \in Replicas, ViewStep(r),
           log' = log, dvc' = dvc, prepare_ok' = prepare_ok,
           normal_view'[r] = normal_view[r],
           \/ view'[r] = view[r] /\ status'[r] = status[r]
           \/ status'[r] # "Normal",
           ApplyStep(r), \A p \in msgs' \ msgs : Polite(r, p)
    PROVE  GoodStep(r)
<1>1. DvcStep(r)
    BY DEF DvcStep
<1> QED BY <1>1, SameLogStep, SameAckStep DEF GoodStep

LEMMA PolitePlain ==
    ASSUME NEW r, NEW p, p.msg.type \in {"Request", "StartViewChange"}
    PROVE  Polite(r, p)
BY DEF Polite

LEMMA PoliteGetState ==
    ASSUME NEW r, NEW v, NEW a, NEW p, r # PrimaryOf(v),
           p.msg = [type |-> "GetState", view |-> v, after |-> a, replica |-> r]
    PROVE  Polite(r, p)
BY DEF Polite

LEMMA PolitePrepareOk ==
    ASSUME NEW r, NEW v, NEW k, NEW p, v = normal_view'[r], v = view'[r], k <= Len(log'[r]),
           p.msg = [type |-> "PrepareOk", view |-> v, op_number |-> k, replica |-> r]
    PROVE  Polite(r, p)
BY DEF Polite

LEMMA PoliteCommit ==
    ASSUME NEW r, NEW v, NEW n, NEW p, LockedUpTo(v, n),
           p.msg = [type |-> "Commit", view |-> v, commit |-> n]
    PROVE  Polite(r, p)
BY DEF Polite

LEMMA PolitePrepare ==
    ASSUME NEW r, NEW v, NEW n, NEW k, NEW e, NEW p, LockedUpTo(v, n), p.dst # r,
           PrimaryOf(v) = r, v = normal_view'[r], k \in 1..Len(log'[r]), e = log'[r][k],
           p.msg = [type |-> "Prepare", view |-> v, entry |-> e, commit |-> n]
    PROVE  Polite(r, p)
BY DEF Polite

\* The commit number of a packet is locked.
LEMMA PacketCommitLocked ==
    ASSUME Ready, NEW p \in msgs,
           p.msg.type \in {"Prepare", "Commit", "StartView", "NewState"}
    PROVE  LockedUpTo(p.msg.view, p.msg.commit)
<1>1. <<p.msg.view, p.msg.commit>> \in CommitNumbers
    BY DEF CommitNumbers, Of
<1> QED BY <1>1 DEF Ready, SafetyInv, CommitsLocked

LEMMA OwnLocked ==
    ASSUME Ready, NEW r \in Replicas
    PROVE  LockedUpTo(normal_view[r], commit[r])
BY OwnCommitLocked DEF Ready, SafetyInv

LEMMA RequestGood ==
    ASSUME Ready, Typed', NEW r \in Replicas, ViewStep(r),
           NEW c \in Clients, NEW q \in Reqs, NEW net \in SUBSET msgs, OnRequest(r, c, q, net)
    PROVE  GoodStep(r)
<1> DEFINE e == [op_number |-> Len(log[r]) + 1, client |-> c, req |-> q]
<1>1. UNCHANGED <<view, normal_view, status, dvc, commit, applied>>
    BY DEF OnRequest
<1>2. ApplyStep(r)
    BY <1>1 DEF ApplyStep
<1>3. CASE log' = log /\ prepare_ok' = prepare_ok /\ msgs' = net
    BY <1>1, <1>2, <1>3, QuietStep
<1>4. CASE /\ log' = log /\ prepare_ok' = prepare_ok
           /\ msgs' = net \cup Send(r, PrimaryOf(view[r]),
                                    [type |-> "Request", client |-> c, req |-> q])
    <2>1. \A p \in msgs' \ msgs : p.msg.type = "Request"
        BY <1>4, Sent
    <2>2. \A p \in msgs' \ msgs : Polite(r, p)
        BY <2>1, PolitePlain
    <2> QED BY <1>1, <1>2, <1>4, <2>2, QuietStep
<1>5. CASE /\ status[r] = "Normal" /\ PrimaryOf(view[r]) = r
           /\ log' = [log EXCEPT ![r] = Append(@, e)]
           /\ prepare_ok' = [prepare_ok EXCEPT ![r] = @ \cup {<<e.op_number, r>>}]
           /\ msgs' = net \cup Broadcast(r, [type |-> "Prepare", view |-> view[r],
                                             entry |-> e, commit |-> commit[r]])
    <2>1. /\ log[r] \in Seq(Entry) /\ Len(log[r]) \in Nat
          /\ view[r] \in Nat /\ normal_view[r] = view[r]
        BY <1>5, ReplicaNumbers, ViewsOfReplica DEF Ready, Typed
    <2>2. e \in Entry /\ e.op_number = Len(log[r]) + 1
        BY <2>1 DEF Entry
    <2>3. /\ log'[r] = Append(log[r], e) /\ \A s \in Replicas \ {r} : log'[s] = log[s]
        BY <1>5 DEF Ready, Typed, TypeOK
    <2>4. /\ prepare_ok'[r] = prepare_ok[r] \cup {<<Len(log[r]) + 1, r>>}
          /\ \A s \in Replicas \ {r} : prepare_ok'[s] = prepare_ok[s]
        BY <1>5 DEF Ready, Typed, TypeOK
    <2>5. \A p \in msgs' \ msgs : /\ p.dst # r
                                  /\ p.msg = [type |-> "Prepare", view |-> view[r],
                                              entry |-> e, commit |-> commit[r]]
        BY <1>5, Sent
    <2> HIDE DEF e
    <2>6. /\ Len(log'[r]) = Len(log[r]) + 1 /\ log'[r][Len(log[r]) + 1] = e
        BY <2>1, <2>2, <2>3, AppendProperties
    <2>7. Len(log[r]) + 1 \in 1..Len(log'[r])
        BY <2>1, <2>6
    <2>8. Ext(log[r], log'[r])
        BY <2>1, <2>2, <2>3, ExtAppend
    <2>9. LogStep(r)
        <3> DEFINE y == <<normal_view[r], log[r]>>
        <3>1. y \in Logs /\ y[1] = normal_view[r] /\ y[2] = log[r]
            BY LogsMember
        <3> HIDE DEF y
        <3> QED BY <1>1, <1>5, <2>1, <2>3, <2>8, <3>1 DEF LogStep
    <2>10. AckStep(r)
        <3>1. r \in Leading
            BY <1>5 DEF Leading
        <3>2. ASSUME NEW a \in prepare_ok'[r]
              PROVE  \/ <<view'[r], a[1], a[2]>> \in AckSet
                     \/ a[2] = r /\ a[1] <= Len(log'[r])
            <4>1. CASE a \in prepare_ok[r]
                BY <1>1, <3>1, <4>1, AcksAndCommitsDefined DEF AcksAndCommits
            <4>2. CASE a = <<Len(log[r]) + 1, r>>
                BY <2>1, <2>6, <4>2
            <4> QED BY <2>4, <4>1, <4>2
        <3> QED BY <2>4, <3>2 DEF AckStep
    <2>11. ASSUME NEW p \in msgs' \ msgs PROVE Polite(r, p)
        BY <1>1, <1>5, <2>1, <2>5, <2>6, <2>7, OwnLocked, PolitePrepare
    <2>12. DvcStep(r)
        BY <1>1 DEF DvcStep
    <2> QED BY <1>2, <2>9, <2>10, <2>11, <2>12 DEF GoodStep
<1> QED BY <1>3, <1>4, <1>5 DEF OnRequest

LEMMA SolicitGood ==
    ASSUME Ready, Typed', NEW r \in Replicas, ViewStep(r), NEW v \in Views,
           NEW net \in SUBSET msgs, SolicitState(r, v, net),
           UNCHANGED <<normal_view, prepare_ok, dvc>>
    PROVE  GoodStep(r)
<1>1. ASSUME NEW p \in msgs' \ msgs PROVE Polite(r, p)
    <2>1. /\ p.msg = [type |-> "GetState", view |-> v, after |-> 0, replica |-> r]
          /\ PrimaryOf(v) # r
        BY <1>1, Sent DEF SolicitState
    <2> QED BY <2>1, PoliteGetState
<1>2. status'[r] = "ViewChange" /\ ApplyStep(r) /\ log' = log
    BY DEF SolicitState, Adopt, ApplyStep, Ready, Typed, TypeOK
<1> QED BY <1>1, <1>2, QuietStep

LEMMA IgnoreGood ==
    ASSUME Ready, Typed', NEW r \in Replicas, ViewStep(r), NEW v,
           NEW net \in SUBSET msgs, IgnoreInView(r, v, net),
           UNCHANGED <<normal_view, prepare_ok, dvc>>
    PROVE  GoodStep(r)
<1>1. ApplyStep(r) /\ log' = log /\ view' = view /\ status' = status /\ msgs' = net
    BY DEF IgnoreInView, ApplyStep
<1> QED BY <1>1, QuietStep

LEMMA PrepareGood ==
    ASSUME Ready, Typed', NEW p \in msgs, ViewStep(p.dst), p.msg.type = "Prepare",
           OnPrepare(p)
    PROVE  GoodStep(p.dst)
<1> DEFINE r == p.dst
           m == p.msg
           k == m.entry.op_number
           ack == [type |-> "PrepareOk", view |-> m.view, op_number |-> k, replica |-> r]
           gap == [type |-> "GetState", view |-> m.view, after |-> Len(log[r]), replica |-> r]
           lg == IF Continues(log[r], m.entry) THEN Append(log[r], m.entry) ELSE log[r]
<1>1. r \in Replicas /\ m.view \in Views /\ m.entry \in Entry /\ m.commit \in Nat
    BY DeliveredType DEF Ready, Typed
<1>2. Rest(p) \in SUBSET msgs
    BY DEF Rest
<1>3. UNCHANGED <<normal_view, prepare_ok, dvc>>
    BY DEF OnPrepare
<1>4. CASE IgnoreInView(r, m.view, Rest(p))
    BY <1>1, <1>2, <1>3, <1>4, IgnoreGood
<1>5. CASE SolicitState(r, m.view, Rest(p))
    BY <1>1, <1>2, <1>3, <1>5, SolicitGood
<1>6. CASE /\ m.view = view[r] /\ status[r] = "Normal"
           /\ log' = [log EXCEPT ![r] = lg]
           /\ ApplyThrough(r, lg, m.commit, m.view)
           /\ msgs' = Rest(p) \cup Send(r, PrimaryOf(m.view),
                                        IF k <= Len(log[r]) + 1 THEN ack ELSE gap)
           /\ UNCHANGED <<view, status>>
    <2>1. /\ log[r] \in Seq(Entry) /\ Len(log[r]) \in Nat
          /\ view[r] \in Nat /\ normal_view[r] = m.view
        BY <1>1, <1>6, ReplicaNumbers, ViewsOfReplica DEF Ready, Typed
    <2>2. k \in Nat
        BY <1>1 DEF Entry
    <2>3. /\ lg \in Seq(Entry) /\ Ext(log[r], lg)
          /\ k <= Len(log[r]) + 1 => k <= Len(lg)
          /\ \A i \in 1..Len(lg) :
                (i \in 1..Len(log[r]) /\ lg[i] = log[r][i]) \/ lg[i] = m.entry
        <3>1. CASE Continues(log[r], m.entry)
            <4>1. lg = Append(log[r], m.entry) /\ k = Len(log[r]) + 1
                BY <3>1 DEF Continues
            <4> HIDE DEF lg, k
            <4>2. /\ lg \in Seq(Entry) /\ Len(lg) = Len(log[r]) + 1
                  /\ \A i \in 1..Len(log[r]) : lg[i] = log[r][i]
                  /\ lg[Len(log[r]) + 1] = m.entry
                BY <1>1, <2>1, <4>1, AppendProperties
            <4>3. Ext(log[r], lg)
                BY <1>1, <2>1, <4>1, ExtAppend
            <4>4. k <= Len(lg)
                BY <2>1, <4>1, <4>2
            <4>5. \A i \in 1..Len(lg) : i \in 1..Len(log[r]) \/ i = Len(log[r]) + 1
                BY <2>1, <4>2
            <4> QED BY <4>2, <4>3, <4>4, <4>5
        <3>2. CASE ~ Continues(log[r], m.entry)
            <4>1. lg = log[r] /\ k # Len(log[r]) + 1
                BY <3>2 DEF Continues
            <4> HIDE DEF lg, k
            <4>2. k <= Len(log[r]) + 1 => k <= Len(log[r])
                BY <2>1, <2>2, <4>1
            <4> QED BY <2>1, <4>1, <4>2, ExtReflexive
        <3> QED BY <3>1, <3>2
    <2>4. log'[r] = lg /\ \A s \in Replicas \ {r} : log'[s] = log[s]
        BY <1>1, <1>6 DEF Ready, Typed, TypeOK
    <2> HIDE DEF lg
    <2>5. LogStep(r)
        <3> DEFINE y == <<normal_view[r], log[r]>>
        <3>1. y \in Logs /\ y[1] = normal_view[r] /\ y[2] = log[r]
            BY <1>1, LogsMember
        <3> HIDE DEF y
        <3>2. <<m.view, m.entry>> \in Known
            BY KnownMember DEF Of
        <3>3. \A i \in 1..Len(lg) : <<m.view, lg[i]>> \in Known
            BY <2>1, <2>3, <3>1, <3>2, KnownMember
        <3> QED BY <1>3, <2>1, <2>3, <2>4, <3>1, <3>3 DEF LogStep
    <2>6. ASSUME NEW n \in msgs' \ msgs PROVE Polite(r, n)
        <3>1. /\ n.msg = (IF k <= Len(log[r]) + 1 THEN ack ELSE gap)
              /\ PrimaryOf(m.view) # r
            BY <1>2, <1>6, <2>6, Sent
        <3>2. CASE k <= Len(log[r]) + 1
            <4>1. n.msg = ack /\ k <= Len(log'[r])
                BY <2>3, <2>4, <3>1, <3>2
            <4> QED BY <1>1, <1>3, <1>6, <2>1, <4>1, PolitePrepareOk
        <3>3. CASE ~ (k <= Len(log[r]) + 1)
            BY <3>1, <3>3, PoliteGetState
        <3> QED BY <3>2, <3>3
    <2>7. ApplyStep(r)
        <3>1. LockedUpTo(m.view, m.commit)
            BY PacketCommitLocked
        <3>2. ApplyThrough(r, log'[r], m.commit, m.view)
            BY <1>6, <2>4
        <3> QED BY <1>1, <1>3, <2>1, <3>1, <3>2 DEF ApplyStep
    <2>8. DvcStep(r)
        BY <1>3 DEF DvcStep
    <2>9. AckStep(r)
        BY <1>1, <1>3, <1>6, SameAckStep
    <2> QED BY <2>5, <2>6, <2>7, <2>8, <2>9 DEF GoodStep
<1> QED BY <1>4, <1>5, <1>6 DEF OnPrepare

LEMMA CommitGood ==
    ASSUME Ready, Typed', NEW p \in msgs, ViewStep(p.dst), p.msg.type = "Commit",
           OnCommit(p)
    PROVE  GoodStep(p.dst)
<1> DEFINE r == p.dst
           m == p.msg
           gap == [type |-> "GetState", view |-> m.view, after |-> Len(log[r]), replica |-> r]
<1>1. r \in Replicas /\ m.view \in Views /\ m.commit \in Nat
    BY DeliveredType DEF Ready, Typed
<1>2. Rest(p) \in SUBSET msgs
    BY DEF Rest
<1>3. UNCHANGED <<normal_view, prepare_ok, dvc>>
    BY DEF OnCommit
<1>4. CASE IgnoreInView(r, m.view, Rest(p))
    BY <1>1, <1>2, <1>3, <1>4, IgnoreGood
<1>5. CASE SolicitState(r, m.view, Rest(p))
    BY <1>1, <1>2, <1>3, <1>5, SolicitGood
<1>6. CASE /\ m.view = view[r] /\ status[r] = "Normal"
           /\ ApplyThrough(r, log[r], m.commit, m.view)
           /\ msgs' = Rest(p) \cup (IF m.commit > Len(log[r])
                                    THEN Send(r, PrimaryOf(m.view), gap) ELSE {})
           /\ UNCHANGED <<view, status, log>>
    <2>1. normal_view'[r] = m.view
        BY <1>1, <1>3, <1>6, ViewsOfReplica DEF Ready, Typed
    <2>2. ASSUME NEW n \in msgs' \ msgs PROVE Polite(r, n)
        <3>1. n.msg = gap /\ PrimaryOf(m.view) # r
            BY <1>2, <1>6, <2>2, Sent
        <3> QED BY <3>1, PoliteGetState
    <2>3. ApplyStep(r)
        <3>1. LockedUpTo(m.view, m.commit)
            BY PacketCommitLocked
        <3> QED BY <1>1, <1>6, <2>1, <3>1 DEF ApplyStep
    <2> QED BY <1>1, <1>3, <1>6, <2>2, <2>3, QuietStep
<1> QED BY <1>4, <1>5, <1>6 DEF OnCommit

LEMMA PrepareOkGood ==
    ASSUME Ready, Typed', NEW p \in msgs, ViewStep(p.dst), p.msg.type = "PrepareOk",
           OnPrepareOk(p)
    PROVE  GoodStep(p.dst)
<1> DEFINE r == p.dst
           m == p.msg
           acked == prepare_ok[r] \cup {<<m.op_number, m.replica>>, <<m.op_number, r>>}
<1>1. r \in Replicas /\ m.view \in Views /\ m.op_number \in Nat /\ m.replica \in Replicas
    BY DeliveredType DEF Ready, Typed
<1>2. /\ UNCHANGED <<view, normal_view, status, log, dvc>>
      /\ Rest(p) \subseteq msgs
    BY DEF OnPrepareOk, Rest
<1>3. CASE msgs' = Rest(p) /\ UNCHANGED <<prepare_ok, commit, applied>>
    BY <1>1, <1>2, <1>3, QuietStep DEF ApplyStep
<1>4. ASSUME m.view = view[r], PrimaryOf(view[r]) = r, status[r] = "Normal",
             prepare_ok' = [prepare_ok EXCEPT ![r] = acked],
             \/ msgs' = Rest(p) /\ UNCHANGED <<commit, applied>>
             \/ \E t \in commit[r] .. Max({commit[r], Len(log[r])}) :
                   /\ CommitTarget(r, acked, t)
                   /\ ApplyThrough(r, log[r], t, view[r])
                   /\ msgs' = Rest(p) \cup
                         Broadcast(r, [type |-> "Commit", view |-> view[r], commit |-> t])
      PROVE  GoodStep(r)
    <2>0. /\ log[r] \in Seq(Entry) /\ Len(log[r]) \in Nat /\ view[r] \in Nat
          /\ normal_view[r] = view[r]
        BY <1>1, <1>4, ReplicaNumbers, ViewsOfReplica DEF Ready, Typed
    <2>1. commit[r] \in Nat /\ prepare_ok[r] \in SUBSET (Nat \X Replicas) /\ view[r] \in Views
        BY <1>1 DEF Ready, Typed, TypeOK
    <2>2. r \in Leading
        BY <1>1, <1>4 DEF Leading
    <2>3. <<view[r], m.op_number, m.replica>> \in AckSet
        <3>1. p \in Of("PrepareOk")
            BY DEF Of
        <3>2. <<m.view, m.op_number, m.replica>> \in AckSet
            BY <3>1, AcksAndCommitsDefined DEF AcksAndCommits
        <3> QED BY <1>4, <3>2
    <2>4. ASSUME NEW k, NEW s, <<view[r], k, s>> \in AckSet PROVE AckHolds(view[r], k, s)
        <3> DEFINE a == <<view[r], k, s>>
        <3>1. a[1] = view[r] /\ a[2] = k /\ a[3] = s /\ a \in AckSet
            BY <2>4
        <3> HIDE DEF a
        <3> QED BY <3>1 DEF Ready, SafetyInv, Acknowledged
    <2>5. m.op_number <= Len(log[r])
        <3>1. CASE m.op_number = 0
            BY <2>0, <3>1
        <3>2. CASE m.op_number > 0
            <4>1. PrimaryReaches(view[r], m.op_number)
                BY <2>3, <2>4, <3>2 DEF AckHolds
            <4> QED BY <1>4, <2>0, <4>1 DEF PrimaryReaches
        <3> QED BY <1>1, <3>1, <3>2
    <2>6. AckHolds(view[r], m.op_number, r)
        BY <1>1, <2>0, <2>5, FreshAcksHold DEF FreshAcks, Ready, SafetyInv
    <2>7. ASSUME NEW a \in acked
          PROVE  /\ AckHolds(view[r], a[1], a[2])
                 /\ \/ <<view[r], a[1], a[2]>> \in AckSet
                    \/ a[2] = r /\ a[1] <= Len(log[r])
        <3>1. CASE a \in prepare_ok[r]
            <4>1. <<view[r], a[1], a[2]>> \in AckSet
                BY <2>2, <3>1, AcksAndCommitsDefined DEF AcksAndCommits
            <4> QED BY <2>4, <4>1
        <3>2. CASE a = <<m.op_number, m.replica>>
            BY <2>3, <2>4, <3>2
        <3>3. CASE a = <<m.op_number, r>>
            BY <2>5, <2>6, <3>3
        <3> QED BY <2>7, <3>1, <3>2, <3>3
    <2>8. AckStep(r)
        <3>1. prepare_ok'[r] = acked /\ \A s \in Replicas \ {r} : prepare_ok'[s] = prepare_ok[s]
            BY <1>1, <1>4 DEF Ready, Typed, TypeOK
        <3> QED BY <1>2, <2>7, <3>1 DEF AckStep
    <2>9. LogStep(r) /\ DvcStep(r)
        BY <1>1, <1>2, SameLogStep DEF DvcStep
    <2>10. CASE msgs' = Rest(p) /\ UNCHANGED <<commit, applied>>
        BY <1>1, <1>2, <2>8, <2>9, <2>10 DEF GoodStep, ApplyStep
    <2>11. ASSUME NEW t \in commit[r] .. Max({commit[r], Len(log[r])}),
                  CommitTarget(r, acked, t), ApplyThrough(r, log[r], t, view[r]),
                  msgs' = Rest(p) \cup
                     Broadcast(r, [type |-> "Commit", view |-> view[r], commit |-> t])
           PROVE  GoodStep(r)
        <3>1. t \in Nat /\ (t > commit[r] => t <= Len(log[r]))
            BY <2>0, <2>1, MaxOfTwo
        <3>2. ASSUME NEW k \in commit[r] + 1 .. t
              PROVE  log[r][k] \in Entry /\ log[r][k].op_number = k /\ Locked(view[r], log[r][k])
            <4>1. k \in Nat /\ k > 0 /\ k \in 1..Len(log[r]) /\ k <= Len(log[r])
                BY <2>0, <2>1, <3>1
            <4>2. Cardinality(Acks(acked, k)) >= Quorum
                BY <2>11 DEF CommitTarget
            <4>3. Acks(acked, k) \in SUBSET Replicas
                BY DEF Acks
            <4>4. ASSUME NEW s \in Acks(acked, k) PROVE AckHolds(view[r], k, s)
                <5>1. <<k, s>> \in acked
                    BY DEF Acks
                <5> HIDE DEF acked
                <5> QED BY <2>7, <5>1
            <4>5. Typed /\ StructureInv
                BY DEF Ready, SafetyInv, StructureInv
            <4> DEFINE Q == Acks(acked, k)
            <4> HIDE DEF Q
            <4>6. /\ Q \in SUBSET Replicas /\ Cardinality(Q) >= Quorum
                  /\ \A s \in Q : AckHolds(view[r], k, s)
                BY <4>2, <4>3, <4>4 DEF Q
            <4>7. normal_view[PrimaryOf(view[r])] = view[r] /\ k <= Len(log[PrimaryOf(view[r])])
                BY <1>4, <2>0, <4>1
            <4>8. Locked(view[r], log[PrimaryOf(view[r])][k])
                BY <2>0, <4>1, <4>5, <4>6, <4>7, NewLock
            <4>9. log[r][k] \in Entry /\ log[r][k].op_number = k
                BY <1>1, <4>1, ReplicaNumbers, PlaceIsNumber DEF Ready
            <4> QED BY <1>4, <4>8, <4>9
        <3>3. LockedUpTo(view[r], t)
            <4>1. LockedUpTo(view[r], commit[r])
                BY <1>1, <2>0, OwnLocked
            <4>2. ASSUME NEW k \in 1..t
                  PROVE  \E u \in 0..view[r], e \in Entry : e.op_number = k /\ Locked(u, e)
                <5>1. CASE k \in 1..commit[r]
                    BY <4>1, <5>1 DEF LockedUpTo
                <5>2. CASE k \in commit[r] + 1 .. t
                    <6>1. view[r] \in 0..view[r]
                        BY <2>0
                    <6> QED BY <3>2, <5>2, <6>1
                <5> QED BY <2>1, <3>1, <5>1, <5>2
            <4> QED BY <4>2 DEF LockedUpTo
        <3>4. ApplyStep(r)
            BY <1>2, <2>0, <2>1, <2>11, <3>1, <3>3 DEF ApplyStep
        <3>5. ASSUME NEW n \in msgs' \ msgs PROVE Polite(r, n)
            <4>1. n.msg = [type |-> "Commit", view |-> view[r], commit |-> t]
                BY <1>2, <2>11, <3>5, Sent
            <4> QED BY <3>3, <4>1, PoliteCommit
        <3> QED BY <2>8, <2>9, <3>4, <3>5 DEF GoodStep
    <2> QED BY <1>4, <2>10, <2>11
<1> QED BY <1>3, <1>4 DEF OnPrepareOk

\* The entries of a suffix are entries of the log.
LEMMA SuffixEntries ==
    ASSUME NEW s \in Seq(Entry), NEW a \in Nat
    PROVE  \A k \in 1..Len(SubSeq(s, a + 1, Len(s))) :
              \E i \in 1..Len(s) : SubSeq(s, a + 1, Len(s))[k] = s[i]
<1> DEFINE u == SubSeq(s, a + 1, Len(s))
<1>0. Len(s) \in Nat
    OBVIOUS
<1>1. CASE a >= Len(s)
    <2>1. u = << >>
        BY <1>0, <1>1, SubSeqEmpty
    <2> HIDE DEF u
    <2>2. \A k \in 1..Len(u) : \E i \in 1..Len(s) : u[k] = s[i]
        BY <2>1
    <2> QED BY <2>2 DEF u
<1>2. CASE a < Len(s)
    <2>1. \A i \in a + 1 .. Len(s) : s[i] \in Entry
        BY <1>0
    <2>2. /\ Len(u) = IF a + 1 <= Len(s) THEN Len(s) - (a + 1) + 1 ELSE 0
          /\ \A i \in 1..(Len(s) - (a + 1) + 1) : u[i] = s[(a + 1) + i - 1]
        BY <1>0, <2>1, SubSeqProperties
    <2> HIDE DEF u
    <2>3. Len(u) = Len(s) - (a + 1) + 1
        BY <1>0, <1>2, <2>2
    <2>4. ASSUME NEW k \in 1..Len(u) PROVE \E i \in 1..Len(s) : u[k] = s[i]
        <3>1. (a + 1) + k - 1 \in 1..Len(s)
            BY <1>0, <1>2, <2>3
        <3> QED BY <2>2, <2>3, <3>1
    <2> QED BY <2>4 DEF u
<1> QED BY <1>0, <1>1, <1>2

LEMMA GetStateGood ==
    ASSUME Ready, Typed', NEW p \in msgs, ViewStep(p.dst), p.msg.type = "GetState",
           OnGetState(p)
    PROVE  GoodStep(p.dst)
<1> DEFINE r == p.dst
           m == p.msg
           suffix == SubSeq(log[r], m.after + 1, Len(log[r]))
           reply == [type |-> "NewState", view |-> m.view, suffix |-> suffix,
                     commit |-> commit[r]]
<1>1. r \in Replicas /\ m.view \in Views /\ m.after \in Nat /\ m.replica \in Replicas
    BY DeliveredType DEF Ready, Typed
<1>2. UNCHANGED <<view, normal_view, status, log, commit, prepare_ok, dvc, applied>>
    BY DEF OnGetState
<1>3. log[r] \in Seq(Entry) /\ Len(log[r]) \in Nat
    BY <1>1, ReplicaNumbers DEF Ready
<1>4. normal_view[m.replica] < m.view => suffix = log[r]
    <2>1. m.after = 0 \/ normal_view[m.replica] >= m.view
        BY DEF Ready, Typed, NumberInv, NumberedMsg
    <2>2. normal_view[m.replica] \in Nat /\ m.view \in Nat
        BY <1>1, ReplicaNumbers, ViewsAreNaturals DEF Ready
    <2>3. CASE m.after = 0
        BY <1>3, <2>3
    <2> QED BY <2>1, <2>2, <2>3
<1>5. \A k \in 1..Len(suffix) : \E i \in 1..Len(log[r]) : suffix[k] = log[r][i]
    BY <1>1, <1>3, SuffixEntries
<1> HIDE DEF suffix
<1>6. ASSUME NEW n \in msgs' \ msgs PROVE Polite(r, n)
    <2>1. n \in Send(r, m.replica, reply) /\ m.view = view[r] /\ status[r] = "Normal"
        BY <1>6 DEF OnGetState, Rest, suffix
    <2>2. n.msg = reply /\ n.dst = m.replica
        BY <2>1, Sent
    <2>3. normal_view[r] = m.view
        BY <1>1, <2>1, ViewsOfReplica DEF Ready, Typed
    <2>4. m.replica # PrimaryOf(m.view)
        BY DEF Ready, SafetyInv, NotToItself
    <2>5. LockedUpTo(m.view, commit[r])
        BY <1>1, <2>3, OwnLocked
    <2> QED BY <1>4, <1>5, <2>2, <2>3, <2>4, <2>5 DEF Polite
<1> QED BY <1>1, <1>2, <1>6, QuietStep DEF ApplyStep

LEMMA NewStateGood ==
    ASSUME Ready, Typed', NEW p \in msgs, ViewStep(p.dst), p.msg.type = "NewState",
           OnNewState(p)
    PROVE  GoodStep(p.dst)
<1> DEFINE r == p.dst
           m == p.msg
           lg == IF status[r] = "Normal" THEN GapFill(log[r], m.suffix) ELSE m.suffix
<1>1. r \in Replicas /\ m.view \in Views /\ m.suffix \in Seq(Entry) /\ m.commit \in Nat
    BY DeliveredType DEF Ready, Typed
<1>2. UNCHANGED <<view, prepare_ok, dvc>> /\ Rest(p) \subseteq msgs
    BY DEF OnNewState, Rest
<1>3. CASE msgs' = Rest(p) /\ UNCHANGED <<normal_view, status, log, commit, applied>>
    BY <1>1, <1>2, <1>3, QuietStep DEF ApplyStep
<1>4. CASE /\ m.view = view[r] /\ log' = [log EXCEPT ![r] = lg]
           /\ ApplyThrough(r, lg, m.commit, m.view)
           /\ msgs' = Rest(p) \cup Send(r, PrimaryOf(m.view),
                         [type |-> "PrepareOk", view |-> m.view, op_number |-> Len(lg),
                          replica |-> r])
           /\ normal_view' = [normal_view EXCEPT ![r] = m.view]
    <2>1. /\ log[r] \in Seq(Entry) /\ Len(log[r]) \in Nat /\ view[r] \in Nat
          /\ normal_view[r] \in Nat /\ normal_view[r] <= view[r]
          /\ status[r] = "Normal" <=> normal_view[r] = view[r]
        BY <1>1, ReplicaNumbers, ViewsOfReplica DEF Ready, Typed
    <2>2. Consecutive(m.suffix)
        BY DEF Ready, Typed, NumberInv, NumberedMsg
    <2>3. p \in Of("NewState")
        BY DEF Of
    <2>4. normal_view'[r] = m.view /\ view'[r] = m.view
        BY <1>1, <1>2, <1>4 DEF Ready, Typed, TypeOK
    <2>5. log'[r] = lg /\ \A s \in Replicas \ {r} : log'[s] = log[s]
        BY <1>1, <1>4 DEF Ready, Typed, TypeOK
    <2>6. /\ lg \in Seq(Entry) /\ Len(lg) \in Nat
          /\ normal_view[r] = m.view => Ext(log[r], lg)
          /\ \E y \in Logs : y[1] = m.view /\ Ext(y[2], lg)
          /\ \A k \in 1..Len(lg) : <<m.view, lg[k]>> \in Known
        <3>1. CASE status[r] = "Normal"
            <4>1. lg = GapFill(log[r], m.suffix) /\ normal_view[r] = m.view
                BY <1>4, <2>1, <3>1
            <4> HIDE DEF lg
            <4> DEFINE G == GapFill(log[r], m.suffix)
            <4>0. /\ G \in Seq(Entry) /\ Len(log[r]) <= Len(G)
                  /\ \A k \in 1..Len(log[r]) : G[k] = log[r][k]
                  /\ \A k \in Len(log[r]) + 1 .. Len(G) : \E i \in 1..Len(m.suffix) :
                        G[k] = m.suffix[i] /\ m.suffix[i].op_number = k
                BY <1>1, <2>1, <2>2, GapFillEntries
            <4> HIDE DEF G
            <4>2. /\ lg \in Seq(Entry) /\ Len(log[r]) <= Len(lg)
                  /\ \A k \in 1..Len(log[r]) : lg[k] = log[r][k]
                  /\ \A k \in Len(log[r]) + 1 .. Len(lg) : \E i \in 1..Len(m.suffix) :
                        lg[k] = m.suffix[i]
                <5>1. lg = G
                    BY <4>1 DEF G
                <5> QED BY <4>0, <5>1
            <4>3. Ext(log[r], lg)
                BY <4>2 DEF Ext
            <4> DEFINE y == <<normal_view[r], log[r]>>
            <4>4. y \in Logs /\ y[1] = m.view /\ y[2] = log[r]
                BY <1>1, <4>1, LogsMember
            <4> HIDE DEF y
            <4>5. ASSUME NEW k \in 1..Len(lg) PROVE <<m.view, lg[k]>> \in Known
                <5>1. CASE k \in 1..Len(log[r])
                    BY <4>2, <4>4, <5>1, KnownMember
                <5>2. CASE k \in Len(log[r]) + 1 .. Len(lg)
                    BY <2>3, <4>2, <5>2, KnownMember
                <5>3. Len(lg) \in Nat
                    BY <4>2
                <5> QED BY <2>1, <5>1, <5>2, <5>3
            <4> QED BY <4>2, <4>3, <4>4, <4>5
        <3>2. CASE status[r] # "Normal"
            <4>1. lg = m.suffix /\ normal_view[r] < m.view
                BY <1>4, <2>1, <3>2
            <4> HIDE DEF lg
            <4> DEFINE y == <<m.view, m.suffix>>
            <4>2. y \in Logs /\ y[1] = m.view /\ y[2] = m.suffix
                BY <2>3, <4>1, LogsMember
            <4> HIDE DEF y
            <4>3. Ext(y[2], lg)
                BY <1>1, <4>1, <4>2, ExtReflexive
            <4>4. normal_view[r] # m.view
                BY <1>4, <2>1, <4>1
            <4> QED BY <1>1, <2>3, <4>1, <4>2, <4>3, <4>4, KnownMember
        <3> QED BY <3>1, <3>2
    <2> HIDE DEF lg
    <2>7. LogStep(r)
        BY <2>4, <2>5, <2>6 DEF LogStep
    <2>8. r # PrimaryOf(m.view)
        BY DEF Ready, SafetyInv, NotToItself
    <2>9. AckStep(r)
        BY <1>1, <1>2, <2>4, <2>8, SameAckStep
    <2>10. ASSUME NEW n \in msgs' \ msgs PROVE Polite(r, n)
        <3>1. n.msg = [type |-> "PrepareOk", view |-> m.view, op_number |-> Len(lg),
                       replica |-> r]
            BY <1>2, <1>4, <2>10, Sent
        <3>2. Len(lg) <= Len(log'[r])
            BY <2>5, <2>6
        <3> QED BY <2>4, <3>1, <3>2, PolitePrepareOk
    <2>11. ApplyStep(r)
        <3>1. LockedUpTo(normal_view'[r], m.commit)
            BY <2>4, PacketCommitLocked
        <3>2. ApplyThrough(r, log'[r], m.commit, m.view)
            BY <1>4, <2>5
        <3> QED BY <1>1, <3>1, <3>2 DEF ApplyStep
    <2>12. DvcStep(r)
        BY <1>2 DEF DvcStep
    <2> QED BY <2>7, <2>9, <2>10, <2>11, <2>12 DEF GoodStep
<1> QED BY <1>3, <1>4 DEF OnNewState

LEMMA StartViewGood ==
    ASSUME Ready, Typed', ~ misinstalled', NEW p \in msgs, ViewStep(p.dst),
           p.msg.type = "StartView", OnStartView(p)
    PROVE  GoodStep(p.dst)
<1> DEFINE r == p.dst
           m == p.msg
<1>1. r \in Replicas /\ m.view \in Views /\ m.log \in Seq(Entry) /\ m.commit \in Nat
    BY DeliveredType DEF Ready, Typed
<1>2. UNCHANGED <<prepare_ok, dvc>> /\ Rest(p) \subseteq msgs
    BY DEF OnStartView, Rest
<1>3. CASE msgs' = Rest(p) /\ UNCHANGED <<view, normal_view, status, log, commit, applied>>
    BY <1>1, <1>2, <1>3, QuietStep DEF ApplyStep
<1>4. CASE /\ ~ Stale(r, m.view) /\ Adopt(r, m.view, "Normal")
           /\ normal_view' = [normal_view EXCEPT ![r] = m.view]
           /\ log' = [log EXCEPT ![r] = m.log]
           /\ ApplyThrough(r, m.log, m.commit, m.view)
           /\ msgs' = Rest(p) \cup Send(r, PrimaryOf(m.view),
                         [type |-> "PrepareOk", view |-> m.view, op_number |-> Len(m.log),
                          replica |-> r])
           /\ ~ Misinstalls(r, m.view, m.log)
    <2>1. /\ log[r] \in Seq(Entry) /\ Len(log[r]) \in Nat /\ view[r] \in Nat
          /\ normal_view[r] \in Nat /\ normal_view[r] <= view[r]
          /\ status[r] = "Normal" <=> normal_view[r] = view[r]
        BY <1>1, ReplicaNumbers, ViewsOfReplica DEF Ready, Typed
    <2>2. m.view \in Nat
        BY <1>1, ViewsAreNaturals
    <2>3. normal_view'[r] = m.view /\ view'[r] = m.view
        BY <1>1, <1>4 DEF Adopt, Ready, Typed, TypeOK
    <2>4. log'[r] = m.log /\ \A s \in Replicas \ {r} : log'[s] = log[s]
        BY <1>1, <1>4 DEF Ready, Typed, TypeOK
    <2>5. normal_view[r] = m.view => Ext(log[r], m.log)
        <3> SUFFICES ASSUME normal_view[r] = m.view PROVE Ext(log[r], m.log)
            OBVIOUS
        <3>1. view[r] = m.view /\ status[r] = "Normal"
            BY <1>4, <2>1, <2>2 DEF Stale
        <3>2. IsPrefix(log[r], m.log)
            BY <1>4, <3>1 DEF Misinstalls
        <3> QED BY <1>1, <2>1, <3>2, PrefixExt
    <2> DEFINE y == <<m.view, m.log>>
    <2>6. y \in Logs /\ y[1] = m.view /\ y[2] = m.log
        BY LogsMember DEF Of
    <2> HIDE DEF y
    <2>7. Ext(y[2], m.log)
        BY <1>1, <2>6, ExtReflexive
    <2>8. \A k \in 1..Len(m.log) : <<m.view, m.log[k]>> \in Known
        BY <2>6, KnownMember
    <2>9. LogStep(r)
        BY <2>3, <2>4, <2>5, <2>6, <2>7, <2>8 DEF LogStep
    <2>10. r # PrimaryOf(m.view)
        BY DEF Ready, SafetyInv, NotToItself
    <2>11. AckStep(r)
        BY <1>1, <1>2, <2>3, <2>10, SameAckStep
    <2>12. ASSUME NEW n \in msgs' \ msgs PROVE Polite(r, n)
        <3>1. n.msg = [type |-> "PrepareOk", view |-> m.view, op_number |-> Len(m.log),
                       replica |-> r]
            BY <1>2, <1>4, <2>12, Sent
        <3>2. Len(m.log) <= Len(log'[r])
            BY <1>1, <2>4
        <3> QED BY <2>3, <3>1, <3>2, PolitePrepareOk
    <2>13. ApplyStep(r)
        <3>1. LockedUpTo(normal_view'[r], m.commit)
            BY <2>3, PacketCommitLocked
        <3>2. ApplyThrough(r, log'[r], m.commit, m.view)
            BY <1>4, <2>4
        <3> QED BY <1>1, <3>1, <3>2 DEF ApplyStep
    <2>14. DvcStep(r)
        BY <1>2 DEF DvcStep
    <2> QED BY <2>9, <2>11, <2>12, <2>13, <2>14 DEF GoodStep
<1> QED BY <1>3, <1>4 DEF OnStartView

\* The view change: the log r starts view v with is the best of a quorum.
LEMMA FinishGood ==
    ASSUME Ready, Typed', ~ misinstalled', NEW r \in Replicas, ViewStep(r), NEW v \in Views,
           NEW ds \in Seq(Dvc), NEW net, FinishViewChange(r, v, ds, net),
           PrimaryOf(v) = r, v >= view[r], dvc'[r][v] = ds, DvcStep(r),
           \A i \in DOMAIN ds : <<v, ds[i]>> \in Dvcs \/ Mine(r, <<v, ds[i]>>),
           \A p \in net \ msgs : Polite(r, p)
    PROVE  GoodStep(r)
<1>1. PICK b \in DOMAIN ds, x \in DOMAIN ds :
          /\ IsBest(ds, b)
          /\ Adopt(r, v, "Normal")
          /\ normal_view' = [normal_view EXCEPT ![r] = v]
          /\ log' = [log EXCEPT ![r] = ds[b].log]
          /\ prepare_ok' = [prepare_ok EXCEPT ![r] = {}]
          /\ ApplyThrough(r, ds[b].log, ds[x].commit, v)
          /\ msgs' = net \cup Broadcast(r, [type |-> "StartView", view |-> v,
                                            log |-> ds[b].log, commit |-> ds[x].commit])
          /\ ~ Misinstalls(r, v, ds[b].log)
          /\ ~ (Cardinality({ds[i].replica : i \in DOMAIN ds}) < Quorum)
    BY DEF FinishViewChange
<1>2. ds[b] \in Dvc /\ ds[x] \in Dvc
    OBVIOUS
<1>3. /\ ds[b].log \in Seq(Entry) /\ ds[x].commit \in Nat
      /\ ds[x].normal_view \in Views /\ v \in Nat /\ ds[x].normal_view \in Nat
    BY <1>2, ViewsAreNaturals DEF Dvc
<1>4. /\ log[r] \in Seq(Entry) /\ view[r] \in Nat
      /\ normal_view[r] \in Nat /\ normal_view[r] <= view[r]
      /\ status[r] = "Normal" <=> normal_view[r] = view[r]
    BY ReplicaNumbers, ViewsOfReplica DEF Ready, Typed
<1>5. normal_view'[r] = v
    BY <1>1 DEF Ready, Typed, TypeOK
<1>6. log'[r] = ds[b].log /\ \A s \in Replicas \ {r} : log'[s] = log[s]
    BY <1>1 DEF Ready, Typed, TypeOK
<1>7. prepare_ok'[r] = {} /\ \A s \in Replicas \ {r} : prepare_ok'[s] = prepare_ok[s]
    BY <1>1 DEF Ready, Typed, TypeOK
<1>8. Grown(ds, ds[b].log)
    <2>1. \A j \in DOMAIN ds : ~ Better(ds[j], ds[b])
        BY <1>1 DEF IsBest
    <2>2. Ext(ds[b].log, ds[b].log)
        BY <1>3, ExtReflexive
    <2> DEFINE A == {ds[i].replica : i \in DOMAIN ds}
    <2>3. A \in SUBSET Replicas
        <3>1. \A i \in DOMAIN ds : ds[i] \in Dvc
            OBVIOUS
        <3>2. \A d \in Dvc : d.replica \in Replicas
            BY DEF Dvc
        <3>3. \A i \in DOMAIN ds : ds[i].replica \in Replicas
            BY <3>1, <3>2
        <3> QED BY <3>3
    <2>4. ~ (Cardinality(A) < Quorum)
        BY <1>1
    <2>5. Cardinality(A) \in Nat /\ Quorum \in Nat
        <3> HIDE DEF A
        <3>1. IsFiniteSet(A)
            BY <2>3, ReplicasFinite, FS_Subset
        <3>2. Quorum \in Nat
            BY NAssumption DEF Quorum
        <3> QED BY <3>1, <3>2, FS_CardinalityType
    <2> HIDE DEF A
    <2>6. Cardinality(A) >= Quorum
        BY <2>4, <2>5
    <2>7. Cardinality({ds[j].replica : j \in DOMAIN ds}) >= Quorum
        BY <2>6 DEF A
    <2>8. DOMAIN ds \in SUBSET DOMAIN ds
        OBVIOUS
    <2> QED BY <2>1, <2>2, <2>7, <2>8 DEF Grown
<1>9. v = normal_view[r] => Ext(log[r], ds[b].log)
    <2> SUFFICES ASSUME v = normal_view[r] PROVE Ext(log[r], ds[b].log)
        OBVIOUS
    <2>1. view[r] = v /\ status[r] = "Normal"
        BY <1>3, <1>4
    <2>2. IsPrefix(log[r], ds[b].log)
        BY <1>1, <2>1 DEF Misinstalls
    <2> QED BY <1>3, <1>4, <2>2, PrefixExt
<1>10. LogStep(r)
    <2>1. <<v, log'[r]>>[1] = v /\ <<v, log'[r]>>[2] = log'[r]
        OBVIOUS
    <2>2. Crowned(r, <<v, log'[r]>>)
        BY <1>6, <1>8, <2>1 DEF Crowned
    <2> QED BY <1>5, <1>6, <1>9, <2>2 DEF LogStep
<1>11. AckStep(r)
    BY <1>7 DEF AckStep
<1>12. LockedUpTo(v, ds[x].commit)
    <2> DEFINE y == <<v, ds[x]>>
    <2>1. y[1] = v /\ y[2] = ds[x] /\ (y \in Dvcs \/ Mine(r, y))
        OBVIOUS
    <2> HIDE DEF y
    <2>2. CASE y \in Dvcs
        <3>1. <<y[2].normal_view, y[2].commit>> \in CommitNumbers
            BY <2>2 DEF CommitNumbers
        <3>2. LockedUpTo(ds[x].normal_view, ds[x].commit)
            BY <2>1, <3>1 DEF Ready, SafetyInv, CommitsLocked
        <3>3. ds[x].normal_view < v
            BY <2>1, <2>2 DEF Ready, SafetyInv, SentInView
        <3>4. ds[x].normal_view <= v /\ ds[x].commit <= ds[x].commit
            BY <1>3, <3>3
        <3> QED BY <1>3, <3>2, <3>4, LockedUpToLess
    <2>3. CASE Mine(r, y)
        <3>1. ds[x].commit = commit[r] /\ normal_view[r] < v
            BY <2>1, <2>3 DEF Mine
        <3>2. LockedUpTo(normal_view[r], commit[r])
            BY OwnLocked
        <3>3. normal_view[r] <= v /\ ds[x].commit <= ds[x].commit
            BY <1>3, <1>4, <3>1
        <3> QED BY <1>3, <1>4, <3>1, <3>2, <3>3, LockedUpToLess
    <2> QED BY <2>1, <2>2, <2>3
<1>13. ApplyStep(r)
    BY <1>1, <1>3, <1>5, <1>6, <1>12 DEF ApplyStep
<1>14. ASSUME NEW p \in msgs' \ msgs PROVE Polite(r, p)
    <2>1. CASE p \in net \ msgs
        BY <2>1
    <2>2. CASE /\ p.dst # r
               /\ p.msg = [type |-> "StartView", view |-> v, log |-> ds[b].log,
                           commit |-> ds[x].commit]
        BY <1>5, <1>6, <1>12, <2>2 DEF Polite
    <2>3. PICK q : q = [type |-> "StartView", view |-> v, log |-> ds[b].log,
                        commit |-> ds[x].commit]
        OBVIOUS
    <2>4. msgs' = net \cup Broadcast(r, q)
        BY <1>1, <2>3
    <2>5. p \in net \ msgs \/ p \in Broadcast(r, q)
        BY <1>14, <2>4
    <2>6. CASE p \in Broadcast(r, q)
        <3>1. p.msg = q /\ p.dst # r
            BY <2>6 DEF Broadcast
        <3> QED BY <2>2, <2>3, <3>1
    <2> QED BY <2>1, <2>5, <2>6
<1> QED BY <1>10, <1>11, <1>13, <1>14 DEF GoodStep

LEMMA PushedGood ==
    ASSUME Ready, Typed', ~ misinstalled', NEW r \in Replicas, ViewStep(r), NEW v \in Views,
           NEW d \in Dvc, <<v, d>> \in Dvcs \/ Mine(r, <<v, d>>),
           NEW av, NEW st, NEW net, PushDvc(r, v, d, av, st, net),
           (av = view[r] /\ st = status[r]) \/ st = "ViewChange",
           \A p \in net \ msgs : Polite(r, p)
    PROVE  GoodStep(r)
<1> DEFINE ds == Append(dvc[r][v], d)
<1>1. dvc[r][v] \in Seq(Dvc)
    BY DvcTables DEF Ready
<1>2. /\ dvc'[r][v] = ds /\ \A w \in Views \ {v} : dvc'[r][w] = dvc[r][w]
    BY DEF PushDvc, Ready, Typed, TypeOK
<1>3. DvcStep(r)
    <2>1. Keeps(r, v, d)
        BY <1>2 DEF Keeps
    <2> QED BY <1>2, <2>1 DEF DvcStep
<1>4. /\ ds \in Seq(Dvc)
      /\ \A i \in DOMAIN ds : <<v, ds[i]>> \in Dvcs \/ Mine(r, <<v, ds[i]>>)
    <2>1. /\ ds \in Seq(Dvc) /\ Len(ds) = Len(dvc[r][v]) + 1 /\ Len(dvc[r][v]) \in Nat
          /\ \A i \in 1..Len(dvc[r][v]) : ds[i] = dvc[r][v][i]
          /\ ds[Len(dvc[r][v]) + 1] = d
        BY <1>1, AppendProperties
    <2>2. \A i \in 1..Len(dvc[r][v]) : <<v, dvc[r][v][i]>> \in Dvcs
        <3>1. DOMAIN dvc[r][v] = 1..Len(dvc[r][v])
            <4>1. \A q \in Seq(Dvc) : DOMAIN q = 1..Len(q)
                OBVIOUS
            <4> QED BY <1>1, <4>1
        <3> QED BY <3>1, DvcsMember
    <2> HIDE DEF ds
    <2>3. DOMAIN ds = 1..(Len(dvc[r][v]) + 1)
        BY <2>1
    <2>4. \A i \in DOMAIN ds : i \in 1..Len(dvc[r][v]) \/ i = Len(dvc[r][v]) + 1
        BY <2>1, <2>3
    <2> QED BY <2>1, <2>2, <2>4
<1>5. CASE MayFinish(r, v, ds) /\ FinishViewChange(r, v, ds, net)
    <2>1. PrimaryOf(v) = r /\ v >= view[r]
        BY <1>5 DEF MayFinish
    <2> HIDE DEF ds
    <2> QED BY <1>2, <1>3, <1>4, <1>5, <2>1, FinishGood
<1>6. CASE /\ Adopt(r, av, st) /\ msgs' = net
           /\ UNCHANGED <<normal_view, log, prepare_ok, commit, applied>>
    <2>1. view'[r] = av /\ status'[r] = st
        BY <1>6 DEF Adopt, Ready, Typed, TypeOK
    <2>2. (view'[r] = view[r] /\ status'[r] = status[r]) \/ status'[r] # "Normal"
        BY <2>1
    <2>3. AckStep(r)
        BY <1>6, <2>2, SameAckStep
    <2>4. LogStep(r) /\ ApplyStep(r)
        BY <1>6, SameLogStep DEF ApplyStep
    <2> QED BY <1>3, <1>6, <2>3, <2>4 DEF GoodStep
<1> QED BY <1>5, <1>6 DEF PushDvc

LEMMA SvcGood ==
    ASSUME Ready, Typed', ~ misinstalled', NEW r \in Replicas, ViewStep(r), NEW v \in Views,
           NEW st, NEW votes, NEW net, MaybeFinishSvc(r, v, st, votes, net),
           (v = view[r] /\ st = status[r]) \/ st = "ViewChange",
           st = "ViewChange" => normal_view[r] < v,
           \A p \in net \ msgs : Polite(r, p)
    PROVE  GoodStep(r)
<1> DEFINE mine == [log |-> log[r], commit |-> commit[r], normal_view |-> normal_view[r],
                    replica |-> r]
           msg == [type |-> "DoViewChange", view |-> v, dvc |-> mine]
<1>1. mine \in Dvc
    BY DEF Dvc, Ready, Typed, TypeOK
<1>2. v \in Nat /\ v <= v
    BY ViewsAreNaturals
<1>3. ASSUME st = "ViewChange", v <= view'[r] PROVE Mine(r, <<v, mine>>)
    <2>1. <<v, mine>>[1] = v /\ <<v, mine>>[2] = mine
        OBVIOUS
    <2> QED BY <1>3, <2>1 DEF Mine
<1>4. /\ mine.log = log[r] /\ mine.commit = commit[r] /\ mine.normal_view = normal_view[r]
      /\ mine.replica = r
    OBVIOUS
<1> HIDE DEF mine
<1>5. CASE st = "ViewChange" /\ PushDvc(r, v, mine, v, st, net)
    <2>1. view'[r] = v
        BY <1>5 DEF PushDvc, FinishViewChange, Adopt, Ready, Typed, TypeOK
    <2>2. Mine(r, <<v, mine>>)
        BY <1>2, <1>3, <1>5, <2>1
    <2> QED BY <1>1, <1>5, <2>2, PushedGood
<1>6. ASSUME Adopt(r, v, st),
             msgs' \subseteq net \cup (IF st = "ViewChange" THEN Send(r, PrimaryOf(v), msg) ELSE {}),
             UNCHANGED <<dvc, normal_view, log, prepare_ok, commit, applied>>
      PROVE  GoodStep(r)
    <2>1. view'[r] = v /\ status'[r] = st
        BY <1>6 DEF Adopt, Ready, Typed, TypeOK
    <2>2. ASSUME NEW p \in msgs' \ msgs PROVE Polite(r, p)
        <3>1. CASE p \in net \ msgs
            BY <3>1
        <3>2. CASE st = "ViewChange" /\ p.msg = msg
            <4>1. Mine(r, <<v, mine>>)
                BY <1>2, <1>3, <2>1, <3>2
            <4> QED BY <3>2, <4>1 DEF Polite
        <3> QED BY <1>6, <2>2, <3>1, <3>2, Sent
    <2>3. (view'[r] = view[r] /\ status'[r] = status[r]) \/ status'[r] # "Normal"
        BY <2>1
    <2> QED BY <1>6, <2>2, <2>3, QuietStep DEF ApplyStep
<1> QED BY <1>5, <1>6 DEF MaybeFinishSvc, mine

LEMMA ReceiveGood ==
    ASSUME Ready, Typed', ~ misinstalled', NEW p \in msgs, Receive(p)
    PROVE  p.dst \in Replicas /\ GoodStep(p.dst)
<1>1. p.dst \in Replicas /\ ViewStep(p.dst) /\ TypeOK
    BY ViewStepReceive DEF Ready, Typed
<1>2. Rest(p) \in SUBSET msgs
    BY DEF Rest
<1>3. CASE p.msg.type = "Request" /\ ReceiveRequest(p)
    <2>1. p.msg.client \in Clients /\ p.msg.req \in Reqs
        BY <1>1, <1>3, DeliveredType
    <2> QED BY <1>1, <1>2, <1>3, <2>1, RequestGood DEF ReceiveRequest
<1>4. CASE p.msg.type = "StartViewChange" /\ OnStartViewChange(p)
    <2>1. p.msg.view \in Views
        BY <1>1, <1>4, DeliveredType
    <2>2. CASE /\ msgs' = Rest(p)
               /\ UNCHANGED <<view, status, dvc, normal_view, log, prepare_ok, commit, applied>>
        BY <1>1, <1>2, <2>2, QuietStep DEF ApplyStep
    <2>3. ASSUME NEW votes, NEW st,
                 st = (IF p.msg.view > view[p.dst] THEN "ViewChange" ELSE status[p.dst]),
                 ~ Stale(p.dst, p.msg.view),
                 MaybeFinishSvc(p.dst, p.msg.view, st, votes, Rest(p))
          PROVE  GoodStep(p.dst)
        <3>1. p.msg.view \in Nat
            BY <2>1, ViewsAreNaturals
        <3>2. /\ view[p.dst] \in Nat /\ normal_view[p.dst] \in Nat
              /\ normal_view[p.dst] <= view[p.dst]
              /\ status[p.dst] = "Normal" <=> normal_view[p.dst] = view[p.dst]
            BY <1>1, ViewsOfReplica DEF Ready, Typed
        <3>3. p.msg.view >= view[p.dst]
            BY <2>3, <3>1, <3>2 DEF Stale
        <3>4. /\ (p.msg.view = view[p.dst] /\ st = status[p.dst]) \/ st = "ViewChange"
              /\ st = "ViewChange" => normal_view[p.dst] < p.msg.view
            BY <2>3, <3>1, <3>2, <3>3
        <3> QED BY <1>1, <1>2, <2>1, <2>3, <3>4, SvcGood
    <2>4. CASE /\ ~ Stale(p.dst, p.msg.view)
               /\ MaybeFinishSvc(p.dst, p.msg.view,
                                 IF p.msg.view > view[p.dst] THEN "ViewChange" ELSE status[p.dst],
                                 svc_votes[p.dst] \cup {<<p.msg.view, p.msg.replica>>,
                                                        <<p.msg.view, p.dst>>},
                                 Rest(p))
        <3>1. PICK st : st = IF p.msg.view > view[p.dst] THEN "ViewChange" ELSE status[p.dst]
            OBVIOUS
        <3>2. PICK votes : votes = svc_votes[p.dst] \cup {<<p.msg.view, p.msg.replica>>,
                                                          <<p.msg.view, p.dst>>}
            OBVIOUS
        <3>3. MaybeFinishSvc(p.dst, p.msg.view, st, votes, Rest(p))
            BY <2>4, <3>1, <3>2
        <3> QED BY <1>1, <2>3, <2>4, <3>1, <3>3
    <2>5. \/ /\ msgs' = Rest(p)
             /\ UNCHANGED <<view, status, dvc, normal_view, log, prepare_ok, commit, applied>>
          \/ /\ ~ Stale(p.dst, p.msg.view)
             /\ MaybeFinishSvc(p.dst, p.msg.view,
                               IF p.msg.view > view[p.dst] THEN "ViewChange" ELSE status[p.dst],
                               svc_votes[p.dst] \cup {<<p.msg.view, p.msg.replica>>,
                                                      <<p.msg.view, p.dst>>},
                               Rest(p))
        BY <1>4 DEF OnStartViewChange
    <2> QED BY <1>1, <2>2, <2>4, <2>5
<1>5. CASE p.msg.type = "DoViewChange" /\ OnDoViewChange(p)
    <2>1. p.msg.view \in Views /\ p.msg.dvc \in Dvc
        BY <1>1, <1>5, DeliveredType
    <2>2. <<p.msg.view, p.msg.dvc>> \in Dvcs
        BY <1>5, DvcsMember DEF Of
    <2>3. PushDvc(p.dst, p.msg.view, p.msg.dvc, view[p.dst], status[p.dst], Rest(p))
        BY <1>5 DEF OnDoViewChange
    <2> QED BY <1>1, <1>2, <2>1, <2>2, <2>3, PushedGood
<1>6. CASE p.msg.type = "StartView" /\ OnStartView(p)
    BY <1>1, <1>6, StartViewGood
<1> QED BY <1>1, <1>3, <1>4, <1>5, <1>6, PrepareGood, PrepareOkGood, CommitGood,
           GetStateGood, NewStateGood DEF Receive

LEMMA TickGood ==
    ASSUME Ready, Typed', ~ misinstalled', NEW r \in Replicas, Tick(r)
    PROVE  GoodStep(r)
<1>0. ViewStep(r)
    BY ViewStepTick DEF Ready, Typed
<1>01. /\ view[r] \in Nat /\ normal_view[r] \in Nat /\ max_view_seen[r] \in Nat
       /\ normal_view[r] <= view[r]
       /\ status[r] = "Normal" <=> normal_view[r] = view[r]
       /\ view[r] \in Views /\ commit[r] \in Nat /\ Len(log[r]) \in Nat
    <2>1. view[r] \in Views /\ commit[r] \in Nat
        BY DEF Ready, Typed, TypeOK
    <2> QED BY <2>1, ViewsOfReplica, ReplicaNumbers DEF Ready, Typed
<1>1. CASE Heartbeat(r)
    <2>0. /\ UNCHANGED <<view, normal_view, status, log, commit, dvc, prepare_ok, applied>>
          /\ PrimaryOf(view[r]) = r /\ normal_view[r] = view[r]
        BY <1>01, <1>1 DEF Heartbeat, replica_vars
    <2>1. ASSUME NEW p \in msgs' \ msgs PROVE Polite(r, p)
        <3> DEFINE cm == [type |-> "Commit", view |-> view[r], commit |-> commit[r]]
                   pm(k) == [type |-> "Prepare", view |-> view[r], entry |-> log[r][k],
                             commit |-> commit[r]]
                   ks == commit[r] + 1 .. Len(log[r])
        <3>0. LockedUpTo(view[r], commit[r])
            BY <2>0, OwnLocked
        <3>1. p \in Broadcast(r, cm) \/ \E k \in ks : p \in Broadcast(r, pm(k))
            BY <1>1, <2>1 DEF Heartbeat
        <3>2. CASE p \in Broadcast(r, cm)
            BY <3>0, <3>2, Sent, PoliteCommit
        <3>3. ASSUME NEW k \in ks, p \in Broadcast(r, pm(k))
              PROVE  Polite(r, p)
            <4>0. PICK q : q = pm(k)
                OBVIOUS
            <4>01. p \in Broadcast(r, q)
                BY <3>3, <4>0
            <4>02. p.msg = q /\ p.dst # r
                BY <4>01, Sent
            <4>1. p.msg = pm(k) /\ p.dst # r
                BY <4>0, <4>02
            <4>2. k \in 1..Len(log'[r]) /\ log'[r][k] = log[r][k]
                BY <1>01, <2>0
            <4> QED BY <2>0, <3>0, <4>1, <4>2, PolitePrepare
        <3> QED BY <3>1, <3>2, <3>3
    <2> QED BY <1>0, <2>0, <2>1, QuietStep DEF ApplyStep
<1>2. ASSUME NEW v \in Views, NEW votes, normal_view[r] < v,
             MaybeFinishSvc(r, v, "ViewChange", votes,
                            msgs \cup Broadcast(r, SvcMessage(r, v)))
      PROVE  GoodStep(r)
    <2>1. \A p \in (msgs \cup Broadcast(r, SvcMessage(r, v))) \ msgs :
             p.msg.type = "StartViewChange"
        BY Sent DEF SvcMessage
    <2>2. \A p \in (msgs \cup Broadcast(r, SvcMessage(r, v))) \ msgs : Polite(r, p)
        BY <2>1, PolitePlain
    <2> QED BY <1>0, <1>2, <2>2, SvcGood
<1>3. CASE Timeout(r)
    <2> DEFINE v == Max({view[r], max_view_seen[r]}) + 1
    <2>1. v \in Nat /\ v <= MaxView /\ normal_view[r] < v
        BY <1>01, <1>3, MaxOfTwo DEF Timeout
    <2>2. MaybeFinishSvc(r, v, "ViewChange", svc_votes[r] \cup {<<v, r>>},
                         msgs \cup Broadcast(r, SvcMessage(r, v)))
        BY <1>3 DEF Timeout
    <2> HIDE DEF v
    <2>3. v \in Views
        BY <2>1, BoundsAssumption DEF Views
    <2> QED BY <1>2, <2>1, <2>2, <2>3
<1>4. CASE RetryViewChange(r)
    <2>1. normal_view[r] < view[r]
        BY <1>01, <1>4 DEF RetryViewChange
    <2>2. MaybeFinishSvc(r, view[r], "ViewChange", svc_votes[r] \cup {<<view[r], r>>},
                         msgs \cup Broadcast(r, SvcMessage(r, view[r])))
        BY <1>4 DEF RetryViewChange
    <2> QED BY <1>01, <1>2, <2>1, <2>2
<1> QED BY <1>1, <1>3, <1>4 DEF Tick
----------------------------------------------------------------------------
(* The theorems *)

LEMMA SafetyInit == Init => SafetyInv
<1> SUFFICES ASSUME Init PROVE SafetyInv
    OBVIOUS
<1>1. /\ msgs = {}
      /\ \A r \in Replicas : /\ normal_view[r] = 0 /\ log[r] = <<>> /\ commit[r] = 0
                             /\ prepare_ok[r] = {}
      /\ \A r \in Replicas, v \in Views : DOMAIN dvc[r][v] = {}
    BY DEF Init
<1>2. \A type : Of(type) = {}
    BY <1>1 DEF Of
<1>3. Dvcs = {}
    <2>1. \A r \in Replicas, v \in Views : Kept(r, v) = {}
        BY <1>1 DEF Kept
    <2> QED BY <1>2, <2>1 DEF Dvcs
<1>4. \A x \in Logs : x[1] = 0 /\ x[2] = <<>>
    BY <1>1, <1>2, <1>3 DEF Logs
<1>5. Known = {}
    <2>1. \A x \in Logs : EntriesOf(x[1], x[2]) = {}
        <3>1. Len(<<>>) = 0 /\ 1..0 = {}
            OBVIOUS
        <3> QED BY <1>4, <3>1 DEF EntriesOf
    <2>2. InLogs = {}
        BY <2>1 DEF InLogs
    <2>3. Prepared = {} /\ Transferred = {}
        BY <1>2 DEF Prepared, Transferred
    <2> QED BY <2>2, <2>3 DEF Known
<1>6. AckSet = {}
    <2>1. \A r \in Leading : Counted(r) = {}
        BY <1>1 DEF Leading, Counted
    <2> QED BY <1>2, <2>1 DEF AckSet
<1>7. CommitNumbers = {}
    BY <1>2, <1>3 DEF CommitNumbers
<1>8. OneEntry /\ KnownToPrimary /\ Acknowledged /\ CommitsLocked
    BY <1>5, <1>6, <1>7 DEF OneEntry, KnownToPrimary, Acknowledged, CommitsLocked
<1>9. Elected
    BY <1>4 DEF Elected
<1>10. SentInView /\ NotToItself
    BY <1>1, <1>3 DEF SentInView, NotToItself
<1>11. AppliedLocked
    BY <1>1 DEF AppliedLocked
<1> QED BY <1>8, <1>9, <1>10, <1>11 DEF SafetyInv

\* A log once misinstalled stays so: the history variable never falls.
LEMMA MisinstalledStays ==
    ASSUME [Next]_vars, misinstalled \in BOOLEAN, misinstalled
    PROVE  misinstalled'
<1>1. ASSUME NEW r, NEW v, NEW d, NEW av, NEW st, NEW net, PushDvc(r, v, d, av, st, net)
      PROVE  misinstalled'
    BY <1>1 DEF PushDvc, FinishViewChange
<1>2. ASSUME NEW r, NEW v, NEW st, NEW votes, NEW net, MaybeFinishSvc(r, v, st, votes, net)
      PROVE  misinstalled'
    BY <1>1, <1>2 DEF MaybeFinishSvc
<1>3. ASSUME NEW r, NEW c, NEW q, NEW net, OnRequest(r, c, q, net)
      PROVE  misinstalled'
    BY <1>3 DEF OnRequest
<1>4. ASSUME NEW c \in Clients, NEW q \in Reqs, NEW r \in Contacts[c], Submit(r, c, q)
      PROVE  misinstalled'
    BY <1>3, <1>4 DEF Submit
<1>5. ASSUME NEW p \in msgs, Receive(p)
      PROVE  misinstalled'
    <2>1. CASE ReceiveRequest(p)
        BY <1>3, <2>1 DEF ReceiveRequest
    <2>2. CASE OnStartViewChange(p)
        BY <1>2, <2>2 DEF OnStartViewChange
    <2>3. CASE OnDoViewChange(p)
        BY <1>1, <2>3 DEF OnDoViewChange
    <2>4. CASE OnStartView(p)
        BY <2>4 DEF OnStartView
    <2>5. CASE OnPrepare(p) \/ OnPrepareOk(p) \/ OnCommit(p) \/ OnGetState(p) \/ OnNewState(p)
        BY <2>5 DEF OnPrepare, OnPrepareOk, OnCommit, OnGetState, OnNewState
    <2> QED BY <1>5, <2>1, <2>2, <2>3, <2>4, <2>5 DEF Receive
<1>6. ASSUME NEW r \in Timers, Tick(r)
      PROVE  misinstalled'
    <2>1. CASE Heartbeat(r)
        BY <2>1 DEF Heartbeat
    <2>2. CASE Timeout(r)
        BY <1>2, <2>2 DEF Timeout
    <2>3. CASE RetryViewChange(r)
        BY <1>2, <2>3 DEF RetryViewChange
    <2> QED BY <1>6, <2>1, <2>2, <2>3 DEF Tick
<1>7. CASE UNCHANGED vars
    BY <1>7 DEF vars
<1> QED BY <1>4, <1>5, <1>6, <1>7 DEF Next

\* Every step of the protocol is the good step of some replica.
LEMMA EveryStepGood ==
    ASSUME Ready, Typed', ~ misinstalled', [Next]_vars
    PROVE  \E r \in Replicas : GoodStep(r)
<1>1. ASSUME NEW c \in Clients, NEW q \in Reqs, NEW r \in Contacts[c], Submit(r, c, q)
      PROVE  r \in Replicas /\ GoodStep(r)
    <2>1. r \in Replicas
        BY <1>1, BoundsAssumption
    <2>2. msgs \in SUBSET msgs /\ OnRequest(r, c, q, msgs)
        BY <1>1 DEF Submit
    <2>3. ViewStep(r)
        BY <1>1, <2>1, ViewStepSubmit DEF Ready, Typed
    <2> QED BY <2>1, <2>2, <2>3, RequestGood
<1>2. ASSUME NEW p \in msgs, Receive(p)
      PROVE  \E r \in Replicas : GoodStep(r)
    BY <1>2, ReceiveGood
<1>3. ASSUME NEW r \in Timers, Tick(r)
      PROVE  r \in Replicas /\ GoodStep(r)
    BY <1>3, TickGood, BoundsAssumption
<1>4. CASE UNCHANGED vars
    <2>1. 0 \in Replicas
        BY NAssumption DEF Replicas
    <2>2. UNCHANGED <<view, normal_view, status, dvc, max_view_seen, log, prepare_ok, commit,
                      applied, msgs>>
        BY <1>4 DEF vars, replica_vars
    <2>3. ViewStep(0)
        BY <2>1, <2>2, ViewsOfReplica, ViewStepSameDvc DEF Ready, Typed
    <2> QED BY <2>1, <2>2, <2>3, QuietStep DEF ApplyStep
<1> QED BY <1>1, <1>2, <1>3, <1>4 DEF Next

\* SafeSoFar is inductive: until a log is misinstalled, every view has one
\* sequence of entries, begins with the best log of a quorum, and keeps what was
\* committed before it (on_prepare, on_prepare_ok, maybe_finish_view_change,
\* on_start_view, NewState).
THEOREM SafetyCorrect == Spec => []SafeSoFar
<1>1. Init => SafeSoFar
    BY SafetyInit DEF SafeSoFar
<1>2. /\ TypeOK /\ ViewInv /\ NumberInv /\ ReplyInv
      /\ (TypeOK /\ ViewInv /\ NumberInv)'
      /\ SafeSoFar /\ [Next]_vars
      => SafeSoFar'
    <2> SUFFICES ASSUME TypeOK, ViewInv, NumberInv, ReplyInv, (TypeOK /\ ViewInv /\ NumberInv)',
                        SafeSoFar, [Next]_vars, ~ misinstalled'
                 PROVE  SafetyInv'
        BY DEF SafeSoFar
    <2>1. Typed /\ Typed' /\ AppliedToCommit
        BY DEF Typed, ReplyInv
    <2>2. ~ misinstalled
        BY MisinstalledStays DEF TypeOK
    <2>3. Ready /\ SafetyInv
        BY <2>1, <2>2 DEF Ready, SafeSoFar
    <2>4. PICK r \in Replicas : GoodStep(r)
        BY <2>1, <2>3, EveryStepGood
    <2> QED BY <2>1, <2>3, <2>4, GoodStepKeepsSafety
<1> QED BY <1>1, <1>2, ViewsCorrect, NumbersCorrect, RepliesCorrect, PTL DEF Spec

\* What is locked at one position is one entry: two quorums share a replica.
LEMMA LockedOnce ==
    ASSUME NEW u, NEW w, NEW e, NEW f, Locked(u, e), Locked(w, f),
           e.op_number = f.op_number
    PROVE  e = f
<1>1. PICK A \in SUBSET Replicas : Cardinality(A) >= Quorum /\ \A s \in A : Holds(s, u, e)
    BY DEF Locked
<1>2. PICK B \in SUBSET Replicas : Cardinality(B) >= Quorum /\ \A s \in B : Holds(s, w, f)
    BY DEF Locked
<1>3. PICK s \in Replicas : s \in A /\ s \in B
    BY <1>1, <1>2, QuorumsMeet
<1>4. Has(log[s], e) /\ Has(log[s], f)
    BY <1>1, <1>2, <1>3 DEF Holds
<1> QED BY <1>4 DEF Has

\* What a replica has applied at k is a locked entry numbered k.
LEMMA AppliedIsLocked ==
    ASSUME Typed, AppliedToCommit, AppliedLocked, NEW r \in Replicas, NEW k \in 1..Len(applied[r])
    PROVE  applied[r][k].op_number = k /\ \E u \in Nat : Locked(u, applied[r][k])
<1>1. applied[r] \in Seq(Entry) /\ Numbered(applied[r], 1) /\ Len(applied[r]) = commit[r]
    BY DEF Typed, TypeOK, NumberInv, AppliedToCommit
<1>2. normal_view[r] \in Nat
    BY ViewsAreNaturals DEF Typed, TypeOK
<1>3. PICK u \in 0..normal_view[r] : Locked(u, applied[r][k])
    BY <1>1 DEF AppliedLocked
<1>4. applied[r][k].op_number = k
    BY <1>1, PlaceIsNumber
<1>5. u \in Nat
    BY <1>2
<1> QED BY <1>3, <1>4, <1>5

\* No two replicas apply different operations at one position, whatever the
\* number of replicas, the views and the losses and repetitions of messages, as
\* long as no log was misinstalled (apply_through).
THEOREM Safe == Spec => []SafeUnlessMisinstalled
<1>1. TypeOK /\ ViewInv /\ NumberInv /\ ReplyInv /\ SafeSoFar => SafeUnlessMisinstalled
    <2> SUFFICES ASSUME TypeOK, ViewInv, NumberInv, ReplyInv, SafeSoFar, ~ misinstalled,
                        NEW r \in Replicas, NEW s \in Replicas, NEW k \in 1..Len(applied[r]),
                        k <= Len(applied[s])
                 PROVE  applied[r][k] = applied[s][k]
        BY DEF SafeUnlessMisinstalled, Agreement
    <2>1. Typed /\ AppliedToCommit /\ AppliedLocked
        BY DEF Typed, ReplyInv, SafeSoFar, SafetyInv
    <2>2. Len(applied[r]) \in Nat /\ Len(applied[s]) \in Nat
        BY DEF AppliedToCommit, TypeOK
    <2>3. k \in 1..Len(applied[s])
        BY <2>2
    <2>4. applied[r][k].op_number = k /\ \E u \in Nat : Locked(u, applied[r][k])
        BY <2>1, AppliedIsLocked
    <2>5. applied[s][k].op_number = k /\ \E u \in Nat : Locked(u, applied[s][k])
        BY <2>1, <2>3, AppliedIsLocked
    <2> QED BY <2>4, <2>5, LockedOnce
<1> QED BY <1>1, ViewsCorrect, NumbersCorrect, RepliesCorrect, SafetyCorrect, PTL

\* What any replica has applied is in the logs of a quorum at its position, so a
\* minority may crash and any later view change finds it (on_prepare_ok commits
\* what a quorum acknowledged; maybe_finish_view_change keeps it).
THEOREM DurableCommits == Spec => []Durable
<1>1. TypeOK /\ ViewInv /\ NumberInv /\ ReplyInv /\ SafeSoFar => Durable
    <2> SUFFICES ASSUME TypeOK, ViewInv, NumberInv, ReplyInv, SafeSoFar, ~ misinstalled,
                        NEW r \in Replicas, NEW k \in 1..Len(applied[r])
                 PROVE  Cardinality(Holders(k, applied[r][k])) >= Quorum
        BY DEF Durable
    <2>1. Typed /\ AppliedToCommit /\ AppliedLocked
        BY DEF Typed, ReplyInv, SafeSoFar, SafetyInv
    <2>2. PICK e : e = applied[r][k]
        OBVIOUS
    <2>3. e.op_number = k /\ \E u \in Nat : Locked(u, e)
        BY <2>1, <2>2, AppliedIsLocked
    <2>4. PICK Q \in SUBSET Replicas :
              Cardinality(Q) >= Quorum /\ \E u \in Nat : \A s \in Q : Holds(s, u, e)
        BY <2>3 DEF Locked
    <2>5. \A s \in Q : Len(log[s]) \in Nat /\ Has(log[s], e)
        BY <2>4 DEF Holds, TypeOK
    <2>6. \A s \in Q : s \in Holders(k, e)
        BY <2>3, <2>4, <2>5 DEF Holders, Has
    <2>7. Holders(k, e) \in SUBSET Replicas /\ Q \in SUBSET Holders(k, e)
        BY <2>6 DEF Holders
    <2> QED BY <2>2, <2>4, <2>7, QuorumFacts
<1> QED BY <1>1, ViewsCorrect, NumbersCorrect, RepliesCorrect, SafetyCorrect, PTL

----------------------------------------------------------------------------
(* Replication implements one replicated log *)

LEMMA ExtPrefix ==
    ASSUME NEW s \in Seq(Entry), NEW t \in Seq(Entry), Ext(s, t)
    PROVE  IsPrefix(s, t)
<1>1. Len(s) \in Nat /\ Len(t) \in Nat /\ Len(s) <= Len(t)
    BY DEF Ext
<1>2. \A i \in 1..Len(s) : s[i] \in Entry /\ t[i] \in Entry
    BY <1>1
<1> DEFINE a == SubSeq(s, 1, Len(s))
           b == SubSeq(t, 1, Len(s))
<1>3. /\ a \in Seq(Entry) /\ Len(a) = Len(s)
      /\ \A i \in 1..Len(s) : a[i] = s[i]
    BY <1>1, <1>2, SubSeqProperties
<1>4. /\ b \in Seq(Entry) /\ Len(b) = Len(s)
      /\ \A i \in 1..Len(s) : b[i] = t[i]
    BY <1>1, <1>2, SubSeqProperties
<1>5. \A i \in 1..Len(s) : a[i] = b[i]
    BY <1>3, <1>4 DEF Ext
<1> HIDE DEF a, b
<1>6. a = b
    BY <1>3, <1>4, <1>5, SeqEqual
<1> QED BY <1>1, <1>6 DEF IsPrefix, a, b

LEMMA ExtBoth ==
    ASSUME NEW s \in Seq(Entry), NEW t \in Seq(Entry), Ext(s, t), Ext(t, s)
    PROVE  s = t
<1>1. Len(s) \in Nat /\ Len(t) \in Nat /\ Len(s) = Len(t)
    BY DEF Ext
<1>2. \A k \in 1..Len(s) : s[k] = t[k]
    BY DEF Ext
<1> QED BY <1>1, <1>2, SeqEqual

\* Chosen is what some replica has applied, and goes on from what any has.
ChosenLongest ==
    \E r \in Replicas : Chosen = applied[r] /\ \A s \in Replicas : Ext(applied[s], Chosen)

LEMMA ChosenIsLongest == TypeOK /\ Agreement => ChosenLongest
<1> SUFFICES ASSUME TypeOK, Agreement PROVE ChosenLongest
    OBVIOUS
<1> DEFINE f == [r \in Replicas |-> Len(applied[r])]
           IsLongest(c) == \A r \in Replicas : Len(applied[r]) <= Len(c)
<1>1. N - 1 \in Nat /\ Replicas = 0..(N - 1)
    BY NAssumption DEF Replicas
<1>2. \A r \in Replicas : applied[r] \in Seq(Entry) /\ Len(applied[r]) \in Nat /\ f[r] = Len(applied[r])
    BY DEF TypeOK
<1>3. \E j \in Replicas : \A i \in Replicas : f[i] <= f[j]
    <2> HIDE DEF f
    <2> QED BY <1>1, <1>2, LargestOf
<1>4. Range(applied) = {applied[r] : r \in Replicas}
    BY DEF Range, TypeOK
<1>5. \E c \in Range(applied) : IsLongest(c)
    BY <1>2, <1>3, <1>4
<1>6. Chosen \in Range(applied) /\ IsLongest(Chosen)
    BY <1>5 DEF Chosen
<1>7. PICK r \in Replicas : Chosen = applied[r]
    BY <1>4, <1>6
<1>8. ASSUME NEW s \in Replicas PROVE Ext(applied[s], Chosen)
    <2>1. Len(applied[s]) <= Len(applied[r])
        BY <1>6, <1>7
    <2>2. ASSUME NEW k \in 1..Len(applied[s]) PROVE applied[r][k] = applied[s][k]
        <3>1. k <= Len(applied[r])
            BY <1>2, <2>1
        <3> QED BY <3>1 DEF Agreement
    <2> QED BY <1>7, <2>1, <2>2 DEF Ext
<1> QED BY <1>7, <1>8 DEF ChosenLongest

LEMMA ChosenIsLongestNext == TypeOK' /\ Agreement' => ChosenLongest'
BY ChosenIsLongest, PTL

\* Every replica applies more, never less and never something else.
LEMMA AppliedGrows ==
    ASSUME TypeOK, TypeOK', AppliedToCommit, [Next]_vars
    PROVE  /\ replies \subseteq replies'
           /\ \/ UNCHANGED applied
              \/ \E r \in Replicas :
                    /\ \A s \in Replicas \ {r} : applied'[s] = applied[s]
                    /\ Ext(applied[r], applied'[r])
<1>1. CASE UNCHANGED vars
    BY <1>1 DEF vars, replica_vars
<1>2. ASSUME NEW r \in Replicas, NEW lg \in Seq(Entry), NEW target \in Nat, NEW v \in Views,
             ApplyThrough(r, lg, target, v)
      PROVE  /\ replies \subseteq replies'
             /\ \A s \in Replicas \ {r} : applied'[s] = applied[s]
             /\ Ext(applied[r], applied'[r])
    <2>1. replies \subseteq replies'
        BY <1>2 DEF ApplyThrough
    <2>2. Len(applied[r]) = commit[r]
        BY DEF AppliedToCommit
    <2>3. /\ \A s \in Replicas \ {r} : applied'[s] = applied[s]
          /\ Len(applied'[r]) = commit'[r] /\ commit[r] <= commit'[r]
          /\ \A k \in 1..commit[r] : applied'[r][k] = applied[r][k]
        BY <1>2, ApplyThroughAppends
    <2> QED BY <2>1, <2>2, <2>3 DEF Ext
<1>3. ASSUME NEW r \in Replicas, Works(r)
      PROVE  /\ replies \subseteq replies'
             /\ \/ UNCHANGED applied
                \/ \E q \in Replicas :
                      /\ \A s \in Replicas \ {q} : applied'[s] = applied[s]
                      /\ Ext(applied[q], applied'[q])
    BY <1>2, <1>3 DEF Works
<1> QED BY <1>1, <1>3, EveryStepWorks

\* A reply backed by what some replica applied is backed by the chosen log.
LEMMA BackedByChosen ==
    TypeOK /\ ReplyBacked /\ ChosenLongest => \A rp \in replies : RL!Backed(rp, Chosen)
<1> SUFFICES ASSUME TypeOK, ReplyBacked, ChosenLongest, NEW rp \in replies
             PROVE  RL!Backed(rp, Chosen)
    OBVIOUS
<1>1. PICK r \in Replicas : /\ rp.res \in 1..Len(applied[r])
                            /\ applied[r][rp.res].client = rp.client
                            /\ applied[r][rp.res].req >= rp.req
    BY DEF ReplyBacked
<1>2. Chosen \in Seq(Entry) /\ applied[r] \in Seq(Entry) /\ Ext(applied[r], Chosen)
    BY DEF ChosenLongest, TypeOK
<1>3. Len(Chosen) \in Nat /\ Len(applied[r]) \in Nat
    BY <1>2
<1>4. rp.res \in 1..Len(Chosen) /\ Chosen[rp.res] = applied[r][rp.res]
    BY <1>1, <1>2, <1>3 DEF Ext
<1> QED BY <1>1, <1>4 DEF RL!Backed

LEMMA BackedByChosenNext ==
    (TypeOK /\ ReplyBacked /\ ChosenLongest)' => \A rp \in replies' : RL!Backed(rp, Chosen')
<1>1. (TypeOK /\ ReplyBacked /\ ChosenLongest)' => (\A rp \in replies : RL!Backed(rp, Chosen))'
    BY BackedByChosen, PTL
<1> QED BY <1>1

\* As long as no log is misinstalled the protocol, view changes included,
\* implements one replicated log: every replica applies a prefix of one sequence
\* that only grows, and every reply, whenever it is sent, reports an operation
\* of that sequence (apply_through, on_request).
THEOREM ImplementsUnlessMisinstalled ==
    Spec /\ [](~ misinstalled) => ImplementsReplicatedLog
<1>1. Init => RL!Init
    <2> SUFFICES ASSUME Init PROVE RL!Init
        OBVIOUS
    <2>1. applied = [r \in Replicas |-> <<>>] /\ replies = {} /\ 0 \in Replicas
        BY NAssumption DEF Init, Replicas
    <2>2. Range(applied) = {<<>>}
        BY <2>1 DEF Range
    <2>3. Chosen = <<>>
        BY <2>1, <2>2 DEF Chosen
    <2> QED BY <2>1, <2>3 DEF RL!Init
<1>2. /\ TypeOK /\ ReplyInv /\ SafeUnlessMisinstalled /\ ~ misinstalled
      /\ (TypeOK /\ ReplyInv /\ SafeUnlessMisinstalled /\ ~ misinstalled)'
      /\ [Next]_vars
      => [RL!Next]_(RL!rl_vars)
    <2> SUFFICES ASSUME TypeOK, ReplyInv, SafeUnlessMisinstalled, ~ misinstalled,
                        (TypeOK /\ ReplyInv /\ SafeUnlessMisinstalled /\ ~ misinstalled)',
                        [Next]_vars
                 PROVE  RL!Next
        OBVIOUS
    <2>1. ChosenLongest /\ ChosenLongest'
        <3>1. Agreement /\ Agreement'
            BY DEF SafeUnlessMisinstalled
        <3> QED BY <3>1, ChosenIsLongest, ChosenIsLongestNext
    <2>2. /\ replies \subseteq replies'
          /\ \/ UNCHANGED applied
             \/ \E r \in Replicas :
                   /\ \A s \in Replicas \ {r} : applied'[s] = applied[s]
                   /\ Ext(applied[r], applied'[r])
        BY AppliedGrows DEF ReplyInv
    <2>3. \A rp \in replies' : RL!Backed(rp, Chosen')
        BY <2>1, BackedByChosenNext DEF ReplyInv
    <2>4. CASE UNCHANGED applied
        <3>1. Chosen' = Chosen
            BY <2>4 DEF Chosen
        <3> QED BY <2>2, <2>3, <2>4, <3>1 DEF RL!Next, RL!Answer
    <2>5. ASSUME NEW r \in Replicas, \A s \in Replicas \ {r} : applied'[s] = applied[s],
                 Ext(applied[r], applied'[r])
          PROVE  RL!Learn(r)
        <3>1. PICK q \in Replicas : Chosen = applied[q] /\ \A s \in Replicas : Ext(applied[s], Chosen)
            BY <2>1 DEF ChosenLongest
        <3>2. PICK z \in Replicas : Chosen' = applied'[z] /\ \A s \in Replicas : Ext(applied'[s], Chosen')
            BY <2>1 DEF ChosenLongest
        <3>3. \A s \in Replicas : applied[s] \in Seq(Entry) /\ applied'[s] \in Seq(Entry)
            BY DEF TypeOK
        <3>4. Chosen \in Seq(Entry) /\ Chosen' \in Seq(Entry)
            BY <3>1, <3>2, <3>3
        <3>5. Ext(applied[q], applied'[q])
            BY <2>5, <3>3, ExtReflexive
        <3>6. Ext(Chosen, Chosen')
            BY <3>1, <3>2, <3>3, <3>4, <3>5, ExtTransitive
        <3>7. IsPrefix(applied[r], applied'[r])
            BY <2>5, <3>3, ExtPrefix
        <3>8. CASE z = r
            <4>1. Chosen' = applied'[r] /\ IsPrefix(Chosen, applied'[r])
                BY <3>2, <3>3, <3>4, <3>6, <3>8, ExtPrefix
            <4> QED BY <2>5, <3>7, <4>1 DEF RL!Learn, RL!IsPrefix, IsPrefix
        <3>9. CASE z # r
            <4>1. Ext(Chosen', Chosen)
                BY <2>5, <3>1, <3>2, <3>9
            <4>2. Chosen' = Chosen
                BY <3>4, <3>6, <4>1, ExtBoth
            <4>3. IsPrefix(applied'[r], Chosen)
                BY <3>2, <3>3, <3>4, <4>2, ExtPrefix
            <4> QED BY <2>5, <3>7, <4>2, <4>3 DEF RL!Learn, RL!IsPrefix, IsPrefix
        <3> QED BY <3>8, <3>9
    <2> QED BY <2>2, <2>3, <2>4, <2>5 DEF RL!Next
<1> QED BY <1>1, <1>2, TypeCorrect, RepliesCorrect, Safe, PTL
       DEF Spec, ImplementsReplicatedLog, RL!Spec

\* In a single view nothing is ever installed: every replica stays Normal, so
\* none sends a DoViewChange, and no StartView exists.
OneViewInv ==
    /\ ~ misinstalled
    /\ \A p \in msgs : p.msg.type # "DoViewChange" /\ p.msg.type # "StartView"

LEMMA OneViewStep ==
    ASSUME MaxView = 0, TypeOK, ViewInv, OneViewInv, [Next]_vars
    PROVE  OneViewInv'
<1>0. \A r \in Replicas : view[r] = 0 /\ status[r] = "Normal"
    <2>1. Views = {0}
        BY DEF Views
    <2> QED BY <2>1 DEF TypeOK, ViewInv, ViewDiscipline
<1> DEFINE Plain(m) == m.type # "DoViewChange" /\ m.type # "StartView"
<1>1. ASSUME ~ misinstalled', NEW q, Plain(q), NEW r, NEW d,
             msgs' \subseteq msgs \cup Broadcast(r, q) \cup Send(r, d, q)
      PROVE  OneViewInv'
    BY <1>1, Sent DEF OneViewInv
<1>2. ASSUME ~ misinstalled', msgs' \subseteq msgs
      PROVE  OneViewInv'
    BY <1>2 DEF OneViewInv
<1>3. ASSUME NEW r \in Replicas, NEW c, NEW q, NEW net \in SUBSET msgs, OnRequest(r, c, q, net)
      PROVE  OneViewInv'
    BY <1>1, <1>2, <1>3 DEF OnRequest, OneViewInv
<1>4. ASSUME NEW p \in msgs, Receive(p)
      PROVE  OneViewInv'
    <2>0. p.dst \in Replicas /\ Rest(p) \in SUBSET msgs
        BY DEF Rest, TypeOK, Packet
    <2>1. CASE ReceiveRequest(p)
        BY <1>3, <2>0, <2>1 DEF ReceiveRequest
    <2>2. CASE p.msg.type = "StartViewChange" /\ OnStartViewChange(p)
        <3>0. ASSUME NEW r, NEW v, NEW st, NEW votes, NEW net, st # "ViewChange",
                     MaybeFinishSvc(r, v, st, votes, net)
              PROVE  misinstalled' = misinstalled /\ msgs' = net
            BY <3>0 DEF MaybeFinishSvc
        <3>01. (IF p.msg.view > view[p.dst] THEN "ViewChange" ELSE status[p.dst]) # "ViewChange"
            <4>1. CASE p.msg.view \in Views
                BY <1>0, <2>0, <4>1 DEF Views
            <4> QED BY <2>2, <4>1, DeliveredType
        <3>1. ~ misinstalled' /\ msgs' = Rest(p)
            BY <2>2, <3>0, <3>01 DEF OnStartViewChange, OneViewInv
        <3> QED BY <1>2, <2>0, <3>1
    <2>3. CASE OnPrepare(p)
        BY <1>1, <1>2, <2>0, <2>3 DEF OnPrepare, IgnoreInView, SolicitState, OneViewInv
    <2>4. CASE OnPrepareOk(p)
        BY <1>1, <1>2, <2>0, <2>4 DEF OnPrepareOk, OneViewInv
    <2>5. CASE OnCommit(p)
        BY <1>1, <1>2, <2>0, <2>5 DEF OnCommit, IgnoreInView, SolicitState, OneViewInv
    <2>6. CASE OnGetState(p)
        BY <1>1, <1>2, <2>0, <2>6 DEF OnGetState, OneViewInv
    <2>7. CASE OnNewState(p)
        BY <1>1, <1>2, <2>0, <2>7 DEF OnNewState, OneViewInv
    <2> QED BY <1>4, <2>1, <2>2, <2>3, <2>4, <2>5, <2>6, <2>7 DEF Receive, OneViewInv
<1>5. ASSUME NEW r \in Replicas, Tick(r)
      PROVE  OneViewInv'
    <2>1. CASE Heartbeat(r)
        <3>1. \A p \in msgs' \ msgs : Plain(p.msg)
            <4> SUFFICES ASSUME NEW p \in msgs' \ msgs PROVE Plain(p.msg)
                OBVIOUS
            <4> DEFINE cm == [type |-> "Commit", view |-> view[r], commit |-> commit[r]]
                       pm(k) == [type |-> "Prepare", view |-> view[r], entry |-> log[r][k],
                                 commit |-> commit[r]]
            <4>1. p \in Broadcast(r, cm)
                  \/ \E k \in commit[r] + 1 .. Len(log[r]) : p \in Broadcast(r, pm(k))
                BY <2>1 DEF Heartbeat
            <4>2. \E q : p \in Broadcast(r, q) /\ Plain(q)
                <5>1. Plain(cm) /\ \A k : Plain(pm(k))
                    OBVIOUS
                <5> HIDE DEF cm, pm, Plain
                <5> QED BY <4>1, <5>1
            <4> QED BY <4>2, Sent
        <3> QED BY <2>1, <3>1 DEF Heartbeat, OneViewInv
    <2>2. ~ Timeout(r)
        <3>1. view[r] \in Nat /\ max_view_seen[r] \in Nat
            BY ViewsOfReplica
        <3> QED BY <3>1, MaxOfTwo DEF Timeout
    <2>3. ~ RetryViewChange(r)
        BY <1>0 DEF RetryViewChange
    <2> QED BY <1>5, <2>1, <2>2, <2>3 DEF Tick
<1>6. CASE UNCHANGED vars
    BY <1>6 DEF vars, OneViewInv
<1>7. ASSUME NEW c \in Clients, NEW q \in Reqs, NEW r \in Contacts[c], Submit(r, c, q)
      PROVE  OneViewInv'
    <2>1. r \in Replicas /\ msgs \in SUBSET msgs
        BY <1>7, BoundsAssumption
    <2> QED BY <1>3, <1>7, <2>1 DEF Submit
<1> QED BY <1>4, <1>5, <1>6, <1>7, BoundsAssumption DEF Next

\* The stable-view instance the run checks, for any number of replicas, clients
\* and requests, with packets lost, repeated and reordered: no premise is left.
THEOREM ImplementsInOneView ==
    ASSUME MaxView = 0
    PROVE  Spec => ImplementsReplicatedLog
<1>1. Init => OneViewInv
    BY DEF Init, OneViewInv
<1>2. TypeOK /\ ViewInv /\ OneViewInv /\ [Next]_vars => OneViewInv'
    BY OneViewStep
<1>3. OneViewInv => ~ misinstalled
    BY DEF OneViewInv
<1> QED BY <1>1, <1>2, <1>3, ViewsCorrect, ImplementsUnlessMisinstalled, PTL DEF Spec


============================================================================
