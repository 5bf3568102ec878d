--------------------------- MODULE ReplicatedLog ---------------------------
(***************************************************************************)
(* What replication promises a client of the cluster, whatever the         *)
(* protocol: there is one sequence of operations, every replica applies a  *)
(* prefix of it, and every reply reports an operation of that sequence.    *)
(***************************************************************************)
EXTENDS Naturals, Sequences, SequencesExt

CONSTANT Replicas

VARIABLES
    chosen,     \* the sequence of operations
    learned,    \* learned[r]: what replica r has applied
    replies     \* what clients have been told

rl_vars == <<chosen, learned, replies>>

\* rp names a position of seq that holds its client's request, or a later one.
Backed(rp, seq) ==
    /\ rp.res \in 1..Len(seq)
    /\ seq[rp.res].client = rp.client
    /\ seq[rp.res].req >= rp.req

Init ==
    /\ chosen = <<>>
    /\ learned = [r \in Replicas |-> <<>>]
    /\ replies = {}

\* Replica r applies more of the sequence; it may be the first to do so.
Learn(r) ==
    /\ \A s \in Replicas \ {r} : learned'[s] = learned[s]
    /\ IsPrefix(learned[r], learned'[r])
    /\ \/ chosen' = chosen /\ IsPrefix(learned'[r], chosen)
       \/ chosen' = learned'[r] /\ IsPrefix(chosen, learned'[r])

Answer == UNCHANGED <<chosen, learned>>

Next ==
    /\ Answer \/ \E r \in Replicas : Learn(r)
    /\ replies \subseteq replies'
    /\ \A rp \in replies' \ replies : Backed(rp, chosen')

Spec == Init /\ [][Next]_rl_vars

============================================================================
