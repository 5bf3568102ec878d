------------------------------- MODULE MCMvcc -------------------------------
(***************************************************************************)
(* Instances of Mvcc for TLC: rows and transactions are interchangeable.   *)
(***************************************************************************)
EXTENDS Mvcc, TLC

CONSTANTS x, y, t1, t2, t3, r1

\* One row read and one written, both rows read, and blind writes of both
\* rows, one of them a deletion.
Shapes ==
    {[reads |-> {k}, writes |-> {l}, deletes |-> {}] : k, l \in Keys}
      \cup {[reads |-> Keys, writes |-> {}, deletes |-> {}]}
      \cup {[reads |-> {}, writes |-> Keys, deletes |-> {k}] : k \in Keys}

\* A Txn of two rows, and of one row three times.
Pairs == {s \in [{1, 2} -> Keys] : s[1] # s[2]}
Thrice == {<<k, k, k>> : k \in Keys}

Interchangeable == Permutations(Keys) \cup Permutations(Txs)

============================================================================
