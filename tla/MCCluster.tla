----------------------------- MODULE MCCluster ------------------------------
(***************************************************************************)
(* Instances of Cluster for TLC.                                           *)
(***************************************************************************)
EXTENDS Cluster, TLC

CONSTANTS s1, s2, s3

\* A session's operation, an UPDATE and an UPDATE ... WHERE of two columns.
Mixed == (s1 :> "op") @@ (s2 :> "update") @@ (s3 :> "dml")
\* Two raw operations.
Plain == (s2 :> "op") @@ (s3 :> "op")
TwoColumns == (s1 :> "a") @@ (s2 :> "a") @@ (s3 :> "b")
\* One of the first two is tried twice.
OneRetry == {[t \in {s1, s2, s3} |-> IF t = r THEN 2 ELSE 1] : r \in {s1, s2}}
Once == {[t \in {s2, s3} |-> 1]}
OneColumn == (s2 :> "a") @@ (s3 :> "a")

============================================================================
