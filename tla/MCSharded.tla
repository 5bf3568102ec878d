----------------------------- MODULE MCSharded ------------------------------
(***************************************************************************)
(* Instances of Sharded for TLC: two shards, three rows, two of them on    *)
(* shard 0.                                                                *)
(***************************************************************************)
EXTENDS Sharded, TLC

CONSTANTS a, b, w1, w2

ThreeRows == (1 :> 0) @@ (2 :> 1) @@ (3 :> 0)

\* Equal values on both shards, and shard 0 empty.
Tables ==
    {(1 :> x) @@ (2 :> y) @@ (3 :> z) : <<x, y, z>> \in
        {<<1, 1, 2>>, <<None, 2, None>>}}

Select(limit) == [kind |-> "select", where |-> Values, limit |-> limit]
Sorted(desc, offset, limit) ==
    [kind |-> "sorted", where |-> Values, desc |-> desc, offset |-> offset, limit |-> limit]
Lookup(kind, v) == [kind |-> kind, where |-> {v}]
Aggregate(fold) == [kind |-> "aggregate", where |-> Values, fold |-> fold]
Group(fold) == [kind |-> "group", where |-> Values, fold |-> fold]
Put(i, v) == [kind |-> "put", id |-> i, val |-> v]
Txn(puts, scan) == [kind |-> "txn", puts |-> puts, scan |-> scan]
Create == [kind |-> "ddl"]
CreateSql == [kind |-> "sqlddl"]

\* One caller scans, the other writes, creates a type or scans beside it.
Scanning ==
    {Select(0), Select(2), Sorted(FALSE, 0, 2), Sorted(TRUE, 1, 0), Lookup("query", 1), Lookup("find", 1),
     Aggregate("count"), Aggregate("min"), Group("sum"), Group("max"), Aggregate("avg"), Create}
Writing ==
    {Put(2, None), Txn((1 :> 2) @@ (3 :> 1), FALSE), Txn((1 :> 2) @@ (2 :> 1), FALSE),
     Txn(1 :> 2, TRUE), Create, CreateSql, Aggregate("sum")}
TwoRoles == (a :> <<Scanning, {Select(0), Sorted(FALSE, 0, 0), Create}>>) @@ (b :> <<Writing>>)

============================================================================
