---------------------------- MODULE MCCrossShard ----------------------------
(***************************************************************************)
(* Instances of CrossShard for TLC.                                        *)
(***************************************************************************)
EXTENDS CrossShard, TLC

CONSTANTS t1, t2, r1, r2

\* Both transactions create the row of shard 3, t1 only for a while; each
\* has a shard without a slice.
SharedRow ==
    (t1 :> << <<"update">>, <<>>, <<"create", "delete">> >>)
      @@ (t2 :> << <<>>, <<"create">>, <<"create", "update">> >>)

FirstPresent == <<"present", "absent", "absent">>

\* The session client submits twice.
OneRetries == (t1 :> 2) @@ (t2 :> 1)

============================================================================
