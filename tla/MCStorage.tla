----------------------------- MODULE MCStorage -----------------------------
(***************************************************************************)
(* Instances of Storage for TLC: the encoded lengths of the entries.       *)
(***************************************************************************)
EXTENDS Storage, TLC

\* Every entry is as long as any other, a tombstone included.
SameSize == [v \in Values \cup {None} |-> 1]
\* A value is longer than a tombstone.
ShortTombstone == [v \in Values \cup {None} |-> IF v = None THEN 1 ELSE 2]

============================================================================
