------------------------------- MODULE MCRows -------------------------------
(***************************************************************************)
(* Instances of Rows for TLC: a parent table 1 with serial ids and a child *)
(* table 2 whose first column may reference the parent and whose second,   *)
(* once added, its own table.                                              *)
(***************************************************************************)
EXTENDS Rows

MCIds == <<{1}, {0, 1}>>
MCDeclared == <<{1, 2}, {1}>>
MCInputs == <<{0}, {NULL, 1}>>
MCSets == {<<2, 1, 1>>, <<2, 2, 0>>, <<2, 2, 1>>}
MCSerialField == [t \in {1} |-> {1}]
\* A parent takes its children along; what another row of the child table
\* references is kept (1), takes that row along (2) or has it let go (3).
MCFks == {<<2, 1, 1, 2>>, <<2, 2, 2, 1>>, <<2, 2, 2, 2>>, <<2, 2, 2, 3>>}
MCIndexable == {<<2, 1>>}
MCComposites == {<<2, <<1, 2>>>>}

Op(op, t, id, f, v) == [op |-> op, t |-> t, id |-> id, f |-> f, v |-> v]
\* A parent whose id is reported; a parent with its children, the second of
\* which gets a version above the next operation's; a deletion and a new
\* row; a read of a new row and a deletion, again ahead of the next operation;
\* a new row and an update that may fail.
MCBatches ==
    {<<Op("create", 1, SERIAL_SENTINEL, 1, 0)>>,
     <<Op("create", 1, SERIAL_SENTINEL, 1, 0), Op("create", 2, 0, 1, 1), Op("create", 2, 1, 1, 1)>>,
     <<Op("delete", 2, 0, 1, NULL), Op("create", 2, 1, 1, 1)>>,
     <<Op("create", 2, 0, 1, NULL), Op("get", 2, 0, 1, NULL), Op("delete", 1, 1, 1, NULL)>>,
     <<Op("create", 1, SERIAL_SENTINEL, 1, 0), Op("set", 2, 1, 1, 1)>>}
============================================================================
