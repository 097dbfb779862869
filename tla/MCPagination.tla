----------------------------- MODULE MCPagination -----------------------------
(***************************************************************************)
(* Lists of zero to seven different records, whole or with one bad record. *)
(***************************************************************************)
EXTENDS Pagination

CONSTANT bad

Sound == [i \in 1 .. 7 |-> i]

MCRecords == (1 .. 7) \cup {bad}

MCValid == 1 .. 7

MCLists ==
    {SubSeq(l, 1, n) : l \in {Sound, [Sound EXCEPT ![2] = bad], [Sound EXCEPT ![6] = bad]},
                       n \in 0 .. 7}

\* No cursor and three that a loose provider may answer in any order.
MCCursors == {NoCursor, 1, 2, 4}
===============================================================================
