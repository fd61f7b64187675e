------------------------------ MODULE MCMarkSet ------------------------------
EXTENDS MarkSet

(* 0, which zeroed memory contains, three other ids, and a mark that       *)
(* differs from one of them above the 16 bits only.                        *)
MCMarks == {0, 1, 2, 3, 5}
===============================================================================
