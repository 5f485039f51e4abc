------------------------------ MODULE MCPaging ------------------------------
(* A small instance of Paging: keys with ties, pages of one row and more. *)
EXTENDS Paging, TLC

MCKey == 0 .. 2
MCSymmetry == Permutations(Row)
=============================================================================
