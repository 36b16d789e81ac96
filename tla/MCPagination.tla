---------------------------- MODULE MCPagination ----------------------------
(* An instance of Pagination for TLC. *)
EXTENDS Pagination

MCRows == 1..3
(* The default, one row a page, and more than the largest page.            *)
MCAskedSizes == {0, 1, 4}
=============================================================================
