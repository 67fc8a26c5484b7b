------------------------------ MODULE MCPaging ------------------------------
(* A small instance of Paging: up to four rows, pages of one and two.      *)
EXTENDS Paging

MCPageSize == {1, 2}
MCName == 1..4

=============================================================================
