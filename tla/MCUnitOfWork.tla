---------------------------- MODULE MCUnitOfWork ----------------------------
(* Small instances of UnitOfWork: two worker threads, and commands that    *)
(* write and read overlapping tables in every mode of transaction.         *)
EXTENDS UnitOfWork

CONSTANTS p1, p2

=============================================================================
