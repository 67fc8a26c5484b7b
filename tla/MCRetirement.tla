---------------------------- MODULE MCRetirement ----------------------------
(* A small instance of Retirement: the command and a server that starts at *)
(* the same time, one administrator and one ordinary user.                 *)
EXTENDS Retirement

CONSTANTS command, server, alice, admin, c1, c2, x1, x2

MCLength == <<2, 1>>

=============================================================================
