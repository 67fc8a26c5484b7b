---------------------------- MODULE MCMigrations ----------------------------
(* One process that starts, is interrupted and starts again.               *)
EXTENDS Migrations

CONSTANTS server

MCLength == <<2, 2, 1>>

=============================================================================
