----------------------------- MODULE Migrations -----------------------------
(***************************************************************************)
(* apply_migrations of server/database.py: every process that opens the    *)
(* database (the server, the migrate and the retirement command) applies   *)
(* the numbered scripts that schema_migrations does not record.            *)
(*                                                                         *)
(* executescript commits what is open and then runs outside a transaction, *)
(* so that each CREATE of a script is durable by itself; the row that      *)
(* records the script is a later transaction.                              *)
(***************************************************************************)
EXTENDS Naturals

CONSTANTS
  Starter,   \* processes that open the database
  Scripts,   \* how many scripts there are
  Length     \* Length[s]: how many CREATE statements script s has

ASSUME ScriptsAssumption == Scripts \in Nat /\ Length \in [1..Scripts -> Nat \ {0}]

VARIABLES
  objects,   \* tables and indexes that exist: <<script, statement>>
  recorded,  \* the rows of schema_migrations
  start      \* start[p]: how far the start of process p is

mvars == <<objects, recorded, start>>

ObjectsOf(s) == {s} \X (1..Length[s])
Complete(s) == ObjectsOf(s) \subseteq objects

Idle == [state |-> "off"]
Done == [state |-> "done"]
Failed == [state |-> "failed"]

(* The loop over the sorted scripts, from the first that is not applied.   *)
NextScript(known) ==
  IF known = 1..Scripts THEN Done
  ELSE [state |-> "running", known |-> known, at |-> 1,
        script |-> CHOOSE s \in (1..Scripts) \ known : \A t \in (1..Scripts) \ known : s <= t]

(* An empty database, or what an earlier release with fewer scripts left.  *)
MigrationsInit ==
  /\ recorded \in {1..s : s \in 0..Scripts}
  /\ objects = UNION {ObjectsOf(s) : s \in recorded}
  /\ start = [p \in Starter |-> Idle]

Running(p) == start[p].state = "running"

(* Connect, CREATE TABLE IF NOT EXISTS schema_migrations, SELECT name.     *)
ReadApplied(p) ==
  /\ ~Running(p)
  /\ start' = [start EXCEPT ![p] = NextScript(recorded)]
  /\ UNCHANGED <<objects, recorded>>

Create(p) ==
  /\ Running(p)
  /\ LET r == start[p]
     IN  /\ r.at <= Length[r.script]
         /\ <<r.script, r.at>> \notin objects
         /\ objects' = objects \cup {<<r.script, r.at>>}
         /\ start' = [start EXCEPT ![p].at = r.at + 1]
  /\ UNCHANGED recorded

(* CREATE without IF NOT EXISTS: the error ends the start.  There is no    *)
(* open transaction to roll back.                                          *)
Collide(p) ==
  /\ Running(p)
  /\ <<start[p].script, start[p].at>> \in objects
  /\ start' = [start EXCEPT ![p] = Failed]
  /\ UNCHANGED <<objects, recorded>>

Record_First(p) ==
  /\ Running(p)
  /\ start[p].script \notin recorded
  /\ start[p].at = 1
  /\ recorded' = recorded \cup {start[p].script}
  /\ UNCHANGED <<objects, start>>

(* INSERT INTO schema_migrations and the commit of the with block.         *)
Record(p) ==
  /\ Running(p)
  /\ LET r == start[p]
     IN  /\ r.at > Length[r.script]
         /\ r.script \notin recorded
         /\ recorded' = recorded \cup {r.script}
         /\ start' = [start EXCEPT ![p] = NextScript(r.known \cup {r.script})]
  /\ UNCHANGED objects

(* The process is killed, or its statement waited for a lock in vain.      *)
Interrupt(p) ==
  /\ Running(p)
  /\ start' = [start EXCEPT ![p] = Idle]
  /\ UNCHANGED <<objects, recorded>>

Migrate(p) ==
  \/ ReadApplied(p) \/ Create(p) \/ Collide(p) \/ Record(p) \/ Interrupt(p)

MigrationsNext == \E p \in Starter : Migrate(p)

Spec == MigrationsInit /\ [][MigrationsNext]_mvars

-----------------------------------------------------------------------------
(* A script that is recorded is in the schema as a whole and so are all    *)
(* scripts before it, whoever else is starting and whoever was killed; a   *)
(* start that succeeds leaves the schema complete.                         *)
RecordedMeansComplete ==
  /\ \A s \in recorded : Complete(s) /\ 1..s \subseteq recorded
  /\ \A p \in Starter : start[p] = Done => recorded = 1..Scripts

(* "Apply each ordered SQL migration once": a start never meets the tables *)
(* of a script that it is about to apply.                                  *)
StartsNeverCollide == \A p \in Starter : start[p] # Failed

=============================================================================
