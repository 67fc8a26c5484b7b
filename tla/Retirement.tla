----------------------------- MODULE Retirement -----------------------------
(***************************************************************************)
(* server/retire_legacy_admin.py, which migrates the database, reads who   *)
(* the administrators of earlier releases are and what they own, makes a   *)
(* backup, and deletes them with their channels.  Only the deletion is a   *)
(* transaction: services that were not stopped go on in between.           *)
(***************************************************************************)
EXTENDS Migrations

CONSTANTS
  Tool,      \* the starter that is the retirement command
  User,
  Admin,     \* the users with role 'admin'
  Chan,
  Post       \* messages and files, each written once

Unused == "unused"
Deleted == "deleted"

ASSUME ToolAssumption ==
  /\ Tool \in Starter /\ Admin \subseteq User
  /\ Unused \notin User /\ Deleted \notin User

VARIABLES
  users,     \* the rows of users
  owner,     \* owner[c]: created_by of channel c, Unused or Deleted
  content,   \* rows of messages and files
  saved,     \* the rows in backups
  tool,      \* progress of the retirement command and what it has read
  erased,    \* history: rows the command deleted
  late       \* history: rows written between a backup and its deletion

data == <<users, owner, content>>
history == <<erased, late>>
vars == <<mvars, data, saved, tool, history>>

ContentRow == [post : Post, chan : Chan, author : User]

Ready == [state |-> "ready"]

(* The tables of these rows are made by the first scripts.                 *)
HasTables == 1 \in recorded

Init ==
  /\ MigrationsInit
  /\ users = IF HasTables THEN User ELSE User \ Admin
  /\ owner \in [Chan -> {Unused} \cup User]
  /\ ~HasTables => owner = [c \in Chan |-> Unused]
  /\ content = {}
  /\ saved = {}
  /\ tool = Ready
  /\ erased = {}
  /\ late = {}

-----------------------------------------------------------------------------
(* The services: an old release lets administrators do the same.           *)
CreateChannel(v, c) ==
  /\ HasTables
  /\ v \in users
  /\ owner[c] = Unused
  /\ owner' = [owner EXCEPT ![c] = v]
  /\ UNCHANGED <<mvars, users, content, saved, tool, history>>

Write(v, c, x) ==
  /\ HasTables
  /\ v \in users
  /\ owner[c] \in User
  /\ \A r \in content \cup erased : r.post # x
  /\ LET row == [post |-> x, chan |-> c, author |-> v]
     IN  /\ content' = content \cup {row}
         /\ late' = IF tool.state = "saved" THEN late \cup {row} ELSE late
  /\ UNCHANGED <<mvars, users, owner, saved, tool, erased>>

-----------------------------------------------------------------------------
(* apply_migrations is the first thing the command does.                   *)
ToolMigrates ==
  /\ tool = Ready
  /\ start[Tool] # Done
  /\ Migrate(Tool)
  /\ UNCHANGED <<data, saved, tool, history>>

End == [state |-> "ended"]

ToolOnly == UNCHANGED <<mvars, data, saved, history>>

(* No administrator: there is nothing to do.                               *)
ReadAdmins ==
  /\ tool = Ready
  /\ start[Tool] = Done
  /\ LET admins == Admin \cap users
     IN  tool' = IF admins = {} THEN End ELSE [state |-> "admins", admins |-> admins]
  /\ ToolOnly

ReadOwned ==
  /\ tool.state = "admins"
  /\ tool' = [state |-> "owned", admins |-> tool.admins,
              owned |-> {c \in Chan : owner[c] \in tool.admins}]
  /\ ToolOnly

(* Content of an administrator elsewhere asks for a manual review.         *)
CheckOthers ==
  /\ tool.state = "owned"
  /\ tool' = IF \E r \in content : r.author \in tool.admins /\ owner[r.chan] \notin tool.admins
             THEN End ELSE [tool EXCEPT !.state = "checked"]
  /\ ToolOnly

Backup_AdminContent ==
  /\ tool.state = "checked"
  /\ saved' = saved \cup {r \in content : r.author \in tool.admins}
  /\ tool' = [tool EXCEPT !.state = "saved"]
  /\ UNCHANGED <<mvars, data, history>>

(* A copy of the committed database under a name no backup has yet.        *)
Backup ==
  /\ tool.state = "checked"
  /\ saved' = saved \cup content
  /\ tool' = [tool EXCEPT !.state = "saved"]
  /\ UNCHANGED <<mvars, data, history>>

RowsIn(chans) == {r \in content : r.chan \in chans}

DeleteRows_Authored(gone, chans) == RowsIn(chans) \cup {r \in content : r.author \in gone}

(* The rows that go with the users gone and the channels chans: the        *)
(* foreign keys of content cascade from the channel, not from the author.  *)
DeleteRows(gone, chans) == RowsIn(chans)

Referenced_ChannelsOnly(gone, chans) ==
  \E c \in Chan \ chans : owner[c] \in gone

(* The foreign keys that do not cascade: content and channels that stay    *)
(* keep their author and their owner in the table users.                   *)
Referenced(gone, chans) ==
  \/ \E c \in Chan \ chans : owner[c] \in gone
  \/ \E r \in content \ DeleteRows(gone, chans) : r.author \in gone

(* BEGIN IMMEDIATE, the deletion of the channels read before, with their   *)
(* rows, and of the administrators; commit.                                *)
Delete ==
  /\ tool.state = "saved"
  /\ ~Referenced(tool.admins, tool.owned)
  /\ content' = content \ DeleteRows(tool.admins, tool.owned)
  /\ erased' = erased \cup DeleteRows(tool.admins, tool.owned)
  /\ owner' = [c \in Chan |-> IF c \in tool.owned THEN Deleted ELSE owner[c]]
  /\ users' = users \ tool.admins
  /\ tool' = End
  /\ UNCHANGED <<mvars, saved, late>>

(* Any error of the deletion rolls it back.                                *)
Rollback ==
  /\ tool.state = "saved"
  /\ tool' = End
  /\ ToolOnly

(* The command is killed, or has ended; somebody runs it again.            *)
RunAgain ==
  /\ tool' = Ready
  /\ start' = [start EXCEPT ![Tool] = Idle]
  /\ UNCHANGED <<objects, recorded, data, saved, history>>

Retire ==
  \/ ToolMigrates \/ ReadAdmins \/ ReadOwned \/ CheckOthers \/ Backup
  \/ Delete \/ Rollback \/ RunAgain

OthersStart ==
  /\ \E p \in Starter \ {Tool} : Migrate(p)
  /\ UNCHANGED <<data, saved, tool, history>>

Next ==
  \/ Retire
  \/ OthersStart
  \/ \E v \in User, c \in Chan : \/ CreateChannel(v, c)
                                 \/ \E x \in Post : Write(v, c, x)

RSpec == Init /\ [][Next]_vars

-----------------------------------------------------------------------------
(* Content and channels belong to users and channels that exist, although  *)
(* the deletion goes by ids that were read outside its transaction.        *)
ReferencesHold ==
  /\ \A c \in Chan : owner[c] \in users \cup {Unused, Deleted}
  /\ \A r \in content : r.author \in users /\ owner[r.chan] \in users

(* The command deletes nothing from a channel of an ordinary user, even    *)
(* when an administrator writes there after the check for that.            *)
ErasedWasTheirs == \A r \in erased' \ erased : owner[r.chan] \in Admin

OthersKeepData == [][ErasedWasTheirs]_vars

(* What the command deleted is in a backup, except for what services that  *)
(* were not stopped wrote after the backup was made.                       *)
NothingLost == erased \subseteq saved \cup late

=============================================================================
