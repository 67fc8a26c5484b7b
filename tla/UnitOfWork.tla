----------------------------- MODULE UnitOfWork -----------------------------
(***************************************************************************)
(* The chat server's units of work (server/repositories/sqlite.py) on      *)
(* SQLite in WAL mode (server/database.py).  A unit of work is a connection*)
(* of its own: BEGIN reserves nothing and reads a snapshot taken at the    *)
(* first statement; BEGIN IMMEDIATE waits for the single writer slot; the  *)
(* first write of a deferred transaction asks for the slot and fails at    *)
(* once when its snapshot is no longer the latest.  Every command of the   *)
(* server is listed with the statements it runs, in their order: a join is *)
(* one read per table, and a read that some calls skip is listed.          *)
(***************************************************************************)
EXTENDS Naturals, Sequences

CONSTANTS
  Proc,        \* worker threads
  NoProc,      \* nobody holds the writer slot
  Op,          \* the commands of this instance
  MaxVersion   \* bound: no command starts once a table was written so often

Table == {"users", "sessions", "channels", "channel_members",
          "channel_join_requests", "messages", "files"}

-----------------------------------------------------------------------------
(* The statements of the commands.  "lock" is BEGIN IMMEDIATE.  (Operators *)
(* named X_<what goes wrong> are faulty variants of X, for the mutants.)   *)
Begin == <<"begin", "">>
Lock  == <<"lock", "">>
R(t)  == <<"read", t>>
W(t)  == <<"write", t>>

AuthCommand_NoSuchTable ==
  [register     |-> <<Lock, W("users"), W("sessions")>>,
   list_users   |-> <<Begin, R("users")>>,
   login        |-> <<Begin, R("users"), W("session")>>,
   authenticate |-> <<Begin, R("sessions"), R("users")>>,
   expire       |-> <<Begin, R("sessions"), W("sessions")>>,
   logout       |-> <<Begin, W("sessions")>>]

AuthCommand ==
  [register     |-> <<Lock, W("users"), W("sessions")>>,
   list_users   |-> <<Begin, R("users")>>,
   login        |-> <<Begin, R("users"), W("sessions")>>,
   authenticate |-> <<Begin, R("sessions"), R("users")>>,
   expire       |-> <<Begin, R("sessions"), W("sessions")>>,
   logout       |-> <<Begin, W("sessions")>>]

ChannelCommand ==
  [create_channel       |-> <<Begin, W("channels"), W("channel_members")>>,
   list_channels        |-> <<Begin, R("channels"), R("channel_members")>>,
   join_channel         |-> <<Lock, R("channels"), R("channel_members"),
                              R("channel_join_requests"), W("channel_join_requests")>>,
   leave_channel        |-> <<Begin, R("channels"), W("channel_members")>>,
   require_member       |-> <<Begin, R("channels"), R("channel_members")>>,
   list_join_requests   |-> <<Begin, R("channels"), R("channel_join_requests"), R("users")>>,
   approve_join_request |-> <<Lock, R("channel_join_requests"), R("channels"), R("users"),
                              W("channel_members"), W("channel_join_requests")>>,
   reject_join_request  |-> <<Lock, R("channel_join_requests"), R("channels"),
                              W("channel_join_requests")>>,
   manage_member        |-> <<Lock, R("channels"), R("users"), W("channel_members")>>,
   list_members         |-> <<Begin, R("channels"), R("channel_members"), R("users")>>,
   delete_channel       |-> <<Lock, R("channels"), W("channels"), W("channel_members"),
                              W("channel_join_requests"), W("messages"), W("files")>>]

(* A stream authorizes each of its channels in one unit of work (two stand *)
(* for several); build_context is what the assistant (assistant.py) reads  *)
(* before it asks the model.                                               *)
ChatCommand ==
  [send_message           |-> <<Lock, R("channels"), R("channel_members"), W("messages"),
                                R("messages"), R("users")>>,
   get_history            |-> <<Begin, R("channels"), R("channel_members"), R("messages"),
                                R("users")>>,
   authorize_subscription |-> <<Begin, R("channels"), R("channel_members"),
                                R("channels"), R("channel_members")>>,
   build_context          |-> <<Begin, R("channels"), R("channel_members"), R("messages"),
                                R("users")>>]

(* The checks before an upload's chunks arrive, and the insertion after    *)
(* them, which reads the row that was there if it inserts none.            *)
FileCommand ==
  [upload_check       |-> <<Begin, R("channels"), R("channel_members"), R("messages"),
                            R("users"), R("files")>>,
   upload             |-> <<Lock, R("channels"), R("channel_members"), W("files"),
                            R("files"), R("users")>>,
   list_files         |-> <<Begin, R("channels"), R("channel_members"), R("files"),
                            R("users")>>,
   authorize_download |-> <<Begin, R("files"), R("users"), R("channels"),
                            R("channel_members")>>]

ASSUME OpAssumption ==
  Op \subseteq DOMAIN AuthCommand \cup DOMAIN ChannelCommand
                 \cup DOMAIN ChatCommand \cup DOMAIN FileCommand

ASSUME ProcAssumption == NoProc \notin Proc

Program(o) ==
  CASE o \in DOMAIN AuthCommand    -> AuthCommand[o]
    [] o \in DOMAIN ChannelCommand -> ChannelCommand[o]
    [] o \in DOMAIN ChatCommand    -> ChatCommand[o]
    [] o \in DOMAIN FileCommand    -> FileCommand[o]

Places(o, s) == {i \in 1..Len(Program(o)) : Program(o)[i] = s}
Reads  == [o \in Op |-> {t \in Table : Places(o, R(t)) # {}}]
Writes == [o \in Op |-> [t \in Table |-> IF Places(o, W(t)) = {} THEN 0 ELSE 1]]
ReadOnly(o) == \A t \in Table : Writes[o][t] = 0

-----------------------------------------------------------------------------
VARIABLES
  store,     \* store[t]: how many commits have written table t
  op,        \* op[p]: the command whose unit of work p is in, or "idle"
  pc,        \* pc[p]: its next statement
  snap,      \* snap[p]: the store its transaction reads, <<>> before the first
  seen,      \* seen[p]: the versions its reads returned
  wrote,     \* wrote[p]: the tables it has written, not yet committed
  writer,    \* the holder of SQLite's writer slot
  result,    \* result[p]: what the last finished command of p read
  error      \* error[p]: how SQLite failed the last command of p

vars == <<store, op, pc, snap, seen, wrote, writer, result, error>>

NoView == <<>>

Init ==
  /\ store = [t \in Table |-> 0]
  /\ op = [p \in Proc |-> "idle"]
  /\ pc = [p \in Proc |-> 1]
  /\ snap = [p \in Proc |-> NoView]
  /\ seen = [p \in Proc |-> NoView]
  /\ wrote = [p \in Proc |-> {}]
  /\ writer = NoProc
  /\ result = [p \in Proc |-> NoView]
  /\ error = [p \in Proc |-> "none"]

Running(p) == op[p] # "idle"
AtEnd(p) == pc[p] > Len(Program(op[p]))
Statement(p, kind) == Running(p) /\ ~AtEnd(p) /\ Program(op[p])[pc[p]][1] = kind
TableOf(p) == Program(op[p])[pc[p]][2]
Advance(p) == pc' = [pc EXCEPT ![p] = @ + 1]

(* The connection is closed: its transaction, if not committed, is rolled  *)
(* back, and the writer slot is free again.                                *)
Close_KeepsSlot(p) ==
  /\ op' = [op EXCEPT ![p] = "idle"]
  /\ pc' = [pc EXCEPT ![p] = 1]
  /\ snap' = [snap EXCEPT ![p] = NoView]
  /\ seen' = [seen EXCEPT ![p] = NoView]
  /\ wrote' = [wrote EXCEPT ![p] = {}]
  /\ writer' = writer

Close(p) ==
  /\ op' = [op EXCEPT ![p] = "idle"]
  /\ pc' = [pc EXCEPT ![p] = 1]
  /\ snap' = [snap EXCEPT ![p] = NoView]
  /\ seen' = [seen EXCEPT ![p] = NoView]
  /\ wrote' = [wrote EXCEPT ![p] = {}]
  /\ writer' = IF writer = p THEN NoProc ELSE writer

(* __enter__: a connection of its own; a deferred BEGIN takes no lock and  *)
(* no snapshot, BEGIN IMMEDIATE is still to be granted.                    *)
Enter(p, o) ==
  /\ ~Running(p)
  /\ \A t \in Table : store[t] < MaxVersion
  /\ op' = [op EXCEPT ![p] = o]
  /\ pc' = [pc EXCEPT ![p] = IF Program(o)[1] = Begin THEN 2 ELSE 1]
  /\ result' = [result EXCEPT ![p] = NoView]
  /\ error' = [error EXCEPT ![p] = "none"]
  /\ UNCHANGED <<store, snap, seen, wrote, writer>>

(* BEGIN IMMEDIATE is granted.                                             *)
Reserve(p) ==
  /\ Statement(p, "lock")
  /\ writer = NoProc
  /\ writer' = p
  /\ snap' = [snap EXCEPT ![p] = store]
  /\ Advance(p)
  /\ UNCHANGED <<store, op, seen, wrote, result, error>>

Snapshot_PerStatement(p) == store

(* What a statement of p reads: the snapshot its first statement took.     *)
Snapshot(p) == IF snap[p] = NoView THEN store ELSE snap[p]

Read(p) ==
  /\ Statement(p, "read")
  /\ snap' = [snap EXCEPT ![p] = Snapshot(p)]
  /\ seen' = [seen EXCEPT ![p] =
                [t \in DOMAIN @ \cup {TableOf(p)} |->
                  IF t \in DOMAIN @ THEN @[t] ELSE Snapshot(p)[t]]]
  /\ Advance(p)
  /\ UNCHANGED <<store, op, wrote, writer, result, error>>

MayWrite_StaleSnapshot(p) == writer \in {NoProc, p}

(* SQLite's rule: the holder of the slot writes; a transaction without it  *)
(* gets it if it is free and nothing was committed since its snapshot.     *)
MayWrite(p) ==
  \/ writer = p
  \/ writer = NoProc /\ snap[p] \in {NoView, store}

Write(p) ==
  /\ Statement(p, "write")
  /\ MayWrite(p)
  /\ writer' = p
  /\ snap' = [snap EXCEPT ![p] = Snapshot(p)]
  /\ wrote' = [wrote EXCEPT ![p] = @ \cup {TableOf(p)}]
  /\ Advance(p)
  /\ UNCHANGED <<store, op, seen, result, error>>

(* A deferred transaction that has read cannot wait for the slot: its      *)
(* snapshot would be out of date when it got it.  SQLITE_BUSY at once.     *)
UpgradeFails(p) ==
  /\ Statement(p, "write")
  /\ snap[p] # NoView
  /\ ~MayWrite(p)
  /\ error' = [error EXCEPT ![p] = "upgrade"]
  /\ Close(p)
  /\ UNCHANGED <<store, result>>

(* A transaction without a snapshot waits, for busy_timeout at most.       *)
BusyTimeout(p) ==
  /\ Statement(p, "lock") \/ (Statement(p, "write") /\ snap[p] = NoView)
  /\ writer \notin {NoProc, p}
  /\ error' = [error EXCEPT ![p] = "timeout"]
  /\ Close(p)
  /\ UNCHANGED <<store, result>>

(* commit and __exit__ after the last statement of a command that writes.  *)
Commit(p) ==
  /\ Running(p)
  /\ AtEnd(p)
  /\ ~ReadOnly(op[p])
  /\ store' = [t \in Table |-> IF t \in wrote[p] THEN snap[p][t] + 1 ELSE store[t]]
  /\ result' = [result EXCEPT ![p] = seen[p]]
  /\ Close(p)
  /\ UNCHANGED error

(* __exit__ of a command that only reads.                                  *)
Exit(p) ==
  /\ Running(p)
  /\ AtEnd(p)
  /\ ReadOnly(op[p])
  /\ result' = [result EXCEPT ![p] = seen[p]]
  /\ Close(p)
  /\ UNCHANGED <<store, error>>

(* An ApplicationError or an IntegrityError leaves the block early, after  *)
(* a read or a write: __exit__ rolls back.                                 *)
Raise(p) ==
  /\ Running(p)
  /\ snap[p] # NoView
  /\ Close(p)
  /\ UNCHANGED <<store, result, error>>

(* The server process dies.  WAL recovery keeps what was committed.        *)
Crash ==
  /\ op' = [p \in Proc |-> "idle"]
  /\ pc' = [p \in Proc |-> 1]
  /\ snap' = [p \in Proc |-> NoView]
  /\ seen' = [p \in Proc |-> NoView]
  /\ wrote' = [p \in Proc |-> {}]
  /\ writer' = NoProc
  /\ result' = [p \in Proc |-> NoView]
  /\ error' = [p \in Proc |-> "none"]
  /\ UNCHANGED store

Step(p) == Reserve(p) \/ Read(p) \/ Write(p) \/ UpgradeFails(p) \/ BusyTimeout(p)
             \/ Commit(p) \/ Exit(p)

Next ==
  \/ \E p \in Proc : (\E o \in Op : Enter(p, o)) \/ Step(p) \/ Raise(p)
  \/ Crash

(* A thread inside a unit of work goes on with it.                         *)
Spec == Init /\ [][Next]_vars /\ \A p \in Proc : WF_vars(Step(p))

-----------------------------------------------------------------------------
(* f gives some tables a version, for each thread.                         *)
AreViews(f) ==
  /\ DOMAIN f = Proc
  /\ \A p \in Proc : f[p] \in [DOMAIN f[p] -> Nat] /\ DOMAIN f[p] \subseteq Table

(* Every variable keeps its type.                                          *)
TypeOK ==
  /\ store \in [Table -> Nat]
  /\ op \in [Proc -> Op \cup {"idle"}]
  /\ pc \in [Proc -> Nat \ {0}]
  /\ snap \in [Proc -> {NoView} \cup [Table -> Nat]]
  /\ AreViews(seen)
  /\ wrote \in [Proc -> SUBSET Table]
  /\ writer \in Proc \cup {NoProc}
  /\ AreViews(result)
  /\ error \in [Proc -> {"none", "upgrade", "timeout"}]

(* Whoever holds the writer slot is inside a unit of work and works on the *)
(* latest committed state; nobody else has anything to commit.             *)
WriterIsCurrent ==
  /\ \A p \in Proc : writer = p => Running(p) /\ snap[p] = store
  /\ \A p \in Proc : wrote[p] # {} => writer = p

(* Only the commands that read before their first write in a deferred      *)
(* transaction can fail because another command committed meanwhile; the   *)
(* commands that begin with BEGIN IMMEDIATE or with a write wait instead.  *)
OnlyDeferredUpgradesFail ==
  [][\A p \in Proc : error[p] # "upgrade" /\ error'[p] = "upgrade"
       => op[p] \in {"login", "expire", "leave_channel"}]_vars

(* The writer slot always comes back: no way out of a unit of work, be it  *)
(* commit, exception, timeout or crash, keeps it.                          *)
SlotComesBack == []<>(writer = NoProc)

(* Every command is atomic: its writes land together, on the very state it *)
(* read; what a reading command saw is one committed state.                *)
ReadView(p) ==
  IF Running(p) /\ ReadOnly(op[p]) /\ snap[p] # NoView
  THEN [t \in Reads[op[p]] |-> IF t \in DOMAIN seen[p] THEN seen[p][t] ELSE snap[p][t]]
  ELSE result[p]

Atomic == INSTANCE AtomicStore WITH result <- [p \in Proc |-> ReadView(p)]

CommandsAreAtomic == Atomic!Spec

(* docs/phases/phase_3_report.md, lines 66-68: "Write commands use an      *)
(* immediate SQLite transaction so concurrent read-then-write operations   *)
(* wait for the local writer slot instead of failing during a deferred     *)
(* transaction upgrade".  leave_channel reads and then writes in a deferred*)
(* one.                                                                    *)
UpgradeNeverFails == \A p \in Proc : error[p] # "upgrade"

=============================================================================
