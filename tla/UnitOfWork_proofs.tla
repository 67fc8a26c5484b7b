------------------------- MODULE UnitOfWork_proofs --------------------------
(***************************************************************************)
(* The safety properties of UnitOfWork for every number of threads and     *)
(* every choice of the server's commands, and the proof that units of work *)
(* implement AtomicStore.                                                  *)
(***************************************************************************)
EXTENDS UnitOfWork, SequenceTheorems, TLAPS

(* The statements of a program after its first.                            *)
WriteAccess == {W(t) : t \in Table}
Access == {R(t) : t \in Table} \cup WriteAccess

(* How every command is built: a BEGIN, then reads and writes; a command   *)
(* without a write is a deferred transaction that starts with a read.      *)
WellFormed(prog) ==
  /\ Len(prog) \in Nat /\ Len(prog) >= 2
  /\ prog[1] \in {Begin, Lock}
  /\ \A i \in 2..Len(prog) : prog[i] \in Access
  /\ \/ \E i \in 2..Len(prog) : prog[i] \in WriteAccess
     \/ (prog[1] = Begin /\ prog[2] \in Access \ WriteAccess)

(* A command that never has to upgrade a snapshot.                         *)
WaitsToWrite(prog) ==
  \/ prog[1] = Lock
  \/ prog[2] \in WriteAccess
  \/ \A i \in 2..Len(prog) : prog[i] \notin WriteAccess

(* The deferred commands that read before they write.                      *)
Upgrading == {"login", "expire", "leave_channel"}

(* What o has read and written before its statement n.                     *)
DoneReads(o, n)  == {t \in Table : \E j \in 1..(n - 1) : Program(o)[j] = R(t)}
DoneWrites(o, n) == {t \in Table : \E j \in 1..(n - 1) : Program(o)[j] = W(t)}

(* WriterIsCurrent for one thread.                                         *)
SlotInv(p) ==
  /\ writer = p => Running(p) /\ snap[p] = store
  /\ wrote[p] # {} => writer = p

(* How far p's command is, and what that says of the rest of p's state.    *)
ProgressInv(p) ==
  Running(p) =>
    /\ pc[p] \in 1..(Len(Program(op[p])) + 1)
    /\ DOMAIN seen[p] = DoneReads(op[p], pc[p])
    /\ wrote[p] = DoneWrites(op[p], pc[p])
    /\ result[p] = NoView

(* Who has no snapshot yet, and who must hold the writer slot by now.      *)
SnapshotInv(p) ==
  Running(p) =>
    /\ pc[p] = 1 => snap[p] = NoView
    /\ pc[p] = 2 /\ Program(op[p])[1] = Begin => snap[p] = NoView
    /\ pc[p] > 1 /\ Program(op[p])[1] = Lock => writer = p

(* All reads of a unit of work saw its one snapshot.                       *)
ViewInv(p) ==
  /\ ~Running(p) => snap[p] = NoView
  /\ snap[p] = NoView => DOMAIN seen[p] = {} /\ wrote[p] = {}
  /\ \A t \in DOMAIN seen[p] : seen[p][t] = snap[p][t]

UnitInv(p) == SlotInv(p) /\ ProgressInv(p) /\ SnapshotInv(p) /\ ViewInv(p)

IInv == TypeOK /\ \A p \in Proc : UnitInv(p)

-----------------------------------------------------------------------------
(* The statements can be told apart.                                       *)
LEMMA AccessKinds ==
  /\ \A t \in Table : /\ R(t) \in Access \ WriteAccess
                      /\ W(t) \in WriteAccess /\ W(t) \in Access
  /\ Begin \notin Access /\ Lock \notin Access /\ Begin # Lock
  BY DEF Access, WriteAccess, R, W, Begin, Lock

LEMMA TableNames ==
  /\ "users" \in Table /\ "sessions" \in Table /\ "channels" \in Table
  /\ "channel_members" \in Table /\ "channel_join_requests" \in Table
  /\ "messages" \in Table /\ "files" \in Table
  BY DEF Table

LEMMA AuthCommands ==
  \A o \in DOMAIN AuthCommand :
    /\ WellFormed(AuthCommand[o])
    /\ o \notin Upgrading => WaitsToWrite(AuthCommand[o])
<1> USE AccessKinds, TableNames DEF WellFormed, WaitsToWrite, AuthCommand, Upgrading
<1>1. DOMAIN AuthCommand =
        {"register", "list_users", "login", "authenticate", "expire",
         "logout"}
  OBVIOUS
<1>2. WellFormed(AuthCommand["register"])
  OBVIOUS
<1>3. WaitsToWrite(AuthCommand["register"])
  OBVIOUS
<1>4. WellFormed(AuthCommand["list_users"])
  OBVIOUS
<1>5. WaitsToWrite(AuthCommand["list_users"])
  OBVIOUS
<1>6. WellFormed(AuthCommand["login"])
  OBVIOUS
<1>7. WellFormed(AuthCommand["authenticate"])
  OBVIOUS
<1>8. WaitsToWrite(AuthCommand["authenticate"])
  OBVIOUS
<1>9. WellFormed(AuthCommand["expire"])
  OBVIOUS
<1>10. WellFormed(AuthCommand["logout"])
  OBVIOUS
<1>11. WaitsToWrite(AuthCommand["logout"])
  OBVIOUS
<1> HIDE DEF WellFormed, WaitsToWrite, AuthCommand
<1> QED BY <1>1, <1>2, <1>3, <1>4, <1>5, <1>6, <1>7, <1>8, <1>9, <1>10, <1>11

LEMMA ChannelCommands ==
  \A o \in DOMAIN ChannelCommand :
    /\ WellFormed(ChannelCommand[o])
    /\ o \notin Upgrading => WaitsToWrite(ChannelCommand[o])
<1> USE AccessKinds, TableNames DEF WellFormed, WaitsToWrite, ChannelCommand, Upgrading
<1>1. DOMAIN ChannelCommand =
        {"create_channel", "list_channels", "join_channel",
         "leave_channel", "require_member", "list_join_requests",
         "approve_join_request", "reject_join_request",
         "manage_member", "list_members", "delete_channel"}
  OBVIOUS
<1>2. WellFormed(ChannelCommand["create_channel"])
  OBVIOUS
<1>3. WaitsToWrite(ChannelCommand["create_channel"])
  OBVIOUS
<1>4. WellFormed(ChannelCommand["list_channels"])
  OBVIOUS
<1>5. WaitsToWrite(ChannelCommand["list_channels"])
  OBVIOUS
<1>6. WellFormed(ChannelCommand["join_channel"])
  OBVIOUS
<1>7. WaitsToWrite(ChannelCommand["join_channel"])
  OBVIOUS
<1>8. WellFormed(ChannelCommand["leave_channel"])
  OBVIOUS
<1>9. WellFormed(ChannelCommand["require_member"])
  OBVIOUS
<1>10. WaitsToWrite(ChannelCommand["require_member"])
  OBVIOUS
<1>11. WellFormed(ChannelCommand["list_join_requests"])
  OBVIOUS
<1>12. WaitsToWrite(ChannelCommand["list_join_requests"])
  OBVIOUS
<1>13. WellFormed(ChannelCommand["approve_join_request"])
  OBVIOUS
<1>14. WaitsToWrite(ChannelCommand["approve_join_request"])
  OBVIOUS
<1>15. WellFormed(ChannelCommand["reject_join_request"])
  OBVIOUS
<1>16. WaitsToWrite(ChannelCommand["reject_join_request"])
  OBVIOUS
<1>17. WellFormed(ChannelCommand["manage_member"])
  OBVIOUS
<1>18. WaitsToWrite(ChannelCommand["manage_member"])
  OBVIOUS
<1>19. WellFormed(ChannelCommand["list_members"])
  OBVIOUS
<1>20. WaitsToWrite(ChannelCommand["list_members"])
  OBVIOUS
<1>21. WellFormed(ChannelCommand["delete_channel"])
  OBVIOUS
<1>22. WaitsToWrite(ChannelCommand["delete_channel"])
  OBVIOUS
<1> HIDE DEF WellFormed, WaitsToWrite, ChannelCommand
<1> QED BY <1>1, <1>2, <1>3, <1>4, <1>5, <1>6, <1>7, <1>8, <1>9, <1>10, <1>11, <1>12,
           <1>13, <1>14, <1>15, <1>16, <1>17, <1>18, <1>19, <1>20, <1>21, <1>22

LEMMA ChatCommands ==
  \A o \in DOMAIN ChatCommand :
    /\ WellFormed(ChatCommand[o])
    /\ o \notin Upgrading => WaitsToWrite(ChatCommand[o])
<1> USE AccessKinds, TableNames DEF WellFormed, WaitsToWrite, ChatCommand, Upgrading
<1>1. DOMAIN ChatCommand =
        {"send_message", "get_history", "authorize_subscription",
         "build_context"}
  OBVIOUS
<1>2. WellFormed(ChatCommand["send_message"])
  OBVIOUS
<1>3. WaitsToWrite(ChatCommand["send_message"])
  OBVIOUS
<1>4. WellFormed(ChatCommand["get_history"])
  OBVIOUS
<1>5. WaitsToWrite(ChatCommand["get_history"])
  OBVIOUS
<1>6. WellFormed(ChatCommand["authorize_subscription"])
  OBVIOUS
<1>7. WaitsToWrite(ChatCommand["authorize_subscription"])
  OBVIOUS
<1>8. WellFormed(ChatCommand["build_context"])
  OBVIOUS
<1>9. WaitsToWrite(ChatCommand["build_context"])
  OBVIOUS
<1> HIDE DEF WellFormed, WaitsToWrite, ChatCommand
<1> QED BY <1>1, <1>2, <1>3, <1>4, <1>5, <1>6, <1>7, <1>8, <1>9

LEMMA FileCommands ==
  \A o \in DOMAIN FileCommand :
    /\ WellFormed(FileCommand[o])
    /\ o \notin Upgrading => WaitsToWrite(FileCommand[o])
<1> USE AccessKinds, TableNames DEF WellFormed, WaitsToWrite, FileCommand, Upgrading
<1>1. DOMAIN FileCommand =
        {"upload_check", "upload", "list_files",
         "authorize_download"}
  OBVIOUS
<1>2. WellFormed(FileCommand["upload_check"])
  OBVIOUS
<1>3. WaitsToWrite(FileCommand["upload_check"])
  OBVIOUS
<1>4. WellFormed(FileCommand["upload"])
  OBVIOUS
<1>5. WaitsToWrite(FileCommand["upload"])
  OBVIOUS
<1>6. WellFormed(FileCommand["list_files"])
  OBVIOUS
<1>7. WaitsToWrite(FileCommand["list_files"])
  OBVIOUS
<1>8. WellFormed(FileCommand["authorize_download"])
  OBVIOUS
<1>9. WaitsToWrite(FileCommand["authorize_download"])
  OBVIOUS
<1> HIDE DEF WellFormed, WaitsToWrite, FileCommand
<1> QED BY <1>1, <1>2, <1>3, <1>4, <1>5, <1>6, <1>7, <1>8, <1>9

LEMMA Programs ==
  ASSUME NEW o \in Op
  PROVE  /\ WellFormed(Program(o))
         /\ o \notin Upgrading => WaitsToWrite(Program(o))
         /\ o # "idle"
<1> DEFINE Auth == DOMAIN AuthCommand
           Channel == DOMAIN ChannelCommand
           Chat == DOMAIN ChatCommand
           File == DOMAIN FileCommand
<1>1. /\ Auth \cap Channel = {} /\ Auth \cap Chat = {} /\ Auth \cap File = {}
      /\ Channel \cap Chat = {} /\ Channel \cap File = {} /\ Chat \cap File = {}
      /\ "idle" \notin Auth \cup Channel \cup Chat \cup File
  BY DEF AuthCommand, ChannelCommand, ChatCommand, FileCommand
<1> HIDE DEF Auth, Channel, Chat, File
<1>2. o \in Auth \cup Channel \cup Chat \cup File
  BY OpAssumption DEF Auth, Channel, Chat, File
<1>3. CASE o \in Auth
  <2>1. Program(o) = AuthCommand[o]
    BY <1>1, <1>3 DEF Program, Auth, Channel, Chat, File
  <2> QED BY <1>1, <1>3, <2>1, AuthCommands DEF Auth
<1>4. CASE o \in Channel
  <2>1. Program(o) = ChannelCommand[o]
    BY <1>1, <1>4 DEF Program, Auth, Channel, Chat, File
  <2> QED BY <1>1, <1>4, <2>1, ChannelCommands DEF Channel
<1>5. CASE o \in Chat
  <2>1. Program(o) = ChatCommand[o]
    BY <1>1, <1>5 DEF Program, Auth, Channel, Chat, File
  <2> QED BY <1>1, <1>5, <2>1, ChatCommands DEF Chat
<1>6. CASE o \in File
  <2>1. Program(o) = FileCommand[o]
    BY <1>1, <1>6 DEF Program, Auth, Channel, Chat, File
  <2> QED BY <1>1, <1>6, <2>1, FileCommands DEF File
<1> QED BY <1>2, <1>3, <1>4, <1>5, <1>6

-----------------------------------------------------------------------------
(* The kind of a statement says where in the program it can be.            *)
LEMMA StatementKinds ==
  ASSUME NEW o \in Op, NEW n \in 1..Len(Program(o))
  PROVE  LET s == Program(o)[n] IN
         /\ s[1] = "lock" => n = 1 /\ s = Lock
         /\ s[1] = "read" => n > 1 /\ s[2] \in Table /\ s = R(s[2])
         /\ s[1] = "write" => n > 1 /\ s[2] \in Table /\ s = W(s[2])
<1> DEFINE s == Program(o)[n]
<1>1. \/ n > 1 /\ s \in Access
      \/ n = 1 /\ s \in {Begin, Lock}
  <2>1. WellFormed(Program(o))
    BY Programs
  <2>2. n = 1 \/ n \in 2..Len(Program(o))
    BY <2>1 DEF WellFormed
  <2>3. CASE n = 1
    BY <2>1, <2>3 DEF WellFormed
  <2>4. CASE n \in 2..Len(Program(o))
    <3>1. Len(Program(o)) \in Nat /\ Program(o)[n] \in Access
      BY <2>1, <2>4 DEF WellFormed
    <3>2. n > 1
      BY <2>4, <3>1
    <3> QED BY <3>1, <3>2
  <2> QED BY <2>2, <2>3, <2>4
<1>2. s \in Access => \E t \in Table : s = R(t) \/ s = W(t)
  BY DEF Access, WriteAccess
<1>3. /\ Begin[1] = "begin" /\ Lock[1] = "lock"
      /\ \A t \in Table : R(t)[1] = "read" /\ R(t)[2] = t /\ W(t)[1] = "write" /\ W(t)[2] = t
  BY DEF Begin, Lock, R, W
<1> QED BY <1>1, <1>2, <1>3

(* No table is read or written by a BEGIN, and one by any other statement. *)
LEMMA DoneStep ==
  ASSUME NEW o \in Op, NEW n \in 1..Len(Program(o)), NEW t \in Table
  PROVE  /\ t \in DoneReads(o, n + 1) <=> t \in DoneReads(o, n) \/ Program(o)[n] = R(t)
         /\ t \in DoneWrites(o, n + 1) <=> t \in DoneWrites(o, n) \/ Program(o)[n] = W(t)
<1>1. n \in Nat /\ n >= 1
  BY Programs DEF WellFormed
<1>2. 1..(n + 1 - 1) = (1..(n - 1)) \cup {n}
  BY <1>1
<1> QED BY <1>2 DEF DoneReads, DoneWrites

LEMMA DoneNext ==
  ASSUME NEW o \in Op, NEW n \in 1..Len(Program(o))
  PROVE  LET s == Program(o)[n] IN
         /\ s[1] \notin {"read", "write"} =>
              DoneReads(o, n + 1) = DoneReads(o, n) /\ DoneWrites(o, n + 1) = DoneWrites(o, n)
         /\ s[1] = "read" =>
              /\ DoneReads(o, n + 1) = DoneReads(o, n) \cup {s[2]}
              /\ DoneWrites(o, n + 1) = DoneWrites(o, n)
         /\ s[1] = "write" =>
              /\ DoneReads(o, n + 1) = DoneReads(o, n)
              /\ DoneWrites(o, n + 1) = DoneWrites(o, n) \cup {s[2]}
<1> DEFINE s == Program(o)[n]
<1>1. \A t \in Table : R(t)[1] = "read" /\ R(t)[2] = t /\ W(t)[1] = "write" /\ W(t)[2] = t
  BY DEF R, W
<1>2. \A t \in Table :
        /\ t \in DoneReads(o, n + 1) <=> t \in DoneReads(o, n) \/ s = R(t)
        /\ t \in DoneWrites(o, n + 1) <=> t \in DoneWrites(o, n) \/ s = W(t)
  BY DoneStep
<1>3. /\ DoneReads(o, n) \subseteq Table /\ DoneReads(o, n + 1) \subseteq Table
      /\ DoneWrites(o, n) \subseteq Table /\ DoneWrites(o, n + 1) \subseteq Table
  BY DEF DoneReads, DoneWrites
<1>4. /\ s[1] = "read" => s[2] \in Table /\ s = R(s[2])
      /\ s[1] = "write" => s[2] \in Table /\ s = W(s[2])
  BY StatementKinds
<1> HIDE DEF s
<1>5. ASSUME s[1] \notin {"read", "write"}
      PROVE  DoneReads(o, n + 1) = DoneReads(o, n) /\ DoneWrites(o, n + 1) = DoneWrites(o, n)
  <2>1. \A t \in Table : s # R(t) /\ s # W(t)
    BY <1>1, <1>5
  <2> QED BY <1>2, <1>3, <2>1
<1>6. ASSUME s[1] = "read"
      PROVE  /\ DoneReads(o, n + 1) = DoneReads(o, n) \cup {s[2]}
             /\ DoneWrites(o, n + 1) = DoneWrites(o, n)
  BY <1>1, <1>2, <1>3, <1>4, <1>6
<1>7. ASSUME s[1] = "write"
      PROVE  /\ DoneReads(o, n + 1) = DoneReads(o, n)
             /\ DoneWrites(o, n + 1) = DoneWrites(o, n) \cup {s[2]}
  BY <1>1, <1>2, <1>3, <1>4, <1>7
<1> QED BY <1>5, <1>6, <1>7 DEF s

(* Before the first read or write nothing is done.                         *)
LEMMA NothingDone ==
  ASSUME NEW o \in Op
  PROVE  /\ DoneReads(o, 1) = {} /\ DoneWrites(o, 1) = {}
         /\ DoneReads(o, 2) = {} /\ DoneWrites(o, 2) = {}
<1>1. DoneReads(o, 1) = {} /\ DoneWrites(o, 1) = {}
  BY DEF DoneReads, DoneWrites
<1>2. 1 \in 1..Len(Program(o)) /\ Program(o)[1] \in {Begin, Lock}
  BY Programs DEF WellFormed
<1>3. Program(o)[1][1] \notin {"read", "write"}
  <2>1. Begin[1] = "begin" /\ Lock[1] = "lock"
    BY DEF Begin, Lock
  <2> QED BY <1>2, <2>1
<1>4. DoneReads(o, 1 + 1) = {} /\ DoneWrites(o, 1 + 1) = {}
  BY <1>1, <1>2, <1>3, DoneNext
<1> QED BY <1>1, <1>4

(* After its last statement a command has done its Reads and Writes.       *)
LEMMA AllDone ==
  ASSUME NEW o \in Op, NEW n \in Nat, n = Len(Program(o)) + 1
  PROVE  /\ DoneReads(o, n) = Reads[o]
         /\ \A t \in Table : Writes[o][t] = IF t \in DoneWrites(o, n) THEN 1 ELSE 0
         /\ ReadOnly(o) => DoneReads(o, n) # {}
         /\ ~ReadOnly(o) => DoneWrites(o, n) # {}
<1>1. n - 1 = Len(Program(o)) /\ WellFormed(Program(o)) /\ Len(Program(o)) \in Nat
  BY Programs DEF WellFormed
<1>2. DoneReads(o, n) = Reads[o]
  BY <1>1 DEF DoneReads, Reads, Places
<1>3. \A t \in Table : Writes[o][t] = IF t \in DoneWrites(o, n) THEN 1 ELSE 0
  BY <1>1 DEF DoneWrites, Writes, Places
<1>4. ReadOnly(o) <=> DoneWrites(o, n) = {}
  BY <1>3 DEF ReadOnly, DoneWrites
<1>5. ASSUME ReadOnly(o) PROVE DoneReads(o, n) # {}
  <2>1. \A i \in 2..Len(Program(o)) : Program(o)[i] \notin WriteAccess
    BY <1>1, <1>4, <1>5 DEF DoneWrites, WriteAccess
  <2>2. Program(o)[2] \in Access \ WriteAccess /\ 2 \in 1..Len(Program(o))
    BY <1>1, <2>1 DEF WellFormed
  <2>3. PICK t \in Table : Program(o)[2] = R(t)
    BY <2>2 DEF Access
  <2> QED BY <1>1, <2>2, <2>3 DEF DoneReads
<1> QED BY <1>2, <1>3, <1>4, <1>5

(* A command that only reads has no statement to write with.               *)
LEMMA ReadOnlyPrograms ==
  ASSUME NEW o \in Op, ReadOnly(o), NEW n \in 1..Len(Program(o))
  PROVE  Program(o)[n][1] \notin {"write", "lock"}
<1>1. WellFormed(Program(o))
  BY Programs
<1>2. \A t \in Table : Program(o)[n] # W(t)
  BY DEF ReadOnly, Writes, Places
<1>3. Program(o)[n][1] # "write"
  BY <1>2, StatementKinds
<1>4. \A i \in 2..Len(Program(o)) : Program(o)[i] \notin WriteAccess
  <2> SUFFICES ASSUME NEW i \in 2..Len(Program(o)), NEW t \in Table, Program(o)[i] = W(t)
               PROVE  FALSE
    BY DEF WriteAccess
  <2>1. i \in Places(o, W(t))
    BY <1>1 DEF Places, WellFormed
  <2> QED BY <2>1 DEF ReadOnly, Writes
<1>5. Program(o)[1] = Begin
  BY <1>1, <1>4 DEF WellFormed
<1>6. Program(o)[n][1] # "lock"
  BY <1>5, StatementKinds, AccessKinds
<1> QED BY <1>3, <1>6

-----------------------------------------------------------------------------
(* The view of a unit of work that has read nothing.                       *)
LEMMA Nothing ==
  /\ NoView \in [DOMAIN NoView -> Nat] /\ DOMAIN NoView = {}
  /\ \A f \in [Table -> Nat] : f # NoView
  /\ \A f \in [{} -> Nat] : f = NoView
<1>1. NoView \in Seq(Nat) /\ Len(NoView) = 0 /\ \A f \in Seq(Nat) : f # NoView => Len(f) \in Nat \ {0}
  BY EmptySeq DEF NoView
<1>2. NoView \in [1..0 -> Nat] /\ DOMAIN NoView = 1..0
  BY <1>1, LenProperties
<1>3. 1..0 = {}
  OBVIOUS
<1>4. \A f \in [Table -> Nat] : f # NoView
  BY <1>2, <1>3, TableNames
<1>5. ASSUME NEW f \in [{} -> Nat] PROVE f = NoView
  <2>1. f \in [1..0 -> Nat] /\ 0 \in Nat
    BY <1>3
  <2>2. f \in Seq(Nat)
    BY <2>1, SeqDef
  <2>3. DOMAIN f = 1..Len(f) /\ Len(f) \in Nat
    BY <2>2, LenProperties
  <2>4. Len(f) = 0
    BY <2>3
  <2> QED BY <1>1, <2>2, <2>4
<1> QED BY <1>2, <1>3, <1>4, <1>5

(* What is known of the statement p is at.                                 *)
LEMMA Current ==
  ASSUME TypeOK, NEW p \in Proc, NEW kind \in {"lock", "read", "write"}, Statement(p, kind)
  PROVE  /\ op[p] \in Op /\ Running(p)
         /\ pc[p] \in 1..Len(Program(op[p]))
         /\ pc[p] + 1 \in 1..(Len(Program(op[p])) + 1)
         /\ Program(op[p])[pc[p]][1] = kind
         /\ kind \in {"read", "write"} => TableOf(p) \in Table /\ pc[p] > 1
         /\ kind = "lock" => pc[p] = 1 /\ Program(op[p])[1] = Lock
<1>1. op[p] \in Op /\ Running(p) /\ Program(op[p])[pc[p]][1] = kind
  BY DEF Statement, Running, TypeOK
<1>2. pc[p] \in Nat \ {0} /\ ~(pc[p] > Len(Program(op[p]))) /\ Len(Program(op[p])) \in Nat
  BY <1>1, Programs DEF Statement, AtEnd, TypeOK, WellFormed
<1>3. /\ pc[p] \in 1..Len(Program(op[p]))
      /\ pc[p] + 1 \in 1..(Len(Program(op[p])) + 1)
  BY <1>2
<1>4. CASE kind = "lock"
  BY <1>1, <1>3, <1>4, StatementKinds
<1>5. CASE kind \in {"read", "write"}
  BY <1>1, <1>3, <1>5, StatementKinds DEF TableOf
<1> QED BY <1>1, <1>3, <1>4, <1>5

(* The first statement takes the snapshot of p.                            *)
LEMMA SnapshotIsStore ==
  ASSUME IInv, NEW p \in Proc
  PROVE  /\ Snapshot(p) \in [Table -> Nat] /\ Snapshot(p) # NoView
         /\ snap[p] # NoView => Snapshot(p) = snap[p]
         /\ writer = p => Snapshot(p) = store
         /\ MayWrite(p) => Snapshot(p) = store
  BY Nothing DEF IInv, TypeOK, Snapshot, UnitInv, SlotInv, MayWrite

-----------------------------------------------------------------------------
LEMMA EnterTypes ==
  ASSUME TypeOK, NEW p \in Proc, NEW o \in Op, Enter(p, o)
  PROVE  TypeOK'
  BY Nothing DEF TypeOK, AreViews, Enter

LEMMA CloseTypes ==
  ASSUME TypeOK, NEW p \in Proc, Close(p), store' \in [Table -> Nat],
         AreViews(result)', error' \in [Proc -> {"none", "upgrade", "timeout"}]
  PROVE  TypeOK'
<1>1. AreViews(seen)'
  BY Nothing DEF TypeOK, AreViews, Close
<1>2. op' \in [Proc -> Op \cup {"idle"}] /\ pc' \in [Proc -> Nat \ {0}]
  BY DEF TypeOK, Close
<1>3. /\ snap' \in [Proc -> {NoView} \cup [Table -> Nat]]
      /\ wrote' \in [Proc -> SUBSET Table] /\ writer' \in Proc \cup {NoProc}
  BY DEF TypeOK, Close
<1> QED BY <1>1, <1>2, <1>3 DEF TypeOK

LEMMA StatementTypes ==
  ASSUME IInv, NEW p \in Proc, Reserve(p) \/ Read(p) \/ Write(p)
  PROVE  TypeOK'
<1> USE DEF IInv
<1>1. Snapshot(p) \in [Table -> Nat] /\ store \in [Table -> Nat]
  BY SnapshotIsStore DEF TypeOK
<1>2. snap' \in [Proc -> {NoView} \cup [Table -> Nat]]
  BY <1>1 DEF Reserve, Read, Write, TypeOK
<1>3. pc' \in [Proc -> Nat \ {0}]
  BY DEF Reserve, Read, Write, Advance, TypeOK
<1>4. AreViews(seen)'
  <2>1. CASE Read(p)
    <3> DEFINE new == [t \in DOMAIN seen[p] \cup {TableOf(p)} |->
                        IF t \in DOMAIN seen[p] THEN seen[p][t] ELSE Snapshot(p)[t]]
    <3>1. seen' = [seen EXCEPT ![p] = new]
      BY <2>1 DEF Read
    <3>2. seen[p] \in [DOMAIN seen[p] -> Nat] /\ DOMAIN seen[p] \subseteq Table
      BY DEF TypeOK, AreViews
    <3>3. TableOf(p) \in Table
      BY <2>1, Current DEF Read
    <3>4. new \in [DOMAIN new -> Nat] /\ DOMAIN new \subseteq Table
      BY <1>1, <3>2, <3>3
    <3> HIDE DEF new
    <3> QED BY <3>1, <3>4 DEF TypeOK, AreViews
  <2>2. CASE Reserve(p) \/ Write(p)
    BY <2>2 DEF Reserve, Write, TypeOK, AreViews
  <2> QED BY <2>1, <2>2
<1>5. /\ wrote' \in [Proc -> SUBSET Table] /\ writer' \in Proc \cup {NoProc}
      /\ UNCHANGED <<store, op, result, error>>
  <2>1. CASE Write(p)
    <3>1. TableOf(p) \in Table
      BY <2>1, Current DEF Write
    <3> QED BY <2>1, <3>1 DEF Write, TypeOK
  <2>2. CASE Reserve(p) \/ Read(p)
    BY <2>2 DEF Reserve, Read, TypeOK
  <2> QED BY <2>1, <2>2
<1> QED BY <1>2, <1>3, <1>4, <1>5 DEF TypeOK, AreViews

LEMMA CommitTypes ==
  ASSUME IInv, NEW p \in Proc, Commit(p)
  PROVE  TypeOK'
<1>1. wrote[p] # {} => snap[p] \in [Table -> Nat]
  BY DEF IInv, UnitInv, ViewInv, TypeOK
<1>2. store' \in [Table -> Nat]
  BY <1>1 DEF Commit, IInv, TypeOK
<1>3. AreViews(result)'
  BY DEF Commit, IInv, TypeOK, AreViews
<1> QED BY <1>2, <1>3, CloseTypes DEF Commit, IInv, TypeOK

LEMMA CrashTypes ==
  ASSUME TypeOK, Crash
  PROVE  TypeOK'
  BY Nothing DEF TypeOK, AreViews, Crash

LEMMA TypeStep ==
  ASSUME IInv, [Next]_vars
  PROVE  TypeOK'
<1>1. CASE UNCHANGED vars
  BY <1>1 DEF IInv, TypeOK, AreViews, vars
<1>2. ASSUME NEW p \in Proc, NEW o \in Op, Enter(p, o) PROVE TypeOK'
  BY <1>2, EnterTypes DEF IInv
<1>3. ASSUME NEW p \in Proc, Reserve(p) \/ Read(p) \/ Write(p) PROVE TypeOK'
  BY <1>3, StatementTypes
<1>4. ASSUME NEW p \in Proc, UpgradeFails(p) \/ BusyTimeout(p) \/ Raise(p) PROVE TypeOK'
  <2>1. Close(p) /\ store' = store /\ result' = result
    BY <1>4 DEF UpgradeFails, BusyTimeout, Raise
  <2>2. error' \in [Proc -> {"none", "upgrade", "timeout"}]
    BY <1>4 DEF UpgradeFails, BusyTimeout, Raise, IInv, TypeOK
  <2> QED BY <2>1, <2>2, CloseTypes DEF IInv, TypeOK, AreViews
<1>5. ASSUME NEW p \in Proc, Commit(p) PROVE TypeOK'
  BY <1>5, CommitTypes
<1>6. ASSUME NEW p \in Proc, Exit(p) PROVE TypeOK'
  <2>1. AreViews(result)'
    BY <1>6 DEF Exit, IInv, TypeOK, AreViews
  <2> QED BY <1>6, <2>1, CloseTypes DEF Exit, IInv, TypeOK
<1>7. CASE Crash
  BY <1>7, CrashTypes DEF IInv
<1> QED BY <1>1, <1>2, <1>3, <1>4, <1>5, <1>6, <1>7 DEF Next, Step

-----------------------------------------------------------------------------
(* A step of one thread leaves the others' units of work alone: it may     *)
(* neither take the writer slot from one nor commit while one holds it.    *)
LEMMA OtherUnit ==
  ASSUME NEW q \in Proc, UnitInv(q),
         op'[q] = op[q], pc'[q] = pc[q], snap'[q] = snap[q], seen'[q] = seen[q],
         wrote'[q] = wrote[q], result'[q] = result[q],
         writer' = q <=> writer = q,
         writer = q => store' = store
  PROVE  UnitInv(q)'
<1>1. Running(q)' <=> Running(q)
  BY DEF Running
<1>2. SlotInv(q)'
  BY <1>1 DEF UnitInv, SlotInv
<1>3. ProgressInv(q)'
  BY <1>1 DEF UnitInv, ProgressInv
<1>4. SnapshotInv(q)'
  BY <1>1 DEF UnitInv, SnapshotInv
<1>5. ViewInv(q)'
  BY <1>1 DEF UnitInv, ViewInv
<1> QED BY <1>2, <1>3, <1>4, <1>5 DEF UnitInv

LEMMA EnterUnit ==
  ASSUME IInv, NEW p \in Proc, NEW o \in Op, Enter(p, o), NEW q \in Proc
  PROVE  UnitInv(q)'
<1> USE DEF IInv
<1>1. CASE q # p
  BY <1>1, OtherUnit DEF Enter, TypeOK, AreViews
<1>2. CASE q = p
  <2>1. ~Running(p) /\ snap[p] = NoView /\ wrote[p] = {} /\ DOMAIN seen[p] = {} /\ writer # p
    BY DEF Enter, UnitInv, ViewInv, SlotInv
  <2>2. /\ op'[p] = o /\ pc'[p] = (IF Program(o)[1] = Begin THEN 2 ELSE 1)
        /\ result'[p] = NoView
        /\ snap'[p] = NoView /\ wrote'[p] = {} /\ DOMAIN seen'[p] = {} /\ writer' # p
    BY <2>1 DEF Enter, TypeOK, AreViews
  <2>3. o # "idle" /\ Len(Program(o)) \in Nat /\ Len(Program(o)) >= 2
    BY Programs DEF WellFormed
  <2>4. SlotInv(p)' /\ ViewInv(p)'
    BY <2>2, <2>3 DEF SlotInv, ViewInv, Running
  <2>5. ProgressInv(p)'
    BY <2>2, <2>3, NothingDone DEF ProgressInv
  <2>6. SnapshotInv(p)'
    BY <2>2, AccessKinds DEF SnapshotInv
  <2> QED BY <1>2, <2>4, <2>5, <2>6 DEF UnitInv
<1> QED BY <1>1, <1>2

LEMMA ReserveUnit ==
  ASSUME IInv, NEW p \in Proc, Reserve(p), NEW q \in Proc
  PROVE  UnitInv(q)'
<1> USE DEF IInv
<1>1. CASE q # p
  BY <1>1, ProcAssumption, OtherUnit DEF Reserve, Advance, TypeOK
<1>2. CASE q = p
  <2>1. /\ op[p] \in Op /\ Running(p) /\ pc[p] = 1 /\ Program(op[p])[1] = Lock
        /\ 1 + 1 \in 1..(Len(Program(op[p])) + 1)
    BY Current DEF Reserve
  <2>2. /\ op' = op /\ pc'[p] = 2 /\ snap'[p] = store /\ seen' = seen /\ wrote' = wrote
        /\ writer' = p /\ store' = store /\ result' = result
    BY <2>1 DEF Reserve, Advance, TypeOK
  <2>3. store # NoView /\ wrote[p] = {} /\ DOMAIN seen[p] = {} /\ result[p] = NoView
    BY <2>1, Nothing DEF TypeOK, UnitInv, ViewInv, SnapshotInv, ProgressInv
  <2>4. SlotInv(p)'
    BY <2>1, <2>2 DEF SlotInv, Running
  <2>5. ViewInv(p)'
    BY <2>1, <2>2, <2>3 DEF ViewInv, Running
  <2>6. ProgressInv(p)'
    BY <2>1, <2>2, <2>3, NothingDone DEF ProgressInv
  <2>7. SnapshotInv(p)'
    BY <2>1, <2>2, AccessKinds DEF SnapshotInv
  <2> QED BY <1>2, <2>4, <2>5, <2>6, <2>7 DEF UnitInv
<1> QED BY <1>1, <1>2

LEMMA ReadUnit ==
  ASSUME IInv, NEW p \in Proc, Read(p), NEW q \in Proc
  PROVE  UnitInv(q)'
<1> USE DEF IInv
<1>1. CASE q # p
  BY <1>1, OtherUnit DEF Read, Advance, TypeOK, AreViews
<1>2. CASE q = p
  <2>1. /\ op[p] \in Op /\ Running(p) /\ pc[p] > 1 /\ pc[p] \in 1..Len(Program(op[p]))
        /\ pc[p] + 1 \in 1..(Len(Program(op[p])) + 1)
        /\ Program(op[p])[pc[p]][1] = "read"
    BY Current DEF Read
  <2>2. /\ op' = op /\ pc'[p] = pc[p] + 1 /\ snap'[p] = Snapshot(p) /\ wrote' = wrote
        /\ writer' = writer /\ store' = store /\ result' = result
    BY DEF Read, Advance, TypeOK
  <2>3. /\ DOMAIN seen'[p] = DOMAIN seen[p] \cup {TableOf(p)}
        /\ \A t \in DOMAIN seen[p] : seen'[p][t] = seen[p][t]
        /\ TableOf(p) \notin DOMAIN seen[p] => seen'[p][TableOf(p)] = Snapshot(p)[TableOf(p)]
    BY DEF Read, TypeOK, AreViews
  <2>4. /\ Snapshot(p) # NoView
        /\ snap[p] # NoView => Snapshot(p) = snap[p]
        /\ writer = p => Snapshot(p) = store
    BY SnapshotIsStore
  <2>5. SlotInv(p)'
    BY <2>1, <2>2, <2>4 DEF UnitInv, SlotInv, Running
  <2>6. ViewInv(p)'
    <3>1. \A t \in DOMAIN seen[p] : seen[p][t] = Snapshot(p)[t]
      BY <2>4 DEF UnitInv, ViewInv
    <3>2. \A t \in DOMAIN seen'[p] : seen'[p][t] = Snapshot(p)[t]
      BY <2>3, <3>1
    <3> QED BY <2>1, <2>2, <2>4, <3>2 DEF ViewInv, Running
  <2>7. ProgressInv(p)'
    <3>1. /\ DOMAIN seen[p] = DoneReads(op[p], pc[p]) /\ wrote[p] = DoneWrites(op[p], pc[p])
          /\ result[p] = NoView
      BY <2>1 DEF UnitInv, ProgressInv
    <3>2. /\ DoneReads(op[p], pc[p] + 1) = DoneReads(op[p], pc[p]) \cup {TableOf(p)}
          /\ DoneWrites(op[p], pc[p] + 1) = DoneWrites(op[p], pc[p])
      BY <2>1, DoneNext DEF TableOf
    <3> QED BY <2>1, <2>2, <2>3, <3>1, <3>2 DEF ProgressInv
  <2>8. SnapshotInv(p)'
    BY <2>1, <2>2 DEF UnitInv, SnapshotInv
  <2> QED BY <1>2, <2>5, <2>6, <2>7, <2>8 DEF UnitInv
<1> QED BY <1>1, <1>2

LEMMA WriteUnit ==
  ASSUME IInv, NEW p \in Proc, Write(p), NEW q \in Proc
  PROVE  UnitInv(q)'
<1> USE DEF IInv
<1>1. CASE q # p
  BY <1>1, ProcAssumption, OtherUnit DEF Write, MayWrite, Advance, TypeOK
<1>2. CASE q = p
  <2>1. /\ op[p] \in Op /\ Running(p) /\ pc[p] > 1 /\ pc[p] \in 1..Len(Program(op[p]))
        /\ pc[p] + 1 \in 1..(Len(Program(op[p])) + 1)
        /\ Program(op[p])[pc[p]][1] = "write"
    BY Current DEF Write
  <2>2. /\ op' = op /\ pc'[p] = pc[p] + 1 /\ snap'[p] = Snapshot(p)
        /\ wrote'[p] = wrote[p] \cup {TableOf(p)} /\ seen' = seen
        /\ writer' = p /\ store' = store /\ result' = result
    BY DEF Write, Advance, TypeOK
  <2>3. /\ Snapshot(p) # NoView /\ Snapshot(p) = store
        /\ snap[p] # NoView => Snapshot(p) = snap[p]
    BY SnapshotIsStore DEF Write
  <2>4. SlotInv(p)'
    BY <2>1, <2>2, <2>3 DEF SlotInv, Running
  <2>5. ViewInv(p)'
    <3>1. \A t \in DOMAIN seen[p] : seen[p][t] = Snapshot(p)[t]
      BY <2>3 DEF UnitInv, ViewInv
    <3> QED BY <2>1, <2>2, <2>3, <3>1 DEF ViewInv, Running
  <2>6. ProgressInv(p)'
    <3>1. /\ DOMAIN seen[p] = DoneReads(op[p], pc[p]) /\ wrote[p] = DoneWrites(op[p], pc[p])
          /\ result[p] = NoView
      BY <2>1 DEF UnitInv, ProgressInv
    <3>2. /\ DoneReads(op[p], pc[p] + 1) = DoneReads(op[p], pc[p])
          /\ DoneWrites(op[p], pc[p] + 1) = DoneWrites(op[p], pc[p]) \cup {TableOf(p)}
      BY <2>1, DoneNext DEF TableOf
    <3> QED BY <2>1, <2>2, <3>1, <3>2 DEF ProgressInv
  <2>7. SnapshotInv(p)'
    BY <2>1, <2>2 DEF SnapshotInv
  <2> QED BY <1>2, <2>4, <2>5, <2>6, <2>7 DEF UnitInv
<1> QED BY <1>1, <1>2

(* However a unit of work ends, only the holder of the slot has committed. *)
LEMMA CloseUnit ==
  ASSUME IInv, NEW p \in Proc, Close(p),
         \A q \in Proc \ {p} : result'[q] = result[q],
         writer # p => store' = store,
         NEW q \in Proc
  PROVE  UnitInv(q)'
<1> USE DEF IInv
<1>1. CASE q # p
  <2>1. /\ op'[q] = op[q] /\ pc'[q] = pc[q] /\ snap'[q] = snap[q] /\ seen'[q] = seen[q]
        /\ wrote'[q] = wrote[q] /\ result'[q] = result[q]
    BY <1>1 DEF Close, TypeOK, AreViews
  <2>2. (writer' = q <=> writer = q) /\ (writer = q => store' = store)
    BY <1>1, ProcAssumption DEF Close
  <2> QED BY <2>1, <2>2, OtherUnit
<1>2. CASE q = p
  <2>1. /\ op'[p] = "idle" /\ snap'[p] = NoView /\ seen'[p] = NoView /\ wrote'[p] = {}
        /\ writer' # p
    BY ProcAssumption DEF Close, TypeOK, AreViews
  <2> QED BY <1>2, <2>1, Nothing
          DEF UnitInv, SlotInv, ProgressInv, SnapshotInv, ViewInv, Running
<1> QED BY <1>1, <1>2

LEMMA StepIInv == ASSUME IInv, [Next]_vars PROVE IInv'
<1> SUFFICES ASSUME NEW q \in Proc PROVE UnitInv(q)'
  BY TypeStep DEF IInv
<1>1. CASE UNCHANGED vars
  BY <1>1, OtherUnit DEF IInv, vars
<1>2. ASSUME NEW p \in Proc, NEW o \in Op, Enter(p, o) PROVE UnitInv(q)'
  BY <1>2, EnterUnit
<1>3. ASSUME NEW p \in Proc, Reserve(p) \/ Read(p) \/ Write(p) PROVE UnitInv(q)'
  BY <1>3, ReserveUnit, ReadUnit, WriteUnit
<1>4. ASSUME NEW p \in Proc, UpgradeFails(p) \/ BusyTimeout(p) \/ Raise(p)
      PROVE  UnitInv(q)'
  <2>1. Close(p) /\ store' = store /\ result' = result
    BY <1>4 DEF UpgradeFails, BusyTimeout, Raise
  <2> QED BY <2>1, CloseUnit
<1>5. ASSUME NEW p \in Proc, Commit(p) PROVE UnitInv(q)'
  <2>1. Close(p) /\ \A r \in Proc \ {p} : result'[r] = result[r]
    BY <1>5 DEF Commit, IInv, TypeOK, AreViews
  <2>2. ASSUME writer # p PROVE store' = store
    <3>1. wrote[p] = {} /\ store \in [Table -> Nat]
      BY <2>2 DEF IInv, UnitInv, SlotInv, TypeOK
    <3> QED BY <1>5, <3>1 DEF Commit
  <2> QED BY <2>1, <2>2, CloseUnit
<1>6. ASSUME NEW p \in Proc, Exit(p) PROVE UnitInv(q)'
  <2>1. Close(p) /\ store' = store /\ \A r \in Proc \ {p} : result'[r] = result[r]
    BY <1>6 DEF Exit, IInv, TypeOK, AreViews
  <2> QED BY <2>1, CloseUnit
<1>7. CASE Crash
  <2>1. /\ op'[q] = "idle" /\ snap'[q] = NoView /\ seen'[q] = NoView /\ wrote'[q] = {}
        /\ writer' # q
    BY <1>7, ProcAssumption DEF Crash
  <2> QED BY <2>1, Nothing
          DEF UnitInv, SlotInv, ProgressInv, SnapshotInv, ViewInv, Running
<1> QED BY <1>1, <1>2, <1>3, <1>4, <1>5, <1>6, <1>7 DEF Next, Step

LEMMA InitIInv == Init => IInv
<1> SUFFICES ASSUME Init PROVE IInv
  OBVIOUS
<1>1. TypeOK
  BY Nothing DEF Init, TypeOK, AreViews
<1>2. ASSUME NEW p \in Proc PROVE UnitInv(p)
  BY Nothing, ProcAssumption
     DEF Init, UnitInv, SlotInv, ProgressInv, SnapshotInv, ViewInv, Running
<1> QED BY <1>1, <1>2 DEF IInv

LEMMA Invariant == Spec => []IInv
  BY InitIInv, StepIInv, PTL DEF Spec

-----------------------------------------------------------------------------
(* Every variable of UnitOfWork keeps its type.                            *)
THEOREM TypeCorrect == Spec => []TypeOK
<1>1. IInv => TypeOK
  BY DEF IInv
<1> QED BY <1>1, Invariant, PTL

(* The holder of SQLite's writer slot is inside a unit of work, on the     *)
(* latest committed state, and nobody else has written anything.           *)
THEOREM SlotHolderIsCurrent == Spec => []WriterIsCurrent
<1>1. IInv => WriterIsCurrent
  BY DEF IInv, UnitInv, SlotInv, WriterIsCurrent
<1> QED BY <1>1, Invariant, PTL

(* SQLITE_BUSY because of somebody else's commit is met by the deferred    *)
(* commands that read before they write, and by no other command.          *)
THEOREM UpgradesFailWhereDeferred == Spec => OnlyDeferredUpgradesFail
<1> DEFINE A == \A p \in Proc : error[p] # "upgrade" /\ error'[p] = "upgrade"
                  => op[p] \in {"login", "expire", "leave_channel"}
<1>1. ASSUME IInv, [Next]_vars PROVE [A]_vars
  <2> USE <1>1 DEF IInv
  <2> SUFFICES ASSUME NEW p \in Proc, error[p] # "upgrade", error'[p] = "upgrade"
               PROVE  op[p] \in Upgrading
    BY DEF Upgrading
  <2>1. UpgradeFails(p)
    BY DEF Next, Step, vars, Enter, Reserve, Read, Write, UpgradeFails, BusyTimeout, Commit,
       Exit, Raise, Crash, TypeOK
  <2>2. /\ op[p] \in Op /\ Running(p) /\ pc[p] > 1 /\ pc[p] \in 1..Len(Program(op[p]))
        /\ TableOf(p) \in Table /\ Program(op[p])[pc[p]][1] = "write"
    BY <2>1, Current DEF UpgradeFails
  <2>3. snap[p] # NoView /\ writer # p
    BY <2>1 DEF UpgradeFails, MayWrite
  <2>4. SUFFICES ASSUME op[p] \notin Upgrading PROVE FALSE
    OBVIOUS
  <2>5. Program(op[p])[1] # Lock
    BY <2>2, <2>3 DEF UnitInv, SnapshotInv
  <2>6. Program(op[p])[1] = Begin /\ pc[p] # 2
    BY <2>2, <2>3, <2>5, Programs DEF UnitInv, SnapshotInv, WellFormed
  <2>7. Program(op[p])[pc[p]] \in WriteAccess
    BY <2>2, StatementKinds DEF WriteAccess
  <2>8. pc[p] \in 3..Len(Program(op[p]))
    BY <2>2, <2>6
  <2>9. Program(op[p])[2] \in WriteAccess
    BY <2>2, <2>4, <2>5, <2>7, <2>8, Programs DEF WaitsToWrite
  <2>10. PICK t \in Table : Program(op[p])[2] = W(t)
    BY <2>9 DEF WriteAccess
  <2>11. t \in DoneWrites(op[p], pc[p])
    BY <2>8, <2>10 DEF DoneWrites
  <2> QED BY <2>2, <2>3, <2>11 DEF UnitInv, ProgressInv, SlotInv
<1>2. (IInv /\ [Next]_vars) => [A]_vars
  BY <1>1
<1> QED BY <1>2, Invariant, PTL DEF Spec, OnlyDeferredUpgradesFail

-----------------------------------------------------------------------------
(* The refinement of AtomicStore.  A command that writes takes effect when *)
(* it commits, one that only reads when it takes its snapshot.             *)

(* What a unit of work with a snapshot will answer is that snapshot.       *)
LEMMA ReadViewIsSnapshot ==
  ASSUME IInv, NEW p \in Proc, Running(p), ReadOnly(op[p]), snap[p] # NoView
  PROVE  ReadView(p) = [t \in Reads[op[p]] |-> snap[p][t]]
  BY DEF IInv, UnitInv, ViewInv, ReadView

(* A step of p shows in p's result only.                                   *)
LEMMA OtherViews ==
  ASSUME NEW p \in Proc,
         \A q \in Proc \ {p} : /\ op'[q] = op[q] /\ snap'[q] = snap[q]
                               /\ seen'[q] = seen[q] /\ result'[q] = result[q]
  PROVE  /\ ReadView(p)' = ReadView(p)
              => [q \in Proc |-> ReadView(q)]' = [q \in Proc |-> ReadView(q)]
         /\ \A v : ReadView(p)' = v
              => [q \in Proc |-> ReadView(q)]' = [[q \in Proc |-> ReadView(q)] EXCEPT ![p] = v]
<1>1. \A q \in Proc \ {p} : ReadView(q)' = ReadView(q)
  BY DEF ReadView, Running
<1> HIDE DEF ReadView
<1> QED BY <1>1

LEMMA RefineInit == Init => Atomic!Init
<1> SUFFICES ASSUME Init PROVE Atomic!Init
  OBVIOUS
<1>1. \A p \in Proc : ReadView(p) = NoView
  BY DEF Init, ReadView, Running
<1> QED BY <1>1 DEF Init, Atomic!Init, NoView

LEMMA RefineEnter ==
  ASSUME IInv, NEW p \in Proc, NEW o \in Op, Enter(p, o)
  PROVE  Atomic!Start(p, o)
<1>1. \A q \in Proc \ {p} : /\ op'[q] = op[q] /\ snap'[q] = snap[q]
                            /\ seen'[q] = seen[q] /\ result'[q] = result[q]
  BY DEF Enter, IInv, TypeOK, AreViews
<1>2. snap'[p] = NoView /\ result'[p] = NoView
  BY DEF Enter, IInv, TypeOK, AreViews, UnitInv, ViewInv
<1>3. ReadView(p)' = NoView
  BY <1>2 DEF ReadView
<1> QED BY <1>1, <1>3, OtherViews DEF Enter, Running, Atomic!Start, NoView

(* Reading after the snapshot, waiting for the slot and writing are        *)
(* invisible; taking the snapshot of a command that only reads is not.     *)
LEMMA RefineStatement ==
  ASSUME IInv, NEW p \in Proc, Reserve(p) \/ Read(p) \/ Write(p), IInv'
  PROVE  Atomic!Observe(p) \/ UNCHANGED Atomic!vars
<1>1. /\ op[p] \in Op /\ Running(p) /\ pc[p] \in 1..Len(Program(op[p]))
      /\ Reserve(p) => Program(op[p])[pc[p]][1] = "lock"
      /\ Write(p) => Program(op[p])[pc[p]][1] = "write"
  BY Current DEF Reserve, Read, Write, IInv
<1>2. UNCHANGED <<store, op, result>>
  BY DEF Reserve, Read, Write
<1>3. \A q \in Proc \ {p} : /\ op'[q] = op[q] /\ snap'[q] = snap[q]
                            /\ seen'[q] = seen[q] /\ result'[q] = result[q]
  BY DEF Reserve, Read, Write, IInv, TypeOK, AreViews
<1>4. CASE ~ReadOnly(op[p])
  <2>1. ReadView(p)' = ReadView(p)
    BY <1>2, <1>4 DEF ReadView
  <2> QED BY <1>2, <1>3, <2>1, OtherViews DEF Atomic!vars
<1>5. CASE ReadOnly(op[p])
  <2>1. Read(p)
    BY <1>1, <1>5, ReadOnlyPrograms
  <2>2. snap'[p] = Snapshot(p) /\ Snapshot(p) # NoView
    BY <2>1, SnapshotIsStore DEF Read, IInv, TypeOK
  <2>3. Running(p)' /\ ReadOnly(op'[p])
    BY <1>1, <1>2, <1>5 DEF Running
  <2>4. ReadView(p)' = [t \in Reads[op[p]] |-> Snapshot(p)[t]]
    <3>1. \A t \in DOMAIN seen'[p] : seen'[p][t] = snap'[p][t]
      BY DEF IInv, UnitInv, ViewInv
    <3> QED BY <1>2, <2>2, <2>3, <3>1 DEF ReadView
  <2>5. CASE snap[p] = NoView
    <3>1. ReadView(p)' = [t \in Reads[op[p]] |-> store[t]]
      BY <2>4, <2>5 DEF Snapshot
    <3>2. ReadView(p) = NoView
      BY <1>1, <2>5 DEF ReadView, IInv, UnitInv, ProgressInv
    <3> QED BY <1>1, <1>2, <1>3, <1>5, <3>1, <3>2, OtherViews
            DEF Atomic!Observe, Atomic!ReadOnly, Atomic!View, ReadOnly, Running, NoView
  <2>6. CASE snap[p] # NoView
    <3>1. ReadView(p)' = ReadView(p)
      BY <1>1, <1>5, <2>4, <2>6, ReadViewIsSnapshot, SnapshotIsStore
    <3> QED BY <1>2, <1>3, <3>1, OtherViews DEF Atomic!vars
  <2> QED BY <2>5, <2>6
<1> QED BY <1>4, <1>5

(* What is the same for every way out of a unit of work.                   *)
LEMMA AfterClose ==
  ASSUME IInv, NEW p \in Proc, Close(p), \A q \in Proc \ {p} : result'[q] = result[q]
  PROVE  /\ op' = [op EXCEPT ![p] = "idle"]
         /\ [q \in Proc |-> ReadView(q)]' =
              [[q \in Proc |-> ReadView(q)] EXCEPT ![p] = result'[p]]
<1>1. \A q \in Proc \ {p} : /\ op'[q] = op[q] /\ snap'[q] = snap[q]
                            /\ seen'[q] = seen[q] /\ result'[q] = result[q]
  BY DEF Close, IInv, TypeOK, AreViews
<1>2. ReadView(p)' = result'[p]
  BY DEF Close, ReadView, IInv, TypeOK
<1> QED BY <1>1, <1>2, OtherViews DEF Close

LEMMA RefineFail ==
  ASSUME IInv, NEW p \in Proc, UpgradeFails(p) \/ BusyTimeout(p) \/ Raise(p)
  PROVE  Atomic!Fail(p)
<1>1. /\ Running(p) /\ Close(p) /\ store' = store /\ result' = result
  BY DEF UpgradeFails, BusyTimeout, Raise, Statement
<1>2. result'[p] = NoView
  BY <1>1 DEF IInv, UnitInv, ProgressInv
<1> QED BY <1>1, <1>2, AfterClose DEF Atomic!Fail, Running, NoView

(* At its end a unit of work has read its Reads in the snapshot.           *)
LEMMA EndView ==
  ASSUME IInv, NEW p \in Proc, Running(p), AtEnd(p)
  PROVE  /\ op[p] \in Op
         /\ seen[p] = [t \in Reads[op[p]] |-> snap[p][t]]
         /\ \A t \in Table : Writes[op[p]][t] = IF t \in wrote[p] THEN 1 ELSE 0
         /\ ReadOnly(op[p]) => snap[p] # NoView /\ seen[p] # NoView
         /\ ~ReadOnly(op[p]) => writer = p /\ snap[p] = store
<1> USE DEF IInv
<1>1. op[p] \in Op
  BY DEF Running, TypeOK
<1>2. pc[p] \in Nat /\ pc[p] = Len(Program(op[p])) + 1
  BY <1>1, Programs DEF AtEnd, UnitInv, ProgressInv, WellFormed, TypeOK
<1>3. DOMAIN seen[p] = DoneReads(op[p], pc[p]) /\ wrote[p] = DoneWrites(op[p], pc[p])
  BY DEF UnitInv, ProgressInv
<1>4. /\ DoneReads(op[p], pc[p]) = Reads[op[p]]
      /\ \A t \in Table : Writes[op[p]][t] = IF t \in DoneWrites(op[p], pc[p]) THEN 1 ELSE 0
      /\ ReadOnly(op[p]) => DoneReads(op[p], pc[p]) # {}
      /\ ~ReadOnly(op[p]) => DoneWrites(op[p], pc[p]) # {}
  BY <1>1, <1>2, AllDone
<1>5. seen[p] = [t \in Reads[op[p]] |-> snap[p][t]]
  <2>1. seen[p] \in [DOMAIN seen[p] -> Nat]
    BY DEF TypeOK, AreViews
  <2>2. \A t \in DOMAIN seen[p] : seen[p][t] = snap[p][t]
    BY DEF UnitInv, ViewInv
  <2> QED BY <1>3, <1>4, <2>1, <2>2
<1>6. ReadOnly(op[p]) => snap[p] # NoView /\ seen[p] # NoView
  BY <1>3, <1>4, Nothing DEF UnitInv, ViewInv
<1>7. ~ReadOnly(op[p]) => writer = p /\ snap[p] = store
  BY <1>3, <1>4 DEF UnitInv, SlotInv
<1> QED BY <1>1, <1>3, <1>4, <1>5, <1>6, <1>7

LEMMA RefineCommit ==
  ASSUME IInv, NEW p \in Proc, Commit(p)
  PROVE  Atomic!Apply(p)
<1>1. Running(p) /\ AtEnd(p) /\ ~ReadOnly(op[p]) /\ Close(p)
  BY DEF Commit
<1>2. /\ seen[p] = [t \in Reads[op[p]] |-> store[t]] /\ snap[p] = store
      /\ \A t \in Table : Writes[op[p]][t] = IF t \in wrote[p] THEN 1 ELSE 0
  BY <1>1, EndView
<1>3. store' = [t \in Table |-> store[t] + Writes[op[p]][t]]
  <2>1. store \in [Table -> Nat]
    BY DEF IInv, TypeOK
  <2>2. \A t \in Table : (IF t \in wrote[p] THEN snap[p][t] + 1 ELSE store[t])
                           = store[t] + Writes[op[p]][t]
    BY <1>2, <2>1
  <2> QED BY <2>2 DEF Commit
<1>4. result'[p] = seen[p] /\ \A q \in Proc \ {p} : result'[q] = result[q]
  BY DEF Commit, IInv, TypeOK, AreViews
<1> QED BY <1>1, <1>2, <1>3, <1>4, AfterClose
        DEF Atomic!Apply, Atomic!ReadOnly, Atomic!View, ReadOnly, Running

LEMMA RefineExit ==
  ASSUME IInv, NEW p \in Proc, Exit(p)
  PROVE  Atomic!Answer(p)
<1>1. Running(p) /\ AtEnd(p) /\ ReadOnly(op[p]) /\ Close(p) /\ store' = store
  BY DEF Exit
<1>2. /\ seen[p] = [t \in Reads[op[p]] |-> snap[p][t]] /\ seen[p] # NoView
      /\ snap[p] # NoView
  BY <1>1, EndView
<1>3. result'[p] = seen[p] /\ \A q \in Proc \ {p} : result'[q] = result[q]
  BY DEF Exit, IInv, TypeOK, AreViews
<1>4. ReadView(p) = seen[p]
  BY <1>1, <1>2, ReadViewIsSnapshot
<1>5. [q \in Proc |-> ReadView(q)]' = [q \in Proc |-> ReadView(q)]
  BY <1>1, <1>3, <1>4, AfterClose
<1>6. op' = [op EXCEPT ![p] = "idle"]
  BY <1>1 DEF Close
<1> QED BY <1>1, <1>2, <1>4, <1>5, <1>6
        DEF Atomic!Answer, Atomic!ReadOnly, ReadOnly, Running, NoView

LEMMA RefineCrash == Crash => Atomic!Crash
<1> SUFFICES ASSUME Crash PROVE Atomic!Crash
  OBVIOUS
<1>1. \A p \in Proc : ReadView(p)' = NoView
  BY DEF Crash, ReadView, Running
<1> QED BY <1>1 DEF Crash, Atomic!Crash, NoView

(* Units of work on SQLite make every command atomic, as application code  *)
(* assumes: they implement AtomicStore.                                    *)
THEOREM UnitsOfWorkAreAtomic == Spec => CommandsAreAtomic
<1>1. ASSUME IInv, [Next]_vars, IInv' PROVE [Atomic!Next]_Atomic!vars
  <2> USE <1>1
  <2>1. CASE UNCHANGED vars
    <3>1. \A p \in Proc : ReadView(p)' = ReadView(p)
      BY <2>1 DEF vars, ReadView, Running
    <3> QED BY <2>1, <3>1 DEF vars, Atomic!vars
  <2>2. ASSUME NEW p \in Proc, NEW o \in Op, Enter(p, o) PROVE Atomic!Next
    BY <2>2, RefineEnter DEF Atomic!Next
  <2>3. ASSUME NEW p \in Proc, Reserve(p) \/ Read(p) \/ Write(p)
        PROVE  Atomic!Next \/ UNCHANGED Atomic!vars
    BY <2>3, RefineStatement DEF Atomic!Next
  <2>4. ASSUME NEW p \in Proc, UpgradeFails(p) \/ BusyTimeout(p) \/ Raise(p)
        PROVE  Atomic!Next
    BY <2>4, RefineFail DEF Atomic!Next
  <2>5. ASSUME NEW p \in Proc, Commit(p) PROVE Atomic!Next
    BY <2>5, RefineCommit DEF Atomic!Next
  <2>6. ASSUME NEW p \in Proc, Exit(p) PROVE Atomic!Next
    BY <2>6, RefineExit DEF Atomic!Next
  <2>7. CASE Crash
    BY <2>7, RefineCrash DEF Atomic!Next
  <2> QED BY <2>1, <2>2, <2>3, <2>4, <2>5, <2>6, <2>7 DEF Next, Step
<1> QED BY <1>1, RefineInit, Invariant, PTL DEF Spec, CommandsAreAtomic, Atomic!Spec

=============================================================================
