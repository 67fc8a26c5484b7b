-------------------------- MODULE Retirement_proofs --------------------------
(***************************************************************************)
(* The properties of Migrations and Retirement, for every number and       *)
(* length of scripts, every set of starting processes, users and channels. *)
(***************************************************************************)
EXTENDS Retirement, TLAPS

(* The scripts are recorded in their order.                                *)
Initial(S) == \E k \in 0..Scripts : S = 1..k

StartState ==
  {Idle, Done, Failed} \cup
    [state : {"running"}, known : SUBSET (1..Scripts), at : Nat \ {0}, script : 1..Scripts]

(* What a start knows is recorded, and what it has created exists.         *)
StartInv(p) ==
  /\ start[p] = Done => recorded = 1..Scripts
  /\ Running(p) =>
       LET r == start[p]
       IN  /\ r.known = 1..(r.script - 1) /\ r.known \subseteq recorded
           /\ \A i \in 1..Length[r.script] : i < r.at => <<r.script, i>> \in objects

MInv ==
  /\ start \in [Starter -> StartState]
  /\ Initial(recorded)
  /\ \A s \in recorded : Complete(s)
  /\ \A p \in Starter : StartInv(p)

-----------------------------------------------------------------------------
(* NextScript goes to the first script that is not known.                  *)
LEMMA NextScriptIsNext ==
  ASSUME NEW k \in 0..Scripts
  PROVE  /\ k = Scripts => NextScript(1..k) = Done
         /\ k # Scripts =>
              NextScript(1..k) = [state |-> "running", known |-> 1..k, at |-> 1, script |-> k + 1]
<1> USE ScriptsAssumption
<1>1. CASE k = Scripts
  BY <1>1 DEF NextScript
<1>2. CASE k # Scripts
  <2>1. k + 1 \in (1..Scripts) \ (1..k) /\ 1..k # 1..Scripts
    BY <1>2
  <2>2. \A s \in (1..Scripts) \ (1..k) : k + 1 <= s
    BY <1>2
  <2>3. k + 1 = CHOOSE s \in (1..Scripts) \ (1..k) : \A t \in (1..Scripts) \ (1..k) : s <= t
    <3> DEFINE P(s) == s \in (1..Scripts) \ (1..k) /\ \A t \in (1..Scripts) \ (1..k) : s <= t
    <3>1. P(k + 1)
      BY <2>1, <2>2
    <3>2. \A s : P(s) => s = k + 1
      BY <2>1, <2>2
    <3> QED BY <3>1, <3>2
  <2> QED BY <1>2, <2>1, <2>3 DEF NextScript
<1> QED BY <1>1, <1>2

LEMMA MigrationsInitMInv == MigrationsInit => MInv
<1> SUFFICES ASSUME MigrationsInit PROVE MInv
  OBVIOUS
<1> USE ScriptsAssumption
<1>1. Initial(recorded)
  BY DEF MigrationsInit, Initial
<1>2. \A s \in recorded : Complete(s)
  BY DEF MigrationsInit, Complete
<1>3. start \in [Starter -> StartState] /\ \A p \in Starter : start[p] = Idle
  BY DEF MigrationsInit, StartState
<1> QED BY <1>1, <1>2, <1>3 DEF MInv, StartInv, Running, Idle, Done

(* Every step of a start keeps the invariant.                              *)
LEMMA MigrateMInv ==
  ASSUME MInv, NEW p \in Starter, Migrate(p)
  PROVE  MInv'
<1> USE ScriptsAssumption
<1>1. PICK k \in 0..Scripts : recorded = 1..k
  BY DEF MInv, Initial
<1>2. CASE ReadApplied(p)
  <2>1. /\ NextScript(recorded) \in StartState
        /\ NextScript(recorded) = Done \/ NextScript(recorded).state = "running"
        /\ NextScript(recorded) = Done => recorded = 1..Scripts
        /\ NextScript(recorded).state = "running" =>
             /\ NextScript(recorded).known = recorded
             /\ NextScript(recorded).at = 1
             /\ recorded = 1..(NextScript(recorded).script - 1)
    <3>1. CASE k = Scripts
      <4>1. NextScript(recorded) = Done /\ recorded = 1..Scripts
        BY <1>1, <3>1, NextScriptIsNext
      <4>2. Done.state # "running" /\ Done \in StartState
        BY DEF Done, StartState
      <4> QED BY <4>1, <4>2
    <3>2. CASE k # Scripts
      <4>1. NextScript(recorded) =
              [state |-> "running", known |-> 1..k, at |-> 1, script |-> k + 1]
        BY <1>1, <3>2, NextScriptIsNext
      <4>2. 1..k \in SUBSET (1..Scripts) /\ k + 1 \in 1..Scripts /\ (k + 1) - 1 = k
        BY <3>2
      <4> QED BY <1>1, <4>1, <4>2 DEF StartState, Done
    <3> QED BY <3>1, <3>2
  <2>2. start' \in [Starter -> StartState]
    BY <1>2, <2>1 DEF ReadApplied, MInv
  <2>3. ASSUME NEW q \in Starter PROVE StartInv(q)'
    <3>1. CASE q = p
      BY <1>2, <2>1, <3>1 DEF ReadApplied, MInv, StartInv, Running
    <3>2. CASE q # p
      BY <1>2, <3>2 DEF ReadApplied, MInv, StartInv, Running
    <3> QED BY <3>1, <3>2
  <2> QED BY <1>2, <2>2, <2>3 DEF ReadApplied, MInv, Initial, Complete
<1> DEFINE r == start[p]
<1>3. Running(p) => /\ r \in [state : {"running"}, known : SUBSET (1..Scripts),
                              at : Nat \ {0}, script : 1..Scripts]
                    /\ Length[r.script] \in Nat \ {0}
  BY DEF MInv, StartState, Running, Idle, Done, Failed
<1>4. CASE Create(p)
  <2>1. start' \in [Starter -> StartState] /\ objects \subseteq objects'
    BY <1>3, <1>4 DEF Create, MInv, StartState
  <2>2. ASSUME NEW q \in Starter PROVE StartInv(q)'
    <3>1. CASE q = p
      <4>1. start'[p] = [r EXCEPT !.at = r.at + 1] /\ objects' = objects \cup {<<r.script, r.at>>}
        BY <1>4 DEF Create, MInv
      <4>2. /\ Running(p) /\ recorded' = recorded
            /\ start'[p].state = "running" /\ start'[p].known = r.known
            /\ start'[p].at = r.at + 1 /\ start'[p].script = r.script
        BY <1>3, <1>4, <4>1 DEF Create, Running
      <4>3. \A i \in 1..Length[r.script] : i < r.at + 1 => <<r.script, i>> \in objects'
        BY <1>3, <4>1, <4>2 DEF MInv, StartInv
      <4> QED BY <3>1, <4>2, <4>3 DEF MInv, StartInv, Running, Done
    <3>2. CASE q # p
      BY <1>4, <2>1, <3>2 DEF Create, MInv, StartInv, Running
    <3> QED BY <3>1, <3>2
  <2> QED BY <1>4, <2>1, <2>2 DEF Create, MInv, Initial, Complete
<1>5. CASE Collide(p) \/ Interrupt(p)
  <2>1. start' \in [Starter -> StartState] /\ UNCHANGED <<objects, recorded>>
    BY <1>5 DEF Collide, Interrupt, MInv, StartState
  <2>2. ASSUME NEW q \in Starter PROVE StartInv(q)'
    BY <1>5, <2>1 DEF Collide, Interrupt, MInv, StartInv, Running, Idle, Failed, Done
  <2> QED BY <2>1, <2>2 DEF MInv, Initial, Complete
<1>6. CASE Record(p)
  <2>1. /\ Running(p) /\ r.at > Length[r.script] /\ r.script \notin recorded
        /\ recorded' = recorded \cup {r.script} /\ objects' = objects
        /\ start' = [start EXCEPT ![p] = NextScript(r.known \cup {r.script})]
    BY <1>6 DEF Record
  <2>2. r.known = 1..(r.script - 1) /\ r.known \subseteq recorded
    BY <2>1 DEF MInv, StartInv
  <2>3. r.script = k + 1
    <3>1. r.script \in 1..Scripts /\ r.script \notin 1..k
      BY <1>1, <1>3, <2>1
    <3>2. r.script - 1 >= 1 => r.script - 1 \in 1..k
      BY <1>1, <2>2, <3>1
    <3> QED BY <3>1, <3>2
  <2>4. k + 1 \in 0..Scripts /\ recorded' = 1..(k + 1) /\ r.known \cup {r.script} = 1..(k + 1)
    BY <1>1, <1>3, <2>1, <2>2, <2>3
  <2>5. Complete(r.script)
    BY <1>3, <2>1 DEF MInv, StartInv, Complete, ObjectsOf
  <2> DEFINE n == NextScript(1..(k + 1))
  <2>6. /\ n \in StartState
        /\ n = Done \/ n.state = "running"
        /\ n = Done => k + 1 = Scripts
        /\ n.state = "running" => n.known = 1..(k + 1) /\ n.at = 1 /\ n.script = k + 2
    <3>1. CASE k + 1 = Scripts
      <4>1. n = Done
        BY <2>4, <3>1, NextScriptIsNext
      <4>2. Done.state # "running" /\ Done \in StartState
        BY DEF Done, StartState
      <4> QED BY <3>1, <4>1, <4>2
    <3>2. CASE k + 1 # Scripts
      <4>1. n = [state |-> "running", known |-> 1..(k + 1), at |-> 1, script |-> (k + 1) + 1]
        BY <2>4, <3>2, NextScriptIsNext
      <4>2. 1..(k + 1) \in SUBSET (1..Scripts) /\ (k + 1) + 1 \in 1..Scripts
        BY <2>4, <3>2
      <4> QED BY <4>1, <4>2 DEF StartState, Done
    <3> QED BY <3>1, <3>2
  <2>7. start' \in [Starter -> StartState] /\ start'[p] = n
    BY <2>1, <2>4, <2>6 DEF MInv
  <2>8. ASSUME NEW q \in Starter PROVE StartInv(q)'
    <3>1. CASE q = p
      BY <2>4, <2>6, <2>7, <3>1 DEF StartInv, Running
    <3>2. CASE q # p
      <4>1. start'[q] = start[q] /\ recorded \subseteq recorded'
        BY <2>1, <3>2 DEF MInv
      <4>2. start[q] = Done => recorded' = 1..Scripts
        BY <1>1, <2>1, <2>3, <2>4 DEF MInv, StartInv
      <4> QED BY <2>1, <4>1, <4>2 DEF MInv, StartInv, Running
    <3> QED BY <3>1, <3>2
  <2> QED BY <2>1, <2>4, <2>5, <2>7, <2>8 DEF MInv, Initial, Complete
<1> QED BY <1>2, <1>4, <1>5, <1>6 DEF Migrate

-----------------------------------------------------------------------------
(* The retirement command.                                                 *)
ToolState ==
  {Ready, End} \cup [state : {"admins"}, admins : SUBSET Admin]
    \cup [state : {"owned", "checked", "saved"}, admins : SUBSET Admin, owned : SUBSET Chan]

RTypeOK ==
  /\ users \subseteq User
  /\ owner \in [Chan -> {Unused, Deleted} \cup User]
  /\ content \subseteq ContentRow
  /\ erased \subseteq ContentRow
  /\ tool \in ToolState

(* What the command has read stays true until it deletes: nobody takes an  *)
(* administrator's channel over, and what is written after the backup is   *)
(* late.                                                                   *)
ToolInv ==
  /\ tool.state \in {"owned", "checked", "saved"} =>
       \A c \in tool.owned : owner[c] \in Admin
  /\ tool.state = "saved" => content \subseteq saved \cup late

RInv == MInv /\ RTypeOK /\ ReferencesHold /\ ToolInv /\ NothingLost

LEMMA InitRInv == Init => RInv
<1> SUFFICES ASSUME Init PROVE RInv
  OBVIOUS
<1> USE ToolAssumption DEF Init
<1>1. MInv
  BY MigrationsInitMInv
<1>2. RTypeOK
  BY DEF RTypeOK, ToolState
<1>3. ReferencesHold
  BY DEF ReferencesHold
<1>4. ToolInv /\ NothingLost
  BY DEF ToolInv, NothingLost, Ready
<1> QED BY <1>1, <1>2, <1>3, <1>4 DEF RInv

(* The steps of the services.                                              *)
LEMMA ServiceStep ==
  ASSUME RInv, NEW v \in User, NEW c \in Chan,
         CreateChannel(v, c) \/ \E x \in Post : Write(v, c, x)
  PROVE  RInv'
<1> USE ToolAssumption DEF RInv
<1>1. MInv'
  BY DEF CreateChannel, Write, mvars, MInv, StartInv, Initial, Complete, Running
<1>2. CASE CreateChannel(v, c)
  <2> USE <1>2 DEF CreateChannel, mvars, history
  <2>1. RTypeOK'
    BY DEF RTypeOK
  <2>2. ReferencesHold'
    BY DEF ReferencesHold, RTypeOK, ContentRow
  <2>3. ToolInv' /\ NothingLost'
    BY DEF ToolInv, NothingLost, RTypeOK, ToolState, Ready, End
  <2> QED BY <1>1, <2>1, <2>2, <2>3
<1>3. ASSUME NEW x \in Post, Write(v, c, x) PROVE RInv'
  <2> USE <1>3 DEF Write, mvars
  <2>1. RTypeOK'
    BY DEF RTypeOK, ContentRow
  <2>2. ReferencesHold'
    BY DEF ReferencesHold, RTypeOK, ContentRow
  <2>3. ToolInv' /\ NothingLost'
    BY DEF ToolInv, NothingLost
  <2> QED BY <1>1, <2>1, <2>2, <2>3
<1> QED BY <1>2, <1>3

(* The steps of the command, and what its deletion takes.                  *)
LEMMA RetireStep ==
  ASSUME RInv, Retire
  PROVE  RInv' /\ ErasedWasTheirs
<1> USE ToolAssumption DEF RInv
<1>1. CASE ToolMigrates
  <2>1. MInv'
    BY <1>1, MigrateMInv DEF ToolMigrates
  <2> QED BY <1>1, <2>1 DEF ToolMigrates, data, history, RTypeOK, ReferencesHold, ToolInv,
                            NothingLost, ErasedWasTheirs
<1>2. CASE ReadAdmins \/ ReadOwned \/ CheckOthers \/ Rollback
  <2> USE <1>2 DEF ToolOnly, mvars, data, history
  <2>1. UNCHANGED <<mvars, data, saved, history>>
    BY DEF ReadAdmins, ReadOwned, CheckOthers, Rollback
  <2>2. tool' \in ToolState
    BY DEF RTypeOK, ReadAdmins, ReadOwned, CheckOthers, Rollback, ToolState, Ready, End
  <2>3. tool'.state # "saved"
    BY DEF RTypeOK, ReadAdmins, ReadOwned, CheckOthers, Rollback, ToolState, Ready, End
  <2>4. tool'.state \in {"owned", "checked"} => \A c \in tool'.owned : owner[c] \in Admin
    BY DEF RTypeOK, ToolInv, ReadAdmins, ReadOwned, CheckOthers, Rollback, ToolState, Ready, End
  <2>5. MInv'
    BY <2>1 DEF MInv, StartInv, Initial, Complete, Running
  <2> QED BY <2>1, <2>2, <2>3, <2>4, <2>5
          DEF RTypeOK, ReferencesHold, ToolInv, NothingLost, ErasedWasTheirs
<1>3. CASE Backup
  <2> USE <1>3 DEF Backup, mvars, data, history
  <2>1. tool \in [state : {"checked"}, admins : SUBSET Admin, owned : SUBSET Chan]
    BY DEF RTypeOK, ToolState, Ready, End
  <2>2. tool' \in ToolState /\ tool'.owned = tool.owned
    BY <2>1 DEF ToolState
  <2>3. MInv'
    BY DEF MInv, StartInv, Initial, Complete, Running
  <2>4. ToolInv'
    BY <2>2 DEF ToolInv
  <2> QED BY <2>2, <2>3, <2>4 DEF RTypeOK, ReferencesHold, NothingLost, ErasedWasTheirs
<1>4. CASE Delete
  <2> USE <1>4 DEF Delete, mvars, DeleteRows, RowsIn
  <2>1. tool \in [state : {"saved"}, admins : SUBSET Admin, owned : SUBSET Chan]
    BY DEF RTypeOK, ToolState, Ready, End
  <2>2. RTypeOK'
    BY <2>1 DEF RTypeOK, ToolState
  <2>3. ReferencesHold'
    <3>1. \A c \in Chan : owner'[c] \in users' \cup {Unused, Deleted}
      BY <2>1 DEF ReferencesHold, Referenced, RTypeOK
    <3>2. \A r \in content' : r.author \in users' /\ owner'[r.chan] \in users'
      BY <2>1 DEF ReferencesHold, Referenced, RTypeOK, ContentRow
    <3> QED BY <3>1, <3>2 DEF ReferencesHold
  <2>4. NothingLost' /\ ToolInv'
    BY DEF NothingLost, ToolInv, End
  <2>5. ErasedWasTheirs
    BY DEF ErasedWasTheirs, ToolInv
  <2>6. MInv'
    BY DEF MInv, StartInv, Initial, Complete, Running
  <2> QED BY <2>2, <2>3, <2>4, <2>5, <2>6
<1>5. CASE RunAgain
  <2> USE <1>5 DEF RunAgain, data, history
  <2>1. MInv'
    BY DEF MInv, StartInv, StartState, Initial, Complete, Running, Idle, Done
  <2> QED BY <2>1 DEF RTypeOK, ToolState, ReferencesHold, ToolInv, NothingLost,
                      ErasedWasTheirs, Ready
<1> QED BY <1>1, <1>2, <1>3, <1>4, <1>5 DEF Retire

LEMMA NextRInv ==
  ASSUME RInv, [Next]_vars
  PROVE  RInv' /\ ErasedWasTheirs
<1>1. CASE UNCHANGED vars
  BY <1>1 DEF vars, mvars, data, history, RInv, MInv, StartInv, Initial, Complete, Running,
              RTypeOK, ReferencesHold, ToolInv, NothingLost, ErasedWasTheirs
<1>2. CASE OthersStart
  <2>1. MInv'
    BY <1>2, MigrateMInv DEF OthersStart, RInv
  <2> QED BY <1>2, <2>1 DEF OthersStart, data, history, RInv, RTypeOK, ReferencesHold,
                            ToolInv, NothingLost, ErasedWasTheirs
<1>3. ASSUME NEW v \in User, NEW c \in Chan,
             CreateChannel(v, c) \/ \E x \in Post : Write(v, c, x)
      PROVE  RInv' /\ ErasedWasTheirs
  <2>1. erased' = erased
    BY <1>3 DEF CreateChannel, Write, history
  <2> QED BY <1>3, <2>1, ServiceStep DEF ErasedWasTheirs
<1> QED BY <1>1, <1>2, <1>3, RetireStep DEF Next

THEOREM Invariance == RSpec => []RInv
BY InitRInv, NextRInv, PTL DEF RSpec

-----------------------------------------------------------------------------
(* A recorded script is complete, with all before it, and a start that     *)
(* succeeds leaves the schema complete, whoever else starts or is killed.  *)
THEOREM RecordedScriptsAreComplete == RSpec => []RecordedMeansComplete
<1>1. RInv => RecordedMeansComplete
  BY ScriptsAssumption DEF RInv, MInv, StartInv, Initial, RecordedMeansComplete
<1> QED BY <1>1, Invariance, PTL

(* The same, of starts alone.                                              *)
THEOREM StartsRecordCompleteScripts == Spec => []RecordedMeansComplete
<1>1. ASSUME MInv, [MigrationsNext]_mvars PROVE MInv'
  <2>1. CASE UNCHANGED mvars
    BY <1>1, <2>1 DEF mvars, MInv, StartInv, Initial, Complete, Running
  <2> QED BY <1>1, <2>1, MigrateMInv DEF MigrationsNext
<1>2. MInv => RecordedMeansComplete
  BY ScriptsAssumption DEF MInv, StartInv, Initial, RecordedMeansComplete
<1> QED BY <1>1, <1>2, MigrationsInitMInv, PTL DEF Spec

(* No row refers to a user or a channel that is gone.                      *)
THEOREM ReferencesAlwaysHold == RSpec => []ReferencesHold
BY Invariance, PTL DEF RInv

(* What the command deleted is in a backup or was written after it.        *)
THEOREM NothingIsLost == RSpec => []NothingLost
BY Invariance, PTL DEF RInv

(* The command deletes nothing from an ordinary user's channel.            *)
THEOREM OthersAlwaysKeepData == RSpec => OthersKeepData
<1>1. RInv /\ [Next]_vars => [ErasedWasTheirs]_vars
  BY NextRInv
<1> QED BY <1>1, Invariance, PTL DEF RSpec, OthersKeepData

=============================================================================
