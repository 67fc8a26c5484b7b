--------------------------- MODULE Channels_proofs ---------------------------
(* Proofs about Channels, for every set of users, channels, names and ids. *)
EXTENDS Channels, TLAPS

(* The inductive invariant.  OwnerIsMember alone is inductive given types; *)
(* DecisionIsFinal needs that ids name one row (JoinRowsKeyed).            *)
IInv == TypeOK /\ OwnerIsMember /\ NoOrphanRows /\ JoinRowsKeyed

LEMMA CallerIsUser == Caller \subseteq User
BY DEF Caller

LEMMA RowFacts ==
  ASSUME NEW n \in Name, NEW u \in User, NEW a \in BOOLEAN
  PROVE  /\ Row(n, u, a) \in ChannelRow
         /\ Row(n, u, a).state = "row"
         /\ Row(n, u, a).owner = u
BY DEF Row, ChannelRow

LEMMA ExistingRow ==
  ASSUME TypeOK, NEW c \in Chan, Exists(c)
  PROVE  channel[c].owner \in User /\ channel[c].archived \in BOOLEAN
BY DEF TypeOK, Exists, ChannelRow, Unused, Deleted

(* What INSERT OR IGNORE does to the table: the type is kept, the row is   *)
(* there afterwards, and every other row is as it was.                     *)
LEMMA InsertMemberEffect ==
  ASSUME TypeOK, NEW c \in Chan, NEW u \in User, NEW cmd \in MemberRow
  PROVE  /\ InsertMember(c, u, cmd) \in [Chan \X User -> {"absent"} \cup MemberRow]
         /\ InsertMember(c, u, cmd)[c, u] # "absent"
         /\ \A d \in Chan, v \in User :
              <<d, v>> # <<c, u>> => InsertMember(c, u, cmd)[d, v] = member[d, v]
         /\ \A d \in Chan, v \in User :
              member[d, v] # "absent" => InsertMember(c, u, cmd)[d, v] = member[d, v]
<1>1. cmd # "absent"
  BY JoinIdAssumption DEF MemberRow
<1> QED
  BY <1>1 DEF TypeOK, InsertMember

-----------------------------------------------------------------------------
LEMMA InitIInv == Init => IInv
<1> SUFFICES ASSUME Init PROVE IInv
  OBVIOUS
<1>1. TypeOK
  BY DEF Init, TypeOK, MemberRow
<1>2. OwnerIsMember
  BY DEF Init, OwnerIsMember
<1>3. NoOrphanRows
  BY DEF Init, NoOrphanRows
<1>4. JoinRowsKeyed
  BY DEF Init, JoinRowsKeyed
<1> QED
  BY <1>1, <1>2, <1>3, <1>4 DEF IInv

LEMMA CreateChannelIInv ==
  ASSUME IInv, NEW u \in Caller, NEW c \in Chan, NEW n \in Name,
         CreateChannel(u, c, n)
  PROVE  IInv'
<1> DEFINE m == InsertMember(c, u, "created")
<1>0. TypeOK
  BY DEF IInv
<1>1. u \in User /\ "created" \in MemberRow
  BY CallerIsUser DEF MemberRow
<1>2. /\ m \in [Chan \X User -> {"absent"} \cup MemberRow]
      /\ m[c, u] # "absent"
      /\ \A d \in Chan, v \in User : <<d, v>> # <<c, u>> => m[d, v] = member[d, v]
  <2>1. m \in [Chan \X User -> {"absent"} \cup MemberRow]
    BY <1>0, <1>1, InsertMemberEffect
  <2>2. m[c, u] # "absent"
    BY <1>0, <1>1, InsertMemberEffect
  <2>3. ASSUME NEW d \in Chan, NEW v \in User, <<d, v>> # <<c, u>> PROVE m[d, v] = member[d, v]
    BY <1>0, <1>1, <2>3 DEF InsertMember, TypeOK
  <2> QED
    BY <2>1, <2>2, <2>3
<1>m. member' = m
  BY DEF CreateChannel
<1> HIDE DEF m
<1> USE DEF IInv, CreateChannel
<1>3. /\ channel'[c] = Row(n, u, FALSE)
      /\ \A d \in Chan : d # c => channel'[d] = channel[d]
      /\ Row(n, u, FALSE) \in ChannelRow
      /\ Row(n, u, FALSE).state = "row"
      /\ Row(n, u, FALSE).owner = u
  BY <1>1, RowFacts DEF TypeOK
<1>4. TypeOK'
  BY <1>2, <1>3, <1>m DEF TypeOK
<1>5. ASSUME NEW d \in Chan \ Legacy, Exists(d)'
      PROVE  IsMember(d, channel[d].owner)'
  <2>1. CASE d = c
    BY <1>2, <1>3, <1>m, <2>1 DEF IsMember
  <2>2. CASE d # c
    <3>1. channel'[d] = channel[d] /\ Exists(d)
      BY <1>3, <1>5, <2>2 DEF Exists
    <3>2. channel[d].owner \in User /\ member[d, channel[d].owner] # "absent"
      BY <1>5, <3>1, ExistingRow DEF OwnerIsMember, IsMember
    <3>3. m[d, channel[d].owner] = member[d, channel[d].owner]
      BY <1>2, <2>2, <3>2
    <3> QED
      BY <3>1, <3>2, <3>3, <1>m DEF IsMember
  <2> QED
    BY <2>1, <2>2
<1>6. NoOrphanRows'
  <2>1. \A d \in Chan : Exists(d) => Exists(d)'
    BY <1>3 DEF Exists
  <2>2. ASSUME NEW d \in Chan, NEW v \in User, IsMember(d, v)' PROVE Exists(d)'
    <3>1. CASE d = c
      BY <1>3, <3>1 DEF Exists
    <3>2. CASE d # c
      BY <1>2, <1>m, <2>1, <2>2, <3>2 DEF IsMember, NoOrphanRows
    <3> QED
      BY <3>1, <3>2
  <2>3. \A r \in joins' : Exists(r.chan)'
    BY <2>1 DEF NoOrphanRows, TypeOK, JoinRow
  <2> QED
    BY <2>2, <2>3 DEF NoOrphanRows
<1>7. JoinRowsKeyed'
  BY DEF JoinRowsKeyed
<1> QED
  BY <1>4, <1>5, <1>6, <1>7 DEF OwnerIsMember

(* For the steps that leave the channels alone, or delete one: if every    *)
(* channel left is as it was, and no owner's row went, owners stay members.*)
LEMMA OwnersStay ==
  ASSUME TypeOK, OwnerIsMember,
         \A d \in Chan : Exists(d)' => channel'[d] = channel[d],
         \A d \in Chan : \A v \in User :
           Exists(d)' /\ v = channel[d].owner /\ member[d, v] # "absent"
             => member'[d, v] # "absent"
  PROVE  OwnerIsMember'
<1> SUFFICES ASSUME NEW d \in Chan \ Legacy, Exists(d)'
             PROVE  IsMember(d, channel[d].owner)'
  BY DEF OwnerIsMember
<1>1. channel'[d] = channel[d] /\ Exists(d)
  BY DEF Exists
<1>2. channel[d].owner \in User /\ member[d, channel[d].owner] # "absent"
  BY <1>1, ExistingRow DEF OwnerIsMember, IsMember
<1>3. member'[d, channel[d].owner] # "absent"
  BY <1>2
<1> QED
  BY <1>1, <1>3 DEF IsMember

LEMMA JoinChannelIInv ==
  ASSUME IInv, NEW u \in Caller, NEW c \in Chan, NEW j \in JoinId,
         JoinChannel(u, c, j)
  PROVE  IInv'
<1> USE DEF IInv, JoinChannel
<1> DEFINE new == PendingRow(c, u, j)
<1>1. /\ new \in JoinRow
      /\ new.id = j /\ new.chan = c /\ new.user = u
  BY CallerIsUser DEF PendingRow, JoinRow
<1>2. \A r \in joins' : r = new \/ (r \in joins /\ ~(r.chan = c /\ r.user = u))
  BY DEF RequestJoin, JoinRowsOf
<1>3. TypeOK'
  BY <1>1, <1>2 DEF TypeOK
<1>4. OwnerIsMember'
  BY DEF OwnerIsMember, IsMember, Exists
<1>5. NoOrphanRows'
  BY <1>1, <1>2 DEF NoOrphanRows, ActiveChannel, Exists, IsMember
<1>6. JoinRowsKeyed'
  BY <1>1, <1>2 DEF JoinRowsKeyed
<1> QED
  BY <1>3, <1>4, <1>5, <1>6

(* Leaving and removal take out one member row, never the owner's.         *)
LEMMA MemberRemovedIInv ==
  ASSUME IInv, NEW c \in Chan, NEW v \in User, channel[c].owner # v,
         member' = [member EXCEPT ![<<c, v>>] = "absent"],
         UNCHANGED <<channel, joins, issued, shown>>
  PROVE  IInv'
<1> USE DEF IInv
<1>1. TypeOK'
  BY DEF TypeOK
<1>2. \A d \in Chan, w \in User :
        /\ member'[d, w] # "absent" => member[d, w] # "absent"
        /\ <<d, w>> # <<c, v>> => member'[d, w] = member[d, w]
  BY DEF TypeOK
<1>3. OwnerIsMember'
  BY <1>2, OwnersStay DEF Exists
<1>4. NoOrphanRows'
  BY <1>2 DEF NoOrphanRows, IsMember, Exists
<1>5. JoinRowsKeyed'
  BY DEF JoinRowsKeyed
<1> QED
  BY <1>1, <1>3, <1>4, <1>5

LEMMA ListJoinRequestsIInv ==
  ASSUME IInv, NEW u \in Caller, NEW c \in Chan, ListJoinRequests(u, c)
  PROVE  IInv'
<1> USE DEF IInv, ListJoinRequests, PendingRequests
<1> DEFINE ids == {r.id : r \in {q \in joins : q.chan = c /\ q.status = "pending"}}
<1>1. ids \subseteq issued /\ ids \subseteq JoinId /\ u \in User
  BY CallerIsUser DEF TypeOK, JoinRow, JoinRowsKeyed
<1>2. TypeOK'
  BY <1>1 DEF TypeOK
<1>3. OwnerIsMember' /\ NoOrphanRows'
  BY DEF OwnerIsMember, NoOrphanRows, IsMember, Exists
<1>4. \A v \in User : shown'[v] \subseteq issued
  BY <1>1 DEF TypeOK, JoinRowsKeyed
<1>5. JoinRowsKeyed'
  BY <1>4 DEF JoinRowsKeyed
<1> QED
  BY <1>2, <1>3, <1>5

LEMMA MemberInsertedIInv ==
  ASSUME IInv, NEW c \in Chan, NEW v \in User, NEW cmd \in MemberRow, Exists(c),
         member' = InsertMember(c, v, cmd),
         UNCHANGED channel
  PROVE  /\ member' \in [Chan \X User -> {"absent"} \cup MemberRow]
         /\ OwnerIsMember'
         /\ \A d \in Chan, w \in User : IsMember(d, w)' => Exists(d)'
<1>0. TypeOK
  BY DEF IInv
<1>1. /\ member' \in [Chan \X User -> {"absent"} \cup MemberRow]
      /\ \A d \in Chan, w \in User :
           <<d, w>> # <<c, v>> => member'[d, w] = member[d, w]
      /\ \A d \in Chan, w \in User :
           member[d, w] # "absent" => member'[d, w] = member[d, w]
  <2>1. member' \in [Chan \X User -> {"absent"} \cup MemberRow]
    BY <1>0, InsertMemberEffect
  <2>2. ASSUME NEW d \in Chan, NEW w \in User, <<d, w>> # <<c, v>>
        PROVE  member'[d, w] = member[d, w]
    BY <1>0, <2>2 DEF InsertMember, TypeOK
  <2>3. ASSUME NEW d \in Chan, NEW w \in User, member[d, w] # "absent"
        PROVE  member'[d, w] = member[d, w]
    BY <1>0, <2>3 DEF InsertMember, TypeOK
  <2> QED
    BY <2>1, <2>2, <2>3
<1>2. OwnerIsMember'
  BY <1>1, OwnersStay DEF IInv
<1>3. ASSUME NEW d \in Chan, NEW w \in User, IsMember(d, w)' PROVE Exists(d)'
  <2>1. CASE d = c
    BY <2>1 DEF Exists
  <2>2. CASE d # c
    BY <1>1, <1>3, <2>2 DEF IInv, NoOrphanRows, IsMember, Exists
  <2> QED
    BY <2>1, <2>2
<1> QED
  BY <1>1, <1>2, <1>3

LEMMA DecideJoinRequestIInv ==
  ASSUME IInv, NEW u \in Caller, NEW j \in JoinId, NEW approve \in BOOLEAN,
         DecideJoinRequest(u, j, approve)
  PROVE  IInv'
<1> USE DEF IInv
<1>1. PICK r \in joins :
        /\ r.id = j
        /\ MayDecide(u, r, approve)
        /\ member' = IF approve THEN InsertMember(r.chan, r.user, j) ELSE member
        /\ joins' = (joins \ {r}) \cup
             {[r EXCEPT !.status = IF approve THEN "approved" ELSE "rejected"]}
  BY DEF DecideJoinRequest, Decided
<1>2. UNCHANGED <<channel, issued, shown>>
  BY DEF DecideJoinRequest, Decided
<1> DEFINE dec == [r EXCEPT !.status = IF approve THEN "approved" ELSE "rejected"]
<1>3. /\ r \in joins /\ r \in JoinRow /\ dec \in JoinRow
      /\ dec.id = r.id /\ dec.chan = r.chan /\ dec.user = r.user
  BY DEF TypeOK, JoinRow
<1>4. \A q \in joins' : q = dec \/ (q \in joins /\ q # r)
  BY <1>1
<1> HIDE DEF dec
<1>5. /\ member' \in [Chan \X User -> {"absent"} \cup MemberRow]
      /\ OwnerIsMember'
      /\ \A d \in Chan, w \in User : IsMember(d, w)' => Exists(d)'
  <2>1. CASE approve
    <3>1. /\ Exists(r.chan) /\ r.chan \in Chan /\ r.user \in User
          /\ r.id \in MemberRow
      BY <1>1, <1>3 DEF NoOrphanRows, JoinRow, MemberRow
    <3> QED
      BY <1>1, <1>2, <2>1, <3>1, MemberInsertedIInv
  <2>2. CASE ~approve
    BY <1>1, <1>2, <2>2 DEF TypeOK, OwnerIsMember, NoOrphanRows, IsMember, Exists
  <2> QED
    BY <2>1, <2>2
<1>6. TypeOK'
  BY <1>2, <1>3, <1>4, <1>5 DEF TypeOK
<1>7. NoOrphanRows'
  BY <1>2, <1>3, <1>4, <1>5 DEF NoOrphanRows, Exists
<1>8. JoinRowsKeyed'
  BY <1>2, <1>3, <1>4 DEF JoinRowsKeyed
<1> QED
  BY <1>5, <1>6, <1>7, <1>8

LEMMA AddMemberIInv ==
  ASSUME IInv, NEW u \in Caller, NEW c \in Chan, NEW target \in User,
         AddMember(u, c, target)
  PROVE  IInv'
<1> USE DEF IInv, AddMember
<1>1. Exists(c) /\ "added" \in MemberRow
  BY DEF OwnerOf, ActiveChannel, MemberRow
<1>2. /\ member' \in [Chan \X User -> {"absent"} \cup MemberRow]
      /\ OwnerIsMember'
      /\ \A d \in Chan, w \in User : IsMember(d, w)' => Exists(d)'
  BY <1>1, MemberInsertedIInv
<1> QED
  BY <1>2 DEF TypeOK, NoOrphanRows, JoinRowsKeyed, Exists

LEMMA DeleteChannelIInv ==
  ASSUME IInv, NEW u \in Caller, NEW c \in Chan, DeleteChannel(u, c)
  PROVE  IInv'
<1> USE DEF IInv, DeleteChannel
<1>1. TypeOK'
  BY DEF TypeOK
<1>2. /\ \A d \in Chan : Exists(d)' => d # c /\ channel'[d] = channel[d]
      /\ \A d \in Chan : d # c => channel'[d] = channel[d]
  BY DEF TypeOK, Exists, Deleted
<1>3. \A d \in Chan, v \in User :
        member'[d, v] = IF d = c THEN "absent" ELSE member[d, v]
  BY DEF TypeOK
<1>4. OwnerIsMember'
  BY <1>2, <1>3, OwnersStay
<1>5. NoOrphanRows'
  BY <1>2, <1>3 DEF NoOrphanRows, IsMember, Exists, TypeOK, JoinRow
<1>6. JoinRowsKeyed'
  BY DEF JoinRowsKeyed
<1> QED
  BY <1>1, <1>4, <1>5, <1>6

-----------------------------------------------------------------------------
LEMMA NextIInv == IInv /\ [Next]_vars => IInv'
<1> SUFFICES ASSUME IInv, [Next]_vars PROVE IInv'
  OBVIOUS
<1>1. ASSUME NEW u \in Caller, NEW c \in Chan, NEW n \in Name, CreateChannel(u, c, n)
      PROVE  IInv'
  BY <1>1, CreateChannelIInv
<1>2. ASSUME NEW u \in Caller, NEW c \in Chan, NEW j \in JoinId, JoinChannel(u, c, j)
      PROVE  IInv'
  BY <1>2, JoinChannelIInv
<1>3. ASSUME NEW u \in Caller, NEW c \in Chan, LeaveChannel(u, c)
      PROVE  IInv'
  BY <1>3, CallerIsUser, MemberRemovedIInv DEF LeaveChannel, WithoutMember
<1>4. ASSUME NEW u \in Caller, NEW c \in Chan, ListJoinRequests(u, c)
      PROVE  IInv'
  BY <1>4, ListJoinRequestsIInv
<1>5. ASSUME NEW u \in Caller, NEW j \in JoinId, NEW approve \in BOOLEAN,
             DecideJoinRequest(u, j, approve)
      PROVE  IInv'
  BY <1>5, DecideJoinRequestIInv
<1>6. ASSUME NEW u \in Caller, NEW c \in Chan, NEW target \in User,
             AddMember(u, c, target)
      PROVE  IInv'
  BY <1>6, AddMemberIInv
<1>7. ASSUME NEW u \in Caller, NEW c \in Chan, NEW target \in User,
             RemoveMember(u, c, target)
      PROVE  IInv'
  BY <1>7, MemberRemovedIInv DEF RemoveMember, WithoutMember
<1>8. ASSUME NEW u \in Caller, NEW c \in Chan, DeleteChannel(u, c)
      PROVE  IInv'
  BY <1>8, DeleteChannelIInv
<1>9. CASE UNCHANGED vars
  BY <1>9 DEF vars, IInv, TypeOK, OwnerIsMember, NoOrphanRows, JoinRowsKeyed,
              IsMember, Exists
<1> QED
  BY <1>1, <1>2, <1>3, <1>4, <1>5, <1>6, <1>7, <1>8, <1>9 DEF Next

(* The inductive invariant holds in every reachable state: the channel,    *)
(* member and join request tables keep their types and keys whatever the   *)
(* commands of server/application/channels.py do to them.                  *)
THEOREM Invariance == Spec => []IInv
BY InitIInv, NextIInv, PTL DEF Spec

(* The rows the handlers write always have the types of the schema.        *)
THEOREM TypeCorrect == Spec => []TypeOK
<1>1. IInv => TypeOK
  BY DEF IInv
<1> QED
  BY <1>1, Invariance, PTL

(* No sequence of leaves, removals, decisions and deletions takes a        *)
(* channel's owner out of it.                                              *)
THEOREM OwnersAreMembers == Spec => []OwnerIsMember
<1>1. IInv => OwnerIsMember
  BY DEF IInv
<1> QED
  BY <1>1, Invariance, PTL

(* delete_channel leaves no membership and no join request behind, and no  *)
(* later command attaches one to the deleted channel.                      *)
THEOREM NoOrphans == Spec => []NoOrphanRows
<1>1. IInv => NoOrphanRows
  BY DEF IInv
<1> QED
  BY <1>1, Invariance, PTL

(* One join request row per user and channel, one id per row.              *)
THEOREM JoinRowsAreKeyed == Spec => []JoinRowsKeyed
<1>1. IInv => JoinRowsKeyed
  BY DEF IInv
<1> QED
  BY <1>1, Invariance, PTL

-----------------------------------------------------------------------------
(* Only three commands insert member rows; what each inserts is granted.   *)
LEMMA NextGrants == IInv /\ [Next]_vars => NewMembersAreGranted
<1> SUFFICES ASSUME IInv, [Next]_vars,
                    NEW c \in Chan, NEW u \in User,
                    member[c, u] = "absent", member'[c, u] # "absent"
             PROVE  Granted(c, u)
  BY DEF NewMembersAreGranted, IsMember
<1> USE DEF IInv
<1>1. ASSUME NEW o \in Caller, NEW d \in Chan, NEW n \in Name, CreateChannel(o, d, n)
      PROVE  Granted(c, u)
  <2>1. <<c, u>> = <<d, o>> /\ member'[c, u] = "created"
    BY <1>1, CallerIsUser DEF CreateChannel, InsertMember, TypeOK
  <2>2. /\ channel[c] = Unused
        /\ channel'[c].state = "row"
        /\ channel'[c].owner = u
    BY <1>1, <2>1, RowFacts, CallerIsUser DEF CreateChannel, TypeOK
  <2> QED
    BY <2>1, <2>2 DEF Granted, Exists
<1>2. ASSUME NEW o \in Caller, NEW d \in Chan, NEW v \in User,
             member' = [member EXCEPT ![<<d, v>>] = "absent"]
      PROVE  FALSE
  BY <1>2 DEF TypeOK
<1>3. ASSUME NEW o \in Caller, NEW j \in JoinId, NEW approve \in BOOLEAN,
             DecideJoinRequest(o, j, approve)
      PROVE  Granted(c, u)
  <2>1. PICK r \in joins :
          /\ r.id = j
          /\ r.status = "pending"
          /\ member' = IF approve THEN InsertMember(r.chan, r.user, j) ELSE member
          /\ joins' = (joins \ {r}) \cup
               {[r EXCEPT !.status = IF approve THEN "approved" ELSE "rejected"]}
    BY <1>3 DEF DecideJoinRequest, MayDecide, Decided
  <2>2. approve /\ member' = InsertMember(r.chan, r.user, j)
    BY <2>1
  <2>3. r.chan = c /\ r.user = u /\ member'[c, u] = j
    BY <2>2 DEF InsertMember, TypeOK, JoinRow
  <2>4. [r EXCEPT !.status = "approved"] \in joins'
    BY <2>1, <2>2
  <2> QED
    BY <2>1, <2>3, <2>4 DEF Granted, JoinRowsOf
<1>4. ASSUME NEW o \in Caller, NEW d \in Chan, NEW v \in User, AddMember(o, d, v)
      PROVE  Granted(c, u)
  <2>1. c = d /\ member'[c, u] = "added"
    BY <1>4 DEF AddMember, InsertMember, TypeOK
  <2> QED
    BY <1>4, <2>1 DEF AddMember, OwnerOf, Granted
<1>5. ASSUME NEW o \in Caller, NEW d \in Chan, DeleteChannel(o, d)
      PROVE  FALSE
  BY <1>5 DEF DeleteChannel, TypeOK
<1> QED
  BY <1>1, <1>2, <1>3, <1>4, <1>5, CallerIsUser
     DEF Next, vars, JoinChannel, ListJoinRequests, LeaveChannel, RemoveMember,
         WithoutMember

(* Every new membership was granted: by creation, by the owner's           *)
(* manage_member, or by the approval of that user's own pending request.   *)
THEOREM MembershipGranted == Spec => MembershipIsGranted
BY Invariance, NextGrants, PTL DEF Spec, MembershipIsGranted

(* Join ids are issued once: a reopened row has an id no earlier decision  *)
(* was about, and a decision changes pending rows only.                    *)
LEMMA NextKeepsDecisions == IInv /\ [Next]_vars => DecidedRowsStay
<1> SUFFICES ASSUME IInv, [Next]_vars,
                    NEW r \in joins, r.status # "pending",
                    NEW q \in joins', q.id = r.id
             PROVE  q = r
  BY DEF DecidedRowsStay
<1> USE DEF IInv
<1>1. CASE q \in joins
  BY <1>1 DEF JoinRowsKeyed
<1>2. ASSUME q \notin joins, NEW u \in Caller, NEW c \in Chan, NEW j \in JoinId,
             JoinChannel(u, c, j)
      PROVE  FALSE
  <2>1. q.id = j
    BY <1>2 DEF JoinChannel, RequestJoin, PendingRow
  <2> QED
    BY <1>2, <2>1 DEF JoinChannel, JoinRowsKeyed
<1>3. ASSUME q \notin joins, NEW u \in Caller, NEW j \in JoinId, NEW approve \in BOOLEAN,
             DecideJoinRequest(u, j, approve)
      PROVE  FALSE
  <2>1. PICK p \in joins :
          /\ p.status = "pending"
          /\ joins' = (joins \ {p}) \cup
               {[p EXCEPT !.status = IF approve THEN "approved" ELSE "rejected"]}
    BY <1>3 DEF DecideJoinRequest, MayDecide, Decided
  <2>2. q.id = p.id
    BY <1>3, <2>1 DEF TypeOK, JoinRow
  <2> QED
    BY <2>1, <2>2 DEF JoinRowsKeyed
<1> QED
  BY <1>1, <1>2, <1>3
     DEF Next, vars, CreateChannel, LeaveChannel, ListJoinRequests, AddMember,
         RemoveMember, WithoutMember, DeleteChannel

(* A decided request id is never pending again and never decided otherwise:*)
(* a client's late or repeated decision cannot hit a later ask.            *)
THEOREM DecisionsAreFinal == Spec => DecisionIsFinal
BY Invariance, NextKeepsDecisions, PTL DEF Spec, DecisionIsFinal

(* Only DecideJoinRequest turns a pending row approved, and it inserts the *)
(* member row in the same transaction.                                     *)
LEMMA NextAdmits == IInv /\ [Next]_vars => ApprovedRowsAdmit
<1> SUFFICES ASSUME IInv, [Next]_vars,
                    NEW r \in joins, r.status = "pending",
                    [r EXCEPT !.status = "approved"] \in joins'
             PROVE  member'[r.chan, r.user] # "absent"
  BY DEF ApprovedRowsAdmit, IsMember
<1> USE DEF IInv
<1> DEFINE app == [r EXCEPT !.status = "approved"]
<1>1. app # r /\ app.id = r.id /\ app.status = "approved"
  BY DEF TypeOK, JoinRow
<1>2. app \notin joins
  BY <1>1 DEF JoinRowsKeyed
<1> HIDE DEF app
<1>3. app \in joins'
  BY DEF app
<1>4. ASSUME NEW u \in Caller, NEW c \in Chan, NEW j \in JoinId, JoinChannel(u, c, j)
      PROVE  FALSE
  BY <1>1, <1>2, <1>3, <1>4 DEF JoinChannel, RequestJoin, PendingRow
<1>5. ASSUME NEW u \in Caller, NEW j \in JoinId, NEW approve \in BOOLEAN,
             DecideJoinRequest(u, j, approve)
      PROVE  member'[r.chan, r.user] # "absent"
  <2>1. PICK p \in joins :
          /\ p.id = j
          /\ member' = IF approve THEN InsertMember(p.chan, p.user, j) ELSE member
          /\ joins' = (joins \ {p}) \cup
               {[p EXCEPT !.status = IF approve THEN "approved" ELSE "rejected"]}
    BY <1>5 DEF DecideJoinRequest, Decided
  <2>2. app = [p EXCEPT !.status = IF approve THEN "approved" ELSE "rejected"]
    BY <1>2, <1>3, <2>1
  <2>3. approve /\ p.id = r.id
    BY <1>1, <2>2 DEF TypeOK, JoinRow
  <2>4. p = r
    BY <2>3 DEF JoinRowsKeyed
  <2>5. r.chan \in Chan /\ r.user \in User /\ j \in MemberRow
    BY DEF TypeOK, JoinRow, MemberRow
  <2>6. \A c \in Chan, v \in User, cmd \in MemberRow :
          InsertMember(c, v, cmd)[c, v] # "absent"
    BY InsertMemberEffect
  <2>7. member' = InsertMember(r.chan, r.user, j)
    BY <2>1, <2>3, <2>4
  <2> QED
    BY <2>5, <2>6, <2>7
<1> QED
  BY <1>2, <1>3, <1>4, <1>5
     DEF Next, vars, CreateChannel, LeaveChannel, ListJoinRequests, AddMember,
         RemoveMember, WithoutMember, DeleteChannel

(* Whoever's request is approved is a member in that same step.            *)
THEOREM ApprovalsAdmit == Spec => ApprovalAdmits
BY Invariance, NextAdmits, PTL DEF Spec, ApprovalAdmits

=============================================================================
