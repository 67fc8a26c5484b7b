------------------------------ MODULE Channels ------------------------------
(***************************************************************************)
(* Channel lifecycle, membership and join requests of the chat server:     *)
(* server/application/channels.py over the tables of server/migrations.    *)
(*                                                                         *)
(* Every action is one unit of work, committed in one step: UnitOfWork     *)
(* shows that the commands' transactions are equivalent to such steps.  A  *)
(* command that fails, or that returns early without writing, rolls back   *)
(* and leaves every variable alone, so it is a stuttering step here.       *)
(***************************************************************************)
EXTENDS FiniteSets, Naturals

CONSTANTS
  User,      \* rows of the users table
  Account,   \* Account[u]: "active", "disabled", or "admin" (retired role)
  Chan,      \* channel ids, each given by uuid4() to one channel at most
  Legacy,    \* the channels an earlier release left in the database
  Name,      \* channel names, after strip() and NOCASE
  JoinId     \* join request ids, each given by uuid4() to one ask at most

(* A running server never changes a role or a status: AdminService, the    *)
(* only writer of both columns, is not registered.                         *)
ASSUME AccountAssumption == Account \in [User -> {"active", "disabled", "admin"}]

ASSUME LegacyAssumption == Legacy \subseteq Chan

ASSUME JoinIdAssumption ==
  JoinId \cap {"absent", "created", "added", "legacy"} = {}

VARIABLES
  channel,   \* channel[c]: its row, Unused before creation, Deleted after
  member,    \* member[c, u]: absent, or the command that inserted the row
  joins,     \* the rows of channel_join_requests
  issued,    \* join ids handed out so far
  shown      \* shown[u]: join ids ListJoinRequests has returned to u

vars == <<channel, member, joins, issued, shown>>

Unused  == [state |-> "unused"]
Deleted == [state |-> "deleted"]
Row(n, u, archived) ==
  [state |-> "row", name |-> n, owner |-> u, archived |-> archived]

ChannelRow == [state : {"row"}, name : Name, owner : User, archived : BOOLEAN]

(* A member row's joined_at tells which command stamped it: here the row   *)
(* names that command, an approval by the id of the request it decided.    *)
MemberRow == {"created", "added", "legacy"} \cup JoinId

JoinRow == [id : JoinId, chan : Chan, user : User,
            status : {"pending", "approved", "rejected"}]

-----------------------------------------------------------------------------
(* The accounts authenticate() lets through to a command.                  *)
Caller == {u \in User : Account[u] = "active"}

(* The status check on the user a command is about: a retired              *)
(* administrator's status column still reads 'active'.                     *)
IsActiveUser(u) == Account[u] \in {"active", "admin"}

Exists(c) == channel[c].state = "row"

(* _active_channel: the row exists and is not archived.                    *)
ActiveChannel(c) == Exists(c) /\ ~channel[c].archived

(* _require_owner                                                          *)
OwnerOf(u, c) == ActiveChannel(c) /\ channel[c].owner = u

IsMember(c, u) == member[c, u] # "absent"

(* Operators named X_<what goes wrong> are faulty variants of X: each      *)
(* stands for a plausible bug that one of the properties below catches.    *)
InsertMember_Forgotten(c, u, command) == member

(* add_member: INSERT OR IGNORE keeps a row that is there.                 *)
InsertMember(c, u, command) ==
  [member EXCEPT ![<<c, u>>] = IF @ = "absent" THEN command ELSE @]

(* remove_member                                                           *)
WithoutMember(c, u) == [member EXCEPT ![<<c, u>>] = "absent"]

(* list_join_requests                                                      *)
PendingRequests(c) == {r \in joins : r.chan = c /\ r.status = "pending"}

(* decide_join_request: UPDATE ... WHERE id = ? AND status = 'pending'     *)
Decided(r, approve) ==
  (joins \ {r}) \cup {[r EXCEPT !.status = IF approve THEN "approved" ELSE "rejected"]}

JoinRowsOf(c, u) == {r \in joins : r.chan = c /\ r.user = u}

PendingRow(c, u, j) == [id |-> j, chan |-> c, user |-> u, status |-> "pending"]

RequestJoin_KeepsId(c, u, j) ==
  IF JoinRowsOf(c, u) = {}
  THEN joins \cup {PendingRow(c, u, j)}
  ELSE (joins \ JoinRowsOf(c, u)) \cup {[r EXCEPT !.status = "pending"] : r \in JoinRowsOf(c, u)}

RequestJoin_BadStatus(c, u, j) ==
  joins \cup {[PendingRow(c, u, j) EXCEPT !.status = "requested"]}

RequestJoin_NoLookup(c, u, j) == joins \cup {PendingRow(c, u, j)}

(* request_join: a new row, or the user's decided row reopened under a new *)
(* id.                                                                     *)
RequestJoin(c, u, j) == (joins \ JoinRowsOf(c, u)) \cup {PendingRow(c, u, j)}

MayDecide_Again(u, r, approve) ==
  OwnerOf(u, r.chan) /\ (approve => IsActiveUser(r.user))

(* The checks of decide_join_request on the row it has read.               *)
MayDecide(u, r, approve) ==
  /\ OwnerOf(u, r.chan)
  /\ r.status = "pending"
  /\ approve => IsActiveUser(r.user)

-----------------------------------------------------------------------------
(* The releases before channel owners let administrators create channels   *)
(* (without becoming members), archive them, fill them with members and    *)
(* change anyone's role, so nothing ties a legacy owner to the membership. *)
Init ==
  /\ channel \in [Chan -> {Unused} \cup ChannelRow]
  /\ \A c \in Chan : Exists(c) <=> c \in Legacy
  /\ \A c, d \in Legacy : c # d => channel[c].name # channel[d].name
  /\ member \in [Chan \X User -> {"absent", "legacy"}]
  /\ \A c \in Chan \ Legacy, u \in User : ~IsMember(c, u)
  /\ joins = {}
  /\ issued = {}
  /\ shown = [u \in User |-> {}]

(* create_channel: the channel and its owner's membership in one           *)
(* transaction; UNIQUE(name) refuses a second channel of the same name.    *)
CreateChannel(u, c, n) ==
  /\ channel[c] = Unused
  /\ \A d \in Chan : Exists(d) => channel[d].name # n
  /\ channel' = [channel EXCEPT ![c] = Row(n, u, FALSE)]
  /\ member' = InsertMember(c, u, "created")
  /\ UNCHANGED <<joins, issued, shown>>

(* join_channel: a member's call returns early, and a row that is pending  *)
(* already stays as it is.                                                 *)
JoinChannel(u, c, j) ==
  /\ ActiveChannel(c)
  /\ ~IsMember(c, u)
  /\ j \notin issued
  /\ \A r \in JoinRowsOf(c, u) : r.status # "pending"
  /\ joins' = RequestJoin(c, u, j)
  /\ issued' = issued \cup {j}
  /\ UNCHANGED <<channel, member, shown>>

(* leave_channel                                                           *)
LeaveChannel(u, c) ==
  /\ ActiveChannel(c)
  /\ channel[c].owner # u
  /\ IsMember(c, u)
  /\ member' = WithoutMember(c, u)
  /\ UNCHANGED <<channel, joins, issued, shown>>

(* list_join_requests: the owner's client learns the pending ids.          *)
ListJoinRequests(u, c) ==
  /\ OwnerOf(u, c)
  /\ shown' = [shown EXCEPT ![u] = @ \cup {r.id : r \in PendingRequests(c)}]
  /\ UNCHANGED <<channel, member, joins, issued>>

(* decide_join_request, for an id some listing has shown the caller.  The  *)
(* row may have been decided, reopened under another id or deleted since:  *)
(* then the call answers without writing.                                  *)
DecideJoinRequest(u, j, approve) ==
  /\ j \in shown[u]
  /\ \E r \in joins :
       /\ r.id = j
       /\ MayDecide(u, r, approve)
       /\ member' = IF approve THEN InsertMember(r.chan, r.user, j) ELSE member
       /\ joins' = Decided(r, approve)
  /\ UNCHANGED <<channel, issued, shown>>

(* manage_member with add = TRUE; an earlier join request of the user      *)
(* keeps its status.                                                       *)
AddMember(u, c, target) ==
  /\ OwnerOf(u, c)
  /\ IsActiveUser(target)
  /\ member' = InsertMember(c, target, "added")
  /\ UNCHANGED <<channel, joins, issued, shown>>

RemoveMember_OwnerToo(u, c, target) ==
  /\ OwnerOf(u, c)
  /\ IsActiveUser(target)
  /\ member' = WithoutMember(c, target)
  /\ UNCHANGED <<channel, joins, issued, shown>>

(* manage_member with add = FALSE                                          *)
RemoveMember(u, c, target) ==
  /\ OwnerOf(u, c)
  /\ IsActiveUser(target)
  /\ target # channel[c].owner
  /\ member' = WithoutMember(c, target)
  /\ UNCHANGED <<channel, joins, issued, shown>>

DeleteChannel_NoCascade(u, c) ==
  /\ OwnerOf(u, c)
  /\ channel' = [channel EXCEPT ![c] = Deleted]
  /\ UNCHANGED <<member, joins, issued, shown>>

(* delete_channel: the foreign keys cascade to members and join requests.  *)
DeleteChannel(u, c) ==
  /\ OwnerOf(u, c)
  /\ channel' = [channel EXCEPT ![c] = Deleted]
  /\ member' = [p \in Chan \X User |-> IF p[1] = c THEN "absent" ELSE member[p]]
  /\ joins' = {r \in joins : r.chan # c}
  /\ UNCHANGED <<issued, shown>>

Next ==
  \E u \in Caller :
    \/ \E c \in Chan, n \in Name : CreateChannel(u, c, n)
    \/ \E c \in Chan, j \in JoinId : JoinChannel(u, c, j)
    \/ \E c \in Chan : LeaveChannel(u, c)
    \/ \E c \in Chan : ListJoinRequests(u, c)
    \/ \E j \in JoinId, approve \in BOOLEAN : DecideJoinRequest(u, j, approve)
    \/ \E c \in Chan, target \in User : AddMember(u, c, target)
    \/ \E c \in Chan, target \in User : RemoveMember(u, c, target)
    \/ \E c \in Chan : DeleteChannel(u, c)

Spec == Init /\ [][Next]_vars

-----------------------------------------------------------------------------
(* Every variable keeps its type.                                          *)
TypeOK ==
  /\ channel \in [Chan -> {Unused, Deleted} \cup ChannelRow]
  /\ member \in [Chan \X User -> {"absent"} \cup MemberRow]
  /\ joins \subseteq JoinRow
  /\ issued \subseteq JoinId
  /\ shown \in [User -> SUBSET JoinId]

(* The creator of a channel is a member of it for as long as it exists:    *)
(* leave_channel and manage_member both refuse to take the owner out, and  *)
(* the membership is created with the channel.                             *)
OwnerIsMember ==
  \A c \in Chan \ Legacy : Exists(c) => IsMember(c, channel[c].owner)

(* Memberships and join requests belong to channels that exist: deletion   *)
(* takes them all, and no command on its way to a deleted channel adds one.*)
NoOrphanRows ==
  /\ \A c \in Chan, u \in User : IsMember(c, u) => Exists(c)
  /\ \A r \in joins : Exists(r.chan)

(* The select-then-write of request_join keeps one row per user and        *)
(* channel, even when asks, decisions and deletions alternate, and no two  *)
(* rows share an id; clients only ever hold ids that were issued.          *)
JoinRowsKeyed ==
  /\ \A r, q \in joins : r.chan = q.chan /\ r.user = q.user => r = q
  /\ \A r, q \in joins : r.id = q.id => r = q
  /\ \A r \in joins : r.id \in issued
  /\ \A u \in User : shown[u] \subseteq issued

(* Where the new membership of u in c comes from.                          *)
Granted(c, u) ==
  \/ /\ member'[c, u] = "created"
     /\ channel[c] = Unused
     /\ channel'[c].state = "row"
     /\ channel'[c].owner = u
  \/ /\ member'[c, u] = "added"
     /\ ActiveChannel(c)
     /\ channel[c].owner \in Caller
  \/ \E r \in JoinRowsOf(c, u) :
       /\ member'[c, u] = r.id
       /\ r.status = "pending"
       /\ [r EXCEPT !.status = "approved"] \in joins'

NewMembersAreGranted ==
  \A c \in Chan, u \in User : ~IsMember(c, u) /\ IsMember(c, u)' => Granted(c, u)

(* A user becomes a member by creating the channel, by an owner's          *)
(* manage_member, or in the step in which the user's own pending request   *)
(* turns approved.  In particular a repeated approval that arrives after   *)
(* the user left or was removed does not bring them back.                  *)
MembershipIsGranted == [][NewMembersAreGranted]_vars

DecidedRowsStay ==
  \A r \in joins : r.status # "pending" => \A q \in joins' : q.id = r.id => q = r

(* A decision is final for its id: a later ask of the same user has another*)
(* id, so what the owner's client still holds of the earlier ask decides   *)
(* nothing about the later one.                                            *)
DecisionIsFinal == [][DecidedRowsStay]_vars

ApprovedRowsAdmit ==
  \A r \in joins :
    r.status = "pending" /\ [r EXCEPT !.status = "approved"] \in joins'
      => IsMember(r.chan, r.user)'

(* Approving and becoming a member are one step: no early return or        *)
(* concurrent command leaves an approved user outside.                     *)
ApprovalAdmits == [][ApprovedRowsAdmit]_vars

=============================================================================
