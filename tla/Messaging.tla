----------------------------- MODULE Messaging -----------------------------
(***************************************************************************)
(* Sending messages and streaming them: server/application/chat.py and     *)
(* ChatService in server/services.py, over the broker of EventBroker.      *)
(* SendMessage authenticates in one transaction, stores in a second one    *)
(* and publishes after that commit, outside any transaction; SubscribeEvents*)
(* authorizes, subscribes, and authorizes again for each event it emits.   *)
(* Memberships, channels and sessions change underneath at any moment, as  *)
(* Channels says.  A retry is a call with the key of an earlier call.      *)
(***************************************************************************)
EXTENDS Naturals, Sequences, FiniteSets

CONSTANTS
  User, Chan, Key,     \* Key: client_request_ids
  Call,                \* the SendMessage calls clients make, retries included
  Worker,              \* gRPC worker threads that run SendMessage
  Stream,              \* SubscribeEvents calls
  Viewer,              \* Viewer[s]: the user whose token s carries
  Watched,             \* Watched[s]: the channel ids s asks for
  Changing,            \* the rows of channel_members that come and go
  Deletable,           \* the channels that may be deleted
  NoCall, Capacity

ASSUME MessagingAssumption ==
  /\ Call \subseteq [user : User, key : Key, chan : Chan]
  /\ Viewer \in [Stream -> User]
  /\ Watched \in [Stream -> SUBSET Chan]
  /\ Changing \subseteq Chan \X User
  /\ Deletable \subseteq Chan
  /\ NoCall \notin Call

VARIABLES
  subscribers, queue, publishing, phase, todo, target, lost,
  live,        \* streams whose session is neither revoked nor expired
  exists,      \* channels that exist (archived ones cannot be written to
               \* and are left out)
  member,      \* the rows of channel_members
  messages,    \* the rows of messages, by the call that inserted them
  call,        \* call[w]: the call worker w handles
  step,        \* step[w]: how far w got with it
  told,        \* history: the messages in channels that exist which a call
               \* was answered with
  at,          \* at[s]: where SubscribeEvents is for s
  active,      \* active[s]: the client has not gone away
  held,        \* held[s]: the event s took from its queue, or NoCall
  got,         \* got[s][m]: how often s emitted m
  late         \* history: late[s] counts the messages emitted since the
               \* stream's authorization ended

Broker == INSTANCE EventBroker WITH
            Publisher <- Worker, Subscriber <- Stream, Event <- Call, NoEvent <- NoCall

ASSUME BrokerAssumption == Broker!BrokerConstants

brokerVars == <<subscribers, queue, publishing, phase, todo, target, lost>>
tableVars == <<live, exists, member, messages>>
workerVars == <<call, step, told>>
streamVars == <<at, active, held, got, late>>
vars == <<brokerVars, tableVars, workerVars, streamVars>>

Init ==
  /\ Broker!BrokerInit
  /\ live = Stream
  /\ exists = Chan
  /\ member = Chan \X User
  /\ messages = {}
  /\ call = [w \in Worker |-> NoCall]
  /\ step = [w \in Worker |-> "idle"]
  /\ told = {}
  /\ at = [s \in Stream |-> "new"]
  /\ active = [s \in Stream |-> TRUE]
  /\ held = [s \in Stream |-> NoCall]
  /\ got = [s \in Stream |-> [m \in Call |-> 0]]
  /\ late = [s \in Stream |-> 0]

MayUse(u, c) == c \in exists /\ <<c, u>> \in member

-----------------------------------------------------------------------------
(* SendMessage                                                             *)

(* authenticate succeeds, in its own transaction: users log in again, so   *)
(* every user has a session that does.                                     *)
Receive(w, m) ==
  /\ step[w] = "idle"
  /\ call' = [call EXCEPT ![w] = m]
  /\ step' = [step EXCEPT ![w] = "authenticated"]
  /\ UNCHANGED <<brokerVars, tableVars, told, streamVars>>

(* The row UNIQUE(sender_id, client_request_id) finds for a call.          *)
Stored(m) == {r \in messages : r.user = m.user /\ r.key = m.key}

Created_Always(m) == TRUE

(* messages.add: INSERT OR IGNORE inserts when there is no such row.       *)
Created(m) == Stored(m) = {}

Store_WithoutCommit(w) ==
  /\ step[w] = "authenticated"
  /\ MayUse(call[w].user, call[w].chan)
  /\ Created(call[w])
  /\ step' = [step EXCEPT ![w] = "publish"]
  /\ UNCHANGED <<brokerVars, tableVars, call, told, streamVars>>

(* The immediate transaction of send_message when it commits a new row.    *)
Store(w) ==
  /\ step[w] = "authenticated"
  /\ MayUse(call[w].user, call[w].chan)
  /\ Created(call[w])
  /\ messages' = messages \cup {call[w]}
  /\ step' = [step EXCEPT ![w] = "publish"]
  /\ UNCHANGED <<brokerVars, live, exists, member, call, told, streamVars>>

(* The call returns, and the worker is free again.                         *)
Done(w) ==
  /\ step' = [step EXCEPT ![w] = "idle"]
  /\ call' = [call EXCEPT ![w] = NoCall]

TellSender(m) == told' = IF m.chan \in exists THEN told \cup {m} ELSE told

(* The key has a row already, of an earlier call with the same content,    *)
(* which is the answer, ...                                                *)
AnswerDuplicate(w) ==
  /\ MayUse(call[w].user, call[w].chan)
  /\ call[w] \in Stored(call[w])
  /\ TellSender(call[w])

(* ... or of one with other content: CONFLICT.                             *)
AnswerConflict(w) ==
  /\ MayUse(call[w].user, call[w].chan)
  /\ Stored(call[w]) \ {call[w]} # {}
  /\ UNCHANGED told

(* No such channel, or the user is not its member.                         *)
Refuse(w) ==
  /\ ~MayUse(call[w].user, call[w].chan)
  /\ UNCHANGED told

AnswerWithoutStoring(w) ==
  /\ step[w] = "authenticated"
  /\ AnswerDuplicate(w) \/ AnswerConflict(w) \/ Refuse(w)
  /\ Done(w)
  /\ UNCHANGED <<brokerVars, tableVars, streamVars>>

(* publish, entered after the transaction ended.                           *)
Publish(w) ==
  /\ step[w] = "publish"
  /\ Broker!BeginPublish(w, call[w])
  /\ step' = [step EXCEPT ![w] = "publishing"]
  /\ UNCHANGED <<tableVars, call, told, streamVars>>

FanOut(w) ==
  /\ Broker!Fill(w)
  /\ UNCHANGED <<tableVars, workerVars, streamVars>>

(* publish returns, and so does the call, with the new message.            *)
Answer(w) ==
  /\ step[w] = "publishing"
  /\ Broker!EndPublish(w)
  /\ TellSender(call[w])
  /\ Done(w)
  /\ UNCHANGED <<tableVars, streamVars>>

Work(w) == Store(w) \/ AnswerWithoutStoring(w) \/ Publish(w) \/ FanOut(w) \/ Answer(w)

-----------------------------------------------------------------------------
(* SubscribeEvents                                                         *)

(* The stream still has the rights it was opened with.                     *)
MayWatch(s) == \A c \in Watched[s] : MayUse(Viewer[s], c)
Authorized(s) == s \in live /\ MayWatch(s)

GoTo(s, place) == at' = [at EXCEPT ![s] = place]

(* authorize_subscription: authenticate in one transaction, the membership *)
(* of every channel asked for in the next.                                 *)
Authenticate(s, from, to) ==
  /\ at[s] = from
  /\ s \in live
  /\ GoTo(s, to)
  /\ UNCHANGED <<brokerVars, tableVars, workerVars, active, held, got, late>>

CheckMember(s, from, to) ==
  /\ at[s] = from
  /\ MayWatch(s)
  /\ GoTo(s, to)
  /\ UNCHANGED <<brokerVars, tableVars, workerVars, active, held, got, late>>

(* The call that opens the stream.                                         *)
Authorize(s) ==
  \/ Authenticate(s, "new", "new member")
  \/ CheckMember(s, "new member", "authorized")

Subscribe(s) ==
  /\ at[s] = "authorized"
  /\ Broker!Subscribe(s)
  /\ GoTo(s, "loop")
  /\ UNCHANGED <<tableVars, workerVars, active, held, got, late>>

(* subscription.get returns an event.                                      *)
Get(s) ==
  /\ at[s] = "loop"
  /\ Broker!TakeEvent(s)
  /\ held' = [held EXCEPT ![s] = Head(queue[s])]
  /\ GoTo(s, "check")
  /\ UNCHANGED <<tableVars, workerVars, active, got, late>>

(* subscription.get runs into the keepalive timeout.                       *)
GetNothing(s) ==
  /\ at[s] = "loop"
  /\ queue[s] = <<>>
  /\ GoTo(s, "check")
  /\ UNCHANGED <<brokerVars, tableVars, workerVars, active, held, got, late>>

(* The authorization again, before anything is emitted.                    *)
Recheck_Skipped(s) ==
  /\ at[s] = "check"
  /\ GoTo(s, "emit")
  /\ UNCHANGED <<brokerVars, tableVars, workerVars, active, held, got, late>>

Recheck(s) ==
  \/ Authenticate(s, "check", "check member")
  \/ CheckMember(s, "check member", "emit")

(* yield: a message of a watched channel, a keepalive when nothing was     *)
(* held, nothing for another channel's message.                            *)
Emit(s) ==
  /\ at[s] = "emit"
  /\ active[s]
  /\ IF held[s] # NoCall /\ held[s].chan \in Watched[s]
     THEN /\ got' = [got EXCEPT ![s][held[s]] = @ + 1]
          /\ late' = [late EXCEPT ![s] = IF Authorized(s) THEN 0 ELSE @ + 1]
     ELSE UNCHANGED <<got, late>>
  /\ held' = [held EXCEPT ![s] = NoCall]
  /\ GoTo(s, "loop")
  /\ UNCHANGED <<brokerVars, tableVars, workerVars, active>>

(* An authorization refused (a stream not yet subscribed has no queue to   *)
(* close), or the client has gone: the finally clause.                     *)
Close(s) ==
  /\ \/ at[s] \in {"new", "check"} /\ s \notin live
     \/ at[s] \in {"new member", "check member"} /\ ~MayWatch(s)
     \/ at[s] \in {"loop", "emit"} /\ ~active[s]
  /\ Broker!Unsubscribe(s)
  /\ GoTo(s, "closed")
  /\ held' = [held EXCEPT ![s] = NoCall]
  /\ UNCHANGED <<tableVars, workerVars, active, got, late>>

(* The client cancels, or its connection breaks.                           *)
Disconnect(s) ==
  /\ active[s]
  /\ at[s] # "closed"
  /\ active' = [active EXCEPT ![s] = FALSE]
  /\ UNCHANGED <<brokerVars, tableVars, workerVars, at, held, got, late>>

Serve(s) == Authorize(s) \/ Subscribe(s) \/ Get(s) \/ GetNothing(s) \/ Recheck(s)
              \/ Emit(s) \/ Close(s)

-----------------------------------------------------------------------------
(* What the other services commit meanwhile (Channels, logout).            *)
AddMember_ColumnsSwapped(c, u) ==
  /\ c \in exists
  /\ <<c, u>> \in Changing \ member
  /\ member' = member \cup {<<u, c>>}
  /\ UNCHANGED <<brokerVars, live, exists, messages, workerVars, streamVars>>

AddMember(c, u) ==
  /\ c \in exists
  /\ <<c, u>> \in Changing \ member
  /\ member' = member \cup {<<c, u>>}
  /\ late' = [s \in Stream |-> IF Viewer[s] = u THEN 0 ELSE late[s]]
  /\ UNCHANGED <<brokerVars, live, exists, messages, workerVars, at, active, held, got>>

RemoveMember(c, u) ==
  /\ <<c, u>> \in member \cap Changing
  /\ member' = member \ {<<c, u>>}
  /\ UNCHANGED <<brokerVars, live, exists, messages, workerVars, streamVars>>

DeleteChannel(c) ==
  /\ c \in exists \cap Deletable
  /\ exists' = exists \ {c}
  /\ member' = {m \in member : m[1] # c}
  /\ messages' = {m \in messages : m.chan # c}
  /\ told' = {m \in told : m.chan # c}
  /\ UNCHANGED <<brokerVars, live, call, step, streamVars>>

(* The session of the stream is logged out or expires.                     *)
RevokeSession(s) ==
  /\ s \in live
  /\ live' = live \ {s}
  /\ UNCHANGED <<brokerVars, exists, member, messages, workerVars, streamVars>>

Others ==
  \/ \E c \in Chan, u \in User : AddMember(c, u) \/ RemoveMember(c, u)
  \/ \E c \in Chan : DeleteChannel(c)
  \/ \E s \in Stream : RevokeSession(s)

Next ==
  \/ \E w \in Worker : (\E m \in Call : Receive(w, m)) \/ Work(w)
  \/ \E s \in Stream : Serve(s) \/ Disconnect(s)
  \/ Others

(* A call a worker has begun goes on, and so does an open stream: both run *)
(* on threads of their own.                                                *)
Spec ==
  /\ Init
  /\ [][Next]_vars
  /\ \A w \in Worker : WF_vars(Work(w))
  /\ \A s \in Stream : WF_vars(Serve(s))

-----------------------------------------------------------------------------
TypeOK ==
  /\ Broker!BrokerTypeOK
  /\ live \subseteq Stream
  /\ exists \subseteq Chan
  /\ member \subseteq Chan \X User
  /\ messages \subseteq Call
  /\ call \in [Worker -> Call \cup {NoCall}]
  /\ step \in [Worker -> {"idle", "authenticated", "publish", "publishing"}]
  /\ told \subseteq Call
  /\ at \in [Stream -> {"new", "new member", "authorized", "loop", "check", "check member",
                      "emit", "closed"}]
  /\ active \in [Stream -> BOOLEAN]
  /\ held \in [Stream -> Call \cup {NoCall}]
  /\ got \in [Stream -> [Call -> Nat]]
  /\ late \in [Stream -> Nat]

(* A key stands for one message: however often and however concurrently a  *)
(* call is retried, one row is stored for its key and every stream emits   *)
(* it once.                                                                *)
DeliveredOnce ==
  /\ \A m, n \in messages : m.user = n.user /\ m.key = n.key => m = n
  /\ \A s \in Stream, m \in Call : got[s][m] <= 1

(* What a stream has emitted or is about to emit, and what a call or its   *)
(* retry was answered with, is in the history, unless its channel was      *)
(* deleted since: publishing and answering come after the commit.          *)
InFlight(s) == ({queue[s][i] : i \in DOMAIN queue[s]} \cup {held[s]}) \ {NoCall}
LiveIsDurable ==
  \A m \in told \cup UNION {InFlight(s) \cup {n \in Call : got[s][n] > 0} : s \in Stream} :
    m.chan \in exists => m \in messages

(* Once a user is removed from a watched channel, the channel is deleted   *)
(* or the session ends, the stream emits one more message at most: the one *)
(* whose recheck was already past.                                         *)
OneLateMessageAtMost == \A s \in Stream : late[s] <= 1

(* A message committed while s is subscribed reaches s, or is dropped from *)
(* its full queue, or the stream ends.                                     *)
Delivered ==
  \A s \in Stream, m \in Call :
    ((\E w \in Worker : step[w] = "publish" /\ call[w] = m)
       /\ s \in subscribers /\ m.chan \in Watched[s])
    ~> (got[s][m] > 0 \/ \E end \in {"oldest", "newest"} : <<m, end>> \in lost[s]
        \/ at[s] = "closed")

NewestIsKept == Broker!NewestIsKept

=============================================================================
