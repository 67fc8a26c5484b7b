------------------------------ MODULE Presence ------------------------------
(***************************************************************************)
(* Heartbeat presence, server/application/presence.py.  Three tables under *)
(* one lock say when each session was heard of and who counts as online.   *)
(* heartbeat reads the clock before it takes the lock; expire reads it     *)
(* inside.  The events both produce are published one by one after the     *)
(* lock is released.  What the broker does with them is in EventBroker:    *)
(* here an event is counted when it is published.                          *)
(***************************************************************************)
EXTENDS Integers, FiniteSets

CONSTANTS
  User,
  Session,     \* session tokens
  UserOf,      \* UserOf[k]: whose token k is
  Worker,      \* threads that serve Heartbeat and GetPresence
  Stream,      \* threads that serve SubscribePresence
  Timeout,     \* presence_timeout_seconds
  MaxClock     \* bound: the clock stops here

Thread == Worker \cup Stream

ASSUME PresenceAssumption ==
  /\ UserOf \in [Session -> User]
  /\ Timeout \in Nat \ {0}
  /\ MaxClock \in Nat
  /\ Worker \cap Stream = {}
  /\ IsFiniteSet(Thread)      \* the server's thread pool has max_workers

VARIABLES
  clock,       \* the clock of the server, in units that differ
  heartbeats,  \* heartbeats[k]: when k was last heard of, for the keys in it
  last_seen,   \* last_seen[u]: likewise for users
  online,      \* the users that count as online
  call,        \* call[t]: the session whose heartbeat t serves, and the time
               \* it read; {} outside
  expired,     \* expired[t]: OFFLINE events t has still to publish
  fresh,       \* fresh[t]: the ONLINE event t has still to publish, if any
  announced    \* history: announced[u] counts the ONLINE events published
               \* for u, less the OFFLINE ones

tables == <<heartbeats, last_seen, online>>
vars == <<clock, tables, call, expired, fresh, announced>>

EmptyTable == [k \in {} |-> 0]

Init ==
  /\ clock = 0
  /\ heartbeats = EmptyTable
  /\ last_seen = EmptyTable
  /\ online = {}
  /\ call = [t \in Thread |-> {}]
  /\ expired = [t \in Thread |-> {}]
  /\ fresh = [t \in Thread |-> {}]
  /\ announced = [u \in User |-> 0]

-----------------------------------------------------------------------------
(* _expire_locked(now).  (Operators named X_<what goes wrong> are faulty   *)
(* variants of X, for the mutants.)                                        *)
Alive_NoTimeout(now) == {k \in DOMAIN heartbeats : now - heartbeats[k] = 0}

(* The heartbeats that survive an expiry at time now.                      *)
Alive(now) == {k \in DOMAIN heartbeats : now - heartbeats[k] < Timeout}

Gone_AnySession(now) ==
  {u \in online : \E k \in DOMAIN heartbeats \ Alive(now) : UserOf[k] = u}

(* The users it takes offline: no session of theirs is left.               *)
Gone(now) == {u \in online : \A k \in Alive(now) : UserOf[k] # u}

(* A thread begins nothing new before it has published its events.         *)
Free(t) == call[t] = {} /\ expired[t] = {} /\ fresh[t] = {}

(* expire, for GetPresence and in the loop of SubscribePresence, up to the *)
(* release of the lock.                                                    *)
Expire_Nothing(t) == Free(t) /\ UNCHANGED vars

Expire(t) ==
  /\ Free(t)
  /\ heartbeats' = [k \in Alive(clock) |-> heartbeats[k]]
  /\ online' = online \ Gone(clock)
  /\ expired' = [expired EXCEPT ![t] = Gone(clock)]
  /\ UNCHANGED <<clock, last_seen, call, fresh, announced>>

BeginHeartbeat_KeyedByUser(t, k) ==
  /\ Free(t)
  /\ call' = [call EXCEPT ![t] = {<<UserOf[k], clock>>}]
  /\ UNCHANGED <<clock, tables, expired, fresh, announced>>

(* heartbeat: now = self._clock(), before the lock.                        *)
BeginHeartbeat(t, k) ==
  /\ Free(t)
  /\ call' = [call EXCEPT ![t] = {<<k, clock>>}]
  /\ UNCHANGED <<clock, tables, expired, fresh, announced>>

(* The part of heartbeat under the lock.                                   *)
Beat_BecameBeforeExpiry(t) ==
  \E k \in Session, now \in 0..clock :
    LET u == UserOf[k] IN
    /\ call[t] = {<<k, now>>}
    /\ heartbeats' = [l \in Alive(now) \cup {k} |-> IF l = k THEN now ELSE heartbeats[l]]
    /\ last_seen' = [v \in DOMAIN last_seen \cup {u} |-> IF v = u THEN now ELSE last_seen[v]]
    /\ online' = (online \ Gone(now)) \cup {u}
    /\ expired' = [expired EXCEPT ![t] = Gone(now)]
    /\ fresh' = [fresh EXCEPT ![t] = {u} \ online]
    /\ call' = [call EXCEPT ![t] = {}]
    /\ UNCHANGED <<clock, announced>>

Beat(t) ==
  \E k \in Session, now \in 0..clock :
    LET u == UserOf[k]
        left == online \ Gone(now)
    IN
    /\ call[t] = {<<k, now>>}
    /\ heartbeats' = [l \in Alive(now) \cup {k} |-> IF l = k THEN now ELSE heartbeats[l]]
    /\ last_seen' = [v \in DOMAIN last_seen \cup {u} |-> IF v = u THEN now ELSE last_seen[v]]
    /\ online' = left \cup {u}
    /\ expired' = [expired EXCEPT ![t] = Gone(now)]
    /\ fresh' = [fresh EXCEPT ![t] = {u} \ left]
    /\ call' = [call EXCEPT ![t] = {}]
    /\ UNCHANGED <<clock, announced>>

(* publish, for the users taken offline first, then for the caller.        *)
PublishOffline(t) ==
  \E u \in expired[t] :
    /\ expired' = [expired EXCEPT ![t] = @ \ {u}]
    /\ announced' = [announced EXCEPT ![u] = @ - 1]
    /\ UNCHANGED <<clock, tables, call, fresh>>

PublishOnline(t) ==
  /\ expired[t] = {}
  /\ \E u \in fresh[t] :
       /\ fresh' = [fresh EXCEPT ![t] = {}]
       /\ announced' = [announced EXCEPT ![u] = @ + 1]
  /\ UNCHANGED <<clock, tables, call, expired>>

Finish(t) == Beat(t) \/ PublishOffline(t) \/ PublishOnline(t)

Tick ==
  /\ clock < MaxClock
  /\ clock' = clock + 1
  /\ UNCHANGED <<tables, call, expired, fresh, announced>>

Next ==
  \/ \E t \in Worker : Expire(t) \/ (\E k \in Session : BeginHeartbeat(t, k))
  \/ \E t \in Stream : Expire(t)
  \/ \E t \in Thread : Finish(t)
  \/ Tick

(* A thread finishes what it began, and an open stream expires every time  *)
(* its poll for an event ends.  Nobody has to send heartbeats or ask.      *)
Spec ==
  /\ Init
  /\ [][Next]_vars
  /\ \A t \in Thread : WF_vars(Finish(t))
  /\ \A t \in Stream : WF_vars(Expire(t))

-----------------------------------------------------------------------------
(* Every variable keeps its type.                                          *)
TypeOK ==
  /\ clock \in 0..MaxClock
  /\ DOMAIN heartbeats \subseteq Session
  /\ heartbeats \in [DOMAIN heartbeats -> 0..clock]
  /\ DOMAIN last_seen \subseteq User
  /\ last_seen \in [DOMAIN last_seen -> 0..clock]
  /\ online \subseteq User
  /\ call \in [Thread -> SUBSET (Session \X (0..clock))]
  /\ expired \in [Thread -> SUBSET User]
  /\ fresh \in [Thread -> SUBSET User]
  /\ announced \in [User -> Int]

(* Online are exactly the users some session of whom has a heartbeat on    *)
(* record, whatever mixture of old and new clock readings gets the lock;   *)
(* and every one of them has a last_seen for the OFFLINE event to come.    *)
OnlineHasHeartbeat ==
  /\ online = {UserOf[k] : k \in DOMAIN heartbeats}
  /\ online \subseteq DOMAIN last_seen

(* Every transition is announced once: what was published for a user, with *)
(* what threads have still to publish, adds up to the user's state.        *)
Pending(u, events) == Cardinality({t \in Thread : u \in events[t]})
ChangesAnnouncedOnce ==
  \A u \in User :
    announced[u] + Pending(u, fresh) - Pending(u, expired) = IF u \in online THEN 1 ELSE 0

(* A user is taken offline only when last_seen is a timeout or more ago:   *)
(* one session's expiry does not take away what another one keeps.         *)
OfflineMeansSilence ==
  [][\A u \in online \ online' : last_seen[u] + Timeout <= clock]_vars

(* While somebody watches presence, a user whose heartbeats are all too old*)
(* does not stay online: they go offline or are heard of again.            *)
Silent(u) ==
  u \in online /\ \A k \in DOMAIN heartbeats : UserOf[k] = u => clock - heartbeats[k] >= Timeout
SilentUsersExpire == \A u \in User : Silent(u) ~> ~Silent(u)

=============================================================================
