-------------------------- MODULE Presence_proofs --------------------------
(* Proofs about Presence, for every set of users, sessions and threads and *)
(* every timeout.                                                          *)
EXTENDS Presence, FiniteSetTheorems, TLAPS

(* What makes OfflineMeansSilence inductive: last_seen of an online user is*)
(* never ahead of all the heartbeats on record, although a late heartbeat  *)
(* may overwrite a newer one.                                              *)
LastSeenIsBacked ==
  \A u \in online : \E k \in DOMAIN heartbeats :
    UserOf[k] = u /\ last_seen[u] <= heartbeats[k]

IInv == TypeOK /\ OnlineHasHeartbeat /\ LastSeenIsBacked

LEMMA InitIInv == Init => IInv
BY PresenceAssumption
DEF Init, IInv, TypeOK, OnlineHasHeartbeat, LastSeenIsBacked, EmptyTable

(* What _expire_locked leaves: a user who was online is still online       *)
(* exactly when one of their heartbeats is, and that one is not older than *)
(* what last_seen says.                                                    *)
LEMMA ExpiryKeepsBacking ==
  ASSUME IInv, NEW now \in 0..clock
  PROVE  /\ Alive(now) \subseteq DOMAIN heartbeats
         /\ online \ Gone(now) = {UserOf[k] : k \in Alive(now)}
         /\ \A u \in online \ Gone(now) : \E k \in Alive(now) :
              UserOf[k] = u /\ last_seen[u] <= heartbeats[k]
         /\ \A u \in Gone(now) : last_seen[u] + Timeout <= clock
<1>1. Alive(now) \subseteq DOMAIN heartbeats
  BY DEF Alive
<1>2. online \ Gone(now) = {UserOf[k] : k \in Alive(now)}
  BY <1>1 DEF Gone, IInv, OnlineHasHeartbeat
<1>3. /\ Timeout \in Nat /\ clock \in Nat /\ now \in Nat /\ now <= clock
      /\ \A k \in DOMAIN heartbeats : heartbeats[k] \in Nat
      /\ \A u \in online : last_seen[u] \in Nat
  BY PresenceAssumption DEF IInv, TypeOK, OnlineHasHeartbeat
<1>4. ASSUME NEW u \in online \ Gone(now)
      PROVE  \E k \in Alive(now) : UserOf[k] = u /\ last_seen[u] <= heartbeats[k]
  <2>1. PICK k \in DOMAIN heartbeats : UserOf[k] = u /\ last_seen[u] <= heartbeats[k]
    BY DEF IInv, LastSeenIsBacked
  <2>2. PICK l \in Alive(now) : UserOf[l] = u
    BY DEF Gone
  <2>3. CASE k \in Alive(now)
    BY <2>1, <2>3
  <2>4. CASE k \notin Alive(now)
    <3>1. ~(now - heartbeats[k] < Timeout) /\ now - heartbeats[l] < Timeout
      BY <2>1, <2>2, <2>4 DEF Alive
    <3>2. heartbeats[k] <= heartbeats[l]
      BY <1>1, <1>3, <2>1, <2>2, <3>1
    <3>3. last_seen[u] <= heartbeats[l]
      BY <1>1, <1>3, <2>1, <2>2, <3>2
    <3> QED
      BY <2>2, <3>3
  <2> QED
    BY <2>3, <2>4
<1>5. ASSUME NEW u \in Gone(now)
      PROVE  last_seen[u] + Timeout <= clock
  <2>1. u \in online /\ \A k \in Alive(now) : UserOf[k] # u
    BY DEF Gone
  <2>2. PICK k \in DOMAIN heartbeats : UserOf[k] = u /\ last_seen[u] <= heartbeats[k]
    BY <2>1 DEF IInv, LastSeenIsBacked
  <2>3. ~(now - heartbeats[k] < Timeout)
    BY <2>1, <2>2 DEF Alive
  <2> QED
    BY <1>3, <2>1, <2>2, <2>3
<1> QED
  BY <1>1, <1>2, <1>4, <1>5

LEMMA ExpireIInv ==
  ASSUME IInv, NEW t \in Thread, Expire(t)
  PROVE  IInv'
<1>1. clock \in 0..clock
  BY PresenceAssumption DEF IInv, TypeOK
<1>2. /\ DOMAIN heartbeats' = Alive(clock)
      /\ \A k \in Alive(clock) : heartbeats'[k] = heartbeats[k]
      /\ Alive(clock) \subseteq DOMAIN heartbeats
      /\ online' = online \ Gone(clock) /\ last_seen' = last_seen /\ clock' = clock
  BY <1>1, ExpiryKeepsBacking DEF Expire
<1>3. TypeOK'
  <2>1. Gone(clock) \subseteq User
    BY DEF Gone, IInv, TypeOK
  <2>2. expired' \in [Thread -> SUBSET User]
    BY <2>1 DEF Expire, IInv, TypeOK
  <2>3. heartbeats' \in [DOMAIN heartbeats' -> 0..clock']
    BY <1>2 DEF Expire, IInv, TypeOK
  <2>4. DOMAIN heartbeats' \subseteq Session /\ online' \subseteq User
    BY <1>2 DEF IInv, TypeOK
  <2> QED
    BY <2>2, <2>3, <2>4 DEF Expire, IInv, TypeOK
<1>4. OnlineHasHeartbeat'
  BY <1>1, <1>2, ExpiryKeepsBacking DEF IInv, OnlineHasHeartbeat
<1>5. LastSeenIsBacked'
  BY <1>1, <1>2, ExpiryKeepsBacking DEF LastSeenIsBacked
<1> QED
  BY <1>3, <1>4, <1>5 DEF IInv

LEMMA BeatIInv ==
  ASSUME IInv, NEW t \in Thread, Beat(t)
  PROVE  IInv'
<1>1. PICK k \in Session, now \in 0..clock :
        /\ heartbeats' = [l \in Alive(now) \cup {k} |-> IF l = k THEN now ELSE heartbeats[l]]
        /\ last_seen' = [v \in DOMAIN last_seen \cup {UserOf[k]} |->
                          IF v = UserOf[k] THEN now ELSE last_seen[v]]
        /\ online' = (online \ Gone(now)) \cup {UserOf[k]}
        /\ expired' = [expired EXCEPT ![t] = Gone(now)]
        /\ fresh' = [fresh EXCEPT ![t] = {UserOf[k]} \ (online \ Gone(now))]
        /\ call' = [call EXCEPT ![t] = {}]
        /\ UNCHANGED <<clock, announced>>
  BY DEF Beat
<1> DEFINE u == UserOf[k]
           left == online \ Gone(now)
<1>2. /\ Alive(now) \subseteq DOMAIN heartbeats
      /\ left = {UserOf[l] : l \in Alive(now)}
      /\ \A v \in left : \E l \in Alive(now) : UserOf[l] = v /\ last_seen[v] <= heartbeats[l]
  BY ExpiryKeepsBacking
<1>3. u \in User
  BY PresenceAssumption
<1>4. /\ DOMAIN heartbeats' = Alive(now) \cup {k}
      /\ heartbeats'[k] = now
      /\ \A l \in Alive(now) : l # k => heartbeats'[l] = heartbeats[l]
      /\ last_seen'[u] = now
      /\ \A v \in DOMAIN last_seen : v # u => last_seen'[v] = last_seen[v]
      /\ DOMAIN last_seen' = DOMAIN last_seen \cup {u}
      /\ online' = left \cup {u}
      /\ clock' = clock
  BY <1>1
<1>5. now \in Nat
  BY PresenceAssumption DEF IInv, TypeOK
<1>6. TypeOK'
  <2>1. heartbeats' \in [DOMAIN heartbeats' -> 0..clock'] /\ DOMAIN heartbeats' \subseteq Session
    BY <1>1, <1>2, <1>4 DEF IInv, TypeOK
  <2>2. last_seen' \in [DOMAIN last_seen' -> 0..clock'] /\ DOMAIN last_seen' \subseteq User
    BY <1>1, <1>3, <1>4 DEF IInv, TypeOK
  <2>3. online' \subseteq User
    BY <1>3, <1>4 DEF IInv, TypeOK
  <2>4. expired' \in [Thread -> SUBSET User]
    BY <1>1 DEF Gone, IInv, TypeOK
  <2>5. fresh' \in [Thread -> SUBSET User]
    BY <1>1, <1>3 DEF IInv, TypeOK
  <2>6. call' \in [Thread -> SUBSET (Session \X (0..clock'))]
    BY <1>1 DEF IInv, TypeOK
  <2> QED
    BY <1>1, <2>1, <2>2, <2>3, <2>4, <2>5, <2>6 DEF IInv, TypeOK
<1>7. OnlineHasHeartbeat'
  <2>1. online' = {UserOf[l] : l \in DOMAIN heartbeats'}
    BY <1>2, <1>4
  <2>2. online' \subseteq DOMAIN last_seen'
    BY <1>4 DEF IInv, OnlineHasHeartbeat
  <2> QED
    BY <2>1, <2>2 DEF OnlineHasHeartbeat
<1>8. LastSeenIsBacked'
  <2> SUFFICES ASSUME NEW v \in online'
               PROVE  \E l \in DOMAIN heartbeats' :
                        UserOf[l] = v /\ last_seen'[v] <= heartbeats'[l]
    BY DEF LastSeenIsBacked
  <2>1. CASE v = u
    BY <1>4, <1>5, <2>1
  <2>2. CASE v # u
    <3>1. v \in left /\ v \in DOMAIN last_seen
      BY <1>4, <2>2 DEF IInv, OnlineHasHeartbeat
    <3>2. PICK l \in Alive(now) : UserOf[l] = v /\ last_seen[v] <= heartbeats[l]
      BY <1>2, <3>1
    <3>3. heartbeats'[l] = heartbeats[l] /\ last_seen'[v] = last_seen[v]
      BY <1>4, <2>2, <3>1, <3>2
    <3> QED
      BY <1>4, <3>2, <3>3
  <2> QED
    BY <2>1, <2>2
<1> QED
  BY <1>6, <1>7, <1>8 DEF IInv

(* The steps that leave the three tables alone.                            *)
LEMMA TablesAloneIInv ==
  ASSUME IInv, UNCHANGED tables, TypeOK'
  PROVE  IInv'
BY DEF IInv, tables, OnlineHasHeartbeat, LastSeenIsBacked

LEMMA TickIInv ==
  ASSUME IInv, Tick
  PROVE  IInv'
<1>1. clock \in Nat /\ MaxClock \in Nat /\ clock' = clock + 1 /\ clock' \in 0..MaxClock
  BY PresenceAssumption DEF IInv, TypeOK, Tick
<1>2. 0..clock \subseteq 0..clock'
  BY <1>1
<1>3. heartbeats' = heartbeats /\ last_seen' = last_seen /\ call' = call
  BY DEF Tick, tables
<1>4. heartbeats' \in [DOMAIN heartbeats' -> 0..clock'] /\ last_seen' \in [DOMAIN last_seen' -> 0..clock']
  BY <1>2, <1>3 DEF IInv, TypeOK
<1>5. call' \in [Thread -> SUBSET (Session \X (0..clock'))]
  BY <1>2, <1>3 DEF IInv, TypeOK
<1>6. TypeOK'
  BY <1>1, <1>4, <1>5 DEF IInv, TypeOK, Tick, tables
<1> QED
  BY <1>6, TablesAloneIInv DEF Tick

LEMMA OtherStepsIInv ==
  ASSUME IInv, NEW t \in Thread,
         (\E k \in Session : BeginHeartbeat(t, k)) \/ PublishOffline(t) \/ PublishOnline(t)
  PROVE  IInv'
<1>1. clock \in 0..clock
  BY PresenceAssumption DEF IInv, TypeOK
<1>2. CASE \E k \in Session : BeginHeartbeat(t, k)
  <2>1. PICK k \in Session : BeginHeartbeat(t, k)
    BY <1>2
  <2>2. call' \in [Thread -> SUBSET (Session \X (0..clock))]
    BY <1>1, <2>1 DEF BeginHeartbeat, IInv, TypeOK
  <2>3. TypeOK'
    BY <2>1, <2>2 DEF BeginHeartbeat, IInv, TypeOK, tables
  <2> QED
    BY <2>1, <2>3, TablesAloneIInv DEF BeginHeartbeat
<1>3. CASE PublishOffline(t)
  <2>1. expired' \in [Thread -> SUBSET User]
    BY <1>3 DEF PublishOffline, IInv, TypeOK
  <2>2. announced' \in [User -> Int]
    BY <1>3 DEF PublishOffline, IInv, TypeOK
  <2>3. TypeOK'
    BY <1>3, <2>1, <2>2 DEF PublishOffline, IInv, TypeOK, tables
  <2> QED
    BY <1>3, <2>3, TablesAloneIInv DEF PublishOffline
<1>4. CASE PublishOnline(t)
  <2>1. fresh' \in [Thread -> SUBSET User]
    BY <1>4 DEF PublishOnline, IInv, TypeOK
  <2>2. announced' \in [User -> Int]
    BY <1>4 DEF PublishOnline, IInv, TypeOK
  <2>3. TypeOK'
    BY <1>4, <2>1, <2>2 DEF PublishOnline, IInv, TypeOK, tables
  <2> QED
    BY <1>4, <2>3, TablesAloneIInv DEF PublishOnline
<1> QED
  BY <1>2, <1>3, <1>4

LEMMA NextIInv == IInv /\ [Next]_vars => IInv'
<1> SUFFICES ASSUME IInv, [Next]_vars
             PROVE  IInv'
  OBVIOUS
<1>1. ASSUME NEW t \in Thread, Expire(t)
      PROVE  IInv'
  BY <1>1, ExpireIInv
<1>2. ASSUME NEW t \in Thread, Beat(t)
      PROVE  IInv'
  BY <1>2, BeatIInv
<1>3. ASSUME NEW t \in Thread,
             (\E k \in Session : BeginHeartbeat(t, k)) \/ PublishOffline(t) \/ PublishOnline(t)
      PROVE  IInv'
  BY <1>3, OtherStepsIInv
<1>4. CASE Tick
  BY <1>4, TickIInv
<1>5. CASE UNCHANGED vars
  BY <1>5 DEF IInv, TypeOK, OnlineHasHeartbeat, LastSeenIsBacked, vars, tables
<1> QED
  BY <1>1, <1>2, <1>3, <1>4, <1>5 DEF Next, Finish, Thread

-----------------------------------------------------------------------------
(* The inductive invariant holds.                                          *)
THEOREM Invariance == Spec => []IInv
<1>1. IInv /\ [Next]_vars => IInv'
  BY NextIInv
<1> QED
  BY InitIInv, <1>1, PTL DEF Spec

(* Every variable keeps its type.                                          *)
THEOREM TypeCorrect == Spec => []TypeOK
<1>1. IInv => TypeOK
  BY DEF IInv
<1> QED
  BY Invariance, <1>1, PTL

(* Online are exactly the users with a heartbeat on record, for every      *)
(* order in which threads with old and new clock readings get the lock.    *)
THEOREM OnlineUsersHaveHeartbeats == Spec => []OnlineHasHeartbeat
<1>1. IInv => OnlineHasHeartbeat
  BY DEF IInv
<1> QED
  BY Invariance, <1>1, PTL

(* Nobody is taken offline less than a timeout after their last_seen.      *)
THEOREM OfflineUsersWereSilent == Spec => OfflineMeansSilence
<1>1. IInv /\ [Next]_vars => (\A u \in online \ online' : last_seen[u] + Timeout <= clock)
  <2> SUFFICES ASSUME IInv, [Next]_vars, NEW u \in online \ online'
               PROVE  last_seen[u] + Timeout <= clock
    OBVIOUS
  <2>1. PICK now \in 0..clock : u \in Gone(now)
    <3>1. clock \in 0..clock
      BY PresenceAssumption DEF IInv, TypeOK
    <3>2. CASE \E t \in Thread : Expire(t)
      BY <3>1, <3>2 DEF Expire
    <3>3. CASE \E t \in Thread : Beat(t)
      BY <3>3 DEF Beat
    <3> QED
      BY <3>2, <3>3 DEF Next, Finish, Thread, BeginHeartbeat, PublishOffline, PublishOnline,
                        Tick, vars, tables
  <2> QED
    BY <2>1, ExpiryKeepsBacking
<1> QED
  BY Invariance, <1>1, PTL DEF Spec, OfflineMeansSilence

-----------------------------------------------------------------------------
(* What makes ChangesAnnouncedOnce inductive: a thread that waits for the  *)
(* lock has nothing left to publish, and has at most one ONLINE to publish *)
(* after it.                                                               *)
OneAtATime ==
  \A t \in Thread :
    /\ call[t] # {} => expired[t] = {} /\ fresh[t] = {}
    /\ \A u, v \in fresh[t] : u = v

AnnounceInv == IInv /\ OneAtATime /\ ChangesAnnouncedOnce

One(b) == IF b THEN 1 ELSE 0

(* What one thread's change of its events does to the count of a user's.   *)
LEMMA PendingChange ==
  ASSUME NEW f \in [Thread -> SUBSET User], NEW t \in Thread, NEW S \in SUBSET User,
         NEW u \in User
  PROVE  /\ Pending(u, f) \in Nat
         /\ Pending(u, [f EXCEPT ![t] = S])
              = Pending(u, f) + One(u \in S) - One(u \in f[t])
<1> DEFINE A == {x \in Thread : u \in f[x]}
           B == {x \in Thread : u \in [f EXCEPT ![t] = S][x]}
<1>1. IsFiniteSet(A) /\ IsFiniteSet(Thread)
  BY PresenceAssumption, FS_Subset
<1>2. Cardinality(A) \in Nat
  BY <1>1, FS_CardinalityType
<1>3. CASE u \in S <=> u \in f[t]
  <2>1. A = B
    BY <1>3
  <2>2. One(u \in S) = One(u \in f[t]) /\ One(u \in S) \in Int
    BY <1>3 DEF One
  <2>3. Pending(u, f) = Cardinality(A) /\ Pending(u, [f EXCEPT ![t] = S]) = Cardinality(A)
    BY <2>1 DEF Pending
  <2> HIDE DEF A, B
  <2> QED BY <1>2, <2>2, <2>3
<1>4. CASE u \in S /\ u \notin f[t]
  <2>1. B = A \cup {t} /\ t \notin A
    BY <1>4
  <2>2. Cardinality(B) = Cardinality(A) + 1
    <3> HIDE DEF A, B
    <3>1. Cardinality(A \cup {t}) = IF t \in A THEN Cardinality(A) ELSE Cardinality(A) + 1
      BY <1>1, FS_AddElement
    <3> QED BY <2>1, <3>1
  <2> QED BY <1>2, <1>4, <2>2 DEF Pending, One
<1>5. CASE u \notin S /\ u \in f[t]
  <2>1. B = A \ {t} /\ t \in A
    BY <1>5
  <2>2. Cardinality(B) = Cardinality(A) - 1
    <3> HIDE DEF A, B
    <3>1. Cardinality(A \ {t}) = IF t \in A THEN Cardinality(A) - 1 ELSE Cardinality(A)
      BY <1>1, FS_RemoveElement
    <3> QED BY <2>1, <3>1
  <2> QED BY <1>2, <1>5, <2>2 DEF Pending, One
<1> QED BY <1>3, <1>4, <1>5

LEMMA InitAnnounceInv == Init => AnnounceInv
<1> SUFFICES ASSUME Init PROVE AnnounceInv
  OBVIOUS
<1>1. OneAtATime
  BY DEF Init, OneAtATime
<1>2. ASSUME NEW u \in User PROVE Pending(u, fresh) = 0 /\ Pending(u, expired) = 0
  <2>1. {t \in Thread : u \in fresh[t]} = {} /\ {t \in Thread : u \in expired[t]} = {}
    BY DEF Init
  <2> QED BY <2>1, FS_EmptySet DEF Pending
<1>3. ASSUME NEW u \in User
      PROVE  announced[u] + Pending(u, fresh) - Pending(u, expired) = IF u \in online THEN 1 ELSE 0
  <2>1. announced[u] = 0 /\ u \notin online
    BY DEF Init
  <2>2. announced[u] + Pending(u, fresh) - Pending(u, expired) = 0
    BY <1>2, <2>1
  <2> QED BY <2>1, <2>2
<1>4. ChangesAnnouncedOnce
  BY <1>3 DEF ChangesAnnouncedOnce
<1> QED BY <1>1, <1>4, InitIInv DEF AnnounceInv

LEMMA OneAtATimeStep ==
  ASSUME IInv, OneAtATime, [Next]_vars
  PROVE  OneAtATime'
<1> USE DEF OneAtATime
<1>1. /\ call \in [Thread -> SUBSET (Session \X (0..clock))]
      /\ expired \in [Thread -> SUBSET User] /\ fresh \in [Thread -> SUBSET User]
  BY DEF IInv, TypeOK
<1>2. ASSUME NEW t \in Thread, Expire(t) PROVE OneAtATime'
  BY <1>1, <1>2 DEF Expire, Free
<1>3. ASSUME NEW t \in Thread, NEW k \in Session, BeginHeartbeat(t, k) PROVE OneAtATime'
  BY <1>1, <1>3 DEF BeginHeartbeat, Free
<1>4. ASSUME NEW t \in Thread, Beat(t) PROVE OneAtATime'
  <2>1. PICK u, S : /\ expired' = [expired EXCEPT ![t] = S]
                    /\ fresh' = [fresh EXCEPT ![t] = {u} \ (online \ S)]
                    /\ call' = [call EXCEPT ![t] = {}]
    BY <1>4 DEF Beat
  <2> QED BY <1>1, <2>1
<1>5. ASSUME NEW t \in Thread, PublishOffline(t) PROVE OneAtATime'
  BY <1>1, <1>5 DEF PublishOffline
<1>6. ASSUME NEW t \in Thread, PublishOnline(t) PROVE OneAtATime'
  BY <1>1, <1>6 DEF PublishOnline
<1>7. CASE Tick \/ UNCHANGED vars
  BY <1>7 DEF Tick, vars
<1> QED BY <1>2, <1>3, <1>4, <1>5, <1>6, <1>7 DEF Next, Finish, Thread

(* A user's state and what is published or to be published for the user    *)
(* change together.                                                        *)
LEMMA AnnouncedStep ==
  ASSUME AnnounceInv, [Next]_vars, NEW u \in User
  PROVE  announced'[u] + Pending(u, fresh') - Pending(u, expired') = One(u \in online')
<1> USE DEF AnnounceInv
<1>1. /\ expired \in [Thread -> SUBSET User] /\ fresh \in [Thread -> SUBSET User]
      /\ announced \in [User -> Int] /\ announced[u] \in Int /\ online \subseteq User
  BY DEF IInv, TypeOK
<1>2. announced[u] + Pending(u, fresh) - Pending(u, expired) = One(u \in online)
  BY DEF ChangesAnnouncedOnce, One
<1> DEFINE Now == announced[u]' + Pending(u, fresh') - Pending(u, expired') = One(u \in online')
<1>3. ASSUME NEW t \in Thread, Expire(t) PROVE Now
  <2>1. /\ expired' = [expired EXCEPT ![t] = Gone(clock)] /\ expired[t] = {}
        /\ online' = online \ Gone(clock) /\ Gone(clock) \subseteq online
        /\ fresh' = fresh /\ announced' = announced
    BY <1>3 DEF Expire, Free, Gone
  <2> DEFINE gone == Gone(clock)
  <2>2. /\ Pending(u, expired') = Pending(u, expired) + One(u \in gone) - One(u \in {})
        /\ Pending(u, expired) \in Nat /\ Pending(u, fresh) \in Nat
    <3>1. gone \in SUBSET User /\ expired' = [expired EXCEPT ![t] = gone]
      BY <1>1, <2>1
    <3>2. expired[t] = {} /\ fresh' = fresh
      BY <2>1
    <3> HIDE DEF gone
    <3>3. /\ Pending(u, [expired EXCEPT ![t] = gone])
               = Pending(u, expired) + One(u \in gone) - One(u \in expired[t])
          /\ Pending(u, expired) \in Nat
      BY <1>1, <3>1, PendingChange
    <3>4. Pending(u, fresh) \in Nat
      BY <1>1, PendingChange
    <3> QED BY <3>1, <3>2, <3>3, <3>4
  <2>3. One(u \in online') = One(u \in online) - One(u \in gone) /\ One(u \in {}) = 0
    BY <2>1 DEF One
  <2>4. One(u \in gone) \in Int /\ One(u \in online) \in Int
    BY DEF One
  <2> HIDE DEF gone
  <2> QED BY <1>1, <1>2, <2>1, <2>2, <2>3, <2>4
<1>4. ASSUME NEW t \in Thread, Beat(t) PROVE Now
  <2>1. PICK k \in Session, now \in 0..clock :
          /\ call[t] = {<<k, now>>}
          /\ online' = (online \ Gone(now)) \cup {UserOf[k]}
          /\ expired' = [expired EXCEPT ![t] = Gone(now)]
          /\ fresh' = [fresh EXCEPT ![t] = {UserOf[k]} \ (online \ Gone(now))]
          /\ announced' = announced
    BY <1>4 DEF Beat
  <2> DEFINE gone == Gone(now)
             new == {UserOf[k]} \ (online \ gone)
  <2>2. gone \subseteq online /\ UserOf[k] \in User
    BY PresenceAssumption DEF Gone
  <2>3. expired[t] = {} /\ fresh[t] = {}
    BY <2>1 DEF OneAtATime
  <2>4. /\ Pending(u, expired') = Pending(u, expired) + One(u \in gone) - One(u \in {})
        /\ Pending(u, fresh') = Pending(u, fresh) + One(u \in new) - One(u \in {})
        /\ Pending(u, expired) \in Nat /\ Pending(u, fresh) \in Nat
    <3>1. gone \in SUBSET User /\ new \in SUBSET User
      BY <1>1, <2>2
    <3> HIDE DEF gone, new
    <3>2. expired' = [expired EXCEPT ![t] = gone] /\ fresh' = [fresh EXCEPT ![t] = new]
      BY <2>1 DEF gone, new
    <3>3. /\ Pending(u, [expired EXCEPT ![t] = gone])
               = Pending(u, expired) + One(u \in gone) - One(u \in expired[t])
          /\ Pending(u, expired) \in Nat
      BY <1>1, <3>1, PendingChange
    <3>4. /\ Pending(u, [fresh EXCEPT ![t] = new])
               = Pending(u, fresh) + One(u \in new) - One(u \in fresh[t])
          /\ Pending(u, fresh) \in Nat
      BY <1>1, <3>1, PendingChange
    <3> QED BY <2>3, <3>2, <3>3, <3>4
  <2>5. One(u \in online') = One(u \in online) + One(u \in new) - One(u \in gone)
    BY <2>1, <2>2 DEF One
  <2>6. /\ One(u \in {}) = 0 /\ One(u \in gone) \in Int /\ One(u \in new) \in Int
        /\ One(u \in online) \in Int /\ announced'[u] = announced[u]
    BY <2>1 DEF One
  <2> HIDE DEF gone, new
  <2> QED BY <1>1, <1>2, <2>4, <2>5, <2>6
<1>5. ASSUME NEW t \in Thread, PublishOffline(t) PROVE Now
  <2>1. PICK v \in expired[t] :
          /\ expired' = [expired EXCEPT ![t] = expired[t] \ {v}]
          /\ announced' = [announced EXCEPT ![v] = @ - 1]
          /\ fresh' = fresh /\ online' = online
    BY <1>5 DEF PublishOffline, tables
  <2>2. /\ Pending(u, expired')
              = Pending(u, expired) + One(u \in expired[t] \ {v}) - One(u \in expired[t])
        /\ Pending(u, expired) \in Nat /\ Pending(u, fresh) \in Nat
    BY <1>1, <2>1, PendingChange
  <2>3. announced'[u] = announced[u] - One(u = v)
    BY <1>1, <2>1 DEF One
  <2>4. One(u \in expired[t] \ {v}) - One(u \in expired[t]) = 0 - One(u = v)
    BY <2>1 DEF One
  <2>5. /\ One(u \in expired[t] \ {v}) \in Int /\ One(u \in expired[t]) \in Int
        /\ One(u = v) \in Int /\ One(u \in online) \in Int
    BY DEF One
  <2> QED BY <1>1, <1>2, <2>1, <2>2, <2>3, <2>4, <2>5
<1>6. ASSUME NEW t \in Thread, PublishOnline(t) PROVE Now
  <2>1. PICK v \in fresh[t] :
          /\ fresh' = [fresh EXCEPT ![t] = {}]
          /\ announced' = [announced EXCEPT ![v] = @ + 1]
          /\ expired' = expired /\ online' = online
    BY <1>6 DEF PublishOnline, tables
  <2>2. /\ Pending(u, fresh') = Pending(u, fresh) + One(u \in {}) - One(u \in fresh[t])
        /\ Pending(u, expired) \in Nat /\ Pending(u, fresh) \in Nat
    BY <1>1, <2>1, PendingChange
  <2>3. announced'[u] = announced[u] + One(u = v)
    BY <1>1, <2>1 DEF One
  <2>4. u \in fresh[t] <=> u = v
    BY <2>1 DEF OneAtATime
  <2>5. /\ One(u \in {}) = 0 /\ One(u \in fresh[t]) = One(u = v)
        /\ One(u = v) \in Int /\ One(u \in online) \in Int
    BY <2>4 DEF One
  <2> QED BY <1>1, <1>2, <2>1, <2>2, <2>3, <2>5
<1>7. CASE UNCHANGED <<announced, fresh, expired, online>>
  BY <1>2, <1>7
<1>8. ASSUME Tick \/ UNCHANGED vars \/ \E t \in Thread, k \in Session : BeginHeartbeat(t, k)
      PROVE  UNCHANGED <<announced, fresh, expired, online>>
  BY <1>8 DEF Tick, vars, tables, BeginHeartbeat
<1> QED BY <1>3, <1>4, <1>5, <1>6, <1>7, <1>8 DEF Next, Finish, Thread

(* Every change of a user's presence is announced by one event: what is    *)
(* published and what threads still hold add up to the user's state.       *)
THEOREM PresenceIsAnnouncedOnce == Spec => []ChangesAnnouncedOnce
<1>1. ASSUME AnnounceInv, [Next]_vars PROVE AnnounceInv'
  <2>1. IInv' /\ OneAtATime'
    BY <1>1, NextIInv, OneAtATimeStep DEF AnnounceInv
  <2>2. ChangesAnnouncedOnce'
    BY <1>1, AnnouncedStep DEF ChangesAnnouncedOnce, One
  <2> QED BY <2>1, <2>2 DEF AnnounceInv
<1>2. AnnounceInv => ChangesAnnouncedOnce
  BY DEF AnnounceInv
<1> QED BY <1>1, <1>2, InitAnnounceInv, PTL DEF Spec

=============================================================================
