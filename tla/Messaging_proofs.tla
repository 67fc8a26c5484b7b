-------------------------- MODULE Messaging_proofs --------------------------
(***************************************************************************)
(* The safety properties of Messaging, for every set of calls, workers and *)
(* streams and every queue capacity, and what becomes of a message for     *)
(* each stream that subscribed before it was published.                    *)
(***************************************************************************)
EXTENDS Messaging, SequenceTheorems, TLAPS

(* A worker that has committed its message and not yet answered.           *)
Carries(w) == step[w] \in {"publish", "publishing"}

(* s is one of the streams w will still put its message for.               *)
WillPut(w, s) == step[w] = "publish" \/ (step[w] = "publishing" /\ s \in todo[w])

Elements(q) == {q[i] : i \in 1..Len(q)}
NoRepeat(q) == \A i, j \in 1..Len(q) : q[i] = q[j] => i = j

Waiting(s) == Elements(queue[s])

(* Where a message can be that has reached a stream.                       *)
Seen(s, m) == m \in Waiting(s) \/ held[s] = m \/ got[s][m] > 0

Durable(m) == m.chan \in exists => m \in messages

(* The worker's place in SendMessage and its place in publish agree.       *)
PublishInv ==
  \A w \in Worker :
    /\ step[w] = "idle" <=> call[w] = NoCall
    /\ phase[w] = "idle" <=> step[w] # "publishing"
    /\ step[w] = "publishing" => publishing[w] = call[w]
    /\ phase[w] \in {"evict", "again"} => target[w] \subseteq todo[w]

KeyInv == \A m, n \in messages : m.user = n.user /\ m.key = n.key => m = n

(* INSERT OR IGNORE lets one worker only carry a message.                  *)
CarryInv ==
  /\ \A w \in Worker : Carries(w) => Durable(call[w])
  /\ \A v, w \in Worker : Carries(v) /\ Carries(w) /\ call[v] = call[w] => v = w

(* What is still to be put for a stream has not reached it before.         *)
NotYetInv ==
  \A w \in Worker, s \in Stream : WillPut(w, s) => ~Seen(s, call[w])

(* A message that has reached a stream is in one place and there once.     *)
PlaceInv ==
  \A s \in Stream :
    /\ NoRepeat(queue[s])
    /\ \A m \in Waiting(s) : held[s] # m /\ got[s][m] = 0
    /\ held[s] \in Call => got[s][held[s]] = 0
    /\ \A m \in Call : got[s][m] <= 1

SeenInv == \A s \in Stream, m \in Call : Seen(s, m) => Durable(m)

ToldInv == \A m \in told : Durable(m)

(* After its late message a stream is before the half of the recheck that  *)
(* it fails.                                                               *)
LateInv ==
  \A s \in Stream :
    late[s] = 0 \/ ( /\ late[s] = 1
                     /\ \/ s \notin live /\ at[s] \in {"loop", "check", "closed"}
                        \/ ~MayWatch(s) /\ at[s] \in {"loop", "check", "check member", "closed"})

IInv ==
  /\ TypeOK
  /\ PublishInv
  /\ KeyInv
  /\ CarryInv
  /\ NotYetInv
  /\ PlaceInv
  /\ SeenInv
  /\ ToldInv
  /\ LateInv

-----------------------------------------------------------------------------
(* Taking the first element of a queue.                                    *)
LEMMA TailFacts ==
  ASSUME NEW S, NEW q \in Seq(S), q # <<>>
  PROVE  /\ Head(q) \in S /\ Tail(q) \in Seq(S)
         /\ Head(q) \in Elements(q)
         /\ Elements(Tail(q)) \subseteq Elements(q)
         /\ NoRepeat(q) => NoRepeat(Tail(q)) /\ Head(q) \notin Elements(Tail(q))
<1>1. Len(q) \in Nat \ {0}
  BY EmptySeq
<1>2. Head(q) = q[1]
  OBVIOUS
<1>3. /\ Head(q) \in S /\ Tail(q) \in Seq(S)
      /\ Len(Tail(q)) = Len(q) - 1
      /\ \A i \in 1..Len(Tail(q)) : Tail(q)[i] = q[i + 1]
  BY HeadTailProperties
<1>4. Head(q) \in Elements(q)
  BY <1>1, <1>2 DEF Elements
<1>5. Elements(Tail(q)) \subseteq Elements(q)
  BY <1>1, <1>3 DEF Elements
<1>6. ASSUME NoRepeat(q) PROVE NoRepeat(Tail(q))
  BY <1>1, <1>3, <1>6 DEF NoRepeat
<1>7. ASSUME NoRepeat(q) PROVE Head(q) \notin Elements(Tail(q))
  <2> SUFFICES ASSUME NEW i \in 1..Len(Tail(q)), Tail(q)[i] = q[1] PROVE FALSE
    BY <1>2 DEF Elements
  <2>1. i + 1 \in 1..Len(q) /\ 1 \in 1..Len(q) /\ i + 1 # 1
    BY <1>1, <1>3
  <2> QED BY <2>1, <1>3, <1>7 DEF NoRepeat
<1> QED BY <1>3, <1>4, <1>5, <1>6, <1>7

(* Adding a last element to a queue.                                       *)
LEMMA AppendFacts ==
  ASSUME NEW S, NEW q \in Seq(S), NEW m \in S
  PROVE  /\ Append(q, m) \in Seq(S)
         /\ Elements(Append(q, m)) = Elements(q) \cup {m}
         /\ NoRepeat(q) /\ m \notin Elements(q) => NoRepeat(Append(q, m))
<1>1. Len(q) \in Nat
  BY LenProperties
<1>2. /\ Append(q, m) \in Seq(S) /\ Len(Append(q, m)) = Len(q) + 1
      /\ Append(q, m)[Len(q) + 1] = m
      /\ \A i \in 1..Len(q) : Append(q, m)[i] = q[i]
  OBVIOUS
<1>3. 1..(Len(q) + 1) = 1..Len(q) \cup {Len(q) + 1}
  BY <1>1
<1>4. Elements(Append(q, m)) = Elements(q) \cup {m}
  BY <1>2, <1>3 DEF Elements
<1>5. ASSUME NoRepeat(q), m \notin Elements(q) PROVE NoRepeat(Append(q, m))
  <2> SUFFICES ASSUME NEW i \in 1..(Len(q) + 1), NEW j \in 1..(Len(q) + 1),
                      Append(q, m)[i] = Append(q, m)[j]
               PROVE  i = j
    BY <1>2 DEF NoRepeat
  <2>1. CASE i \in 1..Len(q) /\ j \in 1..Len(q)
    BY <2>1, <1>2, <1>5 DEF NoRepeat
  <2>2. CASE i \in 1..Len(q) /\ j = Len(q) + 1
    BY <2>2, <1>2, <1>5 DEF Elements
  <2>3. CASE i = Len(q) + 1 /\ j \in 1..Len(q)
    BY <2>3, <1>2, <1>5 DEF Elements
  <2> QED BY <1>3, <2>1, <2>2, <2>3
<1> QED BY <1>2, <1>4, <1>5

(* The queue of a stream that nothing was put for.                         *)
LEMMA EmptyFacts == Elements(<<>>) = {} /\ NoRepeat(<<>>)
  BY DEF Elements, NoRepeat

-----------------------------------------------------------------------------
(* The steps of publish on the queue of one stream.                        *)
LEMMA FanOutTypes ==
  ASSUME TypeOK, PublishInv, NEW w \in Worker, FanOut(w)
  PROVE  TypeOK' /\ PublishInv'
<1> PICK s \in Stream :
      \/ Broker!Put(w, s) \/ Broker!FindFull(w, s)
      \/ Broker!Evict(w, s) \/ Broker!EvictEmpty(w, s)
      \/ Broker!PutAgain(w, s) \/ Broker!PutAgainFull(w, s)
  BY DEF FanOut, Broker!Fill
<1>1. UNCHANGED <<tableVars, workerVars, streamVars, subscribers, publishing>>
  BY DEF FanOut, Broker!Put, Broker!FindFull, Broker!Evict, Broker!EvictEmpty,
         Broker!PutAgain, Broker!PutAgainFull, Broker!DropNewest
<1>2. /\ queue[s] \in Seq(Call) /\ queue \in [Stream -> Seq(Call)]
      /\ phase \in [Worker -> {"idle", "fill", "evict", "again"}]
      /\ todo \in [Worker -> SUBSET Stream] /\ target \in [Worker -> SUBSET Stream]
      /\ lost \in [Stream -> SUBSET (Call \X {"oldest", "newest"})]
  BY DEF TypeOK, Broker!BrokerTypeOK
<1>3. phase[w] # "idle" /\ step[w] = "publishing" /\ publishing[w] \in Call
  BY <1>2 DEF PublishInv, TypeOK, Broker!BrokerTypeOK,
     Broker!Put, Broker!FindFull, Broker!Evict, Broker!EvictEmpty,
     Broker!PutAgain, Broker!PutAgainFull
<1>4. queue' \in [Stream -> Seq(Call)]
  <2>1. Append(queue[s], publishing[w]) \in Seq(Call)
    BY <1>2, <1>3, AppendFacts
  <2>2. queue[s] # <<>> => Tail(queue[s]) \in Seq(Call)
    BY <1>2, TailFacts
  <2> QED
    BY <1>2, <2>1, <2>2 DEF Broker!Put, Broker!FindFull, Broker!Evict, Broker!EvictEmpty,
       Broker!PutAgain, Broker!PutAgainFull, Broker!DropNewest
<1>5. lost' \in [Stream -> SUBSET (Call \X {"oldest", "newest"})]
  <2>1. queue[s] # <<>> => Head(queue[s]) \in Call
    BY <1>2, TailFacts
  <2> QED
    BY <1>2, <1>3, <2>1 DEF Broker!Put, Broker!FindFull, Broker!Evict, Broker!EvictEmpty,
       Broker!PutAgain, Broker!PutAgainFull, Broker!DropNewest
<1>6. /\ phase' \in [Worker -> {"idle", "fill", "evict", "again"}]
      /\ todo' \in [Worker -> SUBSET Stream] /\ target' \in [Worker -> SUBSET Stream]
      /\ phase'[w] # "idle"
      /\ phase'[w] \in {"evict", "again"} => target'[w] \subseteq todo'[w]
      /\ \A v \in Worker \ {w} :
           phase'[v] = phase[v] /\ target'[v] = target[v] /\ todo'[v] = todo[v]
  <2>1. CASE Broker!Put(w, s)
    BY <2>1, <1>2 DEF Broker!Put
  <2>2. CASE Broker!FindFull(w, s)
    BY <2>2, <1>2 DEF Broker!FindFull
  <2>3. CASE Broker!Evict(w, s)
    BY <2>3, <1>2 DEF Broker!Evict, PublishInv
  <2>4. CASE Broker!EvictEmpty(w, s)
    BY <2>4, <1>2 DEF Broker!EvictEmpty, Broker!DropNewest
  <2>5. CASE Broker!PutAgain(w, s)
    BY <2>5, <1>2 DEF Broker!PutAgain
  <2>6. CASE Broker!PutAgainFull(w, s)
    BY <2>6, <1>2 DEF Broker!PutAgainFull, Broker!DropNewest
  <2> QED BY <2>1, <2>2, <2>3, <2>4, <2>5, <2>6
<1>7. TypeOK'
  BY <1>1, <1>4, <1>5, <1>6
     DEF TypeOK, Broker!BrokerTypeOK, tableVars, workerVars, streamVars
<1>8. PublishInv'
  BY <1>1, <1>3, <1>6 DEF PublishInv, workerVars
<1> QED BY <1>7, <1>8

(* An answer tells a sender of the call's own message.                     *)
LEMMA ToldStep ==
  ASSUME TypeOK, PublishInv, NEW w \in Worker, AnswerWithoutStoring(w) \/ Answer(w)
  PROVE  /\ call[w] \in Call
         /\ told' = told \/ (told' = told \cup {call[w]} /\ (call[w] \in messages \/ Carries(w)))
<1>1. step[w] \in {"authenticated", "publishing"}
  BY DEF AnswerWithoutStoring, Answer
<1>2. call[w] \in Call
  BY <1>1 DEF TypeOK, PublishInv
<1>3. CASE AnswerWithoutStoring(w)
  BY <1>2, <1>3 DEF AnswerWithoutStoring, AnswerDuplicate, AnswerConflict, Refuse, TellSender, Stored
<1>4. CASE Answer(w)
  BY <1>2, <1>4 DEF Answer, TellSender, Carries
<1> QED BY <1>2, <1>3, <1>4

(* The other steps of a worker.                                            *)
LEMMA WorkerTypes ==
  ASSUME TypeOK, PublishInv, NEW w \in Worker,
         (\E m \in Call : Receive(w, m)) \/ Store(w) \/ AnswerWithoutStoring(w)
           \/ Publish(w) \/ Answer(w)
  PROVE  TypeOK' /\ PublishInv'
<1> USE MessagingAssumption DEF brokerVars, tableVars, streamVars
<1>1. ASSUME NEW m \in Call, Receive(w, m) PROVE TypeOK' /\ PublishInv'
  <2>1. TypeOK'
    BY <1>1 DEF Receive, TypeOK, Broker!BrokerTypeOK
  <2>2. PublishInv'
    BY <1>1 DEF Receive, PublishInv, TypeOK
  <2> QED BY <2>1, <2>2
<1>2. CASE Store(w)
  <2>1. call[w] \in Call
    BY <1>2 DEF Store, PublishInv, TypeOK
  <2>2. TypeOK'
    BY <1>2, <2>1 DEF Store, TypeOK, Broker!BrokerTypeOK
  <2>3. PublishInv'
    BY <1>2 DEF Store, PublishInv, TypeOK
  <2> QED BY <2>2, <2>3
<1>3. CASE AnswerWithoutStoring(w)
  <2>1. TypeOK'
    <3>1. told' \subseteq Call
      BY <1>3, ToldStep DEF TypeOK
    <3> QED BY <1>3, <3>1 DEF AnswerWithoutStoring, Done, TypeOK, Broker!BrokerTypeOK
  <2>2. PublishInv'
    BY <1>3 DEF AnswerWithoutStoring, Done, PublishInv, TypeOK
  <2> QED BY <2>1, <2>2
<1>4. CASE Publish(w)
  <2>1. TypeOK'
    BY <1>4 DEF Publish, Broker!BeginPublish, TypeOK, Broker!BrokerTypeOK
  <2>2. PublishInv'
    BY <1>4 DEF Publish, Broker!BeginPublish, PublishInv, TypeOK, Broker!BrokerTypeOK
  <2> QED BY <2>1, <2>2
<1>5. CASE Answer(w)
  <2>1. TypeOK'
    <3>1. told' \subseteq Call
      BY <1>5, ToldStep DEF TypeOK
    <3> QED BY <1>5, <3>1 DEF Answer, Done, Broker!EndPublish, TypeOK, Broker!BrokerTypeOK
  <2>2. PublishInv'
    BY <1>5 DEF Answer, Done, Broker!EndPublish, PublishInv, TypeOK, Broker!BrokerTypeOK
  <2> QED BY <2>1, <2>2
<1> QED BY <1>1, <1>2, <1>3, <1>4, <1>5

(* The steps of a stream.                                                  *)
LEMMA StreamTypes ==
  ASSUME TypeOK, PublishInv, NEW s \in Stream, Serve(s) \/ Disconnect(s)
  PROVE  TypeOK' /\ PublishInv'
<1> USE DEF tableVars, workerVars, GoTo
<1>1. UNCHANGED <<tableVars, workerVars, publishing, phase, todo, target, lost>>
  BY DEF Serve, Disconnect, Authorize, Authenticate, CheckMember, Subscribe, Broker!Subscribe,
         Get, Broker!TakeEvent, GetNothing, Recheck, Emit, Close, Broker!Unsubscribe,
         brokerVars
<1>2. PublishInv'
  BY <1>1 DEF PublishInv
<1>3. subscribers' \subseteq Stream
  <2>1. subscribers' \subseteq subscribers \cup {s}
    BY DEF Serve, Disconnect, Authorize, Authenticate, CheckMember, Subscribe,
       Broker!Subscribe, Get, Broker!TakeEvent, GetNothing, Recheck, Emit, Close,
       Broker!Unsubscribe, brokerVars
  <2>2. subscribers \subseteq Stream
    BY DEF TypeOK, Broker!BrokerTypeOK
  <2> QED BY <2>1, <2>2
<1>4. CASE Get(s)
  <2>1. Head(queue[s]) \in Call /\ Tail(queue[s]) \in Seq(Call)
    BY <1>4, TailFacts DEF Get, Broker!TakeEvent, TypeOK, Broker!BrokerTypeOK
  <2>2. Broker!BrokerTypeOK'
    BY <1>4, <2>1 DEF Get, Broker!TakeEvent, TypeOK, Broker!BrokerTypeOK
  <2>3. TypeOK'
    BY <1>1, <1>4, <2>1, <2>2 DEF Get, TypeOK
  <2> QED BY <1>2, <2>3
<1>5. CASE Emit(s)
  <2>1. UNCHANGED brokerVars
    BY <1>5 DEF Emit
  <2>2. got' \in [Stream -> [Call -> Nat]]
    <3>1. CASE held[s] # NoCall /\ held[s].chan \in Watched[s]
      <4>1. held[s] \in Call
        BY <3>1 DEF TypeOK
      <4>2. got \in [Stream -> [Call -> Nat]] /\ got[s] \in [Call -> Nat]
        BY DEF TypeOK
      <4>3. got[s][held[s]] + 1 \in Nat
        BY <4>1, <4>2
      <4>4. [got[s] EXCEPT ![held[s]] = @ + 1] \in [Call -> Nat]
        BY <4>2, <4>3
      <4>5. got' = [got EXCEPT ![s] = [got[s] EXCEPT ![held[s]] = @ + 1]]
        BY <1>5, <3>1 DEF Emit
      <4> QED BY <4>2, <4>4, <4>5
    <3>2. CASE ~(held[s] # NoCall /\ held[s].chan \in Watched[s])
      BY <1>5, <3>2 DEF Emit, TypeOK
    <3> QED BY <3>1, <3>2
  <2>3. late' \in [Stream -> Nat]
    <3>1. late \in [Stream -> Nat]
      BY DEF TypeOK
    <3>2. late[s] \in Nat /\ late[s] + 1 \in Nat
      BY <3>1
    <3>3. late' = late \/ \E n \in Nat : late' = [late EXCEPT ![s] = n]
      BY <1>5, <3>2 DEF Emit
    <3> QED BY <3>1, <3>3
  <2>4. TypeOK'
    BY <1>1, <1>5, <2>1, <2>2, <2>3 DEF Emit, TypeOK, Broker!BrokerTypeOK, brokerVars
  <2> QED BY <1>2, <2>4
<1>6. CASE Subscribe(s)
  BY <1>1, <1>2, <1>3, <1>6 DEF Subscribe, Broker!Subscribe, TypeOK, Broker!BrokerTypeOK
<1>7. CASE Close(s)
  BY <1>1, <1>2, <1>3, <1>7 DEF Close, Broker!Unsubscribe, TypeOK, Broker!BrokerTypeOK
<1>8. CASE Authorize(s) \/ Recheck(s)
  <2>1. PICK place \in {"new member", "authorized", "check member", "emit"} :
          GoTo(s, place) /\ UNCHANGED <<brokerVars, active, held, got, late>>
    BY <1>8 DEF Authorize, Recheck, Authenticate, CheckMember
  <2>2. TypeOK'
    BY <1>1, <2>1 DEF TypeOK, Broker!BrokerTypeOK, brokerVars
  <2> QED BY <1>2, <2>2
<1>9. CASE GetNothing(s)
  BY <1>1, <1>2, <1>9 DEF GetNothing, TypeOK, Broker!BrokerTypeOK, brokerVars
<1>10. CASE Disconnect(s)
  BY <1>1, <1>2, <1>10 DEF Disconnect, TypeOK, Broker!BrokerTypeOK, brokerVars
<1> QED BY <1>4, <1>5, <1>6, <1>7, <1>8, <1>9, <1>10 DEF Serve

LEMMA TypeStep ==
  ASSUME TypeOK, PublishInv, [Next]_vars
  PROVE  TypeOK' /\ PublishInv'
<1>1. CASE UNCHANGED vars
  BY <1>1 DEF vars, brokerVars, tableVars, workerVars, streamVars, TypeOK,
     Broker!BrokerTypeOK, PublishInv
<1>2. ASSUME NEW w \in Worker, (\E m \in Call : Receive(w, m)) \/ Work(w)
      PROVE  TypeOK' /\ PublishInv'
  BY <1>2, FanOutTypes, WorkerTypes DEF Work
<1>3. ASSUME NEW s \in Stream, Serve(s) \/ Disconnect(s) PROVE TypeOK' /\ PublishInv'
  BY <1>3, StreamTypes
<1>4. CASE Others
  <2> USE DEF brokerVars, workerVars, streamVars
  <2>1. UNCHANGED <<brokerVars, call, step, at, active, held, got>>
    BY <1>4 DEF Others, AddMember, RemoveMember, DeleteChannel, RevokeSession
  <2>2. /\ live' \subseteq live /\ exists' \subseteq exists /\ messages' \subseteq messages
        /\ told' \subseteq told
    BY <1>4 DEF Others, AddMember, RemoveMember, DeleteChannel, RevokeSession
  <2>3. member' \subseteq Chan \X User
    <3>1. ASSUME NEW c \in Chan, NEW u \in User, AddMember(c, u)
          PROVE  member' \subseteq Chan \X User
      <4>1. member' = member \cup {<<c, u>>} /\ member \subseteq Chan \X User
        BY <3>1 DEF AddMember, TypeOK
      <4> QED BY <4>1
    <3>2. CASE ~\E c \in Chan, u \in User : AddMember(c, u)
      <4>1. member' \subseteq member
        BY <1>4, <3>2 DEF Others, RemoveMember, DeleteChannel, RevokeSession
      <4> QED BY <4>1 DEF TypeOK
    <3> QED BY <3>1, <3>2
  <2>4. late' \in [Stream -> Nat]
    <3>1. ASSUME NEW c \in Chan, NEW u \in User, AddMember(c, u)
          PROVE  late' \in [Stream -> Nat]
      <4>1. late' = [s \in Stream |-> IF Viewer[s] = u THEN 0 ELSE late[s]]
        BY <3>1 DEF AddMember
      <4>2. late \in [Stream -> Nat]
        BY DEF TypeOK
      <4> QED BY <4>1, <4>2
    <3>2. CASE ~\E c \in Chan, u \in User : AddMember(c, u)
      <4>1. late' = late
        BY <1>4, <3>2 DEF Others, RemoveMember, DeleteChannel, RevokeSession
      <4> QED BY <4>1 DEF TypeOK
    <3> QED BY <3>1, <3>2
  <2>5. TypeOK'
    BY <2>1, <2>2, <2>3, <2>4 DEF TypeOK, Broker!BrokerTypeOK
  <2>6. PublishInv'
    BY <2>1 DEF PublishInv
  <2> QED BY <2>5, <2>6
<1> QED BY <1>1, <1>2, <1>3, <1>4 DEF Next

-----------------------------------------------------------------------------
(* What IInv says beyond the types, and how much of it a step that leaves  *)
(* the queues and the streams' messages alone can disturb.                 *)
Safe ==
  /\ KeyInv
  /\ CarryInv
  /\ NotYetInv
  /\ PlaceInv
  /\ SeenInv
  /\ ToldInv
  /\ LateInv

LEMMA PlaceFrame ==
  ASSUME PlaceInv, UNCHANGED <<queue, held, got>>
  PROVE  PlaceInv' /\ \A s \in Stream : \A m : Seen(s, m)' <=> Seen(s, m)
  BY DEF PlaceInv, Waiting, Seen

LEMMA LateFrame ==
  ASSUME LateInv, UNCHANGED <<live, exists, member, at, late>>
  PROVE  LateInv'
  BY DEF LateInv, MayWatch, MayUse

(* A put moves one message from "to be put" to the queue; an eviction only *)
(* takes one out.                                                          *)
LEMMA FanOutStep ==
  ASSUME IInv, NEW w \in Worker, FanOut(w)
  PROVE  Safe'
<1> USE DEF tableVars, workerVars, streamVars, Safe, IInv
<1> PICK s \in Stream :
      \/ Broker!Put(w, s) \/ Broker!FindFull(w, s)
      \/ Broker!Evict(w, s) \/ Broker!EvictEmpty(w, s)
      \/ Broker!PutAgain(w, s) \/ Broker!PutAgainFull(w, s)
  BY DEF FanOut, Broker!Fill
<1>1. UNCHANGED <<tableVars, workerVars, streamVars>>
  BY DEF FanOut
<1>2. /\ queue \in [Stream -> Seq(Call)] /\ todo \in [Worker -> SUBSET Stream]
      /\ queue[s] \in Seq(Call)
  BY DEF TypeOK, Broker!BrokerTypeOK
<1>3. phase[w] # "idle"
  BY DEF Broker!Put, Broker!FindFull, Broker!Evict, Broker!EvictEmpty,
     Broker!PutAgain, Broker!PutAgainFull
<1>4. step[w] = "publishing" /\ publishing[w] = call[w] /\ call[w] \in Call
  BY <1>3 DEF PublishInv, TypeOK
<1>5. \A v \in Worker, r \in Stream : WillPut(v, r)' => WillPut(v, r)
  BY <1>1, <1>2 DEF WillPut, Broker!Put, Broker!FindFull, Broker!Evict, Broker!EvictEmpty,
     Broker!PutAgain, Broker!PutAgainFull, Broker!DropNewest
<1>6. \A r \in Stream \ {s} : queue'[r] = queue[r]
  BY <1>2 DEF Broker!Put, Broker!FindFull, Broker!Evict, Broker!EvictEmpty,
     Broker!PutAgain, Broker!PutAgainFull, Broker!DropNewest
<1>7. \/ queue'[s] = queue[s]
      \/ queue[s] # <<>> /\ queue'[s] = Tail(queue[s])
      \/ WillPut(w, s) /\ ~WillPut(w, s)' /\ queue'[s] = Append(queue[s], call[w])
  <2>1. CASE Broker!Put(w, s)
    BY <2>1, <1>1, <1>2, <1>4 DEF Broker!Put, WillPut
  <2>2. CASE Broker!PutAgain(w, s)
    <3>1. s \in todo[w]
      BY <2>2 DEF Broker!PutAgain, PublishInv
    <3> QED BY <2>2, <3>1, <1>1, <1>2, <1>4 DEF Broker!PutAgain, WillPut
  <2>3. CASE Broker!Evict(w, s)
    BY <2>3, <1>2 DEF Broker!Evict
  <2>4. CASE Broker!FindFull(w, s) \/ Broker!EvictEmpty(w, s) \/ Broker!PutAgainFull(w, s)
    BY <2>4 DEF Broker!FindFull, Broker!EvictEmpty, Broker!PutAgainFull
  <2> QED BY <2>1, <2>2, <2>3, <2>4
<1>8. /\ \A r \in Stream \ {s} : Waiting(r)' = Waiting(r)
      /\ \A r \in Stream \ {s} : \A m : Seen(r, m)' <=> Seen(r, m)
  BY <1>1, <1>6 DEF Waiting, Seen
<1>9. KeyInv' /\ CarryInv' /\ LateInv' /\ ToldInv'
  <2>1. KeyInv' /\ ToldInv'
    BY <1>1 DEF KeyInv, ToldInv, Durable
  <2>2. CarryInv'
    BY <1>1 DEF CarryInv, Carries, Durable
  <2> QED BY <1>1, <2>1, <2>2, LateFrame
<1>10. CASE ~(WillPut(w, s) /\ ~WillPut(w, s)' /\ queue'[s] = Append(queue[s], call[w]))
  <2>1. Waiting(s)' \subseteq Waiting(s) /\ (NoRepeat(queue[s]) => NoRepeat(queue'[s]))
    BY <1>2, <1>7, <1>10, TailFacts DEF Waiting
  <2>2. \A m : Seen(s, m)' => Seen(s, m)
    BY <2>1, <1>1 DEF Seen
  <2>3. NotYetInv'
    BY <1>1, <1>5, <1>8, <2>2 DEF NotYetInv
  <2>4. PlaceInv'
    BY <1>1, <1>6, <1>8, <2>1 DEF PlaceInv
  <2>5. SeenInv'
    BY <1>1, <1>8, <2>2 DEF SeenInv, Durable
  <2> QED BY <1>9, <2>3, <2>4, <2>5
<1>11. CASE WillPut(w, s) /\ ~WillPut(w, s)' /\ queue'[s] = Append(queue[s], call[w])
  <2>1. ~Seen(s, call[w]) /\ call[w] # NoCall
    BY <1>4, <1>11, MessagingAssumption DEF NotYetInv
  <2>2. /\ Waiting(s)' = Waiting(s) \cup {call[w]}
        /\ NoRepeat(queue[s]) => NoRepeat(queue'[s])
    BY <1>2, <1>4, <1>11, <2>1, AppendFacts DEF Waiting, Seen
  <2>3. \A m : Seen(s, m)' <=> Seen(s, m) \/ m = call[w]
    BY <2>2, <1>1 DEF Seen
  <2>4. NotYetInv'
    <3> SUFFICES ASSUME NEW v \in Worker, NEW r \in Stream, WillPut(v, r)'
                 PROVE  ~Seen(r, call[v])'
      BY DEF NotYetInv
    <3>1. WillPut(v, r) /\ ~Seen(r, call[v]) /\ call'[v] = call[v]
      BY <1>1, <1>5 DEF NotYetInv
    <3>2. CASE r # s
      BY <3>1, <3>2, <1>8, <1>1
    <3>3. CASE r = s
      <4>1. v # w
        BY <3>3, <1>11
      <4>2. Carries(v) /\ Carries(w)
        BY <3>1, <1>4 DEF WillPut, Carries
      <4>3. call[v] # call[w]
        BY <4>1, <4>2 DEF CarryInv
      <4> QED BY <4>3, <3>1, <3>3, <2>3, <1>1
    <3> QED BY <3>2, <3>3
  <2>5. PlaceInv'
    <3> SUFFICES ASSUME NEW r \in Stream
                 PROVE  /\ NoRepeat(queue'[r])
                        /\ \A m \in Waiting(r)' : held'[r] # m /\ got'[r][m] = 0
                        /\ held'[r] \in Call => got'[r][held'[r]] = 0
                        /\ \A m \in Call : got'[r][m] <= 1
      BY DEF PlaceInv
    <3>1. CASE r # s
      BY <3>1, <1>1, <1>6, <1>8 DEF PlaceInv
    <3>2. CASE r = s
      <4>1. held[s] # call[w] /\ got[s][call[w]] = 0
        <5>1. got[s] \in [Call -> Nat]
          BY DEF TypeOK
        <5>2. got[s][call[w]] \in Nat
          BY <5>1, <1>4
        <5> QED BY <5>2, <2>1 DEF Seen
      <4> QED BY <3>2, <4>1, <1>1, <2>2 DEF PlaceInv
    <3> QED BY <3>1, <3>2
  <2>6. SeenInv'
    <3>1. Durable(call[w])
      BY <1>4 DEF CarryInv, Carries
    <3> QED BY <3>1, <1>1, <1>8, <2>3 DEF SeenInv, Durable
  <2> QED BY <1>9, <2>4, <2>5, <2>6
<1> QED BY <1>10, <1>11

(* Store is the step that makes a worker carry a message, and then the     *)
(* message is new: nobody carries it and it has reached no stream.         *)
LEMMA WorkerStep ==
  ASSUME IInv, NEW w \in Worker,
         (\E m \in Call : Receive(w, m)) \/ Store(w) \/ AnswerWithoutStoring(w)
           \/ Publish(w) \/ Answer(w)
  PROVE  Safe'
<1> USE DEF Safe, IInv, streamVars, tableVars
<1>1. UNCHANGED <<queue, streamVars, live, exists, member>>
  BY DEF Receive, Store, AnswerWithoutStoring, Done, Publish, Broker!BeginPublish, Answer,
     Broker!EndPublish, brokerVars
<1>2. PlaceInv' /\ (\A s \in Stream : \A m : Seen(s, m)' <=> Seen(s, m)) /\ LateInv'
  BY <1>1, PlaceFrame, LateFrame
<1>3. CASE Store(w)
  <2>1. /\ call[w] \in Call /\ call' = call /\ step' = [step EXCEPT ![w] = "publish"]
        /\ messages' = messages \cup {call[w]} /\ Created(call[w])
        /\ call[w].chan \in exists /\ todo' = todo
    BY <1>3 DEF Store, PublishInv, TypeOK, MayUse, brokerVars
  <2>2. call[w] \notin messages /\ ~Durable(call[w])
    BY <2>1 DEF Created, Stored, Durable
  <2>3. \A m : Durable(m) => Durable(m)'
    BY <1>1, <2>1 DEF Durable
  <2>4. /\ Durable(call[w])'
        /\ \A v \in Worker : Carries(v)' <=> Carries(v) \/ v = w
        /\ \A v \in Worker, s \in Stream : v # w => (WillPut(v, s)' <=> WillPut(v, s))
    BY <2>1 DEF Durable, Carries, WillPut, TypeOK
  <2>5. KeyInv'
    BY <2>1 DEF KeyInv, Created, Stored
  <2>6. CarryInv'
    <3>1. \A v \in Worker : Carries(v) => call[v] # call[w]
      BY <2>2 DEF CarryInv
    <3> QED BY <2>1, <2>3, <2>4, <3>1 DEF CarryInv
  <2>7. NotYetInv'
    <3>1. \A s \in Stream : ~Seen(s, call[w])
      BY <2>1, <2>2 DEF SeenInv
    <3> QED BY <1>2, <2>1, <2>4, <3>1 DEF NotYetInv
  <2>8. SeenInv' /\ ToldInv'
    BY <1>2, <1>3, <2>3 DEF SeenInv, ToldInv, Store
  <2> QED BY <1>2, <2>5, <2>6, <2>7, <2>8
<1>4. CASE ~Store(w)
  <2>1. messages' = messages
    BY <1>4 DEF Receive, AnswerWithoutStoring, Done, Publish, Answer
  <2> DEFINE NothingNew ==
        /\ \A v \in Worker : Carries(v)' => Carries(v) /\ call'[v] = call[v]
        /\ \A v \in Worker, s \in Stream : WillPut(v, s)' => WillPut(v, s) /\ call'[v] = call[v]
  <2>2. NothingNew
    <3>1. ASSUME NEW m \in Call, Receive(w, m) PROVE NothingNew
      BY <3>1 DEF Receive, Carries, WillPut, TypeOK, brokerVars
    <3>2. CASE AnswerWithoutStoring(w)
      BY <3>2 DEF AnswerWithoutStoring, Done, Carries, WillPut, TypeOK, brokerVars
    <3>3. CASE Publish(w)
      BY <3>3 DEF Publish, Broker!BeginPublish, Carries, WillPut, TypeOK, Broker!BrokerTypeOK
    <3>4. CASE Answer(w)
      BY <3>4 DEF Answer, Done, Broker!EndPublish, Carries, WillPut, TypeOK
    <3> QED BY <1>4, <3>1, <3>2, <3>3, <3>4
  <2>3. KeyInv' /\ \A m : Durable(m)' <=> Durable(m)
    BY <1>1, <2>1 DEF KeyInv, Durable
  <2>4. CarryInv'
    BY <2>2, <2>3 DEF CarryInv
  <2>5. NotYetInv'
    BY <1>2, <2>2 DEF NotYetInv
  <2>6. SeenInv'
    BY <1>2, <2>3 DEF SeenInv
  <2>7. ToldInv'
    <3>1. \A m \in told' : m \in told \/ Durable(m)
      <4>1. CASE AnswerWithoutStoring(w) \/ Answer(w)
        BY <4>1, ToldStep DEF CarryInv, Durable
      <4>2. CASE ~(AnswerWithoutStoring(w) \/ Answer(w))
        BY <1>4, <4>2 DEF Receive, Publish
      <4> QED BY <4>1, <4>2
    <3> QED BY <2>3, <3>1 DEF ToldInv
  <2> QED BY <1>2, <2>3, <2>4, <2>5, <2>6, <2>7
<1> QED BY <1>3, <1>4

(* A stream moves a message on from its queue, or drops it.                *)
LEMMA StreamPlaces ==
  ASSUME IInv, NEW s \in Stream, Serve(s) \/ Disconnect(s)
  PROVE  PlaceInv' /\ \A r \in Stream, m \in Call : Seen(r, m)' => Seen(r, m)
<1> USE DEF IInv, tableVars, workerVars, GoTo
<1>1. /\ queue \in [Stream -> Seq(Call)] /\ queue[s] \in Seq(Call)
      /\ held \in [Stream -> Call \cup {NoCall}]
      /\ got \in [Stream -> [Call -> Nat]] /\ got[s] \in [Call -> Nat]
  BY DEF TypeOK, Broker!BrokerTypeOK
<1>2. CASE Get(s)
  <2>1. /\ queue[s] # <<>> /\ queue' = [queue EXCEPT ![s] = Tail(@)]
        /\ held' = [held EXCEPT ![s] = Head(queue[s])] /\ got' = got
    BY <1>2 DEF Get, Broker!TakeEvent
  <2>2. /\ Head(queue[s]) \in Waiting(s) /\ Waiting(s)' \subseteq Waiting(s)
        /\ NoRepeat(queue'[s]) /\ Head(queue[s]) \notin Waiting(s)'
    BY <1>1, <2>1, TailFacts DEF Waiting, PlaceInv
  <2>3. \A r \in Stream \ {s} : /\ queue'[r] = queue[r] /\ held'[r] = held[r]
                                /\ Waiting(r)' = Waiting(r)
    BY <1>1, <2>1 DEF Waiting
  <2>4. held'[s] = Head(queue[s])
    BY <1>1, <2>1
  <2>5. PlaceInv'
    <3> SUFFICES ASSUME NEW r \in Stream
                 PROVE  /\ NoRepeat(queue'[r])
                        /\ \A m \in Waiting(r)' : held'[r] # m /\ got'[r][m] = 0
                        /\ held'[r] \in Call => got'[r][held'[r]] = 0
                        /\ \A m \in Call : got'[r][m] <= 1
      BY DEF PlaceInv
    <3>1. CASE r # s
      BY <3>1, <2>1, <2>3 DEF PlaceInv
    <3>2. CASE r = s
      BY <3>2, <2>1, <2>2, <2>4 DEF PlaceInv
    <3> QED BY <3>1, <3>2
  <2>6. ASSUME NEW r \in Stream, NEW m \in Call, Seen(r, m)' PROVE Seen(r, m)
    <3>1. CASE r # s
      BY <3>1, <2>1, <2>3, <2>6 DEF Seen
    <3>2. CASE r = s
      BY <3>2, <2>1, <2>2, <2>4, <2>6 DEF Seen
    <3> QED BY <3>1, <3>2
  <2> QED BY <2>5, <2>6
<1>3. CASE Emit(s)
  <2>1. queue' = queue /\ held' = [held EXCEPT ![s] = NoCall]
    BY <1>3 DEF Emit, brokerVars
  <2>2. \/ got' = got
        \/ held[s] \in Call /\ got' = [got EXCEPT ![s][held[s]] = @ + 1]
    BY <1>1, <1>3 DEF Emit
  <2>3. /\ \A r \in Stream : Waiting(r)' = Waiting(r)
        /\ \A r \in Stream \ {s} : held'[r] = held[r] /\ got'[r] = got[r]
        /\ held'[s] = NoCall /\ NoCall \notin Call
    BY <1>1, <2>1, <2>2, MessagingAssumption DEF Waiting
  <2>4. \/ \A m \in Call : got'[s][m] = got[s][m]
        \/ /\ held[s] \in Call /\ got[s][held[s]] = 0 /\ got'[s][held[s]] = 1
           /\ \A m \in Call \ {held[s]} : got'[s][m] = got[s][m]
    BY <1>1, <2>2 DEF PlaceInv
  <2>5. Waiting(s) \subseteq Call
    BY <1>1, ElementOfSeq DEF Waiting, Elements
  <2>6. PlaceInv'
    <3> SUFFICES ASSUME NEW r \in Stream
                 PROVE  /\ NoRepeat(queue'[r])
                        /\ \A m \in Waiting(r)' : held'[r] # m /\ got'[r][m] = 0
                        /\ held'[r] \in Call => got'[r][held'[r]] = 0
                        /\ \A m \in Call : got'[r][m] <= 1
      BY DEF PlaceInv
    <3>1. CASE r # s
      BY <3>1, <2>1, <2>3 DEF PlaceInv
    <3>2. CASE r = s
      <4>1. \A m \in Waiting(s) : held[s] # m /\ got'[s][m] = 0
        BY <2>4, <2>5 DEF PlaceInv
      <4>2. \A m \in Call : got'[s][m] <= 1
        BY <2>4 DEF PlaceInv
      <4> QED BY <3>2, <4>1, <4>2, <2>1, <2>3, <2>5 DEF PlaceInv
    <3> QED BY <3>1, <3>2
  <2>7. ASSUME NEW r \in Stream, NEW m \in Call, Seen(r, m)' PROVE Seen(r, m)
    <3>1. CASE r # s
      BY <3>1, <2>3, <2>7 DEF Seen
    <3>2. CASE r = s
      BY <3>2, <2>3, <2>4, <2>7 DEF Seen
    <3> QED BY <3>1, <3>2
  <2> QED BY <2>6, <2>7
<1>4. CASE Close(s)
  <2>1. UNCHANGED <<queue, got>> /\ held' = [held EXCEPT ![s] = NoCall]
    BY <1>4 DEF Close, Broker!Unsubscribe
  <2>2. NoCall \notin Call /\ \A r \in Stream : Waiting(r) \subseteq Call
    BY <1>1, ElementOfSeq, MessagingAssumption DEF Waiting, Elements
  <2> QED BY <1>1, <2>1, <2>2 DEF PlaceInv, Seen, Waiting
<1>5. CASE ~(Get(s) \/ Emit(s) \/ Close(s))
  <2>1. UNCHANGED <<queue, held, got>>
    BY <1>5 DEF Serve, Disconnect, Authorize, Authenticate, CheckMember, Subscribe,
       Broker!Subscribe, GetNothing, Recheck, brokerVars
  <2> QED BY <2>1, PlaceFrame
<1> QED BY <1>2, <1>3, <1>4, <1>5

LEMMA StreamStep ==
  ASSUME IInv, NEW s \in Stream, Serve(s) \/ Disconnect(s)
  PROVE  Safe'
<1> USE DEF Safe, IInv, tableVars, workerVars, GoTo
<1>1. UNCHANGED <<tableVars, workerVars, todo>>
  BY DEF Serve, Disconnect, Authorize, Authenticate, CheckMember, Subscribe, Broker!Subscribe,
         Get, Broker!TakeEvent, GetNothing, Recheck, Emit, Close, Broker!Unsubscribe,
         brokerVars
<1>2. KeyInv' /\ CarryInv' /\ ToldInv'
  <2>1. KeyInv' /\ ToldInv'
    BY <1>1 DEF KeyInv, ToldInv, Durable
  <2>2. CarryInv'
    BY <1>1 DEF CarryInv, Carries, Durable
  <2> QED BY <2>1, <2>2
<1>3. PlaceInv' /\ \A r \in Stream, m \in Call : Seen(r, m)' => Seen(r, m)
  BY StreamPlaces
<1>4. NotYetInv'
  <2> SUFFICES ASSUME NEW v \in Worker, NEW r \in Stream, WillPut(v, r)'
               PROVE  ~Seen(r, call[v])'
    BY DEF NotYetInv
  <2>1. WillPut(v, r) /\ call'[v] = call[v] /\ call[v] \in Call
    BY <1>1 DEF WillPut, PublishInv, TypeOK
  <2> QED BY <1>3, <2>1 DEF NotYetInv
<1>5. SeenInv'
  BY <1>1, <1>3 DEF SeenInv, Durable
<1>6. LateInv'
  <2> DEFINE Late(r) ==
        late[r] = 0 \/ ( /\ late[r] = 1
                         /\ \/ r \notin live /\ at[r] \in {"loop", "check", "closed"}
                            \/ ~MayWatch(r) /\ at[r] \in {"loop", "check", "check member", "closed"})
  <2>1. /\ at \in [Stream -> {"new", "new member", "authorized", "loop", "check",
                              "check member", "emit", "closed"}]
        /\ late \in [Stream -> Nat] /\ late[s] \in Nat /\ Late(s)
        /\ \A r \in Stream : MayWatch(r)' <=> MayWatch(r)
    BY <1>1 DEF TypeOK, LateInv, MayWatch, MayUse
  <2>2. \A r \in Stream \ {s} : at'[r] = at[r] /\ late'[r] = late[r]
    BY <2>1 DEF Serve, Disconnect, Authorize, Authenticate, CheckMember, Subscribe, Get,
       GetNothing, Recheck, Emit, Close
  <2>3. Late(s)'
    <3>1. CASE Authorize(s)
      BY <3>1, <2>1, <1>1 DEF Authorize, Authenticate, CheckMember
    <3>2. CASE Subscribe(s)
      BY <3>2, <2>1, <1>1 DEF Subscribe
    <3>3. CASE Get(s) \/ GetNothing(s)
      BY <3>3, <2>1, <1>1 DEF Get, GetNothing
    <3>4. CASE Recheck(s)
      BY <3>4, <2>1, <1>1 DEF Recheck, Authenticate, CheckMember
    <3>5. CASE Emit(s)
      <4>1. late[s] = 0
        BY <3>5, <2>1 DEF Emit
      <4>2. \/ late' = late
            \/ late' = [late EXCEPT ![s] = IF Authorized(s) THEN 0 ELSE @ + 1]
        BY <3>5 DEF Emit
      <4>3. late'[s] = 0 \/ (late'[s] = 1 /\ ~Authorized(s))
        <5>1. CASE late' = late
          BY <5>1, <4>1
        <5>2. CASE late' = [late EXCEPT ![s] = IF Authorized(s) THEN 0 ELSE @ + 1]
          <6>1. late'[s] = IF Authorized(s) THEN 0 ELSE late[s] + 1
            BY <5>2, <2>1
          <6> QED BY <6>1, <4>1
        <5> QED BY <4>2, <5>1, <5>2
      <4>4. at'[s] = "loop"
        BY <3>5, <2>1 DEF Emit
      <4> QED BY <4>3, <4>4, <2>1, <1>1 DEF Authorized
    <3>6. CASE Close(s)
      BY <3>6, <2>1, <1>1 DEF Close
    <3>7. CASE Disconnect(s)
      BY <3>7, <2>1, <1>1 DEF Disconnect
    <3> QED BY <3>1, <3>2, <3>3, <3>4, <3>5, <3>6, <3>7 DEF Serve
  <2> QED BY <2>1, <2>2, <2>3, <1>1 DEF LateInv
<1> QED BY <1>2, <1>3, <1>4, <1>5, <1>6

(* Nothing that other services commit gives a stream its rights back       *)
(* without starting its count again, or brings a deleted channel back.     *)
LEMMA OthersStep ==
  ASSUME IInv, Others
  PROVE  Safe'
<1> USE DEF Safe, IInv, brokerVars, workerVars, streamVars
<1>1. UNCHANGED <<brokerVars, call, step, at, active, held, got>> /\ told' \subseteq told
  BY DEF Others, AddMember, RemoveMember, DeleteChannel, RevokeSession
<1>2. PlaceInv' /\ \A s \in Stream : \A m : Seen(s, m)' <=> Seen(s, m)
  BY <1>1, PlaceFrame
<1>3. /\ exists' \subseteq exists /\ live' \subseteq live /\ messages' \subseteq messages
      /\ \A m \in messages : m.chan \in exists' => m \in messages'
  BY DEF Others, AddMember, RemoveMember, DeleteChannel, RevokeSession
<1>4. KeyInv' /\ \A m : Durable(m) => Durable(m)'
  BY <1>3 DEF KeyInv, Durable
<1>5. CarryInv' /\ NotYetInv' /\ SeenInv' /\ ToldInv'
  <2>1. CarryInv' /\ ToldInv'
    BY <1>1, <1>4 DEF CarryInv, Carries, ToldInv
  <2>2. NotYetInv'
    BY <1>1, <1>2 DEF NotYetInv, WillPut
  <2>3. SeenInv'
    BY <1>2, <1>4 DEF SeenInv
  <2> QED BY <2>1, <2>2, <2>3
<1>6. LateInv'
  <2>1. ASSUME NEW c \in Chan, NEW u \in User, AddMember(c, u)
        PROVE  LateInv'
    <3> SUFFICES ASSUME NEW s \in Stream, late'[s] # 0
                 PROVE  /\ late'[s] = late[s] /\ late[s] # 0
                        /\ MayWatch(s)' => MayWatch(s)
      BY <1>1, <2>1 DEF LateInv, AddMember
    <3>1. Viewer[s] # u /\ late'[s] = late[s]
      BY <2>1 DEF AddMember
    <3>2. member' = member \cup {<<c, u>>} /\ exists' = exists
      BY <2>1 DEF AddMember
    <3> QED BY <3>1, <3>2 DEF MayWatch, MayUse
  <2>2. CASE ~\E c \in Chan, u \in User : AddMember(c, u)
    <3>1. late' = late /\ member' \subseteq member
      BY <2>2 DEF Others, RemoveMember, DeleteChannel, RevokeSession
    <3>2. \A s \in Stream : MayWatch(s)' => MayWatch(s)
      BY <1>3, <3>1 DEF MayWatch, MayUse
    <3> QED BY <1>1, <1>3, <3>1, <3>2 DEF LateInv
  <2> QED BY <2>1, <2>2
<1> QED BY <1>2, <1>4, <1>5, <1>6

-----------------------------------------------------------------------------
LEMMA InitIInv == Init => IInv
<1> SUFFICES ASSUME Init PROVE IInv
  OBVIOUS
<1> USE MessagingAssumption DEF Init, Broker!BrokerInit
<1>1. TypeOK
  BY EmptySeq DEF TypeOK, Broker!BrokerTypeOK
<1>2. PublishInv
  BY DEF PublishInv
<1>3. /\ \A w \in Worker : ~Carries(w) /\ \A s \in Stream : ~WillPut(w, s)
      /\ \A s \in Stream : Waiting(s) = {} /\ NoRepeat(queue[s])
  BY EmptyFacts DEF Carries, WillPut, Waiting
<1>4. \A s \in Stream, m \in Call : ~Seen(s, m)
  BY <1>3 DEF Seen
<1>5. KeyInv /\ CarryInv /\ NotYetInv
  <2>1. KeyInv
    BY DEF KeyInv
  <2>2. CarryInv /\ NotYetInv
    BY <1>3 DEF CarryInv, NotYetInv
  <2> QED BY <2>1, <2>2
<1>6. PlaceInv
  BY <1>3 DEF PlaceInv
<1>7. SeenInv /\ ToldInv /\ LateInv
  BY <1>4 DEF SeenInv, ToldInv, LateInv
<1> QED BY <1>1, <1>2, <1>5, <1>6, <1>7 DEF IInv

LEMMA StepIInv == ASSUME IInv, [Next]_vars PROVE IInv'
<1>1. TypeOK' /\ PublishInv'
  BY TypeStep DEF IInv
<1>2. CASE UNCHANGED vars
  <2> USE <1>2 DEF vars, brokerVars, tableVars, workerVars, streamVars, IInv
  <2>1. PlaceInv' /\ LateInv' /\ \A s \in Stream : \A m : Seen(s, m)' <=> Seen(s, m)
    BY PlaceFrame, LateFrame
  <2>2. KeyInv' /\ CarryInv' /\ ToldInv'
    BY DEF KeyInv, CarryInv, Carries, ToldInv, Durable
  <2>3. NotYetInv' /\ SeenInv'
    BY <2>1 DEF NotYetInv, SeenInv, WillPut, Durable
  <2> QED BY <1>1, <2>1, <2>2, <2>3
<1>3. ASSUME NEW w \in Worker, (\E m \in Call : Receive(w, m)) \/ Work(w) PROVE Safe'
  BY <1>3, FanOutStep, WorkerStep DEF Work
<1>4. ASSUME NEW s \in Stream, Serve(s) \/ Disconnect(s) PROVE Safe'
  BY <1>4, StreamStep
<1>5. ASSUME Others PROVE Safe'
  BY <1>5, OthersStep
<1>6. Safe' => IInv'
  BY <1>1 DEF Safe, IInv
<1> QED BY <1>2, <1>3, <1>4, <1>5, <1>6 DEF Next

LEMMA Invariant == Spec => []IInv
  BY InitIInv, StepIInv, PTL DEF Spec

-----------------------------------------------------------------------------
(* Every variable of Messaging, and of its broker, keeps its type.         *)
THEOREM TypeCorrect == Spec => []TypeOK
<1>1. IInv => TypeOK
  BY DEF IInv
<1> QED BY <1>1, Invariant, PTL

(* However often and however concurrently SendMessage is retried with one  *)
(* client_request_id, one row is stored and no stream emits it twice.      *)
THEOREM RetriesAreDeliveredOnce == Spec => []DeliveredOnce
<1>1. IInv => DeliveredOnce
  BY DEF IInv, KeyInv, PlaceInv, DeliveredOnce
<1> QED BY <1>1, Invariant, PTL

(* What SubscribeEvents has emitted or holds, and what SendMessage was     *)
(* answered with, is in the history, unless its channel was deleted:       *)
(* publish and the answer follow the commit.                               *)
THEOREM EmittedIsDurable == Spec => []LiveIsDurable
<1>1. ASSUME IInv PROVE LiveIsDurable
  <2>1. ASSUME NEW s \in Stream, NEW m \in InFlight(s) \cup {n \in Call : got[s][n] > 0}
        PROVE  Durable(m)
    <3>1. queue[s] \in Seq(Call) /\ held[s] \in Call \cup {NoCall}
      BY <1>1 DEF IInv, TypeOK, Broker!BrokerTypeOK
    <3>2. DOMAIN queue[s] = 1..Len(queue[s]) /\ \A i \in 1..Len(queue[s]) : queue[s][i] \in Call
      BY <3>1, LenProperties, ElementOfSeq
    <3>3. m \in Call /\ Seen(s, m)
      BY <2>1, <3>1, <3>2 DEF InFlight, Seen, Waiting, Elements
    <3> QED BY <1>1, <3>3 DEF IInv, SeenInv
  <2>2. \A m \in told : Durable(m)
    BY <1>1 DEF IInv, ToldInv
  <2> QED BY <2>1, <2>2 DEF LiveIsDurable, Durable
<1> QED BY <1>1, Invariant, PTL

(* After removal from a watched channel, its deletion or the end of the    *)
(* session a stream emits one message more at most.                        *)
THEOREM LateMessagesAreBounded == Spec => []OneLateMessageAtMost
<1>1. ASSUME IInv PROVE OneLateMessageAtMost
  <2>1. \A s \in Stream : late[s] = 0 \/ late[s] = 1
    BY <1>1 DEF IInv, LateInv
  <2>2. \A s \in Stream : late[s] <= 1
    BY <2>1
  <2> QED BY <2>2 DEF OneLateMessageAtMost
<1> QED BY <1>1, Invariant, PTL

-----------------------------------------------------------------------------
(* Where a message can be for a stream that subscribed before it was       *)
(* published: still to be put, in the queue, held, emitted, or dropped.    *)
Dropped(s, m) == \E end \in {"oldest", "newest"} : <<m, end>> \in lost[s]

Reached(s, m) ==
  \/ \E w \in Worker : call[w] = m /\ WillPut(w, s)
  \/ Seen(s, m)
  \/ Dropped(s, m)

(* What no step may do: let a message of a watched channel vanish.         *)
Kept(s, m) ==
  s \in subscribers /\ m.chan \in Watched[s] /\ Reached(s, m)
    => Reached(s, m)' \/ at'[s] = "closed"

MessagesAreKept == \A s \in Stream, m \in Call : Kept(s, m)

(* A stream holds nothing when it asks its queue for the next event, so    *)
(* that none is overwritten.                                               *)
HeldInv == \A s \in Stream : held[s] # NoCall => at[s] \in {"check", "check member", "emit"}

LEMMA HeldStep == ASSUME TypeOK, HeldInv, [Next]_vars PROVE HeldInv'
<1> USE DEF HeldInv, TypeOK
<1>1. ASSUME NEW w \in Worker, (\E m \in Call : Receive(w, m)) \/ Work(w) PROVE HeldInv'
  <2>1. UNCHANGED <<held, at>>
    BY <1>1 DEF Receive, Work, Store, AnswerWithoutStoring, Publish, FanOut, Answer, streamVars
  <2> QED BY <2>1
<1>2. ASSUME NEW s \in Stream, Serve(s) \/ Disconnect(s) PROVE HeldInv'
  <2>1. CASE Get(s)
    BY <2>1 DEF Get, GoTo
  <2>2. CASE Emit(s) \/ Close(s)
    BY <2>2 DEF Emit, Close, GoTo
  <2>3. CASE Authorize(s) \/ Subscribe(s)
    BY <2>3 DEF Authorize, Authenticate, CheckMember, Subscribe, GoTo
  <2>4. CASE GetNothing(s) \/ Recheck(s)
    BY <2>4 DEF GetNothing, Recheck, Authenticate, CheckMember, GoTo
  <2>5. CASE Disconnect(s)
    BY <2>5 DEF Disconnect
  <2> QED BY <1>2, <2>1, <2>2, <2>3, <2>4, <2>5 DEF Serve
<1>3. ASSUME Others PROVE HeldInv'
  <2>1. UNCHANGED <<held, at>>
    BY <1>3 DEF Others, AddMember, RemoveMember, DeleteChannel, RevokeSession, streamVars
  <2> QED BY <2>1
<1>4. CASE UNCHANGED vars
  BY <1>4 DEF vars, streamVars
<1> QED BY <1>1, <1>2, <1>3, <1>4 DEF Next

(* Taking the first element leaves the others.                             *)
LEMMA TailKeeps ==
  ASSUME NEW S, NEW q \in Seq(S), q # <<>>
  PROVE  Elements(q) \subseteq Elements(Tail(q)) \cup {Head(q)}
<1>1. Len(q) \in Nat \ {0} /\ Head(q) = q[1]
  BY EmptySeq
<1>2. /\ Len(Tail(q)) = Len(q) - 1
      /\ \A i \in 1..Len(Tail(q)) : Tail(q)[i] = q[i + 1]
  BY HeadTailProperties
<1> SUFFICES ASSUME NEW i \in 1..Len(q), i # 1 PROVE q[i] \in Elements(Tail(q))
  BY <1>1 DEF Elements
<1>3. i - 1 \in 1..Len(Tail(q)) /\ Tail(q)[i - 1] = q[i]
  BY <1>1, <1>2
<1> QED BY <1>3 DEF Elements

(* publish puts the message into the queue or records the drop, and what   *)
(* it takes out to make room is recorded too.                              *)
LEMMA FanOutKeeps ==
  ASSUME IInv, NEW w \in Worker, FanOut(w)
  PROVE  MessagesAreKept
<1> PICK s \in Stream :
      \/ Broker!Put(w, s) \/ Broker!FindFull(w, s)
      \/ Broker!Evict(w, s) \/ Broker!EvictEmpty(w, s)
      \/ Broker!PutAgain(w, s) \/ Broker!PutAgainFull(w, s)
  BY DEF FanOut, Broker!Fill
<1>1. UNCHANGED <<call, step, held, got>>
  BY DEF FanOut, workerVars, streamVars
<1>2. /\ queue \in [Stream -> Seq(Call)] /\ todo \in [Worker -> SUBSET Stream]
      /\ queue[s] \in Seq(Call)
      /\ lost \in [Stream -> SUBSET (Call \X {"oldest", "newest"})]
  BY DEF IInv, TypeOK, Broker!BrokerTypeOK
<1>3. phase[w] # "idle"
  BY DEF Broker!Put, Broker!FindFull, Broker!Evict, Broker!EvictEmpty,
     Broker!PutAgain, Broker!PutAgainFull
<1>4. step[w] = "publishing" /\ publishing[w] = call[w] /\ call[w] \in Call
  BY <1>3 DEF IInv, PublishInv, TypeOK
<1>5. /\ \A v \in Worker \ {w} : todo'[v] = todo[v]
      /\ todo[w] \ {s} \subseteq todo'[w]
      /\ \A r \in Stream \ {s} : queue'[r] = queue[r] /\ lost'[r] = lost[r]
      /\ lost[s] \subseteq lost'[s]
  <2>1. todo' = todo \/ todo' = [todo EXCEPT ![w] = @ \ {s}]
    BY DEF Broker!Put, Broker!FindFull, Broker!Evict, Broker!EvictEmpty,
       Broker!PutAgain, Broker!PutAgainFull, Broker!DropNewest
  <2>2. queue' = queue \/ \E q : queue' = [queue EXCEPT ![s] = q]
    BY DEF Broker!Put, Broker!FindFull, Broker!Evict, Broker!EvictEmpty,
       Broker!PutAgain, Broker!PutAgainFull, Broker!DropNewest
  <2>3. lost' = lost \/ \E e : lost' = [lost EXCEPT ![s] = @ \cup {e}]
    BY DEF Broker!Put, Broker!FindFull, Broker!Evict, Broker!EvictEmpty,
       Broker!PutAgain, Broker!PutAgainFull, Broker!DropNewest
  <2> QED BY <1>2, <2>1, <2>2, <2>3
<1>6. /\ \A m \in Waiting(s) : m \in Waiting(s)' \/ <<m, "oldest">> \in lost'[s]
      /\ s \in todo[w] => \/ s \in todo'[w]
                          \/ call[w] \in Waiting(s)'
                          \/ <<call[w], "newest">> \in lost'[s]
  <2>1. CASE Broker!Put(w, s) \/ Broker!PutAgain(w, s)
    <3>1. queue'[s] = Append(queue[s], call[w])
      BY <2>1, <1>2, <1>4 DEF Broker!Put, Broker!PutAgain
    <3>2. Waiting(s)' = Waiting(s) \cup {call[w]}
      BY <3>1, <1>2, <1>4, AppendFacts DEF Waiting
    <3> QED BY <3>2
  <2>2. CASE Broker!FindFull(w, s)
    BY <2>2 DEF Broker!FindFull, Waiting
  <2>3. CASE Broker!Evict(w, s)
    <3>1. /\ queue[s] # <<>> /\ queue'[s] = Tail(queue[s]) /\ todo' = todo
          /\ <<Head(queue[s]), "oldest">> \in lost'[s]
      BY <2>3, <1>2 DEF Broker!Evict
    <3>2. Waiting(s) \subseteq Waiting(s)' \cup {Head(queue[s])}
      BY <3>1, <1>2, TailKeeps DEF Waiting
    <3> QED BY <3>1, <3>2
  <2>4. CASE Broker!EvictEmpty(w, s) \/ Broker!PutAgainFull(w, s)
    <3>1. queue' = queue /\ <<call[w], "newest">> \in lost'[s]
      BY <2>4, <1>2, <1>4 DEF Broker!EvictEmpty, Broker!PutAgainFull, Broker!DropNewest
    <3> QED BY <3>1 DEF Waiting
  <2> QED BY <2>1, <2>2, <2>3, <2>4
<1> SUFFICES ASSUME NEW r \in Stream, NEW m \in Call, Reached(r, m) PROVE Reached(r, m)'
  BY DEF MessagesAreKept, Kept
<1>7. ASSUME NEW v \in Worker, call[v] = m, WillPut(v, r) PROVE Reached(r, m)'
  <2>1. CASE WillPut(v, r)'
    BY <1>1, <1>7, <2>1 DEF Reached
  <2>2. CASE ~WillPut(v, r)'
    <3>1. v = w /\ r = s /\ s \in todo[w] /\ s \notin todo'[w]
      BY <1>1, <1>4, <1>5, <1>7, <2>2 DEF WillPut
    <3> QED BY <1>6, <1>7, <3>1 DEF Reached, Dropped, Seen
  <2> QED BY <2>1, <2>2
<1>8. ASSUME Seen(r, m) PROVE Reached(r, m)'
  <2>1. CASE r = s
    BY <1>1, <1>6, <1>8, <2>1 DEF Reached, Dropped, Seen
  <2>2. CASE r # s
    BY <1>1, <1>5, <1>8, <2>2 DEF Reached, Seen, Waiting
  <2> QED BY <2>1, <2>2
<1>9. ASSUME NEW end \in {"oldest", "newest"}, <<m, end>> \in lost[r] PROVE Reached(r, m)'
  <2>1. <<m, end>> \in lost'[r]
    BY <1>5, <1>9
  <2> QED BY <2>1 DEF Reached, Dropped
<1> QED BY <1>7, <1>8, <1>9 DEF Reached, Dropped

(* A worker leaves a message it carries only when its copy of the set of   *)
(* subscribers, made with s in it, is used up.                             *)
LEMMA WorkerKeeps ==
  ASSUME IInv, NEW w \in Worker,
         (\E m \in Call : Receive(w, m)) \/ Store(w) \/ AnswerWithoutStoring(w)
           \/ Publish(w) \/ Answer(w)
  PROVE  MessagesAreKept
<1>1. UNCHANGED <<queue, lost, held, got>>
  BY DEF Receive, Store, AnswerWithoutStoring, Publish, Broker!BeginPublish, Answer,
     Broker!EndPublish, brokerVars, streamVars
<1>2. ASSUME NEW v \in Worker, NEW s \in subscribers, WillPut(v, s)
      PROVE  WillPut(v, s)' /\ call'[v] = call[v]
  <2> USE <1>2 DEF IInv, TypeOK, WillPut
  <2>1. ASSUME NEW m \in Call, Receive(w, m) PROVE WillPut(v, s)' /\ call'[v] = call[v]
    BY <2>1 DEF Receive, brokerVars
  <2>2. CASE Store(w)
    BY <2>2 DEF Store, brokerVars
  <2>3. CASE AnswerWithoutStoring(w)
    BY <2>3 DEF AnswerWithoutStoring, Done, brokerVars
  <2>4. CASE Publish(w)
    BY <2>4 DEF Publish, Broker!BeginPublish, Broker!BrokerTypeOK
  <2>5. CASE Answer(w)
    BY <2>5 DEF Answer, Done, Broker!EndPublish, Broker!BrokerTypeOK
  <2> QED BY <2>1, <2>2, <2>3, <2>4, <2>5
<1>3. \A s \in Stream, m \in Call : Seen(s, m) => Seen(s, m)'
  BY <1>1 DEF Seen, Waiting
<1> QED BY <1>1, <1>2, <1>3 DEF MessagesAreKept, Kept, Reached, Dropped

(* A stream moves a message of a watched channel from its queue into its   *)
(* hand and from there to the client, or it ends.                          *)
LEMMA StreamKeeps ==
  ASSUME IInv, HeldInv, NEW s \in Stream, Serve(s) \/ Disconnect(s)
  PROVE  MessagesAreKept
<1>1. UNCHANGED <<call, step, todo, lost>>
  BY DEF Serve, Disconnect, Authorize, Authenticate, CheckMember, Subscribe, Broker!Subscribe,
         Get, Broker!TakeEvent, GetNothing, Recheck, Emit, Close, Broker!Unsubscribe,
         brokerVars, workerVars
<1>2. /\ queue \in [Stream -> Seq(Call)] /\ queue[s] \in Seq(Call)
      /\ held \in [Stream -> Call \cup {NoCall}]
      /\ got \in [Stream -> [Call -> Nat]] /\ got[s] \in [Call -> Nat]
      /\ s \in DOMAIN at /\ NoCall \notin Call
  BY MessagingAssumption DEF IInv, TypeOK, Broker!BrokerTypeOK
<1> SUFFICES ASSUME NEW r \in Stream, NEW m \in Call, m.chan \in Watched[r], Seen(r, m)
             PROVE  Seen(r, m)' \/ at'[r] = "closed"
  BY <1>1 DEF MessagesAreKept, Kept, Reached, Dropped, WillPut
<1>3. CASE Get(s)
  <2>1. /\ queue[s] # <<>> /\ queue' = [queue EXCEPT ![s] = Tail(@)]
        /\ held' = [held EXCEPT ![s] = Head(queue[s])] /\ got' = got /\ held[s] = NoCall
    BY <1>3 DEF Get, Broker!TakeEvent, HeldInv
  <2>2. Waiting(s) \subseteq Waiting(s)' \cup {held'[s]}
    BY <1>2, <2>1, TailKeeps DEF Waiting
  <2>3. CASE r = s
    BY <1>2, <2>1, <2>2, <2>3 DEF Seen
  <2>4. CASE r # s
    BY <1>2, <2>1, <2>4 DEF Seen, Waiting
  <2> QED BY <2>3, <2>4
<1>4. CASE Emit(s)
  <2>1. queue' = queue /\ held' = [held EXCEPT ![s] = NoCall]
    BY <1>4 DEF Emit, brokerVars
  <2>2. IF held[s] # NoCall /\ held[s].chan \in Watched[s]
        THEN got' = [got EXCEPT ![s][held[s]] = @ + 1]
        ELSE got' = got
    BY <1>4 DEF Emit
  <2>3. CASE r = s /\ held[s] = m
    <3>1. got' = [got EXCEPT ![s][m] = @ + 1]
      BY <1>2, <2>2, <2>3
    <3>2. got'[s][m] = got[s][m] + 1 /\ got[s][m] \in Nat
      BY <1>2, <3>1
    <3> QED BY <2>3, <3>2 DEF Seen
  <2>4. CASE ~(r = s /\ held[s] = m)
    <3>1. got'[r][m] = got[r][m]
      BY <1>2, <2>2, <2>4
    <3>2. Waiting(r)' = Waiting(r) /\ (held[r] = m => held'[r] = m)
      BY <1>2, <2>1, <2>4 DEF Waiting
    <3> QED BY <3>1, <3>2 DEF Seen
  <2> QED BY <2>3, <2>4
<1>5. CASE Close(s)
  <2>1. /\ UNCHANGED <<queue, got>> /\ held' = [held EXCEPT ![s] = NoCall]
        /\ at'[s] = "closed"
    BY <1>2, <1>5 DEF Close, Broker!Unsubscribe, GoTo
  <2> QED BY <1>2, <2>1 DEF Seen, Waiting
<1>6. CASE ~(Get(s) \/ Emit(s) \/ Close(s))
  <2>1. UNCHANGED <<queue, held, got>>
    BY <1>6 DEF Serve, Disconnect, Authorize, Authenticate, CheckMember, Subscribe,
       Broker!Subscribe, GetNothing, Recheck, brokerVars
  <2> QED BY <2>1 DEF Seen, Waiting
<1> QED BY <1>3, <1>4, <1>5, <1>6

(* No step lets a message of a watched channel vanish before it reaches    *)
(* the stream: from the commit on it is still to be put, queued, held,     *)
(* emitted or counted as dropped, unless the stream ends.  With the        *)
(* fairness of workers and streams this is what makes Delivered true.      *)
THEOREM NoMessageVanishes == Spec => [][MessagesAreKept]_vars
<1>1. Init => HeldInv
  BY DEF Init, HeldInv
<1>2. HeldInv /\ TypeOK /\ [Next]_vars => HeldInv'
  BY HeldStep
<1>3. IInv => TypeOK
  BY DEF IInv
<1>4. ASSUME IInv, HeldInv, [Next]_vars PROVE [MessagesAreKept]_vars
  <2>1. ASSUME NEW w \in Worker, (\E m \in Call : Receive(w, m)) \/ Work(w)
        PROVE  MessagesAreKept
    BY <1>4, <2>1, FanOutKeeps, WorkerKeeps DEF Work
  <2>2. ASSUME NEW s \in Stream, Serve(s) \/ Disconnect(s) PROVE MessagesAreKept
    BY <1>4, <2>2, StreamKeeps
  <2>3. CASE Others
    <3>1. UNCHANGED <<call, step, todo, lost, queue, held, got>>
      BY <2>3 DEF Others, AddMember, RemoveMember, DeleteChannel, RevokeSession,
         brokerVars, workerVars, streamVars
    <3> QED BY <3>1 DEF MessagesAreKept, Kept, Reached, Dropped, WillPut, Seen, Waiting
  <2> QED BY <1>4, <2>1, <2>2, <2>3 DEF Next
<1> QED BY <1>1, <1>2, <1>3, <1>4, Invariant, PTL DEF Spec

-----------------------------------------------------------------------------
(* What is recorded as dropped for a stream has left its queue for good.   *)
DroppedInv ==
  \A s \in Stream, m \in Call :
    Dropped(s, m) => /\ ~Seen(s, m) /\ Durable(m)
                     /\ \A w \in Worker : call[w] = m => ~WillPut(w, s)

LEMMA FanOutDrops ==
  ASSUME IInv, DroppedInv, NEW w \in Worker, FanOut(w)
  PROVE  DroppedInv'
<1> PICK s \in Stream :
      \/ Broker!Put(w, s) \/ Broker!FindFull(w, s)
      \/ Broker!Evict(w, s) \/ Broker!EvictEmpty(w, s)
      \/ Broker!PutAgain(w, s) \/ Broker!PutAgainFull(w, s)
  BY DEF FanOut, Broker!Fill
<1>1. UNCHANGED <<exists, messages, call, step, held, got>>
  BY DEF FanOut, tableVars, workerVars, streamVars
<1>2. /\ queue \in [Stream -> Seq(Call)] /\ todo \in [Worker -> SUBSET Stream]
      /\ queue[s] \in Seq(Call)
      /\ lost \in [Stream -> SUBSET (Call \X {"oldest", "newest"})]
  BY DEF IInv, TypeOK, Broker!BrokerTypeOK
<1>3. phase[w] # "idle"
  BY DEF Broker!Put, Broker!FindFull, Broker!Evict, Broker!EvictEmpty,
     Broker!PutAgain, Broker!PutAgainFull
<1>4. /\ step[w] = "publishing" /\ publishing[w] = call[w] /\ call[w] \in Call
      /\ phase[w] \in {"evict", "again"} => target[w] \subseteq todo[w]
  BY <1>3 DEF IInv, PublishInv, TypeOK
<1>5. /\ \A v \in Worker : todo'[v] \subseteq todo[v]
      /\ \A r \in Stream \ {s} : queue'[r] = queue[r] /\ lost'[r] = lost[r]
  <2>1. todo' = todo \/ todo' = [todo EXCEPT ![w] = @ \ {s}]
    BY DEF Broker!Put, Broker!FindFull, Broker!Evict, Broker!EvictEmpty,
       Broker!PutAgain, Broker!PutAgainFull, Broker!DropNewest
  <2>2. queue' = queue \/ \E q : queue' = [queue EXCEPT ![s] = q]
    BY DEF Broker!Put, Broker!FindFull, Broker!Evict, Broker!EvictEmpty,
       Broker!PutAgain, Broker!PutAgainFull, Broker!DropNewest
  <2>3. lost' = lost \/ \E e : lost' = [lost EXCEPT ![s] = @ \cup {e}]
    BY DEF Broker!Put, Broker!FindFull, Broker!Evict, Broker!EvictEmpty,
       Broker!PutAgain, Broker!PutAgainFull, Broker!DropNewest
  <2> QED BY <1>2, <2>1, <2>2, <2>3
<1>6. /\ \A v \in Worker, r \in Stream : WillPut(v, r)' => WillPut(v, r)
      /\ \A m : Durable(m)' <=> Durable(m)
      /\ \A r \in Stream \ {s}, m \in Call : /\ Dropped(r, m)' <=> Dropped(r, m)
                                             /\ Seen(r, m)' <=> Seen(r, m)
  BY <1>1, <1>5 DEF WillPut, Durable, Dropped, Seen, Waiting
<1> SUFFICES ASSUME NEW m \in Call, Dropped(s, m)'
             PROVE  /\ ~Seen(s, m)' /\ Durable(m)
                    /\ \A v \in Worker : call[v] = m => ~WillPut(v, s)'
  BY <1>1, <1>6 DEF DroppedInv
<1>7. CASE Broker!Put(w, s) \/ Broker!PutAgain(w, s)
  <2>1. /\ queue'[s] = Append(queue[s], call[w]) /\ lost' = lost /\ s \in todo[w]
    BY <1>2, <1>4, <1>7 DEF Broker!Put, Broker!PutAgain
  <2>2. Waiting(s)' = Waiting(s) \cup {call[w]}
    BY <2>1, <1>2, <1>4, AppendFacts DEF Waiting
  <2>3. Dropped(s, m) /\ WillPut(w, s)
    BY <1>4, <2>1 DEF Dropped, WillPut
  <2> QED BY <1>1, <1>6, <2>2, <2>3 DEF DroppedInv, Seen
<1>8. CASE Broker!FindFull(w, s)
  <2>1. lost' = lost /\ queue' = queue
    BY <1>8 DEF Broker!FindFull
  <2> QED BY <1>1, <1>6, <2>1 DEF DroppedInv, Dropped, Seen, Waiting
<1>9. CASE Broker!Evict(w, s)
  <2>1. /\ queue[s] # <<>> /\ queue'[s] = Tail(queue[s])
        /\ lost'[s] = lost[s] \cup {<<Head(queue[s]), "oldest">>}
    BY <1>2, <1>9 DEF Broker!Evict
  <2>2. /\ Head(queue[s]) \in Waiting(s) /\ Waiting(s)' \subseteq Waiting(s)
        /\ NoRepeat(queue[s]) => Head(queue[s]) \notin Waiting(s)'
    BY <1>2, <2>1, TailFacts DEF Waiting
  <2>3. Dropped(s, m) \/ m = Head(queue[s])
    BY <2>1 DEF Dropped
  <2>4. CASE Dropped(s, m)
    BY <1>1, <1>6, <2>2, <2>4 DEF DroppedInv, Seen
  <2>5. CASE m = Head(queue[s])
    <3>1. Seen(s, m) /\ m \notin Waiting(s)' /\ held[s] # m /\ got[s][m] = 0
      BY <2>2, <2>5 DEF IInv, PlaceInv, Seen
    <3>2. Durable(m) /\ ~Seen(s, m)'
      BY <1>1, <3>1 DEF IInv, SeenInv, Seen
    <3>3. \A v \in Worker : call[v] = m => ~WillPut(v, s)
      BY <3>1 DEF IInv, NotYetInv
    <3> QED BY <1>6, <3>2, <3>3
  <2> QED BY <2>3, <2>4, <2>5
<1>10. CASE Broker!EvictEmpty(w, s) \/ Broker!PutAgainFull(w, s)
  <2>1. /\ queue' = queue /\ lost'[s] = lost[s] \cup {<<call[w], "newest">>}
        /\ s \in todo[w] /\ s \notin todo'[w]
    BY <1>2, <1>4, <1>10 DEF Broker!EvictEmpty, Broker!PutAgainFull, Broker!DropNewest
  <2>2. Dropped(s, m) \/ m = call[w]
    BY <2>1 DEF Dropped
  <2>3. Seen(s, m)' => Seen(s, m)
    BY <1>1, <2>1 DEF Seen, Waiting
  <2>4. CASE Dropped(s, m)
    BY <1>6, <2>3, <2>4 DEF DroppedInv
  <2>5. CASE m = call[w]
    <3>1. WillPut(w, s) /\ Carries(w) /\ ~WillPut(w, s)'
      BY <1>1, <1>4, <2>1 DEF WillPut, Carries
    <3>2. ~Seen(s, m) /\ Durable(m)
      BY <2>5, <3>1 DEF IInv, NotYetInv, CarryInv
    <3>3. ASSUME NEW v \in Worker, call[v] = m, WillPut(v, s)' PROVE FALSE
      <4>1. Carries(v)
        BY <1>6, <3>3 DEF WillPut, Carries
      <4>2. v = w
        BY <2>5, <3>1, <3>3, <4>1 DEF IInv, CarryInv
      <4> QED BY <3>1, <3>3, <4>2
    <3> QED BY <2>3, <3>2, <3>3
  <2> QED BY <2>2, <2>4, <2>5
<1> QED BY <1>7, <1>8, <1>9, <1>10

LEMMA WorkerDrops ==
  ASSUME IInv, DroppedInv, NEW w \in Worker,
         (\E m \in Call : Receive(w, m)) \/ Store(w) \/ AnswerWithoutStoring(w)
           \/ Publish(w) \/ Answer(w)
  PROVE  DroppedInv'
<1>1. UNCHANGED <<queue, lost, held, got, exists>>
  BY DEF Receive, Store, AnswerWithoutStoring, Publish, Broker!BeginPublish, Answer,
     Broker!EndPublish, brokerVars, streamVars, tableVars
<1>2. \A s \in Stream, m \in Call : /\ Seen(s, m)' <=> Seen(s, m)
                                    /\ Dropped(s, m)' <=> Dropped(s, m)
  BY <1>1 DEF Seen, Waiting, Dropped
<1>3. messages \subseteq messages'
  BY DEF Receive, Store, AnswerWithoutStoring, Publish, Answer, tableVars
<1>4. \A m : Durable(m) => Durable(m)'
  BY <1>1, <1>3 DEF Durable
<1>5. ASSUME NEW v \in Worker, NEW s \in Stream, WillPut(v, s)',
             ~WillPut(v, s) \/ call'[v] # call[v]
      PROVE  ~Durable(call'[v])
  <2> USE <1>5 DEF IInv, TypeOK, WillPut
  <2>1. ASSUME NEW m \in Call, Receive(w, m) PROVE FALSE
    BY <2>1 DEF Receive, brokerVars
  <2>2. CASE Store(w)
    <3>1. v = w /\ call' = call /\ Created(call[w]) /\ call[w].chan \in exists
      BY <2>2 DEF Store, MayUse, brokerVars
    <3> QED BY <3>1 DEF Created, Stored, Durable
  <2>3. CASE AnswerWithoutStoring(w)
    BY <2>3 DEF AnswerWithoutStoring, Done, brokerVars
  <2>4. CASE Publish(w)
    BY <2>4 DEF Publish, Broker!BeginPublish, Broker!BrokerTypeOK
  <2>5. CASE Answer(w)
    BY <2>5 DEF Answer, Done, Broker!EndPublish, Broker!BrokerTypeOK
  <2> QED BY <2>1, <2>2, <2>3, <2>4, <2>5
<1> QED BY <1>2, <1>4, <1>5 DEF DroppedInv

LEMMA DroppedStep == ASSUME IInv, DroppedInv, [Next]_vars PROVE DroppedInv'
<1>1. ASSUME NEW w \in Worker, (\E m \in Call : Receive(w, m)) \/ Work(w) PROVE DroppedInv'
  BY <1>1, FanOutDrops, WorkerDrops DEF Work
<1>2. ASSUME NEW s \in Stream, Serve(s) \/ Disconnect(s) PROVE DroppedInv'
  <2>1. UNCHANGED <<tableVars, call, step, todo, lost>>
    BY <1>2 DEF Serve, Disconnect, Authorize, Authenticate, CheckMember, Subscribe,
       Broker!Subscribe, Get, Broker!TakeEvent, GetNothing, Recheck, Emit, Close,
       Broker!Unsubscribe, brokerVars, workerVars
  <2>2. \A r \in Stream, m \in Call : Seen(r, m)' => Seen(r, m)
    BY <1>2, StreamPlaces
  <2> QED BY <2>1, <2>2 DEF DroppedInv, Dropped, Durable, WillPut, tableVars
<1>3. ASSUME Others PROVE DroppedInv'
  <2>1. UNCHANGED <<call, step, todo, lost, queue, held, got>>
    BY <1>3 DEF Others, AddMember, RemoveMember, DeleteChannel, RevokeSession,
       brokerVars, workerVars, streamVars
  <2>2. \A m : Durable(m) => Durable(m)'
    <3>1. exists' \subseteq exists /\ \A m \in messages : m.chan \in exists' => m \in messages'
      BY <1>3 DEF Others, AddMember, RemoveMember, DeleteChannel, RevokeSession
    <3> QED BY <3>1 DEF Durable
  <2> QED BY <2>1, <2>2 DEF DroppedInv, Dropped, WillPut, Seen, Waiting
<1>4. CASE UNCHANGED vars
  BY <1>4 DEF vars, brokerVars, tableVars, workerVars, streamVars, DroppedInv, Dropped,
     WillPut, Seen, Waiting, Durable
<1> QED BY <1>1, <1>2, <1>3, <1>4 DEF Next

(* Once a message is dropped from a stream's queue the stream never emits  *)
(* it, although other threads still publish: a message has one fate.       *)
DroppedIsNeverEmitted == \A s \in Stream, m \in Call : Dropped(s, m) => got[s][m] = 0

THEOREM OneFateForEachMessage == Spec => []DroppedIsNeverEmitted
<1>1. Init => DroppedInv
  BY DEF Init, Broker!BrokerInit, DroppedInv, Dropped
<1>2. IInv /\ DroppedInv /\ [Next]_vars => DroppedInv'
  BY DroppedStep
<1>3. ASSUME IInv, DroppedInv PROVE DroppedIsNeverEmitted
  <2>1. \A s \in Stream, m \in Call : got[s][m] \in Nat
    BY <1>3 DEF IInv, TypeOK
  <2> QED BY <1>3, <2>1 DEF DroppedInv, DroppedIsNeverEmitted, Seen
<1> QED BY <1>1, <1>2, <1>3, Invariant, PTL DEF Spec

=============================================================================
