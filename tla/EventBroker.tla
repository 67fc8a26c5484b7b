---------------------------- MODULE EventBroker ----------------------------
(***************************************************************************)
(* The in-memory fan-out of live events, server/events.py.  Each subscriber*)
(* has a bounded queue.  publish copies the set of queues under the lock   *)
(* and then fills the queues one by one without it, so several publishers  *)
(* and the queue's reader interleave at every queue operation.             *)
(***************************************************************************)
EXTENDS Naturals, Sequences, FiniteSets

CONSTANTS
  Publisher,   \* threads that may be inside publish
  Subscriber,  \* subscriptions, each opened once at most
  Event,       \* the events published
  NoEvent,     \* a publisher outside publish, or a reader holding nothing
  Capacity     \* subscriber_queue_size

(* What a module that has a broker assumes of these values.               *)
BrokerConstants == Capacity \in Nat \ {0} /\ NoEvent \notin Event

VARIABLES
  subscribers,  \* the set the broker's lock protects
  queue,        \* queue[s]: the events waiting for s
  publishing,   \* publishing[t]: the event t is publishing
  phase,        \* phase[t]: where in publish t is
  todo,         \* todo[t]: queues of its copy t has still to fill
  target,       \* target[t]: the full queue t is making room in
  lost          \* history: what s never gets to read, and at which end of
                \* the queue it was dropped: <<event, "oldest">> or "newest"

brokerVars == <<subscribers, queue, publishing, phase, todo, target, lost>>

BrokerInit ==
  /\ subscribers = {}
  /\ queue = [s \in Subscriber |-> <<>>]
  /\ publishing = [t \in Publisher |-> NoEvent]
  /\ phase = [t \in Publisher |-> "idle"]
  /\ todo = [t \in Publisher |-> {}]
  /\ target = [t \in Publisher |-> {}]
  /\ lost = [s \in Subscriber |-> {}]

Full(s) == Len(queue[s]) >= Capacity

Subscribe(s) ==
  /\ subscribers' = subscribers \cup {s}
  /\ UNCHANGED <<queue, publishing, phase, todo, target, lost>>

(* A publisher that copied the set earlier still fills the queue, which    *)
(* nobody reads any more.                                                  *)
Unsubscribe(s) ==
  /\ subscribers' = subscribers \ {s}
  /\ UNCHANGED <<queue, publishing, phase, todo, target, lost>>

(* publish is called: the set of subscribers is copied under the lock.     *)
BeginPublish(t, e) ==
  /\ phase[t] = "idle"
  /\ publishing' = [publishing EXCEPT ![t] = e]
  /\ todo' = [todo EXCEPT ![t] = subscribers]
  /\ phase' = [phase EXCEPT ![t] = "fill"]
  /\ UNCHANGED <<subscribers, queue, target, lost>>

(* put_nowait succeeds.                                                    *)
Put(t, s) ==
  /\ phase[t] = "fill"
  /\ s \in todo[t]
  /\ ~Full(s)
  /\ queue' = [queue EXCEPT ![s] = Append(@, publishing[t])]
  /\ todo' = [todo EXCEPT ![t] = @ \ {s}]
  /\ UNCHANGED <<subscribers, publishing, phase, target, lost>>

(* put_nowait raises Full.                                                 *)
FindFull(t, s) ==
  /\ phase[t] = "fill"
  /\ s \in todo[t]
  /\ Full(s)
  /\ phase' = [phase EXCEPT ![t] = "evict"]
  /\ target' = [target EXCEPT ![t] = {s}]
  /\ UNCHANGED <<subscribers, queue, publishing, todo, lost>>

DropNewest(t, s) ==
  /\ lost' = [lost EXCEPT ![s] = @ \cup {<<publishing[t], "newest">>}]
  /\ phase' = [phase EXCEPT ![t] = "fill"]
  /\ todo' = [todo EXCEPT ![t] = @ \ {s}]
  /\ target' = [target EXCEPT ![t] = {}]

Evict_WithoutPut(t, s) ==
  /\ phase[t] = "evict"
  /\ s \in target[t]
  /\ queue[s] # <<>>
  /\ queue' = [queue EXCEPT ![s] = Tail(@)]
  /\ lost' = [lost EXCEPT ![s] = @ \cup {<<Head(queue[s]), "oldest">>}]
  /\ phase' = [phase EXCEPT ![t] = "fill"]
  /\ todo' = [todo EXCEPT ![t] = @ \ {s}]
  /\ target' = [target EXCEPT ![t] = {}]
  /\ UNCHANGED <<subscribers, publishing>>

(* get_nowait takes the oldest event out.                                  *)
Evict(t, s) ==
  /\ phase[t] = "evict"
  /\ s \in target[t]
  /\ queue[s] # <<>>
  /\ queue' = [queue EXCEPT ![s] = Tail(@)]
  /\ lost' = [lost EXCEPT ![s] = @ \cup {<<Head(queue[s]), "oldest">>}]
  /\ phase' = [phase EXCEPT ![t] = "again"]
  /\ UNCHANGED <<subscribers, publishing, todo, target>>

(* get_nowait raises Empty, because the reader was faster: the handler     *)
(* passes, and the new event is not put although there is room.            *)
EvictEmpty(t, s) ==
  /\ phase[t] = "evict"
  /\ s \in target[t]
  /\ queue[s] = <<>>
  /\ DropNewest(t, s)
  /\ UNCHANGED <<subscribers, queue, publishing>>

(* The second put_nowait.                                                  *)
PutAgain(t, s) ==
  /\ phase[t] = "again"
  /\ s \in target[t]
  /\ ~Full(s)
  /\ queue' = [queue EXCEPT ![s] = Append(@, publishing[t])]
  /\ phase' = [phase EXCEPT ![t] = "fill"]
  /\ todo' = [todo EXCEPT ![t] = @ \ {s}]
  /\ target' = [target EXCEPT ![t] = {}]
  /\ UNCHANGED <<subscribers, publishing, lost>>

(* It raises Full again: another publisher took the room just made.        *)
PutAgainFull(t, s) ==
  /\ phase[t] = "again"
  /\ s \in target[t]
  /\ Full(s)
  /\ DropNewest(t, s)
  /\ UNCHANGED <<subscribers, queue, publishing>>

(* publish returns.                                                        *)
EndPublish(t) ==
  /\ phase[t] = "fill"
  /\ todo[t] = {}
  /\ phase' = [phase EXCEPT ![t] = "idle"]
  /\ publishing' = [publishing EXCEPT ![t] = NoEvent]
  /\ UNCHANGED <<subscribers, queue, todo, target, lost>>

Fill(t) ==
  \E s \in Subscriber :
    \/ Put(t, s) \/ FindFull(t, s)
    \/ Evict(t, s) \/ EvictEmpty(t, s)
    \/ PutAgain(t, s) \/ PutAgainFull(t, s)

(* EventSubscription.get returns the oldest event.                         *)
TakeEvent(s) ==
  /\ queue[s] # <<>>
  /\ queue' = [queue EXCEPT ![s] = Tail(@)]
  /\ UNCHANGED <<subscribers, publishing, phase, todo, target, lost>>

-----------------------------------------------------------------------------
BrokerTypeOK ==
  /\ subscribers \subseteq Subscriber
  /\ queue \in [Subscriber -> Seq(Event)]
  /\ publishing \in [Publisher -> Event \cup {NoEvent}]
  /\ phase \in [Publisher -> {"idle", "fill", "evict", "again"}]
  /\ todo \in [Publisher -> SUBSET Subscriber]
  /\ target \in [Publisher -> SUBSET Subscriber]
  /\ lost \in [Subscriber -> SUBSET (Event \X {"oldest", "newest"})]

(* docs/phases/phase_3_report.md, lines 85-87: of the bounded queue, "If it*)
(* overflows, oldest live events may be dropped".  The event being put is  *)
(* not the oldest.                                                         *)
NewestIsKept == \A s \in Subscriber : \A e \in lost[s] : e[2] = "oldest"

=============================================================================
