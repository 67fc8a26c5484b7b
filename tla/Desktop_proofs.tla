--------------------------- MODULE Desktop_proofs ---------------------------
(***************************************************************************)
(* The two safety properties of Desktop, for every set of channels,        *)
(* requests and listener threads and every scenario.                       *)
(***************************************************************************)
EXTENDS Desktop, TLAPS

Answer == {"approved", "rejected"}

PollState ==
  [at : {"polling"}, left : SUBSET Own, todo : SUBSET Request, changed : BOOLEAN]

TkState ==
  {Idle, [at |-> "loading"], [at |-> "refreshing"]} \cup PollState
    \cup [at : {"deciding"}, id : Request, approve : BOOLEAN, poll : PollState]

TkTypeOK ==
  /\ tk \in TkState
  /\ tk # Idle => signed = "in"

(* What the poll still has to ask was not decided, and the call on its way *)
(* carries the user's last answer.                                         *)
AskInv ==
  /\ tk.at = "polling" => tk.todo \cap seen = {}
  /\ tk.at = "deciding" =>
       /\ tk.poll.todo \cap seen = {} /\ tk.id \notin seen
       /\ answered[tk.id] = Status(tk.approve)

DecisionInv ==
  /\ request \in [Request -> {"none", "pending", "gone"} \cup Answer]
  /\ answered \in [Request -> {None} \cup Answer]
  /\ seen \subseteq Request
  /\ \A j \in seen : answered[j] \in Answer
  /\ DecisionsAreMine
  /\ AskInv

(* A window that shows a channel as open is signed in.                     *)
ListenerInv ==
  /\ listener \in [Listener -> {Off} \cup [state : {"starting", "open"}, chan : {None} \cup Chan]]
  /\ selected \in {None} \cup Chan
  /\ view = "live" => signed = "in"
  /\ OpenIsHeard

-----------------------------------------------------------------------------
(* The Tk thread has something to do only in a window that is signed in.   *)
LEMMA TkStep ==
  ASSUME TkTypeOK, [Next]_vars
  PROVE  TkTypeOK'
<1> USE DEF server, window, people
<1>1. CASE UNCHANGED vars
  BY <1>1 DEF vars, TkTypeOK
<1>2. CASE Server
  BY <1>2 DEF Server, ChangeRole, Ask, DecidedElsewhere, Arrives, SessionEnds, ChangePresence, TkTypeOK
<1>3. CASE SignIn \/ Leave \/ DeleteChannel \/ Close \/ Refresh
  BY <1>3 DEF SignIn, Leave, LeaveChannel, DeleteChannel, Close, Refresh, AtRest, TkTypeOK, TkState
<1>4. ASSUME NEW c \in Chan, Click(c) PROVE TkTypeOK'
  BY <1>4 DEF Click, SelectChannel, AtRest, TkTypeOK, TkState
<1>5. CASE ScheduleFetch \/ FetchEnds \/ Drain
  BY <1>5 DEF ScheduleFetch, FetchEnds, Drain, TkTypeOK
<1>6. ASSUME NEW l \in Listener, Listen(l) \/ Break(l) PROVE TkTypeOK'
  BY <1>6 DEF Listen, Connect, HearStale, Break, TkTypeOK
<1>7. CASE Tk
  <2> USE <1>7
  <2>1. CASE RefreshFails \/ LoadFails \/ StartStream \/ DecideFails \/ ListFails
    BY <2>1 DEF RefreshFails, LoadFails, StartStream, DecideFails, ListFails, TkTypeOK, TkState
  <2>2. CASE Poll
    <3>1. tk' \in PollState
      BY <2>2 DEF Poll, Polling, PollState
    <3> QED BY <2>2, <3>1 DEF Poll, AtRest, TkTypeOK, TkState
  <2>3. CASE PollStale
    <3>1. tk' \in PollState
      BY <2>3 DEF PollStale, Polling, PollState
    <3> QED BY <2>3, <3>1 DEF PollStale, AtRest, TkTypeOK, TkState
  <2>4. ASSUME NEW c \in Own, ListRequests(c) PROVE TkTypeOK'
    <3>1. tk \in PollState /\ tk # Idle
      BY <2>4 DEF ListRequests, TkTypeOK, TkState, Idle
    <3>2. tk' \in PollState
      BY <2>4, <3>1 DEF ListRequests, PollState
    <3> QED BY <2>4, <3>1, <3>2 DEF ListRequests, TkTypeOK, TkState
  <2>5. ASSUME NEW approve \in BOOLEAN, AskUser(approve) PROVE TkTypeOK'
    <3>1. tk \in PollState /\ tk # Idle
      BY <2>5 DEF AskUser, TkTypeOK, TkState, Idle
    <3>2. tk' \in [at : {"deciding"}, id : Request, approve : BOOLEAN, poll : PollState]
      BY <2>5, <3>1 DEF AskUser, PollState
    <3> QED BY <2>5, <3>1, <3>2 DEF AskUser, TkTypeOK, TkState
  <2>6. CASE Decide
    <3>1. tk.poll \in PollState /\ tk # Idle
      BY <2>6 DEF Decide, TkTypeOK, TkState, Idle, PollState
    <3>2. tk' \in PollState
      BY <2>6, <3>1 DEF Decide, PollState
    <3> QED BY <2>6, <3>1, <3>2 DEF Decide, TkTypeOK, TkState
  <2>7. CASE EndPoll
    <3>1. tk # Idle
      BY <2>7 DEF EndPoll, Idle
    <3>2. tk' \in {Idle, [at |-> "loading"]} /\ signed' = signed
      BY <2>7 DEF EndPoll, SelectChannel
    <3> QED BY <3>1, <3>2 DEF TkTypeOK, TkState
  <2> QED BY <2>1, <2>2, <2>3, <2>4, <2>5, <2>6, <2>7 DEF Tk
<1> QED BY <1>1, <1>2, <1>3, <1>4, <1>5, <1>6, <1>7 DEF Next

(* What the user has answered stays what the server has recorded.          *)
LEMMA DecisionStep ==
  ASSUME TkTypeOK, DecisionInv, [Next]_vars
  PROVE  DecisionInv'
<1> USE DEF server, window, people
<1>a. \A approve : Status(approve) \in Answer
  BY DEF Status, Answer
<1>b. ASSUME UNCHANGED <<request, answered, seen>>, AskInv'
      PROVE  DecisionInv'
  BY <1>b DEF DecisionInv, DecisionsAreMine
<1>c. ASSUME UNCHANGED <<request, answered, seen>>,
             tk' = tk \/ tk'.at \notin {"polling", "deciding"}
      PROVE  DecisionInv'
  BY <1>c, <1>b DEF DecisionInv, AskInv
<1>d. ASSUME UNCHANGED <<answered, seen, tk>>,
             request' \in [Request -> {"none", "pending", "gone"} \cup Answer],
             \A j \in Request : \/ request'[j] \in {request[j], "gone"}
                               \/ request[j] \in {"none", "pending"}
      PROVE  DecisionInv'
  <2>1. ASSUME NEW j \in seen PROVE request'[j] \in {answered[j], "gone"}
    BY <1>d, <2>1 DEF DecisionInv, DecisionsAreMine, Answer
  <2> QED BY <1>d, <2>1 DEF DecisionInv, DecisionsAreMine, AskInv
<1>1. CASE UNCHANGED vars
  BY <1>1, <1>c DEF vars
<1>2. CASE Server
  <2>1. ASSUME NEW c \in Chan, NEW r \in {"member", "outside", "absent"}, ChangeRole(c, r)
        PROVE  DecisionInv'
    <3>1. CASE UNCHANGED request
      BY <2>1, <3>1, <1>c DEF ChangeRole
    <3>2. CASE DropRequests(c)
      BY <2>1, <3>2, <1>d DEF ChangeRole, DropRequests, DecisionInv
    <3> QED BY <2>1, <3>1, <3>2 DEF ChangeRole
  <2>2. ASSUME NEW j \in Request, Ask(j) PROVE DecisionInv'
    BY <2>2, <1>d DEF Ask, DecisionInv
  <2>3. ASSUME NEW j \in Request, NEW approve \in BOOLEAN, DecidedElsewhere(j, approve)
        PROVE  DecisionInv'
    BY <2>3, <1>a, <1>d DEF DecidedElsewhere, DecisionInv
  <2>4. ASSUME NEW d \in onTheWay, Arrives(d) PROVE DecisionInv'
    BY <2>4, <1>a, <1>d DEF Arrives, DecisionInv
  <2>5. CASE SessionEnds \/ ChangePresence
    BY <2>5, <1>c DEF SessionEnds, ChangePresence
  <2> QED BY <1>2, <2>1, <2>2, <2>3, <2>4, <2>5 DEF Server
<1>3. CASE SignIn \/ Leave \/ Close \/ Refresh
  BY <1>3, <1>c DEF SignIn, Leave, Close, Refresh, Idle
<1>4. CASE DeleteChannel
  <2>1. request' \in [Request -> {"none", "pending", "gone"} \cup Answer]
    BY <1>4 DEF DeleteChannel, DropRequests, DecisionInv
  <2>2. \A j \in Request : request'[j] \in {request[j], "gone"}
    BY <1>4 DEF DeleteChannel, DropRequests
  <2>3. \A j \in seen : request'[j] \in {answered[j], "gone"}
    BY <2>2 DEF DecisionInv, DecisionsAreMine
  <2> QED BY <1>4, <2>1, <2>3 DEF DeleteChannel, DecisionInv, DecisionsAreMine, AskInv
<1>5. ASSUME NEW c \in Chan, Click(c) PROVE DecisionInv'
  BY <1>5, <1>c DEF Click, SelectChannel, Idle
<1>6. CASE ScheduleFetch \/ FetchEnds \/ Drain
  BY <1>6, <1>c DEF ScheduleFetch, FetchEnds, Drain
<1>7. ASSUME NEW l \in Listener, Listen(l) \/ Break(l) PROVE DecisionInv'
  BY <1>7, <1>c DEF Listen, Connect, HearStale, Break
<1>8. CASE Tk
  <2> USE <1>8
  <2>1. CASE RefreshFails \/ LoadFails \/ StartStream \/ DecideFails \/ ListFails
    BY <2>1, <1>c DEF RefreshFails, LoadFails, StartStream, DecideFails, ListFails, Idle
  <2>2. CASE Poll \/ PollStale
    BY <2>2, <1>b DEF Poll, PollStale, Polling, AskInv
  <2>3. ASSUME NEW c \in Own, ListRequests(c) PROVE DecisionInv'
    <3>1. tk \in PollState
      BY <2>3 DEF ListRequests, TkTypeOK, TkState, Idle
    <3>2. tk'.at = "polling" /\ tk'.todo \cap seen' = {}
      BY <2>3, <3>1 DEF ListRequests, PollState
    <3> QED BY <2>3, <3>2, <1>b DEF ListRequests, AskInv
  <2>4. ASSUME NEW approve \in BOOLEAN, AskUser(approve) PROVE DecisionInv'
    <3>1. PICK j \in tk.todo :
            /\ tk' = [at |-> "deciding", id |-> j, approve |-> approve, poll |-> tk]
            /\ answered' = [answered EXCEPT ![j] = Status(approve)]
      BY <2>4 DEF AskUser
    <3>2. tk \in PollState /\ tk.at = "polling"
      BY <2>4 DEF AskUser, TkTypeOK, TkState, Idle
    <3>3. j \in Request /\ j \notin seen /\ tk.todo \cap seen = {}
      BY <3>2 DEF PollState, DecisionInv, AskInv
    <3>4. UNCHANGED <<request, seen>>
      BY <2>4 DEF AskUser
    <3>5. AskInv'
      BY <3>1, <3>3, <3>4 DEF AskInv, DecisionInv
    <3>6. \A i \in seen : answered'[i] = answered[i]
      BY <3>1, <3>3 DEF DecisionInv
    <3>7. answered' \in [Request -> {None} \cup Answer]
      BY <3>1, <1>a DEF DecisionInv
    <3> QED BY <3>4, <3>5, <3>6, <3>7 DEF DecisionInv, DecisionsAreMine
  <2>5. CASE Decide
    <3>1. tk.id \in Request /\ tk.poll \in PollState
      BY <2>5 DEF Decide, TkTypeOK, TkState, Idle, PollState
    <3>2. answered[tk.id] = Status(tk.approve) /\ tk.poll.todo \cap seen = {}
      BY <2>5 DEF Decide, DecisionInv, AskInv
    <3>3. AskInv'
      BY <2>5, <3>1, <3>2 DEF Decide, PollState, AskInv
    <3>4. request' = [request EXCEPT ![tk.id] = Status(tk.approve)]
            /\ seen' = seen \cup {tk.id} /\ answered' = answered
      BY <2>5 DEF Decide
    <3>5. request' \in [Request -> {"none", "pending", "gone"} \cup Answer]
      BY <3>1, <3>4, <1>a DEF DecisionInv
    <3>6. \A j \in seen' : answered'[j] \in Answer /\ request'[j] \in {answered'[j], "gone"}
      BY <3>1, <3>2, <3>4, <1>a DEF DecisionInv, DecisionsAreMine
    <3> QED BY <3>1, <3>3, <3>4, <3>5, <3>6 DEF DecisionInv, DecisionsAreMine
  <2>6. CASE EndPoll
    BY <2>6, <1>c DEF EndPoll, SelectChannel, Idle
  <2> QED BY <2>1, <2>2, <2>3, <2>4, <2>5, <2>6 DEF Tk
<1> QED BY <1>1, <1>2, <1>3, <1>4, <1>5, <1>6, <1>7, <1>8 DEF Next

(* Whatever takes a listener away from the channel that is shown as open   *)
(* also changes what is shown.                                             *)
LEMMA ListenerStep ==
  ASSUME TkTypeOK, ListenerInv, [Next]_vars
  PROVE  ListenerInv'
<1> USE DEF server, window, people
<1> DEFINE Threads == [Listener -> {Off} \cup [state : {"starting", "open"}, chan : {None} \cup Chan]]
<1>a. Cancelled \in Threads
  BY DEF Cancelled, ListenerInv
<1>b. ASSUME listener' \in Threads, selected' \in {None} \cup Chan, view' # "live"
      PROVE  ListenerInv'
  BY <1>b DEF ListenerInv, OpenIsHeard
<1>c. ASSUME UNCHANGED <<listener, selected, view>>, signed = "in" => signed' = "in"
      PROVE  ListenerInv'
  BY <1>c DEF ListenerInv, OpenIsHeard
<1>d. ASSUME NEW c \in {None} \cup Chan, SelectChannel(c) PROVE ListenerInv'
  BY <1>a, <1>b, <1>d DEF SelectChannel, Cancel, ListenerInv, None
<1>e. ASSUME ClearSelected PROVE ListenerInv'
  BY <1>a, <1>b, <1>e DEF ClearSelected, Cancel, None
<1>f. ASSUME RefreshChannels, signed' = signed PROVE ListenerInv'
  BY <1>c, <1>e, <1>f DEF RefreshChannels
<1>g. ASSUME NEW l \in Listener, Ends(l), UNCHANGED <<selected, signed>>,
             \/ view' = view /\ (listener[l].chan # selected \/ signed # "in")
             \/ view' \in {"broken", "cancelled"}
      PROVE  ListenerInv'
  <2>1. listener' = [listener EXCEPT ![l] = Off] /\ listener' \in Threads
    BY <1>g DEF Ends, ListenerInv
  <2>2. ASSUME view' = "live"
        PROVE  \E k \in Listener : listener'[k].state # "off" /\ listener'[k].chan = selected'
    <3>1. view = "live" /\ signed = "in" /\ listener[l].chan # selected
      BY <1>g, <2>2 DEF ListenerInv
    <3>2. PICK k \in Listener : listener[k].state # "off" /\ listener[k].chan = selected
      BY <3>1 DEF ListenerInv, OpenIsHeard
    <3> QED BY <1>g, <2>1, <3>1, <3>2
  <2> QED BY <1>g, <2>1, <2>2 DEF ListenerInv, OpenIsHeard
<1>1. CASE UNCHANGED vars
  BY <1>1, <1>c DEF vars
<1>2. CASE Server
  BY <1>2, <1>c DEF Server, ChangeRole, Ask, DecidedElsewhere, Arrives, SessionEnds, ChangePresence
<1>3. CASE SignIn \/ Leave \/ ScheduleFetch \/ FetchEnds \/ Drain
  BY <1>3, <1>c DEF SignIn, Leave, ScheduleFetch, FetchEnds, Drain
<1>4. CASE DeleteChannel
  BY <1>4, <1>e DEF DeleteChannel
<1>5. CASE Close
  BY <1>5, <1>a, <1>b DEF Close, Cancel, None, ListenerInv
<1>6. CASE Refresh
  BY <1>6, <1>f DEF Refresh
<1>7. ASSUME NEW c \in Chan, Click(c) PROVE ListenerInv'
  BY <1>7, <1>d DEF Click
<1>8. ASSUME NEW l \in Listener, Connect(l) PROVE ListenerInv'
  <2>1. listener[l] \in [state : {"starting", "open"}, chan : {None} \cup Chan]
    BY <1>8 DEF Connect, ListenerInv, Off
  <2>2. listener' \in Threads
    BY <1>8, <2>1 DEF Connect, ListenerInv
  <2>3. \A k \in Listener : listener[k].state # "off"
          => listener'[k].state # "off" /\ listener'[k].chan = listener[k].chan
    BY <1>8, <2>1 DEF Connect, ListenerInv
  <2> QED BY <1>8, <2>2, <2>3 DEF Connect, ListenerInv, OpenIsHeard
<1>9. ASSUME NEW l \in Listener, HearStale(l) PROVE ListenerInv'
  BY <1>9, <1>g DEF HearStale
<1>10. ASSUME NEW l \in Listener, Break(l) PROVE ListenerInv'
  BY <1>10, <1>g DEF Break
<1>11. CASE Tk
  <2> USE <1>11
  <2>1. CASE RefreshFails \/ PollStale \/ (\E c \in Own : ListRequests(c)) \/ ListFails
             \/ (\E approve \in BOOLEAN : AskUser(approve)) \/ Decide \/ DecideFails
    BY <2>1, <1>c DEF RefreshFails, PollStale, ListRequests, ListFails, AskUser, Decide, DecideFails
  <2>2. CASE LoadFails
    BY <2>2, <1>b DEF LoadFails, ListenerInv
  <2>3. CASE StartStream
    <3>1. signed = "in"
      BY <2>3 DEF StartStream, TkTypeOK, Idle
    <3>2. PICK l \in Listener : listener' = [Cancelled EXCEPT ![l] = Live("starting", selected)]
      BY <2>3 DEF StartStream
    <3>3. /\ listener' \in Threads
          /\ listener'[l].state # "off" /\ listener'[l].chan = selected
      BY <1>a, <3>2 DEF Live, ListenerInv
    <3> QED BY <2>3, <3>1, <3>3 DEF StartStream, ListenerInv, OpenIsHeard
  <2>4. CASE Poll
    BY <2>4, <1>f DEF Poll
  <2>5. CASE EndPoll
    BY <2>5, <1>c, <1>d DEF EndPoll, ListenerInv
  <2> QED BY <2>1, <2>2, <2>3, <2>4, <2>5 DEF Tk
<1> QED BY <1>1, <1>2, <1>3, <1>4, <1>5, <1>6, <1>7, <1>8, <1>9, <1>10, <1>11 DEF Next, Listen

LEMMA InitInv ==
  Init => TkTypeOK /\ DecisionInv /\ ListenerInv
BY DEF Init, TkTypeOK, TkState, DecisionInv, DecisionsAreMine, AskInv, Idle,
       ListenerInv, OpenIsHeard, Off, None, Answer

-----------------------------------------------------------------------------
(* A request that the client will not ask about again was decided the way  *)
(* the user answered (gui.py, _poll_join_requests), for any number of      *)
(* requests, windows of the user that decide too, and calls that arrive    *)
(* after the client has given them up.                                     *)
THEOREM DecisionsAreAlwaysMine ==
  Spec => []DecisionsAreMine
<1>1. TkTypeOK /\ DecisionInv /\ [Next]_vars => TkTypeOK' /\ DecisionInv'
  BY TkStep, DecisionStep
<1>2. DecisionInv => DecisionsAreMine
  BY DEF DecisionInv
<1> QED BY InitInv, <1>1, <1>2, PTL DEF Spec

(* A window that shows a channel as open has a listener for it (gui.py,    *)
(* _start_stream and _clear_selected_channel), for any number of threads,  *)
(* late ones included.                                                     *)
THEOREM OpenIsAlwaysHeard ==
  Spec => []OpenIsHeard
<1>1. TkTypeOK /\ ListenerInv /\ [Next]_vars => TkTypeOK' /\ ListenerInv'
  BY TkStep, ListenerStep
<1>2. ListenerInv => OpenIsHeard
  BY DEF ListenerInv
<1> QED BY InitInv, <1>1, <1>2, PTL DEF Spec

=============================================================================
