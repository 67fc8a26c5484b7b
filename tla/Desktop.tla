------------------------------ MODULE Desktop ------------------------------
(***************************************************************************)
(* The desktop client, client/gui.py over client/api.py: what its one Tk   *)
(* thread does between two remote calls, the listener threads that read    *)
(* the live streams, the poll that asks the user about join requests to    *)
(* the user's channels, and the worker that fetches the others' presence.  *)
(* Nothing keeps the server, other clients or the other threads from       *)
(* moving while the Tk thread waits for an answer.                         *)
(***************************************************************************)
EXTENDS FiniteSets, Naturals

CONSTANTS
  Chan,
  Own,        \* the user's own channels
  Request,    \* ids of join requests to them
  At,         \* At[j]: the channel of request j
  Listener,   \* threads; how many run at once is bounded by their number
  Scenario    \* bound: which requests come, which channels are clicked,
              \* whether the user leaves, deletes and closes and the session
              \* ends or others change the channels, whether the presence of
              \* another user changes

ASSUME DesktopAssumption ==
  /\ Own \subseteq Chan /\ At \in [Request -> Own]
  /\ Scenario \subseteq
       [asks : SUBSET Request, clicks : SUBSET Chan, ends : BOOLEAN, watch : BOOLEAN]

None == "none"

VARIABLES
  (* the server *)
  role,       \* role[c]: the user is "member" or "outside", or c is not there:
              \* "future" before it is created, "absent" once deleted
  request,    \* request[j]: "none", "pending", "approved", "rejected" or "gone"
  session,    \* the window's session: "none", "valid" or "over"
  presence,   \* whether another user is "online" or "offline"
  onTheWay,   \* decisions whose client has given up waiting
  (* the window *)
  signed,     \* "out" at the login form, "in", or "closed"
  listed,     \* listed[c]: role[c] when the channels were last listed, or "absent"
  selected,   \* the selected channel
  streamCall, \* the listener whose call was stored last, None once it is over
  listener,   \* listener[l]: "off", or its channel, before and after subscribing
  seen,       \* seen_join_requests
  tk,         \* what the Tk thread is doing
  fetching,   \* _presence_fetch_in_progress
  fetched,    \* what the worker is about to put into _presence_results, or has
  shown,      \* presence_by_user, of the other user
  (* history *)
  view,       \* "live" from the start of a stream to the next selection or its end,
              \* "broken" when the user is told of the end, "cancelled" when not
  answered,   \* answered[j]: the user's last answer about j
  scenario    \* what happens in this behaviour

server == <<role, request, onTheWay, session, presence, scenario>>
window == <<signed, listed, selected, streamCall, listener, view>>
people == <<fetching, fetched, shown>>
vars == <<server, window, people, seen, tk, answered>>

Idle == [at |-> "idle"]
Off == [state |-> "off"]
Live(s, c) == [state |-> s, chan |-> c]

Init ==
  /\ request = [j \in Request |-> "none"]
  /\ scenario \in Scenario
  /\ role \in [Chan -> {"member", "outside", "future"}]
  /\ \A c \in Own : role[c] # "outside"
  /\ \A c \in Chan \ scenario.clicks : role[c] = "member"
  /\ scenario.ends => \A c \in Chan : role[c] # "future"
  /\ onTheWay = {}
  /\ session = "none"
  /\ presence = "offline"
  /\ signed = "out"
  /\ fetching = FALSE
  /\ fetched = None
  /\ shown = "unknown"
  /\ listed = [c \in Chan |-> "absent"]
  /\ selected = None
  /\ streamCall = None
  /\ listener = [l \in Listener |-> Off]
  /\ seen = {}
  /\ tk = Idle
  /\ view = None
  /\ answered = [j \in Request |-> None]

(* Timers and widgets act while the window is signed in and the Tk thread  *)
(* waits for nothing; a call is answered while the session is valid.       *)
AtRest == tk = Idle /\ signed = "in"

(* Timers also fire while a dialog waits for the user.                     *)
TimersRun == AtRest \/ (tk.at = "polling" /\ tk.todo # {})

Exists(c) == role[c] \in {"member", "outside"}

Status(approve) == IF approve THEN "approved" ELSE "rejected"

-----------------------------------------------------------------------------
(* The server and the other clients.                                       *)
(* A channel goes with its join requests.                                  *)
DropRequests(c) ==
  request' = [j \in Request |-> IF At[j] = c /\ request[j] # "none"
                                THEN "gone" ELSE request[j]]

(* A channel is created or deleted, one of the user's own in any of the    *)
(* user's windows, or the user joins, is added, leaves or is removed.      *)
ChangeRole(c, r) ==
  /\ c \in scenario.clicks /\ ~scenario.ends
  /\ role[c] \notin {r, "absent"}
  /\ r = "outside" => c \notin Own
  /\ r = "absent" => Exists(c)
  /\ role' = [role EXCEPT ![c] = r]
  /\ IF r = "absent" THEN DropRequests(c) ELSE UNCHANGED request
  /\ UNCHANGED <<session, presence, scenario, onTheWay, window, people, seen, tk, answered>>

Ask(j) ==
  /\ j \in scenario.asks
  /\ request[j] = "none" /\ Exists(At[j])
  /\ request' = [request EXCEPT ![j] = "pending"]
  /\ UNCHANGED <<role, session, presence, scenario, onTheWay, window, people, seen, tk, answered>>

(* DecideJoinRequest takes effect: for another window of the same user, or *)
(* for a call of this one that it no longer waits for.                     *)
DecidedElsewhere(j, approve) ==
  /\ request[j] = "pending"
  /\ request' = [request EXCEPT ![j] = Status(approve)]
  /\ UNCHANGED <<role, session, presence, scenario, onTheWay, window, people, seen, tk, answered>>

(* It expires or is revoked.                                               *)
SessionEnds ==
  /\ scenario.ends
  /\ session = "valid"
  /\ session' = "over"
  /\ UNCHANGED <<role, request, onTheWay, presence, scenario, window, people, seen, tk, answered>>

ChangePresence ==
  /\ scenario.watch
  /\ presence' = IF presence = "online" THEN "offline" ELSE "online"
  /\ UNCHANGED <<role, request, onTheWay, session, scenario, window, people, seen, tk, answered>>

Arrives(d) ==
  /\ onTheWay' = onTheWay \ {d}
  /\ request' = IF request[d.id] = "pending"
                THEN [request EXCEPT ![d.id] = Status(d.approve)] ELSE request
  /\ UNCHANGED <<role, session, presence, scenario, window, people, seen, tk, answered>>

-----------------------------------------------------------------------------
(* Listener threads.  To cancel a call that is over changes nothing.       *)
Cancelled ==
  [l \in Listener |-> IF l = streamCall THEN Off ELSE listener[l]]

Cancel == listener' = Cancelled /\ streamCall' = None

Ends(l) ==
  /\ listener' = [listener EXCEPT ![l] = Off]
  /\ streamCall' = IF streamCall = l THEN None ELSE streamCall

(* Subscribe, then publish the call in self.stream_call.                   *)
Connect(l) ==
  /\ listener[l].state = "starting"
  /\ listener' = [listener EXCEPT ![l].state = "open"]
  /\ streamCall' = l
  /\ UNCHANGED <<server, signed, listed, selected, view, people, seen, tk, answered>>

HearStale_Ignored(l) == listener[l].state = "open" /\ UNCHANGED vars

(* An event, a keepalive at least, for a channel that is not selected any  *)
(* more, or after the window was closed, ends the listener, and so does    *)
(* the server that refuses to go on.                                       *)
HearStale(l) ==
  /\ listener[l].state = "open"
  /\ listener[l].chan # selected \/ signed = "closed"
  /\ Ends(l)
  /\ UNCHANGED <<server, signed, listed, selected, view, people, seen, tk, answered>>

(* The stream fails and the status line says so, except of CANCELLED:      *)
(* that is how a stream may end when the server stops.                     *)
Break(l) ==
  /\ listener[l].state # "off"
  /\ Ends(l)
  /\ IF listener[l].chan = selected /\ signed = "in"
     THEN view' \in {"broken", "cancelled"}
     ELSE UNCHANGED view
  /\ UNCHANGED <<server, signed, listed, selected, people, seen, tk, answered>>

-----------------------------------------------------------------------------
(* _select_channel: what is selected changes at once, what is shown when   *)
(* the members, the history and the files are there.                       *)
SelectChannel(c) ==
  /\ selected' = c
  /\ view' = None
  /\ IF listed'[c] = "member"
     THEN /\ tk' = [at |-> "loading"]
          /\ UNCHANGED <<listener, streamCall>>
     ELSE /\ tk' = Idle
          /\ Cancel

Click(c) ==
  /\ AtRest
  /\ c \in scenario.clicks /\ listed[c] # "absent"
  /\ UNCHANGED <<server, signed, listed, people, seen, answered>>
  /\ SelectChannel(c)

LoadFails ==
  /\ tk.at = "loading"
  /\ view' = "broken"
  /\ tk' = Idle
  /\ UNCHANGED <<server, signed, listed, selected, streamCall, listener, people, seen, answered>>

StartStream_ThenCancel ==
  /\ tk.at = "loading"
  /\ \E l \in Listener :
       /\ listener[l] = Off
       /\ \/ listener' = [Cancelled EXCEPT ![l] = Live("starting", selected)]
          \/ UNCHANGED listener
  /\ streamCall' = None
  /\ view' = "live"
  /\ tk' = Idle
  /\ UNCHANGED <<server, signed, listed, selected, people, seen, answered>>

(* The channel is shown; _start_stream cancels the call it knows of and    *)
(* starts a thread.                                                        *)
StartStream ==
  /\ tk.at = "loading"
  /\ session = "valid"
  /\ \E l \in Listener :
       /\ listener[l] = Off
       /\ listener' = [Cancelled EXCEPT ![l] = Live("starting", selected)]
  /\ streamCall' = None
  /\ view' = "live"
  /\ tk' = Idle
  /\ UNCHANGED <<server, signed, listed, selected, people, seen, answered>>

(* _clear_selected_channel                                                 *)
ClearSelected ==
  /\ selected' = None
  /\ Cancel
  /\ view' = None

(* _refresh_channels: a selected channel that is gone is cleared.          *)
RefreshChannels ==
  /\ listed' = [c \in Chan |-> IF Exists(c) THEN role[c] ELSE "absent"]
  /\ IF selected # None /\ ~Exists(selected)
     THEN ClearSelected
     ELSE UNCHANGED <<selected, listener, streamCall, view>>

(* The button, the end of creating a channel, and what follows the sign-in *)
(* and other commands; an error leaves the old list.                       *)
Refresh ==
  /\ AtRest \/ tk.at = "refreshing"
  /\ session = "valid"
  /\ RefreshChannels
  /\ tk' = Idle
  /\ UNCHANGED <<server, signed, people, seen, answered>>

RefreshFails ==
  /\ tk.at = "refreshing"
  /\ tk' = Idle
  /\ UNCHANGED <<server, window, people, seen, answered>>

-----------------------------------------------------------------------------
(* The user's commands.                                                    *)
(* api.login and api.register: a new session and its token.                *)
LogIn == session' = "valid"

(* api.logout: the token is forgotten, whether or not the call ended the   *)
(* session.                                                                *)
LogOut == session' \in {session, "over"}

(* _login, _register, _signed_in                                           *)
SignIn ==
  /\ signed = "out"
  /\ LogIn
  /\ signed' = "in"
  /\ tk' = [at |-> "refreshing"]
  /\ UNCHANGED <<role, request, onTheWay, presence, scenario, listed, selected, streamCall,
                 listener, view, people, seen, answered>>

(* api.leave_channel succeeds.                                             *)
LeaveChannel(c) ==
  /\ session = "valid"
  /\ c \notin Own
  /\ role[c] = "member"
  /\ role' = [role EXCEPT ![c] = "outside"]

(* _leave: the list follows, the stream is the server's to end.            *)
Leave ==
  /\ AtRest /\ scenario.ends
  /\ selected # None
  /\ LeaveChannel(selected)
  /\ tk' = [at |-> "refreshing"]
  /\ UNCHANGED <<request, onTheWay, session, presence, scenario, window, people, seen, answered>>

(* delete_channel succeeds, with its join requests, and the view is        *)
(* cleared.                                                                *)
DeleteChannel ==
  /\ AtRest /\ scenario.ends
  /\ session = "valid"
  /\ selected \in Own
  /\ Exists(selected)
  /\ role' = [role EXCEPT ![selected] = "absent"]
  /\ DropRequests(selected)
  /\ ClearSelected
  /\ tk' = [at |-> "refreshing"]
  /\ UNCHANGED <<onTheWay, session, presence, scenario, signed, listed, people, seen, answered>>

(* close: cancel, log out (or fail to), destroy.                           *)
Close ==
  /\ AtRest /\ scenario.ends
  /\ signed' = "closed"
  /\ Cancel
  /\ view' = None
  /\ LogOut
  /\ UNCHANGED <<role, request, onTheWay, presence, scenario, listed, selected,
                 people, seen, tk, answered>>

-----------------------------------------------------------------------------
(* Presence of the others, every five seconds: one worker at a time, whose *)
(* result a third timer takes from a queue.                                *)
ScheduleFetch ==
  /\ TimersRun /\ scenario.watch
  /\ ~fetching
  /\ fetching' = TRUE
  /\ fetched' = "running"
  /\ UNCHANGED <<server, window, shown, seen, tk, answered>>

(* api.get_presence may answer this.                                       *)
Answers == IF session = "valid" THEN {presence} ELSE {}

(* A failed call is no proof that the user is offline.                     *)
FetchEnds ==
  /\ fetched = "running"
  /\ fetched' \in {"unknown"} \cup Answers
  /\ UNCHANGED <<server, window, fetching, shown, seen, tk, answered>>

Drain_AppliesOnly ==
  /\ TimersRun
  /\ fetched \notin {None, "running"}
  /\ shown' = fetched
  /\ fetched' = None
  /\ UNCHANGED <<server, window, fetching, seen, tk, answered>>

Drain ==
  /\ TimersRun
  /\ fetched \notin {None, "running"}
  /\ shown' = fetched
  /\ fetched' = None
  /\ fetching' = FALSE
  /\ UNCHANGED <<server, window, seen, tk, answered>>

-----------------------------------------------------------------------------
(* _poll_join_requests, every five seconds: list the channels, ask about   *)
(* each new request of the user's own, and reopen the selected channel if  *)
(* its membership has changed.                                             *)
Polling(changed) ==
  [at |-> "polling", left |-> {c \in Own : listed'[c] # "absent"}, todo |-> {},
   changed |-> changed]

Poll ==
  /\ AtRest
  /\ session = "valid"
  /\ RefreshChannels
  /\ tk' = Polling(selected' # None /\ listed[selected'] # listed'[selected'])
  /\ UNCHANGED <<server, signed, people, seen, answered>>

(* The refresh shows its error and the poll goes on with the old list.     *)
PollStale ==
  /\ AtRest
  /\ UNCHANGED <<server, window, people, seen, answered>>
  /\ tk' = Polling(FALSE)

ListRequests(c) ==
  /\ tk.at = "polling" /\ tk.todo = {}
  /\ session = "valid" /\ Exists(c)
  /\ c \in tk.left
  /\ tk' = [tk EXCEPT !.left = @ \ {c},
              !.todo = {j \in Request : At[j] = c /\ request[j] = "pending"} \ seen]
  /\ UNCHANGED <<server, window, people, seen, answered>>

AskUser(approve) ==
  /\ tk.at = "polling"
  /\ \E j \in tk.todo :
       /\ tk' = [at |-> "deciding", id |-> j, approve |-> approve, poll |-> tk]
       /\ answered' = [answered EXCEPT ![j] = Status(approve)]
  /\ UNCHANGED <<server, window, people, seen>>

Decide_SeenWhateverHappens ==
  /\ tk.at = "deciding"
  /\ request' = IF request[tk.id] = "pending"
                THEN [request EXCEPT ![tk.id] = Status(tk.approve)] ELSE request
  /\ seen' = seen \cup {tk.id}
  /\ tk' = [tk.poll EXCEPT !.todo = @ \ {tk.id}]
  /\ UNCHANGED <<role, session, presence, scenario, onTheWay, window, people, answered>>

(* decide_join_request answers OK when the row is pending, or was decided  *)
(* the same way; only then the id counts as seen.                          *)
Decide ==
  /\ tk.at = "deciding"
  /\ session = "valid"
  /\ request[tk.id] \in {"pending", Status(tk.approve)}
  /\ request' = [request EXCEPT ![tk.id] = Status(tk.approve)]
  /\ seen' = seen \cup {tk.id}
  /\ tk' = [tk.poll EXCEPT !.todo = @ \ {tk.id}]
  /\ UNCHANGED <<role, session, presence, scenario, onTheWay, window, people, answered>>

DecideFails_StopsTheLoop ==
  /\ tk.at = "deciding"
  /\ tk' = [at |-> "stopped"]
  /\ UNCHANGED <<server, window, people, seen, answered>>

(* CONFLICT, or no answer in time: the exception leaves both loops.  The   *)
(* server may still get to the call.                                       *)
DecideFails ==
  /\ tk.at = "deciding"
  /\ tk' = Idle
  /\ onTheWay' \in {onTheWay, onTheWay \cup {[id |-> tk.id, approve |-> tk.approve]}}
  /\ UNCHANGED <<role, request, session, presence, scenario, window, people, seen, answered>>

(* The list of one of the channels does not come: the rest waits for the   *)
(* next poll.                                                              *)
ListFails ==
  /\ tk.at = "polling" /\ tk.todo = {} /\ tk.left # {}
  /\ tk' = Idle
  /\ UNCHANGED <<server, window, people, seen, answered>>

EndPoll ==
  /\ tk.at = "polling" /\ tk.todo = {} /\ tk.left = {}
  /\ UNCHANGED <<server, signed, listed, people, seen, answered>>
  /\ IF tk.changed THEN SelectChannel(selected)
     ELSE tk' = Idle /\ UNCHANGED <<selected, streamCall, listener, view>>

-----------------------------------------------------------------------------
Server ==
  \/ \E c \in Chan, r \in {"member", "outside", "absent"} : ChangeRole(c, r)
  \/ \E j \in Request : \/ Ask(j)
                        \/ \E approve \in BOOLEAN : DecidedElsewhere(j, approve)
  \/ \E d \in onTheWay : Arrives(d)
  \/ SessionEnds \/ ChangePresence

Tk ==
  \/ RefreshFails \/ LoadFails \/ StartStream
  \/ Poll \/ PollStale \/ (\E c \in Own : ListRequests(c)) \/ ListFails
  \/ (\E approve \in BOOLEAN : AskUser(approve)) \/ Decide \/ DecideFails \/ EndPoll

Listen(l) == Connect(l) \/ HearStale(l)

Next ==
  \/ Server
  \/ SignIn \/ Leave \/ DeleteChannel \/ Close
  \/ \E c \in Chan : Click(c)
  \/ Refresh
  \/ ScheduleFetch \/ FetchEnds \/ Drain
  \/ Tk
  \/ \E l \in Listener : Listen(l) \/ Break(l)

(* The timers fire and the Tk thread goes on; the user answers dialogs;    *)
(* keepalives come.  A remote call that is made again and again succeeds   *)
(* at last.                                                                *)
Fairness ==
  /\ WF_vars(Tk)
  /\ SF_vars(Poll)
  /\ \A c \in Own : SF_vars(ListRequests(c))
  /\ SF_vars(Decide)
  /\ SF_vars(ScheduleFetch) /\ SF_vars(Drain)
  /\ WF_vars(FetchEnds)
  /\ \A l \in Listener : WF_vars(Listen(l))

Spec == Init /\ [][Next]_vars /\ Fairness

-----------------------------------------------------------------------------
(* A window that shows a channel as open has a listener for it: no cancel, *)
(* no late thread and no change of the list takes it away, only a failure  *)
(* that the user is told of, or a server that cancels its streams when it  *)
(* stops.                                                                  *)
OpenIsHeard ==
  view = "live" => \E l \in Listener : listener[l].state # "off" /\ listener[l].chan = selected

(* A request that the client will not ask about again was decided the way  *)
(* the user answered, even when answers are lost, calls arrive late or     *)
(* another window of the user decides as well.                             *)
DecisionsAreMine ==
  \A j \in seen : request[j] \in {answered[j], "gone"}

(* Each pending request is put to the user in the end, or was decided      *)
(* elsewhere, whatever failures other requests meet, while the window is   *)
(* open and its session valid.                                             *)
EveryRequestAsked ==
  \A j \in Request :
    request[j] = "pending"
      ~> request[j] # "pending" \/ answered[j] # None \/ session # "valid" \/ signed # "in"

(* A listener for a channel the user has left the view of ends, and so do  *)
(* all when the window is closed, although the close may miss one that is  *)
(* only starting.                                                          *)
Stale(l) ==
  listener[l].state # "off" /\ (listener[l].chan # selected \/ signed = "closed")

StaleListenersEnd == \A l \in Listener : Stale(l) ~> ~Stale(l)

(* The presence shown for another user follows theirs: when it does not    *)
(* change any more, the window shows it in the end, or that it is unknown, *)
(* although fetches fail and results come late.                            *)
PresenceCatchesUp ==
  \A x \in {"online", "offline"} :
    <>[](presence = x /\ scenario.watch /\ signed = "in") => <>[](shown \in {x, "unknown"})

=============================================================================
