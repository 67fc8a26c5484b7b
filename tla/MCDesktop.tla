----------------------------- MODULE MCDesktop -----------------------------
(* A small instance of Desktop: the user's own channel and another one.    *)
EXTENDS Desktop

CONSTANTS mine, theirs, j1, j2, l1, l2

MCAt == [j \in Request |-> mine]

(* Two requests for a user who selects nothing; no request for a user who  *)
(* goes from channel to channel while both are created, changed and        *)
(* deleted; one request to a channel that another window creates and       *)
(* deletes; one request for a user whose commands and session end; one     *)
(* request and presence.                                                   *)
MCScenario ==
  LET Case(asks, clicks, ends, watch) ==
        [asks |-> asks, clicks |-> clicks, ends |-> ends, watch |-> watch]
  IN  {Case({j1, j2}, {}, FALSE, FALSE), Case({}, {mine, theirs}, FALSE, FALSE),
       Case({j1}, {mine}, FALSE, FALSE),
       Case({j1}, {mine}, TRUE, FALSE), Case({}, {theirs}, TRUE, FALSE),
       Case({j1}, {}, FALSE, TRUE)}

=============================================================================
