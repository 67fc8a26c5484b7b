--------------------------- MODULE ContextWindow ---------------------------
(***************************************************************************)
(* What the assistant may read: AuthorizedContextBuilder.build of          *)
(* server/application/assistant.py chooses and cuts messages of a channel, *)
(* LLMService._context of llm_server/services.py refuses a request that is *)
(* too large or holds an empty body.  A message is a row with a size and a *)
(* time (at): the length of its body, at least 1 and not blank at its      *)
(* first character, as send_message strips it, and when it was made.       *)
(***************************************************************************)
EXTENDS Listings

(* The clauses on created_at                                               *)
InRange(log, range) == {m \in log : m.at \in range}

(* list_context: the newest maxMessages in the range, oldest first.        *)
ListContext(log, range, maxMessages) ==
  Reverse(Prefix(InOrder("history", InRange(log, range)), maxMessages))

(* body[:size]                                                             *)
Cut(m, size) == [m EXCEPT !.size = size]

Take_KeepsGoing(acc, m) ==
  IF acc.remaining < 0 THEN acc
  ELSE LET size == Least(m.size, acc.remaining)
       IN  [selected  |-> Append(acc.selected, Cut(m, size)),
            remaining |-> acc.remaining - size]

(* One turn of the loop: nothing when the budget is used up, else as much  *)
(* of the body as fits.                                                    *)
Take(acc, m) ==
  IF acc.remaining <= 0 THEN acc
  ELSE LET size == Least(m.size, acc.remaining)
       IN  [selected  |-> Append(acc.selected, Cut(m, size)),
            remaining |-> acc.remaining - size]

(* The loop after each number of turns.                                    *)
Turns(messages, maxChars) ==
  LET after[k \in 0..Len(messages)] ==
        IF k = 0 THEN [selected |-> <<>>, remaining |-> maxChars]
        ELSE Take(after[k - 1], messages[k])
  IN  after

(* It goes from the newest message to older ones.                          *)
Build(log, range, maxMessages, maxChars) ==
  LET messages == Reverse(ListContext(log, range, maxMessages))
  IN  Reverse(Turns(messages, maxChars)[Len(messages)].selected)

(* sum(len(item.body) for item in items)                                   *)
Chars(context) ==
  LET ofFirst[k \in 0..Len(context)] ==
        IF k = 0 THEN 0 ELSE ofFirst[k - 1] + context[k].size
  IN  ofFirst[Len(context)]

(* _context: anything else is INVALID_ARGUMENT, which the gateway turns    *)
(* into its fallback answer.                                               *)
Accepted(context, maxMessages, maxChars) ==
  /\ Len(context) <= maxMessages
  /\ Chars(context) <= maxChars
  /\ \A i \in DOMAIN context : context[i].size > 0

=============================================================================
