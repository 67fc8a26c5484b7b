------------------------------- MODULE Paging -------------------------------
(***************************************************************************)
(* Listings that take several requests, each a read transaction of its     *)
(* own, while others write: the history and the files of a channel go by   *)
(* the key of the last row (sequence, rowid), the list of the channels by  *)
(* an offset.  A walk asks until the token is empty: the desktop client    *)
(* does so for channels and files, and reads one page of the history.      *)
(***************************************************************************)
EXTENDS ContextWindow

CONSTANTS
  Kind,          \* of listings: some of "history", "files", "channels"
  PageSize,      \* page sizes a client may ask for
  MaxRows,       \* bound: rows written
  Size, Time,    \* lengths and times of messages
  Name           \* channel names, in their order

ASSUME PagingAssumption ==
  /\ Kind \subseteq {"history", "files", "channels"}
  /\ PageSize \subseteq Nat \ {0} /\ Size \subseteq Nat \ {0} /\ Name \subseteq Nat
  /\ MaxRows \in Nat

VARIABLES
  kind,      \* the listing of this behaviour
  limit,     \* its page size
  rows,      \* table rows; here tells whether the listing is about them
  issued,    \* how many rows were ever written, which numbers them
  walk       \* the client's progress and what happened meanwhile

vars == <<kind, limit, rows, issued, walk>>

NoWalk == [state |-> "off"]
NoToken == 0                   \* "", of the first request and the last answer

Init ==
  /\ kind \in Kind
  /\ limit \in PageSize
  /\ rows = {}
  /\ issued = 0
  /\ walk = NoWalk

Walking == walk.state = "walking"

-----------------------------------------------------------------------------
(* The tables.                                                             *)
(* A rowid without AUTOINCREMENT: one more than the largest in use.        *)
NextRowid ==
  CHOOSE k \in 1..(issued + 1) :
    /\ \A r \in rows : r.key < k
    /\ k = 1 \/ \E r \in rows : r.key = k - 1

(* AUTOINCREMENT never uses a number again; a channel has a name, and no   *)
(* other channel has it.                                                   *)
NewKeys ==
  CASE kind = "history" -> {issued + 1}
    [] kind = "files" -> {NextRowid}
    [] kind = "channels" -> Name \ {r.key : r \in rows}

(* Nothing is written between the end of a walk and the next one (bound).  *)
MayWrite == walk.state \in {"off", "walking"}

(* A message, a file or a channel; only messages that are listed have a    *)
(* length and a time.                                                      *)
Insert(key, size, at, here) ==
  /\ MayWrite
  /\ issued < MaxRows
  /\ key \in NewKeys
  /\ \/ kind = "history" /\ here
     \/ size = 1 /\ at = 1
  /\ kind = "channels" => here
  /\ issued' = issued + 1
  /\ rows' = rows \cup {[id |-> issued + 1, key |-> key, size |-> size, at |-> at, here |-> here]}
  /\ walk' = IF Walking THEN [walk EXCEPT !.added = TRUE] ELSE walk
  /\ UNCHANGED <<kind, limit>>

(* The deletion of a channel takes all its messages and files.  (When it   *)
(* is the channel that is being walked, the walk fails.)                   *)
Delete(gone) ==
  /\ MayWrite
  /\ gone # {} /\ gone \subseteq rows
  /\ IF kind = "channels" THEN Cardinality(gone) = 1 ELSE gone = {r \in rows : ~r.here}
  /\ rows' = rows \ gone
  /\ walk' = IF Walking THEN [walk EXCEPT !.removed = TRUE] ELSE walk
  /\ UNCHANGED <<kind, limit, issued>>

-----------------------------------------------------------------------------
Here == {r \in rows : r.here}

Listing == InOrder(kind, Here)

After_Inclusive(token) ==
  InOrder(kind, {r \in Here : token = NoToken \/ r.key <= token})

(* The rows after the token: below a key (WHERE), or behind an OFFSET.     *)
After(token) ==
  IF kind = "channels" THEN SubSeq(Listing, token + 1, Len(Listing))
  ELSE InOrder(kind, {r \in Here : token = NoToken \/ r.key < token})

(* One row more than the page is fetched to see whether there is another.  *)
More(found) == Len(found) > limit

(* get_history, list_files and list_channels: the page and the next token. *)
Response(token) ==
  LET found == Prefix(After(token), limit + 1)
      page == Prefix(found, limit)
  IN  [page |-> page,
       next |-> CASE ~More(found) -> NoToken
                  [] More(found) /\ kind = "channels" -> token + limit
                  [] OTHER -> page[limit].key]

Ids(s) == [i \in DOMAIN s |-> s[i].id]

(* The loop of the client, which collects pages until there is no token.   *)
(* When a token comes again, the loop for channels gives up, and the loop  *)
(* for files would ask for ever: either way the walk has gone wrong.       *)
Page(w) ==
  LET answer == Response(w.token)
  IN  walk' = [w EXCEPT
        !.got = @ \o Ids(answer.page),
        !.token = answer.next,
        !.seen = @ \cup {answer.next},
        !.state = CASE answer.next = NoToken -> "done"
                    [] answer.next # NoToken /\ answer.next \in w.seen -> "repeated"
                    [] OTHER -> "walking"]

Start ==
  /\ ~Walking
  /\ Page([state |-> "walking", token |-> NoToken, seen |-> {}, got |-> <<>>,
           begun |-> Ids(Listing), added |-> FALSE, removed |-> FALSE])
  /\ UNCHANGED <<kind, limit, rows, issued>>

Continue ==
  /\ Walking
  /\ Page(walk)
  /\ UNCHANGED <<kind, limit, rows, issued>>

(* A request fails: the client shows an error and no list.                 *)
Fail ==
  /\ Walking
  /\ walk' = NoWalk
  /\ UNCHANGED <<kind, limit, rows, issued>>

Next ==
  \/ \E key \in 1..MaxRows, size \in Size, at \in Time, here \in BOOLEAN :
       Insert(key, size, at, here)
  \/ \E gone \in SUBSET rows : Delete(gone)
  \/ Start
  \/ Continue
  \/ Fail

Spec == Init /\ [][Next]_vars

-----------------------------------------------------------------------------
(* A walk through the history or the files of a channel returns exactly    *)
(* what the channel held when it began, in order, although rows are added  *)
(* and rowids of other channels' files are used again meanwhile.  The list *)
(* of the channels repeats one only if a channel was created meanwhile,    *)
(* and misses one that is there only if a channel was deleted.             *)
WalkIsExact ==
  /\ walk.state # "repeated"
  /\ walk.state = "done" =>
       IF kind = "channels"
       THEN /\ IsInjective(walk.got) \/ walk.added
            /\ \A r \in rows : Contains(walk.begun, r.id)
                 => Contains(walk.got, r.id) \/ walk.removed
       ELSE walk.got = walk.begun

Newest(range, maxMessages) ==
  {r \in Here : r.at \in range /\
     Cardinality({s \in Here : s.at \in range /\ s.key > r.key}) < maxMessages}

(* The newest messages, each of them whole but the oldest,                 *)
OnlyOldestCut(context, newest) ==
  \A i \in DOMAIN context :
    \E r \in newest : /\ context[i] = Cut(r, context[i].size)
                      /\ context[i] = r \/ (i = 1 /\ context[i].size < r.size)

(* in the order of the channel,                                            *)
OldestFirst(context) ==
  \A i, j \in DOMAIN context : i < j => context[i].key < context[j].key

(* and one left out only when the characters are used up by newer ones.    *)
NewestTaken(context, newest, maxChars) ==
  \A r \in newest :
    \/ \E i \in DOMAIN context : context[i] = r
    \/ Chars(context) = maxChars /\ \A i \in DOMAIN context : r.key <= context[i].key

(* For every range and limit: the request that the gateway builds from the *)
(* messages passes the checks of the LLM server, and is the window of the  *)
(* history that it should be.                                              *)
ContextFits ==
  kind = "history" =>
    \A range \in SUBSET Time, maxMessages \in 1..MaxRows, maxChars \in 1..MaxRows :
      LET context == Build(Here, range, maxMessages, maxChars)
      IN  /\ Accepted(context, maxMessages, maxChars)
          /\ OnlyOldestCut(context, Newest(range, maxMessages))
          /\ OldestFirst(context)
          /\ NewestTaken(context, Newest(range, maxMessages), maxChars)

=============================================================================
