# A TLA+ model of the distributed real-time chat server

This directory specifies, model-checks and proves properties of the chat server
in `src/server`, with its streams, its SQLite store and its clients.
`PROJECT.json` lists the same things for tools: components, TLC runs, mutants
(one faulty variant of the code per property, which the property must catch),
the map from definitions to source lines, hazards, findings and theorems.

    tlc -workers 2 -config MCChannels.cfg MCChannels.tla      # any run below
    tlapm Channels_proofs.tla                                 # the proofs

## 1. The system

One Python process serves gRPC from a pool of worker threads
(`server/grpc_server.py`). Durable state is one SQLite database in WAL mode plus
uploaded bytes in a directory; live events and presence are in memory. A second
process answers assistant requests; a Tkinter client talks to the chat server
only.

| Component | State | Operations | Hard behaviour |
|---|---|---|---|
| Unit of work (`repositories/sqlite.py`, `database.py`) | one connection and transaction per command; SQLite's single writer slot | enter (BEGIN or BEGIN IMMEDIATE), statements, commit, exit | snapshots, upgrade of a deferred transaction, busy timeout, crash |
| Authentication (`application/auth.py`) | users, sessions (expiry, revocation) | register, login, authenticate, logout | expiry written by a reader, concurrent logout |
| Channels (`application/channels.py`) | channels, channel_members, channel_join_requests | create, list, join, leave, list/decide requests, add/remove member, delete | decisions against asks, removal and deletion; ids reopened |
| Messages (`application/chat.py`) | messages | send, history, authorize a stream | retries, publish after commit |
| Event broker (`events.py`) | set of bounded queues | subscribe, unsubscribe, publish, get | publishers and reader at a full queue |
| Streams (`services.py`) | one queue and one worker thread per stream | SubscribeEvents, SubscribePresence, DownloadFile | authorization that ends while the stream runs |
| Presence (`application/presence.py`) | heartbeats per session, online set, last_seen | heartbeat, expire, get, subscribe | publication outside the lock, clocks read early |
| Files (`application/files.py`) | files table, bytes on disk | upload, list, download | two stores without a common transaction |
| Migrations (`database.py`, `retire_legacy_admin.py`) | schema, schema_migrations | apply, retire the administrators | crash between script and bookkeeping |
| Assistant gateway (`application/assistant.py`, `llm_client.py`) | none | three calls with context and fallback | deadline against a worker of the shared pool |
| LLM server (`llm_server/`) | the model's lock | generate | inference outlives its caller's deadline |
| Desktop client (`client/gui.py`, `client/api.py`) | selected channel, timeline, live stream, requests already shown, presence of others | select, send, poll join requests, heartbeat, fetch presence | calls that fail after they took effect, listener threads that overlap, timers that fire during a dialog |
| Administration (`application/admin.py`, `seed.py`) | roles, archived channels | - | dead code: no service is registered and `require_admin` cannot succeed; old databases still hold its results |

How they interact: every handler in `services.py` calls one application method.
That method authenticates in a unit of work of its own and then runs its command
in a second one. `chat`, `files` and `presence` publish to the one broker after
their state changed; the two subscribe handlers read it. Channels, messages and
files share the membership table; deleting a channel cascades to all of them.
The client polls (membership, join requests, presence) and streams (messages).

What makes each part correct:

- unit of work: commands look atomic, nothing keeps the writer slot;
- channels: nobody enters without a grant, decisions are final, the owner stays
  a member, no rows of deleted channels;
- messages and streams: a key is one message, what is streamed is durable,
  events get through or are dropped on purpose, revoked readers stop reading;
- presence: online means a live heartbeat, each transition is announced once,
  silent users expire;
- files: metadata implies bytes, one row per key, no bytes without a row for ever;
- migrations: each script is applied once, whatever crashes;
- worker pool: a request is eventually served, chat does not wait for the model;
- retirement: it deletes what was the administrators' and nothing else, and keeps
  a backup of it;
- paging and context: a walk sees each item once, the assistant's context fits;
- client: an open channel is heard, each request is put to the user, what the
  user decided is what the server recorded.

## 2. Modules

### Channels (and Channels_proofs, MCChannels)

The tables `channels` (`channel`), `channel_members` (`member`) and
`channel_join_requests` (`joins`), and what clients know (`shown`: ids that
ListJoinRequests returned). One action per operation of `ChannelApplication`;
its guard is the conjunction of the early returns and raised errors, since a
command that does not commit changes nothing. An action is one step because
`UnitOfWork` shows that commands are. A member row carries the command that
inserted it, the abstraction of its `joined_at` timestamp; this is what lets
`MembershipIsGranted` tell an approval from an addition.

`Init` ranges over what earlier releases can have left: legacy channels,
archived or not, with any owner and any members, because the administrators of
those releases created channels without joining them. That is why
`OwnerIsMember` speaks of the channels of this release only. Accounts do not
change while the server runs, so `Account` is a constant. Left out:
`list_channels` and `list_members` (reads), name validation.

### UnitOfWork (and AtomicStore, UnitOfWork_proofs, MCUnitOfWork)

The transactions of every command, statement by statement: `AuthCommand`,
`ChannelCommand`, `ChatCommand` and `FileCommand` list, for each, the mode of
BEGIN and the table each statement reads or writes: a join is one read per table, and a
read that only some calls make is listed for all of them (`authorize_subscription` reads
two channels, which stand for several). `build_context` is the assistant's read.
A table is the number of
commits that wrote it; `snap` is the snapshot of an open transaction. The rules
of SQLite in WAL mode (when a snapshot is taken, when a write gets the slot, when
it fails at once and when it waits) are external and modelled in `Reserve`,
`Snapshot`, `MayWrite`, `UpgradeFails` and `BusyTimeout`. `Raise` stands for any
error after a statement. `Crash` is the death of the process.

`AtomicStore` is what the application layer relies on: a writing command happens
in one step on the state its own reads saw; a reading command sees one committed
state; a failed one does nothing. `UnitOfWork` implements it under the refinement
mapping `ReadView`: a reading command takes effect when its snapshot is taken,
a writing one when it commits.

### EventBroker and Messaging (Messaging_proofs, MCMessaging)

`EventBroker` is `events.py` at the granularity of its queue operations: the copy
of the subscriber set under the lock is one step; each `put_nowait`, `get_nowait`
and second `put_nowait` is one step. `lost` is a history variable.

`Messaging` composes it with `SendMessage` and `SubscribeEvents`. A call is a
user, an idempotency key and a channel, which stands for the whole content (same
key, other content is a conflict). `SendMessage` is: authenticate; the immediate
transaction (`Store`, or `AnswerWithoutStoring`, which is `AnswerDuplicate`, `AnswerConflict` or
`Refuse`); publish after the commit; `Answer`. The history variable `told` holds the messages
that calls were answered with, new or found under their key: `LiveIsDurable` asks of them, as
of what is streamed, that they are rows. `SubscribeEvents` authorizes in two transactions,
subscribes, and for each event authorizes again before it emits. Membership
changes, deletion, revocation and the client's disappearance happen at any moment.
Left out: file events and keepalive contents (they take the same path), message
validation, and archived channels.

### Presence (and Presence_proofs, MCPresence)

`presence.py`: the tables `heartbeats` and `last_seen`, the set `online` and the
clock. A heartbeat is `BeginHeartbeat` (authenticate, read the clock), `Beat`
(everything under the lock: expiry, the new heartbeat, what became of the user)
and then `PublishOffline` / `PublishOnline` for what it found, one event at a
time; other threads go on between any two of these. `Expire` is the body of
`expire`, which GetPresence and each turn of the SubscribePresence loop call.
`announced` is a history variable: the ONLINE events published for a user less
the OFFLINE ones.

The code promises less than it may seem, and the properties say exactly how much.
Events are published after the lock is released, so an OFFLINE can overtake the
ONLINE that follows it; `ChangesAnnouncedOnce` says that each transition is
published once, not in which order. A heartbeat that waited for the lock can
write an older time over a newer one of the same session, so `last_seen` can go
back, and a user can go offline sooner than a timeout after the newest heartbeat
that was received; `OfflineMeansSilence` is about `last_seen` for that reason.

### FileUpload (and FileUpload_proofs, MCFileUpload)

`files.py` over its two stores, the table (`rows`) and the storage directory
(`part`, the temporary file, and `final`, the renamed one). An attempt is one call
of UploadFile with a fixed header; two attempts of one user and key are a call and
its retry, or a misuse of the key. Its steps are those between which another
thread or a crash can come: `Check` (first transaction), `Receive` or `Reject` (the
chunks, which may differ from what was declared), `Rename`, `Register` or
`RegisterFails` (second transaction), then `Publish`, `DropCopy` (the key was used
meanwhile) or `Discard` (the except clause). A download is `Allow` (one
transaction) and two openings of the file (`Open`). `Crash` keeps what is committed
and what is in the directory; nothing at start looks at the directory, so
`NothingLeftBehind` says exactly what can stay: files of uploads that died and of
channels that were deleted.

### Migrations and Retirement (Retirement_proofs, MCMigrations, MCRetirement)

`Migrations` is `apply_migrations`: `executescript` makes each CREATE durable by
itself, and the row of `schema_migrations` is a later transaction, so `Create`,
`Collide`, `Record` and `Interrupt` are steps of their own. `MigrationsInit` is an empty
database or the complete schema of an earlier release.

`Retirement` extends it with `retire_legacy_admin.py`: migrate, read the
administrators, read their channels, check the others, back up, delete in one
transaction. Only the last is protected against services that were not stopped,
which the model lets write between any two steps. The foreign keys are in
`Referenced` and `DeleteRows`. `erased` and `late` are history variables. That
`executescript` can be interrupted between two CREATEs is why `ToolMigrates` can
fail here too. Two runs of the command at once are left out.

### WorkerPool (MCWorkerPool)

The thread pool of `server/grpc_server.py` shared by plain calls, streams and
assistant calls; the LLM server with its own queue, workers and the lock around
the model; deadlines and the fallback; the shutdown with its grace. A call is only
its progress; what it does is in the other modules. `StreamsLeaveAWorker`, fewer
streams than workers, is an assumption: the server does not enforce it, and with as
many streams as workers no other call is ever served.

### Listings, ContextWindow and Paging (Paging_proofs, MCPaging)

`Listings` is ORDER BY and LIMIT as operators: in `InOrder` the i-th row is the one
that i - 1 rows come before. `ContextWindow` is the assistant's context as functions:
which messages `list_context` returns, how `build` cuts them from the newest to the
oldest (`Turns` is its loop after each number of turns, a recursive function), what
the LLM server accepts (`Chars` is its sum). `Paging` is the walk through the history, the files or the
channels, page by page, with rows inserted and deleted between two pages: keyed
cursors for the first two, an offset for the channels. `WalkIsExact` compares a
walk with what was there when it began; `ContextFits` says, for every range and limit,
that what `Build` returns is accepted, holds only newest messages of the range
(`Newest`, defined by counting), each whole but the oldest, in order, and that one is
left out only when newer ones use up the characters. The desktop client reads only
the first page of a history; walks through histories are what the protocol offers.

### Desktop (and Desktop_proofs, MCDesktop)

One window. `tk` is what its Tk thread does: nothing, loading a channel, polling
join requests, deciding one, refreshing. Between two remote calls of one handler the
server, other clients (`Server`) and the listener threads (`Connect`, `HearStale`,
`Break`) move on. `_select_channel` is `SelectChannel` and then `StartStream` or
`LoadFails`; `_poll_join_requests` is `Poll` or `PollStale`, `ListRequests` per
channel, `AskUser` and `Decide` or `DecideFails` per request, and `EndPoll`. A
decision whose answer is lost may still arrive (`onTheWay`, `Arrives`); another
window of the same user may decide first (`DecidedElsewhere`), and create or delete the
user's own channels, with their requests (`ChangeRole`). A stream may end with a failure that
the status line shows or with CANCELLED, of which it says nothing (`Break`). The presence fetch
is three timers' work: `ScheduleFetch`, `FetchEnds` on the worker, `Drain`; timers
also fire while a dialog is open (`TimersRun`). `view` and `answered` are history
variables: what the user was told of the stream, and what they answered.

## 3. Runs

| Run | Shows | Bounds |
|---|---|---|
| `channels` | `OwnerIsMember`, `NoOrphanRows`, `JoinRowsKeyed`, `MembershipIsGranted`, `DecisionIsFinal`, `ApprovalAdmits`, `TypeOK` | 2 users and a retired administrator, 1 legacy and 1 new channel, 2 names, 3 join ids |
| `unit_of_work` | `CommandsAreAtomic` (refinement), `WriterIsCurrent`, `OnlyDeferredUpgradesFail`, `SlotComesBack` (liveness), `TypeOK` | 2 threads, 6 commands covering every mode, `MaxVersion` = 2 |
| `uow_upgrade` | violated: `UpgradeNeverFails` | 2 threads, 3 commands |
| `messaging` | `DeliveredOnce`, `LiveIsDurable`, `OneLateMessageAtMost`, `Delivered` (liveness), `TypeOK` | 2 workers, 3 calls with 2 keys, 1 stream, queue of 1 |
| `broker_newest` | violated: `NewestIsKept` | as `messaging` |
| `files` | `RowsHaveBytes`, `AnswersAreStored`, `NothingLeftBehind`, `DownloadsFindBytes` | 2 users, 2 channels, 1 key, 3 attempts (call, retry, reuse of the key), 1 download |
| `retirement` | `RecordedMeansComplete`, `ReferencesHold`, `NothingLost`, `OthersKeepData` | 2 starters (the command, a server), 2 scripts of 2 and 1 statements, 1 administrator, 1 user, 2 channels, 2 rows of content |
| `migrate_restart` | violated: `StartsNeverCollide` | 1 starter, 3 scripts |
| `pool` | `EveryCallAnswered`, `StreamsLetGo`, `LlmComesBack` (all liveness) | 2 workers, 1 stream, 1 plain and 2 assistant clients, 2 LLM workers |
| `paging` | `WalkIsExact`, `ContextFits` | 4 rows, pages of 1 and 2, 2 lengths, 2 times |
| `desktop` | `OpenIsHeard`, `DecisionsAreMine`, `EveryRequestAsked`, `StaleListenersEnd`, `PresenceCatchesUp` (the last three liveness) | 2 channels, 2 requests, 2 listener threads, 6 scenarios |
| `presence` | `OnlineHasHeartbeat`, `ChangesAnnouncedOnce`, `OfflineMeansSilence`, `SilentUsersExpire` (liveness), `TypeOK` | 2 users, 3 sessions, 2 workers, 1 stream, `Timeout` = 2, `MaxClock` = 3 |

Why the bounds are enough. Channels: three ids are needed to ask, be decided, ask
again and be decided by a client that still holds the old id; two users are the
owner and the other one; a second channel makes cross-channel confusion possible.
Ids are never reused, so the instance ends when they are used up, and the run
checks no deadlock; nor does `desktop`, where a closed window ends the behaviour. UnitOfWork: conflicts are between two transactions; the
six commands read and write overlapping tables, in both modes and with several
writes; a table is written twice, so a snapshot can be out of date and the next
one current. Messaging: two workers are the two publishers that can meet at a
queue or retry one key; a queue of one is full after one event, and 1000 in the
server changes the number of puts only; the stream's membership can end and come
back (`Changing`), its channel can be deleted (`Deletable`). Presence: two sessions of
one user are what tells a session's expiry from the user's; with a timeout of two
ticks a heartbeat can be young, exactly at the limit or past it, and three ticks
let a reading of time 0 get the lock after one of time 2 or 3 expired it. When the
clock stops at `MaxClock` threads go on, so no behaviour ends there. Files: the
three attempts are the three ways a key is used (first, again with the same request,
again with another one), each pair of which can overlap at every step; the crash
can come between any two. Retirement: one script with two statements is what a kill
can cut; one administrator and one user own either channel, and two rows are one
before and one after any read. Pool: two workers of which a stream holds one
leave the minimum the assumption grants; two assistant callers make one wait for
the other's lock, and outnumber the free worker. Paging: four rows are two pages of
two, or four of one, with the row that tells whether there is more at each place;
channel names are chosen in any order, so rows come and go on both sides of the
offset. Desktop: two requests are one that fails and one that waits behind it; two
channels are where the user is and where they came from; two threads are the new
listener and the late one, and a third would only be a second late one. The scenarios
(`MCScenario`) split one large instance by what happens in it; each of the hazards
lies within one of them, and the theorems cover every combination.

Fairness. A thread that is inside a command, a publish or a stream's loop goes on
with it (weak fairness of `Step(p)`, `Work(w)` and `Serve(s)`): they run on
threads of their own and never wait for one another, except for the writer slot,
whose waiters time out. A thread of `Presence` finishes what it began
(`Finish(t)`), and the loop of an open SubscribePresence stream, which waits 0.05 s
for an event, comes back to `Expire(t)`; the run has one stream that stays open,
with a client that reads it. In `WorkerPool` the pool hands out workers, each handler goes on, a
deadline passes in the end (`Fallback` and the grace), and the model answers or
fails at last (weak fairness): `LlmComesBack` rests on the last, the answers to
chat calls do not. No client has to leave a stream, and nobody has to start the LLM server. In
`Desktop` the Tk thread goes on with what it does (weak fairness of `Tk`), the user
answers a dialog, and a keepalive reaches each listener. `Poll`, `ListRequests`,
`Decide`, `ScheduleFetch` and `Drain` get strong fairness: the timers fire for as
long as the window lives, but another handler may have the thread, and a call
may fail, any number of times before one succeeds. No fairness is assumed of clients, of other commands, of
crashes, or of starting a command.

## 4. Proofs

`Channels_proofs` proves with TLAPS, for every value of the constants that
satisfies `AccountAssumption`, `LegacyAssumption` and `JoinIdAssumption`, all
seven properties of the `channels` run. The inductive invariant `IInv` is
`TypeOK /\ OwnerIsMember /\ NoOrphanRows /\ JoinRowsKeyed`: there is one lemma
per action (`CreateChannelIInv`, ...), with shared ones for inserting and
removing a member, combined in `NextIInv`. It is needed because

- `NoOrphanRows` alone does not survive an approval unless requests belong to
  existing channels, which is its own second half;
- `DecisionIsFinal` needs that an id names one row and that a new row gets an id
  never issued before (`JoinRowsKeyed`): otherwise an approval of one row could
  be read as a change of another;
- `MembershipIsGranted` needs the types of `member` (an approval writes the id of
  its request) and that member rows start in unused channels as absent
  (`NoOrphanRows`).

`UnitOfWork_proofs` proves, from `OpAssumption` and `ProcAssumption` (the value
for "nobody" is no thread), the four safety properties of `unit_of_work` for any number of
threads and any choice of the server's commands; among them that `UnitOfWork` implements
`AtomicStore`. The invariant `IInv` is `TypeOK` and `UnitInv` for each
thread: `SlotInv` is `WriterIsCurrent`; `ProgressInv` says that what a unit of work
has read and written is what the statements before the one it is at read and
write; `SnapshotInv` who has a snapshot and who must hold the slot by now; `ViewInv`
that all reads saw one snapshot. None of them is inductive alone: a writer stays
current because a commit needs the slot, a commit needs the slot because `wrote`
is empty without it, and `wrote` is known from the program. What the 25 programs have in
common is stated once (`WellFormed` and `WaitsToWrite`, in `Programs`) and is all the
proof uses of them, so that another command of the same shape changes one lemma.
For the refinement, reads and writes before the end are stutters (`RefineStatement`),
the snapshot of a reading command is an `Observe`, and a commit of a writing one happens on
the state it read because its snapshot is the store.

`Messaging_proofs` proves `TypeOK`, `DeliveredOnce`, `LiveIsDurable` and
`OneLateMessageAtMost` for any number of workers, calls, streams and any capacity of the
queues, with `EventBroker` inside. The first two are inductive only together
with where a message can be: in the hands of one worker (`CarryInv`, from
`INSERT OR IGNORE`), still to be put for a stream and nowhere in it (`NotYetInv`),
or in one place of the stream, once (`PlaceInv`, `SeenInv`). `ToldInv` says the same of answers:
whoever was told of a message was told of a row, a duplicate of the one its key found.
`PublishInv` ties a
worker's place in `SendMessage` to its place in `publish`. `LateInv` is
the order of the rechecks: after its late message a stream is at the loop or before
the half of the recheck that it fails, and so emits no second one.
Two more theorems say what becomes of a committed message, which `Delivered` asks
with fairness and one instance. `NoMessageVanishes`: no step takes a message of a watched
channel from a subscribed stream without moving it on (to be put, queued, held,
emitted, dropped), unless the stream ends; it rests on `HeldInv`, that a stream
holds nothing when it asks for the next event. `OneFateForEachMessage`: what `lost` records
is never emitted (`DroppedInv`), so that `Delivered` is not met twice over by one message.

`Presence_proofs` proves, from `PresenceAssumption`, all four safety properties of
`presence` for every number of users, sessions and threads and every timeout. The
invariant adds `LastSeenIsBacked`: every online
user has a heartbeat on record at least as new as their `last_seen`. Without it a
late heartbeat could leave a `last_seen` ahead of all heartbeats, and an expiry
could take offline a user seen a moment ago. `ExpiryKeepsBacking` is the lemma
about `_expire_locked` that `Expire` and `Beat` share: if the heartbeat that backs
`last_seen` is removed and another one of the user stays, the one that stays is
newer. `ChangesAnnouncedOnce` counts threads, so the pool is assumed finite (it has
`max_workers`). It needs `OneAtATime`: a thread that waits for the lock has nothing left
to publish, and has one ONLINE at most after it, so that what a publication takes out
of the count it adds to `announced` (`PendingChange`).

`FileUpload_proofs` proves, from `HeaderAssumption`, the four properties of
`files` for any number of attempts, keys and downloads. The invariant `IInv` needs
more than they say: `InsertedInv` speaks also of rows that a deletion of their
channel has removed since a call learned of them (two rows of one user, key and
channel are one row, then and now), and `HoldsInv` ties the row that a call
remembers (`prior`, `answer`) to the call's own key. Without them two answers to one
request could name different rows.

`Retirement_proofs` proves, from `ScriptsAssumption` and `ToolAssumption`, that
what `schema_migrations` records is complete (`MInv`: the recorded scripts are an
initial segment, a running start has made the statements before the one it is at)
for `Migrations` and for `Retirement`, and the three properties of the retirement
(`RInv`), where `ToolInv` says what the command's earlier reads are still good for
when it deletes: its channels still belong to its administrators.

`Desktop_proofs` proves, from `DesktopAssumption`, `DecisionsAreMine` and
`OpenIsHeard` for any number of channels, requests, threads and any scenario.
`AskInv` is what makes the first inductive: what the poll still has to ask was not
decided before, and the call on its way carries the user's last answer. The second
needs that the Tk thread is busy only in a window that is signed in (`TkTypeOK`).

`Paging_proofs` proves, from `PagingAssumption`, `WalkIsExact` for any number of rows
and any page size. A listing is never unfolded: `Positions` and `EveryPosition` show that the
number of rows before a row is a bijection from the rows to their positions (an injection
between finite sets of one size), which gives `Ordered`, what ORDER BY returns, and `Rest`, that
the rows behind the n-th are the tail of the listing. The invariant for the
history and the files (`KeyInv`) says that what the walk has and what is
below its token make up the listing as it began. It holds through writes because the
row that the token names stays, so that a new rowid, one more than the largest, is
above the token even when it is used again. For the channels (`OffsetInv`), positions
only grow by insertions and only shrink by deletions: without the first what
was returned is before the offset, without the second what was missed is behind it.

It also proves `ContextFits`, for any history, range and limits, with no bound on
lengths. What is true after each turn of a loop is proved by least counterexample:
`UpTo` takes the set of the turns for which it holds and shows, from the library's
well-founded order of the naturals, that a set without a least missing turn misses
none. With it `LoopExists` shows that the recursive functions `Turns` and `Chars`
have a value at every turn. `Chosen` is the invariant of the loop: after k turns
the messages chosen are the first ones, each cut to what the budget lost in its
turn, all k of them while anything is left, and only the last of them shorter than it was, when
nothing is. The sum of the chosen lengths is then a telescope, `maxChars` less what
is left (`CharsOfChosen`), which gives both limits of the LLM server and that
something is left out only at exactly `maxChars`.

Model-checked only: the liveness properties, since TLAPS proves nothing about
fairness. Every safety property of the passing runs is a theorem.

## 5. Disagreements with the documents

- `uow_upgrade`: `docs/phases/phase_3_report.md:65-68` (and
  `docs/architecture.md:93-95`) say that write commands wait for the writer slot
  instead of failing in a deferred upgrade. `leave_channel`, `login` and the
  revocation of an expired session begin deferred and read first, so SQLite fails
  their write when another command commits in between or is writing.
- `broker_newest`: `docs/phases/phase_3_report.md:85-87` says that the oldest
  live events may be dropped. When publishers, or a publisher and the reader,
  meet at a full queue, the newest one is dropped.

- `migrate_restart`: `src/server/database.py:31` says that each migration is applied
  once, and `docs/phases/phase_2_report.md:28` calls the infrastructure repeatable.
  A process that is killed between a CREATE and the row that records its script
  leaves objects that the next start tries to create again; that start, and every
  later one, fails.

## 6. Not modelled, and why

- Administration (`application/admin.py`): dead in this release, no service is
  registered and `require_admin` cannot succeed; `seed.py` prints a notice. What
  they left in old databases is the nondeterminism of `Channels!Init` and
  `Retirement!Init`.
- Configuration, metadata, error and domain types: immutable values, parsing and
  logging. The command line client: one health call. `proto/`: generated.
- Sessions: password hashing, the user list, and the clock of a session's lifetime.
  An expiry is an event that may come at any time, in the commands of `UnitOfWork`
  and as the end of the session in `Messaging` and `Desktop`.
- The desktop client's timeline lines, send, member list, upload and download,
  assistant thread, and its own heartbeat's status line. They are straight-line
  handlers whose hazards are the gap and the duplicates below.
- SQLite, gRPC and the model runtime: external, modelled only by what the code relies
  on.

Behaviour seen while modelling that contradicts no document, and so has no run:

- `gui.py` reads the history before the stream subscribes; a message committed in
  between is shown by neither until the channel is selected again.
- Quick selections can leave two listeners on one channel for a while
  (`_start_stream` cancels the call it knows of, and a thread stores its call only
  after it subscribed); each line of the channel is then shown twice. `StaleListenersEnd`
  is about listeners of other channels only for that reason.
- A stream that breaks is reported in the status line and not opened again; one that
  ends with CANCELLED is not even reported (`gui.py:468`), although a server whose grace
  runs out ends its streams that way (`main.py:59`).
- A manual Refresh between the approval of the user's own request and the next poll
  makes the poll see no change, so the selected channel stays closed until it is
  clicked (`gui.py:549` and `gui.py:565`).
- `api.py:205` makes a new idempotency key for each send: a user's second try after
  a timeout is a second message.
- A failed download may leave a partial destination file (`api.py:277`), when the stream breaks off.
- Live events may come in another order than the history, and an OFFLINE may follow the
  ONLINE that came after it (see Presence).

`docs/phases/phase_3_report.md:212` says that an open stream does not look at membership
again. It describes an earlier release: `docs/phases/channel_management_enhancement.md:35-37`,
`docs/architecture.md:100-102` and `docs/api_contracts.md:72-73` say that it does, as the code
and `OneLateMessageAtMost` do.

What the properties of some hazards do not reach:

- the pool of workers (`grpc_server.py:93`): `EveryCallAnswered` assumes
  `StreamsLeaveAWorker`, and says nothing of a server whose streams hold every worker;
- the model's lock (`adapters.py:114`): `LlmComesBack` is about work that nobody waits for
  any more; new calls that queue behind it until their own deadlines are answered by the
  fallback, which `EveryCallAnswered` allows;
- the order of the poll (`gui.py:562`): `EveryRequestAsked` assumes that no decision fails for
  ever. One that did, listed first, would keep the requests behind it from being asked; no
  such failure is reachable in this release.

## 7. Plan

Every safety property of the passing runs is a theorem. What could still be added:

- liveness beyond the instances of the runs, when the proof system can reason
  about fairness; `NoMessageVanishes` is the step it would need for `Delivered`;
- the safety of `WorkerPool` (no more calls in hand than threads, one request at a
  time in the model), which holds there by the shape of the model and would say more in a
  model of `ThreadPoolExecutor` itself;
- the hazards of `PROJECT.json` without a property, which are behaviour that no document
  rules out: a property would have to say first what the order of live events
  or of two logouts should be.
