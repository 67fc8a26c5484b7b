----------------------------- MODULE WorkerPool -----------------------------
(***************************************************************************)
(* Who waits for whom: the calls of the chat server share one pool of      *)
(* worker threads (server/grpc_server.py).  A plain call keeps its worker  *)
(* for a moment, a stream as long as its client stays, and an assistant    *)
(* call until the LLM server (llm_server/, a process of its own, with a    *)
(* pool and one model behind a lock) has answered or the deadline of       *)
(* server/llm_client.py is over.                                           *)
(***************************************************************************)
EXTENDS FiniteSets, Naturals, Sequences

CONSTANTS
  Plain, Assistant, Stream,   \* clients, by the kind of call they make
  Workers,                    \* size of the chat server's pool
  LlmWorker                   \* workers of the LLM server

Call == Plain \cup Assistant \cup Stream

(* More streams than this occupy the whole pool and stop the server.       *)
ASSUME StreamsLeaveAWorker ==
  /\ IsFiniteSet(Stream) /\ Workers \in Nat
  /\ Cardinality(Stream) < Workers

VARIABLES
  serving,   \* the chat server: "up", "stopping" in its grace, or "cancelling"
  call,      \* call[c]: progress of c's current call
  queue,     \* calls that wait for a worker of the chat server
  up,        \* the LLM server runs
  llmQueue,  \* requests that wait for a worker of the LLM server
  llm,       \* llm[w]: the request worker w has and whether anyone waits for it
  lock       \* the worker that uses the model, or "free"

llmServer == <<up, llmQueue, llm, lock>>
vars == <<serving, call, queue, llmServer>>

FreeWorker == [job |-> "none"]

Init ==
  /\ serving = "up"
  /\ call = [c \in Call |-> "idle"]
  /\ queue = <<>>
  /\ up \in BOOLEAN
  /\ llmQueue = <<>>
  /\ llm = [w \in LlmWorker |-> FreeWorker]
  /\ lock = "free"

Goto(c, s) == call' = [call EXCEPT ![c] = s]

Without(s, c) == SelectSeq(s, LAMBDA x : x # c)

(* Only a queued call and an idle client have no worker.                   *)
HasWorker(c) == call[c] \notin {"idle", "queued"}

-----------------------------------------------------------------------------
(* The clients.                                                            *)
Submit(c) ==
  /\ serving = "up"
  /\ call[c] = "idle"
  /\ Goto(c, "queued")
  /\ queue' = Append(queue, c)
  /\ UNCHANGED <<serving, llmServer>>

(* The client's deadline passes or it goes away.  A request that waits is  *)
(* dropped; an open stream does not know yet; other work goes on.          *)
Leave(c) ==
  /\ \/ /\ call[c] = "queued"
        /\ Goto(c, "idle")
        /\ queue' = Without(queue, c)
     \/ /\ call[c] = "open"
        /\ Goto(c, "left")
        /\ UNCHANGED queue
  /\ UNCHANGED <<serving, llmServer>>

(* ThreadPoolExecutor: first come, first served.                           *)
Dispatch ==
  /\ queue # <<>>
  /\ Cardinality({c \in Call : HasWorker(c)}) < Workers
  /\ Goto(Head(queue), "running")
  /\ queue' = Tail(queue)
  /\ UNCHANGED <<serving, llmServer>>

(* The handler returns, or raises: refused before it began its work.       *)
Finish(c) ==
  /\ call[c] = "running" \/ call[c] = "answering"
  /\ Goto(c, "idle")
  /\ UNCHANGED <<serving, queue, llmServer>>

OpenStream(c) ==
  /\ c \in Stream
  /\ call[c] = "running"
  /\ Goto(c, "open")
  /\ UNCHANGED <<serving, queue, llmServer>>

EndStream_NeverLooks(c) ==
  /\ call[c] \in {"left", "open"}
  /\ UNCHANGED vars

(* Each turn of the stream's loop, after a keepalive at the latest, looks  *)
(* whether the call is still active: the client is there and the server    *)
(* has not cancelled it.                                                   *)
EndStream(c) ==
  /\ \/ call[c] = "left"
     \/ call[c] = "open" /\ serving = "cancelling"
  /\ Goto(c, "idle")
  /\ UNCHANGED <<serving, queue, llmServer>>

-----------------------------------------------------------------------------
(* The assistant's context is built; the request goes to the LLM server,   *)
(* if there is one.                                                        *)
AskModel(c) ==
  /\ c \in Assistant
  /\ call[c] = "running"
  /\ Goto(c, "asking")
  /\ llmQueue' = IF up THEN Append(llmQueue, c) ELSE llmQueue
  /\ UNCHANGED <<serving, queue, up, llm, lock>>

Abandon(c) ==
  llm' = [w \in LlmWorker |->
            IF llm[w] # FreeWorker /\ llm[w].job = c
            THEN [llm[w] EXCEPT !.awaited = FALSE] ELSE llm[w]]

Fallback_WithoutDeadline(c) ==
  /\ call[c] = "asking"
  /\ ~up
  /\ Goto(c, "answering")
  /\ UNCHANGED <<serving, queue, llmServer>>

(* Any RpcError, a passed deadline or a server that is not there, becomes  *)
(* the fallback answer.  A request that waits is dropped, one that has a   *)
(* worker of the LLM server goes on for nobody.                            *)
Fallback(c) ==
  /\ call[c] = "asking"
  /\ Goto(c, "answering")
  /\ llmQueue' = Without(llmQueue, c)
  /\ Abandon(c)
  /\ UNCHANGED <<serving, queue, up, lock>>

(* main, when it is interrupted: server.stop(grace).wait() takes no new    *)
(* call, lets those it has go on, and cancels what is left after the grace. *)
Stop ==
  /\ serving = "up"
  /\ serving' = "stopping"
  /\ UNCHANGED <<call, queue, llmServer>>

GraceEnds ==
  /\ serving = "stopping"
  /\ serving' = "cancelling"
  /\ UNCHANGED <<call, queue, llmServer>>

Serve(c) ==
  Finish(c) \/ OpenStream(c) \/ EndStream(c) \/ AskModel(c) \/ Fallback(c)

-----------------------------------------------------------------------------
(* The LLM server.                                                         *)
TakeJob(w) ==
  /\ llm[w] = FreeWorker
  /\ llmQueue # <<>>
  /\ llm' = [llm EXCEPT ![w] = [job |-> Head(llmQueue), awaited |-> TRUE]]
  /\ llmQueue' = Tail(llmQueue)
  /\ UNCHANGED <<serving, call, queue, up, lock>>

Acquire(w) ==
  /\ llm[w] # FreeWorker
  /\ lock = "free"
  /\ lock' = w
  /\ UNCHANGED <<serving, call, queue, up, llmQueue, llm>>

Respond(w) ==
  /\ call' = IF llm[w].awaited THEN [call EXCEPT ![llm[w].job] = "answering"] ELSE call
  /\ llm' = [llm EXCEPT ![w] = FreeWorker]

(* The request does not pass _context.                                     *)
Invalid(w) ==
  /\ llm[w] # FreeWorker
  /\ lock # w
  /\ Respond(w)
  /\ UNCHANGED <<serving, queue, up, llmQueue, lock>>

Generate_KeepsLock(w) ==
  /\ lock = w
  /\ llm[w] # FreeWorker
  /\ Respond(w)
  /\ lock' \in {"free", w}
  /\ UNCHANGED <<serving, queue, up, llmQueue>>

(* The model has answered or failed (AdapterError, then UNAVAILABLE): the  *)
(* lock is released either way.                                            *)
Generate(w) ==
  /\ lock = w
  /\ Respond(w)
  /\ lock' = "free"
  /\ UNCHANGED <<serving, queue, up, llmQueue>>

(* The LLM server dies, or stops when it is interrupted, and is started    *)
(* again; whoever waits for it gets an RpcError.                           *)
LlmCrash ==
  /\ up
  /\ up' = FALSE
  /\ llmQueue' = <<>>
  /\ llm' = [w \in LlmWorker |-> FreeWorker]
  /\ lock' = "free"
  /\ UNCHANGED <<serving, call, queue>>

LlmStart ==
  /\ ~up
  /\ up' = TRUE
  /\ UNCHANGED <<serving, call, queue, llmQueue, llm, lock>>

LlmWork(w) == TakeJob(w) \/ Acquire(w) \/ Invalid(w) \/ Generate(w)

Next ==
  \/ \E c \in Call : Submit(c) \/ Leave(c) \/ Serve(c)
  \/ Dispatch
  \/ Stop
  \/ GraceEnds
  \/ \E w \in LlmWorker : LlmWork(w)
  \/ LlmCrash
  \/ LlmStart

(* The pool hands out its workers; a handler goes on; a deadline passes.   *)
(* The model answers at last.  Nothing makes a client leave a stream, and  *)
(* nothing starts the LLM server.                                          *)
Fairness ==
  /\ WF_vars(Dispatch) /\ WF_vars(GraceEnds)
  /\ \A c \in Call : WF_vars(Serve(c))
  /\ \A w \in LlmWorker : WF_vars(LlmWork(w))

Spec == Init /\ [][Next]_vars /\ Fairness

-----------------------------------------------------------------------------
(* Chat does not depend on the model: every plain and every assistant call *)
(* that is waiting gets its answer, whatever the model and the other       *)
(* clients do, as long as the streams leave one worker.                    *)
EveryCallAnswered ==
  \A c \in Plain \cup Assistant : call[c] = "queued" ~> call[c] = "idle"

(* A stream whose client has gone gives its worker back, and a server that *)
(* stops gets all of them back, those of open streams and of assistant     *)
(* calls too, so that its process can end.                                 *)
StreamsLetGo ==
  /\ \A c \in Stream : call[c] = "left" ~> ~HasWorker(c)
  /\ serving = "stopping" ~> \A c \in Call : call[c] = "idle"

(* What the LLM server computes for callers that gave up comes to an end:  *)
(* when no assistant call asks any more, it has all its workers again.     *)
LlmComesBack ==
  <>[](\A c \in Assistant : call[c] # "asking")
    => <>[](lock = "free" /\ \A w \in LlmWorker : llm[w] = FreeWorker)

=============================================================================
