---------------------------- MODULE AtomicStore ----------------------------
(***************************************************************************)
(* What the application layer assumes of its units of work: a command that *)
(* writes takes effect in one step, on the state that its own reads saw; a *)
(* command that only reads sees one committed state; a command that fails  *)
(* or is lost in a crash has no effect.                                    *)
(***************************************************************************)
EXTENDS Naturals

CONSTANTS
  Proc,     \* the threads that run commands
  Table,    \* the tables of the database
  Op,       \* the commands
  Reads,    \* Reads[o]: the tables command o reads
  Writes    \* Writes[o][t]: how many of o's statements write table t

VARIABLES
  store,    \* store[t]: how many writes to table t are committed
  op,       \* op[p]: the command p runs, or "idle"
  result    \* result[p]: table versions the last command read, or <<>>

vars == <<store, op, result>>

ReadOnly(o) == \A t \in Table : Writes[o][t] = 0
View(o) == [t \in Reads[o] |-> store[t]]

Init ==
  /\ store = [t \in Table |-> 0]
  /\ op = [p \in Proc |-> "idle"]
  /\ result = [p \in Proc |-> <<>>]

Start(p, o) ==
  /\ op[p] = "idle"
  /\ op' = [op EXCEPT ![p] = o]
  /\ result' = [result EXCEPT ![p] = <<>>]
  /\ UNCHANGED store

Apply(p) ==
  /\ op[p] # "idle"
  /\ ~ReadOnly(op[p])
  /\ store' = [t \in Table |-> store[t] + Writes[op[p]][t]]
  /\ result' = [result EXCEPT ![p] = View(op[p])]
  /\ op' = [op EXCEPT ![p] = "idle"]

Observe(p) ==
  /\ op[p] # "idle"
  /\ ReadOnly(op[p])
  /\ result[p] = <<>>
  /\ result' = [result EXCEPT ![p] = View(op[p])]
  /\ UNCHANGED <<store, op>>

Answer(p) ==
  /\ op[p] # "idle"
  /\ ReadOnly(op[p])
  /\ result[p] # <<>>
  /\ op' = [op EXCEPT ![p] = "idle"]
  /\ UNCHANGED <<store, result>>

Fail(p) ==
  /\ op[p] # "idle"
  /\ op' = [op EXCEPT ![p] = "idle"]
  /\ result' = [result EXCEPT ![p] = <<>>]
  /\ UNCHANGED store

Crash ==
  /\ op' = [p \in Proc |-> "idle"]
  /\ result' = [p \in Proc |-> <<>>]
  /\ UNCHANGED store

Next ==
  \/ \E p \in Proc : \/ \E o \in Op : Start(p, o)
                     \/ Apply(p)
                     \/ Observe(p)
                     \/ Answer(p)
                     \/ Fail(p)
  \/ Crash

Spec == Init /\ [][Next]_vars

=============================================================================
