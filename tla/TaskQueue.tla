------------------------------ MODULE TaskQueue ------------------------------
(***************************************************************************)
(* What the thread pool promises whoever adds a task, with no workers, no  *)
(* mutex, no condition variable and no ring: a task is accepted only while *)
(* the bounded queue has room and the pool is open, accepted tasks are     *)
(* taken in the order of their acceptance, and a taken task runs once.     *)
(***************************************************************************)
EXTENDS Naturals, Sequences

CONSTANTS Tasks, Capacity

VARIABLES
  pending,   \* accepted and not yet taken, oldest first
  running,   \* taken and not yet finished
  done,      \* finished
  open       \* the pool accepts tasks

vars == <<pending, running, done, open>>

Init ==
  /\ pending = <<>>
  /\ running = {}
  /\ done = {}
  /\ open = TRUE

Accept(t) ==
  /\ open
  /\ Len(pending) < Capacity
  /\ pending' = Append(pending, t)
  /\ UNCHANGED <<running, done, open>>

TakeOldest ==
  /\ pending # <<>>
  /\ Head(pending) \notin running \union done
  /\ running' = running \union {Head(pending)}
  /\ pending' = Tail(pending)
  /\ UNCHANGED <<done, open>>

Finish(t) ==
  /\ t \in running
  /\ running' = running \ {t}
  /\ done' = done \union {t}
  /\ UNCHANGED <<pending, open>>

Close ==
  /\ open
  /\ open' = FALSE
  /\ UNCHANGED <<pending, running, done>>

Next ==
  \/ \E t \in Tasks : Accept(t) \/ Finish(t)
  \/ TakeOldest
  \/ Close

Spec == Init /\ [][Next]_vars
=============================================================================
