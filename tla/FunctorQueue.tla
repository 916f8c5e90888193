---------------------------- MODULE FunctorQueue ----------------------------
(***************************************************************************)
(* What EventLoop::queue_in_loop and EventLoop::run_in_loop promise their  *)
(* callers, with no threads, no eventfd and no epoll: a functor handed to  *)
(* an open loop is called exactly once, functors handed over through the   *)
(* queue are called in the order in which they were handed over, and as    *)
(* long as the loop stays open a queued functor is called eventually.      *)
(***************************************************************************)
EXTENDS Sequences

CONSTANT Functors

VARIABLES
  queue,    \* functors handed over and not yet called, oldest first
  posted,   \* functors handed over so far
  called,   \* functors called so far
  closed    \* the loop has returned from loop()

vars == <<queue, posted, called, closed>>

Init ==
  /\ queue = <<>>
  /\ posted = {}
  /\ called = {}
  /\ closed = FALSE

\* A functor is appended to the queue of an open loop.
Post(f) ==
  /\ ~closed
  /\ f \notin posted
  /\ queue' = Append(queue, f)
  /\ posted' = posted \union {f}
  /\ UNCHANGED <<called, closed>>

\* The oldest queued functor is called.
CallOldest ==
  /\ ~closed
  /\ queue # <<>>
  /\ called' = called \union {Head(queue)}
  /\ queue' = Tail(queue)
  /\ UNCHANGED <<posted, closed>>

\* A functor handed over on the loop's own thread is called at once.
CallInline(f) ==
  /\ ~closed
  /\ f \notin posted
  /\ posted' = posted \union {f}
  /\ called' = called \union {f}
  /\ UNCHANGED <<queue, closed>>

\* The loop ends; what is still queued is never called.
Close ==
  /\ ~closed
  /\ closed' = TRUE
  /\ UNCHANGED <<queue, posted, called>>

Next ==
  \/ \E f \in Functors : Post(f) \/ CallInline(f)
  \/ CallOldest
  \/ Close

SafeSpec == Init /\ [][Next]_vars
Spec == SafeSpec /\ WF_vars(CallOldest)
=============================================================================
