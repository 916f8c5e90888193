------------------------------ MODULE EventLoop ------------------------------
(***************************************************************************)
(* One EventLoop (EventLoop.cpp), the thread that runs it and the other    *)
(* threads that hand it functors or ask it to quit.  The loop thread       *)
(* sleeps in epoll_wait; another thread that has pushed a functor under    *)
(* mutex_lock_ writes to the loop's eventfd to wake it.  The model keeps   *)
(* the eventfd counter and its edge-triggered, one-shot registration in    *)
(* epoll, since the correctness of the hand-over rests on them.            *)
(*                                                                         *)
(* The two critical sections of mutex_lock_ (the push and the swap) are    *)
(* one step each.  Between a push (or an assignment to quit_) and the      *)
(* wakeup() that follows it any other thread may run: `waking' holds the   *)
(* threads that are between the two.                                       *)
(***************************************************************************)
EXTENDS Integers, Sequences

CONSTANTS
  LoopThread,   \* the thread whose id is thread_id_
  Others,       \* threads that call queue_in_loop, run_in_loop and quit
  Functors      \* the functors handed over; bounds a run when finite

ASSUME ThreadAssumption == LoopThread \notin Others

VARIABLES
  pc,                         \* where the loop thread is
  looping_, quit_,
  calling_pending_functors_,
  pending_functors_,
  functor_list,               \* do_pending_functors(): what is left to call
  result,                     \* channels poll() returned, not yet handled
  waking,                     \* threads about to call wakeup()
  counter,                    \* value of the eventfd wakeup_fd_
  interest,                   \* events epoll watches wakeup_fd_ for
  ready,                      \* wakeup_fd_ is on epoll's ready list
  io,                         \* another channel of the loop is ready
  events_, last_events_,      \* of the wakeup channel
  posted, called              \* history: functors handed over, called

vars == <<pc, looping_, quit_, calling_pending_functors_, pending_functors_,
          functor_list, result, waking, counter, interest, ready, io,
          events_, last_events_, posted, called>>

kernel == <<counter, interest, ready>>
channel == <<events_, last_events_>>
flags == <<looping_, quit_>>

Threads == Others \union {LoopThread}

EventFlags == {"IN", "ET", "ONESHOT"}
InEt == {"IN", "ET"}

(***************************************************************************)
(* pc: before loop(); at the test of while (!quit_); in poll(); between    *)
(* two channels of `result'; in handle_read() and handle_connect() of the  *)
(* wakeup channel; in a handler of another channel; before the swap;       *)
(* between two functors; in a functor; after loop().                       *)
(***************************************************************************)
Locations == {"start", "while", "poll", "handle", "read", "connect",
              "io_handler", "swap", "run", "functor", "done"}

\* User code runs on the loop thread: a channel's handler or a functor.
InCallback == pc \in {"io_handler", "functor"}

\* Thread t may call a method of the loop: a thread that is not the loop's
\* while the loop exists, the loop's own thread from a callback.
CanCall(t) ==
  /\ t \notin waking
  /\ IF t = LoopThread THEN InCallback ELSE pc # "done"

is_thread_in_loop(t) == t = LoopThread

\* The constructor: the wakeup channel is registered for EPOLLIN | EPOLLET.
Init ==
  /\ pc = "start"
  /\ looping_ = FALSE
  /\ quit_ = FALSE
  /\ calling_pending_functors_ = FALSE
  /\ pending_functors_ = <<>>
  /\ functor_list = <<>>
  /\ result = {}
  /\ waking = {}
  /\ counter = 0
  /\ interest = InEt
  /\ ready = FALSE
  /\ io = FALSE
  /\ events_ = InEt
  /\ last_events_ = InEt
  /\ posted = {}
  /\ called = {}

-----------------------------------------------------------------------------
(* Calls into the loop, from any thread.                                   *)

\* A plausible slip: the test of calling_pending_functors_ is left out.
queue_in_loop_IgnoreCalling(t, f) ==
  /\ CanCall(t)
  /\ f \notin posted
  /\ posted' = posted \union {f}
  /\ pending_functors_' = Append(pending_functors_, f)
  /\ waking' = IF is_thread_in_loop(t) THEN waking ELSE waking \union {t}
  /\ UNCHANGED <<pc, flags, calling_pending_functors_, functor_list, result,
                 kernel, io, channel, called>>

queue_in_loop(t, f) ==
  /\ CanCall(t)
  /\ f \notin posted
  /\ posted' = posted \union {f}
  /\ pending_functors_' = Append(pending_functors_, f)
  /\ waking' = IF ~is_thread_in_loop(t) \/ calling_pending_functors_
               THEN waking \union {t} ELSE waking
  /\ UNCHANGED <<pc, flags, calling_pending_functors_, functor_list, result,
                 kernel, io, channel, called>>

\* On the loop's own thread the functor is called at once; on any other
\* thread run_in_loop is queue_in_loop.
run_in_loop(t, f) ==
  \/ /\ is_thread_in_loop(t)
     /\ CanCall(t)
     /\ f \notin posted
     /\ posted' = posted \union {f}
     /\ called' = called \union {f}
     /\ UNCHANGED <<pc, flags, calling_pending_functors_, pending_functors_,
                    functor_list, result, waking, kernel, io, channel>>
  \/ /\ ~is_thread_in_loop(t)
     /\ queue_in_loop(t, f)

\* A plausible slip: quit() from another thread does not wake the loop.
quit_NoWakeup(t) ==
  /\ CanCall(t)
  /\ ~quit_
  /\ quit_' = TRUE
  /\ UNCHANGED <<pc, looping_, calling_pending_functors_, pending_functors_,
                 functor_list, result, waking, kernel, io, channel, posted,
                 called>>

\* ~quit_ bounds the calls: a repeated quit() only adds to the counter.
quit(t) ==
  /\ CanCall(t)
  /\ ~quit_
  /\ quit_' = TRUE
  /\ waking' = IF is_thread_in_loop(t) THEN waking ELSE waking \union {t}
  /\ UNCHANGED <<pc, looping_, calling_pending_functors_, pending_functors_,
                 functor_list, result, kernel, io, channel, posted, called>>

\* writen(wakeup_fd_, 1): the counter grows and, when epoll watches the
\* descriptor, it joins the ready list.  A loop that has ended has closed
\* the descriptor: the write fails and is only logged.
wakeup(t) ==
  /\ t \in waking
  /\ waking' = waking \ {t}
  /\ IF pc = "done"
     THEN UNCHANGED <<counter, ready>>
     ELSE /\ counter' = counter + 1
          /\ ready' = (ready \/ "IN" \in interest)
  /\ UNCHANGED <<pc, flags, calling_pending_functors_, pending_functors_,
                 functor_list, result, interest, io, channel, posted, called>>

-----------------------------------------------------------------------------
(* The loop thread.                                                        *)

\* loop() is entered; a quit() that came before is forgotten here.
loop ==
  /\ pc = "start"
  /\ looping_' = TRUE
  /\ quit_' = FALSE
  /\ pc' = "while"
  /\ UNCHANGED <<calling_pending_functors_, pending_functors_, functor_list,
                 result, waking, kernel, io, channel, posted, called>>

WhileTest ==
  /\ pc = "while"
  /\ pc' = IF quit_ THEN "done" ELSE "poll"
  /\ looping_' = ~quit_
  /\ UNCHANGED <<quit_, calling_pending_functors_, pending_functors_,
                 functor_list, result, waking, kernel, io, channel, posted,
                 called>>

\* What epoll_wait can return now: a descriptor on the ready list is
\* reported only if it is still readable.
Deliverable ==
  (IF ready /\ counter > 0 THEN {"wakeup"} ELSE {})
    \union (IF io THEN {"io"} ELSE {})

\* poll() returns when it has a channel to return; an epoll_wait that times
\* out returns no channel, and poll() calls it again.  A one-shot descriptor
\* is disarmed by its delivery.
poll ==
  /\ pc = "poll"
  /\ Deliverable # {}
  /\ result' = Deliverable
  /\ ready' = FALSE
  /\ io' = FALSE
  /\ interest' = IF "wakeup" \in Deliverable /\ "ONESHOT" \in interest
                 THEN {} ELSE interest
  /\ events_' = IF "wakeup" \in Deliverable THEN {} ELSE events_
  /\ pc' = "handle"
  /\ UNCHANGED <<flags, calling_pending_functors_, pending_functors_,
                 functor_list, waking, counter, last_events_, posted, called>>

\* The next channel of `result' is taken up, in any order.
handle_events ==
  /\ pc = "handle"
  /\ \/ "wakeup" \in result /\ pc' = "read"
     \/ "io" \in result /\ pc' = "io_handler"
  /\ UNCHANGED <<flags, calling_pending_functors_, pending_functors_,
                 functor_list, result, waking, kernel, io, channel, posted,
                 called>>

\* readn(wakeup_fd_): a read empties the counter.  readn forgets what it has
\* read (n_read = 0 is an assignment) and reads again until EAGAIN.
handle_read ==
  /\ pc = "read"
  /\ counter > 0
  /\ counter' = 0
  /\ UNCHANGED <<pc, flags, calling_pending_functors_, pending_functors_,
                 functor_list, result, waking, interest, ready, io, channel,
                 posted, called>>

\* A plausible slip: the channel's events, zeroed by poll(), stay zero.
handle_read_end_NoSetEvents ==
  /\ pc = "read"
  /\ counter = 0
  /\ pc' = "connect"
  /\ UNCHANGED <<flags, calling_pending_functors_, pending_functors_,
                 functor_list, result, waking, kernel, io, channel, posted,
                 called>>

\* EAGAIN ends readn; set_events(EPOLLIN | EPOLLET).
handle_read_end ==
  /\ pc = "read"
  /\ counter = 0
  /\ events_' = InEt
  /\ pc' = "connect"
  /\ UNCHANGED <<flags, calling_pending_functors_, pending_functors_,
                 functor_list, result, waking, kernel, io, last_events_,
                 posted, called>>

\* handle_connect() of the wakeup channel: EPOLL_CTL_MOD to a one-shot
\* registration, then update_poller(), which modifies again only when
\* events_ differs from last_events_.  A modification looks at the
\* descriptor and queues it when it is already readable.
handle_connect ==
  /\ pc = "connect"
  /\ interest' = IF events_ = last_events_ THEN EventFlags ELSE events_
  /\ ready' = (ready \/ (counter > 0 /\ "IN" \in interest'))
  /\ last_events_' = events_
  /\ result' = result \ {"wakeup"}
  /\ pc' = "handle"
  /\ UNCHANGED <<flags, calling_pending_functors_, pending_functors_,
                 functor_list, waking, counter, io, events_, posted, called>>

\* The handlers of another channel return.
io_handler_end ==
  /\ pc = "io_handler"
  /\ LoopThread \notin waking
  /\ result' = result \ {"io"}
  /\ pc' = "handle"
  /\ UNCHANGED <<flags, calling_pending_functors_, pending_functors_,
                 functor_list, waking, kernel, io, channel, posted, called>>

\* All channels are handled; do_pending_functors() begins.
do_pending_functors ==
  /\ pc = "handle"
  /\ result = {}
  /\ calling_pending_functors_' = TRUE
  /\ pc' = "swap"
  /\ UNCHANGED <<flags, pending_functors_, functor_list, result, waking,
                 kernel, io, channel, posted, called>>

\* A plausible slip: the list is copied instead of swapped.
swap_Copy ==
  /\ pc = "swap"
  /\ functor_list' = pending_functors_
  /\ pc' = "run"
  /\ UNCHANGED <<flags, calling_pending_functors_, pending_functors_, result,
                 waking, kernel, io, channel, posted, called>>

\* functor_list.swap(pending_functors_), under the lock.
swap ==
  /\ pc = "swap"
  /\ functor_list' = pending_functors_
  /\ pending_functors_' = <<>>
  /\ pc' = "run"
  /\ UNCHANGED <<flags, calling_pending_functors_, result, waking, kernel,
                 io, channel, posted, called>>

\* The next functor of the list is called.
call_functor ==
  /\ pc = "run"
  /\ functor_list # <<>>
  /\ called' = called \union {Head(functor_list)}
  /\ functor_list' = Tail(functor_list)
  /\ pc' = "functor"
  /\ UNCHANGED <<flags, calling_pending_functors_, pending_functors_, result,
                 waking, kernel, io, channel, posted>>

functor_end ==
  /\ pc = "functor"
  /\ LoopThread \notin waking
  /\ pc' = "run"
  /\ UNCHANGED <<flags, calling_pending_functors_, pending_functors_,
                 functor_list, result, waking, kernel, io, channel, posted,
                 called>>

\* The list is exhausted.  handle_expired() follows; it touches the timers
\* and the channels they close, and none of this state.
do_pending_functors_end ==
  /\ pc = "run"
  /\ functor_list = <<>>
  /\ calling_pending_functors_' = FALSE
  /\ pc' = "while"
  /\ UNCHANGED <<flags, pending_functors_, functor_list, result, waking,
                 kernel, io, channel, posted, called>>

LoopStep ==
  \/ loop \/ WhileTest \/ poll \/ handle_events \/ handle_read
  \/ handle_read_end \/ handle_connect \/ io_handler_end
  \/ do_pending_functors \/ swap \/ call_functor \/ functor_end
  \/ do_pending_functors_end

\* The kernel: some other descriptor of the loop becomes ready.
IoReady ==
  /\ pc # "done"
  /\ ~io
  /\ io' = TRUE
  /\ UNCHANGED <<pc, flags, calling_pending_functors_, pending_functors_,
                 functor_list, result, waking, kernel, channel, posted,
                 called>>

Call(t) ==
  \/ \E f \in Functors : queue_in_loop(t, f) \/ run_in_loop(t, f)
  \/ quit(t)

Next ==
  \/ LoopStep
  \/ IoReady
  \/ \E t \in Threads : Call(t) \/ wakeup(t)

\* A thread that runs keeps running: the loop thread takes its next step
\* (in epoll_wait, when there is something to return) and a thread that has
\* pushed goes on to its write.  Nobody has to call and no I/O has to come.
Fairness ==
  /\ WF_vars(LoopStep)
  /\ \A t \in Threads : WF_vars(wakeup(t))

SafeSpec == Init /\ [][Next]_vars
Spec == SafeSpec /\ Fairness

-----------------------------------------------------------------------------
(* Properties.                                                             *)

TypeOK ==
  /\ pc \in Locations
  /\ looping_ \in BOOLEAN
  /\ quit_ \in BOOLEAN
  /\ calling_pending_functors_ \in BOOLEAN
  /\ pending_functors_ \in Seq(Functors)
  /\ functor_list \in Seq(Functors)
  /\ result \in SUBSET {"wakeup", "io"}
  /\ waking \in SUBSET Threads
  /\ counter \in Nat
  /\ interest \in SUBSET EventFlags
  /\ ready \in BOOLEAN
  /\ io \in BOOLEAN
  /\ events_ \in SUBSET EventFlags
  /\ last_events_ \in SUBSET EventFlags
  /\ posted \in SUBSET Functors
  /\ called \in SUBSET Functors

\* epoll_wait will return for the eventfd, or some thread is on its way to
\* write to it.
WakeupComing == waking # {} \/ (ready /\ counter > 0)

\* The loop never sleeps on work: whenever its thread is in poll() while a
\* functor is queued or quit() has been called, epoll_wait returns or will
\* be made to return (queue_in_loop and quit against loop, handle_read and
\* handle_connect).
NoLostWakeup ==
  pc = "poll" /\ (pending_functors_ # <<>> \/ quit_) => WakeupComing

\* quit() on a running loop ends it (EventLoop::quit, on which the join in
\* ~EventLoopThread waits).
QuitEndsLoop == (looping_ /\ quit_) ~> (pc = "done")

\* The loop implements the functor queue its callers rely on: exactly once,
\* in order, and eventually, while the loop runs.
FQ == INSTANCE FunctorQueue
        WITH queue <- functor_list \o pending_functors_,
             closed <- (pc = "done")

ImplementsFunctorQueue == FQ!Spec

-----------------------------------------------------------------------------
(* The inductive invariant behind NoLostWakeup.                            *)

\* `result' is only nonempty while its channels are handled.
ResultInv ==
  /\ pc \notin {"handle", "read", "connect", "io_handler"} => result = {}
  /\ pc \in {"read", "connect"} => "wakeup" \in result

\* epoll watches the eventfd except between its delivery and the
\* modification that re-arms it.
ArmedInv == "wakeup" \notin result => "IN" \in interest

\* update_poller() in handle_connect() never changes the registration.
ChannelInv ==
  /\ last_events_ = InEt
  /\ pc = "connect" => events_ = InEt

\* The flag is up exactly while the functors are taken and called.
CallingInv ==
  pc \in {"swap", "run", "functor"} => calling_pending_functors_

\* The list is exhausted before the loop goes on.
ListInv == pc \notin {"run", "functor"} => functor_list = <<>>

\* Once the swap is past, what is queued has a wakeup coming.
PendingInv ==
  pc \in {"start", "while", "poll", "run", "functor"}
    /\ pending_functors_ # <<>> => WakeupComing

QuitInv == pc = "poll" /\ quit_ => WakeupComing

IndInv ==
  /\ TypeOK
  /\ ResultInv
  /\ ArmedInv
  /\ ChannelInv
  /\ CallingInv
  /\ ListInv
  /\ PendingInv
  /\ QuitInv
=============================================================================
