-------------------------- MODULE EventLoopThread --------------------------
(***************************************************************************)
(* The end of an EventLoopThread: its destructor, which tells the loop to  *)
(* quit and joins the thread, against the loop that is running, about to   *)
(* run or already over, and the thread function that then forgets the loop *)
(* and destroys it.  EventLoop is the loop; it begins where start_loop()   *)
(* has returned, with loop_ set and loop() not yet called.                 *)
(***************************************************************************)
EXTENDS EventLoop

CONSTANT Destroyer     \* the thread that destroys the EventLoopThread

ASSUME DestroyerAssumption == Destroyer \in Others

VARIABLES
  end,      \* of thread_func(): "running", "cleared" (loop_ is NULL), "exited"
  dtor      \* ~EventLoopThread(): "idle", at its call of quit(), at the join,
            \* "returned" or "crashed"

threadVars == <<end, dtor>>
allVars == <<vars, threadVars>>

\* thread_func() clears loop_ when its loop() has returned.
loop_ == end = "running"

LTInit == Init /\ end = "running" /\ dtor = "idle"

\* loop.loop() has returned: loop_ = NULL.
clear_loop ==
  /\ pc = "done"
  /\ end = "running"
  /\ end' = "cleared"
  /\ UNCHANGED <<vars, dtor>>

\* The end of thread_func(): ~EventLoop(), then the thread is over.
exit ==
  /\ pc = "done"
  /\ end = "cleared"
  /\ end' = "exited"
  /\ UNCHANGED <<vars, dtor>>

\* ~EventLoopThread() tests loop_; without a loop it does not join, and
\* ~Thread() detaches the thread.
destroy ==
  /\ dtor = "idle"
  /\ Destroyer \notin waking
  /\ dtor' = IF loop_ THEN "quit" ELSE "returned"
  /\ UNCHANGED <<vars, end>>

\* loop_->quit().  A quit() that is not the first only writes to the eventfd.
\* loop_ is read again: when the thread has cleared it since the test, this
\* is a call through a null pointer or on an object that is gone.
call_quit ==
  /\ dtor = "quit"
  /\ \/ /\ pc # "done"
        /\ quit(Destroyer)
        /\ dtor' = "join"
     \/ /\ pc # "done" /\ quit_
        /\ waking' = waking \union {Destroyer}
        /\ dtor' = "join"
        /\ UNCHANGED <<pc, flags, calling_pending_functors_, pending_functors_,
                       functor_list, result, kernel, io, channel, posted, called>>
     \/ pc = "done" /\ loop_ /\ dtor' = "join" /\ UNCHANGED vars
     \/ ~loop_ /\ dtor' \in {"join", "crashed"} /\ UNCHANGED vars
  /\ UNCHANGED end

\* A plausible slip: the thread is detached instead.
join_NoWait ==
  /\ dtor = "join"
  /\ Destroyer \notin waking
  /\ dtor' = "returned"
  /\ UNCHANGED <<vars, end>>

\* Thread::join(), after quit() has returned.
join ==
  /\ dtor = "join"
  /\ Destroyer \notin waking
  /\ end = "exited"
  /\ dtor' = "returned"
  /\ UNCHANGED <<vars, end>>

\* The destroyer makes no other call.
LTNext ==
  \/ /\ \/ LoopStep \/ IoReady
        \/ \E t \in Threads \ {Destroyer} : Call(t)
        \/ \E t \in Threads : wakeup(t)
     /\ UNCHANGED threadVars
  \/ clear_loop \/ exit \/ destroy \/ call_quit \/ join

LTSafeSpec == LTInit /\ [][LTNext]_allVars

\* Threads that run keep running; nobody has to destroy anything.
LTSpec ==
  /\ LTSafeSpec
  /\ WF_allVars(LoopStep /\ UNCHANGED threadVars)
  /\ \A t \in Threads : WF_allVars(wakeup(t) /\ UNCHANGED threadVars)
  /\ WF_allVars(clear_loop) /\ WF_allVars(exit)
  /\ WF_allVars(call_quit) /\ WF_allVars(join)

-----------------------------------------------------------------------------
(* Properties.                                                             *)

\* When the destructor has returned the thread does not use the members of
\* the EventLoopThread any more, in particular not loop_, whether it was
\* joined or had cleared loop_ before the test (thread_func against
\* ~EventLoopThread).
NoUseAfterDestroy == dtor = "returned" => pc = "done" /\ ~loop_

\* The destructor's join returns, unless its quit() came before the loop's
\* start, which forgets it: then the loop runs on without a quit_.
JoinReturns ==
  (dtor = "join" /\ pc # "start" /\ (looping_ => quit_))
    ~> (dtor = "returned")
=============================================================================
