--------------------------- MODULE EventLoopProofs ---------------------------
(***************************************************************************)
(* Proofs about EventLoop for any set of threads and any set of functors:  *)
(* its inductive invariant, that no wakeup is lost, and that every step    *)
(* of the loop is a step of the abstract functor queue.  The last part is  *)
(* about EventLoopThread, which ends the loop: whichever way its           *)
(* destructor returns, with or without a join, the thread is past its last *)
(* use of it, and the loop keeps its promises whenever the destructor      *)
(* comes.                                                                  *)
(***************************************************************************)
EXTENDS EventLoopThread, SequenceTheorems, TLAPS

(***************************************************************************)
(* The constructor establishes the inductive invariant.                    *)
(***************************************************************************)
LEMMA InitIndInv == Init => IndInv
  <1> SUFFICES ASSUME Init PROVE IndInv
    OBVIOUS
  <1>1. TypeOK
    BY EmptySeq DEF Init, TypeOK, Locations, EventFlags, InEt
  <1>2. ResultInv /\ ArmedInv /\ ChannelInv /\ CallingInv /\ ListInv
    BY DEF Init, ResultInv, ArmedInv, ChannelInv, CallingInv, ListInv,
           InEt
  <1>3. PendingInv /\ QuitInv
    BY DEF Init, PendingInv, QuitInv
  <1>4. QED BY <1>1, <1>2, <1>3 DEF IndInv

(***************************************************************************)
(* What a call from thread t preserves, whichever call it is.              *)
(***************************************************************************)
LEMMA QueueIndInv ==
  ASSUME IndInv, NEW t \in Threads, NEW f \in Functors, queue_in_loop(t, f)
  PROVE  IndInv'
  <1>1. TypeOK'
    BY DEF queue_in_loop, IndInv, TypeOK, flags, kernel, channel, Locations
  <1>2. ResultInv' /\ ArmedInv' /\ ChannelInv' /\ CallingInv' /\ ListInv'
    BY DEF queue_in_loop, IndInv, ResultInv, ArmedInv, ChannelInv, CallingInv, ListInv,
           flags, kernel, channel
  <1>3. PendingInv'
    BY DEF queue_in_loop, CanCall, InCallback, is_thread_in_loop, IndInv,
           CallingInv, PendingInv, WakeupComing, kernel
  <1>4. QuitInv'
    BY DEF queue_in_loop, IndInv, QuitInv, WakeupComing, flags, kernel
  <1>5. QED BY <1>1, <1>2, <1>3, <1>4 DEF IndInv

(***************************************************************************)
(* A write to the eventfd preserves the invariant: where it removes a      *)
(* thread from `waking' it leaves the descriptor readable and queued.      *)
(***************************************************************************)
LEMMA WakeupIndInv ==
  ASSUME IndInv, NEW t \in Threads, wakeup(t)
  PROVE  IndInv'
  <1>a. ready' \in BOOLEAN
    BY Zenon DEF wakeup, IndInv, TypeOK
  <1>1. TypeOK'
    BY <1>a DEF wakeup, IndInv, TypeOK, flags, channel
  <1>2. ResultInv' /\ ArmedInv' /\ ChannelInv' /\ CallingInv' /\ ListInv'
    BY DEF wakeup, IndInv, ResultInv, ArmedInv, ChannelInv, CallingInv, ListInv,
           flags, channel
  <1>3. ASSUME pc \in {"start", "while", "poll", "run", "functor"}
        PROVE  WakeupComing'
    <2>1. counter' > 0 /\ (ready' = (ready \/ "IN" \in interest))
      BY <1>3 DEF wakeup, IndInv, TypeOK
    <2>2. "IN" \in interest
      BY <1>3 DEF IndInv, ResultInv, ArmedInv
    <2>3. QED BY <2>1, <2>2 DEF WakeupComing
  <1>4. PendingInv' /\ QuitInv'
    BY <1>3 DEF wakeup, PendingInv, QuitInv
  <1>5. QED BY <1>1, <1>2, <1>4 DEF IndInv

(***************************************************************************)
(* Every step of the loop thread preserves the invariant.                  *)
(***************************************************************************)
LEMMA LoopStepIndInv ==
  ASSUME IndInv, LoopStep
  PROVE  IndInv'
  <1> USE DEF IndInv, TypeOK, ResultInv, ArmedInv, ChannelInv, CallingInv, ListInv,
              PendingInv, QuitInv, WakeupComing, Locations, EventFlags, InEt,
              flags, kernel, channel
  <1>1. CASE loop
    BY <1>1 DEF loop
  <1>2. CASE WhileTest
    BY <1>2 DEF WhileTest
  <1>3. CASE poll
    BY <1>3 DEF poll, Deliverable
  <1>4. CASE handle_events
    BY <1>4 DEF handle_events
  <1>5. CASE handle_read
    BY <1>5 DEF handle_read
  <1>6. CASE handle_read_end
    BY <1>6 DEF handle_read_end
  <1>7. CASE handle_connect
    <2>1. interest' = EventFlags /\ ready' \in BOOLEAN
      BY <1>7 DEF handle_connect
    <2>2. QED BY <1>7, <2>1 DEF handle_connect
  <1>8. CASE io_handler_end
    BY <1>8 DEF io_handler_end
  <1>9. CASE do_pending_functors
    BY <1>9 DEF do_pending_functors
  <1>10. CASE swap
    <2>1. <<>> \in Seq(Functors)
      BY EmptySeq
    <2>2. QED BY <1>10, <2>1 DEF swap
  <1>11. CASE call_functor
    <2>1. Head(functor_list) \in Functors /\ Tail(functor_list) \in Seq(Functors)
      BY <1>11, HeadTailProperties DEF call_functor
    <2>2. QED BY <1>11, <2>1 DEF call_functor
  <1>12. CASE functor_end
    BY <1>12 DEF functor_end
  <1>13. CASE do_pending_functors_end
    BY <1>13 DEF do_pending_functors_end
  <1>14. QED
    BY <1>1, <1>2, <1>3, <1>4, <1>5, <1>6, <1>7, <1>8, <1>9, <1>10, <1>11,
       <1>12, <1>13 DEF LoopStep

(***************************************************************************)
(* Every step of the system preserves the invariant.                       *)
(***************************************************************************)
LEMMA NextIndInv == IndInv /\ [Next]_vars => IndInv'
  <1> SUFFICES ASSUME IndInv, [Next]_vars PROVE IndInv'
    OBVIOUS
  <1> USE DEF IndInv, TypeOK, ResultInv, ArmedInv, ChannelInv, CallingInv,
              ListInv, PendingInv, QuitInv, WakeupComing, flags, kernel,
              channel
  <1>1. CASE LoopStep
    BY <1>1, LoopStepIndInv
  <1>2. CASE IoReady
    BY <1>2 DEF IoReady
  <1>3. ASSUME NEW t \in Threads, wakeup(t) PROVE IndInv'
    BY <1>3, WakeupIndInv
  <1>4. ASSUME NEW t \in Threads, quit(t) PROVE IndInv'
    BY <1>4 DEF quit, CanCall, InCallback, is_thread_in_loop
  <1>5. ASSUME NEW t \in Threads, NEW f \in Functors, queue_in_loop(t, f)
        PROVE IndInv'
    BY <1>5, QueueIndInv
  <1>6. ASSUME NEW t \in Threads, NEW f \in Functors, run_in_loop(t, f)
        PROVE IndInv'
    <2>1. CASE ~is_thread_in_loop(t)
      BY <2>1, <1>5, <1>6 DEF run_in_loop
    <2>2. CASE is_thread_in_loop(t)
      <3>1. /\ posted' = posted \union {f}
            /\ called' = called \union {f}
            /\ UNCHANGED <<pc, flags, calling_pending_functors_,
                           pending_functors_, functor_list, result, waking,
                           kernel, io, channel>>
        BY <1>6, <2>2 DEF run_in_loop
      <3>2. QED BY <3>1
    <2>3. QED BY <2>1, <2>2
  <1>7. CASE UNCHANGED vars
    BY <1>7 DEF vars
  <1>8. QED
    BY <1>1, <1>2, <1>3, <1>4, <1>5, <1>6, <1>7 DEF Next, Call

(***************************************************************************)
(* IndInv holds in every state of every behaviour of the loop: its types,  *)
(* the arming of the eventfd, and that queued work has a wakeup coming.    *)
(***************************************************************************)
THEOREM Inductive == SafeSpec => []IndInv
  BY InitIndInv, NextIndInv, PTL DEF SafeSpec

(***************************************************************************)
(* The loop thread never sleeps in epoll_wait on a queued functor or on a  *)
(* request to quit, whatever the number of threads that call               *)
(* queue_in_loop and quit.                                                 *)
(***************************************************************************)
THEOREM WakeupNeverLost == SafeSpec => []NoLostWakeup
  <1>1. IndInv => NoLostWakeup
    BY DEF IndInv, PendingInv, QuitInv, NoLostWakeup
  <1>2. QED BY <1>1, Inductive, PTL

-----------------------------------------------------------------------------
(* The loop as a functor queue.                                            *)

\* Taking the oldest element of a concatenation takes it from the front.
LEMMA HeadTailConcat ==
  ASSUME NEW S, NEW s \in Seq(S), NEW t \in Seq(S), s # <<>>
  PROVE  /\ s \o t # <<>>
         /\ Head(s \o t) = Head(s)
         /\ Tail(s \o t) = Tail(s) \o t
  <1>1. /\ Len(s) \in Nat /\ Len(s) > 0 /\ Len(t) \in Nat
        /\ s \o t \in Seq(S) /\ Len(s \o t) = Len(s) + Len(t)
    BY EmptySeq, LenProperties, ConcatProperties
  <1>2. s \o t # <<>>
    BY <1>1, EmptySeq
  <1>3. Head(s \o t) = Head(s)
    BY <1>1, ConcatProperties
  <1>4. /\ Tail(s) \in Seq(S) /\ Len(Tail(s)) = Len(s) - 1
        /\ Tail(s \o t) \in Seq(S) /\ Len(Tail(s \o t)) = Len(s) + Len(t) - 1
    BY <1>1, <1>2, HeadTailProperties
  <1>5. /\ Tail(s) \o t \in Seq(S)
        /\ Len(Tail(s) \o t) = Len(s) + Len(t) - 1
    BY <1>1, <1>4, ConcatProperties
  <1>6. ASSUME NEW i \in 1 .. (Len(s) + Len(t) - 1)
        PROVE  Tail(s \o t)[i] = (Tail(s) \o t)[i]
    <2>1. Tail(s \o t)[i] = (s \o t)[i + 1]
      BY <1>1, <1>2, <1>4, HeadTailProperties
    <2>2. (s \o t)[i + 1] = IF i + 1 <= Len(s) THEN s[i + 1]
                            ELSE t[i + 1 - Len(s)]
      BY <1>1, ConcatProperties
    <2>3. (Tail(s) \o t)[i] = IF i <= Len(s) - 1 THEN Tail(s)[i]
                              ELSE t[i - (Len(s) - 1)]
      BY <1>1, <1>4, ConcatProperties
    <2>4. i <= Len(s) - 1 => Tail(s)[i] = s[i + 1]
      BY <1>1, <1>4, HeadTailProperties
    <2>5. QED BY <1>1, <2>1, <2>2, <2>3, <2>4
  <1>7. Tail(s \o t) = Tail(s) \o t
    BY <1>1, <1>4, <1>5, <1>6, SeqEqual
  <1>8. QED BY <1>2, <1>3, <1>7

\* Pushing onto the back of a concatenation pushes onto its second part.
LEMMA AppendConcat ==
  ASSUME NEW S, NEW s \in Seq(S), NEW t \in Seq(S), NEW e \in S
  PROVE  s \o Append(t, e) = Append(s \o t, e)
  <1>1. /\ s \o t \in Seq(S) /\ <<e>> \in Seq(S)
        /\ Append(t, e) = t \o <<e>>
        /\ Append(s \o t, e) = (s \o t) \o <<e>>
    BY ConcatProperties, AppendIsConcat
  <1>2. QED BY <1>1, ConcatAssociative

\* The mapped initial state is the empty, open queue.
LEMMA InitRefines == Init => FQ!Init
  BY EmptySeq, ConcatEmptySeq DEF Init, FQ!Init

\* A step that touches no part of the mapped state is a stutter.
LEMMA StutterRefines ==
  ASSUME UNCHANGED <<functor_list, pending_functors_, posted, called>>,
         (pc' = "done") = (pc = "done")
  PROVE  UNCHANGED FQ!vars
  BY DEF FQ!vars

\* Every step maps to a step of the abstract queue or to a stutter: a push
\* to Post, calling a functor from the list to CallOldest, a call on the
\* loop's own thread to CallInline, leaving loop() to Close.
LEMMA NextRefines == IndInv /\ [Next]_vars => [FQ!Next]_FQ!vars
  <1> SUFFICES ASSUME IndInv, [Next]_vars PROVE [FQ!Next]_FQ!vars
    OBVIOUS
  <1> USE DEF flags, kernel, channel
  <1>t. functor_list \in Seq(Functors) /\ pending_functors_ \in Seq(Functors)
    BY DEF IndInv, TypeOK
  <1>1. CASE loop \/ poll \/ handle_events \/ handle_read \/ handle_read_end
               \/ handle_connect \/ io_handler_end \/ do_pending_functors
               \/ functor_end \/ do_pending_functors_end
    BY <1>1, StutterRefines
       DEF loop, poll, handle_events, handle_read, handle_read_end,
           handle_connect, io_handler_end, do_pending_functors, functor_end,
           do_pending_functors_end
  <1>2. CASE WhileTest
    <2>1. CASE quit_
      BY <1>2, <2>1 DEF WhileTest, FQ!Next, FQ!Close
    <2>2. CASE ~quit_
      BY <1>2, <2>2, StutterRefines DEF WhileTest
    <2>3. QED BY <2>1, <2>2
  <1>3. CASE swap
    <2>1. functor_list = <<>>
      BY <1>3 DEF swap, IndInv, ListInv
    <2>2. functor_list \o pending_functors_
            = functor_list' \o pending_functors_'
      BY <1>3, <1>t, <2>1, ConcatEmptySeq DEF swap
    <2>3. QED BY <1>3, <2>2 DEF swap, FQ!vars
  <1>4. CASE call_functor
    <2>1. /\ functor_list \o pending_functors_ # <<>>
          /\ Head(functor_list \o pending_functors_) = Head(functor_list)
          /\ Tail(functor_list \o pending_functors_)
               = Tail(functor_list) \o pending_functors_
      BY <1>4, <1>t, HeadTailConcat DEF call_functor
    <2>2. FQ!CallOldest
      BY <1>4, <2>1 DEF call_functor, FQ!CallOldest
    <2>3. QED BY <2>2 DEF FQ!Next
  <1>5. CASE IoReady
    BY <1>5, StutterRefines DEF IoReady
  <1>6. ASSUME NEW t \in Threads, wakeup(t) \/ quit(t)
        PROVE  UNCHANGED FQ!vars
    BY <1>6, StutterRefines DEF wakeup, quit
  <1>7. ASSUME NEW t \in Threads, NEW f \in Functors, queue_in_loop(t, f)
        PROVE  FQ!Post(f)
    <2>1. pc # "done" /\ pc' = pc
      BY <1>7 DEF queue_in_loop, CanCall, InCallback
    <2>2. functor_list \o Append(pending_functors_, f)
            = Append(functor_list \o pending_functors_, f)
      BY <1>t, AppendConcat
    <2>3. QED BY <1>7, <2>1, <2>2 DEF queue_in_loop, FQ!Post
  <1>8. ASSUME NEW t \in Threads, NEW f \in Functors, run_in_loop(t, f)
        PROVE  FQ!Post(f) \/ FQ!CallInline(f)
    <2>1. CASE ~is_thread_in_loop(t)
      BY <1>7, <1>8, <2>1 DEF run_in_loop
    <2>2. CASE is_thread_in_loop(t)
      BY <1>8, <2>2 DEF run_in_loop, is_thread_in_loop, CanCall, InCallback,
                        FQ!CallInline
    <2>3. QED BY <2>1, <2>2
  <1>9. CASE UNCHANGED vars
    BY <1>9, StutterRefines DEF vars
  <1>10. QED
    BY <1>1, <1>2, <1>3, <1>4, <1>5, <1>6, <1>7, <1>8, <1>9
       DEF Next, LoopStep, Call, FQ!Next

(***************************************************************************)
(* Safety of the hand-over, for any number of threads and functors: a      *)
(* functor given to queue_in_loop or run_in_loop is called at most once,   *)
(* queued functors are called in the order of their pushes, and none is    *)
(* dropped while the loop runs.                                            *)
(***************************************************************************)
THEOREM ImplementsQueueSafety == SafeSpec => FQ!SafeSpec
  <1>1. SafeSpec => []IndInv
    BY Inductive
  <1>2. QED
    BY <1>1, InitRefines, NextRefines, PTL DEF SafeSpec, FQ!SafeSpec

-----------------------------------------------------------------------------
(* The end of a loop thread.                                               *)

\* The thread clears loop_ only when its loop is over, and the destructor
\* returns only when the thread has cleared loop_.
EndInv ==
  /\ end \in {"running", "cleared", "exited"}
  /\ end # "running" => pc = "done"
  /\ dtor = "returned" => end # "running"

\* The loop of a loop thread does not start again, whoever calls it.
LEMMA LoopStaysDone ==
  ASSUME pc = "done",
         \/ LoopStep \/ IoReady
         \/ \E t \in Threads : Call(t) \/ wakeup(t)
  PROVE  pc' = "done"
<1>1. ~LoopStep /\ ~IoReady
  BY DEF LoopStep, IoReady, loop, WhileTest, poll, handle_events, handle_read,
         handle_read_end, handle_connect, io_handler_end, do_pending_functors,
         swap, call_functor, functor_end, do_pending_functors_end
<1>2. ASSUME NEW t \in Threads, Call(t) \/ wakeup(t) PROVE pc' = pc
  BY <1>2 DEF Call, wakeup, queue_in_loop, run_in_loop, quit
<1> QED BY <1>1, <1>2

LEMMA InitEndInv == LTInit => EndInv
BY DEF LTInit, EndInv

LEMMA NextEndInv == EndInv /\ [LTNext]_allVars => EndInv'
<1> SUFFICES ASSUME EndInv, [LTNext]_allVars PROVE EndInv'
  OBVIOUS
<1> USE DEF EndInv
<1>1. CASE /\ \/ LoopStep \/ IoReady
              \/ \E t \in Threads \ {Destroyer} : Call(t)
              \/ \E t \in Threads : wakeup(t)
           /\ UNCHANGED threadVars
  BY <1>1, LoopStaysDone DEF threadVars
<1>2. CASE clear_loop \/ exit
  BY <1>2 DEF clear_loop, exit, vars
<1>3. CASE destroy
  BY <1>3 DEF destroy, loop_, vars
<1>4. CASE call_quit
  <2>1. pc' = pc /\ end' = end /\ dtor' # "returned"
    BY <1>4 DEF call_quit, quit, vars
  <2> QED BY <2>1
<1>5. CASE join
  BY <1>5 DEF join, vars
<1>6. CASE UNCHANGED allVars
  BY <1>6 DEF allVars, vars, threadVars
<1> QED BY <1>1, <1>2, <1>3, <1>4, <1>5, <1>6 DEF LTNext

-----------------------------------------------------------------------------

\* When ~EventLoopThread() has returned, the thread does not use the members
\* of the object any more: it was joined, or it had already cleared loop_.
THEOREM DestroyIsSafe == LTSafeSpec => []NoUseAfterDestroy
<1>1. EndInv => NoUseAfterDestroy
  BY DEF EndInv, NoUseAfterDestroy, loop_
<1> QED BY <1>1, InitEndInv, NextEndInv, PTL DEF LTSafeSpec

-----------------------------------------------------------------------------
(* The loop keeps its promises when its EventLoopThread is destroyed.      *)

\* What the destructor's quit() does when quit_ is already set.
QuitAgain ==
  /\ waking' = waking \union {Destroyer}
  /\ UNCHANGED <<pc, flags, calling_pending_functors_, pending_functors_,
                 functor_list, result, kernel, io, channel, posted, called>>

\* To the loop, a step of the whole is one of its own, or that quit().
LEMMA LoopSteps == [LTNext]_allVars => [Next]_vars \/ QuitAgain
<1> SUFFICES ASSUME [LTNext]_allVars PROVE [Next]_vars \/ QuitAgain
  OBVIOUS
<1>1. CASE \/ LoopStep \/ IoReady
           \/ \E t \in Threads \ {Destroyer} : Call(t)
           \/ \E t \in Threads : wakeup(t)
  BY <1>1 DEF Next
<1>2. CASE clear_loop \/ exit \/ destroy \/ join
  BY <1>2 DEF clear_loop, exit, destroy, join
<1>3. CASE call_quit
  <2>1. Destroyer \in Threads
    BY DestroyerAssumption DEF Threads
  <2>2. quit(Destroyer) \/ QuitAgain \/ UNCHANGED vars
    BY <1>3 DEF call_quit, QuitAgain
  <2> QED BY <2>1, <2>2 DEF Next, Call
<1>4. CASE UNCHANGED allVars
  BY <1>4 DEF allVars
<1> QED BY <1>1, <1>2, <1>3, <1>4 DEF LTNext

LEMMA QuitAgainIndInv == IndInv /\ QuitAgain => IndInv'
<1> SUFFICES ASSUME IndInv, QuitAgain PROVE IndInv'
  OBVIOUS
<1> USE DEF IndInv, QuitAgain, flags, kernel, channel
<1>1. Destroyer \in Threads
  BY DestroyerAssumption DEF Threads
<1>2. TypeOK'
  BY <1>1, Zenon DEF TypeOK
<1>3. WakeupComing'
  BY DEF WakeupComing
<1>4. ResultInv' /\ ArmedInv' /\ ChannelInv' /\ CallingInv' /\ ListInv'
  BY DEF ResultInv, ArmedInv, ChannelInv, CallingInv, ListInv
<1> QED BY <1>2, <1>3, <1>4 DEF PendingInv, QuitInv

LEMMA IndInvHolds == LTSafeSpec => []IndInv
<1>1. LTInit => IndInv
  BY InitIndInv DEF LTInit
<1>2. IndInv /\ [LTNext]_allVars => IndInv'
  BY LoopSteps, QuitAgainIndInv, NextIndInv
<1> QED BY <1>1, <1>2, PTL DEF LTSafeSpec

\* The loop never sleeps in epoll_wait on a queued functor or a quit, for
\* any threads and functors, also with a destructor that calls quit() before,
\* during or after the loop and after others have.
THEOREM NoWakeupLostAtEnd == LTSafeSpec => []NoLostWakeup
<1>1. IndInv => NoLostWakeup
  BY DEF IndInv, PendingInv, QuitInv, NoLostWakeup
<1> QED BY <1>1, IndInvHolds, PTL

\* Functors are still called once and in order, in every behaviour in which
\* the EventLoopThread is destroyed.
THEOREM DestroyedLoopIsQueue == LTSafeSpec => FQ!SafeSpec
<1>1. LTInit => FQ!Init
  BY InitRefines DEF LTInit
<1>2. QuitAgain => UNCHANGED FQ!vars
  BY StutterRefines DEF QuitAgain
<1>3. IndInv /\ [LTNext]_allVars => [FQ!Next]_FQ!vars
  BY <1>2, LoopSteps, NextRefines
<1> QED BY <1>1, <1>3, IndInvHolds, PTL DEF LTSafeSpec, FQ!SafeSpec
=============================================================================
