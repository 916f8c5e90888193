---------------------------- MODULE ServerProofs ----------------------------
(***************************************************************************)
(* The start of the loop threads, for any number of them: the main thread  *)
(* only ever holds loops that exist, and the assertion on the thread's id  *)
(* holds.  And the main loop, for any number of clients: its socket never  *)
(* blocks, no edge is lost, and the loops get equal shares.                *)
(***************************************************************************)
EXTENDS Server, SequenceTheorems, TLAPS

USE ThreadsAssumption, NullAssumption

LEMMA InitStartInv == Init => StartInv
<1> SUFFICES ASSUME Init PROVE StartInv
  OBVIOUS
<1>1. loops_ \in Seq(LoopThreads \union {NULL}) /\ Len(loops_) = 0 /\ DOMAIN loops_ = {}
  BY EmptySeq DEF Init
<1>2. TypeOK
  BY <1>1 DEF Init, TypeOK, LoopThreads, Startup
<1>3. ThreadInv /\ MainInv /\ LoopsReady /\ TidKnown
  BY <1>1 DEF Init, ThreadInv, MainInv, LoopsReady, TidKnown, LoopThreads, Startup
<1> QED BY <1>2, <1>3 DEF StartInv

\* main() and the constructor of Server start no thread.
LEMMA StartupStartInv ==
  ASSUME StartInv, main \/ set_socket_bind_listen \/ constructor
  PROVE  StartInv'
<1>1. TypeOK /\ ThreadInv /\ MainInv /\ LoopsReady /\ TidKnown
  BY DEF StartInv
<1>2. /\ UNCHANGED starting
      /\ pc \in Startup
      /\ pc' \in Startup \union {"create"}
  BY DEF main, set_socket_bind_listen, constructor, Startup
<1>3. TypeOK'
  BY <1>1, <1>2 DEF TypeOK, starting
<1>4. ThreadInv' /\ LoopsReady'
  BY <1>1, <1>2 DEF ThreadInv, LoopsReady, starting
<1>5. MainInv' /\ TidKnown'
  BY <1>1, <1>2 DEF MainInv, TidKnown, starting, Startup
<1> QED BY <1>3, <1>4, <1>5 DEF StartInv

\* Thread::start(), the latch and the wait for the loop.
LEMMA WaitStartInv ==
  ASSUME StartInv, Thread_start \/ latch_wait \/ start_loop \/ spurious_wakeup
  PROVE  StartInv'
<1> USE DEF Thread_start, latch_wait, start_loop, spurious_wakeup, starting, Startup
<1>1. TypeOK /\ ThreadInv /\ MainInv /\ LoopsReady /\ TidKnown
  BY DEF StartInv
<1>2. TypeOK'
  BY <1>1 DEF TypeOK, LoopThreads
<1>3. ThreadInv'
  BY <1>1 DEF ThreadInv, MainInv, TypeOK, LoopThreads
<1>4. i \in 1..(num_threads + 1) /\ loops_' = loops_ /\ i' = i
  BY <1>1 DEF TypeOK
<1>5. MainInv'
  BY <1>1, <1>4 DEF MainInv, ThreadInv, TypeOK, LoopThreads
<1>6. DOMAIN loops_ = 1..(i - 1)
  BY <1>1, <1>4 DEF TypeOK, MainInv
<1>7. LoopsReady'
  BY <1>1, <1>4, <1>6 DEF LoopsReady, MainInv, TypeOK, LoopThreads
<1>8. TidKnown'
  BY <1>1, <1>4 DEF TidKnown, ThreadInv, MainInv, TypeOK, LoopThreads
<1> QED BY <1>2, <1>3, <1>5, <1>7, <1>8 DEF StartInv

\* start_loop() returns a loop that is published.
LEMMA ReturnStartInv ==
  ASSUME StartInv, start_loop_returns
  PROVE  StartInv'
<1> USE DEF start_loop_returns, Startup
<1>1. TypeOK /\ ThreadInv /\ MainInv /\ LoopsReady /\ TidKnown
  BY DEF StartInv
<1>2. i \in LoopThreads /\ loop_[i] = i /\ thread[i] = "looping"
  BY <1>1 DEF TypeOK, MainInv, ThreadInv, LoopThreads
<1>3. /\ loops_ \in Seq(LoopThreads \union {NULL})
      /\ Len(loops_) = i - 1
      /\ DOMAIN loops_ = 1..(i - 1)
      /\ i \in Nat
  BY <1>1, <1>2 DEF TypeOK, MainInv, LoopThreads
<1>4. /\ loops_' \in Seq(LoopThreads \union {NULL})
      /\ Len(loops_') = i
      /\ DOMAIN loops_' = 1..i
      /\ loops_'[i] = i
      /\ \A k \in 1..(i - 1) : loops_'[k] = loops_[k]
  BY <1>2, <1>3, AppendProperties
<1>5. TypeOK'
  BY <1>1, <1>2, <1>4 DEF TypeOK, LoopThreads
<1>6. ThreadInv'
  BY <1>1 DEF ThreadInv
<1>7. MainInv'
  BY <1>1, <1>2, <1>4 DEF MainInv, LoopThreads, TypeOK
<1>8. LoopsReady'
  BY <1>1, <1>2, <1>3, <1>4 DEF LoopsReady
<1>9. TidKnown'
  BY DEF TidKnown
<1> QED BY <1>5, <1>6, <1>7, <1>8, <1>9 DEF StartInv

\* A loop thread publishes its id, then its latch, then its loop.
LEMMA LoopThreadStartInv ==
  ASSUME StartInv, NEW k \in LoopThreads, LoopThread(k)
  PROVE  StartInv'
<1> USE DEF LoopThread, runInThread, count_down, thread_func, Woken, Startup
<1>1. TypeOK /\ ThreadInv /\ MainInv /\ LoopsReady /\ TidKnown
  BY DEF StartInv
<1>2. k \in Nat /\ k > 0 /\ i \in 1..(num_threads + 1)
  BY <1>1 DEF LoopThreads, TypeOK
<1>3. thread[k] = "running" => latch_[k] = 1
  BY <1>1 DEF TypeOK, ThreadInv
<1>4. TypeOK'
  BY <1>1, <1>2, <1>3 DEF TypeOK
<1>5. ThreadInv'
  BY <1>1, <1>2, <1>3 DEF ThreadInv, TypeOK
<1>6. loops_' = loops_ /\ i' = i /\ thread[k] # "none" /\ thread[k] # "looping"
  BY <1>1 DEF TypeOK
<1>7. MainInv'
  <2>1. \/ pc' = pc
        \/ pc = "latch_waiting" /\ pc' = "latch"
        \/ pc = "loop_waiting" /\ pc' = "start_loop"
    OBVIOUS
  <2>2. \A j \in LoopThreads : thread'[j] = thread[j] \/ j = k
    BY <1>1 DEF TypeOK
  <2>3. /\ pc = "return" => k # i
        /\ pc \in {"create"} \union Startup => k # i
        /\ k <= i /\ k \in 1..num_threads
    BY <1>1, <1>2, <1>6 DEF MainInv, LoopThreads
  <2> QED BY <1>1, <1>2, <1>6, <2>1, <2>2, <2>3 DEF MainInv, LoopThreads
<1>8. LoopsReady'
  BY <1>1, <1>6 DEF LoopsReady, TypeOK
<1>9. TidKnown'
  BY <1>1 DEF TidKnown
<1> QED BY <1>4, <1>5, <1>7, <1>8, <1>9 DEF StartInv

\* Once the server has started, what it does touches none of this.
LEMMA ServeStartInv ==
  ASSUME StartInv,
         \/ start \/ poll \/ accept \/ assign \/ set_socket_nonblock_fails
         \/ handle_cur_connection
         \/ \E c \in Clients : connect(c) \/ gives_up(c)
  PROVE  StartInv'
<1>1. TypeOK /\ ThreadInv /\ MainInv /\ LoopsReady /\ TidKnown
  BY DEF StartInv
<1>2. /\ UNCHANGED starting
      /\ pc' = pc \/ pc' \in {"poll", "accept", "assign", "connect"}
  BY DEF start, poll, accept, assign, set_socket_nonblock_fails,
         handle_cur_connection, connect, gives_up
<1>3. TypeOK'
  BY <1>1, <1>2 DEF TypeOK, starting
<1>4. ThreadInv' /\ LoopsReady'
  BY <1>1, <1>2 DEF ThreadInv, LoopsReady, starting
<1>5. MainInv' /\ TidKnown'
  BY <1>1, <1>2 DEF MainInv, TidKnown, starting, Startup
<1> QED BY <1>3, <1>4, <1>5 DEF StartInv

LEMMA NextStartInv == StartInv /\ [Next]_vars => StartInv'
<1> SUFFICES ASSUME StartInv, [Next]_vars PROVE StartInv'
  OBVIOUS
<1>1. CASE Thread_start \/ latch_wait \/ start_loop \/ spurious_wakeup
  BY <1>1, WaitStartInv
<1>2. CASE start_loop_returns
  BY <1>2, ReturnStartInv
<1>3. CASE \E k \in LoopThreads : LoopThread(k)
  BY <1>3, LoopThreadStartInv
<1>4. CASE \/ start \/ poll \/ accept \/ assign \/ set_socket_nonblock_fails
           \/ handle_cur_connection
           \/ \E c \in Clients : connect(c) \/ gives_up(c)
  BY <1>4, ServeStartInv
<1>5. CASE main \/ set_socket_bind_listen \/ constructor
  BY <1>5, StartupStartInv
<1>6. CASE UNCHANGED vars
  BY <1>6 DEF vars, StartInv, TypeOK, ThreadInv, MainInv, LoopsReady, TidKnown
<1> QED BY <1>1, <1>2, <1>3, <1>4, <1>5, <1>6 DEF Next, Main

-----------------------------------------------------------------------------

\* How far every loop thread and the main thread are agrees with the latch,
\* the id and the loop they share, for any number of loop threads.
THEOREM StartInvariant == SafeSpec => []StartInv
BY InitStartInv, NextStartInv, PTL DEF SafeSpec

\* start_loop() never returns a null pointer or the loop of another thread,
\* although loop_ is read without the mutex.
THEOREM LoopsAreReady == SafeSpec => []LoopsReady
<1>1. StartInv => LoopsReady
  BY DEF StartInv
<1> QED BY <1>1, StartInvariant, PTL

\* The assertion on the thread's id in Thread::start() never fails.
THEOREM TidAssertHolds == SafeSpec => []TidKnown
<1>1. StartInv => TidKnown
  BY DEF StartInv
<1> QED BY <1>1, StartInvariant, PTL

-----------------------------------------------------------------------------
(* The listening socket.                                                   *)

LEMMA InitSetupInv == Init => SetupInv
BY DEF Init, SetupInv, Startup

LEMMA NextSetupInv == SetupInv /\ [Next]_vars => SetupInv'
<1> SUFFICES ASSUME SetupInv, [Next]_vars PROVE SetupInv'
  OBVIOUS
<1> USE DEF SetupInv, Startup
<1>1. CASE constructor
  <2>1. CASE /\ setup.listen_fd_ >= 0
             /\ setup' = [setup EXCEPT !.sigpipe = "ignored", !.nonblock = TRUE]
    <3>1. setup.listen_fd_ = 0
      BY <2>1
    <3>2. setup' = Ready
      BY <2>1, <3>1 DEF Ready
    <3>3. Ready \in [listen_fd_ : {-1, 0}, nonblock : BOOLEAN,
                     sigpipe : {"default", "ignored"}]
      BY DEF Ready
    <3> QED BY <3>2, <3>3
  <2>2. CASE setup' = [setup EXCEPT !.sigpipe = "ignored"] /\ pc' = "stopped"
    BY <1>1, <2>2
  <2> QED BY <1>1, <2>1, <2>2 DEF constructor
<1>2. CASE main \/ set_socket_bind_listen
  BY <1>2 DEF main, set_socket_bind_listen, serving
<1>3. CASE Thread_start \/ latch_wait \/ start_loop \/ start_loop_returns \/ spurious_wakeup
  BY <1>3 DEF Thread_start, latch_wait, start_loop, start_loop_returns,
              spurious_wakeup, serving
<1>4. CASE \E k \in LoopThreads : LoopThread(k)
  BY <1>4 DEF LoopThread, runInThread, count_down, thread_func, Woken, serving
<1>5. CASE \/ start \/ poll \/ accept \/ assign \/ set_socket_nonblock_fails
           \/ handle_cur_connection
  BY <1>5 DEF start, poll, accept, assign, set_socket_nonblock_fails,
              handle_cur_connection
<1>6. CASE \E c \in Clients : connect(c) \/ gives_up(c)
  BY <1>6 DEF connect, gives_up
<1>7. CASE UNCHANGED vars
  BY <1>7 DEF vars
<1> QED BY <1>1, <1>2, <1>3, <1>4, <1>5, <1>6, <1>7 DEF Next, Main

\* The main loop only ever works on a socket that listens and does not
\* block, with SIGPIPE ignored, whatever fails on the way to it.
THEOREM MainLoopNeverBlocks == SafeSpec => []NeverBlocks
<1>1. SetupInv => NeverBlocks
  BY DEF SetupInv, NeverBlocks, Startup
<1> QED BY <1>1, InitSetupInv, NextSetupInv, PTL DEF SafeSpec

-----------------------------------------------------------------------------
(* The main loop.                                                          *)

LEMMA NextLoop ==
  ASSUME NEW n \in Nat \ {0}, NEW x \in 0..(n - 1)
  PROVE  (x + 1) % n = IF x + 1 = n THEN 0 ELSE x + 1
  OBVIOUS

LEMMA EventSets == InEt # {} /\ "IN" \in InEt
BY DEF InEt

LEMMA InitServeInv == Init => ServeInv
<1> SUFFICES ASSUME Init PROVE ServeInv
  OBVIOUS
<1>1. \A S : <<>> \in Seq(S) /\ Len(<<>>) = 0
  BY EmptySeq
<1>2. epoll \in [added : BOOLEAN, interest : {{}, InEt}, ready : BOOLEAN]
  BY Zenon DEF Init
<1>3. ServeTypeOK
  BY <1>1, <1>2 DEF Init, ServeTypeOK, LoopThreads
<1>4. ChannelInv /\ EdgeInv
  BY DEF Init, ChannelInv, EdgeInv, Serving
<1>5. Rotation
  <2>1. \A k \in LoopThreads : Len(queued[k]) = IF k <= next_ THEN 0 + 1 ELSE 0
    BY <1>1 DEF Init, LoopThreads
  <2> QED BY <2>1 DEF Rotation
<1> QED BY <1>3, <1>4, <1>5 DEF ServeInv, ShareInv

\* Until start() the main loop has nothing to do with its socket.
LEMMA StartupServeInv ==
  ASSUME StartInv, ServeInv,
         \/ main \/ set_socket_bind_listen \/ constructor
         \/ Thread_start \/ latch_wait \/ start_loop \/ start_loop_returns
         \/ spurious_wakeup
         \/ \E k \in LoopThreads : LoopThread(k)
         \/ start
  PROVE  ServeInv'
<1> USE DEF ServeInv
<1>1. CASE ~start
  <2>1. /\ UNCHANGED <<next_, channel, epoll, backlog, accept_fd, queued, latest>>
        /\ pc \notin Serving \/ (pc' = pc /\ i' = i)
        /\ pc' \notin Serving \/ pc' = pc
    BY <1>1 DEF main, set_socket_bind_listen, constructor, Thread_start, latch_wait,
           start_loop, start_loop_returns, spurious_wakeup, LoopThread,
           runInThread, count_down, thread_func, Woken, serving, starting, Serving
  <2>2. ServeTypeOK'
    BY <2>1 DEF ServeTypeOK
  <2>3. ChannelInv' /\ EdgeInv'
    BY <2>1 DEF ChannelInv, EdgeInv, Serving, Readable
  <2>4. ShareInv'
    BY <2>1 DEF ShareInv, Rotation, Deaf, FairShare, Serving
  <2> QED BY <2>2, <2>3, <2>4
<1>2. CASE start
  <2>1. /\ UNCHANGED <<i, next_, backlog, accept_fd, queued, latest>>
        /\ pc' = "poll" /\ i = num_threads + 1
    BY <1>2 DEF start, starting, StartInv, TypeOK
  <2>2. ~epoll.added
    BY <1>2 DEF start, ChannelInv, Serving
  <2>3. Readable \in BOOLEAN
    BY DEF Readable
  <2>4. epoll' \in [added : BOOLEAN, interest : {{}, InEt}, ready : BOOLEAN]
    <3>1. CASE epoll' = epoll
      BY <3>1 DEF ServeTypeOK
    <3>2. CASE epoll' = [added |-> TRUE, interest |-> InEt, ready |-> Readable]
      BY <2>3, <3>2, Zenon
    <3> QED BY <1>2, <3>1, <3>2 DEF start
  <2>5. ServeTypeOK'
    BY <1>2, <2>1, <2>4 DEF start, ServeTypeOK
  <2>a. /\ channel'.events_ = InEt /\ channel'.last_events_ = InEt
        /\ \/ ~epoll'.added
           \/ epoll'.interest = InEt /\ epoll'.ready = Readable
    BY <1>2, <2>2 DEF start
  <2>6. ChannelInv'
    BY <2>1, <2>a DEF ChannelInv, Serving
  <2>7. EdgeInv'
    BY <2>1, <2>a DEF EdgeInv, Readable
  <2>8. Rotation
    BY <1>2 DEF start, ShareInv, Deaf
  <2>9. ShareInv'
    BY <2>1, <2>8 DEF ShareInv, Rotation
  <2> QED BY <2>5, <2>6, <2>7, <2>9
<1> QED BY <1>1, <1>2

\* poll(), accept() and update_poller() around the edge.
LEMMA PollServeInv ==
  ASSUME ServeInv, poll \/ accept \/ handle_cur_connection
  PROVE  ServeInv'
<1> USE EventSets DEF ServeInv, Serving
<1>0. /\ epoll \in [added : BOOLEAN, interest : {{}, InEt}, ready : BOOLEAN]
      /\ channel \in [events_ : {{}, InEt}, last_events_ : {{}, InEt}]
      /\ backlog \in Seq(Clients)
  BY DEF ServeTypeOK
<1>1. CASE poll
  <2>1. /\ epoll'.added = epoll.added /\ epoll'.interest = epoll.interest
        /\ channel'.events_ = {} /\ channel'.last_events_ = channel.last_events_
        /\ pc = "poll" /\ pc' = "accept" /\ latest' = "report"
        /\ UNCHANGED <<i, next_, backlog, accept_fd, queued>>
    BY <1>0, <1>1 DEF poll, starting
  <2>2. epoll.interest = InEt
    BY <1>0, <1>1 DEF poll, Deliverable
  <2>3. ServeTypeOK'
    BY <1>0, <1>1 DEF poll, ServeTypeOK, starting
  <2>4. Rotation
    BY <2>1, <2>2 DEF ShareInv, Deaf
  <2>5. ShareInv'
    BY <2>1, <2>4 DEF ShareInv, Rotation
  <2>6. channel.last_events_ = InEt
    BY <2>1, <2>2 DEF ChannelInv
  <2>7. ChannelInv' /\ EdgeInv'
    BY <2>1, <2>2, <2>6 DEF ChannelInv, EdgeInv
  <2> QED BY <2>3, <2>5, <2>7
<1>2. CASE accept
  <2>1. /\ pc = "accept" /\ channel.events_ = {} /\ channel.last_events_ = InEt
        /\ i = num_threads + 1
    BY <1>2 DEF accept, ChannelInv
  <2>2. UNCHANGED <<i, next_, epoll, queued>>
    BY <1>2 DEF accept, starting
  <2>3. Rotation
    BY <2>1 DEF ShareInv, Deaf
  <2>4. ShareInv'
    BY <2>2, <2>3 DEF ShareInv, Rotation
  <2>5. CASE /\ Readable /\ accept_fd' = Head(backlog) /\ backlog' = Tail(backlog)
             /\ pc' = "assign" /\ UNCHANGED <<channel, latest>>
    <3>1. Head(backlog) \in Clients /\ Tail(backlog) \in Seq(Clients)
      BY <1>0, <2>5, HeadTailProperties DEF Readable
    <3>2. ServeTypeOK'
      BY <2>2, <2>5, <3>1 DEF ServeTypeOK
    <3>3. accept_fd' # NULL
      BY <2>5, <3>1
    <3>4. ChannelInv' /\ EdgeInv'
      BY <2>1, <2>2, <2>5, <3>3 DEF ChannelInv, EdgeInv
    <3> QED BY <2>4, <3>2, <3>4
  <2>6. CASE /\ channel' = [channel EXCEPT !.events_ = InEt] /\ pc' = "connect"
             /\ latest' = Failed /\ UNCHANGED <<accept_fd, backlog>>
    <3>1. channel'.events_ = InEt /\ channel'.last_events_ = InEt
      BY <1>0, <2>1, <2>6
    <3>2. latest' \in {"nothing", "connect", "report", "failure"}
      BY <2>6 DEF Failed, ServeTypeOK
    <3>3. ServeTypeOK'
      BY <1>0, <2>2, <2>6, <3>2 DEF ServeTypeOK
    <3>4. /\ latest' = latest \/ latest' = "failure"
          /\ Readable /\ latest = "report" => latest' = "failure"
      BY <2>6 DEF Failed
    <3>5. ChannelInv' /\ EdgeInv'
      BY <2>1, <2>2, <2>6, <3>1, <3>2, <3>4 DEF ChannelInv, EdgeInv, Readable
    <3> QED BY <2>4, <3>3, <3>5
  <2> QED BY <1>2, <2>5, <2>6 DEF accept
<1>3. CASE handle_cur_connection
  <2>1. /\ pc = "connect" /\ pc' = "poll" /\ channel.last_events_ = InEt
        /\ channel'.events_ = channel.events_
        /\ channel'.last_events_ = channel.events_
        /\ i = num_threads + 1
        /\ UNCHANGED <<i, next_, backlog, accept_fd, queued, latest>>
    BY <1>0, <1>3 DEF handle_cur_connection, ChannelInv, starting
  <2>2. CASE channel.events_ = InEt
    <3>1. epoll' = epoll
      BY <1>3, <2>1, <2>2 DEF handle_cur_connection
    <3>2. ServeTypeOK'
      BY <1>0, <1>3, <2>1, <3>1 DEF handle_cur_connection, ServeTypeOK
    <3>3. ChannelInv' /\ EdgeInv'
      BY <2>1, <2>2, <3>1 DEF ChannelInv, EdgeInv, Readable
    <3>4. ShareInv'
      BY <2>1, <2>2, <3>1 DEF ShareInv, Rotation, Deaf
    <3> QED BY <3>2, <3>3, <3>4
  <2>3. CASE channel.events_ = {}
    <3>1. /\ epoll' = [epoll EXCEPT !.interest = {},
                                    !.ready = "IN" \in {} /\ Readable]
      BY <1>3, <2>1, <2>3 DEF handle_cur_connection
    <3>2. ("IN" \in {} /\ Readable) = FALSE
      OBVIOUS
    <3>3. epoll' = [epoll EXCEPT !.interest = {}, !.ready = FALSE]
      BY <3>1, <3>2
    <3>4. /\ epoll'.added = epoll.added /\ epoll'.interest = {}
          /\ epoll' \in [added : BOOLEAN, interest : {{}, InEt}, ready : BOOLEAN]
      BY <1>0, <3>3
    <3>5. ServeTypeOK'
      BY <1>0, <1>3, <2>1, <3>4 DEF handle_cur_connection, ServeTypeOK
    <3>6. ~(epoll.added /\ accept_fd = NULL)
      BY <2>1, <2>3 DEF EdgeInv
    <3>7. ChannelInv' /\ EdgeInv'
      BY <2>1, <3>4, <3>6 DEF ChannelInv, EdgeInv
    <3>8. FairShare
      BY DEF ShareInv, Rotation, FairShare, LoopThreads
    <3>9. ShareInv'
      BY <2>1, <3>4, <3>8 DEF ShareInv, Deaf, FairShare
    <3> QED BY <3>5, <3>7, <3>9
  <2> QED BY <1>0, <2>2, <2>3
<1> QED BY <1>1, <1>2, <1>3

\* A turn of the accept loop: the loop after the ones that are ahead gets the
\* connection, and after the last loop they are all even again.
LEMMA AssignServeInv ==
  ASSUME StartInv, ServeInv, assign \/ set_socket_nonblock_fails
  PROVE  ServeInv'
<1> USE DEF ServeInv, Serving
<1>1. /\ pc = "assign" /\ channel.events_ = {} /\ channel.last_events_ = InEt
      /\ i = num_threads + 1 /\ accept_fd # NULL
      /\ UNCHANGED <<i, channel, epoll, backlog, accept_fd, latest>>
  BY DEF assign, set_socket_nonblock_fails, ChannelInv, starting
<1>2. next_ \in 0..(num_threads - 1)
      /\ next_' = IF next_ + 1 = num_threads THEN 0 ELSE next_ + 1
  BY NextLoop DEF assign, set_socket_nonblock_fails, get_next_loop, ServeTypeOK
<1>3. Rotation
  BY <1>1 DEF ShareInv, Deaf
<1>4. EdgeInv'
  BY <1>1 DEF EdgeInv
<1>5. CASE assign
  <2>1. DOMAIN loops_ = 1..num_threads
    BY <1>1, LenProperties DEF StartInv, TypeOK, MainInv
  <2>2. next_ + 1 \in LoopThreads /\ loops_[next_ + 1] = next_ + 1
    BY <1>2, <2>1 DEF StartInv, LoopsReady, LoopThreads
  <2>3. /\ queued \in [LoopThreads -> Seq(Clients)] /\ accept_fd \in Clients
        /\ queued' = [queued EXCEPT ![next_ + 1] = Append(@, accept_fd)]
        /\ pc' = pc
    BY <1>1, <1>5, <2>2 DEF assign, ServeTypeOK
  <2>4. /\ Append(queued[next_ + 1], accept_fd) \in Seq(Clients)
        /\ Len(Append(queued[next_ + 1], accept_fd)) = Len(queued[next_ + 1]) + 1
    BY <2>2, <2>3, AppendProperties
  <2>5. ServeTypeOK'
    BY <1>1, <1>2, <2>2, <2>3, <2>4 DEF ServeTypeOK
  <2>6. ChannelInv'
    BY <1>1, <2>3 DEF ChannelInv
  <2>7. PICK b \in Nat : \A k \in LoopThreads :
          Len(queued[k]) = IF k <= next_ THEN b + 1 ELSE b
    BY <1>3 DEF Rotation
  <2>8. \A k \in LoopThreads :
          Len(queued'[k]) = IF k <= next_ + 1 THEN b + 1 ELSE b
    <3> SUFFICES ASSUME NEW k \in LoopThreads
                 PROVE  Len(queued'[k]) = IF k <= next_ + 1 THEN b + 1 ELSE b
      OBVIOUS
    <3>1. CASE k = next_ + 1
      <4>1. Len(queued[k]) = b
        BY <1>2, <2>7, <3>1
      <4>2. queued'[k] = Append(queued[next_ + 1], accept_fd)
        BY <2>2, <2>3, <3>1
      <4> QED BY <1>2, <2>4, <3>1, <4>1, <4>2
    <3>2. CASE k # next_ + 1
      <4>1. queued'[k] = queued[k]
        BY <2>3, <3>2
      <4>2. k <= next_ <=> k <= next_ + 1
        BY <1>2, <3>2 DEF LoopThreads
      <4> QED BY <1>2, <2>7, <4>1, <4>2 DEF LoopThreads
    <3> QED BY <3>1, <3>2
  <2>9. Rotation'
    <3>1. CASE next_ + 1 = num_threads
      <4>1. \A k \in LoopThreads :
              Len(queued'[k]) = IF k <= next_' THEN (b + 1) + 1 ELSE b + 1
        BY <1>2, <2>8, <3>1 DEF LoopThreads
      <4>2. b + 1 \in Nat
        OBVIOUS
      <4> QED BY <4>1, <4>2 DEF Rotation
    <3>2. CASE next_ + 1 # num_threads
      BY <1>2, <2>8, <3>2 DEF Rotation
    <3> QED BY <3>1, <3>2
  <2> QED BY <1>4, <2>5, <2>6, <2>9 DEF ShareInv
<1>6. CASE set_socket_nonblock_fails
  <2>1. pc' = "connect" /\ queued' = queued
    BY <1>6 DEF set_socket_nonblock_fails
  <2>2. ServeTypeOK'
    BY <1>1, <1>2, <2>1 DEF ServeTypeOK
  <2>3. ChannelInv'
    BY <1>1, <2>1 DEF ChannelInv
  <2>4. FairShare
    BY <1>2, <1>3 DEF Rotation, FairShare, LoopThreads
  <2>5. ShareInv'
    BY <1>1, <2>1, <2>4 DEF ShareInv, Deaf, FairShare
  <2> QED BY <1>4, <2>2, <2>3, <2>5
<1> QED BY <1>5, <1>6

\* A client that connects makes an edge; one that gives up makes none.
LEMMA ClientServeInv ==
  ASSUME ServeInv, NEW c \in Clients, connect(c) \/ gives_up(c)
  PROVE  ServeInv'
<1> USE EventSets DEF ServeInv, Serving
<1>1. UNCHANGED <<pc, i, next_, channel, accept_fd, queued>>
  BY DEF connect, gives_up, starting
<1>2. /\ epoll \in [added : BOOLEAN, interest : {{}, InEt}, ready : BOOLEAN]
      /\ backlog \in Seq(Clients)
  BY DEF ServeTypeOK
<1>3. CASE connect(c)
  <2>1. (epoll.ready \/ "IN" \in epoll.interest) \in BOOLEAN
    OBVIOUS
  <2>2. /\ epoll' = [epoll EXCEPT !.ready = epoll.ready \/ "IN" \in epoll.interest]
        /\ backlog' = Append(backlog, c) /\ latest' = "connect"
    BY <1>3 DEF connect
  <2>3. epoll' \in [added : BOOLEAN, interest : {{}, InEt}, ready : BOOLEAN]
    BY <1>2, <2>1, <2>2, Zenon
  <2>4. /\ epoll'.added = epoll.added /\ epoll'.interest = epoll.interest
        /\ "IN" \in epoll.interest => epoll'.ready
    BY <1>2, <2>2
  <2>5. backlog' \in Seq(Clients)
    BY <1>2, <2>2, AppendProperties
  <2>6. ServeTypeOK'
    BY <1>1, <2>2, <2>3, <2>5 DEF ServeTypeOK
  <2>7. ChannelInv' /\ EdgeInv'
    BY <1>1, <2>2, <2>4 DEF ChannelInv, EdgeInv, Readable
  <2>8. ShareInv'
    BY <1>1, <2>4 DEF ShareInv, Rotation, Deaf, FairShare
  <2> QED BY <2>6, <2>7, <2>8
<1>4. CASE gives_up(c)
  <2>1. PICK n \in DOMAIN backlog :
          backlog' = SubSeq(backlog, 1, n - 1)
                       \o SubSeq(backlog, n + 1, Len(backlog))
    BY <1>4 DEF gives_up
  <2>2. /\ n \in 1..Len(backlog) /\ Len(backlog) \in Nat
        /\ \A m \in 1..Len(backlog) : backlog[m] \in Clients
    BY <1>2, <2>1, LenProperties, ElementOfSeq
  <2>3. /\ SubSeq(backlog, 1, n - 1) \in Seq(Clients)
        /\ SubSeq(backlog, n + 1, Len(backlog)) \in Seq(Clients)
    BY <2>2, SubSeqProperties
  <2>4. backlog' \in Seq(Clients)
    BY <2>1, <2>3, ConcatProperties
  <2>5. backlog # <<>> /\ epoll' = epoll /\ latest' = latest
    BY <1>2, <1>4, <2>2, EmptySeq DEF gives_up
  <2>6. ServeTypeOK'
    BY <1>1, <2>4, <2>5 DEF ServeTypeOK
  <2>7. ChannelInv' /\ EdgeInv'
    BY <1>1, <2>5 DEF ChannelInv, EdgeInv, Readable
  <2>8. ShareInv'
    BY <1>1, <2>5 DEF ShareInv, Rotation, Deaf, FairShare
  <2> QED BY <2>6, <2>7, <2>8
<1> QED BY <1>3, <1>4

LEMMA NextServeInv == StartInv /\ ServeInv /\ [Next]_vars => ServeInv'
<1> SUFFICES ASSUME StartInv, ServeInv, [Next]_vars PROVE ServeInv'
  OBVIOUS
<1>1. CASE \/ main \/ set_socket_bind_listen \/ constructor
           \/ Thread_start \/ latch_wait \/ start_loop \/ start_loop_returns
           \/ spurious_wakeup
           \/ \E k \in LoopThreads : LoopThread(k)
           \/ start
  BY <1>1, StartupServeInv
<1>2. CASE poll \/ accept \/ handle_cur_connection
  BY <1>2, PollServeInv
<1>3. CASE assign \/ set_socket_nonblock_fails
  BY <1>3, AssignServeInv
<1>4. CASE \E c \in Clients : connect(c) \/ gives_up(c)
  BY <1>4, ClientServeInv
<1>5. CASE UNCHANGED vars
  <2> USE <1>5 DEF vars, ServeInv
  <2>1. ServeTypeOK'
    BY DEF ServeTypeOK
  <2>2. ChannelInv' /\ EdgeInv'
    BY DEF ChannelInv, EdgeInv, Readable
  <2>3. ShareInv'
    BY DEF ShareInv, Rotation, Deaf, FairShare
  <2> QED BY <2>1, <2>2, <2>3
<1> QED BY <1>1, <1>2, <1>3, <1>4, <1>5 DEF Next, Main

\* What the channel, the kernel and the accept loop know of the listening
\* socket agrees, whether accept() succeeds, finds nobody or fails, and the
\* loops are served in turn.
THEOREM ServeInvariant == SafeSpec => []ServeInv
BY InitServeInv, NextServeInv, StartInvariant, PTL DEF SafeSpec

\* Until the first connection is accepted no edge of the listening socket is
\* lost, whenever clients come and go, unless accept() fails with clients
\* waiting; then the next client to connect makes the edge that serves them
\* all (handle_new_connection, handle_cur_connection).
THEOREM NoConnectionIsLost == SafeSpec => []NoLostConnection
<1>1. ServeInv => NoLostConnection
  BY EventSets DEF ServeInv, EdgeInv, NoLostConnection, Deliverable
<1> QED BY <1>1, ServeInvariant, PTL

\* No loop is ever more than one connection ahead of another.
THEOREM LoopsShareFairly == SafeSpec => []FairShare
<1>1. ServeInv => FairShare
  BY DEF ServeInv, ShareInv, ServeTypeOK, Rotation, FairShare, LoopThreads
<1> QED BY <1>1, ServeInvariant, PTL
=============================================================================
