------------------------------- MODULE Server -------------------------------
(***************************************************************************)
(* The main thread: main() reads its options and makes the Server, whose   *)
(* constructor opens the listening socket; start() starts the loop threads *)
(* one after the other (EventLoopThreadPool, EventLoopThread, Thread and   *)
(* its CountDownLatch) and registers the socket; then the main loop hands  *)
(* accepted connections to the loops.  The loop threads run concurrently   *)
(* with it, and clients connect and give up as soon as it listens.         *)
(*                                                                         *)
(* A critical section of a mutex is one step, and a wait on a condition    *)
(* variable is a state of its own that only a notification or a spurious   *)
(* wakeup ends.  What a loop does with a queued functor is EventLoop's.    *)
(***************************************************************************)
EXTENDS Integers, Sequences

CONSTANTS
  num_threads,
  Clients,
  MaxQueued,      \* bound on the functors queued in a run
  NULL

ASSUME ThreadsAssumption == num_threads \in Nat \ {0}
ASSUME NullAssumption == NULL \notin Nat \union Clients
ASSUME BoundAssumption == MaxQueued \in Nat

LoopThreads == 1..num_threads

VARIABLES
  pc,             \* where the main thread is
  i,              \* the loop thread that thread_pool_create() is starting
  thread,         \* where each loop thread is
  tid_, latch_,   \* of each Thread
  loop_,          \* of each EventLoopThread: NULL or its loop
  loops_, next_,  \* of the EventLoopThreadPool
  setup,          \* the process: its listening socket, and is SIGPIPE ignored?
  channel,        \* accept_channel_: events_ and last_events_
  epoll,          \* the kernel's side of its registration
  backlog,        \* clients the kernel has connected, not yet accepted
  accept_fd,      \* the connection accepted last, or NULL
  queued,         \* what was queued on each loop
  latest          \* history: the last to happen to the listening socket: a
                  \* client connected, poll() reported it, accept() failed

vars == <<pc, i, thread, tid_, latch_, loop_, loops_, next_, setup, channel,
          epoll, backlog, accept_fd, queued, latest>>
starting == <<i, thread, tid_, latch_, loop_, loops_>>
serving == <<next_, setup, channel, epoll, backlog, accept_fd, queued, latest>>

InEt == {"IN", "ET"}

Init ==
  /\ pc = "main"
  /\ i = 1
  /\ thread = [k \in LoopThreads |-> "none"]
  /\ tid_ = [k \in LoopThreads |-> 0]
  /\ latch_ = [k \in LoopThreads |-> 1]
  /\ loop_ = [k \in LoopThreads |-> NULL]
  /\ loops_ = <<>>
  /\ next_ = 0
  /\ setup = [listen_fd_ |-> -1, nonblock |-> FALSE, sigpipe |-> "default"]
  /\ channel = [events_ |-> {}, last_events_ |-> {}]
  /\ epoll = [added |-> FALSE, interest |-> {}, ready |-> FALSE]
  /\ backlog = <<>>
  /\ accept_fd = NULL
  /\ queued = [k \in LoopThreads |-> <<>>]
  /\ latest = "nothing"

-----------------------------------------------------------------------------
(* main() up to start().                                                   *)

\* getopt() is called once, before the loop: without options the server is
\* made; a log path that is not absolute aborts; any other option is looked
\* at again and again, and main() never gets out of its loop.
main ==
  /\ pc = "main"
  /\ pc' \in {"socket", "stopped", "spinning"}
  /\ UNCHANGED <<starting, serving>>

\* set_socket_bind_listen(): socket(), setsockopt(), bind() and listen(), any
\* of which may fail; then the socket is closed and the descriptor is -1.
\* From a successful listen() on clients can connect.
set_socket_bind_listen ==
  /\ pc = "socket"
  /\ \/ setup' = [setup EXCEPT !.listen_fd_ = 0]
     \/ UNCHANGED setup
  /\ pc' = "constructor"
  /\ UNCHANGED <<starting, next_, channel, epoll, backlog, accept_fd, queued, latest>>

\* A plausible slip: a failure is reported and the server goes on.
constructor_NoAbort ==
  /\ pc = "constructor"
  /\ setup' \in {[setup EXCEPT !.sigpipe = "ignored", !.nonblock = nb] :
                  nb \in BOOLEAN}
  /\ pc' = "create"
  /\ UNCHANGED <<starting, next_, channel, epoll, backlog, accept_fd, queued, latest>>

\* The body of the constructor: SIGPIPE is ignored and the socket made
\* non-blocking, which fails for certain without a socket and aborts.
constructor ==
  /\ pc = "constructor"
  /\ \/ /\ setup.listen_fd_ >= 0
        /\ setup' = [setup EXCEPT !.sigpipe = "ignored", !.nonblock = TRUE]
        /\ pc' = "create"
     \/ /\ setup' = [setup EXCEPT !.sigpipe = "ignored"]
        /\ pc' = "stopped"
  /\ UNCHANGED <<starting, next_, channel, epoll, backlog, accept_fd, queued, latest>>

-----------------------------------------------------------------------------
(* The main thread starts loop thread i: start_loop() calls start().       *)

\* Thread::start() up to its latch.  Without a thread it returns at once,
\* and start_loop() goes on to wait for the loop all the same.
Thread_start ==
  /\ pc = "create"
  /\ i <= num_threads
  /\ \/ thread' = [thread EXCEPT ![i] = "created"] /\ pc' = "latch"
     \/ thread' = [thread EXCEPT ![i] = "failed"] /\ pc' = "start_loop"
  /\ UNCHANGED <<i, tid_, latch_, loop_, loops_, serving>>

\* latch_.wait(), and the assertion after it.
latch_wait ==
  /\ pc = "latch"
  /\ pc' = IF latch_[i] > 0 THEN "latch_waiting"
           ELSE IF tid_[i] > 0 THEN "start_loop" ELSE "aborted"
  /\ UNCHANGED <<starting, serving>>

\* A plausible slip: the condition is not tested again after the wait.
start_loop_Once ==
  /\ pc = "start_loop"
  /\ pc' = "return"
  /\ UNCHANGED <<starting, serving>>

\* start_loop(): with the mutex, while (loop_ == NULL) condition_.wait().
start_loop ==
  /\ pc = "start_loop"
  /\ pc' = IF loop_[i] = NULL THEN "loop_waiting" ELSE "return"
  /\ UNCHANGED <<starting, serving>>

\* start_loop() returns loop_, without the mutex, and the next one is due.
start_loop_returns ==
  /\ pc = "return"
  /\ loops_' = Append(loops_, loop_[i])
  /\ i' = i + 1
  /\ pc' = "create"
  /\ UNCHANGED <<thread, tid_, latch_, loop_, serving>>

\* The main thread, if it waits for this, tests its condition again.
Woken(waiting, test) == IF pc = waiting THEN test ELSE pc

spurious_wakeup ==
  /\ pc \in {"latch_waiting", "loop_waiting"}
  /\ pc' = IF pc = "latch_waiting" THEN "latch" ELSE "start_loop"
  /\ UNCHANGED <<starting, serving>>

-----------------------------------------------------------------------------
(* Loop thread k.                                                          *)

\* A plausible slip: the id is left for later.
runInThread_NoTid(k) ==
  /\ thread[k] = "created"
  /\ thread' = [thread EXCEPT ![k] = "running"]
  /\ UNCHANGED <<pc, i, tid_, latch_, loop_, loops_, serving>>

\* ThreadData::runInThread() writes its id through tid_ (k stands for it).
runInThread(k) ==
  /\ thread[k] = "created"
  /\ tid_' = [tid_ EXCEPT ![k] = k]
  /\ thread' = [thread EXCEPT ![k] = "running"]
  /\ UNCHANGED <<pc, i, latch_, loop_, loops_, serving>>

\* It counts the latch down, which notifies with the mutex held.
count_down(k) ==
  /\ thread[k] = "running"
  /\ latch_' = [latch_ EXCEPT ![k] = @ - 1]
  /\ pc' = IF i = k /\ latch_'[k] = 0 THEN Woken("latch_waiting", "latch")
                                      ELSE pc
  /\ thread' = [thread EXCEPT ![k] = "counted"]
  /\ UNCHANGED <<i, tid_, loop_, loops_, serving>>

\* A plausible slip: the waiting thread is not notified.
thread_func_NoNotify(k) ==
  /\ thread[k] = "counted"
  /\ loop_' = [loop_ EXCEPT ![k] = k]
  /\ thread' = [thread EXCEPT ![k] = "looping"]
  /\ UNCHANGED <<pc, i, tid_, latch_, loops_, serving>>

\* EventLoopThread::thread_func(): the loop exists and is published.
thread_func(k) ==
  /\ thread[k] = "counted"
  /\ loop_' = [loop_ EXCEPT ![k] = k]
  /\ pc' = IF i = k THEN Woken("loop_waiting", "start_loop") ELSE pc
  /\ thread' = [thread EXCEPT ![k] = "looping"]
  /\ UNCHANGED <<i, tid_, latch_, loops_, serving>>

-----------------------------------------------------------------------------
(* The main thread serves.                                                 *)

Readable == backlog # <<>>

\* Server::start() registers the listening socket, and the main loop runs.
\* The registration may fail; the server then listens to nobody.
start ==
  /\ pc = "create"
  /\ i > num_threads
  /\ pc' = "poll"
  /\ channel' = [events_ |-> InEt, last_events_ |-> InEt]
  /\ \/ epoll' = [added |-> TRUE, interest |-> InEt, ready |-> Readable]
     \/ UNCHANGED epoll
  /\ UNCHANGED <<starting, next_, setup, backlog, accept_fd, queued, latest>>

Deliverable == epoll.ready /\ "IN" \in epoll.interest /\ Readable

\* poll() reports the listening socket; the edge is used up and
\* handle_events() clears the events.
poll ==
  /\ pc = "poll"
  /\ Deliverable
  /\ epoll' = [epoll EXCEPT !.ready = FALSE]
  /\ channel' = [channel EXCEPT !.events_ = {}]
  /\ pc' = "accept"
  /\ latest' = "report"
  /\ UNCHANGED <<starting, next_, setup, backlog, accept_fd, queued>>

\* accept() returns -1 (EMFILE, ENFILE, ENOMEM...), whoever waits.
Failed == IF Readable /\ latest = "report" THEN "failure" ELSE latest

\* A plausible slip: the events are only set again after a connection.
accept_Forgets ==
  /\ pc = "accept"
  /\ \/ /\ Readable
        /\ accept_fd' = Head(backlog)
        /\ backlog' = Tail(backlog)
        /\ pc' = "assign"
        /\ UNCHANGED latest
     \/ /\ pc' = "connect"
        /\ latest' = Failed
        /\ UNCHANGED <<accept_fd, backlog>>
  /\ UNCHANGED <<starting, next_, setup, epoll, queued, channel>>

\* handle_new_connection() up to its loop.  When accept() gives no descriptor,
\* because the client has gone or because it fails with clients waiting, the
\* loop is not entered and the events are set for the next one.
accept ==
  /\ pc = "accept"
  /\ \/ /\ Readable
        /\ accept_fd' = Head(backlog)
        /\ backlog' = Tail(backlog)
        /\ pc' = "assign"
        /\ UNCHANGED <<channel, latest>>
     \/ /\ channel' = [channel EXCEPT !.events_ = InEt]
        /\ pc' = "connect"
        /\ latest' = Failed
        /\ UNCHANGED <<accept_fd, backlog>>
  /\ UNCHANGED <<starting, next_, setup, epoll, queued>>

\* A plausible slip: the index stays behind.
get_next_loop_Stuck == next_

\* get_next_loop(): where next_ goes after loops_[next_] has been taken.
get_next_loop == (next_ + 1) % num_threads

\* One turn of the loop: the next loop gets a new_event for accept_fd.  The
\* descriptor is not accepted anew, so the loop goes on with the same one.
\* (It is not above MAXFDS_: it is the first one the server accepts.)
assign ==
  /\ pc = "assign"
  /\ next_' = get_next_loop
  /\ LET k == loops_[next_ + 1] IN
       /\ Len(queued[k]) < MaxQueued
       /\ queued' = [queued EXCEPT ![k] = Append(@, accept_fd)]
  /\ UNCHANGED <<pc, starting, setup, channel, epoll, backlog, accept_fd, latest>>

\* The descriptor cannot be made non-blocking: the function returns.
set_socket_nonblock_fails ==
  /\ pc = "assign"
  /\ next_' = get_next_loop
  /\ pc' = "connect"
  /\ UNCHANGED <<starting, setup, channel, epoll, backlog, accept_fd, queued, latest>>

\* handle_cur_connection(): update_poller(), which tells the kernel when the
\* events differ from the last ones.
handle_cur_connection ==
  /\ pc = "connect"
  /\ channel' = [channel EXCEPT !.last_events_ = channel.events_]
  /\ epoll' = IF channel.events_ = channel.last_events_ THEN epoll
              ELSE [epoll EXCEPT
                      !.interest = channel.events_,
                      !.ready = "IN" \in channel.events_ /\ Readable]
  /\ pc' = "poll"
  /\ UNCHANGED <<starting, next_, setup, backlog, accept_fd, queued, latest>>

-----------------------------------------------------------------------------
(* The clients.                                                            *)

Waiting(c) == \E n \in DOMAIN backlog : backlog[n] = c
Known(c) == Waiting(c) \/ accept_fd = c

connect(c) ==
  /\ setup.listen_fd_ >= 0
  /\ ~Known(c)
  /\ backlog' = Append(backlog, c)
  /\ epoll' = [epoll EXCEPT !.ready = @ \/ "IN" \in epoll.interest]
  /\ latest' = "connect"
  /\ UNCHANGED <<pc, starting, next_, setup, channel, accept_fd, queued>>

\* The client closes before it is accepted (it waits at one place only).
gives_up(c) ==
  /\ \E n \in DOMAIN backlog :
       /\ backlog[n] = c
       /\ backlog' = SubSeq(backlog, 1, n - 1)
                       \o SubSeq(backlog, n + 1, Len(backlog))
  /\ UNCHANGED <<pc, starting, next_, setup, channel, epoll, accept_fd, queued, latest>>

Main ==
  \/ main \/ set_socket_bind_listen \/ constructor
  \/ Thread_start \/ latch_wait \/ start_loop \/ start_loop_returns
  \/ start \/ poll \/ accept \/ assign \/ set_socket_nonblock_fails
  \/ handle_cur_connection

LoopThread(k) == runInThread(k) \/ count_down(k) \/ thread_func(k)

Next ==
  \/ Main \/ spurious_wakeup
  \/ \E k \in LoopThreads : LoopThread(k)
  \/ \E c \in Clients : connect(c) \/ gives_up(c)

SafeSpec == Init /\ [][Next]_vars

\* Threads are scheduled; clients do as they like, and no wait has to end
\* without a notification.
Spec == SafeSpec /\ WF_vars(Main) /\ \A k \in LoopThreads : WF_vars(LoopThread(k))

-----------------------------------------------------------------------------
(* Properties.                                                             *)

\* A loop that start_loop() has returned exists and belongs to the thread
\* that was started for it, although loop_ is read without the mutex
\* (start_loop against thread_func, thread_pool_create).
LoopsReady ==
  \A k \in DOMAIN loops_ : loops_[k] = k /\ thread[k] = "looping"

\* The assertion after the latch in Thread::start() holds: the id is written
\* before the latch is counted down.
TidKnown == pc # "aborted"

-----------------------------------------------------------------------------
(* The inductive invariant behind the two.                                 *)

\* Before start(), and the ways in which the server never gets to it.
Startup == {"main", "socket", "constructor", "stopped", "spinning"}

TypeOK ==
  /\ pc \in Startup \union
            {"create", "latch", "latch_waiting", "start_loop", "loop_waiting",
             "return", "aborted", "poll", "accept", "assign", "connect"}
  /\ i \in 1..(num_threads + 1)
  /\ thread \in [LoopThreads -> {"none", "failed", "created", "running",
                                "counted", "looping"}]
  /\ tid_ \in [LoopThreads -> Nat]
  /\ latch_ \in [LoopThreads -> {0, 1}]
  /\ loop_ \in [LoopThreads -> LoopThreads \union {NULL}]
  /\ loops_ \in Seq(LoopThreads \union {NULL})

\* How far a loop thread is shows in its latch, its id and its loop.
ThreadInv ==
  \A k \in LoopThreads :
    /\ latch_[k] = 0 <=> thread[k] \in {"counted", "looping"}
    /\ thread[k] \in {"running", "counted", "looping"} => tid_[k] > 0
    /\ loop_[k] = IF thread[k] = "looping" THEN k ELSE NULL

\* The main thread starts them in order and returns what is published.
MainInv ==
  /\ pc \in {"latch", "latch_waiting", "start_loop", "loop_waiting", "return"}
       => i <= num_threads
  /\ pc = "return" => thread[i] = "looping"
  /\ Len(loops_) = i - 1
  /\ \A k \in LoopThreads : k > i => thread[k] = "none"
  /\ pc \in {"create"} \union Startup /\ i <= num_threads => thread[i] = "none"

StartInv == TypeOK /\ ThreadInv /\ MainInv /\ LoopsReady /\ TidKnown

-----------------------------------------------------------------------------

\* The main thread gets through the start of all loop threads, whatever the
\* order of its tests and their notifications, unless a thread could not be
\* created (Thread::start, CountDownLatch, start_loop, thread_func).
StartReturns ==
  <>(pc \in {"poll", "stopped", "spinning"} \/ \E k \in LoopThreads : thread[k] = "failed")

\* No client is left waiting by the edge-triggered listening socket: once it
\* is registered, and until a connection has been accepted, a main loop that
\* sleeps while a client waits is woken for it, also after a client that gave
\* up.  The exception is an accept() that fails although clients wait: they
\* have used up their edge, nothing is registered anew, and they wait until
\* another client connects (handle_new_connection, handle_cur_connection).
NoLostConnection ==
  pc = "poll" /\ epoll.added /\ accept_fd = NULL /\ Readable /\ latest # "failure"
    => Deliverable

Ready == [listen_fd_ |-> 0, nonblock |-> TRUE, sigpipe |-> "ignored"]

\* The main loop never blocks in accept(), not even when the client that was
\* reported has gone, and never works on a socket that could not be opened;
\* and a write to a client that has gone does not end the process (the
\* constructor of Server against handle_new_connection).
NeverBlocks ==
  pc \in {"accept", "assign"} \/ (pc = "poll" /\ epoll.added) => setup = Ready

\* Why: nothing gets past the constructor unless all of it has succeeded.
SetupInv ==
  /\ setup \in [listen_fd_ : {-1, 0}, nonblock : BOOLEAN,
                sigpipe : {"default", "ignored"}]
  /\ pc \in Startup \/ setup = Ready

\* The loops get the same share, up to one (get_next_loop).
FairShare ==
  \A j, k \in LoopThreads : Len(queued[j]) <= Len(queued[k]) + 1

-----------------------------------------------------------------------------
(* The inductive invariant behind NoLostConnection and FairShare.          *)

Serving == {"poll", "accept", "assign", "connect"}

ServeTypeOK ==
  /\ next_ \in 0..(num_threads - 1)
  /\ channel \in [events_ : {{}, InEt}, last_events_ : {{}, InEt}]
  /\ epoll \in [added : BOOLEAN, interest : {{}, InEt}, ready : BOOLEAN]
  /\ backlog \in Seq(Clients)
  /\ accept_fd \in Clients \union {NULL}
  /\ queued \in [LoopThreads -> Seq(Clients)]
  /\ latest \in {"nothing", "connect", "report", "failure"}

\* The listening socket is registered with the events that the channel last
\* told the kernel, and the channel has none while they are handled.
ChannelInv ==
  /\ pc \in Serving => i = num_threads + 1
  /\ epoll.added => pc \in Serving
  /\ pc = "assign" => accept_fd # NULL
  /\ pc \in {"accept", "assign"} => channel.events_ = {}
  /\ pc \in Serving =>
       \/ channel.last_events_ = InEt
       \/ pc = "poll" /\ epoll.interest = {}

\* Until a connection has been accepted the edge of a waiting client is kept,
\* or used up by a report that accept() has still to answer or has failed to.
EdgeInv ==
  epoll.added /\ accept_fd = NULL =>
    /\ epoll.interest = InEt
    /\ channel.last_events_ = InEt
    /\ Readable /\ latest = "connect" => epoll.ready
    /\ \/ pc = "accept" /\ latest # "nothing"
       \/ channel.events_ = InEt /\ (Readable /\ latest # "failure" => epoll.ready)

\* The main loop hears of no connection any more.
Deaf ==
  \/ pc = "connect" /\ channel.events_ = {}
  \/ pc = "poll" /\ epoll.interest = {}

\* The loops before next_ are one connection ahead of the others.
Rotation ==
  \E b \in Nat : \A k \in LoopThreads :
    Len(queued[k]) = IF k <= next_ THEN b + 1 ELSE b

\* A turn that fails skips a loop, and it is the last one.
ShareInv == Rotation \/ (Deaf /\ FairShare)

ServeInv == ServeTypeOK /\ ChannelInv /\ EdgeInv /\ ShareInv

\* A connection is handed to one loop, once.
AssignedOnce ==
  \A j, k \in LoopThreads :
    \A m \in DOMAIN queued[j], n \in DOMAIN queued[k] :
      queued[j][m] = queued[k][n] => j = k /\ m = n
=============================================================================
