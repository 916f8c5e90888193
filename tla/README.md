# Verification of FastWebServer

TLA+ modules that model FastWebServer, the TLC configurations that check them on
small instances, and TLAPS proofs for every size. The code is the reference:
every definition that models code is listed with its lines in `PROJECT.json`
under `map`.

Run from this directory: `tlc -config X.cfg MCModule` checks a configuration,
`tlapm XProofs.tla` checks the proofs of a module.

## 1. The system

FastWebServer is a multi-threaded HTTP server in the reactor style. A main
thread accepts connections and hands each to one of a fixed number of loop
threads; each loop thread runs an `EventLoop` over its own `Epoll`, calls the
handlers of its `Channel`s, runs the functors other threads queued, and closes
connections whose timer has expired. All threads log through an asynchronous
log with a thread of its own. A task-queue `ThreadPool` is part of the source
and described in the README, but the current server does not use it.

| Part | State | Operations | Works with |
|---|---|---|---|
| `EventLoop` | `pending_functors_` (mutex), `quit_`, `looping_`, `calling_pending_functors_`, an eventfd | `loop`, `queue_in_loop`, `run_in_loop`, `quit`, `wakeup`, the wakeup channel's handlers | other threads push functors and write the eventfd; the loop thread swaps and calls |
| `Epoll`, `Channel` | `fd_to_channel_`, `fd_to_http_`; per channel `events_`, `last_events_`, `revents_` | add, modify, delete, `poll`, `handle_events` | kernel registrations, edge-triggered and partly one-shot |
| `TimerPQueue`, `Timer` | heap of timers, deleted flag, expiry modulo 10^7 ms | `add_timer`, `clear_request`, `handle_expired_event` | a timer holds its `HttpData` and closes it when destroyed |
| `HttpData` | connection state, error flag, stage of the request, `keep_alive_`, buffers, a weak pointer to its timer | `new_event`, `handle_read`, `handle_write`, `handle_connect`, `handle_close`, the parser | runs on the loop thread, against client, kernel and clock |
| `ThreadPool` | ring `queue_` with `head_`, `tail_`, `count_`; `shutdown_`, `started_`, `thread_count_` (mutex, condition variable) | create, add, destroy, free, the worker | callers and workers meet in the ring |
| `Logging`, `LogBuffer`, `Logger` | `cur_buffer_`, `next_buffer_`, `buffer_list_` (mutex, condition variable), `is_running_`, a latch | `output` (with `pthread_once`), `append`, `start`, `stop`, `thread_func` | every thread appends, one thread writes |
| `AppendLog`, `AppendUtil` | a stdio stream, `count_` | `append`, `flush` | the log thread writes through them |
| `LogStream` | the buffer of one line | the `<<` operators, `convert` | a `Logger` makes a line, ends it and hands it to `Logging` |
| `main`, `Server` | options; listening socket and its channel | the constructor, `start`, `handle_new_connection`, `handle_cur_connection` | queues `HttpData::new_event` on a loop |
| `EventLoopThread(Pool)` | `loop_` (mutex, condition variable), `next_` | `start_loop`, `thread_func`, the destructor, `get_next_loop` | creates the loops, round robin |
| `Thread`, `CountDownLatch`, `Condition`, `MutexLock` | latch count, `started_`, `joined_`, `tid_` | start, join, wait, notify | used by all of the above |
| Parser (`parse_URI`, `parse_Headers`, `analyze_request`) | `process_state_`, `parse_state_`, `buffer_in_`, `headers_` | one pass per read | part of `handle_read` |
| `Nanolog` | packages of bytes and nibbles | `pack`, `unpack`, `get_size_of_package` | under development, not built |

What is hard to test here, and what correctness is about:

* hand-over without lost wakeups: `queue_in_loop` and `quit` against
  `epoll_wait`; `thread_pool_add` against `pthread_cond_wait`; `Logging::stop`
  against the timed wait;
* epoll used edge-triggered and one-shot, with a cached copy of the registered
  events that decides whether the kernel is told;
* timers that are not removed but marked, that own the connection they close,
  and that compare times of a clock that wraps;
* shutdown while tasks are queued, running and being added; partial creation;
* double buffering: nothing lost, repeated or out of order between two threads;
* a parser whose state is kept between reads while its positions are not;
* the boundaries of numbers and of buffers: digits, packages, lines;
* the end of a loop thread while others still call it.

`PROJECT.json` lists the hazards line by line with the properties aimed at them.

## 2. How the source is read

The source does not compile as it stands; a few slips are read as what they
evidently mean, since there is no other program they could stand for:
`request_events() > 0` as the size of the vector (`Epoll.cpp:68`), missing
semicolons, `prase_state_` as `parse_state_`, `events_[i]->events` as
`events_[i].events`, `char data_(SIZE)` as an array, `get_events()` as the
reference its callers bind, the four-argument `modify_fd_in_epoll` in
`EventLoop.cpp:35` as the modification of that descriptor to these events,
`buffer_in_.size() < content_length` (`HttpData.cpp:192`) as the comparison of
the two. What
compiles and does the wrong thing is modelled as it is: `n_read = 0` in `readn`
(`Util.cpp:20`), `EPOLLIN || EPOLLET` (`HttpData.cpp:246`), the write handler
(`HttpData.cpp:109`), `reset()` on the shared pointers (`Logging.cpp:210`), the
mutex that stays locked (`ThreadPool.cpp:85`), the tests of an unsigned number
for less than zero (`HttpData.cpp:269-315`), `'r'` for `'\r'`
(`HttpData.cpp:335`), the `getopt` before its loop (`main.cpp:18`).

## 3. Modules

### EventLoop (`EventLoop.cpp`, with the wakeup channel's part of `Epoll.cpp`, `Channel.cpp`, `Util.cpp`)

The loop thread's position is `pc`; the other variables have the names of the
members. `queue_in_loop(t, f)` is the push under the mutex; a thread that has
pushed, or set `quit_`, and has not yet written the eventfd is in `waking`, and
`wakeup(t)` is the write. `poll`, `handle_events`, `handle_read`,
`handle_connect`, `swap`, `call_functor` are the steps of the loop thread. The
kernel's side of the eventfd is `counter`, `interest` and `ready`. Functors may
themselves queue functors and quit. `FunctorQueue` is the abstract promise:
a queue whose functors are called once, in order, and eventually while the loop
runs; `queue_in_loop` appends, and `run_in_loop` on the loop's thread calls at
once.

### EventLoopThread (`EventLoopThread.cpp`, with `join` and `detach` of `include/Thread.cpp`)

Extends `EventLoop` by the end of its thread. `clear_loop` and `exit` are the end
of `thread_func`; `destroy`, `call_quit` and `join` are the destructor, run by
one of the other threads at any time after `start_loop` has returned: before
`loop()`, while it runs, or after it. `loop_` is read without the mutex, so it
can be cleared between the destructor's test and its call; that call is
undefined, and the model lets it return or crash. A `wakeup` that comes after
the loop is gone writes to nobody.

### ThreadPool (`ThreadPool.cpp`)

`create_thread` creates one worker or fails, `thread_pool_add` is one critical
section, a worker is at `lock`, `wait`, `run` or `exited`; `take_task`,
`cond_wait` and `thread_exit` are the three ways its critical section ends. A
thread in `thread_pool_destory` sets `shutdown_` and broadcasts, joins, and ends
in `thread_pool_free`, which locks the mutex twice and blocks. A second call
returns with the mutex locked: `holder` records it. Signals wake one waiting
worker, and waits may end spuriously. Arguments outside of the limits are
replaced by 4 and 1024 as in the code. `thread_pool_create` is called once and
before a shutdown. `TaskQueue` is the abstract promise, a bounded queue that
hands tasks to workers in order.

### Connection (`HttpData.cpp`, `Epoll.cpp`, `Channel.cpp`, `Timer.cpp`)

One loop thread with its connections. `poll`, `handle_events`, `handle_read`,
`handle_connect` (three actions: the connection is kept, shut down, or in
error), `new_event` and `handle_expired_event` are the handlers; the whole of
`handle_read` with the write and the reset it calls is one step, since nothing
else runs on that thread and the client's part in it is only what is in the
socket. A socket has unread input, a FIN, a reset, or a full send buffer; epoll
keeps what is registered and whether the descriptor is on the ready list. What
the stages of the parser make of the input is one of the `Outcomes` of
`HttpStages`: fail, wait for more, or answer, with what the code can do from the
stage it is in; `handle_read_throws` is the exception of `stoi`, which ends the
process. A closed
connection's object is destroyed and forgotten; where the code goes on to use it
(`HttpData.cpp:253-255`, and the connect handler after a write handler that has
closed) `use_freed` lets the loop go on or the process die. The clock is `now`,
modulo `Wrap`; `left` and `wrapped` are history variables that measure real time.

### HttpStages and HttpParser (`HttpData.cpp:136-206, 264-516`)

`HttpParser` is `handle_read` over the bytes. Its input is a sequence of tokens:
single characters where the code looks for one (`/`, `:`, `CR`, `LF`, the space
`SP`, the letter `r`), words elsewhere. `handle_read` takes any number of the
tokens that have not been read, and runs the stages as the code does:
`ParseURI`, `ParseHeaders` (`Scanned`: `step`, the switch on `parse_state_`, for
every position of the buffer), `ReceiveBody` and `AnalyzeRequest`, with what the
file system answers chosen freely. Between
two reads only the members of `HttpData` survive; the positions start again at
-1 (0 here), and the byte in front of the buffer that the code may then read is
the token `junk`. What is claimed about well-formed requests is claimed about
`PlainRequest`: its parts do not contain what separates them, its name contains
no `GET` or `POST`, no header is empty or given twice, and the first does not
begin with `r`; on other requests the code does what section 4 lists.
`HttpStages` is what this promises to `Connection`, and
`ImplementsStages` shows that no pass has another outcome.

### Logging (`include/Log/`)

`append` is one critical section; the log thread's steps are the head of the
loop with its assertions, the timed wait, the exchange of buffers, the write and
the taking back. A message is a length, a buffer a list of messages with its
cursor. A failing assertion aborts the process (the default build has
assertions) and its line is kept in `failed_assert_`. `file` is what stdio has
been given; each turn ends with a flush. `stop` may come with messages in the
buffers, which the log thread then leaves unwritten; the server never calls it,
and no property is stated about them.

### LogLine and LogFile (`Logging.cpp:8-125`, `Logger.cpp`, `LogUtil.cpp`)

`LogLine` is one `Logger` after the other: `insert` is a `<<`, which leaves out
what does not fit, `end_line` the destructor, which adds where the line comes
from, and hands the line to `Logging`'s `append` (`output`). `convert` spells
integers out, with C++'s division; what `snprintf` writes is given. The
lines collect in `cur_buffer_` and the buffers before it in `buffer_list_`, a full one by `output`, the current one, empty or not, by
`exchange`, the log thread's part; `append_buffer` is its loop over them
(`Logging.cpp:197`), which may come here at any time and in any number of turns:
what a turn is, where the empty buffers come from and what the cut drops are
`Logging`'s. `LogFile` writes a `LogBuffer` of any number of lines at once: a
step is one call of `fwrite`, which may take any part of what it is given, with
the loop of `AppendUtil::append` around it, the count of appends that forces a
flush, and `flush`.

### Packer (`include/Nanolog/Packer.h`)

`pack` writes packages one behind the other, each with all the bytes of its type
and an advance by the bytes it counts, and keeps the codes as nibbles; `unpack`
reads them back in order. A byte has `B` values, an even number, so that
a signed type has as many negative values as others; `Power[n]` is the number of
values of `n` bytes. What is packed (`Values`) is a constant: any values that the
types represent.

### Server (`main.cpp`, `Server.cpp`, `Util.cpp`, `EventLoopThreadPool.cpp`, `EventLoopThread.cpp`, `include/Thread.cpp`, `include/CountDownLatch.cpp`)

`main` goes on, aborts or spins, as its options have it;
`set_socket_bind_listen` may fail, and `constructor` then aborts. The main
thread, at `pc`, starts loop thread `i`: `Thread_start` creates it or
fails, `latch_wait` and `start_loop` are the two tests under their mutexes, and
the states `latch_waiting` and `loop_waiting` end only with a notification or a
spurious wakeup. `runInThread`, `count_down` and `thread_func` are the steps of
the loop threads. After `start` the main loop serves the listening socket:
`poll`, `accept`, one `assign` per turn of the loop in `handle_new_connection`,
and `handle_cur_connection`, with the edge-triggered registration in `epoll`.
The loop of `handle_new_connection` does not accept again, so `assign` leads
back to itself with the same `accept_fd`; only a failing `fcntl` ends it.
`accept()` may give no descriptor, because the client has gone or because it
fails (too many descriptors, no memory) whoever waits. `latest` is a history
variable: whether a client that connected, a report by `poll()` or such a
failure came last.
Clients connect, and may give up before they are accepted.

## 4. What is checked

| Run | Bounds | Shows |
|---|---|---|
| `event_loop` | 2 other threads, a destroyer, 3 functors | `NoLostWakeup`: the loop never sleeps on a queued functor or a quit; `IndInv`, the invariant of the proof; the loop implements `FunctorQueue`, liveness included; `QuitEndsLoop`; `NoUseAfterDestroy` and `JoinReturns` of the destructor |
| `thread_pool` | 3 workers, 2 slots, 4 tasks, 2 destroyers | `GracefulDrains`, `FreeNotRefused`, `PoolInv`, refinement of `TaskQueue`; unless the pool is destroyed twice, `AcceptedTaskRunsOneDestroy` and `DestroyJoins` |
| `connection_safety` | 2 connections, `Wrap` 3, timeouts 1 and 2 | `OneArmedTimer`, `NoLostInput`, `NotClosedEarly`, `ExpiredAreClosedBeforeWrap` |
| `connection_live` | 1 connection | `PeerCloseIsSeen`; `ConnectionInv`, the invariant of the proof |
| `connection_idle` | 1 connection, silent client | **violation** of `TimedOutIsClosed` |
| `connection_partial_write` | 1 connection | **violation** of `ResponseIsWhole` |
| `http_parser` | 14 requests of up to 32 tokens, cut in every way | `OnePieceIsUnderstood`, `HeadersNotFalsified`, `NotAnalysedEarly`, `Settled`, `ImplementsStages` |
| `logging` | 5 messages, buffers of 4, lists cut beyond 3 | `InOrder`, `LogInv`, `StopReturns` |
| `logging_asserts` | 3 messages | **violation** of `LoopAssertsHold` |
| `log_formats` | `LogBuffer`s of 19 characters: a line of 3 pieces, or 3 lines of 9 or 15 characters, 3 appends, flush at 2; or bytes of 4 values, 2 packages | `LineFits`, `IntegersReadBack`, `FileIsLines`, `FewUnflushed`; `RoundTrip`, `PackageIsMinimal` |
| `server` | 4 loop threads, 3 clients, 3 functors per loop | `LoopsReady`, `TidKnown`, `StartInv`, `StartReturns` of the start; `NeverBlocks`, `NoLostConnection` and `FairShare` of the accepting |
| `server_assigned_once` | the same | **violation** of `AssignedOnce` |

**Why the bounds are enough.** Two pushing threads and three functors give a
push before, during and after the swap, with a functor in progress. Three
workers on a ring of two slots wrap the ring, fill it and leave a worker
waiting while another runs and a third exits; four tasks exceed ring plus one
worker. Two connections let a deleted timer, an expired timer and a valid timer
of different connections stand in the heap together; a clock of three ticks
wraps while a timer of one tick is set. `handle_connect` always takes the shorter
timeout, since `reset` has cleared `keep_alive_` by then (`HttpData.cpp:120`). In the log, buffers hold one long message or up
to three short ones, and five messages fill more buffers than the cut allows.
With four loop threads (the default of `main`) some are up, one is starting and
one is not yet created, and the round robin goes round; three clients let one
arrive while another gives up. The requests have no, one and more headers, a
query (also after an empty name, which the code leaves empty), a nested name, bodies that are empty and not, values in which a colon, a
space or an `r` could be mistaken or that end with the separator, and the
requests of `client_test.cpp`; a
header's value is limited to 12 tokens instead of 255 bytes, which one of them
exceeds. A line of 19 characters can be filled by its
pieces to every length at which a further piece, number or text, does not fit.
A `LogBuffer` of 19 takes two lines of 9 characters and not one of 9 and one of
15, so that buffers of no, one and two lines are appended and given up.
A byte of four values keeps every boundary of size and sign of a type within the
integers TLC computes with, up to eight bytes, and sixteen for the type whose
code does not fit into a nibble.

**Deadlock** is not checked: every model has a legitimate end (the loop has
quit, the pool is destroyed, the clients are done, the process has aborted).

**Fairness.** The loop thread, the workers, the destroyers' joins and the log
thread are scheduled (weak fairness of their steps, and of each worker on
getting the mutex: `ThreadPool` states it). A thread between a push and its
wakeup goes on, and so does a destructor of a loop thread that has begun. Time passes. The main thread is scheduled while it starts the
loop threads; no wait has to end spuriously, and no thread has to fail to start.
Clients, callers and functor producers need not do anything.

**Findings.** The violation runs each contradict a line of the repository:

1. *An idle loop never examines its timers* (`Epoll.cpp:63-70`): a connection
   whose time is up is closed only after some other event.
2. *A partially written response is cut off* (`HttpData.cpp:109`): the write
   handler is `handle_connect`, which closes the connection.
3. *The log thread aborts in its second turn* (`Logging.cpp:171,210`).
4. *The server accepts once and hands the connection out for ever*
   (`Server.cpp:35-36`): each turn of the loop gives the same descriptor to the
   next loop thread.

Other behaviour that the models contain and their properties name as exceptions
or stay clear of, where no line of the repository says otherwise:

* a second `thread_pool_destory` returns with the mutex locked
  (`ThreadPool.cpp:83-85`), and the first never frees the pool (line 106);
* a timer set within its timeout of the clock's wrap (every 10^7 ms) is due at a
  time that the clock never shows, and never expires (`Timer.cpp:12,31`); one
  whose time came before the wrap, with no event to find it, is valid again until
  the clock shows that time once more;
* an `accept()` that fails while clients wait leaves the events as they were, so
  that nothing is registered anew (`Server.cpp:36,61`, `Epoll.cpp:39`), and the
  edge is used up: they wait until another client connects. `NoLostConnection`
  names this and nothing else as its exception;
* a `LogBuffer` that `fwrite` does not take loses its rest, with every line in it
  (`LogUtil.cpp:18-21`);
* a `quit` before `loop()` is forgotten (`EventLoop.cpp:78`), and the join waits;
  one during the loop's end writes to an eventfd that is gone (line 106);
* without a loop thread `start_loop` waits for ever (`Thread.cpp:75`), and
  without a log thread so does every thread that logs (`Logging.cpp:152`);
* `stop` leaves unwritten what is in the buffers (`Logging.cpp:170`);
* a failing `fcntl` leaves the listening socket registered for nothing
  (`Server.cpp:52`);
* `handle_connect` goes on with an `HttpData` that is gone (`HttpData.cpp:253`);
* a request without headers, a POST without Content-length and a request whose
  line is cut are refused with 400; a header whose name begins with `r` loses that letter if it is the first
  (`HttpData.cpp:335`); a header that is cut may be stored under no name or with
  the end of the line before it in its name;
* of a header with an empty value the CR behind it is taken for the value
  (`HttpData.cpp:356-360`), and a method's name within the requested name for the
  method (`parse_URI` looks for it everywhere);
* a body that comes with its headers loses its first byte (`HttpData.cpp:403`),
  and a POST is answered by nothing (line 411);
* a Content-length that is not a number ends the process (`HttpData.cpp:186`);
* with any option `main` never gets out of its loop (`main.cpp:19`);
* `reset` clears `keep_alive_` before it is used (`HttpData.cpp:120`);
* `Nibbler::get_next` compares where it should assign (`Packer.h:197`).

## 5. What is proved

For every value of the constants, from the assumptions that the modules state
(`ThreadAssumption`, `ArgumentAssumption`, `LengthAssumption` and so on). A
theorem about safety is stated of `SafeSpec`, the specification without its
fairness.

* `EventLoopProofs`: `Inductive` (`SafeSpec => []IndInv`), `WakeupNeverLost`
  and `ImplementsQueueSafety`, the safety half of the refinement.
  `NoLostWakeup` by itself says nothing of a loop that is not in `poll`;
  `IndInv` adds that a wakeup is coming as soon as the swap is past
  (`PendingInv`), that the flag which makes a functor on the loop's own thread
  write the eventfd is up exactly then (`CallingInv`), and that the eventfd is
  registered except while its event is handled (`ArmedInv`, `ChannelInv`).

  The second half of the module is about `EventLoopThread`: `DestroyIsSafe`
  (`LTSafeSpec => []NoUseAfterDestroy`), by `EndInv`: `loop_` is cleared only
  when the loop is over, a loop that is over does not start again whoever calls
  it, and the destructor returns only when `loop_` is cleared. A step of the
  whole is a step of the loop, a stutter, or a `quit` that is not the first
  (`LoopSteps`), which adds a wakeup and nothing else; hence
  `NoWakeupLostAtEnd` and `DestroyedLoopIsQueue` carry the two results about
  the loop over to a loop that is destroyed at any time.
* `ThreadPoolProofs`: `PoolInvariant` (`SafeSpec => []PoolInv`) and
  `GracefulShutdownDrains`. The ring is consistent (`RingInv`), every accepted
  task is in the ring, with a worker or done (`AccountInv`), a worker leaves a
  graceful shutdown only when the ring is empty (`ExitInv`), and past the joins
  all have left (`JoinedInv`); hence everything has run. `FreeIsNotRefused`:
  whoever frees the pool has joined its workers, so that the test of
  `started_` in `thread_pool_free` never sends it away. `PoolIsTaskQueue` is the
  whole refinement of `TaskQueue`, which has no fairness: the tasks from `head_`
  on, around the ring, are the abstract queue.
* `ConnectionProofs`: `ConnectionInvariant` (`SafeSpec => []ConnectionInv`) for
  any number of connections, any wrap of the clock and any timeouts shorter than
  it, and from it `TypesAreKept`, `OneTimerEach`, `InputIsNotLost` and the action
  properties `TimersWait` and `TimersClose`. Each of the properties holds only
  because of how the handlers are sequenced, and `ConnectionInv` says how:
  what the loop works on is open and registered (`LoopInv`); only the connection
  whose handlers run can be in error, so a stage that never ends is always
  closed (`ErrorInv`); the weak pointer and the queue of timers agree except
  between `clear_request` and the end of `handle_connect` (`LinkInv`); a timer is
  due neither before its time nor, until the clock wraps, after it (`TimeInv`);
  and the kernel watches what the cached `last_events_` say, unless a one-shot
  registration has fired whose event is still being handled (`RegisteredInv`).
* `HttpParserProofs`: `ParserInvariant` and `PassesAreStages`, for requests of any
  tokens, well-formed or not, cut in any way, and any limit of a value: the
  stage in which a connection waits goes with its method, its error flag and
  what it has answered, and every pass ends in one of the outcomes
  that `Connection` works with. `HeadersArriveFirst`, `NothingIsAwaited` and
  `HeadersAreTheirs` are about well-formed requests, of any number and length of
  headers, and rest on `RequestInvariant`. It says of the `m` tokens that have
  arrived which of them are still in the buffer and what `parse_state_` can be
  there (`Kept`): the state is that of the last token, but the buffer starts
  again at the line in which that token stands, so that a name may be read as a
  value, a value as a name, or the separator once more. That nothing false comes of it has
  three reasons. First, in every such state the loop can pass the end of a line
  only where there is one (`Place`), so it takes no LF for that of the
  blank line before all of the headers are there; this needs that the buffer
  begins at the beginning of a line (`LineBegins`) and that up to the separator
  there has been no other colon in it (`NoColon`), without which a CR could be
  taken for the first token of a value. Second, `key_start` is either
  not set in this pass (the key begins with the byte in front of the buffer), at
  the LF of the line before, or at the first letter of a header, and then the
  loop finds what stands there (`KeyFrom`, `Tracks`). Third, a key of the first
  two kinds is one that no request has (`Spurious`). `Shape` is what the loop
  has to know of the tokens of a request, obtained by induction over its headers.

  `WholeRequestsAreUnderstood` is about the other side, that the parser makes of a
  request in one piece all that it means. `LineUnderstood` finds the method, the
  name and the version where `LineParts` says they stand. The loop over the headers
  is followed from the request's first header to the blank line (`Reading`): it
  never fails, in every turn it stands in a header of the request (`OnTrack`), and
  the headers whose end it has passed are stored (`Stored`). For that the headers
  must all stand among the tokens (`RequestStands`), and no two of different names
  may end at the same token (`HeaderOnce`), or storing one would not be storing
  the other. `H_START` skips the letter `r` with the LF of the request line, which
  is why `PlainRequest` has a clause about it. `Accepted` names what the server
  refuses however it comes: no headers, too long a value, and a POST without
  Content-length (`HttpData.cpp:187-191`), which is answered with 400.
* `LoggingProofs`: `LogInvariant` (`SafeSpec => []LogInv`) and `LogAsserts`. The
  invariant accounts for buffers: `next_buffer_` is used up only when a full
  buffer went to the list, so a log thread that gave up both of its own has
  taken at least two, the cut keeps two, and the assertions at lines 187, 207
  and 214 hold. `LinesInOrder`: file, buffers being written, buffers waiting and
  the current buffer are, one behind the other, what was logged without what the
  cut dropped. `OrderInv` adds that a message is logged once and that the spare
  buffers are empty when they come into use; the lemmas say how `Without` (a
  selection) and `Contents` (a concatenation) go with appending.
* `LogFormatsProofs`, about `LineSpec` and `PackSpec`, the two machines that
  `log_formats` checks side by side. Of the lines: `LineInvariant`, `FileHasTheLines`, `FewWaitForAFlush`, `LinesFit`
  and `NumbersReadBack`, for any lines, any cuts of `fwrite`, any size of the
  buffers and every integer. `FileHasTheLines` joins two facts: the file is the
  appended buffers up to where they were given up (`FileIsBuffers`), and these
  buffers, the one being written, those waiting and the current one are, one
  behind the other, the lines that were logged (`LinesAreKept`). The second needs
  that a line fits into an empty buffer, which is what `LinesFit` shows.
  `FewWaitForAFlush` counts calls of `append()`, each with a buffer of any number
  of lines; of the number of lines nothing is promised. `SizeAssumption`, `LineAssumption` and
  `NumberAssumption` say that the time fits into the buffer, that what is logged is
  text, and that no number is as long as the room it asks for. `Chars` is a
  constant because the prover does not know string literals to be strings.

  Of the packages: `PackInvariant`, `PackagesComeBack` and `PackagesAreMinimal`,
  for every value of every type, any number of packages and bytes of any even
  number of values up to 256. A package by itself is `EveryValuePacks`: what
  the first bytes of a number are worth (`NumberIs`, by `NextDigit`), that they are
  as few as can be (`NumBytes`), and the three codings of a signed number, of which
  the last, a number as far below zero as its type goes, keeps all its bytes and
  gets its sign from the cast (`PacksLargeNegative`). `Layout` is the invariant of
  the buffer: package `k` lies between two offsets whose distance is its size, so
  what `pack` copies beyond its own size is behind everything that counts.
* `ServerProofs`: `StartInvariant` (`SafeSpec => []StartInv`), `LoopsAreReady`
  and `TidAssertHolds`, for any number of loop threads. `LoopsReady` and
  `TidKnown` rest on the order of a thread's steps: `ThreadInv` reads from the
  latch and from `loop_` how far the thread has come, and `MainInv` says that
  the threads after `i` are not created, so that what `start_loop` returns
  belongs to thread `i`. `MainLoopNeverBlocks` rests on `SetupInv`: nothing gets
  past the constructor with a socket that is not open and non-blocking.
  `ServeInvariant` is about the accepting: the socket is registered with
  what the channel last told the kernel (`ChannelInv`), the edge of a waiting
  client is kept until one is accepted, or used up by a report that `accept()` has
  still to answer or has failed to (`EdgeInv`), and the loops before
  `next_` are one connection ahead of the others (`ShareInv`), unless a turn has
  failed, after which the main loop hears of nobody. `NoConnectionIsLost` and
  `LoopsShareFairly` follow.
* `SequenceLemmas` replaces the library's induction, which takes an operator as
  a parameter, by induction over a set: a set of sequences that has the empty
  one and is closed under `Append` is all of them (`SequenceInduction`, from
  `LeastNumber`). What a recursive function computes is obtained in the same
  way: there is a function with that equation, and only one.

Only model-checked: liveness (`QuitEndsLoop`, `JoinReturns`,
`AcceptedTaskRunsOneDestroy`, `DestroyJoins`, `PeerCloseIsSeen`, `StopReturns`,
`StartReturns` and the liveness half of `FunctorQueue`), which is out of the
prover's reach. Every invariant and action property of the passing runs is the
property of a theorem.

## 6. Not modelled, and the plan

Left out: the text of responses and the MIME table, which decide no state; the
socket options of `set_socket_nodelay` and `set_socket_nolinger`; the test
client, whose requests are inputs of `HttpParser`; failing `fopen`, failing
`epoll_ctl` on a descriptor that is registered, failing mutex operations; the
limit `MAXFDS_` (the server never gets past its first descriptor); the names and
cached ids of threads; the rest of Nanolog, which is unfinished
(`Nanolog.h:63`), formatting and processor counters (`NanologUtil.cpp`), or
`Nibbler`, which never leaves its first nibble. Server-side descriptor reuse is
left out because the code never closes a connection's descriptor. So are a call
of the public `thread_pool_free` other than `thread_pool_destory`'s, and a
Content-length below zero: `HttpData.cpp:192` compares without a sign, the model
with one, and no request of the model has one.

The log thread aborts in its second turn (finding 3), so what `logging` shows of
it is about one turn, in which at most 25 buffers are appended and the thousand
appends that force a flush are never reached. `FewUnflushed` and `FileIsLines`
are what `AppendLog` and its callers promise by themselves, for any number of
turns.

What is modelled and not proved is the liveness named in section 5.
