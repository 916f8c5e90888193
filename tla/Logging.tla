------------------------------ MODULE Logging ------------------------------
(***************************************************************************)
(* The asynchronous log: Logger's output() with its pthread_once, the      *)
(* double buffering of Logging and its log thread.  Threads that log call  *)
(* append(), which holds mutex_lock_ from its first line to its last and   *)
(* is one step; the log thread takes the filled buffers under the same     *)
(* mutex and writes them to the file without it.                           *)
(*                                                                         *)
(* A message is a name and a length.  A failing assert() aborts the        *)
(* process, as the default build has it; failed_assert_ is the line of the *)
(* assertion in Logging.cpp.                                               *)
(***************************************************************************)
EXTENDS Naturals, Sequences, SequencesExt

CONSTANTS
  Messages,       \* messages that are logged
  Length,         \* their lengths
  SIZE,           \* size of a LogBuffer (small_buffer, 4096)
  MaxBuffers,     \* longer lists are cut (25)
  nullptr

\* A message comes out of a LogStream, whose own buffer has the same size
\* and the same strict test, so it is shorter than a buffer.
ASSUME LengthAssumption ==
  /\ SIZE \in Nat \ {0}
  /\ Length \in [Messages -> Nat]
  /\ \A m \in Messages : Length[m] < SIZE
ASSUME MaxBuffersAssumption == MaxBuffers \in Nat \ {0, 1}
ASSUME NullAssumption ==
  nullptr \notin [data : Seq(Messages), length : 0..(SIZE - 1)]

VARIABLES
  once_control_,  \* Logger.cpp: has once_init() run?
  is_running_, latch_,
  cur_buffer_, next_buffer_, buffer_list_,
  pc,             \* where the log thread is
  log_buffer1, log_buffer2, buffer_list_output,   \* its local variables
  file,           \* what it has written
  failed_assert_, \* line of the assertion that failed, or 0
  logged,         \* history: the messages given to append(), in order
  dropped         \* history: the messages in buffers that were erased

vars == <<once_control_, is_running_, latch_, cur_buffer_, next_buffer_,
          buffer_list_, pc, log_buffer1, log_buffer2, buffer_list_output,
          file, failed_assert_, logged, dropped>>
shared == <<cur_buffer_, next_buffer_, buffer_list_>>
local == <<log_buffer1, log_buffer2, buffer_list_output>>
startup == <<once_control_, is_running_, latch_>>
history == <<logged, dropped>>

-----------------------------------------------------------------------------
(* LogBuffer.                                                              *)

LogBuffer == [data : Seq(Messages), length : 0..(SIZE - 1)]
NewLogBuffer == [data |-> <<>>, length |-> 0]

\* A plausible slip: the end of the buffer is one byte too far.
available_size_OffByOne(b) == (SIZE + 1) - b.length

available_size(b) == SIZE - b.length

\* LogBuffer::append() discards without a word what does not fit.
append_to(b, m) ==
  IF available_size(b) > Length[m]
  THEN [data |-> Append(b.data, m), length |-> b.length + Length[m]]
  ELSE b

\* The sequence s without the elements of D.
Without(s, D) ==
  FlattenSeq([i \in DOMAIN s |-> IF s[i] \in D THEN <<>> ELSE <<s[i]>>])

\* The messages in a list of buffers.
Contents(buffers) == FlattenSeq([i \in DOMAIN buffers |-> buffers[i].data])

-----------------------------------------------------------------------------

Init ==
  /\ once_control_ = "not_run"
  /\ is_running_ = FALSE
  /\ latch_ = 1
  /\ cur_buffer_ = NewLogBuffer
  /\ next_buffer_ = NewLogBuffer
  /\ buffer_list_ = <<>>
  /\ pc = "none"
  /\ log_buffer1 = nullptr
  /\ log_buffer2 = nullptr
  /\ buffer_list_output = <<>>
  /\ file = <<>>
  /\ failed_assert_ = 0
  /\ logged = <<>>
  /\ dropped = {}

Alive == pc # "aborted"

abort(line) == pc' = "aborted" /\ failed_assert_' = line

\* The first thread that logs runs once_init(); others wait for it.  When
\* the thread cannot be created, start() still waits for its latch.
once_init ==
  /\ once_control_ = "not_run"
  /\ once_control_' = "running"
  /\ is_running_' = TRUE
  /\ \/ pc' = "start"
     \/ UNCHANGED pc
  /\ UNCHANGED <<latch_, shared, local, file, failed_assert_, history>>

\* The log thread begins: the latch is counted down after the assertion.
thread_func ==
  /\ pc = "start"
  /\ IF is_running_
     THEN /\ latch_' = 0
          /\ log_buffer1' = NewLogBuffer
          /\ log_buffer2' = NewLogBuffer
          /\ pc' = "top"
          /\ UNCHANGED failed_assert_
     ELSE abort(162) /\ UNCHANGED <<latch_, log_buffer1, log_buffer2>>
  /\ UNCHANGED <<once_control_, is_running_, shared, buffer_list_output, file,
                 history>>

\* start() returns from its latch, and once_init() with it.
start_returns ==
  /\ Alive
  /\ once_control_ = "running"
  /\ latch_ = 0
  /\ once_control_' = "done"
  /\ UNCHANGED <<is_running_, latch_, shared, pc, local, file, failed_assert_,
                 history>>

\* cond_.notify(): the log thread is the only one that waits.
Notified == IF pc = "waiting" THEN "woken" ELSE pc

\* A plausible slip: the new line is appended before the list takes the
\* full buffer, which then does not have room for it.
append_Late(m) ==
  /\ Alive
  /\ once_control_ = "done"
  /\ m \notin ToSet(logged)
  /\ logged' = Append(logged, m)
  /\ IF available_size(cur_buffer_) > Length[m]
     THEN /\ cur_buffer_' = append_to(cur_buffer_, m)
          /\ UNCHANGED <<next_buffer_, buffer_list_, pc>>
     ELSE /\ buffer_list_' = Append(buffer_list_, append_to(cur_buffer_, m))
          /\ cur_buffer_' = NewLogBuffer
          /\ next_buffer_' = nullptr
          /\ pc' = Notified
  /\ UNCHANGED <<startup, local, file, failed_assert_, dropped>>

\* Logging::append().
append(m) ==
  /\ Alive
  /\ once_control_ = "done"
  /\ m \notin ToSet(logged)
  /\ logged' = Append(logged, m)
  /\ IF available_size(cur_buffer_) > Length[m]
     THEN /\ cur_buffer_' = append_to(cur_buffer_, m)
          /\ UNCHANGED <<next_buffer_, buffer_list_, pc>>
     ELSE /\ buffer_list_' = Append(buffer_list_, cur_buffer_)
          /\ cur_buffer_' = append_to(IF next_buffer_ # nullptr
                                      THEN next_buffer_ ELSE NewLogBuffer, m)
          /\ next_buffer_' = nullptr
          /\ pc' = Notified
  /\ UNCHANGED <<startup, local, file, failed_assert_, dropped>>

\* Logging::stop() up to the join; it does not take the mutex.
stop ==
  /\ Alive
  /\ once_control_ = "done"
  /\ is_running_
  /\ is_running_' = FALSE
  /\ pc' = Notified
  /\ UNCHANGED <<once_control_, latch_, shared, local, file, failed_assert_,
                 history>>

\* assert(buffer && buffer->get_length() == 0)
IsEmptyBuffer(b) == b # nullptr /\ b.length = 0

\* The head of the loop: its condition, then the three assertions.
loop ==
  /\ pc = "top"
  /\ IF ~is_running_
     THEN pc' = "done" /\ UNCHANGED failed_assert_
     ELSE IF ~IsEmptyBuffer(log_buffer1) THEN abort(171)
     ELSE IF ~IsEmptyBuffer(log_buffer2) THEN abort(172)
     ELSE IF buffer_list_output # <<>> THEN abort(173)
     ELSE pc' = "locked" /\ UNCHANGED failed_assert_
  /\ UNCHANGED <<startup, shared, local, file, history>>

\* cond_.wait_for_seconds(), which releases the mutex.
wait_for_seconds ==
  /\ pc = "locked"
  /\ buffer_list_ = <<>>
  /\ pc' = "waiting"
  /\ UNCHANGED <<startup, shared, local, file, failed_assert_, history>>

\* A plausible slip: wait() instead of wait_for_seconds().
timed_out_Never == pc = "waiting" /\ FALSE /\ UNCHANGED vars

\* The flush interval is over (or the wait returns for no reason).
timed_out ==
  /\ pc = "waiting"
  /\ pc' = "woken"
  /\ UNCHANGED <<startup, shared, local, file, failed_assert_, history>>

\* A plausible slip: next_buffer_ is replaced although it is there.
take_buffers_Both ==
  /\ pc = "woken" \/ (pc = "locked" /\ buffer_list_ # <<>>)
  /\ buffer_list_output' = Append(buffer_list_, cur_buffer_)
  /\ buffer_list_' = <<>>
  /\ cur_buffer_' = log_buffer1
  /\ log_buffer1' = nullptr
  /\ next_buffer_' = log_buffer2
  /\ log_buffer2' = nullptr
  /\ pc' = "write"
  /\ UNCHANGED <<startup, file, failed_assert_, history>>

\* With the mutex: the current buffer joins the list, the list is taken and
\* the two empty buffers of the log thread take the places.
take_buffers ==
  /\ pc = "woken" \/ (pc = "locked" /\ buffer_list_ # <<>>)
  /\ buffer_list_output' = Append(buffer_list_, cur_buffer_)
  /\ buffer_list_' = <<>>
  /\ cur_buffer_' = log_buffer1
  /\ log_buffer1' = nullptr
  /\ IF next_buffer_ = nullptr
     THEN next_buffer_' = log_buffer2 /\ log_buffer2' = nullptr
     ELSE UNCHANGED <<next_buffer_, log_buffer2>>
  /\ pc' = "write"
  /\ UNCHANGED <<startup, file, failed_assert_, history>>

\* A list that is too long is cut to its first two buffers, and the rest is
\* written; nobody else looks at the list or at the file.
write_buffers ==
  /\ pc = "write"
  /\ IF buffer_list_output = <<>>
     THEN abort(187) /\ UNCHANGED <<buffer_list_output, file, dropped>>
     ELSE LET cut == Len(buffer_list_output) > MaxBuffers
              kept == IF cut THEN SubSeq(buffer_list_output, 1, 2)
                             ELSE buffer_list_output
              rest == IF cut THEN SubSeq(buffer_list_output, 3,
                                         Len(buffer_list_output))
                             ELSE <<>>
          IN /\ file' = file \o Contents(kept)
             /\ dropped' = dropped \union ToSet(Contents(rest))
             /\ buffer_list_output' = IF Len(kept) > 2 THEN SubSeq(kept, 1, 2)
                                                       ELSE kept
             /\ pc' = "recycle"
             /\ UNCHANGED failed_assert_
  /\ UNCHANGED <<startup, shared, log_buffer1, log_buffer2, logged>>

\* The log thread takes two buffers back from the list.  reset() is called
\* on the shared pointer and not on the buffer, so the pointers end null.
recycle ==
  /\ pc = "recycle"
  /\ LET needed == (IF log_buffer1 = nullptr THEN 1 ELSE 0)
                     + (IF log_buffer2 = nullptr THEN 1 ELSE 0)
     IN IF Len(buffer_list_output) >= needed
        THEN pc' = "top" /\ UNCHANGED failed_assert_
        ELSE abort(IF buffer_list_output = <<>> /\ log_buffer1 = nullptr
                   THEN 207 ELSE 214)
  /\ buffer_list_output' = <<>>
  /\ UNCHANGED <<startup, shared, log_buffer1, log_buffer2, file, history>>

LogThread ==
  \/ thread_func \/ loop \/ wait_for_seconds \/ timed_out
  \/ take_buffers \/ write_buffers \/ recycle

Next ==
  \/ once_init \/ start_returns \/ stop
  \/ \E m \in Messages : append(m)
  \/ LogThread

SafeSpec == Init /\ [][Next]_vars

\* The log thread is scheduled; nobody has to log or to stop.
Spec == SafeSpec /\ WF_vars(LogThread)

-----------------------------------------------------------------------------
(* Properties.                                                             *)

TypeOK ==
  /\ once_control_ \in {"not_run", "running", "done"}
  /\ is_running_ \in BOOLEAN
  /\ latch_ \in {0, 1}
  /\ pc \in {"none", "start", "top", "locked", "waiting", "woken", "write",
             "recycle", "done", "aborted"}
  /\ failed_assert_ \in {0, 162, 171, 172, 173, 187, 207, 214}
  /\ cur_buffer_ \in LogBuffer
  /\ {next_buffer_, log_buffer1, log_buffer2} \subseteq LogBuffer \union {nullptr}
  /\ buffer_list_ \in Seq(LogBuffer)
  /\ buffer_list_output \in Seq(LogBuffer)

\* What append() is given goes to the file, or is dropped on purpose with a
\* whole buffer, or is still in a buffer: no line is lost, repeated or out of
\* order, in whatever order append() and the log thread take the mutex.
\* (append, LogBuffer::append, the exchange of buffers in thread_func.)
InOrder ==
  LET output == IF pc = "write" THEN Contents(buffer_list_output) ELSE <<>>
  IN file \o output \o Contents(buffer_list_) \o cur_buffer_.data
       = Without(logged, dropped)

\* The assertions at the start of the log thread and after it has taken the
\* buffers never fail: there are always buffers to write, and as many to take
\* back as were given away.
AssertsHold == failed_assert_ \notin {162, 173, 187, 207, 214}

\* What start() promises the threads it returns to: the log thread runs.
StartedFirst ==
  /\ latch_ = 0 => pc \notin {"none", "start"}
  /\ once_control_ = "done" => latch_ = 0
  /\ once_control_ = "not_run" => pc = "none"
  /\ pc = "start" => is_running_

\* The account of the buffers: when next_buffer_ has been used a full buffer
\* is in the list, so the log thread that gives up both of its buffers has
\* taken at least two.
BuffersBalance ==
  /\ next_buffer_ = nullptr => buffer_list_ # <<>>
  /\ pc \in {"locked", "waiting", "woken"} =>
       log_buffer1 # nullptr /\ log_buffer2 # nullptr
  /\ pc \in {"write", "recycle"} =>
       /\ buffer_list_output # <<>>
       /\ log_buffer2 = nullptr => Len(buffer_list_output) >= 2
  /\ pc \in {"none", "start", "top"} => buffer_list_output = <<>>

\* The inductive invariant: none of those assertions fails, because the log
\* thread runs before anything is logged and the buffers balance.
LogInv == TypeOK /\ AssertsHold /\ StartedFirst /\ BuffersBalance

\* stop() gets past its join: the log thread ends although stop() does not
\* take the mutex and its notification can come before the wait.
StopReturns ==
  (once_control_ = "done" /\ ~is_running_) ~> pc \in {"done", "aborted"}

\* The assertions at the head of the loop hold.
LoopAssertsHold == failed_assert_ \notin {171, 172}
=============================================================================
