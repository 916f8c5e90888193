----------------------------- MODULE Connection -----------------------------
(***************************************************************************)
(* The connections of one event loop: HttpData with its Channel, their     *)
(* registration in Epoll, and the timers of TimerPQueue.  Everything here  *)
(* runs on the loop's own thread; what interleaves with it is the client,  *)
(* the kernel and the clock.                                               *)
(*                                                                         *)
(* The bytes are abstracted: a request is what the parser makes of it, a   *)
(* response is in buffer_out_ or it is not.  The clock is the one that     *)
(* Timer.cpp reads, the time of day modulo Wrap (10^7 ms in the code).     *)
(***************************************************************************)
EXTENDS Naturals, FiniteSets, HttpStages

CONSTANTS
  Conns,                    \* connections assigned to this loop
  ClientActions,            \* what clients do: send, close, reset, read
  Wrap,                     \* the clock counts 0 .. Wrap - 1
  DEFAULT_EXPIRED_TIME,
  DEFAULT_KEEP_ALIVE_TIME,
  NULL                      \* no connection, no timer

ASSUME ClockAssumption ==
  /\ Wrap \in Nat \ {0}
  /\ DEFAULT_EXPIRED_TIME \in Nat \ {0}
  /\ DEFAULT_KEEP_ALIVE_TIME \in Nat \ {0}
ASSUME NullAssumption == NULL \notin Conns \union Nat

VARIABLES
  pc,        \* where the loop thread is
  result,    \* channels poll() returned and not yet handled
  cur,       \* the channel being handled
  calls,     \* calls of handle_connect() still due for it
  functor_list,  \* connections whose new_event() this round calls
  life,      \* "new", "queued" (new_event is a pending functor), "open", "closed"
  http,      \* the HttpData objects
  chan,      \* their channels
  fd_to_channel_,
  timers,    \* timer_pqueue
  epoll,     \* the kernel's side of each registration
  sock,      \* the kernel's side of each socket
  now,       \* the clock
  left,      \* history: time left until the connection may time out
  wrapped    \* history: connections the clock has wrapped around for since
             \* their timer was set

vars == <<pc, result, cur, calls, functor_list, life, http, chan,
          fd_to_channel_, timers, epoll, sock, now, left, wrapped>>
loopvars == <<pc, result, cur, calls, functor_list>>
history == <<left, wrapped>>
conn == <<life, http, chan, fd_to_channel_, timers, history>>

DEFAULT_EVENT == {"IN", "ET", "ONESHOT"}

\* HttpData::HttpData and the Channel it creates.
NewHttpData ==
  [connection_state_ |-> "H_CONNECTED", is_error_ |-> FALSE,
   process_state_ |-> "STATE_PARSE_URI", keep_alive_ |-> FALSE,
   buffer_out_ |-> FALSE, timer_ |-> NULL]
NewChannel == [events_ |-> {}, last_events_ |-> {}, revents_ |-> {}]

NewSocket == [unread |-> FALSE, fin |-> FALSE, rst |-> FALSE, full |-> FALSE]
ResetSocket == [NewSocket EXCEPT !.rst = TRUE]   \* a reset drops the queues
NotRegistered == [added |-> FALSE, interest |-> {}, ready |-> FALSE]

Init ==
  /\ pc = "poll"
  /\ result = {}
  /\ cur = NULL
  /\ calls = 0
  /\ functor_list = {}
  /\ life = [c \in Conns |-> "new"]
  /\ http = [c \in Conns |-> NewHttpData]
  /\ chan = [c \in Conns |-> NewChannel]
  /\ fd_to_channel_ = [c \in Conns |-> FALSE]
  /\ timers = {}
  /\ epoll = [c \in Conns |-> NotRegistered]
  /\ sock = [c \in Conns |-> NewSocket]
  /\ now = 0
  /\ left = [c \in Conns |-> 0]
  /\ wrapped = {}

-----------------------------------------------------------------------------
(* The kernel: what a socket is ready for, and what epoll reports of it.   *)

Mask(s) ==
  (IF s.unread \/ s.fin \/ s.rst THEN {"IN"} ELSE {})
    \union (IF s.full THEN {} ELSE {"OUT"})
    \union (IF s.rst THEN {"ERR", "HUP"} ELSE {})

\* A one-shot registration that has fired watches nothing, not even errors.
Watched(interest) ==
  IF interest = {} THEN {} ELSE interest \union {"ERR", "HUP"}

\* The socket changed: an edge is queued when one of the events is watched.
Edge(c, events) ==
  epoll' = [epoll EXCEPT ![c].ready =
              @ \/ (epoll[c].added /\ events \cap Watched(epoll[c].interest) # {})]

-----------------------------------------------------------------------------
(* Timers.                                                                 *)

Timer(c, expired_time) == [Http_data_sptr |-> c, expired_time_ |-> expired_time]

\* Timer::clear_request(): the timer drops its request and is marked as
\* deleted, which always go together; it stays in the queue.
Deleted(t) == [t EXCEPT !.Http_data_sptr = NULL]

is_deleted(t) == t.Http_data_sptr = NULL

\* add_timer() and link_timer(): a new timer for c.
WithTimer(ts, c, timeout) == ts \union {Timer(c, now + timeout)}

\* A plausible slip: the timer is unlinked but not cleared.
Separated_Kept(c) == timers

\* seperate_timer(): the timer that the weak pointer timer_ names, if it
\* still exists, is cleared.
Separated(c) ==
  LET timer == Timer(c, http[c].timer_) IN
  IF timer \in timers THEN (timers \ {timer}) \union {Deleted(timer)}
                      ELSE timers

Armed(c) == {t \in timers : t.Http_data_sptr = c}

-----------------------------------------------------------------------------
(* The loop thread.                                                        *)

Deliverable ==
  {c \in Conns : /\ epoll[c].ready
                 /\ Mask(sock[c]) \cap Watched(epoll[c].interest) # {}}

\* poll() returns the ready channels.  It also returns for the eventfd,
\* which the thread that queued a new_event() has written to; a wait that
\* times out with nothing to return is repeated.
poll ==
  /\ pc = "poll"
  /\ \E c \in Conns : \/ c \in Deliverable /\ fd_to_channel_[c]
                      \/ life[c] = "queued"
  /\ result' = {c \in Deliverable : fd_to_channel_[c]}
  /\ chan' = [c \in Conns |->
                IF c \in result'
                THEN [chan[c] EXCEPT
                        !.events_ = {},
                        !.revents_ = Mask(sock[c]) \cap
                                       Watched(epoll[c].interest)]
                ELSE chan[c]]
  /\ epoll' = [c \in Conns |->
                 [epoll[c] EXCEPT
                    !.ready = FALSE,
                    !.interest = IF c \in Deliverable /\ "ONESHOT" \in @
                                 THEN {} ELSE @]]
  /\ pc' = "handle"
  /\ UNCHANGED <<cur, calls, functor_list, life, http, fd_to_channel_, timers,
                 sock, now, history>>

\* Channel::handle_events(): a hang-up without input and an error return at
\* once; otherwise the read handler, the write handler and the connect
\* handler run.  The write handler of a connection is handle_connect() too.
\* revents_ is read here only, and the model forgets it.
handle_events(c) ==
  /\ pc = "handle"
  /\ c \in result
  /\ LET revents_ == chan[c].revents_ IN
     IF ("HUP" \in revents_ /\ "IN" \notin revents_) \/ "ERR" \in revents_
     THEN /\ result' = result \ {c}
          /\ UNCHANGED <<pc, cur, calls>>
     ELSE /\ pc' = IF "IN" \in revents_ THEN "read" ELSE "connect"
          /\ cur' = c
          /\ calls' = IF "OUT" \in revents_ THEN 2 ELSE 1
          /\ UNCHANGED result
  /\ chan' = [chan EXCEPT ![c].events_ = {}, ![c].revents_ = {}]
  /\ UNCHANGED <<functor_list, life, http, fd_to_channel_, timers,
                 history, epoll, sock, now>>

\* The handlers of the current channel have returned.
NextChannel ==
  /\ pc' = "handle"
  /\ result' = result \ {cur}
  /\ cur' = NULL
  /\ calls' = 0

\* handle_connect() has returned with the connection still open.
ConnectReturns ==
  IF calls > 1
  THEN calls' = calls - 1 /\ UNCHANGED <<pc, result, cur>>
  ELSE NextChannel

\* A "Connection: Keep-Alive" header is looked at by analyze_request().
KeepAlive(o) ==
  IF o.stage \in {"STATE_ANALYSIS", "STATE_FINISH"} THEN BOOLEAN ELSE {FALSE}

\* readn(): it reads until there is no more, fails on a reset socket, and
\* after a FIN reports the end of the input, whatever came before it.
readn(s) == [failed |-> s.rst, sum |-> s.unread, zero |-> ~s.rst /\ s.fin]

\* handle_read() up to the write: h is the object, r what readn() returned,
\* o what the stages make of the input.  With no input before its end the
\* stages do not run.
Received(h, r, o, keep) ==
  CASE r.failed -> [h EXCEPT !.is_error_ = TRUE]
    [] ~r.failed /\ r.zero /\ ~r.sum ->
         [h EXCEPT !.is_error_ = TRUE, !.connection_state_ = "H_DISCONNECTED"]
    [] OTHER ->
         [h EXCEPT !.is_error_ = @ \/ r.zero \/ o.failed,
                   !.connection_state_ = IF r.zero THEN "H_DISCONNECTED" ELSE @,
                   !.process_state_ = o.stage,
                   !.keep_alive_ = keep,
                   !.buffer_out_ = @ \/ o.out]

\* reset(), after a request has been answered.
Reset(h) ==
  [h EXCEPT !.process_state_ = "STATE_PARSE_URI", !.keep_alive_ = FALSE,
            !.timer_ = NULL]

\* What writen() can do with a response: send it, send a part of it until
\* the socket's buffer is full, or fail because the peer has gone.
WriteResults == {"whole", "partial", "failed"}

\* handle_write() is called for a response unless there was an error; w is
\* what writen() did.  A request that is answered is finished.
Writes(h) == ~h.is_error_ /\ h.buffer_out_
Fails(h, w) == h.is_error_ \/ (Writes(h) /\ w = "failed")
Finishes(h, w) == ~Fails(h, w) /\ h.process_state_ = "STATE_FINISH"
Written(h, w) ==
  [h EXCEPT !.is_error_ = Fails(h, w),
            !.buffer_out_ = @ /\ ~(Writes(h) /\ w = "whole")]

\* The rest of handle_read(): handle_write(), reset() and the events that the
\* connection goes on to wait for.  reset() has emptied buffer_in_, so
\* handle_read() never calls itself.
WriteAndReset(h, w) ==
  /\ http' = [http EXCEPT ![cur] = IF Finishes(h, w) THEN Reset(Written(h, w))
                                                    ELSE Written(h, w)]
  /\ timers' = IF Finishes(h, w) THEN Separated(cur) ELSE timers
  /\ chan' = [chan EXCEPT ![cur].events_ =
                (IF Writes(h) /\ w # "whole" THEN {"OUT"} ELSE {})
                  \union (IF Fails(h, w) \/ Finishes(h, w) THEN {} ELSE {"IN"})]
  /\ sock' = [sock EXCEPT ![cur] =
                IF Writes(h) /\ w = "failed" THEN ResetSocket
                ELSE [sock[cur] EXCEPT
                        !.unread = FALSE,
                        !.full = @ \/ (Writes(h) /\ w = "partial")]]

\* HttpData::handle_read(), with the handle_write() and reset() it calls.
handle_read ==
  /\ pc = "read"
  /\ \E o \in Outcomes(http[cur].process_state_), w \in WriteResults :
     \E keep \in KeepAlive(o) :
       LET h == Received(http[cur], readn(sock[cur]), o, keep) IN
       /\ ~Writes(h) => w = "whole"
       /\ Writes(h) /\ sock[cur].full => w # "whole"
       /\ WriteAndReset(h, w)
  /\ pc' = "connect"
  /\ UNCHANGED <<result, cur, calls, functor_list, life, fd_to_channel_, epoll,
                 now, history>>

\* handle_read() of a body whose length is not a number.
handle_read_throws ==
  /\ pc = "read"
  /\ MayTerminate(http[cur].process_state_)
  /\ ~readn(sock[cur]).failed /\ readn(sock[cur]).sum
  /\ pc' = "crashed"
  /\ UNCHANGED <<result, cur, calls, functor_list, conn, epoll, sock, now>>

\* The kernel re-examines the socket when its registration is modified.
Modify(c, events) ==
  epoll' = [epoll EXCEPT
              ![c].interest = events,
              ![c].ready = @ \/ Mask(sock[c]) \cap Watched(events) # {}]

\* Epoll::add_timer(), with the timer that HttpData::link_timer() keeps: ts
\* are the timers so far.  The history starts to measure its time.
add_timer(ts, c, timeout) ==
  /\ timers' = WithTimer(ts, c, timeout)
  /\ http' = [http EXCEPT ![c].timer_ = now + timeout]
  /\ left' = [left EXCEPT ![c] = timeout]
  /\ wrapped' = wrapped \ {c}

\* Channel::equal_and_update_last_events(): the events are the ones that
\* were registered last; they are from now on.
Equal(c, events) == events = chan[c].last_events_
update_last_events(c, events) ==
  chan' = [chan EXCEPT ![c].events_ = events, ![c].last_events_ = events]

\* A plausible slip: only the direction is compared, not the flags, so the
\* one-shot registration of new_event() is not renewed.
modify_fd_in_epoll_IgnoreFlags(c, events, timeout) ==
  /\ add_timer(Separated(c), c, timeout)
  /\ update_last_events(c, events)
  /\ IF events \cap {"IN", "OUT"} = chan[c].last_events_ \cap {"IN", "OUT"}
     THEN UNCHANGED epoll
     ELSE Modify(c, events)

\* Epoll::modify_fd_in_epoll(): a new timer, and a modification of the
\* registration if the events differ from the ones registered last.
modify_fd_in_epoll(c, events, timeout) ==
  /\ add_timer(Separated(c), c, timeout)
  /\ update_last_events(c, events)
  /\ IF Equal(c, events)
     THEN UNCHANGED epoll
     ELSE Modify(c, events)

\* Epoll::add_fd_in_epoll(): a timer, an entry in both maps and the
\* registration; when that fails the channel is taken out of its map again.
add_fd_in_epoll(c, events, timeout) ==
  /\ add_timer(timers, c, timeout)
  /\ update_last_events(c, events)
  /\ \/ /\ epoll' = [epoll EXCEPT ![c] =
                       [added |-> TRUE, interest |-> events,
                        ready |-> Mask(sock[c]) \cap Watched(events) # {}]]
        /\ fd_to_channel_' = [fd_to_channel_ EXCEPT ![c] = TRUE]
     \/ UNCHANGED <<epoll, fd_to_channel_>>

\* Epoll::delete_fd_in_epoll().
delete_fd_in_epoll(c) ==
  /\ fd_to_channel_' = [fd_to_channel_ EXCEPT ![c] = FALSE]
  /\ epoll' = [epoll EXCEPT ![c] = NotRegistered]

\* HttpData::handle_close().  Nothing holds the object any more: it is
\* destroyed, and what is left of it and of its socket is never looked at
\* again, so the model forgets it.
handle_close(c) ==
  /\ delete_fd_in_epoll(c)
  /\ life' = [life EXCEPT ![c] = "closed"]
  /\ http' = [http EXCEPT ![c] = NewHttpData]
  /\ chan' = [chan EXCEPT ![c] = NewChannel]
  /\ sock' = [sock EXCEPT ![c] = NewSocket]
  /\ left' = [left EXCEPT ![c] = 0]
  /\ wrapped' = wrapped \ {c}

Healthy(h) == ~h.is_error_ /\ h.connection_state_ = "H_CONNECTED"

\* handle_connect() of a connection that waits for more events.
handle_connect ==
  /\ pc = "connect"
  /\ Healthy(http[cur])
  /\ chan[cur].events_ # {} \/ http[cur].keep_alive_
  /\ LET events_ == chan[cur].events_
         timeout == IF http[cur].keep_alive_ THEN DEFAULT_KEEP_ALIVE_TIME
                                             ELSE DEFAULT_EXPIRED_TIME
     IN modify_fd_in_epoll(cur,
          CASE events_ = {} -> {"IN"}
            [] {"IN", "OUT"} \subseteq events_ -> {"OUT", "ET"}
            [] OTHER -> events_ \union {"ET"},
          timeout)
  /\ ConnectReturns
  /\ UNCHANGED <<functor_list, life, fd_to_channel_, sock, now>>

\* handle_connect() of a connection that waits for nothing: it is shut down
\* and closed, and the code goes on to use the HttpData object, which the
\* close has destroyed.
handle_connect_shutdown ==
  /\ pc = "connect"
  /\ Healthy(http[cur])
  /\ chan[cur].events_ = {} /\ ~http[cur].keep_alive_
  /\ timers' = Separated(cur)
  /\ handle_close(cur)
  /\ pc' = "freed"
  /\ UNCHANGED <<result, cur, calls, functor_list, now>>

\* handle_connect() of a connection with an error: it is closed.  (One that
\* is disconnected, without an error, and still writing would be kept; there
\* is none.)  When the write handler made this call, the connect handler is
\* still due, on an object that is gone.
handle_connect_error ==
  /\ pc = "connect"
  /\ ~Healthy(http[cur])
  /\ timers' = Separated(cur)
  /\ IF ~http[cur].is_error_ /\ "OUT" \in chan[cur].events_
     THEN /\ http' = [http EXCEPT ![cur].timer_ = NULL]
          /\ chan' = [chan EXCEPT ![cur].events_ = {"OUT", "ET"}]
          /\ ConnectReturns
          /\ UNCHANGED <<life, fd_to_channel_, epoll, sock, history>>
     ELSE /\ handle_close(cur)
          /\ IF calls > 1 THEN pc' = "freed" /\ UNCHANGED <<result, cur, calls>>
                          ELSE NextChannel
  /\ UNCHANGED <<functor_list, now>>

\* A destroyed HttpData is used: undefined.  Its memory may still read as it
\* was, and then nothing the loop depends on changes (the registration is
\* gone, and so is the object a timer would hold); or the process dies.
use_freed ==
  /\ pc = "freed"
  /\ \/ NextChannel
     \/ pc' = "crashed" /\ UNCHANGED <<result, cur, calls>>
  /\ UNCHANGED <<functor_list, conn, epoll, sock, now>>

\* All channels are handled; the pending functors are taken.
do_pending_functors ==
  /\ pc = "handle"
  /\ result = {}
  /\ functor_list' = {c \in Conns : life[c] = "queued"}
  /\ pc' = "functors"
  /\ UNCHANGED <<result, cur, calls, conn, epoll, sock, now>>

\* new_event(), a pending functor: the connection is registered, one-shot.
new_event(c) ==
  /\ pc = "functors"
  /\ c \in functor_list
  /\ functor_list' = functor_list \ {c}
  /\ life' = [life EXCEPT ![c] = "open"]
  /\ add_fd_in_epoll(c, DEFAULT_EVENT, DEFAULT_EXPIRED_TIME)
  /\ UNCHANGED <<pc, result, cur, calls, sock, now>>

\* All of them have been called; one queued since waits for the next round.
do_pending_functors_end ==
  /\ pc = "functors"
  /\ functor_list = {}
  /\ pc' = "expired"
  /\ UNCHANGED <<result, cur, calls, functor_list, conn, epoll, sock, now>>

\* A plausible slip: the comparison of the heap is the wrong way round.
Top_Latest ==
  {t \in timers : \A u \in timers : t.expired_time_ >= u.expired_time_}

\* The timers that may be at the top of the priority queue.
Top == {t \in timers : \A u \in timers : t.expired_time_ <= u.expired_time_}

\* A plausible slip: the time is compared with the time of creation.
is_valid_NoTimeout(t) == now + DEFAULT_EXPIRED_TIME < t.expired_time_

is_valid(t) == now < t.expired_time_

\* One turn of handle_expired_event(): a timer that is deleted or expired is
\* popped; its destructor closes the connection it still holds.
handle_expired_event ==
  /\ pc = "expired"
  /\ \E t \in Top :
       /\ is_deleted(t) \/ ~is_valid(t)
       /\ timers' = timers \ {t}
       /\ IF is_deleted(t)
          THEN UNCHANGED <<life, http, chan, fd_to_channel_, epoll, sock,
                           history>>
          ELSE handle_close(t.Http_data_sptr)
  /\ UNCHANGED <<loopvars, now>>

\* The top of the queue is valid, or the queue is empty.
handle_expired_end ==
  /\ pc = "expired"
  /\ \/ timers = {}
     \/ \E t \in Top : ~is_deleted(t) /\ is_valid(t)
  /\ pc' = "poll"
  /\ UNCHANGED <<result, cur, calls, functor_list, conn, epoll, sock, now>>

-----------------------------------------------------------------------------
(* The environment.                                                        *)

Connected(c) == life[c] \in {"queued", "open"} /\ ~sock[c].rst

\* The main thread queues new_event() on this loop and wakes it.
Accept(c) ==
  /\ life[c] = "new"
  /\ life' = [life EXCEPT ![c] = "queued"]
  /\ UNCHANGED <<loopvars, http, chan, fd_to_channel_, timers, epoll, sock,
                 now, history>>

ClientSends(c) ==
  /\ "send" \in ClientActions
  /\ Connected(c) /\ ~sock[c].fin /\ ~sock[c].unread
  /\ sock' = [sock EXCEPT ![c].unread = TRUE]
  /\ Edge(c, {"IN"})
  /\ UNCHANGED <<loopvars, conn, now>>

ClientCloses(c) ==
  /\ "close" \in ClientActions
  /\ Connected(c) /\ ~sock[c].fin
  /\ sock' = [sock EXCEPT ![c].fin = TRUE]
  /\ Edge(c, {"IN"})
  /\ UNCHANGED <<loopvars, conn, now>>

ClientResets(c) ==
  /\ "reset" \in ClientActions
  /\ Connected(c)
  /\ sock' = [sock EXCEPT ![c] = ResetSocket]
  /\ Edge(c, {"IN", "ERR", "HUP"})
  /\ UNCHANGED <<loopvars, conn, now>>

\* The client reads what was sent; there is room to write again.
ClientReads(c) ==
  /\ "read" \in ClientActions
  /\ Connected(c) /\ sock[c].full
  /\ sock' = [sock EXCEPT ![c].full = FALSE]
  /\ Edge(c, {"OUT"})
  /\ UNCHANGED <<loopvars, conn, now>>

\* A plausible slip: the seconds are not reduced modulo 10000.
Tick_NoModulo ==
  /\ now' = now + 1
  /\ left' = [c \in Conns |-> IF left[c] > 0 THEN left[c] - 1 ELSE 0]
  /\ UNCHANGED <<loopvars, life, http, chan, fd_to_channel_, timers, epoll,
                 sock, wrapped>>

\* The clock that Timer::Timer and Timer::is_valid read.
Tick ==
  /\ now' = (now + 1) % Wrap
  /\ left' = [c \in Conns |-> IF left[c] > 0 THEN left[c] - 1 ELSE 0]
  /\ wrapped' = IF now + 1 = Wrap
                THEN wrapped \union {c \in Conns : life[c] = "open"}
                ELSE wrapped
  /\ UNCHANGED <<loopvars, life, http, chan, fd_to_channel_, timers, epoll,
                 sock>>

LoopStep ==
  \/ poll
  \/ \E c \in Conns : handle_events(c) \/ new_event(c)
  \/ handle_read \/ handle_read_throws
  \/ handle_connect \/ handle_connect_shutdown
  \/ handle_connect_error \/ use_freed
  \/ do_pending_functors \/ do_pending_functors_end
  \/ handle_expired_event \/ handle_expired_end

Client(c) ==
  \/ Accept(c) \/ ClientSends(c) \/ ClientCloses(c) \/ ClientResets(c)
  \/ ClientReads(c)

Next == LoopStep \/ Tick \/ \E c \in Conns : Client(c)

SafeSpec == Init /\ [][Next]_vars

\* The loop thread keeps running and time passes; clients do what they like.
Spec == SafeSpec /\ WF_vars(LoopStep) /\ WF_vars(Tick)

-----------------------------------------------------------------------------
(* Properties.                                                             *)

HttpDataType ==
  [connection_state_ : {"H_CONNECTED", "H_DISCONNECTED"}, is_error_ : BOOLEAN,
   process_state_ : ProcessStates, keep_alive_ : BOOLEAN,
   buffer_out_ : BOOLEAN, timer_ : Nat \union {NULL}]
Events == {"IN", "OUT", "ET", "ONESHOT"}
ChannelType ==
  [events_ : SUBSET Events, last_events_ : SUBSET Events,
   revents_ : SUBSET {"IN", "OUT", "ERR", "HUP"}]
SocketType == [unread : BOOLEAN, fin : BOOLEAN, rst : BOOLEAN, full : BOOLEAN]
RegistrationType ==
  [added : BOOLEAN, interest : SUBSET Events, ready : BOOLEAN]
TimerType == [Http_data_sptr : Conns \union {NULL}, expired_time_ : Nat]

TypeOK ==
  /\ pc \in {"poll", "handle", "read", "connect", "freed", "functors",
             "expired", "crashed"}
  /\ result \subseteq Conns
  /\ cur \in Conns \union {NULL}
  /\ calls \in 0..2
  /\ functor_list \subseteq Conns
  /\ life \in [Conns -> {"new", "queued", "open", "closed"}]
  /\ http \in [Conns -> HttpDataType]
  /\ chan \in [Conns -> ChannelType]
  /\ fd_to_channel_ \in [Conns -> BOOLEAN]
  /\ timers \subseteq TimerType
  /\ epoll \in [Conns -> RegistrationType]
  /\ sock \in [Conns -> SocketType]
  /\ now \in 0..(Wrap - 1)
  /\ left \in [Conns -> Nat]
  /\ wrapped \subseteq Conns

\* Every connection that the loop keeps has exactly one armed timer, except
\* while its own handlers run, and one that is closed has none: no open
\* connection escapes the timeout, none is closed by a timer of an earlier
\* event, and the object a close leaves behind is held by nobody (new_event,
\* seperate_timer, reset, handle_connect, handle_close).
OneArmedTimer ==
  \A c \in Conns \ {cur} :
    Cardinality(Armed(c)) = IF life[c] = "open" THEN 1 ELSE 0

\* Input is never forgotten: when the loop goes to sleep, a connection that
\* believes it waits for input and has some is reported by epoll_wait,
\* although its registration is edge-triggered and was one-shot at first
\* (readn, modify_fd_in_epoll and equal_and_update_last_events).
NoLostInput ==
  \A c \in Conns :
    /\ pc = "poll" /\ fd_to_channel_[c] /\ "IN" \in chan[c].last_events_
    /\ (sock[c].unread \/ sock[c].fin) /\ ~sock[c].rst
    => c \in Deliverable

\* The timer never closes a connection before its time, whatever the clock
\* shows: handle_expired_event against the timers set by handle_connect.
NotClosedEarly ==
  [][\A c \in Conns :
       pc = "expired" /\ life[c] = "open" /\ life'[c] = "closed"
         => left[c] = 0]_vars

\* A client that ends its side is closed by the server, without waiting for
\* a timer, unless a part of a response is still to be written.
PeerCloseIsSeen ==
  \A c \in Conns :
    (fd_to_channel_[c] /\ sock[c].fin)
      ~> \/ life[c] = "closed"
         \/ sock[c].rst \/ http[c].buffer_out_ \/ pc = "crashed"

\* A connection is closed only when its response has been written, unless
\* there was an error or its time was up (handle_connect).
ResponseIsWhole ==
  [][\A c \in Conns :
       life[c] = "open" /\ life'[c] = "closed" /\ ~http[c].is_error_
         => ~http[c].buffer_out_ \/ pc = "expired"]_vars

\* A connection whose time is up is closed, or has been active since.
TimedOutIsClosed ==
  \A c \in Conns :
    (life[c] = "open" /\ left[c] = 0)
      ~> (life[c] = "closed" \/ left[c] > 0 \/ pc = "crashed")

\* The connections whose time was up when the loop looked at its timers, and
\* which are still open after it.
Overdue == {c \in Conns : life[c] = "open" /\ left[c] = 0}
TimersExamined == pc = "expired" /\ pc' = "poll"

\* Looking at the top of the heap until it is valid finds every connection
\* whose time is up, past the deleted timers and those of other connections,
\* as long as the clock has not wrapped around since the timer was set.
ExpiredAreClosedBeforeWrap == [][TimersExamined => Overdue \subseteq wrapped]_vars

-----------------------------------------------------------------------------
(* The inductive invariant behind the safety properties.                   *)

\* What the loop thread works on is registered and open.
LoopInv ==
  /\ cur = NULL <=> pc \in {"poll", "handle", "functors", "expired"}
  /\ cur # NULL => cur \in result
  /\ pc \in {"read", "connect"} => fd_to_channel_[cur] /\ calls > 0
  /\ pc = "freed" => life[cur] = "closed"
  /\ pc \in {"poll", "functors", "expired"} => result = {}
  /\ \A c \in result \ {cur} : fd_to_channel_[c]
  /\ \A c \in Conns : fd_to_channel_[c] => life[c] = "open" /\ epoll[c].added
  /\ \A c \in functor_list : life[c] = "queued"

\* Only the connection whose handlers run can have an error, and only one
\* with an error has a request that the stages have left unfinished for good.
ErrorSeen(c) ==
  /\ http[c].is_error_ => c = cur /\ pc = "connect"
  /\ \/ http[c].connection_state_ = "H_DISCONNECTED"
     \/ http[c].process_state_ \in {"STATE_ANALYSIS", "STATE_FINISH"}
     => http[c].is_error_
ErrorInv == \A c \in Conns : ErrorSeen(c)

\* The weak pointer timer_ and the queue of timers agree.
Linked(c) == http[c].timer_ # NULL /\ Armed(c) = {Timer(c, http[c].timer_)}
Unlinked(c) == http[c].timer_ = NULL /\ Armed(c) = {}
OneTimer(c) ==
  IF life[c] = "open"
  THEN Linked(c) \/ (Unlinked(c) /\ c = cur /\ pc = "connect")
  ELSE Unlinked(c)
LinkInv == \A c \in Conns : OneTimer(c)

\* The timer of a connection does not expire before its time; and not after
\* it either while the clock has not wrapped around.
Timely(c) ==
  life[c] = "open" /\ http[c].timer_ # NULL =>
    /\ left[c] <= IF now < http[c].timer_ THEN http[c].timer_ - now ELSE 0
    /\ c \notin wrapped => http[c].timer_ <= now + left[c]
TimeInv == \A c \in Conns : Timely(c)

\* The loop has input to read that epoll_wait will report.
Input(c) == (sock[c].unread \/ sock[c].fin) /\ ~sock[c].rst
Reported(c) ==
  "IN" \in chan[c].last_events_ /\ Input(c) => epoll[c].ready

\* The kernel watches the events registered last, unless a one-shot
\* registration has fired and its event is still being handled; and input
\* that came since the handlers last read is reported.
Registered(c) ==
  LET last == chan[c].last_events_ IN
  /\ \/ epoll[c].interest = last
     \/ last = DEFAULT_EVENT /\ (c \in result \/ sock[c].rst)
  /\ "ONESHOT" \in last => last = DEFAULT_EVENT
  /\ ~({"IN", "OUT"} \subseteq last)
  /\ c \notin result => Reported(c)
  /\ c \in result \ {cur} =>
       /\ {"ERR", "HUP"} \cap chan[c].revents_ # {} => sock[c].rst
       /\ "IN" \in last => "IN" \in chan[c].revents_ \/ sock[c].rst
  /\ c = cur /\ pc = "connect" =>
       /\ "ONESHOT" \in last \/ http[c].is_error_ \/ Reported(c)
       /\ "ONESHOT" \notin chan[c].events_
RegisteredInv == \A c \in Conns : fd_to_channel_[c] => Registered(c)

ConnectionInv ==
  TypeOK /\ LoopInv /\ ErrorInv /\ LinkInv /\ TimeInv /\ RegisteredInv
=============================================================================
