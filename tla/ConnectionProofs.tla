-------------------------- MODULE ConnectionProofs --------------------------
(***************************************************************************)
(* Proof that ConnectionInv is an invariant of Connection, for any number  *)
(* of connections, any clock and any timeouts, and what follows from it:   *)
(* every open connection has its one timer, no input is forgotten, and the *)
(* timers close what they should, no earlier and, until the clock wraps    *)
(* around, no later.                                                       *)
(***************************************************************************)
EXTENDS Connection, FiniteSetTheorems, TLAPS

USE NullAssumption

-----------------------------------------------------------------------------
(* The values that HttpData, Channel and the kernel start from.            *)

LEMMA NewObjects ==
  /\ NewHttpData \in HttpDataType /\ NewHttpData.timer_ = NULL
  /\ ~NewHttpData.is_error_ /\ NewHttpData.connection_state_ = "H_CONNECTED"
  /\ NewHttpData.process_state_ = "STATE_PARSE_URI"
  /\ NewChannel \in ChannelType
  /\ NewSocket \in SocketType
  /\ ResetSocket \in SocketType /\ ResetSocket.rst
  /\ NotRegistered \in RegistrationType
<1>1. NewHttpData \in HttpDataType
  <2>1. "STATE_PARSE_URI" \in ProcessStates
    BY DEF ProcessStates
  <2> QED BY <2>1, Zenon DEF NewHttpData, HttpDataType
<1>2. /\ NewHttpData.timer_ = NULL
      /\ NewHttpData.connection_state_ = "H_CONNECTED"
      /\ NewHttpData.process_state_ = "STATE_PARSE_URI"
  BY DEF NewHttpData
<1>3. ~NewHttpData.is_error_
  BY DEF NewHttpData
<1>4. NewChannel \in ChannelType
  BY DEF NewChannel, ChannelType
<1>5. NewSocket \in SocketType
  BY Zenon DEF NewSocket, SocketType
<1>6. ResetSocket \in SocketType /\ ResetSocket.rst
  <2>1. ResetSocket = [NewSocket EXCEPT !.rst = TRUE]
    BY DEF ResetSocket
  <2> QED BY <1>5, <2>1 DEF SocketType
<1>8. NotRegistered \in RegistrationType
  <2>1. {} \in SUBSET Events
    OBVIOUS
  <2> QED BY <2>1, Zenon DEF NotRegistered, RegistrationType
<1> QED BY <1>1, <1>2, <1>3, <1>4, <1>5, <1>6, <1>8

LEMMA InitConnectionInv == Init => ConnectionInv
<1> SUFFICES ASSUME Init PROVE ConnectionInv
  OBVIOUS
<1>1. fd_to_channel_ \in [Conns -> BOOLEAN]
  BY Zenon DEF Init
<1>2. TypeOK
  BY <1>1, NewObjects, ClockAssumption DEF Init, TypeOK
<1>3. LoopInv /\ RegisteredInv /\ TimeInv
  BY DEF Init, LoopInv, RegisteredInv, TimeInv, Timely
<1>4. ErrorInv /\ LinkInv
  BY NewObjects DEF Init, ErrorInv, ErrorSeen, LinkInv, OneTimer, Unlinked, Armed
<1> QED BY <1>2, <1>3, <1>4 DEF ConnectionInv

-----------------------------------------------------------------------------
(* The operators on timers.                                                *)

\* seperate_timer() leaves no armed timer to a connection whose weak pointer
\* names the only one, and touches the timers of no other connection.
LEMMA SeparatedTimers ==
  ASSUME TypeOK, NEW c \in Conns, Linked(c) \/ Unlinked(c)
  PROVE  /\ Separated(c) \subseteq TimerType
         /\ \A t \in Separated(c) : t.Http_data_sptr # c
         /\ \A d \in Conns \ {c} :
              {t \in Separated(c) : t.Http_data_sptr = d} = Armed(d)
<1> DEFINE timer == Timer(c, http[c].timer_)
<1>0. timers \subseteq TimerType
  BY DEF TypeOK
<1>1. CASE Unlinked(c)
  <2>1. timer \notin timers
    BY <1>1 DEF Unlinked, Armed, Timer
  <2>2. Separated(c) = timers
    BY <2>1 DEF Separated
  <2> QED BY <1>0, <1>1, <2>2 DEF Unlinked, Armed
<1>2. CASE Linked(c)
  <2>1. timer \in timers /\ Armed(c) = {timer}
    BY <1>2 DEF Linked, Armed
  <2>2. Deleted(timer) = Timer(NULL, timer.expired_time_)
    BY DEF Deleted, Timer
  <2>3. Deleted(timer) \in TimerType /\ Deleted(timer).Http_data_sptr = NULL
    BY <1>0, <2>1, <2>2 DEF Timer, TimerType
  <2>4. Separated(c) = (timers \ {timer}) \union {Deleted(timer)}
    BY <2>1 DEF Separated
  <2>5. timer.Http_data_sptr = c
    BY DEF Timer
  <2> HIDE DEF timer
  <2> QED BY <1>0, <2>1, <2>3, <2>4, <2>5 DEF Armed
<1> QED BY <1>1, <1>2

\* The timers of ts that are about c.
TimersOf(ts, c) == {t \in ts : t.Http_data_sptr = c}

\* add_timer() gives a connection without an armed timer the one that its
\* weak pointer names.
LEMMA AddedTimer ==
  ASSUME TypeOK, NEW c \in Conns, NEW ts \in SUBSET TimerType,
         \A t \in ts : t.Http_data_sptr # c,
         NEW timeout \in Nat \ {0}, add_timer(ts, c, timeout)
  PROVE  /\ timers' \in SUBSET TimerType /\ Linked(c)'
         /\ http' \in [Conns -> HttpDataType]
         /\ http'[c].timer_ = now + timeout /\ now + timeout \in Nat
         /\ \A d \in Conns \ {c} : http'[d] = http[d]
         /\ \A d \in Conns \ {c} : Armed(d)' = TimersOf(ts, d)
         /\ http'[c].is_error_ = http[c].is_error_
         /\ http'[c].connection_state_ = http[c].connection_state_
         /\ http'[c].process_state_ = http[c].process_state_
         /\ left' \in [Conns -> Nat] /\ wrapped' \subseteq Conns
         /\ left'[c] = timeout /\ c \notin wrapped'
         /\ \A d \in Conns \ {c} : left'[d] = left[d] /\ (d \in wrapped' <=> d \in wrapped)
<1>0. /\ now \in Nat /\ http \in [Conns -> HttpDataType]
      /\ left \in [Conns -> Nat] /\ wrapped \subseteq Conns
  BY ClockAssumption DEF TypeOK
<1>1. now + timeout \in Nat /\ now + timeout # NULL
  BY <1>0
<1>2. /\ timers' = ts \union {Timer(c, now + timeout)}
      /\ http' = [http EXCEPT ![c].timer_ = now + timeout]
      /\ left' = [left EXCEPT ![c] = timeout]
      /\ wrapped' = wrapped \ {c}
  BY DEF add_timer, WithTimer
<1>3. Timer(c, now + timeout) \in TimerType /\ Timer(c, now + timeout).Http_data_sptr = c
  BY <1>1 DEF Timer, TimerType
<1>4. /\ http' \in [Conns -> HttpDataType]
      /\ http'[c].timer_ = now + timeout
      /\ \A d \in Conns \ {c} : http'[d] = http[d]
      /\ http'[c].is_error_ = http[c].is_error_
      /\ http'[c].connection_state_ = http[c].connection_state_
      /\ http'[c].process_state_ = http[c].process_state_
  BY <1>0, <1>1, <1>2 DEF HttpDataType
<1>5. Linked(c)'
  BY <1>1, <1>2, <1>3, <1>4 DEF Linked, Armed
<1>6. \A d \in Conns \ {c} : Armed(d)' = TimersOf(ts, d)
  BY <1>2, <1>3 DEF Armed, TimersOf
<1> QED BY <1>0, <1>1, <1>2, <1>3, <1>4, <1>5, <1>6

-----------------------------------------------------------------------------
(* What a step does to the connections it is not about.                    *)

LEMMA OthersKept ==
  ASSUME ConnectionInv, NEW d \in Conns, d # cur, d # cur', now' = now,
         life'[d] = life[d], fd_to_channel_'[d] = fd_to_channel_[d],
         http'[d] = http[d], chan'[d] = chan[d], epoll'[d] = epoll[d],
         sock'[d] = sock[d], left'[d] = left[d], Armed(d)' = Armed(d),
         d \in wrapped' <=> d \in wrapped, d \in result' <=> d \in result
  PROVE  /\ ErrorSeen(d)' /\ OneTimer(d)' /\ Timely(d)'
         /\ fd_to_channel_'[d] => Registered(d)'
<1>1. ErrorSeen(d) /\ OneTimer(d) /\ Timely(d) /\ (fd_to_channel_[d] => Registered(d))
  BY DEF ConnectionInv, ErrorInv, LinkInv, TimeInv, RegisteredInv
<1>2. ErrorSeen(d)'
  BY <1>1 DEF ErrorSeen
<1>3. OneTimer(d)'
  BY <1>1 DEF OneTimer, Linked, Unlinked
<1>4. Timely(d)'
  BY <1>1 DEF Timely
<1>5. fd_to_channel_'[d] => Registered(d)'
  BY <1>1 DEF Registered, Reported, Input
<1> QED BY <1>2, <1>3, <1>4, <1>5

-----------------------------------------------------------------------------
(* handle_close().                                                         *)

\* Closing a connection that has no armed timer left and is not handled any
\* more keeps all of ConnectionInv but what is about the loop thread.
LEMMA CloseFacts ==
  ASSUME TypeOK, NEW c \in Conns, handle_close(c)
  PROVE  /\ fd_to_channel_' \in [Conns -> BOOLEAN]
         /\ life' \in [Conns -> {"new", "queued", "open", "closed"}]
         /\ http' \in [Conns -> HttpDataType]
         /\ chan' \in [Conns -> ChannelType]
         /\ epoll' \in [Conns -> RegistrationType]
         /\ sock' \in [Conns -> SocketType]
         /\ left' \in [Conns -> Nat]
         /\ wrapped' \subseteq Conns
         /\ life'[c] = "closed" /\ ~fd_to_channel_'[c] /\ http'[c] = NewHttpData
         /\ \A d \in Conns \ {c} :
              /\ life'[d] = life[d]
              /\ fd_to_channel_'[d] = fd_to_channel_[d]
              /\ http'[d] = http[d]
              /\ chan'[d] = chan[d]
              /\ epoll'[d] = epoll[d]
              /\ sock'[d] = sock[d]
              /\ left'[d] = left[d]
              /\ (d \in wrapped' <=> d \in wrapped)
<1> USE NewObjects DEF TypeOK
<1>1. /\ fd_to_channel_' = [fd_to_channel_ EXCEPT ![c] = FALSE]
      /\ life' = [life EXCEPT ![c] = "closed"]
      /\ http' = [http EXCEPT ![c] = NewHttpData]
      /\ chan' = [chan EXCEPT ![c] = NewChannel]
      /\ epoll' = [epoll EXCEPT ![c] = NotRegistered]
      /\ sock' = [sock EXCEPT ![c] = NewSocket]
      /\ left' = [left EXCEPT ![c] = 0]
      /\ wrapped' = wrapped \ {c}
  BY DEF handle_close, delete_fd_in_epoll
<1>2. fd_to_channel_' \in [Conns -> BOOLEAN]
  BY <1>1
<1>3. life' \in [Conns -> {"new", "queued", "open", "closed"}]
  BY <1>1
<1>4. http' \in [Conns -> HttpDataType] /\ chan' \in [Conns -> ChannelType]
  BY <1>1
<1>5. epoll' \in [Conns -> RegistrationType] /\ sock' \in [Conns -> SocketType]
  BY <1>1
<1>6. left' \in [Conns -> Nat] /\ wrapped' \subseteq Conns
  BY <1>1
<1>7. life'[c] = "closed" /\ ~fd_to_channel_'[c] /\ http'[c] = NewHttpData
  BY <1>1
<1>8. ASSUME NEW d \in Conns \ {c}
      PROVE  /\ life'[d] = life[d]
             /\ http'[d] = http[d]
             /\ chan'[d] = chan[d]
             /\ epoll'[d] = epoll[d]
             /\ sock'[d] = sock[d]
             /\ left'[d] = left[d]
             /\ (d \in wrapped' <=> d \in wrapped)
  BY <1>1
<1>9. \A d \in Conns \ {c} : fd_to_channel_'[d] = fd_to_channel_[d]
  BY <1>1
<1> QED BY <1>2, <1>3, <1>4, <1>5, <1>6, <1>7, <1>8, <1>9

\* What closing a connection does to the parts of the invariant that are
\* about connections.
LEMMA CloseConnectionInv ==
  ASSUME ConnectionInv, NEW c \in Conns, handle_close(c),
         \A t \in timers' : t.Http_data_sptr # c,
         \A d \in Conns \ {c} : Armed(d)' = Armed(d),
         UNCHANGED now,
         c = cur \/ (cur = NULL /\ cur' = NULL /\ result = {}),
         c = cur => pc = "connect" /\ pc' # "connect",
         result' \in {result, result \ {c}}, cur' \in {cur, NULL},
         c \in result' => c = cur',
         cur' = NULL => c \notin result'
  PROVE  LinkInv' /\ ErrorInv' /\ TimeInv' /\ RegisteredInv'
<1> USE NewObjects
<1>1. /\ life'[c] = "closed" /\ ~fd_to_channel_'[c] /\ http'[c] = NewHttpData
      /\ \A d \in Conns \ {c} :
           /\ life'[d] = life[d]
           /\ fd_to_channel_'[d] = fd_to_channel_[d]
           /\ http'[d] = http[d]
           /\ chan'[d] = chan[d]
           /\ epoll'[d] = epoll[d]
           /\ sock'[d] = sock[d]
           /\ left'[d] = left[d]
           /\ (d \in wrapped' <=> d \in wrapped)
  BY CloseFacts DEF ConnectionInv
<1>2. \A d \in Conns \ {c} : d # cur /\ d # cur' /\ (d \in result' <=> d \in result)
  OBVIOUS
<1>3. LinkInv'
  <2>1. Unlinked(c)'
    BY <1>1 DEF Unlinked, Armed
  <2>2. ASSUME NEW d \in Conns \ {c}
        PROVE  IF life'[d] = "open"
               THEN Linked(d)' \/ (Unlinked(d)' /\ d = cur' /\ pc' = "connect")
               ELSE Unlinked(d)'
    <3>1. (Linked(d)' <=> Linked(d)) /\ (Unlinked(d)' <=> Unlinked(d))
      BY <1>1 DEF Linked, Unlinked
    <3>2. life'[d] = life[d] /\ d # cur
      BY <1>1, <1>2
    <3> QED BY <3>1, <3>2 DEF ConnectionInv, LinkInv, OneTimer
  <2> QED BY <1>1, <2>1, <2>2 DEF LinkInv, OneTimer
<1>4. ErrorInv'
  BY <1>1, <1>2 DEF ConnectionInv, ErrorInv, ErrorSeen
<1>5. TimeInv'
  BY <1>1 DEF ConnectionInv, TimeInv, Timely
<1>6. RegisteredInv'
  BY <1>1, <1>2 DEF ConnectionInv, RegisteredInv, Registered, Reported, Input
<1> QED BY <1>3, <1>4, <1>5, <1>6

-----------------------------------------------------------------------------
(* poll().                                                                 *)

\* A registered connection that is not delivered has nothing to report.
LEMMA PollConnectionInv == ConnectionInv /\ poll => ConnectionInv'
<1> SUFFICES ASSUME ConnectionInv, poll PROVE ConnectionInv'
  OBVIOUS
<1>t. TypeOK /\ LoopInv /\ ErrorInv /\ LinkInv /\ TimeInv /\ RegisteredInv
  BY DEF ConnectionInv
<1>1. /\ pc = "poll" /\ pc' = "handle" /\ cur = NULL /\ result = {}
      /\ result' = {c \in Deliverable : fd_to_channel_[c]}
      /\ UNCHANGED <<cur, calls, functor_list, life, http, fd_to_channel_, timers,
                     sock, now, left, wrapped>>
  BY <1>t DEF poll, LoopInv, history
<1>2. /\ chan' = [c \in Conns |->
                    IF c \in result'
                    THEN [chan[c] EXCEPT
                            !.events_ = {},
                            !.revents_ = Mask(sock[c]) \cap
                                           Watched(epoll[c].interest)]
                    ELSE chan[c]]
      /\ epoll' = [c \in Conns |->
                     [epoll[c] EXCEPT
                        !.ready = FALSE,
                        !.interest = IF c \in Deliverable /\ "ONESHOT" \in @
                                     THEN {} ELSE @]]
  BY DEF poll
<1>3. ASSUME NEW c \in Conns
      PROVE  /\ epoll'[c] \in RegistrationType
             /\ epoll'[c].added = epoll[c].added
             /\ epoll'[c].interest = IF c \in Deliverable /\ "ONESHOT" \in epoll[c].interest
                                     THEN {} ELSE epoll[c].interest
  <2>1. epoll[c] \in RegistrationType
    BY <1>t DEF TypeOK
  <2> QED BY <1>2, <2>1 DEF RegistrationType
<1>4. ASSUME NEW c \in Conns
      PROVE  /\ chan'[c] \in ChannelType
             /\ chan'[c].last_events_ = chan[c].last_events_
             /\ c \in result' => chan'[c].revents_ =
                                   Mask(sock[c]) \cap Watched(epoll[c].interest)
  <2>1. chan[c] \in ChannelType
    BY <1>t DEF TypeOK
  <2>2. Mask(sock[c]) \subseteq {"IN", "OUT", "ERR", "HUP"}
    BY DEF Mask
  <2> QED BY <1>2, <2>1, <2>2 DEF ChannelType
<1>5. TypeOK'
  <2>1. result' \subseteq Conns
    BY <1>1 DEF Deliverable
  <2>2. epoll' \in [Conns -> RegistrationType] /\ chan' \in [Conns -> ChannelType]
    BY <1>2, <1>3, <1>4
  <2>3. fd_to_channel_' \in [Conns -> BOOLEAN]
    BY <1>1, <1>t DEF TypeOK
  <2> QED BY <1>1, <1>t, <2>1, <2>2, <2>3 DEF TypeOK
<1>6. LoopInv'
  BY <1>1, <1>3, <1>t DEF LoopInv, Deliverable
<1>7. ErrorInv' /\ TimeInv'
  BY <1>1, <1>t DEF ErrorInv, ErrorSeen, TimeInv, Timely
<1>8. LinkInv'
  BY <1>1, <1>t DEF LinkInv, OneTimer, Linked, Unlinked, Armed
<1>9. RegisteredInv'
  <2> SUFFICES ASSUME NEW c \in Conns, fd_to_channel_[c]
               PROVE  Registered(c)'
    BY <1>1 DEF RegisteredInv
  <2> DEFINE last == chan[c].last_events_
             interest == epoll[c].interest
  <2>1. /\ interest = last \/ (last = DEFAULT_EVENT /\ sock[c].rst)
        /\ "ONESHOT" \in last => last = DEFAULT_EVENT
        /\ ~({"IN", "OUT"} \subseteq last)
        /\ Reported(c)
    BY <1>1, <1>t DEF RegisteredInv, Registered
  <2>2. c \in result' <=> c \in Deliverable
    BY <1>1
  <2>3. c \in Deliverable <=> epoll[c].ready /\ Mask(sock[c]) \cap Watched(interest) # {}
    BY DEF Deliverable
  <2>4. /\ {"ERR", "HUP"} \cap Mask(sock[c]) # {} => sock[c].rst
        /\ Input(c) => "IN" \in Mask(sock[c])
    BY DEF Mask, Input
  <2>5. chan'[c].last_events_ = last /\ sock' = sock
    BY <1>1, <1>4
  <2>6. epoll'[c].interest = last \/ (last = DEFAULT_EVENT /\ (c \in result' \/ sock'[c].rst))
    BY <1>1, <1>3, <2>1, <2>2
  <2>7. c \notin result' => Reported(c)'
    <3> SUFFICES ASSUME c \notin Deliverable, "IN" \in last, Input(c)
                 PROVE  FALSE
      BY <1>1, <2>2, <2>5 DEF Reported, Input
    <3>1. epoll[c].ready /\ interest = last
      BY <2>1 DEF Reported, Input
    <3>2. "IN" \in Mask(sock[c]) \cap Watched(interest)
      BY <2>4, <3>1 DEF Watched
    <3> QED BY <2>3, <3>1, <3>2
  <2>8. c \in result' =>
          /\ {"ERR", "HUP"} \cap chan'[c].revents_ # {} => sock[c].rst
          /\ "IN" \in last => "IN" \in chan'[c].revents_ \/ sock[c].rst
    <3> SUFFICES ASSUME c \in result'
                 PROVE  /\ {"ERR", "HUP"} \cap chan'[c].revents_ # {} => sock[c].rst
                        /\ "IN" \in last => "IN" \in chan'[c].revents_ \/ sock[c].rst
      OBVIOUS
    <3>1. chan'[c].revents_ = Mask(sock[c]) \cap Watched(interest)
      BY <1>4
    <3>2. chan'[c].revents_ # {}
      BY <2>2, <2>3, <3>1
    <3>3. ASSUME "IN" \in last, ~sock[c].rst PROVE "IN" \in chan'[c].revents_
      <4>1. interest = last /\ "OUT" \notin interest
        BY <2>1, <3>3
      <4>2. Mask(sock[c]) \subseteq {"IN", "OUT"}
        BY <3>3 DEF Mask
      <4>3. "OUT" \notin Watched(interest)
        BY <4>1 DEF Watched
      <4> QED BY <3>1, <3>2, <4>2, <4>3
    <3> QED BY <2>4, <3>1, <3>3
  <2> QED BY <1>1, <2>1, <2>5, <2>6, <2>7, <2>8 DEF Registered
<1> QED BY <1>5, <1>6, <1>7, <1>8, <1>9 DEF ConnectionInv

-----------------------------------------------------------------------------
(* Channel::handle_events().                                               *)

LEMMA EventsConnectionInv ==
  ASSUME ConnectionInv, NEW c \in Conns, handle_events(c)
  PROVE  ConnectionInv'
<1>t. TypeOK /\ LoopInv /\ ErrorInv /\ LinkInv /\ TimeInv /\ RegisteredInv
  BY DEF ConnectionInv
<1> DEFINE revents_ == chan[c].revents_
           Dropped == ("HUP" \in revents_ /\ "IN" \notin revents_) \/ "ERR" \in revents_
<1>1. /\ pc = "handle" /\ c \in result /\ cur = NULL
      /\ chan' = [chan EXCEPT ![c].events_ = {}, ![c].revents_ = {}]
      /\ UNCHANGED <<functor_list, life, http, fd_to_channel_, timers, left,
                     wrapped, epoll, sock, now>>
  BY <1>t DEF handle_events, LoopInv, history
<1>2. \/ /\ Dropped
         /\ result' = result \ {c}
         /\ UNCHANGED <<pc, cur, calls>>
      \/ /\ ~Dropped
         /\ pc' = IF "IN" \in revents_ THEN "read" ELSE "connect"
         /\ cur' = c /\ calls' \in {1, 2} /\ result' = result
  BY DEF handle_events
<1>3. /\ chan' \in [Conns -> ChannelType]
      /\ chan'[c].events_ = {}
      /\ chan'[c].last_events_ = chan[c].last_events_
      /\ \A d \in Conns \ {c} : chan'[d] = chan[d]
  <2>1. chan \in [Conns -> ChannelType] /\ chan[c] \in ChannelType
    BY <1>t DEF TypeOK
  <2>2. chan' = [chan EXCEPT ![c] = [chan[c] EXCEPT !.events_ = {}, !.revents_ = {}]]
    BY <1>1, <2>1
  <2>3. [chan[c] EXCEPT !.events_ = {}, !.revents_ = {}] \in ChannelType
    BY <2>1 DEF ChannelType
  <2>4. chan'[c] = [chan[c] EXCEPT !.events_ = {}, !.revents_ = {}]
    BY <2>1, <2>2
  <2>5. chan'[c].events_ = {} /\ chan'[c].last_events_ = chan[c].last_events_
    BY <2>1, <2>4 DEF ChannelType
  <2> QED BY <2>1, <2>2, <2>3, <2>5
<1>4. fd_to_channel_[c] /\ life[c] = "open"
  BY <1>1, <1>t DEF LoopInv
<1> HIDE DEF Dropped
<1>5. TypeOK'
  BY <1>1, <1>2, <1>3, <1>t DEF TypeOK
<1>6. LoopInv'
  <2>1. \/ pc' = "handle" /\ cur' = NULL
        \/ pc' \in {"read", "connect"} /\ cur' = c /\ c \in result' /\ calls' > 0
    BY <1>1, <1>2
  <2>2. result' \subseteq result /\ \A d \in result : d # NULL
    BY <1>2, <1>t DEF TypeOK
  <2>3. \A d \in result' \ {cur'} : fd_to_channel_'[d]
    BY <1>1, <1>t, <2>2 DEF LoopInv
  <2> QED BY <1>1, <1>4, <1>t, <2>1, <2>3 DEF LoopInv
<1>7. ErrorInv'
  BY <1>1, <1>2, <1>t DEF ErrorInv, ErrorSeen
<1>8. TimeInv'
  BY <1>1, <1>t DEF TimeInv, Timely
<1>9. LinkInv'
  BY <1>1, <1>2, <1>t DEF LinkInv, OneTimer, Linked, Unlinked, Armed
<1>10. RegisteredInv'
  <2>1. ASSUME NEW d \in Conns \ {c}, fd_to_channel_[d] PROVE Registered(d)'
    <3>1. Registered(d)
      BY <1>t, <2>1 DEF RegisteredInv
    <3>2. d # cur /\ d # cur' /\ (d \in result' <=> d \in result) /\ chan'[d] = chan[d]
      BY <1>1, <1>2, <1>3, <2>1
    <3> QED BY <1>1, <3>1, <3>2 DEF Registered, Reported, Input
  <2>2. /\ {"ERR", "HUP"} \cap revents_ # {} => sock[c].rst
        /\ "IN" \in chan[c].last_events_ => "IN" \in revents_ \/ sock[c].rst
        /\ \/ epoll[c].interest = chan[c].last_events_
           \/ chan[c].last_events_ = DEFAULT_EVENT
        /\ "ONESHOT" \in chan[c].last_events_ => chan[c].last_events_ = DEFAULT_EVENT
        /\ ~({"IN", "OUT"} \subseteq chan[c].last_events_)
    BY <1>1, <1>4, <1>t DEF RegisteredInv, Registered
  <2>3. Registered(c)'
    <3>1. CASE Dropped
      <4>1. sock[c].rst
        BY <2>2, <3>1 DEF Dropped
      <4> QED BY <1>1, <1>2, <1>3, <2>2, <3>1, <4>1 DEF Registered, Reported, Input
    <3>2. CASE ~Dropped
      <4>1. c = cur' /\ c \in result' /\ (pc' = "connect" => "IN" \notin revents_)
        BY <1>1, <1>2, <3>2
      <4> QED BY <1>1, <1>3, <2>2, <4>1 DEF Registered, Reported, Input
    <3> QED BY <3>1, <3>2
  <2> QED BY <1>1, <2>1, <2>3 DEF RegisteredInv
<1> QED BY <1>5, <1>6, <1>7, <1>8, <1>9, <1>10 DEF ConnectionInv

-----------------------------------------------------------------------------
(* HttpData::handle_read().                                                *)

\* The outcomes of the stages: one that got to the analysis and no further
\* has failed.
LEMMA OutcomeType ==
  ASSUME NEW stage \in {"STATE_PARSE_URI", "STATE_PARSE_HEADERS", "STATE_RECV_BODY"},
         NEW o \in Outcomes(stage)
  PROVE  /\ o.stage \in ProcessStates /\ o.failed \in BOOLEAN /\ o.out \in BOOLEAN
         /\ o.stage = "STATE_ANALYSIS" => o.failed
<1> DEFINE S == [stage : ProcessStates, failed : BOOLEAN, out : BOOLEAN]
<1>1. \A s \in ProcessStates, f \in BOOLEAN, x \in BOOLEAN : Outcome(s, f, x) \in S
  BY Zenon DEF Outcome
<1>2. \A s, f, x : Outcome(s, f, x).stage = s
  BY DEF Outcome
<1>3. \A s, x : Outcome(s, TRUE, x).failed
  BY DEF Outcome
<1> HIDE DEF S
<1>4. Outcomes(stage) \subseteq parse_URI
  BY DEF Outcomes, parse_URI, parse_Headers
<1>5. \E s \in ProcessStates, f \in BOOLEAN, x \in BOOLEAN :
        o = Outcome(s, f, x) /\ (s = "STATE_ANALYSIS" => f)
  <2>1. /\ o = Failed("STATE_PARSE_URI") \/ o = Again("STATE_PARSE_HEADERS")
             \/ o = Failed("STATE_PARSE_HEADERS") \/ o = Again("STATE_RECV_BODY")
             \/ o = Failed("STATE_RECV_BODY") \/ o = Failed("STATE_ANALYSIS")
             \/ \E x \in BOOLEAN : o = Outcome("STATE_FINISH", FALSE, x)
    BY <1>4 DEF parse_URI, parse_Headers, receive_body, analyze_request
  <2> QED BY <2>1, Zenon DEF Failed, Again, ProcessStates
<1>6. o \in S
  BY <1>1, <1>5
<1>7. o.stage = "STATE_ANALYSIS" => o.failed
  <2> SUFFICES ASSUME o.stage = "STATE_ANALYSIS" PROVE o.failed
    OBVIOUS
  <2>1. PICK s \in ProcessStates, f \in BOOLEAN, x \in BOOLEAN :
          o = Outcome(s, f, x) /\ (s = "STATE_ANALYSIS" => f)
    BY <1>5
  <2>2. o.stage = s
    BY <1>2, <2>1, Zenon
  <2>3. f = TRUE
    BY <2>1, <2>2
  <2> QED BY <1>3, <2>1, <2>3, Zenon
<1>8. o.stage \in ProcessStates /\ o.failed \in BOOLEAN /\ o.out \in BOOLEAN
  BY <1>6, Zenon DEF S
<1> QED BY <1>7, <1>8

\* What readn() and the stages make of the object.
LEMMA ReceivedType ==
  ASSUME NEW h \in HttpDataType, ~h.is_error_, h.connection_state_ = "H_CONNECTED",
         h.process_state_ \in {"STATE_PARSE_URI", "STATE_PARSE_HEADERS", "STATE_RECV_BODY"},
         NEW s \in SocketType, NEW o \in Outcomes(h.process_state_), NEW keep \in BOOLEAN
  PROVE  LET g == Received(h, readn(s), o, keep) IN
         /\ g \in HttpDataType /\ g.timer_ = h.timer_
         /\ ~g.is_error_ => ~s.rst /\ ~s.fin
         /\ g.connection_state_ = "H_DISCONNECTED" => g.is_error_
         /\ g.process_state_ = "STATE_ANALYSIS" => g.is_error_
<1> DEFINE r == readn(s)
           g == Received(h, r, o, keep)
<1>1. /\ o.stage \in ProcessStates /\ o.failed \in BOOLEAN /\ o.out \in BOOLEAN
      /\ o.stage = "STATE_ANALYSIS" => o.failed
  BY OutcomeType
<1>2. r.failed = s.rst /\ r.sum = s.unread /\ r.zero = (~s.rst /\ s.fin)
  BY DEF readn
<1> HIDE DEF r
<1>3. CASE r.failed
  <2>1. g = [h EXCEPT !.is_error_ = TRUE]
    BY <1>3 DEF Received
  <2> QED BY <1>2, <1>3, <2>1 DEF HttpDataType, r
<1>4. CASE ~r.failed /\ r.zero /\ ~r.sum
  <2>1. g = [h EXCEPT !.is_error_ = TRUE, !.connection_state_ = "H_DISCONNECTED"]
    BY <1>4 DEF Received
  <2> QED BY <1>2, <1>4, <2>1 DEF HttpDataType, r
<1>5. CASE ~r.failed /\ ~(r.zero /\ ~r.sum)
  <2> DEFINE e == h.is_error_ \/ r.zero \/ o.failed
             b == h.buffer_out_ \/ o.out
             q == IF r.zero THEN "H_DISCONNECTED" ELSE h.connection_state_
  <2>1. g = [h EXCEPT !.is_error_ = e, !.connection_state_ = q,
                      !.process_state_ = o.stage, !.keep_alive_ = keep,
                      !.buffer_out_ = b]
    BY <1>5 DEF Received
  <2>2. e \in BOOLEAN /\ b \in BOOLEAN
    OBVIOUS
  <2>3. q \in {"H_CONNECTED", "H_DISCONNECTED"} /\ (q = "H_DISCONNECTED" => e)
    OBVIOUS
  <2>4. o.stage = "STATE_ANALYSIS" => e
    BY <1>1
  <2>5. ~e => ~s.rst /\ ~s.fin
    BY <1>2, <1>5
  <2> HIDE DEF e, b, q, g
  <2>6. g \in HttpDataType
    BY <1>1, <2>1, <2>2, <2>3 DEF HttpDataType
  <2>7. g.is_error_ = e /\ g.connection_state_ = q /\ g.process_state_ = o.stage
        /\ g.timer_ = h.timer_
    BY <2>1 DEF HttpDataType
  <2> QED BY <2>3, <2>4, <2>5, <2>6, <2>7 DEF g, r
<1> QED BY <1>3, <1>4, <1>5

\* One pass of handle_read() changes the object, its socket and its events;
\* it unlinks the timer or leaves it; and unless there was an error it has
\* read all there is.
LEMMA ReadFacts ==
  ASSUME ConnectionInv, handle_read
  PROVE  \E h \in HttpDataType, s \in SocketType, ev \in SUBSET {"IN", "OUT"} :
           /\ http' = [http EXCEPT ![cur] = h]
           /\ sock' = [sock EXCEPT ![cur] = s]
           /\ chan' = [chan EXCEPT ![cur].events_ = ev]
           /\ \/ h.timer_ = http[cur].timer_ /\ timers' = timers
              \/ h.timer_ = NULL /\ timers' = Separated(cur)
           /\ \/ h.connection_state_ = "H_DISCONNECTED"
              \/ h.process_state_ \in {"STATE_ANALYSIS", "STATE_FINISH"}
              => h.is_error_
           /\ ~h.is_error_ => ~s.unread /\ ~s.fin
<1>1. /\ pc = "read" /\ cur \in Conns /\ ~http[cur].is_error_
      /\ http[cur] \in HttpDataType /\ sock[cur] \in SocketType
      /\ http[cur].connection_state_ = "H_CONNECTED"
      /\ http[cur].process_state_ \in
           {"STATE_PARSE_URI", "STATE_PARSE_HEADERS", "STATE_RECV_BODY"}
  <2>1. pc = "read" /\ TypeOK /\ LoopInv /\ ErrorInv
    BY DEF ConnectionInv, handle_read
  <2>2. cur \in Conns
    BY <2>1 DEF TypeOK, LoopInv
  <2>3. http[cur] \in HttpDataType /\ sock[cur] \in SocketType /\ ErrorSeen(cur)
    BY <2>1, <2>2 DEF TypeOK, ErrorInv
  <2> QED BY <2>1, <2>2, <2>3 DEF ErrorSeen, HttpDataType, ProcessStates
<1>2. PICK o \in Outcomes(http[cur].process_state_), w \in WriteResults :
        \E keep \in KeepAlive(o) :
          WriteAndReset(Received(http[cur], readn(sock[cur]), o, keep), w)
  BY DEF handle_read
<1>3. PICK keep \in KeepAlive(o) :
        WriteAndReset(Received(http[cur], readn(sock[cur]), o, keep), w)
  BY <1>2
<1> DEFINE g == Received(http[cur], readn(sock[cur]), o, keep)
<1>4. /\ g \in HttpDataType /\ g.timer_ = http[cur].timer_
      /\ ~g.is_error_ => ~sock[cur].rst /\ ~sock[cur].fin
      /\ g.connection_state_ = "H_DISCONNECTED" => g.is_error_
      /\ g.process_state_ = "STATE_ANALYSIS" => g.is_error_
  <2>1. keep \in BOOLEAN
    BY <1>3 DEF KeepAlive
  <2> QED BY <1>1, <2>1, ReceivedType
<1>5. WriteAndReset(g, w)
  BY <1>3
<1> HIDE DEF g
<1> DEFINE written == Written(g, w)
           h == IF Finishes(g, w) THEN Reset(written) ELSE written
           s == IF Writes(g) /\ w = "failed" THEN ResetSocket
                ELSE [sock[cur] EXCEPT !.unread = FALSE,
                        !.full = @ \/ (Writes(g) /\ w = "partial")]
           ev == (IF Writes(g) /\ w # "whole" THEN {"OUT"} ELSE {})
                   \union (IF Fails(g, w) \/ Finishes(g, w) THEN {} ELSE {"IN"})
<1>6. /\ written \in HttpDataType
      /\ written.timer_ = g.timer_
      /\ written.is_error_ = Fails(g, w)
      /\ written.connection_state_ = g.connection_state_
      /\ written.process_state_ = g.process_state_
  <2> DEFINE failed == Fails(g, w)
             buffer == g.buffer_out_ /\ ~(Writes(g) /\ w = "whole")
  <2>1. failed \in BOOLEAN /\ buffer \in BOOLEAN
    BY DEF Fails
  <2>2. written = [g EXCEPT !.is_error_ = failed, !.buffer_out_ = buffer]
    BY DEF Written
  <2> HIDE DEF failed, buffer, written
  <2>3. /\ written \in HttpDataType
        /\ written.timer_ = g.timer_
        /\ written.is_error_ = failed
        /\ written.connection_state_ = g.connection_state_
        /\ written.process_state_ = g.process_state_
    BY <1>4, <2>1, <2>2 DEF HttpDataType
  <2> QED BY <2>3 DEF failed
<1> HIDE DEF written
<1>7. /\ h \in HttpDataType
      /\ h.is_error_ = Fails(g, w)
      /\ h.connection_state_ = g.connection_state_
      /\ IF Finishes(g, w)
         THEN h.timer_ = NULL /\ h.process_state_ = "STATE_PARSE_URI"
         ELSE h.timer_ = http[cur].timer_ /\ h.process_state_ = g.process_state_
  BY <1>4, <1>6 DEF Reset, HttpDataType, ProcessStates
<1>8. s \in SocketType
  BY <1>1, NewObjects DEF SocketType
<1>9. ~h.is_error_ => ~s.unread /\ ~s.fin
  <2> SUFFICES ASSUME ~Fails(g, w) PROVE ~s.unread /\ ~s.fin
    BY <1>7
  <2>1. ~g.is_error_ /\ ~(Writes(g) /\ w = "failed")
    BY DEF Fails
  <2> QED BY <1>1, <1>4, <2>1 DEF SocketType
<1>10. \/ h.connection_state_ = "H_DISCONNECTED"
       \/ h.process_state_ \in {"STATE_ANALYSIS", "STATE_FINISH"}
       => h.is_error_
  BY <1>4, <1>7 DEF Fails, Finishes
<1>11. /\ http' = [http EXCEPT ![cur] = h]
       /\ sock' = [sock EXCEPT ![cur] = s]
       /\ chan' = [chan EXCEPT ![cur].events_ = ev]
       /\ timers' = IF Finishes(g, w) THEN Separated(cur) ELSE timers
  <2>1. sock[cur] \in SocketType /\ sock \in [Conns -> SocketType]
    BY <1>1 DEF ConnectionInv, TypeOK
  <2> QED BY <1>5, <2>1 DEF WriteAndReset, written
<1>12. ev \in SUBSET {"IN", "OUT"}
  OBVIOUS
<1> HIDE DEF h, s, ev
<1> QED BY <1>7, <1>8, <1>9, <1>10, <1>11, <1>12

LEMMA ReadConnectionInv == ConnectionInv /\ handle_read => ConnectionInv'
<1> SUFFICES ASSUME ConnectionInv, handle_read PROVE ConnectionInv'
  OBVIOUS
<1>t. TypeOK /\ LoopInv /\ ErrorInv /\ LinkInv /\ TimeInv /\ RegisteredInv
  BY DEF ConnectionInv
<1>1. /\ pc = "read" /\ pc' = "connect" /\ cur \in Conns /\ cur # NULL
      /\ cur \in result /\ fd_to_channel_[cur] /\ life[cur] = "open"
      /\ UNCHANGED <<result, cur, calls, functor_list, life, fd_to_channel_,
                     epoll, now, left, wrapped>>
  BY <1>t DEF handle_read, TypeOK, LoopInv, history
<1>c. PICK c \in Conns : c = cur
  BY <1>1
<1>2. PICK h \in HttpDataType, s \in SocketType, ev \in SUBSET {"IN", "OUT"} :
        /\ http' = [http EXCEPT ![c] = h]
        /\ sock' = [sock EXCEPT ![c] = s]
        /\ chan' = [chan EXCEPT ![c].events_ = ev]
        /\ \/ h.timer_ = http[c].timer_ /\ timers' = timers
           \/ h.timer_ = NULL /\ timers' = Separated(c)
        /\ \/ h.connection_state_ = "H_DISCONNECTED"
           \/ h.process_state_ \in {"STATE_ANALYSIS", "STATE_FINISH"}
           => h.is_error_
        /\ ~h.is_error_ => ~s.unread /\ ~s.fin
  BY <1>c, ReadFacts
<1>3. /\ http' \in [Conns -> HttpDataType] /\ http'[c] = h
      /\ sock' \in [Conns -> SocketType] /\ sock'[c] = s
      /\ \A d \in Conns \ {c} : http'[d] = http[d] /\ sock'[d] = sock[d]
  BY <1>1, <1>c, <1>2, <1>t DEF TypeOK
<1>4. /\ chan' \in [Conns -> ChannelType]
      /\ chan'[c].events_ = ev
      /\ chan'[c].last_events_ = chan[c].last_events_
      /\ \A d \in Conns \ {c} : chan'[d] = chan[d]
  <2>1. ev \in SUBSET Events
    BY DEF Events
  <2>2. chan \in [Conns -> ChannelType] /\ chan[c] \in ChannelType
    BY <1>1, <1>c, <1>t DEF TypeOK
  <2>3. chan' = [chan EXCEPT ![c] = [chan[c] EXCEPT !.events_ = ev]]
    BY <1>2, <1>c
  <2>4. /\ [chan[c] EXCEPT !.events_ = ev] \in ChannelType
        /\ [chan[c] EXCEPT !.events_ = ev].events_ = ev
        /\ [chan[c] EXCEPT !.events_ = ev].last_events_ = chan[c].last_events_
    BY <2>1, <2>2 DEF ChannelType
  <2>5. /\ chan'[c] = [chan[c] EXCEPT !.events_ = ev]
        /\ \A d \in Conns \ {c} : chan'[d] = chan[d]
    BY <1>1, <1>c, <2>2, <2>3
  <2> QED BY <1>1, <1>c, <2>2, <2>3, <2>4, <2>5
<1>5. Linked(c)
  BY <1>1, <1>c, <1>t DEF LinkInv, OneTimer
<1>6. /\ timers' \subseteq TimerType
      /\ \A d \in Conns \ {c} : Armed(d)' = Armed(d)
      /\ Linked(c)' \/ Unlinked(c)'
  <2>1. CASE h.timer_ = http[c].timer_ /\ timers' = timers
    BY <1>1, <1>c, <1>3, <1>5, <1>t, <2>1 DEF TypeOK, Linked, Armed, Timer
  <2>2. CASE h.timer_ = NULL /\ timers' = Separated(c)
    BY <1>1, <1>c, <1>3, <1>5, <1>t, <2>2, SeparatedTimers DEF Unlinked, Armed
  <2> QED BY <1>2, <2>1, <2>2
<1>7. TypeOK'
  <2>1. fd_to_channel_' \in [Conns -> BOOLEAN]
    BY <1>1, <1>c, <1>t DEF TypeOK
  <2> QED BY <1>1, <1>c, <1>3, <1>4, <1>6, <1>t, <2>1 DEF TypeOK
<1>8. LoopInv'
  BY <1>1, <1>c, <1>t DEF LoopInv
<1>9. \A d \in {c} : ErrorSeen(d)' /\ OneTimer(d)'
  BY <1>1, <1>c, <1>2, <1>3, <1>6 DEF ErrorSeen, OneTimer
<1>10. \A d \in {c} : Timely(d)'
  <2>1. Timely(c) /\ http'[c].timer_ \in {NULL, http[c].timer_}
    BY <1>1, <1>c, <1>2, <1>3, <1>t DEF TimeInv
  <2> QED BY <1>1, <1>c, <2>1 DEF Timely
<1>11. \A d \in {c} : Registered(d)'
  <2>1. Registered(c)
    BY <1>1, <1>c, <1>t DEF RegisteredInv
  <2>2. http'[c].is_error_ \/ ~Input(c)'
    BY <1>2, <1>3 DEF Input
  <2>3. "ONESHOT" \notin chan'[c].events_
    BY <1>4
  <2> QED BY <1>1, <1>c, <1>4, <2>1, <2>2, <2>3 DEF Registered, Reported
<1>12. \A d \in Conns \ {c} : /\ ErrorSeen(d)' /\ OneTimer(d)' /\ Timely(d)'
                              /\ fd_to_channel_'[d] => Registered(d)'
  BY <1>1, <1>c, <1>3, <1>4, <1>6, OthersKept
<1>13. ErrorInv' /\ LinkInv' /\ TimeInv' /\ RegisteredInv'
  BY <1>9, <1>10, <1>11, <1>12 DEF ErrorInv, LinkInv, TimeInv, RegisteredInv
<1> QED BY <1>7, <1>8, <1>13 DEF ConnectionInv

-----------------------------------------------------------------------------
(* The steps that only move the loop thread.                               *)

LEMMA QuietStep ==
  ASSUME ConnectionInv, UNCHANGED <<conn, epoll, sock, now>>,
         pc # "connect", pc' # "connect",
         \/ cur' = cur /\ result' = result
         \/ cur' = NULL /\ result' = result \ {cur} /\ ~fd_to_channel_[cur]
  PROVE  ErrorInv' /\ LinkInv' /\ TimeInv' /\ RegisteredInv'
<1>t. ErrorInv /\ LinkInv /\ TimeInv /\ RegisteredInv
  BY DEF ConnectionInv
<1>1. UNCHANGED <<life, http, chan, fd_to_channel_, timers, left, wrapped,
                  epoll, sock, now>>
  BY DEF conn, history
<1>2. ErrorInv' /\ TimeInv'
  BY <1>1, <1>t DEF ErrorInv, ErrorSeen, TimeInv, Timely
<1>3. LinkInv'
  BY <1>1, <1>t DEF LinkInv, OneTimer, Linked, Unlinked, Armed
<1>4. RegisteredInv'
  <2> SUFFICES ASSUME NEW d \in Conns, fd_to_channel_[d] PROVE Registered(d)'
    BY <1>1 DEF RegisteredInv
  <2>1. /\ Registered(d) /\ (d \in result' <=> d \in result)
        /\ (d \in result' \ {cur'} => d \in result \ {cur})
    BY <1>t DEF RegisteredInv
  <2> QED BY <1>1, <2>1 DEF Registered, Reported, Input
<1> QED BY <1>2, <1>3, <1>4

LEMMA ThreadConnectionInv ==
  /\ ConnectionInv
  /\ \/ handle_read_throws \/ use_freed \/ do_pending_functors
     \/ do_pending_functors_end \/ handle_expired_end
  => ConnectionInv'
<1> SUFFICES ASSUME ConnectionInv,
                    \/ handle_read_throws \/ use_freed \/ do_pending_functors
                    \/ do_pending_functors_end \/ handle_expired_end
             PROVE  ConnectionInv'
  OBVIOUS
<1>t. TypeOK /\ LoopInv
  BY DEF ConnectionInv
<1>1. UNCHANGED <<conn, epoll, sock, now>> /\ pc # "connect" /\ pc' # "connect"
  BY DEF handle_read_throws, use_freed, do_pending_functors,
         do_pending_functors_end, handle_expired_end, NextChannel
<1>2. /\ calls' \in 0..2 /\ functor_list' \subseteq Conns
      /\ \A c \in functor_list' : life[c] = "queued"
      /\ \/ /\ cur' = cur /\ result' = result
            /\ \/ pc' = "crashed" /\ cur # NULL
               \/ pc' \in {"functors", "expired", "poll"} /\ cur = NULL /\ result = {}
         \/ /\ cur' = NULL /\ result' = result \ {cur} /\ ~fd_to_channel_[cur]
            /\ pc' = "handle"
  <2>1. CASE handle_read_throws
    BY <1>t, <2>1 DEF handle_read_throws, TypeOK, LoopInv
  <2>2. CASE use_freed
    <3>1. pc = "freed" /\ cur \in Conns /\ ~fd_to_channel_[cur]
      BY <1>t, <2>2 DEF use_freed, TypeOK, LoopInv
    <3> QED BY <1>t, <2>2, <3>1 DEF use_freed, NextChannel, TypeOK, LoopInv
  <2>3. CASE do_pending_functors
    BY <1>t, <2>3 DEF do_pending_functors, TypeOK, LoopInv
  <2>4. CASE do_pending_functors_end
    BY <1>t, <2>4 DEF do_pending_functors_end, TypeOK, LoopInv
  <2>5. CASE handle_expired_end
    BY <1>t, <2>5 DEF handle_expired_end, TypeOK, LoopInv
  <2> QED BY <2>1, <2>2, <2>3, <2>4, <2>5
<1>3. UNCHANGED <<life, http, chan, fd_to_channel_, timers, left, wrapped,
                  epoll, sock, now>>
  BY <1>1 DEF conn, history
<1>4. TypeOK'
  <2>1. /\ pc' \in {"poll", "handle", "functors", "expired", "crashed"}
        /\ result' \subseteq Conns /\ cur' \in Conns \union {NULL}
    BY <1>2, <1>t DEF TypeOK
  <2>2. fd_to_channel_' \in [Conns -> BOOLEAN]
    BY <1>3, <1>t DEF TypeOK
  <2> QED BY <1>2, <1>3, <1>t, <2>1, <2>2 DEF TypeOK
<1>5. LoopInv'
  <2>1. /\ cur' = NULL <=> pc' \in {"poll", "handle", "functors", "expired"}
        /\ cur' # NULL => cur' \in result'
        /\ pc' \in {"poll", "functors", "expired"} => result' = {}
        /\ pc' \notin {"read", "connect", "freed"}
    BY <1>2, <1>t DEF LoopInv
  <2>2. \A c \in result' \ {cur'} : fd_to_channel_[c]
    BY <1>2, <1>t DEF LoopInv
  <2>3. \A c \in Conns : fd_to_channel_'[c] => life'[c] = "open" /\ epoll'[c].added
    BY <1>3, <1>t DEF LoopInv
  <2> QED BY <1>2, <1>3, <2>1, <2>2, <2>3 DEF LoopInv
<1>6. ErrorInv' /\ LinkInv' /\ TimeInv' /\ RegisteredInv'
  BY <1>1, <1>2, QuietStep
<1> QED BY <1>4, <1>5, <1>6 DEF ConnectionInv

-----------------------------------------------------------------------------
(* Registering a connection and modifying its registration.                *)

LEMMA UpdatedEvents ==
  ASSUME TypeOK, NEW c \in Conns, NEW events \in SUBSET Events,
         update_last_events(c, events)
  PROVE  /\ chan' \in [Conns -> ChannelType]
         /\ chan'[c].events_ = events /\ chan'[c].last_events_ = events
         /\ \A d \in Conns \ {c} : chan'[d] = chan[d]
<1> DEFINE new == [chan[c] EXCEPT !.events_ = events, !.last_events_ = events]
<1>1. chan \in [Conns -> ChannelType] /\ chan[c] \in ChannelType
  BY DEF TypeOK
<1>2. chan' = [chan EXCEPT ![c] = new]
  BY <1>1 DEF update_last_events
<1>3. new \in ChannelType /\ new.events_ = events /\ new.last_events_ = events
  BY <1>1 DEF ChannelType
<1>4. chan'[c] = new /\ \A d \in Conns \ {c} : chan'[d] = chan[d]
  BY <1>1, <1>2
<1> QED BY <1>1, <1>2, <1>3, <1>4

LEMMA ModifiedRegistration ==
  ASSUME TypeOK, NEW c \in Conns, NEW events \in SUBSET Events, Modify(c, events)
  PROVE  /\ epoll' \in [Conns -> RegistrationType]
         /\ epoll'[c].added = epoll[c].added /\ epoll'[c].interest = events
         /\ Mask(sock[c]) \cap Watched(events) # {} => epoll'[c].ready
         /\ \A d \in Conns \ {c} : epoll'[d] = epoll[d]
<1> DEFINE ready == epoll[c].ready \/ Mask(sock[c]) \cap Watched(events) # {}
           new == [epoll[c] EXCEPT !.interest = events, !.ready = ready]
<1>1. epoll \in [Conns -> RegistrationType] /\ epoll[c] \in RegistrationType
  BY DEF TypeOK
<1>2. epoll' = [epoll EXCEPT ![c] = new]
  BY <1>1 DEF Modify
<1>3. ready \in BOOLEAN
  OBVIOUS
<1>4. Mask(sock[c]) \cap Watched(events) # {} => ready
  OBVIOUS
<1> HIDE DEF ready
<1>5. /\ new \in RegistrationType /\ new.interest = events
      /\ new.added = epoll[c].added /\ new.ready = ready
  BY <1>1, <1>3 DEF RegistrationType
<1>6. epoll'[c] = new /\ \A d \in Conns \ {c} : epoll'[d] = epoll[d]
  BY <1>1, <1>2
<1> QED BY <1>1, <1>2, <1>4, <1>5, <1>6

\* Input is one of the events that a registration for input watches.
LEMMA InputIsReady ==
  ASSUME NEW c \in Conns, NEW events, "IN" \in events, Input(c)
  PROVE  Mask(sock[c]) \cap Watched(events) # {}
BY DEF Input, Mask, Watched

LEMMA NewEventConnectionInv ==
  ASSUME ConnectionInv, NEW c \in Conns, new_event(c)
  PROVE  ConnectionInv'
<1>t. TypeOK /\ LoopInv /\ ErrorInv /\ LinkInv
  BY DEF ConnectionInv
<1>1. /\ pc = "functors" /\ c \in functor_list /\ cur = NULL /\ result = {}
      /\ functor_list' = functor_list \ {c}
      /\ life' = [life EXCEPT ![c] = "open"]
      /\ add_timer(timers, c, DEFAULT_EXPIRED_TIME)
      /\ update_last_events(c, DEFAULT_EVENT)
      /\ UNCHANGED <<pc, result, cur, calls, sock, now>>
  BY <1>t DEF new_event, add_fd_in_epoll, LoopInv
<1>2. /\ life[c] = "queued" /\ ~fd_to_channel_[c]
      /\ \A t \in timers : t.Http_data_sptr # c
      /\ timers \in SUBSET TimerType
  BY <1>1, <1>t DEF LoopInv, LinkInv, OneTimer, Unlinked, Armed, TypeOK
<1>3. /\ timers' \in SUBSET TimerType /\ Linked(c)'
      /\ http' \in [Conns -> HttpDataType]
      /\ http'[c].timer_ = now + DEFAULT_EXPIRED_TIME
      /\ \A d \in Conns \ {c} : http'[d] = http[d]
      /\ \A d \in Conns \ {c} : Armed(d)' = TimersOf(timers, d)
      /\ http'[c].is_error_ = http[c].is_error_
      /\ http'[c].connection_state_ = http[c].connection_state_
      /\ http'[c].process_state_ = http[c].process_state_
      /\ left' \in [Conns -> Nat] /\ wrapped' \subseteq Conns
      /\ left'[c] = DEFAULT_EXPIRED_TIME /\ c \notin wrapped'
      /\ \A d \in Conns \ {c} : left'[d] = left[d] /\ (d \in wrapped' <=> d \in wrapped)
  <2>1. DEFAULT_EXPIRED_TIME \in Nat \ {0}
    BY ClockAssumption
  <2>2. PICK ts \in SUBSET TimerType : ts = timers
    BY <1>2
  <2>3. add_timer(ts, c, DEFAULT_EXPIRED_TIME)
    BY <1>1, <2>2 DEF add_timer
  <2>4. \A t \in ts : t.Http_data_sptr # c
    BY <1>2, <2>2
  <2>5. /\ timers' \in SUBSET TimerType /\ Linked(c)'
        /\ \A d \in Conns \ {c} : Armed(d)' = TimersOf(ts, d)
    BY <1>t, <2>1, <2>3, <2>4, AddedTimer
  <2>6. http' \in [Conns -> HttpDataType]
    BY <1>t, <2>1, <2>3, <2>4, AddedTimer
  <2>13. http'[c].timer_ = now + DEFAULT_EXPIRED_TIME
    <3>1. http' = [http EXCEPT ![c].timer_ = now + DEFAULT_EXPIRED_TIME]
      BY <2>3 DEF add_timer
    <3>2. http \in [Conns -> HttpDataType]
      BY <1>t DEF TypeOK
    <3> QED BY <3>1, <3>2 DEF HttpDataType
  <2>7. \A d \in Conns \ {c} : http'[d] = http[d]
    BY <1>t, <2>1, <2>3, <2>4, AddedTimer
  <2>8. /\ http'[c].is_error_ = http[c].is_error_
        /\ http'[c].connection_state_ = http[c].connection_state_
        /\ http'[c].process_state_ = http[c].process_state_
    BY <1>t, <2>1, <2>3, <2>4, AddedTimer
  <2>9. left' \in [Conns -> Nat] /\ wrapped' \subseteq Conns
    BY <1>t, <2>1, <2>3, <2>4, AddedTimer
  <2>11. left'[c] = DEFAULT_EXPIRED_TIME
    BY <1>t, <2>1, <2>3, <2>4, AddedTimer
  <2>12. c \notin wrapped'
    BY <1>t, <2>1, <2>3, <2>4, AddedTimer
  <2>10. \A d \in Conns \ {c} : left'[d] = left[d] /\ (d \in wrapped' <=> d \in wrapped)
    BY <1>t, <2>1, <2>3, <2>4, AddedTimer
  <2> QED BY <2>2, <2>5, <2>6, <2>7, <2>8, <2>9, <2>10, <2>11, <2>12, <2>13
<1>4. /\ chan' \in [Conns -> ChannelType]
      /\ chan'[c].last_events_ = DEFAULT_EVENT
      /\ \A d \in Conns \ {c} : chan'[d] = chan[d]
  <2>1. DEFAULT_EVENT \in SUBSET Events
    BY DEF DEFAULT_EVENT, Events
  <2> QED BY <1>1, <1>t, <2>1, UpdatedEvents
<1>5. /\ epoll' \in [Conns -> RegistrationType]
      /\ fd_to_channel_' \in [Conns -> BOOLEAN]
      /\ \A d \in Conns \ {c} : epoll'[d] = epoll[d] /\ fd_to_channel_'[d] = fd_to_channel_[d]
      /\ fd_to_channel_'[c] =>
           /\ epoll'[c].added /\ epoll'[c].interest = DEFAULT_EVENT
           /\ Mask(sock[c]) \cap Watched(DEFAULT_EVENT) # {} => epoll'[c].ready
  <2> DEFINE ready == Mask(sock[c]) \cap Watched(DEFAULT_EVENT) # {}
             new == [added |-> TRUE, interest |-> DEFAULT_EVENT, ready |-> ready]
  <2>1. /\ epoll \in [Conns -> RegistrationType]
        /\ fd_to_channel_ \in [Conns -> BOOLEAN]
    BY <1>t DEF TypeOK
  <2>2. \/ /\ epoll' = [epoll EXCEPT ![c] = new]
           /\ fd_to_channel_' = [fd_to_channel_ EXCEPT ![c] = TRUE]
        \/ UNCHANGED <<epoll, fd_to_channel_>>
    BY DEF new_event, add_fd_in_epoll
  <2>3. ready \in BOOLEAN
    OBVIOUS
  <2>4. DEFAULT_EVENT \in SUBSET Events
    BY DEF DEFAULT_EVENT, Events
  <2>5. new \in RegistrationType /\ new.interest = DEFAULT_EVENT /\ new.added
        /\ (ready => new.ready)
    <3> HIDE DEF ready
    <3> QED BY <2>3, <2>4, Zenon DEF RegistrationType
  <2> HIDE DEF new
  <2> QED BY <1>2, <2>1, <2>2, <2>5
<1>6. /\ life' \in [Conns -> {"new", "queued", "open", "closed"}]
      /\ life'[c] = "open" /\ \A d \in Conns \ {c} : life'[d] = life[d]
  BY <1>1, <1>t DEF TypeOK
<1>7. TypeOK'
  BY <1>1, <1>3, <1>4, <1>5, <1>6, <1>t DEF TypeOK
<1>8. LoopInv'
  <2>1. \A d \in functor_list' : life'[d] = "queued"
    BY <1>1, <1>6, <1>t DEF LoopInv, TypeOK
  <2>2. \A d \in Conns : fd_to_channel_'[d] => life'[d] = "open" /\ epoll'[d].added
    BY <1>5, <1>6, <1>t DEF LoopInv
  <2> QED BY <1>1, <2>1, <2>2, <1>t DEF LoopInv
<1>9. \A d \in {c} : ErrorSeen(d)' /\ OneTimer(d)'
  BY <1>1, <1>3, <1>6, <1>t DEF ErrorInv, ErrorSeen, OneTimer
<1>10. \A d \in {c} : Timely(d)'
  <2>1. now \in Nat /\ DEFAULT_EXPIRED_TIME \in Nat
    BY <1>t, ClockAssumption DEF TypeOK
  <2> QED BY <1>1, <1>3, <2>1 DEF Timely
<1>11. \A d \in {c} : fd_to_channel_'[d] => Registered(d)'
  <2> SUFFICES ASSUME fd_to_channel_'[c] PROVE Registered(c)'
    OBVIOUS
  <2>1. Input(c)' => epoll'[c].ready
    <3>1. "IN" \in DEFAULT_EVENT /\ (Input(c)' => Input(c))
      BY <1>1 DEF DEFAULT_EVENT, Input
    <3> QED BY <1>5, <3>1, InputIsReady
  <2>2. c \notin result' /\ c # cur'
    BY <1>1
  <2>3. ~({"IN", "OUT"} \subseteq DEFAULT_EVENT)
    BY DEF DEFAULT_EVENT
  <2> QED BY <1>4, <1>5, <2>1, <2>2, <2>3 DEF Registered, Reported
<1>12. \A d \in Conns \ {c} : /\ ErrorSeen(d)' /\ OneTimer(d)' /\ Timely(d)'
                              /\ fd_to_channel_'[d] => Registered(d)'
  <2>1. \A d \in Conns \ {c} : Armed(d)' = Armed(d) /\ d # cur /\ d # cur'
    BY <1>1, <1>3 DEF Armed, TimersOf
  <2> QED BY <1>1, <1>3, <1>4, <1>5, <1>6, <2>1, OthersKept
<1>13. ErrorInv' /\ LinkInv' /\ TimeInv' /\ RegisteredInv'
  BY <1>9, <1>10, <1>11, <1>12 DEF ErrorInv, LinkInv, TimeInv, RegisteredInv
<1> QED BY <1>7, <1>8, <1>13 DEF ConnectionInv

-----------------------------------------------------------------------------
(* HttpData::handle_connect().                                             *)

\* What holds when handle_connect() is called.
LEMMA ConnectFacts ==
  ASSUME ConnectionInv, pc = "connect"
  PROVE  /\ cur \in Conns /\ cur # NULL /\ cur \in result /\ result \subseteq Conns
         /\ calls \in {1, 2}
         /\ fd_to_channel_[cur] /\ life[cur] = "open" /\ epoll[cur].added
         /\ Linked(cur) \/ Unlinked(cur)
         /\ Registered(cur)
<1>1. TypeOK /\ LoopInv /\ LinkInv /\ RegisteredInv
  BY DEF ConnectionInv
<1>2. /\ cur \in Conns /\ cur # NULL /\ cur \in result /\ result \subseteq Conns
      /\ fd_to_channel_[cur] /\ calls \in {1, 2}
  BY <1>1 DEF TypeOK, LoopInv
<1>3. life[cur] = "open" /\ epoll[cur].added
  BY <1>1, <1>2 DEF LoopInv
<1> QED BY <1>1, <1>2, <1>3 DEF LinkInv, OneTimer, RegisteredInv

\* The events that handle_connect() registers: never one-shot, and for one
\* direction only.
LEMMA NewEvents ==
  ASSUME NEW events_ \in SUBSET Events, "ONESHOT" \notin events_
  PROVE  LET events == CASE events_ = {} -> {"IN"}
                         [] {"IN", "OUT"} \subseteq events_ -> {"OUT", "ET"}
                         [] OTHER -> events_ \union {"ET"}
         IN /\ events \in SUBSET Events /\ "ONESHOT" \notin events
            /\ ~({"IN", "OUT"} \subseteq events)
BY DEF Events

LEMMA ModifyFacts ==
  ASSUME ConnectionInv, handle_connect, NEW c \in Conns, c = cur
  PROVE  \E events \in SUBSET Events, timeout \in Nat \ {0} :
           /\ "ONESHOT" \notin events /\ ~({"IN", "OUT"} \subseteq events)
           /\ add_timer(Separated(c), c, timeout)
           /\ update_last_events(c, events)
           /\ \/ events = chan[c].last_events_ /\ epoll' = epoll
              \/ Modify(c, events)
<1> DEFINE events_ == chan[c].events_
           events == CASE events_ = {} -> {"IN"}
                       [] {"IN", "OUT"} \subseteq events_ -> {"OUT", "ET"}
                       [] OTHER -> events_ \union {"ET"}
           timeout == IF http[c].keep_alive_ THEN DEFAULT_KEEP_ALIVE_TIME
                                             ELSE DEFAULT_EXPIRED_TIME
<1>1. pc = "connect" /\ modify_fd_in_epoll(c, events, timeout)
  BY DEF handle_connect
<1>2. events_ \in SUBSET Events /\ "ONESHOT" \notin events_
  <2>1. Registered(c) /\ chan[c] \in ChannelType
    BY <1>1, ConnectFacts DEF ConnectionInv, TypeOK
  <2> QED BY <1>1, <2>1 DEF Registered, ChannelType
<1>3. /\ events \in SUBSET Events /\ "ONESHOT" \notin events
      /\ ~({"IN", "OUT"} \subseteq events)
  BY <1>2, NewEvents
<1>4. timeout \in Nat \ {0}
  BY ClockAssumption
<1>5. /\ add_timer(Separated(c), c, timeout)
      /\ update_last_events(c, events)
      /\ \/ events = chan[c].last_events_ /\ epoll' = epoll
         \/ Modify(c, events)
  BY <1>1 DEF modify_fd_in_epoll, Equal
<1> QED BY <1>3, <1>4, <1>5

LEMMA ConnectConnectionInv == ConnectionInv /\ handle_connect => ConnectionInv'
<1> SUFFICES ASSUME ConnectionInv, handle_connect PROVE ConnectionInv'
  OBVIOUS
<1>t. TypeOK /\ LoopInv /\ ErrorInv
  BY DEF ConnectionInv
<1>1. /\ pc = "connect" /\ Healthy(http[cur])
      /\ ConnectReturns
      /\ UNCHANGED <<functor_list, life, fd_to_channel_, sock, now>>
  BY DEF handle_connect
<1>c. PICK c \in Conns : c = cur
  BY <1>1, ConnectFacts
<1>2. /\ c # NULL /\ c \in result /\ result \subseteq Conns /\ calls \in {1, 2}
      /\ fd_to_channel_[c] /\ life[c] = "open" /\ epoll[c].added
      /\ Linked(c) \/ Unlinked(c)
      /\ Registered(c)
  BY <1>1, <1>c, ConnectFacts
<1>3. \/ pc' = pc /\ cur' = cur /\ result' = result /\ calls' = 1
      \/ pc' = "handle" /\ cur' = NULL /\ result' = result \ {c} /\ calls' = 0
  BY <1>1, <1>2, <1>c DEF ConnectReturns, NextChannel
<1>4. PICK events \in SUBSET Events, timeout \in Nat \ {0} :
        /\ "ONESHOT" \notin events /\ ~({"IN", "OUT"} \subseteq events)
        /\ add_timer(Separated(c), c, timeout)
        /\ update_last_events(c, events)
        /\ \/ events = chan[c].last_events_ /\ epoll' = epoll
           \/ Modify(c, events)
  BY <1>c, ModifyFacts
<1>5. /\ Separated(c) \subseteq TimerType
      /\ \A t \in Separated(c) : t.Http_data_sptr # c
      /\ \A d \in Conns \ {c} :
           {t \in Separated(c) : t.Http_data_sptr = d} = Armed(d)
  BY <1>2, <1>t, SeparatedTimers
<1>6. PICK ts \in SUBSET TimerType : ts = Separated(c)
  BY <1>5
<1>7. add_timer(ts, c, timeout) /\ \A t \in ts : t.Http_data_sptr # c
  BY <1>4, <1>5, <1>6 DEF add_timer
<1>8. timers' \in SUBSET TimerType /\ Linked(c)'
  BY <1>t, <1>7, AddedTimer
<1>9. \A d \in Conns \ {c} : Armed(d)' = Armed(d)
  <2>1. \A d \in Conns \ {c} : Armed(d)' = TimersOf(ts, d)
    BY <1>t, <1>7, AddedTimer
  <2> QED BY <1>5, <1>6, <2>1 DEF TimersOf
<1>h. http' \in [Conns -> HttpDataType]
  BY <1>t, <1>7, AddedTimer
<1>10. http'[c].timer_ = now + timeout
  BY <1>t, <1>7, AddedTimer
<1>11. \A d \in Conns \ {c} : http'[d] = http[d]
  BY <1>t, <1>7, AddedTimer
<1>12. /\ http'[c].is_error_ = http[c].is_error_
       /\ http'[c].connection_state_ = http[c].connection_state_
       /\ http'[c].process_state_ = http[c].process_state_
  BY <1>t, <1>7, AddedTimer
<1>13. left' \in [Conns -> Nat] /\ wrapped' \subseteq Conns
  BY <1>t, <1>7, AddedTimer
<1>14. left'[c] = timeout
  BY <1>t, <1>7, AddedTimer
<1>15. \A d \in Conns \ {c} : left'[d] = left[d] /\ (d \in wrapped' <=> d \in wrapped)
  BY <1>t, <1>7, AddedTimer
<1>16. /\ chan' \in [Conns -> ChannelType]
       /\ chan'[c].events_ = events /\ chan'[c].last_events_ = events
       /\ \A d \in Conns \ {c} : chan'[d] = chan[d]
  BY <1>4, <1>t, UpdatedEvents
\* The registration is the one for the new events, and it has been examined
\* since the handlers last read.
<1>17. /\ epoll' \in [Conns -> RegistrationType]
       /\ epoll'[c].added /\ epoll'[c].interest = events
       /\ "IN" \in events /\ Input(c) => epoll'[c].ready
       /\ \A d \in Conns \ {c} : epoll'[d] = epoll[d]
  <2>1. CASE Modify(c, events)
    BY <1>2, <1>t, <2>1, ModifiedRegistration, InputIsReady
  <2>2. CASE events = chan[c].last_events_ /\ epoll' = epoll
    <3>1. "ONESHOT" \notin chan[c].last_events_ /\ "ONESHOT" \in DEFAULT_EVENT
      BY <1>4, <2>2 DEF DEFAULT_EVENT
    <3>2. ~http[c].is_error_
      BY <1>1, <1>c DEF Healthy
    <3>3. epoll[c].interest = events /\ Reported(c)
      BY <1>1, <1>2, <1>c, <2>2, <3>1, <3>2 DEF Registered
    <3> QED BY <1>2, <1>t, <2>2, <3>3 DEF TypeOK, Reported
  <2> QED BY <1>4, <2>1, <2>2
<1>18. TypeOK'
  <2>1. /\ pc' \in {"connect", "handle"} /\ cur' \in Conns \union {NULL}
        /\ result' \subseteq Conns /\ calls' \in 0..2
    BY <1>1, <1>2, <1>3, <1>c
  <2>2. fd_to_channel_' \in [Conns -> BOOLEAN]
    BY <1>1, <1>t DEF TypeOK
  <2> QED BY <1>1, <1>8, <1>h, <1>13, <1>16, <1>17, <1>t, <2>1, <2>2 DEF TypeOK
<1>19. LoopInv'
  <2>1. /\ cur' = NULL <=> pc' \in {"poll", "handle", "functors", "expired"}
        /\ cur' # NULL => cur' \in result'
        /\ pc' \in {"read", "connect"} => fd_to_channel_'[cur'] /\ calls' > 0
        /\ pc' \notin {"freed", "poll", "functors", "expired"}
    BY <1>1, <1>2, <1>3, <1>c
  <2>2. \A d \in result' \ {cur'} : fd_to_channel_'[d]
    BY <1>1, <1>2, <1>3, <1>c, <1>t DEF LoopInv
  <2>3. \A d \in Conns : fd_to_channel_'[d] => life'[d] = "open" /\ epoll'[d].added
    BY <1>1, <1>2, <1>17, <1>t DEF LoopInv
  <2>4. \A d \in functor_list' : life'[d] = "queued"
    BY <1>1, <1>t DEF LoopInv
  <2> QED BY <2>1, <2>2, <2>3, <2>4 DEF LoopInv
<1>20. \A d \in {c} : ErrorSeen(d)' /\ OneTimer(d)'
  <2>1. ErrorSeen(c) /\ ~http[c].is_error_
    BY <1>1, <1>c, <1>t DEF ErrorInv, Healthy
  <2>2. \A d \in {c} : Linked(d)'
    BY <1>8 DEF Linked, Armed
  <2> QED BY <1>12, <2>1, <2>2, <1>1, <1>2 DEF ErrorSeen, OneTimer
<1>21. \A d \in {c} : Timely(d)'
  <2>1. now \in Nat
    BY <1>t, ClockAssumption DEF TypeOK
  <2> QED BY <1>1, <1>10, <1>14, <2>1 DEF Timely
<1>22. \A d \in {c} : Registered(d)'
  <2>1. \A d \in {c} : Reported(d)'
    BY <1>1, <1>16, <1>17 DEF Reported, Input
  <2>2. c = cur' \/ c \notin result'
    BY <1>3, <1>c
  <2> QED BY <1>4, <1>16, <1>17, <2>1, <2>2 DEF Registered
<1>23. \A d \in Conns \ {c} : /\ ErrorSeen(d)' /\ OneTimer(d)' /\ Timely(d)'
                              /\ fd_to_channel_'[d] => Registered(d)'
  <2>1. \A d \in Conns \ {c} : d # cur /\ d # cur' /\ (d \in result' <=> d \in result)
    BY <1>2, <1>3, <1>c
  <2> QED BY <1>1, <1>9, <1>11, <1>15, <1>16, <1>17, <2>1, OthersKept
<1>24. ErrorInv' /\ LinkInv' /\ TimeInv' /\ RegisteredInv'
  BY <1>20, <1>21, <1>22, <1>23 DEF ErrorInv, LinkInv, TimeInv, RegisteredInv
<1> QED BY <1>18, <1>19, <1>24 DEF ConnectionInv

\* Both ways to close a connection end with the object gone; it is used again
\* when the write handler made the call, or after a shutdown.
LEMMA CloseStep ==
  ASSUME ConnectionInv, handle_connect_shutdown \/ handle_connect_error
  PROVE  /\ pc = "connect" /\ timers' = Separated(cur) /\ handle_close(cur)
         /\ functor_list' = functor_list /\ now' = now
         /\ \/ pc' = "freed" /\ result' = result /\ cur' = cur /\ calls' = calls
            \/ /\ pc' = "handle" /\ result' = result \ {cur}
               /\ cur' = NULL /\ calls' = 0
<1>1. CASE handle_connect_shutdown
  BY <1>1 DEF handle_connect_shutdown
<1>2. CASE handle_connect_error
  <2>1. pc = "connect" /\ ~Healthy(http[cur])
    BY <1>2 DEF handle_connect_error
  <2>2. http[cur].is_error_
    <3>1. cur \in Conns
      BY <2>1, ConnectFacts
    <3>2. http[cur] \in HttpDataType /\ ErrorSeen(cur)
      BY <3>1 DEF ConnectionInv, TypeOK, ErrorInv
    <3> QED BY <2>1, <3>2 DEF Healthy, HttpDataType, ErrorSeen
  <2> QED BY <1>2, <2>1, <2>2 DEF handle_connect_error, NextChannel
<1> QED BY <1>1, <1>2

LEMMA CloseStepConnectionInv ==
  ConnectionInv /\ (handle_connect_shutdown \/ handle_connect_error)
    => ConnectionInv'
<1> SUFFICES ASSUME ConnectionInv, handle_connect_shutdown \/ handle_connect_error
             PROVE  ConnectionInv'
  OBVIOUS
<1>t. TypeOK /\ LoopInv
  BY DEF ConnectionInv
<1>1. /\ pc = "connect" /\ timers' = Separated(cur) /\ handle_close(cur)
      /\ functor_list' = functor_list /\ now' = now
      /\ \/ pc' = "freed" /\ result' = result /\ cur' = cur /\ calls' = calls
         \/ /\ pc' = "handle" /\ result' = result \ {cur}
            /\ cur' = NULL /\ calls' = 0
  BY CloseStep
<1>c. PICK c \in Conns : c = cur
  BY <1>1, ConnectFacts
<1>2. /\ c # NULL /\ c \in result /\ result \subseteq Conns
      /\ life[c] = "open" /\ (Linked(c) \/ Unlinked(c))
  BY <1>1, <1>c, ConnectFacts
<1>3. handle_close(c)
  BY <1>1, <1>c DEF handle_close, delete_fd_in_epoll
<1>4. /\ Separated(c) \subseteq TimerType
      /\ \A t \in Separated(c) : t.Http_data_sptr # c
      /\ \A d \in Conns \ {c} :
           {t \in Separated(c) : t.Http_data_sptr = d} = Armed(d)
  BY <1>2, <1>t, SeparatedTimers
<1>5. /\ timers' \subseteq TimerType
      /\ \A t \in timers' : t.Http_data_sptr # c
      /\ \A d \in Conns \ {c} : Armed(d)' = Armed(d)
  <2>1. timers' = Separated(c)
    BY <1>1, <1>c
  <2> QED BY <1>4, <2>1 DEF Armed
<1>6. /\ fd_to_channel_' \in [Conns -> BOOLEAN]
      /\ life' \in [Conns -> {"new", "queued", "open", "closed"}]
      /\ http' \in [Conns -> HttpDataType]
      /\ chan' \in [Conns -> ChannelType]
      /\ epoll' \in [Conns -> RegistrationType]
      /\ sock' \in [Conns -> SocketType]
      /\ left' \in [Conns -> Nat]
      /\ wrapped' \subseteq Conns
  BY <1>3, <1>t, CloseFacts
<1>7. /\ life'[c] = "closed" /\ ~fd_to_channel_'[c]
      /\ \A d \in Conns \ {c} : /\ life'[d] = life[d]
                                /\ fd_to_channel_'[d] = fd_to_channel_[d]
                                /\ epoll'[d] = epoll[d]
  BY <1>3, <1>t, CloseFacts
<1>8. TypeOK'
  <2>1. /\ pc' \in {"freed", "handle"} /\ cur' \in Conns \union {NULL}
        /\ result' \subseteq Conns /\ calls' \in 0..2
    BY <1>1, <1>2, <1>t DEF TypeOK
  <2> QED BY <1>1, <1>5, <1>6, <1>t, <2>1 DEF TypeOK
<1>9. LoopInv'
  <2>1. /\ cur' = NULL <=> pc' \in {"poll", "handle", "functors", "expired"}
        /\ cur' # NULL => cur' \in result'
        /\ pc' = "freed" => life'[cur'] = "closed"
        /\ pc' \notin {"read", "connect", "poll", "functors", "expired"}
    BY <1>1, <1>2, <1>7, <1>c
  <2>2. \A d \in result' \ {cur'} : fd_to_channel_'[d]
    BY <1>1, <1>2, <1>7, <1>c, <1>t DEF LoopInv
  <2>3. \A d \in Conns : fd_to_channel_'[d] => life'[d] = "open" /\ epoll'[d].added
    BY <1>7, <1>t DEF LoopInv
  <2>4. \A d \in functor_list' : life'[d] = "queued"
    BY <1>1, <1>2, <1>7, <1>t DEF LoopInv, TypeOK
  <2> QED BY <2>1, <2>2, <2>3, <2>4 DEF LoopInv
<1>10. LinkInv' /\ ErrorInv' /\ TimeInv' /\ RegisteredInv'
  <2>1. /\ result' \in {result, result \ {c}} /\ cur' \in {cur, NULL}
        /\ c \in result' => c = cur'
        /\ cur' = NULL => c \notin result'
        /\ pc' # "connect" /\ now' = now
    BY <1>1, <1>c
  <2> QED BY <1>1, <1>3, <1>5, <1>c, <2>1, CloseConnectionInv
<1> QED BY <1>8, <1>9, <1>10 DEF ConnectionInv

-----------------------------------------------------------------------------
(* TimerPQueue::handle_expired_event().                                    *)

\* The top of the queue is popped: one that is deleted belongs to nobody, any
\* other is the only timer of the connection it closes.
LEMMA ExpiredConnectionInv == ConnectionInv /\ handle_expired_event => ConnectionInv'
<1> SUFFICES ASSUME ConnectionInv, handle_expired_event PROVE ConnectionInv'
  OBVIOUS
<1>t. TypeOK /\ LoopInv /\ ErrorInv /\ LinkInv /\ TimeInv /\ RegisteredInv
  BY DEF ConnectionInv
<1>1. /\ pc = "expired" /\ cur = NULL /\ result = {}
      /\ UNCHANGED <<pc, result, cur, calls, functor_list, now>>
  BY <1>t DEF handle_expired_event, loopvars, LoopInv
<1>2. PICK t \in timers :
        /\ timers' = timers \ {t}
        /\ IF is_deleted(t)
           THEN UNCHANGED <<life, http, chan, fd_to_channel_, epoll, sock, history>>
           ELSE handle_close(t.Http_data_sptr)
  BY DEF handle_expired_event, Top
<1>3. t \in TimerType /\ timers' \subseteq TimerType
  BY <1>2, <1>t DEF TypeOK
<1>4. CASE is_deleted(t)
  <2>1. UNCHANGED <<life, http, chan, fd_to_channel_, epoll, sock, left, wrapped>>
    BY <1>2, <1>4 DEF history
  <2>2. \A d \in Conns : Armed(d)' = Armed(d)
    BY <1>2, <1>4 DEF Armed, is_deleted
  <2>3. TypeOK'
    <3>1. fd_to_channel_' \in [Conns -> BOOLEAN]
      BY <1>t, <2>1 DEF TypeOK
    <3> QED BY <1>1, <1>3, <1>t, <2>1, <3>1 DEF TypeOK
  <2>4. LoopInv' /\ ErrorInv' /\ TimeInv'
    BY <1>1, <1>t, <2>1 DEF LoopInv, ErrorInv, ErrorSeen, TimeInv, Timely
  <2>5. LinkInv'
    BY <1>1, <1>t, <2>1, <2>2 DEF LinkInv, OneTimer, Linked, Unlinked
  <2>6. RegisteredInv'
    BY <1>1, <1>t, <2>1 DEF RegisteredInv, Registered, Reported, Input
  <2> QED BY <2>3, <2>4, <2>5, <2>6 DEF ConnectionInv
<1>5. CASE ~is_deleted(t)
  <2>1. PICK c \in Conns : c = t.Http_data_sptr /\ handle_close(c)
    BY <1>2, <1>3, <1>5 DEF TimerType, is_deleted, handle_close, delete_fd_in_epoll
  <2>2. t \in Armed(c)
    BY <1>2, <2>1 DEF Armed
  <2>3. life[c] = "open" /\ Linked(c)
    BY <1>1, <1>t, <2>2 DEF LinkInv, OneTimer, Unlinked
  <2>4. Armed(c) = {t}
    BY <2>2, <2>3 DEF Linked
  <2>5. /\ \A u \in timers' : u.Http_data_sptr # c
        /\ \A d \in Conns \ {c} : Armed(d)' = Armed(d)
    BY <1>2, <2>1, <2>4 DEF Armed
  <2>6. /\ fd_to_channel_' \in [Conns -> BOOLEAN]
        /\ life' \in [Conns -> {"new", "queued", "open", "closed"}]
        /\ http' \in [Conns -> HttpDataType]
        /\ chan' \in [Conns -> ChannelType]
        /\ epoll' \in [Conns -> RegistrationType]
        /\ sock' \in [Conns -> SocketType]
        /\ left' \in [Conns -> Nat]
        /\ wrapped' \subseteq Conns
    BY <1>t, <2>1, CloseFacts
  <2>7. /\ life'[c] = "closed" /\ ~fd_to_channel_'[c]
        /\ \A d \in Conns \ {c} : /\ life'[d] = life[d]
                                  /\ fd_to_channel_'[d] = fd_to_channel_[d]
                                  /\ epoll'[d] = epoll[d]
    BY <1>t, <2>1, CloseFacts
  <2>8. TypeOK'
    BY <1>1, <1>3, <1>t, <2>6 DEF TypeOK
  <2>9. LoopInv'
    <3>1. \A d \in Conns : fd_to_channel_'[d] => life'[d] = "open" /\ epoll'[d].added
      BY <1>t, <2>7 DEF LoopInv
    <3>2. \A d \in functor_list' : life'[d] = "queued"
      BY <1>1, <1>t, <2>3, <2>7 DEF LoopInv, TypeOK
    <3> QED BY <1>1, <1>t, <3>1, <3>2 DEF LoopInv
  <2>10. LinkInv' /\ ErrorInv' /\ TimeInv' /\ RegisteredInv'
    <3>1. c # cur /\ c \notin result'
      BY <1>1
    <3> QED BY <1>1, <2>1, <2>5, <3>1, CloseConnectionInv
  <2> QED BY <2>8, <2>9, <2>10 DEF ConnectionInv
<1> QED BY <1>4, <1>5

-----------------------------------------------------------------------------
(* The environment.                                                        *)

LEMMA AcceptConnectionInv ==
  ASSUME ConnectionInv, NEW c \in Conns, Accept(c)
  PROVE  ConnectionInv'
<1>t. TypeOK /\ LoopInv /\ ErrorInv /\ LinkInv /\ TimeInv /\ RegisteredInv
  BY DEF ConnectionInv
<1>1. /\ life[c] = "new" /\ life' = [life EXCEPT ![c] = "queued"]
      /\ UNCHANGED <<pc, result, cur, calls, functor_list, http, chan,
                     fd_to_channel_, timers, epoll, sock, now, left, wrapped>>
  BY DEF Accept, loopvars, history
<1>2. /\ life' \in [Conns -> {"new", "queued", "open", "closed"}]
      /\ life'[c] = "queued" /\ \A d \in Conns \ {c} : life'[d] = life[d]
  BY <1>1, <1>t DEF TypeOK
<1>3. TypeOK'
  <2>1. fd_to_channel_' \in [Conns -> BOOLEAN]
    BY <1>1, <1>t DEF TypeOK
  <2> QED BY <1>1, <1>2, <1>t, <2>1 DEF TypeOK
<1>4. LoopInv'
  <2>1. pc = "freed" => cur \in Conns \ {c}
    BY <1>1, <1>t DEF LoopInv, TypeOK
  <2>2. \A d \in Conns : fd_to_channel_[d] => d # c
    BY <1>1, <1>t DEF LoopInv
  <2>3. \A d \in functor_list : d \in Conns \ {c}
    BY <1>1, <1>t DEF LoopInv, TypeOK
  <2> QED BY <1>1, <1>2, <1>t, <2>1, <2>2, <2>3 DEF LoopInv
<1>5. ErrorInv' /\ RegisteredInv'
  BY <1>1, <1>t DEF ErrorInv, ErrorSeen, RegisteredInv, Registered, Reported, Input
<1>6. LinkInv' /\ TimeInv'
  <2>1. \A d \in Conns : /\ (Linked(d)' <=> Linked(d)) /\ (Unlinked(d)' <=> Unlinked(d))
                         /\ (life'[d] = "open" <=> life[d] = "open")
    BY <1>1, <1>2 DEF Linked, Unlinked, Armed
  <2>2. LinkInv'
    BY <1>1, <1>t, <2>1 DEF LinkInv, OneTimer
  <2>3. TimeInv'
    BY <1>1, <1>t, <2>1 DEF TimeInv, Timely
  <2> QED BY <2>2, <2>3
<1> QED BY <1>3, <1>4, <1>5, <1>6 DEF ConnectionInv

LEMMA EdgeFacts ==
  ASSUME TypeOK, NEW c \in Conns, NEW events, Edge(c, events)
  PROVE  /\ epoll' \in [Conns -> RegistrationType]
         /\ epoll'[c].added = epoll[c].added
         /\ epoll'[c].interest = epoll[c].interest
         /\ epoll[c].ready => epoll'[c].ready
         /\ epoll[c].added /\ events \cap Watched(epoll[c].interest) # {}
              => epoll'[c].ready
         /\ \A d \in Conns \ {c} : epoll'[d] = epoll[d]
<1> DEFINE ready == \/ epoll[c].ready
                    \/ epoll[c].added /\ events \cap Watched(epoll[c].interest) # {}
           new == [epoll[c] EXCEPT !.ready = ready]
<1>1. epoll \in [Conns -> RegistrationType] /\ epoll[c] \in RegistrationType
  BY DEF TypeOK
<1>2. epoll' = [epoll EXCEPT ![c] = new]
  BY <1>1 DEF Edge
<1>3. /\ ready \in BOOLEAN /\ (epoll[c].ready => ready)
      /\ epoll[c].added /\ events \cap Watched(epoll[c].interest) # {} => ready
  OBVIOUS
<1> HIDE DEF ready
<1>4. /\ new \in RegistrationType /\ new.interest = epoll[c].interest
      /\ new.added = epoll[c].added /\ new.ready = ready
  BY <1>1, <1>3 DEF RegistrationType
<1>5. epoll'[c] = new /\ \A d \in Conns \ {c} : epoll'[d] = epoll[d]
  BY <1>1, <1>2
<1> QED BY <1>1, <1>2, <1>3, <1>4, <1>5

\* The client changes a socket: what it adds to the input is an edge, and a
\* reset stays.
LEMMA SocketStep ==
  ASSUME ConnectionInv, NEW c \in Conns, NEW s \in SocketType, NEW events,
         sock' = [sock EXCEPT ![c] = s], Edge(c, events),
         UNCHANGED <<loopvars, conn, now>>,
         sock[c].rst => s.rst,
         Input(c)' => Input(c) \/ (~sock[c].rst /\ "IN" \in events)
  PROVE  ConnectionInv'
<1>t. TypeOK /\ LoopInv /\ ErrorInv /\ LinkInv /\ TimeInv /\ RegisteredInv
  BY DEF ConnectionInv
<1>1. UNCHANGED <<pc, result, cur, calls, functor_list, life, http, chan,
                  fd_to_channel_, timers, now, left, wrapped>>
  BY DEF loopvars, conn, history
<1>2. /\ sock' \in [Conns -> SocketType] /\ sock'[c] = s
      /\ \A d \in Conns \ {c} : sock'[d] = sock[d]
  BY <1>t DEF TypeOK
<1>3. /\ epoll' \in [Conns -> RegistrationType]
      /\ epoll'[c].added = epoll[c].added
      /\ epoll'[c].interest = epoll[c].interest
      /\ epoll[c].ready => epoll'[c].ready
      /\ epoll[c].added /\ events \cap Watched(epoll[c].interest) # {}
           => epoll'[c].ready
      /\ \A d \in Conns \ {c} : epoll'[d] = epoll[d]
  BY <1>t, EdgeFacts
<1>4. TypeOK'
  <2>1. fd_to_channel_' \in [Conns -> BOOLEAN]
    BY <1>1, <1>t DEF TypeOK
  <2> QED BY <1>1, <1>2, <1>3, <1>t, <2>1 DEF TypeOK
<1>5. LoopInv'
  <2>1. \A d \in Conns : epoll'[d].added = epoll[d].added
    BY <1>3
  <2> QED BY <1>1, <1>t, <2>1 DEF LoopInv
<1>6. ErrorInv' /\ TimeInv'
  BY <1>1, <1>t DEF ErrorInv, ErrorSeen, TimeInv, Timely
<1>7. LinkInv'
  BY <1>1, <1>t DEF LinkInv, OneTimer, Linked, Unlinked, Armed
<1>8. ASSUME NEW d \in Conns, fd_to_channel_[d] PROVE Registered(d)'
  <2>1. Registered(d)
    BY <1>8, <1>t DEF RegisteredInv
  <2>2. CASE d # c
    BY <1>1, <1>2, <1>3, <2>1, <2>2 DEF Registered, Reported, Input
  <2>3. CASE d = c
    <3>1. epoll[c].added
      BY <1>8, <1>t, <2>3 DEF LoopInv
    <3>2. ASSUME epoll[c].interest = chan[c].last_events_ \/ sock[c].rst, Reported(c)
          PROVE  Reported(c)'
      <4> SUFFICES ASSUME "IN" \in chan[c].last_events_, Input(c)'
                   PROVE  epoll'[c].ready
        BY <1>1 DEF Reported
      <4>1. CASE Input(c)
        BY <1>3, <3>2, <4>1 DEF Reported
      <4>2. CASE ~sock[c].rst /\ "IN" \in events
        <5>1. "IN" \in events \cap Watched(epoll[c].interest)
          BY <3>2, <4>2 DEF Watched
        <5> QED BY <1>3, <3>1, <5>1
      <4> QED BY <4>1, <4>2
    <3>3. sock[c].rst => sock'[c].rst
      BY <1>2
    <3>4. c \notin result => Reported(c)'
      BY <2>1, <2>3, <3>2 DEF Registered
    <3>5. c = cur /\ pc = "connect" =>
            "ONESHOT" \in chan[c].last_events_ \/ http[c].is_error_ \/ Reported(c)'
      <4>1. "ONESHOT" \in DEFAULT_EVENT
        BY DEF DEFAULT_EVENT
      <4> QED BY <2>1, <2>3, <3>2, <4>1 DEF Registered
    <3> QED BY <1>1, <1>3, <2>1, <2>3, <3>3, <3>4, <3>5 DEF Registered
  <2> QED BY <2>2, <2>3
<1>9. RegisteredInv'
  BY <1>1, <1>8 DEF RegisteredInv
<1> QED BY <1>4, <1>5, <1>6, <1>7, <1>9 DEF ConnectionInv

LEMMA ClientConnectionInv ==
  ASSUME ConnectionInv, NEW c \in Conns, Client(c)
  PROVE  ConnectionInv'
<1>1. sock \in [Conns -> SocketType] /\ sock[c] \in SocketType
  BY DEF ConnectionInv, TypeOK
<1>2. CASE Accept(c)
  BY <1>2, AcceptConnectionInv
<1>3. CASE ClientSends(c)
  <2> DEFINE s == [sock[c] EXCEPT !.unread = TRUE]
  <2>1. /\ s \in SocketType /\ s.fin = sock[c].fin /\ s.rst = sock[c].rst
    BY <1>1 DEF SocketType
  <2>2. /\ sock' = [sock EXCEPT ![c] = s] /\ ~sock[c].rst /\ Edge(c, {"IN"})
        /\ UNCHANGED <<loopvars, conn, now>>
    BY <1>1, <1>3 DEF ClientSends, Connected
  <2>3. PICK new \in SocketType : new = s
    BY <2>1
  <2> HIDE DEF s
  <2> QED BY <2>1, <2>2, <2>3, SocketStep
<1>4. CASE ClientCloses(c)
  <2> DEFINE s == [sock[c] EXCEPT !.fin = TRUE]
  <2>1. /\ s \in SocketType /\ s.unread = sock[c].unread /\ s.rst = sock[c].rst
    BY <1>1 DEF SocketType
  <2>2. /\ sock' = [sock EXCEPT ![c] = s] /\ ~sock[c].rst /\ Edge(c, {"IN"})
        /\ UNCHANGED <<loopvars, conn, now>>
    BY <1>1, <1>4 DEF ClientCloses, Connected
  <2>3. PICK new \in SocketType : new = s
    BY <2>1
  <2> HIDE DEF s
  <2> QED BY <2>1, <2>2, <2>3, SocketStep
<1>5. CASE ClientResets(c)
  <2>1. /\ sock' = [sock EXCEPT ![c] = ResetSocket]
        /\ ~sock[c].rst /\ Edge(c, {"IN", "ERR", "HUP"})
        /\ UNCHANGED <<loopvars, conn, now>>
    BY <1>5 DEF ClientResets, Connected
  <2> QED BY <2>1, NewObjects, SocketStep
<1>6. CASE ClientReads(c)
  <2> DEFINE s == [sock[c] EXCEPT !.full = FALSE]
  <2>1. /\ s \in SocketType /\ s.unread = sock[c].unread
        /\ s.fin = sock[c].fin /\ s.rst = sock[c].rst
    BY <1>1 DEF SocketType
  <2>2. /\ sock' = [sock EXCEPT ![c] = s] /\ Edge(c, {"OUT"})
        /\ UNCHANGED <<loopvars, conn, now>>
    BY <1>1, <1>6 DEF ClientReads
  <2>3. PICK new \in SocketType : new = s
    BY <2>1
  <2>4. sock'[c] = s
    BY <1>1, <2>2
  <2>5. Input(c)' => Input(c)
    BY <2>1, <2>4 DEF Input
  <2> HIDE DEF s
  <2> QED BY <2>1, <2>2, <2>3, <2>5, SocketStep
<1> QED BY <1>2, <1>3, <1>4, <1>5, <1>6 DEF Client

\* A tick brings the clock nearer to the time of every timer; when it wraps
\* around, it moves away from it.
LEMMA TickConnectionInv == ConnectionInv /\ Tick => ConnectionInv'
<1> SUFFICES ASSUME ConnectionInv, Tick PROVE ConnectionInv'
  OBVIOUS
<1>t. TypeOK /\ LoopInv /\ ErrorInv /\ LinkInv /\ TimeInv /\ RegisteredInv
  BY DEF ConnectionInv
<1>1. /\ now' = (now + 1) % Wrap
      /\ left' = [c \in Conns |-> IF left[c] > 0 THEN left[c] - 1 ELSE 0]
      /\ wrapped' = IF now + 1 = Wrap
                    THEN wrapped \union {c \in Conns : life[c] = "open"}
                    ELSE wrapped
      /\ UNCHANGED <<pc, result, cur, calls, functor_list, life, http, chan,
                     fd_to_channel_, timers, epoll, sock>>
  BY DEF Tick, loopvars
<1>2. now \in Nat /\ Wrap \in Nat \ {0} /\ now < Wrap
  BY <1>t, ClockAssumption DEF TypeOK
<1>3. now' = IF now + 1 = Wrap THEN 0 ELSE now + 1
  BY <1>1, <1>2
<1>4. /\ left \in [Conns -> Nat] /\ left' \in [Conns -> Nat]
      /\ \A c \in Conns : left'[c] = IF left[c] > 0 THEN left[c] - 1 ELSE 0
      /\ now' \in 0..(Wrap - 1) /\ wrapped' \subseteq Conns
  BY <1>1, <1>2, <1>3, <1>t DEF TypeOK
<1>5. TypeOK'
  <2>1. fd_to_channel_' \in [Conns -> BOOLEAN]
    BY <1>1, <1>t DEF TypeOK
  <2> QED BY <1>1, <1>4, <1>t, <2>1 DEF TypeOK
<1>6. LoopInv' /\ ErrorInv'
  BY <1>1, <1>t DEF LoopInv, ErrorInv, ErrorSeen
<1>7. LinkInv'
  BY <1>1, <1>t DEF LinkInv, OneTimer, Linked, Unlinked, Armed
<1>8. RegisteredInv'
  BY <1>1, <1>t DEF RegisteredInv, Registered, Reported, Input
<1>9. TimeInv'
  <2> SUFFICES ASSUME NEW c \in Conns, life[c] = "open", http[c].timer_ # NULL
               PROVE  /\ left'[c] <= IF now' < http[c].timer_
                                     THEN http[c].timer_ - now' ELSE 0
                      /\ c \notin wrapped' => http[c].timer_ <= now' + left'[c]
    BY <1>1 DEF TimeInv, Timely
  <2>1. http[c].timer_ \in Nat
    BY <1>t DEF TypeOK, HttpDataType
  <2>2. /\ left[c] <= IF now < http[c].timer_ THEN http[c].timer_ - now ELSE 0
        /\ c \notin wrapped => http[c].timer_ <= now + left[c]
    BY <1>t DEF TimeInv, Timely
  <2>3. left[c] \in Nat /\ left'[c] = IF left[c] > 0 THEN left[c] - 1 ELSE 0
    BY <1>4
  <2>4. CASE now + 1 = Wrap
    <3>1. now' = 0 /\ c \in wrapped'
      BY <1>1, <1>3, <2>4
    <3> QED BY <1>2, <2>1, <2>2, <2>3, <3>1
  <2>5. CASE now + 1 # Wrap
    <3>1. now' = now + 1 /\ wrapped' = wrapped
      BY <1>1, <1>3, <2>5
    <3> QED BY <1>2, <2>1, <2>2, <2>3, <3>1
  <2> QED BY <2>4, <2>5
<1> QED BY <1>5, <1>6, <1>7, <1>8, <1>9 DEF ConnectionInv

-----------------------------------------------------------------------------
(* The theorems.                                                           *)

LEMMA NextConnectionInv == ConnectionInv /\ [Next]_vars => ConnectionInv'
<1> SUFFICES ASSUME ConnectionInv, [Next]_vars PROVE ConnectionInv'
  OBVIOUS
<1>1. CASE poll
  BY <1>1, PollConnectionInv
<1>2. ASSUME NEW c \in Conns, handle_events(c) \/ new_event(c)
      PROVE  ConnectionInv'
  BY <1>2, EventsConnectionInv, NewEventConnectionInv
<1>3. CASE handle_read
  BY <1>3, ReadConnectionInv
<1>4. CASE \/ handle_read_throws \/ use_freed \/ do_pending_functors
           \/ do_pending_functors_end \/ handle_expired_end
  BY <1>4, ThreadConnectionInv
<1>5. CASE handle_connect
  BY <1>5, ConnectConnectionInv
<1>6. CASE handle_connect_shutdown \/ handle_connect_error
  BY <1>6, CloseStepConnectionInv
<1>7. CASE handle_expired_event
  BY <1>7, ExpiredConnectionInv
<1>8. CASE Tick
  BY <1>8, TickConnectionInv
<1>9. ASSUME NEW c \in Conns, Client(c) PROVE ConnectionInv'
  BY <1>9, ClientConnectionInv
<1>10. CASE UNCHANGED vars
  <2>1. UNCHANGED <<pc, result, cur, calls, functor_list, life, http, chan,
                    fd_to_channel_, timers, epoll, sock, now, left, wrapped>>
    BY <1>10 DEF vars
  <2>2. TypeOK'
    <3>1. fd_to_channel_' \in [Conns -> BOOLEAN]
      BY <2>1 DEF ConnectionInv, TypeOK
    <3> QED BY <2>1, <3>1 DEF ConnectionInv, TypeOK
  <2>3. LoopInv' /\ ErrorInv' /\ TimeInv'
    BY <2>1 DEF ConnectionInv, LoopInv, ErrorInv, ErrorSeen, TimeInv, Timely
  <2>4. LinkInv'
    BY <2>1 DEF ConnectionInv, LinkInv, OneTimer, Linked, Unlinked, Armed
  <2>5. RegisteredInv'
    BY <2>1 DEF ConnectionInv, RegisteredInv, Registered, Reported, Input
  <2> QED BY <2>2, <2>3, <2>4, <2>5 DEF ConnectionInv
<1> QED BY <1>1, <1>2, <1>3, <1>4, <1>5, <1>6, <1>7, <1>8, <1>9, <1>10
        DEF Next, LoopStep

\* The registrations, the timers, the connections and the loop thread agree,
\* whatever clients do, and whenever a handler stops (the whole of HttpData,
\* Channel, Epoll and TimerPQueue, as one loop drives them).
THEOREM ConnectionInvariant == SafeSpec => []ConnectionInv
BY InitConnectionInv, NextConnectionInv, PTL DEF SafeSpec

\* Every variable keeps its type; in particular no timer is ever set that is
\* not a time, and no event registered that epoll does not know.
THEOREM TypesAreKept == SafeSpec => []TypeOK
<1>1. ConnectionInv => TypeOK
  BY DEF ConnectionInv
<1> QED BY <1>1, ConnectionInvariant, PTL

\* Every connection that the loop keeps has exactly one armed timer and one
\* that is closed has none (new_event, seperate_timer, handle_connect,
\* handle_expired_event).
THEOREM OneTimerEach == SafeSpec => []OneArmedTimer
<1>1. ConnectionInv => OneArmedTimer
  <2> SUFFICES ASSUME ConnectionInv, NEW c \in Conns \ {cur}
               PROVE  Cardinality(Armed(c)) = IF life[c] = "open" THEN 1 ELSE 0
    BY DEF OneArmedTimer
  <2>1. IF life[c] = "open" THEN Linked(c) ELSE Unlinked(c)
    BY DEF ConnectionInv, LinkInv, OneTimer
  <2>2. CASE life[c] = "open"
    <3>1. PICK t : Armed(c) = {t}
      BY <2>1, <2>2 DEF Linked
    <3>2. Cardinality({t}) = 1
      BY FS_Singleton
    <3> QED BY <2>2, <3>1, <3>2
  <2>3. CASE life[c] # "open"
    <3>1. Armed(c) = {} /\ Cardinality({}) = 0
      BY <2>1, <2>3, FS_EmptySet DEF Unlinked
    <3> QED BY <2>3, <3>1
  <2> QED BY <2>2, <2>3
<1> QED BY <1>1, ConnectionInvariant, PTL

\* Input that a connection waits for is reported when the loop goes to sleep
\* (the edge-triggered registration of modify_fd_in_epoll and add_fd_in_epoll).
THEOREM InputIsNotLost == SafeSpec => []NoLostInput
<1>1. ConnectionInv => NoLostInput
  <2> SUFFICES ASSUME ConnectionInv, NEW c \in Conns,
                      pc = "poll", fd_to_channel_[c],
                      "IN" \in chan[c].last_events_,
                      sock[c].unread \/ sock[c].fin, ~sock[c].rst
               PROVE  c \in Deliverable
    BY DEF NoLostInput
  <2>1. c \notin result
    BY DEF ConnectionInv, LoopInv
  <2>2. Registered(c) /\ Input(c)
    BY DEF ConnectionInv, RegisteredInv, Input
  <2>3. epoll[c].ready /\ "IN" \in epoll[c].interest
    BY <2>1, <2>2 DEF Registered, Reported
  <2> QED BY <2>2, <2>3, InputIsReady DEF Deliverable
<1> QED BY <1>1, ConnectionInvariant, PTL

\* A timer that handle_expired_event pops is the one its connection set last,
\* and its time is up.
THEOREM TimersWait == SafeSpec => NotClosedEarly
<1>1. ConnectionInv /\ [Next]_vars =>
        [\A c \in Conns : pc = "expired" /\ life[c] = "open" /\ life'[c] = "closed"
                            => left[c] = 0]_vars
  <2> SUFFICES ASSUME ConnectionInv, Next, NEW c \in Conns,
                      pc = "expired", life[c] = "open", life'[c] = "closed"
               PROVE  left[c] = 0
    OBVIOUS
  <2>t. TypeOK /\ LinkInv /\ TimeInv
    BY DEF ConnectionInv
  <2>1. \/ handle_expired_event
        \/ life' = life
        \/ \E d \in Conns : Accept(d)
    BY DEF Next, LoopStep, poll, handle_events, new_event, handle_read,
           handle_read_throws, handle_connect, handle_connect_shutdown,
           handle_connect_error, use_freed, do_pending_functors,
           do_pending_functors_end, handle_expired_end, conn, Tick, Client,
           ClientSends, ClientCloses, ClientResets, ClientReads
  <2>2. ASSUME NEW d \in Conns, Accept(d) PROVE FALSE
    BY <2>2, <2>t DEF Accept, TypeOK
  <2>3. CASE handle_expired_event
    <3>1. PICK t \in timers :
            /\ is_deleted(t) \/ ~is_valid(t)
            /\ is_deleted(t) => life' = life
            /\ ~is_deleted(t) => handle_close(t.Http_data_sptr)
      BY <2>3 DEF handle_expired_event, Top
    <3>2. ~is_deleted(t)
      BY <3>1
    <3>3. t.Http_data_sptr = c
      BY <3>1, <3>2, <2>t DEF handle_close, TypeOK
    <3>4. t = Timer(c, http[c].timer_) /\ http[c].timer_ # NULL
      BY <3>3, <2>t DEF LinkInv, OneTimer, Linked, Unlinked, Armed
    <3>5. ~(now < http[c].timer_)
      BY <3>1, <3>2, <3>4 DEF is_valid, Timer
    <3>6. left[c] \in Nat /\ left[c] <= 0
      BY <2>t, <3>4, <3>5 DEF TimeInv, Timely, TypeOK
    <3> QED BY <3>6
  <2> QED BY <2>1, <2>2, <2>3
<1> QED BY <1>1, ConnectionInvariant, PTL DEF SafeSpec, NotClosedEarly

\* When handle_expired_event stops at the top of the queue, no timer below it
\* has expired, unless the clock has wrapped around since it was set.
THEOREM TimersClose == SafeSpec => ExpiredAreClosedBeforeWrap
<1>1. ConnectionInv /\ [Next]_vars => [TimersExamined => Overdue \subseteq wrapped]_vars
  <2> SUFFICES ASSUME ConnectionInv, Next, TimersExamined,
                      NEW c \in Overdue, c \notin wrapped
               PROVE  FALSE
    OBVIOUS
  <2>t. TypeOK /\ LoopInv /\ LinkInv /\ TimeInv
    BY DEF ConnectionInv
  <2>1. c \in Conns /\ life[c] = "open" /\ left[c] = 0
    BY DEF Overdue
  <2>2. pc = "expired" /\ pc' = "poll"
    BY DEF TimersExamined
  <2>3. handle_expired_end
    BY <2>2 DEF Next, LoopStep, poll, handle_events, new_event, handle_read,
           handle_read_throws, handle_connect, handle_connect_shutdown,
           handle_connect_error, use_freed, do_pending_functors,
           do_pending_functors_end, handle_expired_event, loopvars, Tick, Client,
           Accept, ClientSends, ClientCloses, ClientResets, ClientReads
  <2>4. Linked(c)
    BY <2>1, <2>2, <2>t DEF LinkInv, OneTimer
  <2> DEFINE timer == Timer(c, http[c].timer_)
  <2>5. timer \in timers /\ http[c].timer_ # NULL
    BY <2>4 DEF Linked, Armed
  <2>6. PICK t \in Top : is_valid(t)
    BY <2>3, <2>5 DEF handle_expired_end
  <2>7. t.expired_time_ <= http[c].timer_
    BY <2>5, <2>6 DEF Top, Timer
  <2>8. http[c].timer_ <= now
    BY <2>1, <2>5, <2>t DEF TimeInv, Timely, TypeOK
  <2>9. now < t.expired_time_
    BY <2>6 DEF is_valid
  <2>10. now \in Nat /\ http[c].timer_ \in Nat /\ t.expired_time_ \in Nat
    BY <2>1, <2>5, <2>6, <2>t, ClockAssumption DEF TypeOK, HttpDataType, TimerType, Top
  <2> QED BY <2>7, <2>8, <2>9, <2>10
<1> QED BY <1>1, ConnectionInvariant, PTL DEF SafeSpec, ExpiredAreClosedBeforeWrap
=============================================================================
