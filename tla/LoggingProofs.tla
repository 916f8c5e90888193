--------------------------- MODULE LoggingProofs ---------------------------
(***************************************************************************)
(* For any messages, any size of the buffers and any limit of the list,    *)
(* the log thread finds as many buffers as its assertions expect.          *)
(***************************************************************************)
EXTENDS Logging, SequenceLemmas

USE LengthAssumption, MaxBuffersAssumption, NullAssumption

-----------------------------------------------------------------------------
(* The buffers.                                                            *)

\* A fresh buffer is a buffer and not the null pointer.
LEMMA FreshBuffer == NewLogBuffer \in LogBuffer /\ nullptr \notin LogBuffer
BY EmptySeq DEF NewLogBuffer, LogBuffer

\* LogBuffer::append() leaves its cursor inside of the buffer.
LEMMA AppendFits ==
  ASSUME NEW b \in LogBuffer, NEW m \in Messages
  PROVE  append_to(b, m) \in LogBuffer
<1>1. CASE available_size(b) > Length[m]
  <2>1. b.data \in Seq(Messages) /\ b.length \in 0..(SIZE - 1) /\ Length[m] \in Nat
    BY DEF LogBuffer
  <2>2. b.length + Length[m] \in 0..(SIZE - 1)
    BY <1>1, <2>1 DEF available_size
  <2>3. Append(b.data, m) \in Seq(Messages)
    BY <2>1, AppendProperties
  <2> QED BY <1>1, <2>2, <2>3 DEF append_to, LogBuffer
<1>2. CASE ~(available_size(b) > Length[m])
  BY <1>2 DEF append_to
<1> QED BY <1>1, <1>2

-----------------------------------------------------------------------------
(* The steps.                                                              *)

LEMMA InitLogInv == Init => LogInv
<1> SUFFICES ASSUME Init PROVE LogInv
  OBVIOUS
<1>1. TypeOK
  BY FreshBuffer, EmptySeq DEF Init, TypeOK
<1>2. next_buffer_ # nullptr
  BY FreshBuffer DEF Init
<1> QED BY <1>1, <1>2 DEF Init, LogInv, AssertsHold, StartedFirst, BuffersBalance

\* append() pushes a full buffer whenever it uses up next_buffer_.
LEMMA AppendLogInv ==
  ASSUME LogInv, NEW m \in Messages, append(m)
  PROVE  LogInv'
<1> USE DEF append, Alive, Notified, local, startup
<1>1. TypeOK /\ AssertsHold /\ StartedFirst /\ BuffersBalance
  BY DEF LogInv
<1>2. cur_buffer_' \in LogBuffer
  <2>1. append_to(cur_buffer_, m) \in LogBuffer
    BY <1>1, AppendFits DEF TypeOK
  <2>2. append_to(IF next_buffer_ # nullptr THEN next_buffer_ ELSE NewLogBuffer, m)
          \in LogBuffer
    BY <1>1, AppendFits, FreshBuffer DEF TypeOK
  <2> QED BY <2>1, <2>2
<1>3. /\ buffer_list_' \in Seq(LogBuffer)
      /\ next_buffer_' = nullptr => buffer_list_' # <<>>
  <2>1. /\ cur_buffer_ \in LogBuffer
        /\ buffer_list_ \in Seq(LogBuffer)
        /\ next_buffer_ = nullptr => buffer_list_ # <<>>
    BY <1>1 DEF TypeOK, BuffersBalance
  <2>2. /\ Append(buffer_list_, cur_buffer_) \in Seq(LogBuffer)
        /\ Append(buffer_list_, cur_buffer_) # <<>>
    BY <2>1, AppendProperties
  <2> QED BY <2>1, <2>2
<1>4. is_running_' \in BOOLEAN
  BY <1>1, Zenon DEF TypeOK
<1>5. TypeOK'
  BY <1>1, <1>2, <1>3, <1>4 DEF TypeOK
<1>6. AssertsHold' /\ StartedFirst'
  BY <1>1 DEF AssertsHold, StartedFirst
<1>7. BuffersBalance'
  BY <1>1, <1>3 DEF BuffersBalance
<1> QED BY <1>5, <1>6, <1>7 DEF LogInv

\* The exchange: the log thread that gives up both buffers takes two.
LEMMA TakeLogInv ==
  ASSUME LogInv, take_buffers
  PROVE  LogInv'
<1> USE DEF take_buffers, startup, history
<1>1. TypeOK /\ AssertsHold /\ StartedFirst /\ BuffersBalance
  BY DEF LogInv
<1>2. log_buffer1 \in LogBuffer /\ log_buffer2 \in LogBuffer
  BY <1>1 DEF TypeOK, BuffersBalance
<1>3. /\ buffer_list_output' \in Seq(LogBuffer)
      /\ Len(buffer_list_output') = Len(buffer_list_) + 1
      /\ buffer_list_' \in Seq(LogBuffer)
      /\ Len(buffer_list_) \in Nat
  BY <1>1, AppendProperties, LenProperties, EmptySeq DEF TypeOK
<1>4. log_buffer2' = nullptr => Len(buffer_list_output') >= 2
  <2>1. log_buffer2' = nullptr => buffer_list_ # <<>>
    BY <1>1, <1>2, FreshBuffer DEF BuffersBalance
  <2>2. buffer_list_ # <<>> => Len(buffer_list_) # 0
    BY <1>1, EmptySeq DEF TypeOK
  <2> QED BY <1>3, <2>1, <2>2
<1>5. buffer_list_output' # <<>>
  BY <1>1, AppendProperties DEF TypeOK
<1>6. is_running_' \in BOOLEAN
  BY <1>1, Zenon DEF TypeOK
<1>7. TypeOK'
  BY <1>1, <1>2, <1>3, <1>6 DEF TypeOK
<1>8. AssertsHold' /\ StartedFirst'
  BY <1>1 DEF AssertsHold, StartedFirst
<1>9. next_buffer_' # nullptr
  BY <1>2, FreshBuffer
<1>10. BuffersBalance'
  BY <1>4, <1>5, <1>9 DEF BuffersBalance
<1> QED BY <1>7, <1>8, <1>10 DEF LogInv

\* Cutting the list leaves the two buffers that are taken back.
LEMMA WriteLogInv ==
  ASSUME LogInv, write_buffers
  PROVE  LogInv'
<1> USE DEF write_buffers, startup, shared
<1>1. TypeOK /\ AssertsHold /\ StartedFirst /\ BuffersBalance
  BY DEF LogInv
<1>2. buffer_list_output # <<>>
  BY <1>1 DEF BuffersBalance
<1> DEFINE cut == Len(buffer_list_output) > MaxBuffers
           kept == IF cut THEN SubSeq(buffer_list_output, 1, 2)
                          ELSE buffer_list_output
<1>3. /\ buffer_list_output' = IF Len(kept) > 2 THEN SubSeq(kept, 1, 2) ELSE kept
      /\ pc' = "recycle"
      /\ UNCHANGED failed_assert_
  BY <1>2
<1>4. buffer_list_output \in Seq(LogBuffer) /\ Len(buffer_list_output) \in Nat \ {0}
  BY <1>1, <1>2, EmptySeq, LenProperties DEF TypeOK
<1>5. /\ buffer_list_output' \in Seq(LogBuffer)
      /\ Len(buffer_list_output') \in Nat \ {0}
      /\ Len(buffer_list_output) >= 2 => Len(buffer_list_output') >= 2
  BY <1>3, <1>4
<1>6. buffer_list_output' # <<>>
  BY <1>5
<1>7. is_running_' \in BOOLEAN
  BY <1>1, Zenon DEF TypeOK
<1>8. TypeOK'
  BY <1>1, <1>3, <1>5, <1>7 DEF TypeOK
<1>9. AssertsHold' /\ StartedFirst'
  BY <1>1, <1>3 DEF AssertsHold, StartedFirst
<1>10. BuffersBalance'
  BY <1>1, <1>3, <1>5, <1>6 DEF BuffersBalance
<1> QED BY <1>8, <1>9, <1>10 DEF LogInv

\* Taking the buffers back finds them.
LEMMA RecycleLogInv ==
  ASSUME LogInv, recycle
  PROVE  LogInv'
<1> USE DEF recycle, startup, shared
<1>1. TypeOK /\ AssertsHold /\ StartedFirst /\ BuffersBalance
  BY DEF LogInv
<1>2. buffer_list_output \in Seq(LogBuffer) /\ Len(buffer_list_output) \in Nat \ {0}
  BY <1>1, EmptySeq, LenProperties DEF TypeOK, BuffersBalance
<1>3. pc' = "top" /\ UNCHANGED failed_assert_
  BY <1>1, <1>2 DEF BuffersBalance
<1>4. is_running_' \in BOOLEAN
  BY <1>1, Zenon DEF TypeOK
<1>5. TypeOK'
  BY <1>1, <1>3, <1>4, EmptySeq DEF TypeOK
<1>6. AssertsHold' /\ StartedFirst'
  BY <1>1, <1>3 DEF AssertsHold, StartedFirst
<1>7. BuffersBalance'
  BY <1>1, <1>3 DEF BuffersBalance
<1> QED BY <1>5, <1>6, <1>7 DEF LogInv

\* The remaining steps exchange no buffers.
LEMMA ControlLogInv ==
  ASSUME LogInv,
         \/ once_init \/ start_returns \/ stop \/ thread_func \/ loop
         \/ wait_for_seconds \/ timed_out
  PROVE  LogInv'
<1> USE DEF Alive, abort, Notified, shared, local, startup
<1>1. TypeOK /\ AssertsHold /\ StartedFirst /\ BuffersBalance
  BY DEF LogInv
<1>2. is_running_' \in BOOLEAN
  BY <1>1, ZenonT(60) DEF TypeOK, once_init, start_returns, stop, thread_func, loop,
       wait_for_seconds, timed_out
<1>3. TypeOK'
  BY <1>1, <1>2, FreshBuffer DEF TypeOK, once_init, start_returns, stop,
       thread_func, loop, wait_for_seconds, timed_out, StartedFirst
<1>4. AssertsHold'
  BY <1>1 DEF AssertsHold, StartedFirst, BuffersBalance, once_init,
       start_returns, stop, thread_func, loop, wait_for_seconds, timed_out
<1>5. StartedFirst'
  BY <1>1 DEF StartedFirst, TypeOK, once_init, start_returns, stop,
       thread_func, loop, wait_for_seconds, timed_out
<1>6. BuffersBalance'
  BY <1>1, FreshBuffer DEF BuffersBalance, StartedFirst, TypeOK, IsEmptyBuffer, once_init,
       start_returns, stop, thread_func, loop, wait_for_seconds, timed_out
<1> QED BY <1>3, <1>4, <1>5, <1>6 DEF LogInv

LEMMA NextLogInv == LogInv /\ [Next]_vars => LogInv'
<1> SUFFICES ASSUME LogInv, [Next]_vars PROVE LogInv'
  OBVIOUS
<1>1. CASE once_init \/ start_returns \/ stop \/ thread_func \/ loop
             \/ wait_for_seconds \/ timed_out
  BY <1>1, ControlLogInv
<1>2. CASE \E m \in Messages : append(m)
  BY <1>2, AppendLogInv
<1>3. CASE take_buffers
  BY <1>3, TakeLogInv
<1>4. CASE write_buffers
  BY <1>4, WriteLogInv
<1>5. CASE recycle
  BY <1>5, RecycleLogInv
<1>6. CASE UNCHANGED vars
  BY <1>6 DEF vars, LogInv, TypeOK, AssertsHold, StartedFirst, BuffersBalance
<1> QED BY <1>1, <1>2, <1>3, <1>4, <1>5, <1>6 DEF Next, LogThread

-----------------------------------------------------------------------------

\* thread_func() and append() keep their buffers in balance, for any number
\* and any lengths of messages and any interleaving.
THEOREM LogInvariant == SafeSpec => []LogInv
BY InitLogInv, NextLogInv, PTL DEF SafeSpec

\* The assertions after the log thread has taken the buffers, and the one at
\* its start, never fail.
THEOREM LogAsserts == SafeSpec => []AssertsHold
<1>1. LogInv => AssertsHold
  BY DEF LogInv
<1> QED BY <1>1, LogInvariant, PTL

-----------------------------------------------------------------------------
(* A sequence without the elements of a set.                               *)

LEMMA WithoutEmpty == ASSUME NEW D PROVE Without(<<>>, D) = <<>>
<1>1. [i \in DOMAIN <<>> |-> IF <<>>[i] \in D THEN <<>> ELSE <<<<>>[i]>>] = <<>>
  OBVIOUS
<1> QED BY <1>1, FlattenEmpty DEF Without

LEMMA WithoutAppend ==
  ASSUME NEW S, NEW s \in Seq(S), NEW e \in S, NEW D
  PROVE  Without(Append(s, e), D) = IF e \in D THEN Without(s, D)
                                    ELSE Append(Without(s, D), e)
<1> DEFINE one(x) == IF x \in D THEN <<>> ELSE <<x>>
           ones == [i \in DOMAIN s |-> one(s[i])]
<1>1. ones \in Seq(Seq(S))
  <2>1. Len(s) \in Nat /\ DOMAIN s = 1..Len(s) /\ \A i \in 1..Len(s) : s[i] \in S
    BY LenProperties, ElementOfSeq
  <2>2. \A x \in S : one(x) \in Seq(S)
    OBVIOUS
  <2> HIDE DEF one
  <2>3. ones \in [1..Len(s) -> Seq(S)]
    BY <2>1, <2>2
  <2> QED BY <2>1, <2>3, SeqDef
<1>2. one(e) \in Seq(S)
  OBVIOUS
<1>3. [i \in DOMAIN Append(s, e) |-> one(Append(s, e)[i])] = Append(ones, one(e))
  OBVIOUS
<1>4. Without(Append(s, e), D) = FlattenSeq(ones) \o one(e)
  <2> HIDE DEF ones
  <2>1. FlattenSeq(Append(ones, one(e))) = FlattenSeq(ones) \o one(e)
    BY <1>1, <1>2, FlattenAppend
  <2> QED BY <1>3, <2>1 DEF Without
<1>5. Without(s, D) = FlattenSeq(ones) /\ FlattenSeq(ones) \in Seq(S)
  BY <1>1, FlattenType DEF Without
<1> HIDE DEF ones
<1> QED BY <1>4, <1>5, ConcatEmptySeq, AppendIsConcat

LEMMA WithoutType ==
  ASSUME NEW S, NEW s \in Seq(S), NEW D
  PROVE  Without(s, D) \in Seq(S)
<1> DEFINE T == {t \in Seq(S) : Without(t, D) \in Seq(S)}
<1>1. <<>> \in T
  BY WithoutEmpty, EmptySeq
<1>2. ASSUME NEW t \in T, NEW e \in S PROVE Append(t, e) \in T
  <2>1. Append(t, e) \in Seq(S) /\ Append(Without(t, D), e) \in Seq(S)
    BY AppendProperties
  <2>2. Without(Append(t, e), D) \in {Without(t, D), Append(Without(t, D), e)}
    BY WithoutAppend
  <2> QED BY <2>1, <2>2
<1>3. T \in SUBSET Seq(S)
  OBVIOUS
<1> HIDE DEF T
<1>4. T = Seq(S)
  BY <1>1, <1>2, <1>3, SequenceInduction
<1> QED BY <1>4 DEF T

LEMMA ToSetAppend ==
  ASSUME NEW S, NEW s \in Seq(S), NEW e \in S
  PROVE  ToSet(Append(s, e)) = ToSet(s) \union {e}
<1>1. /\ \A i \in DOMAIN s : i \in DOMAIN Append(s, e) /\ Append(s, e)[i] = s[i]
      /\ Len(s) + 1 \in DOMAIN Append(s, e) /\ Append(s, e)[Len(s) + 1] = e
      /\ \A i \in DOMAIN Append(s, e) : i \in DOMAIN s \/ i = Len(s) + 1
  OBVIOUS
<1> QED BY <1>1, Zenon DEF ToSet

LEMMA ToSetConcat ==
  ASSUME NEW S, NEW s \in Seq(S), NEW t \in Seq(S)
  PROVE  ToSet(s \o t) = ToSet(s) \union ToSet(t)
<1>1. \A x \in ToSet(s) : x \in ToSet(s \o t)
  BY DEF ToSet
<1>2. ASSUME NEW x \in ToSet(t) PROVE x \in ToSet(s \o t)
  <2>1. PICK i \in DOMAIN t : x = t[i]
    BY DEF ToSet
  <2>2. Len(s) + i \in DOMAIN (s \o t) /\ (s \o t)[Len(s) + i] = t[i]
    OBVIOUS
  <2> QED BY <2>1, <2>2 DEF ToSet
<1>3. \A x \in ToSet(s \o t) : x \in ToSet(s) \union ToSet(t)
  BY DEF ToSet
<1> QED BY <1>1, <1>2, <1>3

LEMMA WithoutElements ==
  ASSUME NEW S, NEW s \in Seq(S), NEW D
  PROVE  ToSet(Without(s, D)) = ToSet(s) \ D
<1> DEFINE T == {t \in Seq(S) : ToSet(Without(t, D)) = ToSet(t) \ D}
<1>1. <<>> \in T
  BY WithoutEmpty, EmptySeq DEF ToSet
<1>2. ASSUME NEW t \in T, NEW e \in S PROVE Append(t, e) \in T
  <2>1. Without(t, D) \in Seq(S) /\ Append(t, e) \in Seq(S)
    BY WithoutType, AppendProperties
  <2>2. /\ ToSet(Append(t, e)) = ToSet(t) \union {e}
        /\ ToSet(Append(Without(t, D), e)) = ToSet(Without(t, D)) \union {e}
    BY <2>1, ToSetAppend
  <2>3. Without(Append(t, e), D) = IF e \in D THEN Without(t, D)
                                   ELSE Append(Without(t, D), e)
    BY WithoutAppend
  <2>4. ToSet(Without(Append(t, e), D)) = ToSet(Append(t, e)) \ D
    BY <2>2, <2>3
  <2> QED BY <2>1, <2>4
<1>3. T \in SUBSET Seq(S)
  OBVIOUS
<1> HIDE DEF T
<1>4. T = Seq(S)
  BY <1>1, <1>2, <1>3, SequenceInduction
<1> QED BY <1>4 DEF T

LEMMA WithoutTwice ==
  ASSUME NEW S, NEW s \in Seq(S), NEW D, NEW E
  PROVE  Without(Without(s, D), E) = Without(s, D \union E)
<1> DEFINE T == {t \in Seq(S) : Without(Without(t, D), E) = Without(t, D \union E)}
<1>1. <<>> \in T
  BY WithoutEmpty, EmptySeq
<1>2. ASSUME NEW t \in T, NEW e \in S PROVE Append(t, e) \in T
  <2>1. Without(t, D) \in Seq(S) /\ Append(t, e) \in Seq(S)
    BY WithoutType, AppendProperties
  <2>2. Without(Append(t, e), D) = IF e \in D THEN Without(t, D)
                                   ELSE Append(Without(t, D), e)
    BY WithoutAppend
  <2>3. Without(Append(Without(t, D), e), E) =
          IF e \in E THEN Without(Without(t, D), E)
                     ELSE Append(Without(Without(t, D), E), e)
    <3> DEFINE w == Without(t, D)
    <3> HIDE DEF w
    <3>1. w \in Seq(S)
      BY <2>1 DEF w
    <3>2. Without(Append(w, e), E) = IF e \in E THEN Without(w, E)
                                     ELSE Append(Without(w, E), e)
      BY <3>1, WithoutAppend
    <3> QED BY <3>2 DEF w
  <2>4. Without(Append(t, e), D \union E) =
          IF e \in D \union E THEN Without(t, D \union E)
                              ELSE Append(Without(t, D \union E), e)
    BY WithoutAppend
  <2>5. Without(Without(t, D), E) = Without(t, D \union E)
    OBVIOUS
  <2>6. Without(Without(Append(t, e), D), E) = Without(Append(t, e), D \union E)
    BY <2>2, <2>3, <2>4, <2>5
  <2> QED BY <2>1, <2>6
<1>3. T \in SUBSET Seq(S)
  OBVIOUS
<1> HIDE DEF T
<1>4. T = Seq(S)
  BY <1>1, <1>2, <1>3, SequenceInduction
<1> QED BY <1>4 DEF T

LEMMA WithoutConcat ==
  ASSUME NEW S, NEW s \in Seq(S), NEW t \in Seq(S), NEW D
  PROVE  Without(s \o t, D) = Without(s, D) \o Without(t, D)
<1> DEFINE T == {u \in Seq(S) : Without(s \o u, D) = Without(s, D) \o Without(u, D)}
<1>1. <<>> \in T
  BY WithoutEmpty, WithoutType, EmptySeq, ConcatEmptySeq
<1>2. ASSUME NEW u \in T, NEW e \in S PROVE Append(u, e) \in T
  <2>1. s \o Append(u, e) = Append(s \o u, e)
    BY AppendIsConcat, ConcatAssociative, ConcatProperties
  <2>2. Without(Append(s \o u, e), D) =
          IF e \in D THEN Without(s \o u, D) ELSE Append(Without(s \o u, D), e)
    <3> DEFINE v == s \o u
    <3>1. v \in Seq(S)
      BY ConcatProperties
    <3> HIDE DEF v
    <3>2. Without(Append(v, e), D) =
            IF e \in D THEN Without(v, D) ELSE Append(Without(v, D), e)
      BY <3>1, WithoutAppend
    <3> QED BY <3>2 DEF v
  <2>3. Without(Append(u, e), D) =
          IF e \in D THEN Without(u, D) ELSE Append(Without(u, D), e)
    BY WithoutAppend
  <2>4. Append(Without(s, D) \o Without(u, D), e) =
          Without(s, D) \o Append(Without(u, D), e)
    <3> DEFINE a == Without(s, D)
               b == Without(u, D)
    <3> HIDE DEF a, b
    <3>1. a \in Seq(S) /\ b \in Seq(S) /\ <<e>> \in Seq(S) /\ a \o b \in Seq(S)
      BY WithoutType, ConcatProperties DEF a, b
    <3>2. Append(a \o b, e) = (a \o b) \o <<e>> /\ Append(b, e) = b \o <<e>>
      BY <3>1, AppendIsConcat
    <3>3. (a \o b) \o <<e>> = a \o (b \o <<e>>)
      BY SMTT(60), <3>1, ConcatAssociative
    <3>4. Append(a \o b, e) = a \o Append(b, e)
      BY <3>2, <3>3
    <3> QED BY <3>4 DEF a, b
  <2>5. Append(u, e) \in Seq(S)
    BY AppendProperties
  <2>6. Without(s \o u, D) = Without(s, D) \o Without(u, D)
    OBVIOUS
  <2>7. Without(s \o Append(u, e), D) = Without(s, D) \o Without(Append(u, e), D)
    BY <2>1, <2>2, <2>3, <2>4, <2>6
  <2> QED BY <2>5, <2>7
<1>3. T \in SUBSET Seq(S)
  OBVIOUS
<1> HIDE DEF T
<1>4. T = Seq(S)
  BY <1>1, <1>2, <1>3, SequenceInduction
<1> QED BY <1>4 DEF T

\* Nothing to take out, or nothing but what is to be taken out.
LEMMA WithoutNone ==
  ASSUME NEW S, NEW s \in Seq(S), NEW D, ToSet(s) \intersect D = {}
  PROVE  Without(s, D) = s
<1> DEFINE T == {t \in Seq(S) : ToSet(t) \intersect D = {} => Without(t, D) = t}
<1>1. <<>> \in T
  BY WithoutEmpty, EmptySeq
<1>2. ASSUME NEW t \in T, NEW e \in S PROVE Append(t, e) \in T
  BY WithoutAppend, ToSetAppend, AppendProperties
<1>3. T \in SUBSET Seq(S)
  OBVIOUS
<1> HIDE DEF T
<1>4. T = Seq(S)
  BY <1>1, <1>2, <1>3, SequenceInduction
<1> QED BY <1>4 DEF T

LEMMA WithoutAll ==
  ASSUME NEW S, NEW s \in Seq(S), NEW D, ToSet(s) \subseteq D
  PROVE  Without(s, D) = <<>>
<1> DEFINE T == {t \in Seq(S) : ToSet(t) \subseteq D => Without(t, D) = <<>>}
<1>1. <<>> \in T
  BY WithoutEmpty, EmptySeq
<1>2. ASSUME NEW t \in T, NEW e \in S PROVE Append(t, e) \in T
  BY WithoutAppend, ToSetAppend, AppendProperties
<1>3. T \in SUBSET Seq(S)
  OBVIOUS
<1> HIDE DEF T
<1>4. T = Seq(S)
  BY <1>1, <1>2, <1>3, SequenceInduction
<1> QED BY <1>4 DEF T

-----------------------------------------------------------------------------
(* Sequences in which nothing comes twice.                                 *)

Once(s) == \A i, j \in DOMAIN s : s[i] = s[j] => i = j

LEMMA OnceAppend ==
  ASSUME NEW S, NEW s \in Seq(S), NEW e \in S
  PROVE  Once(Append(s, e)) <=> Once(s) /\ e \notin ToSet(s)
<1>1. ASSUME Once(Append(s, e)) PROVE Once(s) /\ e \notin ToSet(s)
  <2>1. \A i \in DOMAIN s : i \in DOMAIN Append(s, e) /\ Append(s, e)[i] = s[i]
                            /\ i # Len(s) + 1
    OBVIOUS
  <2>2. Len(s) + 1 \in DOMAIN Append(s, e) /\ Append(s, e)[Len(s) + 1] = e
    OBVIOUS
  <2> QED BY <1>1, <2>1, <2>2 DEF Once, ToSet
<1>2. ASSUME Once(s), e \notin ToSet(s) PROVE Once(Append(s, e))
  BY <1>2 DEF Once, ToSet
<1> QED BY <1>1, <1>2

LEMMA WithoutOnce ==
  ASSUME NEW S, NEW s \in Seq(S), NEW D, Once(s)
  PROVE  Once(Without(s, D))
<1> DEFINE T == {t \in Seq(S) : Once(t) => Once(Without(t, D))}
<1>1. <<>> \in T
  BY WithoutEmpty, EmptySeq DEF Once
<1>2. ASSUME NEW t \in T, NEW e \in S PROVE Append(t, e) \in T
  <2>1. Once(Append(t, e)) => Once(t) /\ e \notin ToSet(t)
    BY OnceAppend
  <2>2. e \notin ToSet(t) => e \notin ToSet(Without(t, D))
    BY WithoutElements
  <2>3. Without(t, D) \in Seq(S)
    BY WithoutType
  <2>4. Once(Append(Without(t, D), e)) <=>
          Once(Without(t, D)) /\ e \notin ToSet(Without(t, D))
    BY <2>3, OnceAppend
  <2>5. Without(Append(t, e), D) = IF e \in D THEN Without(t, D)
                                   ELSE Append(Without(t, D), e)
    BY WithoutAppend
  <2>6. Once(Append(t, e)) => Once(Without(Append(t, e), D))
    BY <2>1, <2>2, <2>4, <2>5
  <2>7. Append(t, e) \in Seq(S)
    BY AppendProperties
  <2> QED BY <2>6, <2>7
<1>3. T \in SUBSET Seq(S)
  OBVIOUS
<1> HIDE DEF T
<1>4. T = Seq(S)
  BY <1>1, <1>2, <1>3, SequenceInduction
<1> QED BY <1>4 DEF T

LEMMA OnceConcat ==
  ASSUME NEW S, NEW s \in Seq(S), NEW t \in Seq(S), Once(s \o t)
  PROVE  Once(s) /\ Once(t) /\ ToSet(s) \intersect ToSet(t) = {}
<1>1. \A i \in DOMAIN s : i \in DOMAIN (s \o t) /\ (s \o t)[i] = s[i] /\ i <= Len(s)
  OBVIOUS
<1>2. \A i \in DOMAIN t : Len(s) + i \in DOMAIN (s \o t) /\ (s \o t)[Len(s) + i] = t[i]
                          /\ i > 0
  OBVIOUS
<1>3. Once(s)
  BY <1>1 DEF Once
<1>4. Once(t)
  <2> SUFFICES ASSUME NEW i \in DOMAIN t, NEW j \in DOMAIN t, t[i] = t[j]
               PROVE  i = j
    BY DEF Once
  <2>1. Len(s) + i = Len(s) + j
    BY <1>2 DEF Once
  <2> QED BY <2>1
<1>5. ASSUME NEW i \in DOMAIN s, NEW j \in DOMAIN t, s[i] = t[j] PROVE FALSE
  <2>1. i = Len(s) + j
    BY <1>1, <1>2, <1>5 DEF Once
  <2> QED BY <1>1, <1>2, <2>1
<1> QED BY <1>3, <1>4, <1>5 DEF ToSet

\* Taking out a part of a sequence in which nothing comes twice leaves the
\* rest.
LEMMA WithoutPart ==
  ASSUME NEW S, NEW s \in Seq(S), NEW part \in Seq(S), NEW t \in Seq(S),
         Once((s \o part) \o t)
  PROVE  Without((s \o part) \o t, ToSet(part)) = s \o t
<1>1. s \o part \in Seq(S)
  BY ConcatProperties
<1>2. /\ Once(s \o part)
      /\ ToSet(s \o part) \intersect ToSet(t) = {}
  BY <1>1, OnceConcat
<1>3. ToSet(s) \intersect ToSet(part) = {} /\ ToSet(t) \intersect ToSet(part) = {}
  BY <1>2, OnceConcat, ToSetConcat
<1>4. /\ Without(s, ToSet(part)) = s /\ Without(t, ToSet(part)) = t
      /\ Without(part, ToSet(part)) = <<>>
  BY <1>3, WithoutNone, WithoutAll
<1>5. Without(s \o part, ToSet(part)) = s
  <2>1. Without(s \o part, ToSet(part)) =
          Without(s, ToSet(part)) \o Without(part, ToSet(part))
    BY WithoutConcat
  <2> QED BY <1>4, <2>1, ConcatEmptySeq
<1>6. Without((s \o part) \o t, ToSet(part)) =
        Without(s \o part, ToSet(part)) \o Without(t, ToSet(part))
  <2> DEFINE u == s \o part
  <2> HIDE DEF u
  <2>1. u \in Seq(S)
    BY <1>1 DEF u
  <2>2. Without(u \o t, ToSet(part)) = Without(u, ToSet(part)) \o Without(t, ToSet(part))
    BY <2>1, WithoutConcat, SMTT(60)
  <2> QED BY <2>2 DEF u
<1> QED BY <1>4, <1>5, <1>6

-----------------------------------------------------------------------------
(* The messages in the buffers.                                            *)

LEMMA ContentsEmpty == Contents(<<>>) = <<>>
<1>1. [i \in DOMAIN <<>> |-> <<>>[i].data] = <<>>
  OBVIOUS
<1> QED BY <1>1, FlattenEmpty DEF Contents

\* The data of the buffers of a list, one sequence for each.
LEMMA DataOfBuffers ==
  ASSUME NEW s \in Seq(LogBuffer)
  PROVE  [i \in DOMAIN s |-> s[i].data] \in Seq(Seq(Messages))
<1>1. Len(s) \in Nat /\ DOMAIN s = 1..Len(s) /\ \A i \in 1..Len(s) : s[i] \in LogBuffer
  BY LenProperties, ElementOfSeq
<1>2. \A b \in LogBuffer : b.data \in Seq(Messages)
  BY DEF LogBuffer
<1>3. [i \in DOMAIN s |-> s[i].data] \in [1..Len(s) -> Seq(Messages)]
  BY <1>1, <1>2
<1> QED BY <1>1, <1>3, SeqDef

LEMMA ContentsType ==
  ASSUME NEW s \in Seq(LogBuffer)
  PROVE  Contents(s) \in Seq(Messages)
BY DataOfBuffers, FlattenType DEF Contents

LEMMA ContentsConcat ==
  ASSUME NEW s \in Seq(LogBuffer), NEW t \in Seq(LogBuffer)
  PROVE  Contents(s \o t) = Contents(s) \o Contents(t)
<1> DEFINE data(u) == [i \in DOMAIN u |-> u[i].data]
<1>1. data(s \o t) = data(s) \o data(t)
  <2>1. Len(s) \in Nat /\ Len(t) \in Nat /\ DOMAIN s = 1..Len(s) /\ DOMAIN t = 1..Len(t)
    BY LenProperties
  <2>2. /\ DOMAIN (s \o t) = 1..(Len(s) + Len(t))
        /\ \A i \in 1..(Len(s) + Len(t)) :
             (s \o t)[i] = IF i <= Len(s) THEN s[i] ELSE t[i - Len(s)]
    BY <2>1, ConcatProperties, LenProperties
  <2>3. Len(data(s)) = Len(s) /\ Len(data(t)) = Len(t)
    BY <2>1
  <2>4. /\ data(s) \o data(t) = [i \in 1..(Len(s) + Len(t)) |-> (data(s) \o data(t))[i]]
        /\ \A i \in 1..(Len(s) + Len(t)) :
             (data(s) \o data(t))[i] = IF i <= Len(s) THEN data(s)[i] ELSE data(t)[i - Len(s)]
    <3>1. data(s) \in Seq(Seq(Messages)) /\ data(t) \in Seq(Seq(Messages))
      BY DataOfBuffers
    <3> DEFINE a == data(s)
               b == data(t)
    <3>2. /\ a \in Seq(Seq(Messages)) /\ b \in Seq(Seq(Messages))
          /\ Len(a) = Len(s) /\ Len(b) = Len(t)
      BY <2>3, <3>1
    <3> HIDE DEF a, b
    <3>3. /\ a \o b \in Seq(Seq(Messages)) /\ Len(a \o b) = Len(s) + Len(t)
          /\ \A i \in 1..(Len(s) + Len(t)) :
               (a \o b)[i] = IF i <= Len(s) THEN a[i] ELSE b[i - Len(s)]
      <4> DEFINE B == Seq(Messages)
      <4>1. a \in Seq(B) /\ b \in Seq(B)
        BY <3>2
      <4> HIDE DEF B
      <4>2. /\ a \o b \in Seq(B) /\ Len(a \o b) = Len(a) + Len(b)
            /\ \A i \in 1..(Len(a) + Len(b)) :
                 (a \o b)[i] = IF i <= Len(a) THEN a[i] ELSE b[i - Len(a)]
        BY <4>1, ConcatProperties
      <4> QED BY <3>2, <4>2 DEF B
    <3>4. a \o b = [i \in 1..(Len(s) + Len(t)) |-> (a \o b)[i]]
      BY <3>3, LenProperties
    <3> QED BY <3>3, <3>4 DEF a, b
  <2>5. \A i \in 1..(Len(s) + Len(t)) :
          (data(s) \o data(t))[i] = (s \o t)[i].data
    BY <2>1, <2>2, <2>4
  <2> QED BY <2>2, <2>4, <2>5
<1>2. data(s) \in Seq(Seq(Messages)) /\ data(t) \in Seq(Seq(Messages))
  BY DataOfBuffers
<1>3. Contents(s \o t) = FlattenSeq(data(s \o t)) /\ Contents(s) = FlattenSeq(data(s))
      /\ Contents(t) = FlattenSeq(data(t))
  BY DEF Contents
<1> DEFINE a == data(s)
           b == data(t)
<1>4. a \in Seq(Seq(Messages)) /\ b \in Seq(Seq(Messages))
  BY <1>2
<1> HIDE DEF a, b
<1>5. FlattenSeq(a \o b) = FlattenSeq(a) \o FlattenSeq(b)
  BY <1>4, FlattenConcat
<1> QED BY <1>1, <1>3, <1>5 DEF a, b

LEMMA ContentsAppend ==
  ASSUME NEW s \in Seq(LogBuffer), NEW b \in LogBuffer
  PROVE  Contents(Append(s, b)) = Contents(s) \o b.data
<1> DEFINE data(u) == [i \in DOMAIN u |-> u[i].data]
<1>1. data(Append(s, b)) = Append(data(s), b.data)
  OBVIOUS
<1>2. data(s) \in Seq(Seq(Messages)) /\ b.data \in Seq(Messages)
  BY DataOfBuffers DEF LogBuffer
<1>3. Contents(Append(s, b)) = FlattenSeq(data(Append(s, b)))
      /\ Contents(s) = FlattenSeq(data(s))
  BY DEF Contents
<1> HIDE DEF data
<1> QED BY <1>1, <1>2, <1>3, FlattenAppend

-----------------------------------------------------------------------------
(* The order of the messages.                                              *)

LEMMA Associative ==
  \A a, b, c \in Seq(Messages) : (a \o b) \o c = a \o (b \o c)
<1> SUFFICES ASSUME NEW a \in Seq(Messages), NEW b \in Seq(Messages), NEW c \in Seq(Messages)
             PROVE  (a \o b) \o c = a \o (b \o c)
  OBVIOUS
<1> QED BY SMTT(60), ConcatAssociative

\* What is on its way to the file.
Output == IF pc = "write" THEN Contents(buffer_list_output) ELSE <<>>

\* The inductive invariant: besides the order, a message is logged once, and
\* the buffers that wait for their use are empty.
OrderInv ==
  /\ LogInv
  /\ InOrder
  /\ file \in Seq(Messages) /\ logged \in Seq(Messages)
  /\ Once(logged)
  /\ dropped \subseteq ToSet(logged)
  /\ {next_buffer_, log_buffer1, log_buffer2} \subseteq {NewLogBuffer, nullptr}

LEMMA OrderTypes ==
  ASSUME OrderInv
  PROVE  /\ file \in Seq(Messages) /\ Output \in Seq(Messages)
         /\ Contents(buffer_list_) \in Seq(Messages)
         /\ cur_buffer_.data \in Seq(Messages)
         /\ ((file \o Output) \o Contents(buffer_list_)) \o cur_buffer_.data
              = Without(logged, dropped)
<1>1. /\ buffer_list_ \in Seq(LogBuffer) /\ buffer_list_output \in Seq(LogBuffer)
      /\ cur_buffer_ \in LogBuffer
  BY DEF OrderInv, LogInv, TypeOK
<1>2. Output \in Seq(Messages)
  BY <1>1, ContentsType, EmptySeq DEF Output
<1>3. Contents(buffer_list_) \in Seq(Messages) /\ cur_buffer_.data \in Seq(Messages)
  BY <1>1, ContentsType DEF LogBuffer
<1>4. ((file \o Output) \o Contents(buffer_list_)) \o cur_buffer_.data
        = Without(logged, dropped)
  BY DEF OrderInv, InOrder, Output
<1> QED BY <1>2, <1>3, <1>4 DEF OrderInv

LEMMA InitOrderInv == Init => OrderInv
<1> SUFFICES ASSUME Init PROVE OrderInv
  OBVIOUS
<1>1. Output = <<>> /\ Contents(buffer_list_) = <<>> /\ cur_buffer_.data = <<>>
  BY ContentsEmpty DEF Init, Output, NewLogBuffer
<1>2. InOrder
  BY <1>1, WithoutEmpty, EmptySeq, ConcatEmptySeq DEF Init, InOrder, Output
<1>3. Once(logged)
  BY DEF Init, Once
<1> QED BY <1>2, <1>3, InitLogInv, EmptySeq DEF Init, OrderInv

LEMMA AppendOrderInv ==
  ASSUME OrderInv, NEW m \in Messages, append(m)
  PROVE  OrderInv'
<1> DEFINE f == file
           o == Output
           c == Contents(buffer_list_)
           d == cur_buffer_.data
<1>1. /\ f \in Seq(Messages) /\ o \in Seq(Messages) /\ c \in Seq(Messages)
      /\ d \in Seq(Messages)
      /\ ((f \o o) \o c) \o d = Without(logged, dropped)
  BY OrderTypes
<1>2. LogInv'
  BY AppendLogInv DEF OrderInv
<1>3. f' = f /\ o' = o
  BY DEF append, local, Notified, Output
<1>4. (c' = c /\ d' = Append(d, m)) \/ (c' = c \o d /\ d' = <<m>>)
  <2>1. CASE available_size(cur_buffer_) > Length[m]
    BY <2>1 DEF append, append_to
  <2>2. CASE ~(available_size(cur_buffer_) > Length[m])
    <3>1. c' = c \o d
      <4>1. buffer_list_ \in Seq(LogBuffer) /\ cur_buffer_ \in LogBuffer
        BY DEF OrderInv, LogInv, TypeOK
      <4>2. buffer_list_' = Append(buffer_list_, cur_buffer_)
        BY <2>2 DEF append
      <4> QED BY <4>1, <4>2, ContentsAppend
    <3>2. cur_buffer_' = append_to(NewLogBuffer, m)
      BY <2>2 DEF append, OrderInv
    <3>3. d' = Append(<<>>, m)
      BY <3>2 DEF append_to, available_size, NewLogBuffer
    <3>4. d' = <<m>>
      BY <3>3
    <3> QED BY <3>1, <3>4
  <2> QED BY <2>1, <2>2
<1>5. logged' = Append(logged, m) /\ dropped' = dropped /\ m \notin ToSet(logged)
  BY DEF append
<1>6. Without(logged', dropped') = Append(Without(logged, dropped), m)
  BY <1>5, WithoutAppend DEF OrderInv
<1> HIDE DEF f, o, c, d
<1>7. ((f' \o o') \o c') \o d' = Append(((f \o o) \o c) \o d, m)
  <2> DEFINE a == f \o o
  <2>1. a \in Seq(Messages)
    BY <1>1, ConcatProperties
  <2> HIDE DEF a
  <2>2. a \o c \in Seq(Messages) /\ (a \o c) \o d \in Seq(Messages)
        /\ <<m>> \in Seq(Messages) /\ c \o d \in Seq(Messages)
    BY <1>1, <2>1, ConcatProperties
  <2>3. Append((a \o c) \o d, m) = ((a \o c) \o d) \o <<m>>
    BY <2>2, AppendIsConcat
  <2>4. (a \o c) \o Append(d, m) = ((a \o c) \o d) \o <<m>>
    <3> DEFINE b == a \o c
    <3>1. Append(d, m) = d \o <<m>>
      BY <1>1, AppendIsConcat
    <3>2. b \in Seq(Messages)
      BY <2>2
    <3> HIDE DEF b
    <3>3. b \o (d \o <<m>>) = (b \o d) \o <<m>>
      BY SMTT(60), <1>1, <2>2, <3>2, ConcatAssociative
    <3> QED BY <3>1, <3>3 DEF b
  <2>5. (a \o (c \o d)) \o <<m>> = ((a \o c) \o d) \o <<m>>
    <3>1. a \o (c \o d) = (a \o c) \o d
      BY <1>1, <2>1, Associative
    <3> QED BY <3>1
  <2> QED BY <1>3, <1>4, <2>3, <2>4, <2>5 DEF a
<1>8. InOrder'
  BY <1>1, <1>5, <1>6, <1>7 DEF InOrder, Output, f, o, c, d
<1>9. Once(logged') /\ logged' \in Seq(Messages) /\ dropped' \subseteq ToSet(logged')
  BY <1>5, OnceAppend, ToSetAppend, AppendProperties DEF OrderInv
<1>10. /\ file' \in Seq(Messages)
       /\ {next_buffer_, log_buffer1, log_buffer2}' \subseteq {NewLogBuffer, nullptr}
  BY DEF append, local, OrderInv
<1> QED BY <1>2, <1>8, <1>9, <1>10 DEF OrderInv

LEMMA TakeOrderInv ==
  ASSUME OrderInv, take_buffers
  PROVE  OrderInv'
<1> DEFINE f == file
           c == Contents(buffer_list_)
           d == cur_buffer_.data
<1>1. /\ f \in Seq(Messages) /\ c \in Seq(Messages) /\ d \in Seq(Messages)
      /\ ((f \o Output) \o c) \o d = Without(logged, dropped)
  BY OrderTypes
<1>2. LogInv'
  BY TakeLogInv DEF OrderInv
<1>3. f' = f /\ Output = <<>> /\ c' = <<>>
  BY ContentsEmpty DEF take_buffers, Output
<1>4. Output' = c \o d
  <2>1. buffer_list_ \in Seq(LogBuffer) /\ cur_buffer_ \in LogBuffer
    BY DEF OrderInv, LogInv, TypeOK
  <2>2. buffer_list_output' = Append(buffer_list_, cur_buffer_) /\ pc' = "write"
    BY DEF take_buffers
  <2> QED BY <2>1, <2>2, ContentsAppend DEF Output
<1>5. d' = <<>>
  <2>1. log_buffer1 = NewLogBuffer
    BY DEF OrderInv, LogInv, BuffersBalance, take_buffers
  <2> QED BY <2>1 DEF take_buffers, NewLogBuffer
<1>6. logged' = logged /\ dropped' = dropped
  BY DEF take_buffers, history
<1> HIDE DEF f, c, d
<1>7. ((f' \o Output') \o c') \o d' = Without(logged, dropped)
  <2>1. f \o <<>> = f /\ c \o d \in Seq(Messages)
    BY <1>1, ConcatEmptySeq, ConcatProperties
  <2>2. (f \o c) \o d = f \o (c \o d) /\ f \o (c \o d) \in Seq(Messages)
    BY SMTT(60), <1>1, <2>1, ConcatAssociative, ConcatProperties
  <2>3. ((f \o (c \o d)) \o <<>>) \o <<>> = f \o (c \o d)
    BY <2>2, ConcatEmptySeq
  <2> QED BY <1>1, <1>3, <1>4, <1>5, <2>1, <2>2, <2>3
<1>8. InOrder'
  BY <1>6, <1>7 DEF InOrder, Output, f, c, d
<1>9. {next_buffer_, log_buffer1, log_buffer2}' \subseteq {NewLogBuffer, nullptr}
  BY DEF take_buffers, OrderInv
<1> QED BY <1>2, <1>3, <1>6, <1>8, <1>9 DEF OrderInv, f

\* The log thread writes the first buffers and drops the others as a whole.
LEMMA WriteOrderInv ==
  ASSUME OrderInv, write_buffers
  PROVE  OrderInv'
<1> DEFINE n == Len(buffer_list_output)
           cut == n > MaxBuffers
           kept == IF cut THEN SubSeq(buffer_list_output, 1, 2) ELSE buffer_list_output
           rest == IF cut THEN SubSeq(buffer_list_output, 3, n) ELSE <<>>
           f == file
           k == Contents(kept)
           r == Contents(rest)
           c == Contents(buffer_list_)
           d == cur_buffer_.data
<1>1. /\ f \in Seq(Messages) /\ c \in Seq(Messages) /\ d \in Seq(Messages)
      /\ ((f \o Output) \o c) \o d = Without(logged, dropped)
  BY OrderTypes
<1>2. LogInv'
  BY WriteLogInv DEF OrderInv
<1>3. /\ file' = f \o k /\ dropped' = dropped \union ToSet(r)
      /\ pc = "write" /\ pc' = "recycle"
      /\ UNCHANGED <<buffer_list_, cur_buffer_, next_buffer_, log_buffer1,
                     log_buffer2, logged>>
  BY DEF write_buffers, shared, OrderInv, LogInv, BuffersBalance
<1>4. /\ kept \in Seq(LogBuffer) /\ rest \in Seq(LogBuffer)
      /\ kept \o rest = buffer_list_output
  <2>1. buffer_list_output \in Seq(LogBuffer) /\ n \in Nat
    BY LenProperties DEF OrderInv, LogInv, TypeOK
  <2>2. CASE cut
    BY <2>1, <2>2
  <2>3. CASE ~cut
    BY <2>1, <2>3, EmptySeq, ConcatEmptySeq
  <2> QED BY <2>2, <2>3
<1> HIDE DEF kept, rest
<1>5. /\ Output = k \o r /\ Output' = <<>>
      /\ k \in Seq(Messages) /\ r \in Seq(Messages)
  BY <1>3, <1>4, ContentsConcat, ContentsType DEF Output
<1> HIDE DEF f, k, r, c, d
<1> DEFINE s == f \o k
           t == c \o d
<1>6. /\ s \in Seq(Messages) /\ t \in Seq(Messages)
      /\ (s \o r) \o t = Without(logged, dropped)
  <2>1. f \o (k \o r) = s \o r
    <3>1. \A y, z \in Seq(Messages) : (f \o y) \o z = f \o (y \o z)
      BY <1>1, Associative
    <3> QED BY <1>5, <3>1
  <2>4. s \in Seq(Messages) /\ t \in Seq(Messages)
    BY <1>1, <1>5, ConcatProperties
  <2>2. s \o r \in Seq(Messages)
    BY <1>5, <2>4, ConcatProperties
  <2>3. ((s \o r) \o c) \o d = (s \o r) \o t
    <3> DEFINE u == s \o r
    <3>1. u \in Seq(Messages)
      BY <2>2
    <3> HIDE DEF u
    <3>2. (u \o c) \o d = u \o (c \o d)
      BY SMTT(60), <1>1, <3>1, ConcatAssociative
    <3> QED BY <3>2 DEF u
  <2> QED BY <1>1, <1>5, <2>1, <2>3, <2>4
<1> HIDE DEF s, t
<1>7. Once((s \o r) \o t)
  BY <1>6, WithoutOnce DEF OrderInv
<1>8. Without(logged, dropped \union ToSet(r)) = s \o t
  <2>1. Without((s \o r) \o t, ToSet(r)) = s \o t
    <3>1. s \in Seq(Messages) /\ r \in Seq(Messages) /\ t \in Seq(Messages)
      BY <1>5, <1>6
    <3> QED BY <1>7, <3>1, WithoutPart
  <2>2. Without(Without(logged, dropped), ToSet(r)) = Without(logged, dropped \union ToSet(r))
    BY WithoutTwice DEF OrderInv
  <2> QED BY <1>6, <2>1, <2>2
<1>9. InOrder'
  <2>1. ((s \o <<>>) \o c) \o d = s \o t
    <3>1. s \o <<>> = s
      BY <1>6, ConcatEmptySeq
    <3>2. (s \o c) \o d = s \o (c \o d)
      <4>1. \A y, z \in Seq(Messages) : (s \o y) \o z = s \o (y \o z)
        BY <1>6, Associative
      <4> QED BY <1>1, <4>1
    <3> QED BY <3>1, <3>2 DEF t
  <2>2. file' = s /\ Contents(buffer_list_)' = c /\ cur_buffer_'.data = d
    BY <1>3 DEF s, f, c, d
  <2>3. ((file' \o Output') \o Contents(buffer_list_)') \o cur_buffer_'.data
          = Without(logged', dropped')
    BY <1>3, <1>5, <1>8, <2>1, <2>2
  <2> QED BY <2>3 DEF InOrder, Output
<1>10. dropped' \subseteq ToSet(logged')
  <2>1. ToSet(Without(logged, dropped)) \subseteq ToSet(logged)
    BY WithoutElements DEF OrderInv
  <2>2. s \o r \in Seq(Messages)
    BY <1>5, <1>6, ConcatProperties
  <2>3. ToSet(r) \subseteq ToSet(s \o r)
    BY <1>5, <1>6, ToSetConcat
  <2>4. ToSet(s \o r) \subseteq ToSet((s \o r) \o t)
    <3> DEFINE u == s \o r
    <3>1. u \in Seq(Messages)
      BY <2>2
    <3> HIDE DEF u
    <3>2. ToSet(u) \subseteq ToSet(u \o t)
      BY <1>6, <3>1, ToSetConcat
    <3> QED BY <3>2 DEF u
  <2> QED BY <1>3, <1>6, <2>1, <2>3, <2>4 DEF OrderInv
<1>11. /\ file' \in Seq(Messages) /\ logged' = logged
       /\ {next_buffer_, log_buffer1, log_buffer2}' \subseteq {NewLogBuffer, nullptr}
  BY <1>3, <1>6 DEF s, OrderInv
<1> QED BY <1>2, <1>9, <1>10, <1>11 DEF OrderInv

\* The remaining steps move no message.
LEMMA ControlOrderInv ==
  ASSUME OrderInv,
         \/ once_init \/ start_returns \/ stop \/ thread_func \/ loop
         \/ wait_for_seconds \/ timed_out \/ recycle
  PROVE  OrderInv'
<1> USE DEF Alive, abort, Notified, shared, local, startup, history
<1>1. LogInv'
  BY ControlLogInv, RecycleLogInv DEF OrderInv
<1>2. UNCHANGED <<file, buffer_list_, cur_buffer_, next_buffer_, logged, dropped>>
  BY DEF once_init, start_returns, stop, thread_func, loop, wait_for_seconds,
         timed_out, recycle
<1>3. UNCHANGED Output
  BY DEF once_init, start_returns, stop, thread_func, loop, wait_for_seconds,
         timed_out, recycle, Output, OrderInv, LogInv, StartedFirst
<1>4. InOrder'
  BY <1>2, <1>3 DEF InOrder, Output, OrderInv
<1>5. {log_buffer1, log_buffer2}' \subseteq {NewLogBuffer, nullptr}
  BY DEF once_init, start_returns, stop, thread_func, loop, wait_for_seconds,
         timed_out, recycle, OrderInv
<1> QED BY <1>1, <1>2, <1>4, <1>5 DEF OrderInv

LEMMA NextOrderInv == OrderInv /\ [Next]_vars => OrderInv'
<1> SUFFICES ASSUME OrderInv, [Next]_vars PROVE OrderInv'
  OBVIOUS
<1>1. CASE \/ once_init \/ start_returns \/ stop \/ thread_func \/ loop
           \/ wait_for_seconds \/ timed_out \/ recycle
  BY <1>1, ControlOrderInv
<1>2. CASE \E m \in Messages : append(m)
  BY <1>2, AppendOrderInv
<1>3. CASE take_buffers
  BY <1>3, TakeOrderInv
<1>4. CASE write_buffers
  BY <1>4, WriteOrderInv
<1>5. CASE UNCHANGED vars
  <2>1. LogInv'
    BY <1>5, NextLogInv DEF OrderInv
  <2>2. InOrder'
    BY <1>5 DEF vars, OrderInv, InOrder
  <2> QED BY <1>5, <2>1, <2>2 DEF vars, OrderInv
<1> QED BY <1>1, <1>2, <1>3, <1>4, <1>5 DEF Next, LogThread

\* For any number of messages of any lengths, any size of a buffer and any
\* limit of the list: the file, the buffers that are being written, the list
\* and the current buffer are, in this order, the messages given to append(),
\* in its order, but for the buffers that were dropped as a whole: no message
\* is lost in the exchange of the buffers, repeated or overtaken.
THEOREM LinesInOrder == SafeSpec => []InOrder
<1>1. OrderInv => InOrder
  BY DEF OrderInv
<1> QED BY <1>1, InitOrderInv, NextOrderInv, PTL DEF SafeSpec
=============================================================================
