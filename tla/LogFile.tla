------------------------------ MODULE LogFile ------------------------------
(***************************************************************************)
(* The log file: AppendLog and the AppendUtil it writes through.  What is  *)
(* appended at once is a whole LogBuffer of the log thread, with any       *)
(* number of lines in it, or none.  fwrite() may take only a part of what  *)
(* it is given; append() tries the rest again until a further try takes    *)
(* nothing.  Both run with the file's mutex held; the steps are the calls  *)
(* of fwrite().                                                            *)
(***************************************************************************)
EXTENDS Naturals, Sequences, SequencesExt

CONSTANT num_append_      \* appends between two flushes (1000)

ASSUME NumAppendAssumption == num_append_ \in Nat \ {0}

VARIABLES
  file,         \* what the stream has taken
  appending,    \* is a call of append() under way?
  string_line,  \* what it appends
  finished,     \* how much of that has been written
  first,        \* is the call of write() before the loop still to come?
  count_,
  appended,     \* history: for each buffer, how much of it got to the file
                \* and whether append() gave up
  unflushed     \* history: buffers appended since the last flush

fileVars == <<file, appending, string_line, finished, first, count_, appended,
              unflushed>>

FileInit ==
  /\ file = <<>>
  /\ appending = FALSE
  /\ string_line = <<>>
  /\ finished = 0
  /\ first = TRUE
  /\ count_ = 0
  /\ appended = <<>>
  /\ unflushed = 0

\* AppendUtil::append() begins, for the data of a LogBuffer.
append(data) ==
  /\ ~appending
  /\ appending' = TRUE
  /\ string_line' = data
  /\ finished' = 0
  /\ first' = TRUE
  /\ UNCHANGED <<file, count_, appended, unflushed>>

\* A plausible slip: the flush comes one append too late.
append_unlocked_Late(done, gaveUp) ==
  /\ appending' = FALSE
  /\ string_line' = <<>>
  /\ appended' = Append(appended, [data |-> string_line, size |-> done,
                                   failed |-> gaveUp])
  /\ count_' = IF count_ + 1 > num_append_ THEN 0 ELSE count_ + 1
  /\ unflushed' = IF count_ + 1 > num_append_ THEN 0 ELSE unflushed + 1

\* append_unlocked() after AppendUtil::append() has returned.
append_unlocked(done, gaveUp) ==
  /\ appending' = FALSE
  /\ string_line' = <<>>
  /\ appended' = Append(appended, [data |-> string_line, size |-> done,
                                   failed |-> gaveUp])
  /\ count_' = IF count_ + 1 >= num_append_ THEN 0 ELSE count_ + 1
  /\ unflushed' = IF count_ + 1 >= num_append_ THEN 0 ELSE unflushed + 1

Remained == Len(string_line) - finished

\* A plausible slip: the next try starts at the beginning of the buffer.
Rest_FromStart == string_line

Rest == SubSeq(string_line, finished + 1, Len(string_line))

\* A call of write() that takes n bytes of the rest.  The loop ends when all
\* is written or a try other than the first has taken nothing.
write(n) ==
  /\ appending
  /\ file' = file \o SubSeq(Rest, 1, n)
  /\ first' = FALSE
  /\ IF n = Remained \/ (n = 0 /\ ~first)
     THEN append_unlocked(finished + n, n # Remained) /\ finished' = 0
     ELSE /\ finished' = finished + n
          /\ UNCHANGED <<appending, string_line, count_, appended, unflushed>>

\* AppendLog::flush(), which the log thread calls after each of its turns.
\* It does not touch the count.
flush ==
  /\ ~appending
  /\ unflushed > 0
  /\ unflushed' = 0
  /\ UNCHANGED <<file, appending, string_line, finished, first, count_, appended>>

FileNext == flush \/ \E n \in 0..Remained : write(n)

-----------------------------------------------------------------------------
(* Properties.                                                             *)

\* The file is the appended buffers one after the other, each one whole and
\* once, up to where append() gave up on it after a try that took nothing,
\* however fwrite() cut them (AppendUtil::append).
FileIsBuffers ==
  /\ file = FlattenSeq([k \in DOMAIN appended |->
                          SubSeq(appended[k].data, 1, appended[k].size)])
              \o SubSeq(string_line, 1, finished)
  /\ \A k \in DOMAIN appended :
       appended[k].size < Len(appended[k].data) => appended[k].failed

\* Fewer than num_append_ calls of append() wait in the stream's buffer,
\* each with a LogBuffer of any number of lines, although flush() does not
\* reset the count (append_unlocked, flush).
FewUnflushed == unflushed < num_append_
=============================================================================
