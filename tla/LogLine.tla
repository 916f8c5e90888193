------------------------------ MODULE LogLine ------------------------------
(***************************************************************************)
(* The lines of the log.  A Logger writes the time, then what the << of    *)
(* its LogStream are given, then where the line comes from, into a         *)
(* LogBuffer of SIZE bytes, and hands the line to Logging, which puts it   *)
(* behind the others in a LogBuffer of its own.  The log thread appends    *)
(* these buffers to the file, as a whole.  A piece that does not fit into  *)
(* the line is left out.                                                   *)
(*                                                                         *)
(* The buffers are here only what is in them: where Logging gets them      *)
(* from, the mutex, the turns of the log thread and the lists that it cuts *)
(* are in Logging.tla.                                                     *)
(*                                                                         *)
(* Characters are strings of length one ("NL" is the newline); a text is a *)
(* sequence of them, and only integers are spelled out, by convert().      *)
(***************************************************************************)
EXTENDS Integers, LogFile

CONSTANTS
  Chars,            \* the characters
  SIZE,             \* of a LogBuffer (small_buffer, 4096)
  max_digit_size,   \* the room that is asked for before a number (32)
  TimeSize,         \* characters of the time (20)
  Pieces,           \* what is logged: records with a kind
  log_name_, num_lines_,    \* __FILE__ (a text) and __LINE__
  MaxPieces, MaxLines,      \* bounds: pieces of a line, lines
  MaxAppends                \* bound: buffers handed to the file

\* A sequence of n times the character c.
Text(n, c) == [i \in 1..n |-> c]

VARIABLES
  buffer_,          \* the line so far
  pieces,           \* history: pieces given to <<
  cur_buffer_,      \* the LogBuffer of Logging that lines are put into
  buffer_list_,     \* those before it, full or taken over by the log thread
  logged            \* history: the lines given to output()

lineVars == <<buffer_, pieces, cur_buffer_, buffer_list_, logged>>

-----------------------------------------------------------------------------
(* convert().                                                              *)

digits == <<"9", "8", "7", "6", "5", "4", "3", "2", "1",
            "0", "1", "2", "3", "4", "5", "6", "7", "8", "9">>

\* zero[digit], for a digit from -9 to 9.
zero(digit) == digits[digit + 10]

\* C++ divides towards zero, and the remainder has the sign of the dividend.
Quotient(n) == IF n >= 0 THEN n \div 10 ELSE -((-n) \div 10)
Remainder(n) == n - 10 * Quotient(n)

\* A plausible slip: the digit is looked up with the floored remainder.
convert_Floored(value) ==
  LET loop[num \in Int] ==
        <<zero(num % 10)>> \o
          (IF Quotient(num) = 0 THEN <<>> ELSE loop[Quotient(num)])
  IN Reverse(loop[value] \o (IF value < 0 THEN <<"-">> ELSE <<>>))

\* The digits from the last to the first, then the sign, then all reversed.
convert(value) ==
  LET loop[num \in Int] ==
        <<zero(Remainder(num))>> \o
          (IF Quotient(num) = 0 THEN <<>> ELSE loop[Quotient(num)])
  IN Reverse(loop[value] \o (IF value < 0 THEN <<"-">> ELSE <<>>))

-----------------------------------------------------------------------------
(* LogStream.                                                              *)

\* What << writes: snprintf()'s text of a floating point number is given.
TextOf(p) ==
  CASE p.kind = "integer" -> convert(p.value)
    [] p.kind = "null" -> <<"_", "n", "u", "l", "l", "_">>
    [] OTHER -> p.text

NumLines == [kind |-> "integer", value |-> num_lines_]

ASSUME SizeAssumption ==
  SIZE \in Nat /\ max_digit_size \in Nat /\ TimeSize \in 1..(SIZE - 1)

ASSUME LineAssumption ==
  /\ {"0", "1", "2", "3", "4", "5", "6", "7", "8", "9", "-", " ", ":", "_",
      "n", "u", "l", "T", "NL"} \subseteq Chars
  /\ log_name_ \in Seq(Chars)
  /\ \A p \in Pieces \union {NumLines} :
       CASE p.kind = "integer" -> p.value \in Int
         [] p.kind = "null" -> TRUE
         [] OTHER -> p.text \in Seq(Chars)

\* No integer type has as many digits as are asked for, and snprintf() is
\* told to stop before.
ASSUME NumberAssumption ==
  \A p \in Pieces \union {NumLines} :
    p.kind \in {"integer", "double"} => Len(TextOf(p)) < max_digit_size

get_available_size(b) == SIZE - Len(b)

\* A plausible slip: a number is only asked the room for its digits.
Fits_Exact(b, p) == get_available_size(b) >= Len(TextOf(p))

\* Numbers ask for max_digit_size, whatever their length; a text must leave
\* one byte free (LogBuffer::append).
Fits(b, p) ==
  IF p.kind \in {"integer", "double"}
  THEN get_available_size(b) >= max_digit_size
  ELSE get_available_size(b) > Len(TextOf(p))

put(b, p) == IF Fits(b, p) THEN b \o TextOf(p) ELSE b

-----------------------------------------------------------------------------
(* Logger.                                                                 *)

String(text) == [kind |-> "string", text |-> text]

\* format_time(): the date and a newline.
format_time == put(<<>>, String(Append(Text(TimeSize - 1, "T"), "NL")))

LineInit ==
  /\ buffer_ = format_time
  /\ pieces = <<>>
  /\ cur_buffer_ = <<>>
  /\ buffer_list_ = <<>>
  /\ logged = <<>>

insert(p) ==
  /\ Len(logged) < MaxLines
  /\ Len(pieces) < MaxPieces
  /\ buffer_' = put(buffer_, p)
  /\ pieces' = Append(pieces, p)
  /\ UNCHANGED <<cur_buffer_, buffer_list_, logged, fileVars>>

\* What ~Logger() adds to the line b.
Ended(b) ==
  LET dashes == put(b, String(<<" ", "-", "-", " ">>))
      name == put(dashes, String(log_name_))
      colon == put(name, String(<<":">>))
  IN put(put(colon, NumLines), String(<<"NL">>))

\* output(): Logging::append() puts the line into the current buffer when
\* it has room for it, else into an empty one; LogBuffer::append() is put().
output(line) ==
  IF get_available_size(cur_buffer_) > Len(line)
  THEN /\ cur_buffer_' = put(cur_buffer_, String(line))
       /\ UNCHANGED buffer_list_
  ELSE /\ cur_buffer_' = put(<<>>, String(line))
       /\ buffer_list_' = Append(buffer_list_, cur_buffer_)

\* ~Logger(): the end of the line, then output(); the next Logger begins.
end_line ==
  /\ Len(logged) < MaxLines
  /\ output(Ended(buffer_))
  /\ logged' = Append(logged, Ended(buffer_))
  /\ buffer_' = format_time
  /\ pieces' = <<>>
  /\ UNCHANGED fileVars

\* The log thread takes the current buffer over, empty or not, and leaves an
\* empty one behind.
exchange ==
  /\ Len(appended) + Len(buffer_list_) < MaxAppends
  /\ buffer_list_' = Append(buffer_list_, cur_buffer_)
  /\ cur_buffer_' = <<>>
  /\ UNCHANGED <<buffer_, pieces, logged, fileVars>>

\* Its loop: the next buffer is appended to the file.  Here this may come at
\* any time after the buffer has left cur_buffer_, in any turn; Logging.tla
\* has the turns.
append_buffer ==
  /\ buffer_list_ # <<>>
  /\ append(Head(buffer_list_))
  /\ buffer_list_' = Tail(buffer_list_)
  /\ UNCHANGED <<buffer_, pieces, cur_buffer_, logged>>

LineNext ==
  \/ \E p \in Pieces : insert(p)
  \/ end_line
  \/ exchange
  \/ append_buffer
  \/ FileNext /\ UNCHANGED lineVars

LineSpec == LineInit /\ FileInit /\ [][LineNext]_<<lineVars, fileVars>>

-----------------------------------------------------------------------------
(* Properties.                                                             *)

\* The value of a text of digits with or without a sign.
ValueOf(text) ==
  LET ds == IF text[1] = "-" THEN Tail(text) ELSE text
      value[n \in 0..Len(ds)] ==
        IF n = 0 THEN 0
        ELSE 10 * value[n - 1] + (CHOOSE k \in 0..9 : zero(k) = ds[n])
  IN IF text[1] = "-" THEN -value[Len(ds)] ELSE value[Len(ds)]

\* The text of an integer, the most negative one too, reads back as its
\* value, and has no needless digit (convert, fromat_integer).
IntegersReadBack ==
  \A k \in DOMAIN pieces :
    pieces[k].kind = "integer" =>
      LET text == TextOf(pieces[k])
      IN /\ ValueOf(text) = pieces[k].value
         /\ text[1] = "0" => Len(text) = 1
         /\ text[1] = "-" => text[2] # "0"

\* A line never fills its buffer, so that Logging::append() can put it into
\* an empty one, and it ends with a newline unless it is as long as a line
\* can be: whenever the Logger may go out of scope (put, ~Logger).
LineFits ==
  /\ Len(buffer_) < SIZE
  /\ LET line == Ended(buffer_)
     IN /\ Len(line) < SIZE
        /\ Last(line) = "NL" \/ Len(line) = SIZE - 1

\* Every line that was logged is in a buffer or has been appended in one,
\* once and in the order of the calls (Logging::append, thread_func).
LinesAreKept ==
  FlattenSeq([k \in DOMAIN appended |-> appended[k].data]) \o string_line
    \o FlattenSeq(buffer_list_) \o cur_buffer_
  = FlattenSeq(logged)

\* The file is the lines, in the order in which they were logged, whole and
\* once, as far as their buffers have been appended.  When append() gives up
\* the rest of its buffer is missing, with all the lines in it, and nothing
\* else: the next buffer follows where it stopped (Logging::append,
\* thread_func, AppendUtil::append).
FileIsLines == FileIsBuffers /\ LinesAreKept
=============================================================================
