---------------------------- MODULE MCLogFormats ----------------------------
\* The two formats of the logs: text on its way into the file, and packages
\* of bytes.  A behaviour is about a line of many pieces, or about some short
\* lines in the buffers and the file, or about packages.
EXTENDS LogLine, Packer

\* Texts, numbers of up to four digits and a sign, and the text that snprintf
\* makes of a floating point number.
Numbers == {-128, -10, 0, 127}
Null == [kind |-> "null"]
MCPieces ==
  {[kind |-> "integer", value |-> v] : v \in Numbers}
    \union {String(Text(n, "s")) : n \in {1, 4}}
    \union {[kind |-> "double", text |-> <<"1", ".", "5">>], Null}
MCChars ==
  {"0", "1", "2", "3", "4", "5", "6", "7", "8", "9", "-", " ", ":", "_",
   "n", "u", "l", "T", "NL", ".", "s", "f"}
\* The values that are packed: the ends of the range of the type, and the
\* places where the number of bytes or the coding of the sign changes.
MCValues(T) ==
  IF T \in Floating
  THEN {[i \in 1..sizeof(T) |-> b] : b \in {0, B - 1}}
  ELSE {Cast(T, s * Power[k] + d) : s \in {1, -1}, k \in 0..sizeof(T), d \in -1..1}
         \union {Cast(T, Power[sizeof(T)] \div 2 + d) : d \in -1..1}

MCLogName == <<"f">>

Init == LineInit /\ FileInit /\ PackInit

\* Nothing but pieces has been logged, and the log thread has done nothing.
Fresh == logged = <<>> /\ buffer_list_ = <<>> /\ ~appending /\ appended = <<>>

\* The lines that go through the buffers are 9 characters long, or 15 with the
\* null.  Two of the short ones go into a buffer of 19, a short and a long one
\* do not.
Short(line) == line \in {<<>>, <<Null>>}

Next ==
  \/ /\ packed = <<>> /\ UNCHANGED packVars
     /\ \/ Short(pieces) /\ LineNext /\ Short(pieces')
        \/ Fresh /\ \E p \in Pieces : insert(p)
  \/ Fresh /\ pieces = <<>> /\ PackNext /\ UNCHANGED <<lineVars, fileVars>>

Spec == Init /\ [][Next]_<<lineVars, fileVars, packVars>>
=============================================================================
