----------------------------- MODULE HttpParser -----------------------------
(***************************************************************************)
(* The HTTP parser of HttpData: handle_read() over the bytes of a request, *)
(* which arrive in pieces, with parse_URI(), parse_Headers(), the body and *)
(* analyze_request().                                                      *)
(*                                                                         *)
(* The input is a sequence of tokens.  Where the code looks for a single   *)
(* character ("/", "SP", ":", "CR", "LF", the letter "r") that is a token;  *)
(* other text is one token for as long as the code does not look into it.  *)
(* Positions count from 1, so that the code's -1 is 0 here, and the byte   *)
(* in front of the buffer, which it sometimes reads, is the token "junk".  *)
(***************************************************************************)
EXTENDS Naturals, Sequences, SequencesExt, HttpStages

CONSTANTS
  Tokens,         \* what requests are made of
  Inputs,         \* the requests: well-formed ones and others
  MaxValue,       \* longest value of a header (255)
  Numbers         \* what stoi() makes of the tokens that are numbers

ASSUME MaxValueAssumption == MaxValue \in Nat

VARIABLES
  http,           \* the HttpData object
  arriving,       \* what has not been read yet
  input,          \* history: the request that is sent
  pieces,         \* history: how many pieces have been read
  analysed        \* history: what analyze_request() was called with

vars == <<http, arriving, input, pieces, analysed>>

Nothing == <<>>       \* no request has been analysed

NewHttpData ==
  [buffer_in_ |-> <<>>, buffer_out_ |-> "", is_error_ |-> FALSE,
   file_name_ |-> <<>>, keep_alive_ |-> FALSE, headers_ |-> <<>>,
   Http_method_ |-> "METHOD_GET", process_state_ |-> "STATE_PARSE_URI",
   parse_state_ |-> "H_START"]

\* A plausible slip: the connection is not marked as failed.
handle_error_Unmarked(h, code) == [h EXCEPT !.buffer_out_ = code]

\* handle_error(): the reply is written to the socket at once, not through
\* buffer_out_; the model keeps it there, as the answer to the request.
handle_error(h, code) == [h EXCEPT !.is_error_ = TRUE, !.buffer_out_ = code]

-----------------------------------------------------------------------------
(* The request line.                                                       *)

\* The first position from "from" on of the token t, or 0 (npos).
find(s, t, from) == SelectInSubSeq(s, from, Len(s), LAMBDA x : x = t)

Method(line) ==
  CASE find(line, "GET", 1) # 0 -> [at |-> find(line, "GET", 1), is |-> "METHOD_GET"]
    [] find(line, "GET", 1) = 0 /\ find(line, "POST", 1) # 0 ->
         [at |-> find(line, "POST", 1), is |-> "METHOD_POST"]
    [] OTHER -> [at |-> find(line, "HEAD", 1), is |-> "METHOD_HEAD"]

\* The position of the space that ends the name, or 0.
NameEnd(line, slash) == IF slash = 0 THEN 0 ELSE find(line, "SP", slash)

\* A plausible slip: the query stays a part of the name.
FileName_Query(line, slash) ==
  LET space == NameEnd(line, slash)
  IN IF slash = 0 \/ space = slash + 1 THEN <<"index.html">>
     ELSE SubSeq(line, slash + 1, IF space = 0 THEN Len(line) ELSE space - 1)

FileName(line, slash) ==
  LET space == NameEnd(line, slash)
      name == SubSeq(line, slash + 1, IF space = 0 THEN Len(line) ELSE space - 1)
      query == find(name, "?", 1)
  IN CASE slash = 0 \/ space = slash + 1 -> <<"index.html">>
       [] query # 0 -> SubSeq(name, 1, query - 1)
       [] OTHER -> name

\* Where the version is looked for: behind the next slash, or, as npos + 1
\* is 0, at the beginning of the line when there is none.
VersionAt(line, slash) ==
  LET space == NameEnd(line, slash)
  IN 1 + IF space = 0 THEN 0 ELSE find(line, "/", space)

\* parse_URI().  The tests for npos compare an unsigned number with zero and
\* never hold: without a CR the whole buffer is the request line, and it
\* stays in the buffer.
ParseURI(h) ==
  LET cr == find(h.buffer_in_, "CR", 1)
      line == IF cr = 0 THEN h.buffer_in_ ELSE SubSeq(h.buffer_in_, 1, cr - 1)
      slash == find(line, "/", Method(line).at)
      at == VersionAt(line, slash)
  IN IF Method(line).at = 0 \/ at > Len(line) \/ line[at] \notin {"1.0", "1.1"}
     THEN handle_error([h EXCEPT !.buffer_in_ = <<>>], "400")
     ELSE [h EXCEPT
             !.buffer_in_ = SubSeq(@, cr + 1, Len(@)),
             !.Http_method_ = Method(line).is,
             !.file_name_ = FileName(line, slash),
             !.process_state_ = "STATE_PARSE_HEADERS"]

-----------------------------------------------------------------------------
(* The headers.                                                            *)

\* string(begin + from, begin + to): positions from .. to - 1.
Slice(s, from, to) ==
  [k \in 1..(to - from) |-> IF from + k = 1 THEN "junk" ELSE s[from + k - 1]]

Key(s, l) == Slice(s, l.key_start, l.key_end)

\* A plausible slip: the value begins one character too late.
Value_Late(s, l) == Slice(s, l.value_start + 1, l.value_end)

Value(s, l) == Slice(s, l.value_start, l.value_end)

\* The map headers_: an assignment replaces.
With(headers, key, value) ==
  [k \in {key} \union DOMAIN headers |-> IF k = key THEN value ELSE headers[k]]

\* The local variables of parse_Headers(), with the two members it changes;
\* "next" is one past the last character that the loop has looked at.
NewLocals(h) ==
  [state |-> h.parse_state_, headers |-> h.headers_,
   key_start |-> 0, key_end |-> 0, value_start |-> 0, value_end |-> 0,
   read_cur |-> 1, next |-> 1, finished |-> FALSE, failed |-> FALSE]

\* One turn of the loop of parse_Headers(), at position i of s: the switch
\* on parse_state_.
step(s, l, i) ==
  LET to(state) == [l EXCEPT !.state = state, !.next = i + 1]
      ERROR == [l EXCEPT !.failed = TRUE]
      c == s[i]
  IN IF l.finished \/ l.failed THEN l ELSE
     CASE l.state = "H_START" ->
            IF c \in {"LF", "r"} THEN to("H_START")
            ELSE [to("H_KEY") EXCEPT !.key_start = i, !.read_cur = i]
       [] l.state = "H_KEY" ->
            CASE c = ":" /\ i > l.key_start -> [to("H_COLON") EXCEPT !.key_end = i]
              [] c = ":" /\ i <= l.key_start -> ERROR
              [] c \in {"LF", "CR"} -> ERROR
              [] OTHER -> to("H_KEY")
       [] l.state = "H_COLON" ->
            IF c = "SP" THEN to("H_SPACES_AFTER_COLON") ELSE ERROR
       [] l.state = "H_SPACES_AFTER_COLON" ->
            [to("H_VALUE") EXCEPT !.value_start = i]
       [] l.state = "H_VALUE" ->
            CASE c = "CR" /\ i > l.value_start -> [to("H_CR") EXCEPT !.value_end = i]
              [] c = "CR" /\ i <= l.value_start -> ERROR
              [] c # "CR" /\ i - l.value_start > MaxValue -> ERROR
              [] OTHER -> to("H_VALUE")
       [] l.state = "H_CR" ->
            IF c = "LF"
            THEN [to("H_LF") EXCEPT
                    !.headers = With(l.headers, Key(s, l), Value(s, l)),
                    !.read_cur = i]
            ELSE ERROR
       [] l.state = "H_LF" ->
            IF c = "CR" THEN to("H_END_CR")
                        ELSE [to("H_KEY") EXCEPT !.key_start = i]
       [] l.state = "H_END_CR" -> IF c = "LF" THEN to("H_END_LF") ELSE ERROR
       [] l.state = "H_END_LF" ->
            [to("H_END_LF") EXCEPT !.finished = TRUE, !.read_cur = i]

\* A plausible slip: the blank line is over with its carriage return.
HeadersEnd_Early(l) == l.state \in {"H_END_CR", "H_END_LF"}

\* The blank line behind the headers has been seen.
HeadersEnd(l) == l.state = "H_END_LF"

\* The loop of parse_Headers() over the buffer of h: after[i] is what it has
\* made of the first i characters.
Scanned(h) ==
  LET after[i \in 0..Len(h.buffer_in_)] ==
        IF i = 0 THEN NewLocals(h) ELSE step(h.buffer_in_, after[i - 1], i)
  IN after[Len(h.buffer_in_)]

\* parse_Headers(): what is kept in the buffer for the next piece begins
\* with the header that is not complete, or with the end of the last line,
\* and parse_state_ stays where the loop has stopped.
ParseHeaders(h) ==
  LET l == Scanned(h)
      h2 == [h EXCEPT !.parse_state_ = l.state, !.headers_ = l.headers]
      from(i) == [h2 EXCEPT !.buffer_in_ = SubSeq(@, i, Len(@))]
  IN CASE l.failed -> handle_error(h2, "400")
       [] ~l.failed /\ HeadersEnd(l) ->
            [from(l.next) EXCEPT !.process_state_ =
               IF h.Http_method_ = "METHOD_POST" THEN "STATE_RECV_BODY"
                                                 ELSE "STATE_ANALYSIS"]
       [] OTHER -> from(l.read_cur)

-----------------------------------------------------------------------------
(* The body and the answer.                                                *)

ContentLength == <<"Content-length">>

\* A plausible slip: the body has to be longer than its length.
BodyMissing_Inclusive(h, length) == Len(h.buffer_in_) <= length

BodyMissing(h, length) == Len(h.buffer_in_) < length

\* The part of handle_read() about the body.
ReceiveBody(h) ==
  IF ContentLength \notin DOMAIN h.headers_ THEN handle_error(h, "400")
  ELSE IF BodyMissing(h, Numbers[h.headers_[ContentLength][1]]) THEN h
  ELSE [h EXCEPT !.process_state_ = "STATE_ANALYSIS"]

\* Does the request ask to keep the connection?
WantsKeepAlive(h) ==
  LET key == <<"Connection">>
  IN key \in DOMAIN h.headers_ /\ h.headers_[key] = <<"keep-alive">>

\* analyze_request(): fs says whether stat() finds the file and whether it
\* can be opened and mapped.
AnalyzeRequest(h, fs) ==
  LET k == [h EXCEPT !.keep_alive_ = WantsKeepAlive(h)]
      finish(out) == [k EXCEPT !.process_state_ = "STATE_FINISH",
                               !.buffer_out_ = out]
  IN CASE h.Http_method_ = "METHOD_POST" -> [h EXCEPT !.is_error_ = TRUE]
       [] h.Http_method_ # "METHOD_POST" ->
            CASE h.file_name_ \in {<<"hello">>, <<"favicon.ico">>} -> finish("200")
              [] OTHER ->
                   CASE fs = "missing" -> handle_error(k, "404")
                     [] fs # "missing" /\ h.Http_method_ = "METHOD_HEAD" -> finish("")
                     [] fs = "unreadable" /\ h.Http_method_ = "METHOD_GET" ->
                          handle_error(k, "404")
                     [] fs = "readable" /\ h.Http_method_ = "METHOD_GET" ->
                          finish("200")

FileSystem == {"missing", "unreadable", "readable"}

-----------------------------------------------------------------------------
(* handle_read().                                                          *)

\* A stage runs when the ones before it have got to it.
In(stage, h) == h.process_state_ = stage /\ ~h.is_error_

AfterURI(h) == IF In("STATE_PARSE_URI", h) THEN ParseURI(h) ELSE h
AfterHeaders(h) == IF In("STATE_PARSE_HEADERS", h) THEN ParseHeaders(h) ELSE h
AfterBody(h) == IF In("STATE_RECV_BODY", h) THEN ReceiveBody(h) ELSE h
Analysed(h, fs) == IF In("STATE_ANALYSIS", h) THEN AnalyzeRequest(h, fs) ELSE h

Init ==
  /\ input \in Inputs
  /\ http = NewHttpData
  /\ arriving = input.tokens
  /\ pieces = 0
  /\ analysed = Nothing

\* HttpData::handle_read() after readn() has read the next piece.  Its
\* answer and what follows (handle_write, reset, handle_connect) are in
\* Connection; a connection that has failed or finished is closed.
handle_read ==
  /\ ~http.is_error_ /\ http.process_state_ # "STATE_FINISH"
  /\ \E n \in 1..Len(arriving), fs \in FileSystem :
       LET received == [http EXCEPT !.buffer_in_ = @ \o SubSeq(arriving, 1, n)]
           h == AfterBody(AfterHeaders(AfterURI(received)))
       IN /\ http' = Analysed(h, fs)
          /\ analysed' = IF In("STATE_ANALYSIS", h) THEN h ELSE analysed
          /\ arriving' = SubSeq(arriving, n + 1, Len(arriving))
  /\ pieces' = pieces + 1
  /\ UNCHANGED input

Next == handle_read

Spec == Init /\ [][Next]_vars

-----------------------------------------------------------------------------
(* Properties.                                                             *)

\* A request as its sender means it: a record with the method, the name, a
\* sequence of headers (pairs of a key and a value) and the body.
Line(r) ==
  <<r.method, "SP", "/">> \o r.name \o <<"SP", "HTTP", "/", r.version, "CR", "LF">>
Header(e) == e[1] \o <<":", "SP">> \o e[2] \o <<"CR", "LF">>
Request(r) ==
  Line(r) \o FlattenSeq([k \in DOMAIN r.headers |-> Header(r.headers[k])])
    \o <<"CR", "LF">> \o r.body

WellFormed(r) == [request |-> r, tokens |-> Request(r), well_formed |-> TRUE]
Malformed(tokens) == [tokens |-> tokens, well_formed |-> FALSE]

\* What can stand within a line.
Text == Tokens \ {"CR", "LF"}

\* A header that the parser takes as it is meant: a CR behind ": " would be
\* taken for the value (H_SPACES_AFTER_COLON).
PlainHeader(e) ==
  /\ e \in Seq(Text \ {":", "SP"}) \X Seq(Text)
  /\ e[1] # <<>> /\ e[2] # <<>>

\* The requests that something is claimed about: no part contains what
\* separates it from the next, no method is found in the name (parse_URI
\* looks for one everywhere), the name of the first header does not begin with
\* the letter that H_START skips, and no two headers have the same name.
PlainRequest(r) ==
  /\ r.method \in {"GET", "POST", "HEAD"} /\ r.version \in {"1.0", "1.1"}
  /\ r.name \in Seq(Text \ {"SP", "GET", "POST"})
  /\ r.body \in Seq(Tokens)
  /\ r.headers \in Seq(Seq(Tokens) \X Seq(Tokens))
  /\ r.headers # <<>> => r.headers[1][1][1] # "r"
  /\ \A e \in ToSet(r.headers) :
       /\ PlainHeader(e)
       /\ e[1] = ContentLength => Numbers[e[2][1]] = Len(r.body)
       /\ \A f \in ToSet(r.headers) : e[1] = f[1] => e = f

ASSUME InputsAssumption ==
  /\ {"GET", "POST", "HEAD", "SP", "/", "HTTP", "1.0", "1.1", "CR", "LF", ":"}
       \subseteq Tokens
  /\ "junk" \notin Tokens
  /\ \A in \in Inputs :
       /\ in.tokens \in Seq(Tokens)
       /\ in.well_formed => in = WellFormed(in.request) /\ PlainRequest(in.request)

\* What the server should make of a request.
Meant(r) ==
  [Http_method_ |-> CASE r.method = "GET" -> "METHOD_GET"
                      [] r.method = "POST" -> "METHOD_POST"
                      [] r.method = "HEAD" -> "METHOD_HEAD",
   file_name_ |-> IF r.name = <<>> THEN <<"index.html">> ELSE
                  LET q == {k \in DOMAIN r.name : r.name[k] = "?"}
                  IN IF q = {} THEN r.name ELSE SubSeq(r.name, 1, Min(q) - 1),
   headers_ |-> ToSet(r.headers)]
Understood ==
  [Http_method_ |-> analysed.Http_method_, file_name_ |-> analysed.file_name_,
   headers_ |-> {<<key, analysed.headers_[key]>> : key \in DOMAIN analysed.headers_}]

AllArrived == arriving = <<>>

\* A request without headers is refused, one with too long a value, and a POST
\* without the length of its body.
Accepted(r) ==
  /\ r.headers # <<>>
  /\ \A e \in ToSet(r.headers) : Len(e[2]) <= MaxValue
  /\ r.method = "POST" => \E e \in ToSet(r.headers) : e[1] = ContentLength

\* A well-formed request without a body that arrives in one piece is
\* analysed, with the method, the name and the headers its sender meant
\* (parse_URI, parse_Headers).
OnePieceIsUnderstood ==
  input.well_formed /\ pieces = 1 /\ AllArrived /\ input.request.body = <<>>
    /\ Accepted(input.request) => analysed # Nothing /\ Understood = Meant(input.request)

\* However a request is cut, a header that the parser stores under a key of
\* the request has the value the request gives it: what cutting can lose are
\* whole headers (read_cur and parse_state_ between two calls).
HeadersNotFalsified ==
  input.well_formed =>
    \A e \in ToSet(input.request.headers) :
      e[1] \in DOMAIN http.headers_ => http.headers_[e[1]] = e[2]

\* However it is cut, a request is analysed only when all of its headers
\* have arrived (H_END_CR, H_END_LF).
NotAnalysedEarly ==
  input.well_formed /\ analysed # Nothing
    => Len(arriving) <= Len(input.request.body)

\* However it is cut, the parser does not wait for more when all of a
\* request without a body has arrived: it has analysed or refused it.
Settled ==
  input.well_formed /\ AllArrived /\ input.request.body = <<>>
    => analysed # Nothing \/ http.is_error_

\* A pass has one of the outcomes that Connection works with.
ImplementsStages ==
  [][Outcome(http'.process_state_, http'.is_error_,
             http'.buffer_out_ = "200") \in Outcomes(http.process_state_)]_vars
=============================================================================
