---------------------------- MODULE MCHttpParser ----------------------------
EXTENDS HttpParser

Host == <<<<"Host">>, <<"a">>>>
KeepAlive == <<<<"Connection">>, <<"keep-alive">>>>
Length(n) == <<ContentLength, <<n>>>>
\* A value in which the parser could mistake something.
Odd == <<<<"X">>, <<"a", ":", "SP", "r">>>>

\* A name that begins with the letter that H_START skips, and a value that ends
\* with the separator.
Ready == <<<<"r", "x">>, <<"a", ":", "SP">>>>

\* A value that is longer than the parser accepts.
Long == <<<<"X">>, [k \in 1..(MaxValue + 2) |-> "x"]>>

Req(method, name, headers, body) ==
  WellFormed([method |-> method, name |-> name, version |-> "1.1",
              headers |-> headers, body |-> body])

MCTokens ==
  {"GET", "POST", "HEAD", "HTTP", "1.0", "1.1", "SP", "/", "?", ":", "CR", "LF",
   "r", "x", "a", "b", "0", "2", "hello", "Host", "Connection", "keep-alive",
   "X", "Content-length"}

MCNumbers == [t \in {"0", "1", "2"} |->
                CASE t = "0" -> 0 [] t = "1" -> 1 [] OTHER -> 2]

\* The requests of client_test.cpp are the first three.
MCInputs ==
  {Malformed(<<"SP">>),
   Malformed(<<"GET", "SP", "HTTP", "/", "1.1">>),
   Req("GET", <<>>, <<Host, Odd, KeepAlive>>, <<>>),
   Malformed(<<"GET", "SP", "/", "a", "SP", "HTTP", "/", "1.0", "CR", "LF", "CR", "LF">>),
   Malformed(<<"GET", "SP", "/", "SP", "HTTP", "/", "1.1", "CR", "LF",
               "r", "x", ":", "SP", "a", "CR", "LF", "CR", "LF">>),
   Req("GET", <<"a", "?", "b">>, <<Host>>, <<>>),
   Req("GET", <<"?", "b">>, <<Host>>, <<>>),
   Req("GET", <<"hello">>, <<KeepAlive, Odd>>, <<>>),
   Req("GET", <<"a", ":">>, <<>>, <<>>),
   Req("HEAD", <<"b">>, <<Host, Long>>, <<>>),
   Req("HEAD", <<"a", "/", "b">>, <<Host, Ready, KeepAlive>>, <<>>),
   Req("POST", <<"a">>, <<Length("0")>>, <<>>),
   Req("POST", <<"b">>, <<Host>>, <<>>),
   Req("POST", <<"a">>, <<Length("2"), Host>>, <<"b", "b">>)}
=============================================================================
