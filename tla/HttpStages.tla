----------------------------- MODULE HttpStages -----------------------------
(***************************************************************************)
(* What HttpData's parser promises to the connection it belongs to: the    *)
(* outcomes that one pass through the stages of handle_read() can have,    *)
(* from the stage that the last pass stopped in, whatever the bytes are.   *)
(* Connection works with these outcomes, and HttpParser, which has the     *)
(* bytes, is shown to have no others.                                      *)
(***************************************************************************)

ProcessStates == {"STATE_PARSE_URI", "STATE_PARSE_HEADERS",
                  "STATE_RECV_BODY", "STATE_ANALYSIS", "STATE_FINISH"}

\* The stage a pass ends in, whether it failed, and whether analyze_request()
\* has put a response into buffer_out_.
Outcome(stage, failed, out) ==
  [stage |-> stage, failed |-> failed, out |-> out]

Failed(stage) == Outcome(stage, TRUE, FALSE)
Again(stage) == Outcome(stage, FALSE, FALSE)

\* A HEAD request may have no response; a POST request has none.
analyze_request ==
  {Outcome("STATE_FINISH", FALSE, out) : out \in BOOLEAN}
    \union {Failed("STATE_ANALYSIS")}

\* Only a POST request has a body.
receive_body ==
  {Again("STATE_RECV_BODY"), Failed("STATE_RECV_BODY"),
   Failed("STATE_ANALYSIS")}

parse_Headers ==
  {Again("STATE_PARSE_HEADERS"), Failed("STATE_PARSE_HEADERS")}
    \union receive_body \union analyze_request

\* parse_URI() never asks for more.
parse_URI == {Failed("STATE_PARSE_URI")} \union parse_Headers

Outcomes(stage) ==
  CASE stage = "STATE_PARSE_URI" -> parse_URI
    [] stage = "STATE_PARSE_HEADERS" -> parse_Headers
    [] stage = "STATE_RECV_BODY" -> receive_body

\* stoi() throws when the Content-length is not a number, nothing catches it
\* and the process ends: a pass that gets as far as the body may not return.
MayTerminate(stage) == Again("STATE_RECV_BODY") \in Outcomes(stage)
=============================================================================
