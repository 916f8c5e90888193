SPECIFICATION Spec
CONSTANTS
  Tokens <- MCTokens
  Inputs <- MCInputs
  MaxValue = 12
  Numbers <- MCNumbers
INVARIANTS OnePieceIsUnderstood HeadersNotFalsified NotAnalysedEarly Settled
PROPERTIES ImplementsStages
\* The request is over.
CHECK_DEADLOCK FALSE
