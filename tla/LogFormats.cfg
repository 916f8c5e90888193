SPECIFICATION Spec
CONSTANTS
  B = 4
  MaxPackages = 2
  Values <- MCValues
  num_append_ = 2
  Chars <- MCChars
  SIZE = 19
  max_digit_size = 6
  TimeSize = 1
  Pieces <- MCPieces
  log_name_ <- MCLogName
  num_lines_ = 7
  MaxPieces = 3
  MaxLines = 3
  MaxAppends = 3
INVARIANTS RoundTrip PackageIsMinimal FileIsLines FewUnflushed IntegersReadBack LineFits
\* The values and the lines are used up.
CHECK_DEADLOCK FALSE
