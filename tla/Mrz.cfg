SPECIFICATION MrzSpec
CONSTANTS
  Passport <- MCPassport
  Today = 20260615
  Stray = {20260101}
  Glyph <- Char
  MaxMisreads = 1
  MaxDates = 2
INVARIANT MisreadIsRefused
INVARIANT LineIsRead
INVARIANT IssueIsRecovered
CHECK_DEADLOCK FALSE
