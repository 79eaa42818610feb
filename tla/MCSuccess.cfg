CONSTANTS
  LINES_PER_STREAM = 10
  MaxLines = 2
  MaxRuns = 1
SPECIFICATION Spec
INVARIANT
  SuccessIsTrue
CHECK_DEADLOCK FALSE
