CONSTANTS
  LINES_PER_STREAM = 2
  MaxLines = 4
  MaxRuns = 2
  Symbols = {max, top, garden}
  CutName = cut
  INDEX_RANGE = 4
SPECIFICATION ASpec
SYMMETRY TickerSymmetry
INVARIANTS
  TypeOK
  TableMeansWhole
  StreamedInBatches
  NoErrorAllStreamed
  SuccessUnlessFailed
  ATypeOK
  MatchingDecodes
  SameInputDecodes
CHECK_DEADLOCK FALSE
