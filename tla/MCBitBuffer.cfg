CONSTANTS
  BUFFER_CAPACITY = 4
  MaxWords = 2
  Widths <- AllWidths
SPECIFICATION Spec
INVARIANTS
  TypeOK
  SpareBitsClear
  MoreIsHonest
PROPERTY
  ImplementsQueue
