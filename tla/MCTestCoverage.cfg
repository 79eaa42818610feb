CONSTANTS
  BUFFER_CAPACITY = 32
  TICKER_SIZE = 14
  SIDE_SIZE = 2
  SHARE_SIZE = 20
  CHAR_SIZE = 8
  TIME_HIGH = 5
  INDEX_BITS = 16
  SIDE_BITS = 8
  Ticks = {}
  MaxTicks = 0
  TickCount = 60
SPECIFICATION TSpec
INVARIANT
  PassesButForError
