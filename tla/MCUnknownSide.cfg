CONSTANTS
  BUFFER_CAPACITY = 8
  TICKER_SIZE = 3
  SIDE_SIZE = 2
  SHARE_SIZE = 4
  CHAR_SIZE = 4
  TIME_HIGH = 1
  INDEX_BITS = 4
  SIDE_BITS = 5
  Ticks <- SomeSidesUnknown
  MaxTicks = 2
  Strings = {}
  MaxPad = 0
  MaxStrings = 0
SPECIFICATION SSpec
INVARIANTS
  OnlyItsExchangeIsSpoilt
