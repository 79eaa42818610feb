CONSTANTS
  Symbols = {max, top, garden, glass}
  INDEX_RANGE = 4
SPECIFICATION Spec
SYMMETRY TickerSymmetry
INVARIANTS
  TypeOK
  FileDecodesData
  TableDecodesData
