CONSTANTS
  MaxLines = 2
  MaxColumns = 10
  MaxDamage = 2
  Lines <- DamagedLines
SPECIFICATION Spec
INVARIANTS
  TypeOK
  ColumnsInPlace
  WellFormedAccepted
PROPERTY
  ImplementsLoader
