CONSTANTS
  MaxLines = 2
  MaxColumns = 9
  MaxDamage = 1
  Lines <- DamagedLines
SPECIFICATION Spec
INVARIANTS
  ChecksEveryTick
  AgreesWithParser
  OutOfRangeOnlyIfShort
