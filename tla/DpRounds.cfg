SPECIFICATION Spec
CONSTANTS
  Cells <- MCCells
  UnitsPerKey = 3
  MaxKey = 5
  RoundLimit = 64
INVARIANTS
  TypeOK
  PrefixEntriesAreChains
  RowEntriesAreChains
  RoundsAreExact
  ConvergedTableIsMinimal
  RoundsEndByThemselves
PROPERTY AreasNeverRise
