SPECIFICATION Spec
CONSTANTS
  Name = {"CLK", "BUF_1", "FF_1", "FF_2"}
  FFName = {"FF_1", "FF_2"}
  CellName = {"X2", "X9", "D"}
  Value = {0, 1, 2}
  LibraryLine <- MCLibraryLines
  StructureLine <- MCStructureLines
  ReportLine <- MCReportLines
  MaxCells = 1
  MaxLines <- MCMaxLines
INVARIANTS
  TypeOK
  ParentIsNearestAbove
  HoldDelayIsOfItsPair
  WriterReproduces
