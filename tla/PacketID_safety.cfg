SPECIFICATION Spec
CONSTANTS
  Shared = {a1, a2, a3}
  Single = b
  Headings <- MCHeadings
  ShortName <- MCShortName
  Ids = {id0, id1}
  States = {"Login", "Play"}
  Targets = {"Client", "Server"}
  Text = text
  MaxTables = 3
  MaxRows = 3
  MaxCols = 3
  MaxOdd = 1
SYMMETRY MCSymmetry
INVARIANTS
  TypeOK
  Extracted
  HeadingsOnce
  UniqueNames
CHECK_DEADLOCK FALSE
