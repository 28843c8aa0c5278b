\* Two requests at a time, an authored level and a draft, seeds at any time.
SPECIFICATION Spec
CONSTANTS
  l1 = l1
  l2 = l2
  MaxArrows = 2
  MaxCells = 9
  MaxSide = 3
  Absent = Absent
  LevelIds = {l1, l2}
  Authored <- Files
  Payloads <- Bodies
  Requests = {r1, r2}
  NoLevel = NoLevel
  NoRow = NoRow
SYMMETRY Symmetry
INVARIANT TypeOK
INVARIANT PublishedPlayable
INVARIANT CatalogReadable
PROPERTY OnlyStaleCopiesUndo
