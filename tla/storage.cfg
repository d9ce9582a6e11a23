SPECIFICATION Spec
CONSTANTS
  Boards <- MCBoards
  Marks <- MCMarks
  Trimmed <- MCTrimmed
  Texts = {b1, b2}
  Absent = Absent
  Empty = Empty
  Part = Part
  None = None
INVARIANTS
  TypeOK
  AckedIsRead
  MarkFailsClosed
PROPERTIES
  StrandedStays
