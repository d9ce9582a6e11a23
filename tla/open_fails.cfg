SPECIFICATION Spec
CONSTANTS
  Boards <- MCFiles
  Marks <- MCMarks
  Trimmed <- MCTrimmed
  Texts = {b1, b2}
  Absent = Absent
  Empty = Empty
  Part = Part
  None = None
INVARIANTS
  NoPlausibleMark
