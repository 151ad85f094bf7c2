SPECIFICATION Spec
CONSTANTS
  Paths = {p, q}
  Contents = {a, b}
  Ids = {i}
  Absent = Absent
  Dir = Dir
  NoPath = NoPath
  NoId = NoId
  Journaled = TRUE
INVARIANTS
  ReadersSeeNoWindow
