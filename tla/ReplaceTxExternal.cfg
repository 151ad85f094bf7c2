SPECIFICATION ESpec
CONSTANTS
  Paths = {p, q}
  Contents = {a, b, c}
  Ids = {i}
  Absent = Absent
  Dir = Dir
  NoPath = NoPath
  NoId = NoId
  Journaled = TRUE
  LateRenames = {"preserve", "promote", "restore"}
  Writable = {c, Absent}
SYMMETRY Interchangeable
CONSTRAINT NotRaced
INVARIANTS
  NoBytesLostUnlessRaced
