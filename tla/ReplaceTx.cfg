SPECIFICATION FairSpec
CONSTANTS
  Paths = {p, q}
  Contents = {a, b, c}
  Ids = {i, j}
  Absent = Absent
  Dir = Dir
  NoPath = NoPath
  NoId = NoId
  Journaled = TRUE
INVARIANTS
  TypeOK
  IInv
  OriginalPreserved
  JournalCoversRemote
  SinglePending
  JournalReadable
PROPERTIES
  Atomic
  CommitIsFinal
  Answered
  NeverWedged
