SPECIFICATION Spec
CONSTANTS
  Dirs = {d, e}
  Readers = {r, s}
  None = None
  Failed = Failed
  MaxEntries = 1
  MaxVersion = 2
  MaxGeneration = 2
SYMMETRY Interchangeable
INVARIANTS
  TypeOK
  CacheIsCurrent
  ReadIsFresh
  SuccessIsReal
