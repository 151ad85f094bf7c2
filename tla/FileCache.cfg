SPECIFICATION FairSpec
CONSTANTS
  Callers = {c, d}
  Targets = {t, u}
  NoTarget = NoTarget
  Budget = 1
INVARIANTS
  OpenFindsFile
  FillKeepsDirectory
  OwnCancellation
  LeavesNothing
PROPERTIES
  Returns
