SPECIFICATION Spec
CONSTANTS
  Servers = {s}
  Logins = {l}
  Nobody = Nobody
  NoFile = NoFile
  Anything = Anything
  MaxIssued = 4
  MaxClock = 5
INVARIANTS
  OldLoginStaysReplaced
  SavedOnExit
PROPERTIES
  ConditionalSave
  ChangedByAnother
