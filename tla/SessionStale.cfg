SPECIFICATION Spec
CONSTANTS
  Servers = {s}
  Logins = {l}
  Nobody = Nobody
  NoFile = NoFile
  Anything = Anything
  MaxIssued = 3
  MaxClock = 5
PROPERTIES
  UpdateWins
