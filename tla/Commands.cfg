SPECIFICATION FairSpec
CONSTANTS
  ChunkedFile = 2109497
INVARIANTS
  NothingLeftUnreported
  SuccessIsProven
PROPERTIES
  Ends
CHECK_DEADLOCK FALSE
