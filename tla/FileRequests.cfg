SPECIFICATION FairSpec
CONSTANTS
  Bodies = {a, b}
  Others = {o}
  OtherSizes = {2}
  Limit = 2
  MetaSize = 1
  Budget = 4
  Absent = Absent
  Old = Old
CONSTRAINTS
  OthersOnlyMeet
  OldSizes
  OneStray
ACTION_CONSTRAINT
  OthersBegin
INVARIANTS
  WholeBodiesOnly
  TruthfulReply
  NothingLost
  WithinBudget
  RangeServed
PROPERTIES
  ConditionalWrite
  Answered
