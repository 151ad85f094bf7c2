SPECIFICATION Spec
CONSTANTS
  Bodies = {a, b}
  Others = {o}
  OtherSizes = {2}
  Limit = 2
  MetaSize = 1
  Budget = 4
  Absent = Absent
  Old = Old
PROPERTIES
  ConditionsAlwaysHold
