SPECIFICATION Spec
CONSTANTS
  Inputs <- MCInputs
  Cap = 8
  Deep = 6
  Absent = Absent
  Unreadable = Unreadable
INVARIANTS
  TypeOK
  LoadedAreTheNeeded
  ListedBeforeNeeded
  WalkIsExact
  VerdictIsRight
  LinkOrder
PROPERTIES
  CommandEnds
CHECK_DEADLOCK FALSE
