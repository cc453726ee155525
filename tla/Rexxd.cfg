SPECIFICATION Spec
CONSTANTS
  Jobs <- MCJobs
  BufSize = 3
  MaxOff = 15
  Star = Star
  MaxFaults = 1
INVARIANTS
  BuffersInBounds
  DumpIsExact
  ReverseRestores
CHECK_DEADLOCK FALSE
