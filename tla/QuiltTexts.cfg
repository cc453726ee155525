SPECIFICATION MCSpec
CONSTANTS
  LineA = LineA
  LineB = LineB
  fileA = fileA
  fileB = fileB
  Text <- MCText
  Givens <- MCGivens
  Files <- MCFiles
  Queries <- MCQueries
  Contents <- MCText
  Histories <- MCHistories
  MaxFuzz = 1
  CostFloor = 2
  ChainLimit = 2
  DepthLimit = 1
INVARIANTS
  ScriptsAreExact
  MinimalIsShortest
  ContextDiffIsComplete
  RoundTrip
  SegmentsDisjoint
  MergeKeepsOurs
  IndependentPatchesApply
  GraphIsExact
  GraphIsReduced
  AnnotateIsFaithful
PROPERTIES
  RejectsAreHonest
