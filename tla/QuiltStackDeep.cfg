SPECIFICATION Spec
CONSTANTS
  p1 = p1
  p2 = p2
  p3 = p3
  f1 = f1
  f2 = f2
  a = a
  b = b
  Absent = Absent
  Patches = {p1, p2, p3}
  Files = {f1}
  Hidden = {}
  Lines = {a, b}
  HunkOf <- OneHunk
  EditTo <- DeepEdits
  ImportFrom <- DeepImports
  FoldFrom <- DeepFolds
SYMMETRY PatchNames
INVARIANTS
  TypeOK
  AppliedIsSeriesPrefix
  OnlyAppliedInPc
PROPERTIES
  CommandsKeepUnderneath
  RefreshRecordsPatch
  MarkerKeptUntilRefresh
