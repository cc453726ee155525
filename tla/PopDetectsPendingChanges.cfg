SPECIFICATION Spec
CONSTANTS
  p1 = p1
  p2 = p2
  p3 = p3
  f1 = f1
  f2 = f2
  a = a
  b = b
  Absent = Absent
  Patches = {p1}
  Files = {f1, f2}
  Hidden = {}
  Lines = {a, b}
  HunkOf <- OneHunk
  EditTo <- WideEdits
  ImportFrom <- WideImports
  FoldFrom <- WideFolds
PROPERTY PopDetectsPendingChanges
