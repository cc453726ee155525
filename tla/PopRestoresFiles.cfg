SPECIFICATION Spec
CONSTANTS
  p1 = p1
  p2 = p2
  p3 = p3
  f1 = f1
  f2 = f2
  f3 = f3
  a = a
  b = b
  Absent = Absent
  Patches = {p1, p2}
  Files = {f1, f2}
  Hidden = {}
  Lines = {a, b}
  HunkOf <- OneHunk
  EditTo <- OneTree
  ImportFrom <- ChangeImports
  MaxMishaps = 1
SYMMETRY PatchNames
CHECK_DEADLOCK FALSE
PROPERTY PopRestoresFiles
