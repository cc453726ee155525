SPECIFICATION Spec
CONSTANTS
  p1 = p1
  p2 = p2
  p3 = p3
  f1 = f1
  f2 = f2
  f3 = f3
  a = a
  b = b
  Absent = Absent
  Patches = {p1, p2, p3}
  Files = {f1, f2, f3}
  Hidden = {f3}
  Lines = {a, b}
  HunkOf <- OneHunk
  EditTo <- SomeTrees
  ImportFrom <- SomeImports
  MaxMishaps = 0
SYMMETRY PatchNames
PROPERTY ImplementsStack
