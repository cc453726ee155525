------------------------------ MODULE MCQuiltDisk ------------------------------
(***************************************************************************)
(* Instances of QuiltDisk for TLC: two files, so that a loop over files    *)
(* can stop half way and a push can be rejected by one file only, and in   *)
(* the run without mishaps a third one, whose name begins with a dot.      *)
(***************************************************************************)
EXTENDS QuiltDisk

CONSTANTS p1, p2, p3, f1, f2, f3, a, b

NoSections == [f \in Files |-> Absent]

\* All changes of a file in one hunk, or each line in a hunk of its own.
OneHunk == [l \in Lines |-> Absent]
OwnHunks == [l \in Lines |-> l]

SomeTrees == {Absent, {a}}

Change == [old |-> {a}, new |-> {b}]
Create == [old |-> Absent, new |-> {a}]

SomeImports ==
  {[NoSections EXCEPT ![f1] = Change, ![f2] = Create],
   [NoSections EXCEPT ![f1] = Change, ![f3] = Create]}

OneTree == {{a}}

ChangeImports == {[f \in Files |-> Change]}

PatchNames == Permutations(Patches)
=============================================================================
