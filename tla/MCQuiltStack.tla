----------------------------- MODULE MCQuiltStack -----------------------------
(***************************************************************************)
(* Instances of QuiltStack for TLC.  The "deep" one has three patches over *)
(* one file, so that a patch has two others above it; the "wide" one has   *)
(* two files in one patch, so that a patch applies to one and is rejected  *)
(* by the other, and every kind of file state.                             *)
(***************************************************************************)
EXTENDS QuiltStack

CONSTANTS p1, p2, p3, f1, f2, a, b

NoSections == [f \in Files |-> Absent]

\* All changes of a file in one hunk, or each line in a hunk of its own.
OneHunk == [l \in Lines |-> Absent]
OwnHunks == [l \in Lines |-> l]

Everywhere(old, new) == [f \in Files |-> [old |-> old, new |-> new]]

DeepEdits   == {Absent, {a}}
DeepImports == {Everywhere(Absent, {a})}
DeepFolds   == {Everywhere(Absent, {a})}

WideEdits   == {Absent, {}, {a}, {a, b}}
WideImports ==
  {Everywhere(Absent, {a}),
   [NoSections EXCEPT ![f1] = [old |-> {a}, new |-> Absent]],
   [Everywhere({a}, {b}) EXCEPT ![f1] = [old |-> {a}, new |-> {a, b}]]}
WideFolds   == {[Everywhere({a}, {a, b}) EXCEPT ![f1] = [old |-> Absent, new |-> {a}]]}

PatchNames == Permutations(Patches)
=============================================================================
