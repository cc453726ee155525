------------------------------ MODULE QuiltPatch ------------------------------
(***************************************************************************)
(* What the quilt commands of src/src/quilt.cpp store and exchange: files, *)
(* backup copies, and patch files, with the two conversions between them - *)
(* the built-in diff and the built-in patch.                               *)
(*                                                                         *)
(* A file is the set of its lines.  The order of the lines, their context  *)
(* and the search for a hunk's position are left to the engine itself; a   *)
(* hunk of a patch applies to a file exactly when the lines it deletes are *)
(* all there, which is what a hunk without context needs.                  *)
(***************************************************************************)
EXTENDS Naturals

CONSTANTS
  Files,      \* paths in the source tree
  Hidden,     \* paths whose base name begins with a dot
  Lines,      \* lines that files are made of
  HunkOf,     \* where a line belongs: the changes there are one hunk
  Absent      \* "there is no such thing": no file, backup, section or patch

Content   == SUBSET Lines
FileState == {Absent} \cup Content

\* What read_file returns: a file that does not exist reads as an empty one.
Text(c) == IF c = Absent THEN {} ELSE c

(***************************************************************************)
(* A section is the part of a patch file about one file: its two sides, of *)
(* which a missing one is written as /dev/null.  A patch has at most one   *)
(* section per file, as every patch that refresh writes.                   *)
(***************************************************************************)
Section == {s \in [old : FileState, new : FileState] : Text(s.old) # Text(s.new)}
Patch   == [Files -> {Absent} \cup Section]

ASSUME AbsentIsNoValue ==
  /\ \A c \in Content : c # Absent
  /\ \A s \in Section : s # Absent
  /\ \A P \in Patch : P # Absent

-----------------------------------------------------------------------------
(***************************************************************************)
(* Backups.  A file that does not exist is saved as an empty placeholder,  *)
(* and an empty backup is restored by removing the file.                   *)
(***************************************************************************)
Saved(c) == Text(c)

Restored(b) == IF b = {} THEN Absent ELSE b

-----------------------------------------------------------------------------
\* A slip in generate_path_diff: a section even when nothing differs.
DiffAlways(old, new) == [old |-> old, new |-> new]

\* generate_path_diff: nothing to say when the two sides read the same.
Diff(old, new) ==
  IF Text(old) = Text(new) THEN Absent ELSE [old |-> old, new |-> new]

\* parse_patch with `reverse`: the two sides of the section trade places.
Oriented(s, rev) == IF rev THEN [old |-> s.new, new |-> s.old] ELSE s

Deletes(s) == Text(s.old) \ Text(s.new)
Inserts(s) == Text(s.new) \ Text(s.old)

\* A section that is not a creation has no file to patch.
CannotFind(s, c) == c = Absent /\ s.old # Absent

\* Some hunk of the section does not apply to c; -f only forgives a missing file.
Rejects(s, c, force) ==
  \/ CannotFind(s, c) /\ ~force
  \/ ~(Deletes(s) \subseteq Text(c))

\* The lines that those hunks of s change which apply to c.
Changing(s, c) ==
  {l \in Deletes(s) \cup Inserts(s) :
     \A d \in Deletes(s) : HunkOf[d] = HunkOf[l] => d \in Text(c)}

(***************************************************************************)
(* The file builtin_patch leaves behind.  The hunks that apply are applied *)
(* even when others are rejected; the file is left alone when none does,   *)
(* or when it is not found.  With -E a file that ends up empty is removed  *)
(* unless the section creates it.                                          *)
(***************************************************************************)
Patched(s, c, force, removeEmpty) ==
  LET change == Changing(s, c)
      out == (Text(c) \ (Deletes(s) \cap change)) \cup (Inserts(s) \cap change)
      untouched == \/ CannotFind(s, c) /\ ~force
                   \/ change = {} /\ s.old # Absent
  IN IF untouched THEN c
     ELSE IF removeEmpty /\ out = {} /\ s.old # Absent THEN Absent
     ELSE out

\* The files parse_patch_files finds: those with a "+++" line that names a file.
Affected(P) == {f \in Files : P[f] # Absent /\ P[f].new # Absent}

\* The files a patch deletes, whose "+++" line is /dev/null.
Unlisted(P) == {f \in Files : P[f] # Absent /\ P[f].new = Absent}

\* builtin_patch over a whole patch, and whether it exits with rejects.
PatchedTree(P, t, rev, force, removeEmpty) ==
  [f \in Files |-> IF P[f] = Absent THEN t[f]
                   ELSE Patched(Oriented(P[f], rev), t[f], force, removeEmpty)]

HasRejects(P, t, rev, force) ==
  \E f \in Files : P[f] # Absent /\ Rejects(Oriented(P[f], rev), t[f], force)
=============================================================================
