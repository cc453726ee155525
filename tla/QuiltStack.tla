------------------------------ MODULE QuiltStack ------------------------------
(***************************************************************************)
(* The patch stack that the quilt commands of src/src/quilt.cpp maintain.  *)
(*                                                                         *)
(* A project has a series file that orders the patches, a patches          *)
(* directory with one file per patch, and .pc/ with the list of applied    *)
(* patches and, for each of those, a directory of backup copies: the files *)
(* as they were before the patch touched them.  Every command loads that   *)
(* state, runs, and writes it back, so here a command is one step.  A push *)
(* or a pop of several patches is the same step several times, as in the   *)
(* code: each round writes .pc/applied-patches and the loop stops at the   *)
(* first patch that fails.  push --refresh is a push and then a refresh.   *)
(***************************************************************************)
EXTENDS QuiltPatch, Sequences, SequencesExt

CONSTANTS
  Patches,        \* patch names
  EditTo,         \* what an editor, or any tool but quilt, leaves in a file
  ImportFrom,     \* patch files from elsewhere, for quilt import
  FoldFrom        \* diffs on standard input, for quilt fold

ASSUME InputsAreLegal ==
  /\ EditTo \subseteq FileState
  /\ ImportFrom \subseteq Patch
  /\ FoldFrom \subseteq Patch

VARIABLES
  series,         \* the series file: every patch the project knows, in order
  applied,        \* .pc/applied-patches, the topmost last
  reversed,       \* the patches that the series file marks -R
  patchFile,      \* patches/<p>: a Patch, or Absent when there is no such file
  backup,         \* .pc/<p>/<f>: a backup copy, or Absent
  needsRefresh,   \* the patches with a marker .pc/<p>/.needs_refresh
  tree            \* the working tree

vars == <<series, applied, reversed, patchFile, backup, needsRefresh, tree>>

TypeOK ==
  /\ series \in Seq(Patches)
  /\ applied \in Seq(Patches)
  /\ reversed \subseteq Patches
  /\ patchFile \in [Patches -> {Absent} \cup Patch]
  /\ backup \in [Patches -> [Files -> {Absent} \cup Content]]
  /\ needsRefresh \subseteq Patches
  /\ tree \in [Files -> FileState]

-----------------------------------------------------------------------------
(* Looking things up, as the members of QuiltState do.                      *)

Position(s, p) == CHOOSE i \in DOMAIN s : s[i] = p /\ \A j \in 1 .. i-1 : s[j] # p

IsIn(s, p) == \E i \in DOMAIN s : s[i] = p

Top == Last(applied)

\* A slip in top_index: the index counts from the wrong end of the top.
TopIndexOffByOne ==
  IF applied # <<>> /\ IsIn(series, Top) THEN Position(series, Top) - 1 ELSE 0

TopIndex ==
  IF applied # <<>> /\ IsIn(series, Top) THEN Position(series, Top) ELSE 0

NextPatch == series[TopIndex + 1]

\* There is a backup (file_exists).
Tracks(p, f) == backup[p][f] # Absent

\* files_in_patch passes over every name that begins with a dot, as those of its
\* own markers do.
Listed(p, f) == Tracks(p, f) /\ f \notin Hidden

\* The patches applied after p; none when p itself is not applied.
Above(p) ==
  {applied[j] : j \in {k \in DOMAIN applied :
                         \E i \in 1 .. k-1 : applied[i] = p}}

NoBackups == [f \in Files |-> Absent]

Renamed(s, old, new) == [i \in DOMAIN s |-> IF s[i] = old THEN new ELSE s[i]]

\* Slips in rename and fork: .pc/<old> is copied, its marker is forgotten.
Copied(map, old, new, none) == [map EXCEPT ![new] = map[old]]

MarkerDropped(set, old, new) == set \ {old}

\* An entry of a per-patch map or set moves from one name to another.
Moved(map, old, new, none) == [map EXCEPT ![new] = map[old], ![old] = none]

MovedMember(set, old, new) ==
  IF old \in set THEN (set \ {old}) \cup {new} ELSE set

-----------------------------------------------------------------------------
(* Managing the files of a patch.                                           *)

\* quilt new: the patch goes right after the top and becomes the top.
New(p) ==
  /\ ~IsIn(series, p)
  /\ applied # <<>> => TopIndex > 0
  /\ series' = InsertAt(series, TopIndex + 1, p)
  /\ applied' = Append(applied, p)
  /\ UNCHANGED <<reversed, patchFile, backup, needsRefresh, tree>>

\* A slip in add: the patches above are not asked about the file.
AddFileUnasked(p, f) ==
  /\ IsIn(applied, p)
  /\ ~Tracks(p, f)
  /\ backup' = [backup EXCEPT ![p][f] = Saved(tree[f])]
  /\ UNCHANGED <<series, applied, reversed, patchFile, needsRefresh, tree>>

\* quilt add -P p f
AddFile(p, f) ==
  /\ IsIn(applied, p)
  /\ ~Tracks(p, f)
  /\ \A q \in Above(p) : ~Tracks(q, f)
  /\ backup' = [backup EXCEPT ![p][f] = Saved(tree[f])]
  /\ UNCHANGED <<series, applied, reversed, patchFile, needsRefresh, tree>>

\* quilt remove -P p f
RemoveFile(p, f) ==
  /\ IsIn(applied, p)
  /\ Tracks(p, f)
  /\ tree' = [tree EXCEPT ![f] = Restored(backup[p][f])]
  /\ backup' = [backup EXCEPT ![p][f] = Absent]
  /\ UNCHANGED <<series, applied, reversed, patchFile, needsRefresh>>

\* quilt edit f: the top tracks the file before the editor changes it.
Edit(f, c) ==
  /\ applied # <<>>
  /\ backup' = IF Tracks(Top, f) THEN backup
               ELSE [backup EXCEPT ![Top][f] = Saved(tree[f])]
  /\ tree' = [tree EXCEPT ![f] = c]
  /\ UNCHANGED <<series, applied, reversed, patchFile, needsRefresh>>

\* The working tree is also open to everything that is not quilt.
UserEdit(f, c) ==
  /\ tree[f] # c
  /\ tree' = [tree EXCEPT ![f] = c]
  /\ UNCHANGED <<series, applied, reversed, patchFile, backup, needsRefresh>>

\* A slip in revert: the backup itself is put back.
RevertFileToBackup(p, f) ==
  /\ IsIn(applied, p)
  /\ \A q \in Above(p) : ~Listed(q, f)
  /\ Tracks(p, f)
  /\ tree' = [tree EXCEPT ![f] = Restored(backup[p][f])]
  /\ UNCHANGED <<series, applied, reversed, patchFile, backup, needsRefresh>>

(***************************************************************************)
(* quilt revert -P p f: the patch applied to the backup copy is the state  *)
(* the last refresh recorded.  The patch is applied forwards whatever the  *)
(* series says, to a file that exists even when the backup is empty.       *)
(***************************************************************************)
RevertFile(p, f) ==
  LET s     == IF patchFile[p] = Absent THEN Absent ELSE patchFile[p][f]
      clean == IF s = Absent THEN backup[p][f]
               ELSE Patched(s, backup[p][f], FALSE, FALSE)
  IN /\ IsIn(applied, p)
     /\ \A q \in Above(p) : ~Listed(q, f)
     /\ Tracks(p, f)
     /\ Text(tree[f]) # clean
     /\ tree' = [tree EXCEPT ![f] = Restored(clean)]
     /\ UNCHANGED <<series, applied, reversed, patchFile, backup, needsRefresh>>

-----------------------------------------------------------------------------
(* Regenerating a patch from its backups.                                   *)

\* The files listed for any patch above p, whatever p tracks itself.
Shadowed(p) == {f \in Files : \E q \in Above(p) : Listed(q, f)}

\* A slip in refresh: the last patch above p instead of the first.
LastBackup(p, f) ==
  LET i == CHOOSE i \in DOMAIN applied :
             /\ applied[i] \in Above(p) /\ Listed(applied[i], f)
             /\ \A j \in i+1 .. Len(applied) : ~Listed(applied[j], f)
  IN backup[applied[i]][f]

\* The backup of a shadowed file in the first patch above p that has one.
NextBackup(p, f) ==
  LET i == CHOOSE i \in DOMAIN applied :
             /\ applied[i] \in Above(p) /\ Listed(applied[i], f)
             /\ \A j \in 1 .. i-1 : ~(applied[j] \in Above(p) /\ Listed(applied[j], f))
  IN backup[applied[i]][f]

\* The patch file that refresh computes for p.
Regenerated(p) ==
  [f \in Files |->
     IF ~Listed(p, f) THEN Absent
     ELSE Diff(Restored(backup[p][f]),
               IF f \in Shadowed(p) THEN Restored(NextBackup(p, f)) ELSE tree[f])]

(***************************************************************************)
(* quilt refresh [-f] p, for any name p.  When the text of the patch file  *)
(* comes out as it was, refresh returns early and leaves .needs_refresh    *)
(* behind; whether it does depends on the timestamps in the labels.        *)
(***************************************************************************)
Refresh(p, force) ==
  /\ applied # <<>>
  /\ ~force => Shadowed(p) = {}
  /\ patchFile' = [patchFile EXCEPT ![p] = Regenerated(p)]
  /\ \/ needsRefresh' = needsRefresh \ {p}
     \/ patchFile[p] = Regenerated(p) /\ needsRefresh' = needsRefresh
  /\ UNCHANGED <<series, applied, reversed, backup, tree>>

(***************************************************************************)
(* quilt refresh -z new: a patch after the top that starts where the top's *)
(* patch file ends.  Its backups are the top's backups with that patch     *)
(* applied in memory.                                                      *)
(***************************************************************************)
RefreshFork(new) ==
  LET old     == Top
      before  == [f \in Files |-> IF Listed(old, f) THEN Restored(backup[old][f])
                                                    ELSE Absent]
      between == IF patchFile[old] = Absent THEN before
                 ELSE PatchedTree(patchFile[old], before, old \in reversed, FALSE, FALSE)
      fork    == [f \in Files |-> IF Listed(old, f) THEN Saved(between[f])
                                                    ELSE backup[new][f]]
  IN /\ applied # <<>>
     /\ ~IsIn(series, new)
     /\ IsIn(series, old)
     /\ series' = InsertAt(series, Position(series, old) + 1, new)
     /\ applied' = Append(applied, new)
     /\ reversed' = IF old \in reversed THEN reversed \cup {new} ELSE reversed
     /\ backup' = [backup EXCEPT ![new] = fork]
     /\ patchFile' = [patchFile EXCEPT ![new] =
                        [f \in Files |-> IF fork[f] = Absent \/ f \in Hidden THEN Absent
                                         ELSE Diff(Restored(fork[f]), tree[f])]]
     /\ needsRefresh' = needsRefresh \ {new}
     /\ UNCHANGED tree

-----------------------------------------------------------------------------
(* Moving up and down the stack.                                            *)

CanPush ==
  /\ applied # <<>> => Top \notin needsRefresh
  /\ TopIndex < Len(series)
  /\ patchFile[NextPatch] # Absent

AfterPush(p, force) == PatchedTree(patchFile[p], tree, p \in reversed, force, TRUE)

\* A slip in push: the patch is applied before the files are saved.
SavedAfterPatching(p) ==
  [f \in Files |-> IF f \in Affected(patchFile[p]) THEN Saved(AfterPush(p, FALSE)[f])
                                                   ELSE backup[p][f]]

\* What is in .pc/<p> once push has saved the files it knows of.
SavedFor(p) ==
  [f \in Files |-> IF f \in Affected(patchFile[p]) THEN Saved(tree[f]) ELSE backup[p][f]]

PushRejects(p, force) == HasRejects(patchFile[p], tree, p \in reversed, force)

Recorded(p) ==
  /\ applied' = Append(applied, p)
  /\ backup' = [backup EXCEPT ![p] = SavedFor(p)]

\* Every hunk applies.
Push(force) ==
  LET p == NextPatch IN
  /\ CanPush
  /\ ~PushRejects(p, force)
  /\ tree' = AfterPush(p, force)
  /\ Recorded(p)
  /\ UNCHANGED <<series, reversed, patchFile, needsRefresh>>

\* push -f with rejects: what applied stays, and the patch is marked.
PushForced ==
  LET p == NextPatch IN
  /\ CanPush
  /\ PushRejects(p, TRUE)
  /\ tree' = AfterPush(p, TRUE)
  /\ Recorded(p)
  /\ needsRefresh' = needsRefresh \cup {p}
  /\ UNCHANGED <<series, reversed, patchFile>>

\* push with rejects: the files that were saved are restored, .pc/<p> goes.
PushFails ==
  LET p == NextPatch IN
  /\ CanPush
  /\ PushRejects(p, FALSE)
  /\ tree' = [f \in Files |-> IF f \in Affected(patchFile[p])
                              THEN Restored(SavedFor(p)[f])
                              ELSE AfterPush(p, FALSE)[f]]
  /\ backup' = [backup EXCEPT ![p] = NoBackups]
  /\ needsRefresh' = needsRefresh \ {p}
  /\ UNCHANGED <<series, applied, reversed, patchFile>>

\* The effect of pop and delete on the topmost patch: what is listed is restored,
\* and every backup is removed.
TakenDown ==
  /\ tree' = [f \in Files |-> IF Listed(Top, f) THEN Restored(backup[Top][f]) ELSE tree[f]]
  /\ backup' = [backup EXCEPT ![Top] = NoBackups]
  /\ needsRefresh' = needsRefresh \ {Top}
  /\ applied' = Front(applied)

(***************************************************************************)
(* quilt pop [-f] [--refresh].  Without -f the patch file must apply in    *)
(* reverse to the working tree; series -R is not looked at here.           *)
(***************************************************************************)
Pop(force, auto) ==
  LET P == IF auto THEN Regenerated(Top) ELSE patchFile[Top] IN
  /\ applied # <<>>
  /\ ~force /\ ~auto => Top \notin needsRefresh
  /\ ~force /\ P # Absent => ~HasRejects(P, tree, TRUE, TRUE)
  /\ patchFile' = [patchFile EXCEPT ![Top] = P]
  /\ TakenDown
  /\ UNCHANGED <<series, reversed>>

-----------------------------------------------------------------------------
(* Managing the series.                                                     *)

\* quilt delete [-r]: the top, which is taken down first, or an unapplied patch.
Delete(p, rm) ==
  /\ IsIn(series, p)
  /\ \/ IsIn(applied, p) /\ p = Top /\ TakenDown
     \/ ~IsIn(applied, p) /\ UNCHANGED <<applied, backup, needsRefresh, tree>>
  /\ series' = RemoveAt(series, Position(series, p))
  /\ patchFile' = IF rm THEN [patchFile EXCEPT ![p] = Absent] ELSE patchFile
  /\ reversed' = reversed \ {p}

\* quilt rename -P old new
Rename(old, new) ==
  /\ IsIn(series, old)
  /\ ~IsIn(series, new)
  /\ patchFile' = IF patchFile[old] = Absent THEN patchFile
                  ELSE Moved(patchFile, old, new, Absent)
  /\ IF IsIn(applied, old)
     THEN /\ applied' = Renamed(applied, old, new)
          /\ backup' = Moved(backup, old, new, NoBackups)
          /\ needsRefresh' = MovedMember(needsRefresh, old, new)
     ELSE UNCHANGED <<applied, backup, needsRefresh>>
  /\ reversed' = MovedMember(reversed, old, new)
  /\ series' = ReplaceAt(series, Position(series, old), new)
  /\ UNCHANGED tree

\* quilt fork new: the copy takes the place of the top; the old file stays.
Fork(new) ==
  LET old == Top IN
  /\ applied # <<>>
  /\ ~IsIn(series, new)
  /\ IsIn(series, old)
  /\ patchFile' = IF patchFile[old] = Absent THEN patchFile
                  ELSE [patchFile EXCEPT ![new] = patchFile[old]]
  /\ backup' = Moved(backup, old, new, NoBackups)
  /\ needsRefresh' = MovedMember(needsRefresh, old, new)
  /\ reversed' = MovedMember(reversed, old, new)
  /\ series' = ReplaceAt(series, Position(series, old), new)
  /\ applied' = Renamed(applied, old, new)
  /\ UNCHANGED tree

\* quilt import [-f] [-R] -P p file
Import(p, P, force, rev) ==
  /\ IsIn(series, p) => force /\ ~IsIn(applied, p)
  /\ patchFile' = [patchFile EXCEPT ![p] = P]
  /\ reversed' = IF rev THEN reversed \cup {p} ELSE reversed \ {p}
  /\ series' = IF IsIn(series, p) THEN series
               ELSE IF TopIndex > 0 THEN InsertAt(series, TopIndex + 1, p)
               ELSE Append(series, p)
  /\ UNCHANGED <<applied, backup, needsRefresh, tree>>

(***************************************************************************)
(* quilt fold [-R] [-f]: the diff is applied to the working tree as part   *)
(* of the top patch.  What applied stays even when a hunk is rejected, and *)
(* a file that ends up empty is kept.                                      *)
(***************************************************************************)
Fold(P, rev, force) ==
  /\ applied # <<>>
  /\ backup' = [backup EXCEPT ![Top] =
                  [f \in Files |-> IF f \in Affected(P) /\ ~Listed(Top, f)
                                   THEN Saved(tree[f]) ELSE backup[Top][f]]]
  /\ tree' = PatchedTree(P, tree, rev, force, FALSE)
  /\ UNCHANGED <<series, applied, reversed, patchFile, needsRefresh>>

-----------------------------------------------------------------------------
(***************************************************************************)
(* A project as quilt init leaves it: a source tree and no patches.        *)
(***************************************************************************)
Init ==
  /\ series = <<>>
  /\ applied = <<>>
  /\ reversed = {}
  /\ patchFile = [p \in Patches |-> Absent]
  /\ backup = [p \in Patches |-> NoBackups]
  /\ needsRefresh = {}
  /\ tree \in [Files -> EditTo]

FileCommand ==
  \E p \in Patches, f \in Files : AddFile(p, f) \/ RemoveFile(p, f) \/ RevertFile(p, f)

EditCommand == \E f \in Files, c \in EditTo : Edit(f, c)

RefreshCommand ==
  \/ \E p \in Patches, force \in BOOLEAN : Refresh(p, force)
  \/ \E new \in Patches : RefreshFork(new)

StackCommand ==
  \/ \E force \in BOOLEAN : Push(force)
  \/ PushForced
  \/ PushFails
  \/ \E force, auto \in BOOLEAN : Pop(force, auto)

SeriesCommand ==
  \/ \E p \in Patches : New(p) \/ Fork(p)
  \/ \E p \in Patches, rm \in BOOLEAN : Delete(p, rm)
  \/ \E old, new \in Patches : Rename(old, new)
  \/ \E p \in Patches, P \in ImportFrom, force, rev \in BOOLEAN : Import(p, P, force, rev)
  \/ \E P \in FoldFrom, rev, force \in BOOLEAN : Fold(P, rev, force)

Command == FileCommand \/ EditCommand \/ RefreshCommand \/ StackCommand \/ SeriesCommand

UserStep == \E f \in Files, c \in EditTo : UserEdit(f, c)

Next == Command \/ UserStep

Spec == Init /\ [][Next]_vars

-----------------------------------------------------------------------------
(***************************************************************************)
(* What each patch is applied on top of.  Underneath(i, f) is the state f  *)
(* comes back to when every patch from the i-th on is popped by force:     *)
(* the oldest backup those patches hold, or f as it is when they hold      *)
(* none.  Underneath(1, f) is the file as it is without any patch.         *)
(***************************************************************************)
Holders(i, f) == {j \in i .. Len(applied) : Listed(applied[j], f)}

Underneath(i, f) ==
  LET js == Holders(i, f) IN
  IF js = {} THEN tree[f]
  ELSE LET j == CHOOSE j \in js : \A k \in js : j <= k
       IN Restored(backup[applied[j]][f])

-----------------------------------------------------------------------------
(* Invariants.                                                              *)

(***************************************************************************)
(* The applied patches are the first patches of the series, in its order,  *)
(* and no patch is listed twice: push finds where to go on from the name   *)
(* of the top alone (top_index), and every command that inserts, removes   *)
(* or renames a patch edits the two lists separately.                      *)
(***************************************************************************)
AppliedIsSeriesPrefix ==
  /\ \A i, j \in DOMAIN series : series[i] = series[j] => i = j
  /\ Len(applied) <= Len(series)
  /\ \A i \in DOMAIN applied : applied[i] = series[i]

(***************************************************************************)
(* .pc/ holds backups and markers of applied patches only.  A directory    *)
(* left behind would be taken over by the next push of that name: its old  *)
(* backups would be restored, and its .needs_refresh marker would stop the *)
(* stack.                                                                  *)
(***************************************************************************)
OnlyAppliedInPc ==
  \A p \in Patches : ~IsIn(applied, p) => /\ backup[p] = NoBackups
                                          /\ p \notin needsRefresh

-----------------------------------------------------------------------------
(* Action properties.                                                       *)

\* What a push or a fold is about to delete without saving it first.
UnsavedByPush ==
  IF CanPush THEN Unlisted(patchFile[NextPatch]) ELSE {}

UnsavedByFold == UNION {Unlisted(P) : P \in FoldFrom}

\* remove of a file that a patch further up has saved as well.
RemovesShadowed(f) ==
  \E p \in Patches : /\ f \in Shadowed(p)
                     /\ RemoveFile(p, f)

(***************************************************************************)
(* No command changes what popping everything gives back, nor what lies    *)
(* underneath a patch for a file tracked there or further up: push, pop,   *)
(* add, fork, rename and refresh only move the boundaries between patches. *)
(* Left out are the four ways in which the code does lose a file: a name   *)
(* that begins with a dot (pop removes its backup and does not restore it, *)
(* see PopRestoresHidden), a patch that deletes it (push and fold save     *)
(* only the files with a "+++" name), a file that exists and is empty (its *)
(* backup reads as "no such file"), and remove -P below a patch that       *)
(* tracks the file too.                                                    *)
(***************************************************************************)
CommandsKeepUnderneath ==
  [][~UserStep =>
       \A i \in 1 .. Len(applied), f \in Files \ Hidden :
         \/ i > Len(applied') + 1
         \/ Underneath(i, f)' = Underneath(i, f)
         \/ i > 1 /\ Holders(i, f) = {}
         \/ Holders(i, f) = {} /\ \/ tree[f] = {}
                                  \/ f \in UnsavedByPush \cup UnsavedByFold
         \/ RemovesShadowed(f)]_vars

\* Where a patch was pushed, popping it gives back the tree as it was.
PushUndone ==
  (\E force \in BOOLEAN : Push(force)) \/ PushForced \/ PushFails =>
    \A i \in {Len(applied) + 1}, f \in Files \ (Hidden \cup UnsavedByPush) :
      tree[f] # {} => Underneath(i, f)' = tree[f]

(***************************************************************************)
(* Whatever a push does to the tree, forced or not, popping the patch      *)
(* gives back the tree as it was, and a push that fails leaves it as it    *)
(* was: save before patching, restore what was saved.  The files that the  *)
(* patch deletes, empty files and names that begin with a dot are left     *)
(* out, as above.                                                          *)
(***************************************************************************)
PushCanBeUndone == [][PushUndone]_vars

(***************************************************************************)
(* refresh records the patch: a push of the patch file it writes, on what  *)
(* lies underneath the patch, gives the text that the next patch up found  *)
(* (the working tree, for the top).  Patches marked -R are left out: the   *)
(* file is written forwards and would be applied in reverse; and so are    *)
(* names that begin with a dot, of which refresh writes nothing.           *)
(***************************************************************************)
RefreshRecordsPatch ==
  [][\A p \in Patches, force \in BOOLEAN :
       Refresh(p, force) /\ IsIn(applied, p) /\ p \notin reversed =>
         LET i == Position(applied, p) IN
         \A f \in Files : Listed(p, f) =>
           Text(PatchedTree(patchFile'[p], [g \in Files |-> Underneath(i, g)],
                            FALSE, FALSE, TRUE)[f]) = Text(Underneath(i + 1, f))]_vars

(***************************************************************************)
(* A patch that was pushed with rejects keeps its marker until its file is *)
(* regenerated or it is taken down: renaming or forking it, or working on  *)
(* other patches, does not pass it off as clean.                           *)
(***************************************************************************)
MarkerKeptUntilRefresh ==
  [][\A i \in DOMAIN applied \cap DOMAIN applied' :
       applied[i] \in needsRefresh /\ applied'[i] \notin needsRefresh' =>
         patchFile'[applied[i]] = Regenerated(applied[i])]_vars

(***************************************************************************)
(* revert puts back what pop will accept: after it, the patch of that file *)
(* is found in the file when pop looks for it in reverse.  It works for    *)
(* patches that apply to their backups at all.                             *)
(***************************************************************************)
RevertedFilePops ==
  [][\A p \in Patches, f \in Files :
       /\ RevertFile(p, f)
       /\ patchFile[p] # Absent
       /\ patchFile[p][f] # Absent
       /\ ~Rejects(patchFile[p][f], backup[p][f], FALSE)
       => ~Rejects(Oriented(patchFile'[p][f], TRUE), tree'[f], TRUE)]_vars

-----------------------------------------------------------------------------
(***************************************************************************)
(* What the program says of itself and does not do: each of these is the   *)
(* property of a run that finds it violated.                               *)
(***************************************************************************)

(***************************************************************************)
(* "Check if patch removes cleanly (detects dirty/unrefreshed changes)",   *)
(* says cmd_pop before it verifies: a pop without -f would then go ahead   *)
(* only when the files of the patch are as a push leaves them.             *)
(***************************************************************************)
PopDetectsPendingChanges ==
  [][Pop(FALSE, FALSE) =>
       \A f \in Files : Listed(Top, f) =>
         LET before == Restored(backup[Top][f])
             s      == IF patchFile[Top] = Absent THEN Absent ELSE patchFile[Top][f]
         IN Text(tree[f]) =
              IF s = Absent THEN Text(before)
              ELSE Text(Patched(Oriented(s, Top \in reversed), before, FALSE, TRUE))]_vars

(***************************************************************************)
(* "Remove the topmost applied patch by restoring files from backup", says *)
(* the usage of pop, and cmd_push of a failure "restore files from backups *)
(* and clean up": PushCanBeUndone for the files a patch deletes as well.   *)
(***************************************************************************)
PushOfDeletionCanBeUndone ==
  [][(\E force \in BOOLEAN : Push(force)) \/ PushForced \/ PushFails =>
       \A i \in {Len(applied) + 1}, f \in Files \ Hidden :
         tree[f] # {} /\ NextPatch \notin reversed => Underneath(i, f)' = tree[f]]_vars

(***************************************************************************)
(* "Remove the topmost applied patch by restoring files from backup", says *)
(* the usage of pop: each file that the patch had saved is restored before *)
(* the backups go, whatever its name.  A copy without text may come back   *)
(* as an empty file or as none.                                            *)
(***************************************************************************)
PopRestoresHidden ==
  [][(\E force, auto \in BOOLEAN : Pop(force, auto)) =>
       \A f \in Files : Tracks(Top, f) => Text(tree'[f]) = backup[Top][f]]_vars
=============================================================================
