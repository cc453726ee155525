--------------------------- MODULE QuiltAtomicProofs ---------------------------
(***************************************************************************)
(* QuiltDisk implements QuiltStack: as long as no call fails and no        *)
(* command is cut short, the disk that one command leaves to the next      *)
(* changes by steps of QuiltStack, for any patches, files and inputs.      *)
(*                                                                         *)
(* The invariant says, for each command and each of its steps, what the    *)
(* calls made so far have turned the settled disk into.  That the settled  *)
(* disk satisfies the invariant of QuiltStack is not proved again: it      *)
(* changes by steps of QuiltStack, and those keep it (NextIInv, about      *)
(* Before).                                                                *)
(***************************************************************************)
EXTENDS QuiltFailureProofs

-----------------------------------------------------------------------------
(* What the calls of a command have made of the settled disk.               *)

\* Of a push: the patch, what is saved first, and what builtin_patch makes.
PushedPatch == settled.patchFile[cmd.patch]

SavedFirst ==
  [f \in Files |-> IF f \in Affected(PushedPatch) THEN Saved(settled.tree[f])
                   ELSE settled.backup[cmd.patch][f]]

AfterPatch ==
  PatchedTree(PushedPatch, settled.tree, cmd.patch \in settled.reversed, cmd.force, TRUE)

Rejected(fs) ==
  \E f \in fs :
    /\ PushedPatch[f] # Absent
    /\ Rejects(Oriented(PushedPatch[f], cmd.patch \in settled.reversed), settled.tree[f], cmd.force)

\* The patch file, the marks and the copies of the other patches.
OthersKept ==
  /\ reversed = settled.reversed /\ patchFile = settled.patchFile
  /\ \A q \in Patches : q # cmd.patch => backup[q] = settled.backup[q]

Pushing ==
  /\ Atomic!CanPush /\ cmd.patch = Atomic!NextPatch
  /\ OthersKept
  /\ series = settled.series
  /\ needsRefresh \ {cmd.patch} = settled.needsRefresh \ {cmd.patch}
  /\ step # "clear" => needsRefresh = settled.needsRefresh
  /\ applied = IF step = "mark" THEN Append(settled.applied, cmd.patch) ELSE settled.applied
  /\ step = "save" =>
       /\ ~cmd.rejects
       /\ tree = settled.tree
       /\ todo \subseteq Affected(PushedPatch)
       /\ \A f \in Files \ todo : backup[cmd.patch][f] = SavedFirst[f]
  /\ step = "patch" =>
       /\ backup[cmd.patch] = SavedFirst
       /\ \A f \in Files : tree[f] = IF f \in todo THEN settled.tree[f] ELSE AfterPatch[f]
       /\ cmd.rejects <=> Rejected(Files \ todo)
  /\ step = "restore" =>
       /\ backup[cmd.patch] = SavedFirst
       /\ todo \subseteq Affected(PushedPatch)
       /\ \A f \in Files : tree[f] = IF f \in Affected(PushedPatch) \ todo
                                     THEN Restored(SavedFirst[f]) ELSE AfterPatch[f]
  /\ step = "clear" =>
       /\ \A f \in Files \ todo : backup[cmd.patch][f] = Absent
       /\ \A f \in Files : tree[f] = IF f \in Affected(PushedPatch)
                                     THEN Restored(SavedFirst[f]) ELSE AfterPatch[f]
  /\ step \in {"restore", "clear"} => Rejected(Files) /\ ~cmd.force
  /\ step \in {"applied", "mark"} =>
       /\ backup[cmd.patch] = SavedFirst
       /\ tree = AfterPatch
       /\ cmd.rejects <=> Rejected(Files)
       /\ cmd.rejects => cmd.force
       /\ step = "mark" => cmd.rejects

\* Of a pop, or of a delete of the top: the tree without the patch.
TakenTree ==
  [f \in Files |-> IF f \notin Hidden /\ settled.backup[cmd.patch][f] # Absent
                   THEN Restored(settled.backup[cmd.patch][f]) ELSE settled.tree[f]]

TakingDown ==
  /\ settled.applied # <<>> /\ cmd.patch = Atomic!Top
  /\ OthersKept
  /\ series = settled.series /\ applied = settled.applied
  /\ step = "restore" =>
       /\ backup = settled.backup /\ needsRefresh = settled.needsRefresh
       /\ todo \cap Hidden = {}
       /\ \A f \in Files : tree[f] = IF f \in todo THEN settled.tree[f] ELSE TakenTree[f]
  /\ step = "clear" =>
       /\ \A f \in Files \ todo : backup[cmd.patch][f] = Absent
       /\ needsRefresh \ {cmd.patch} = settled.needsRefresh \ {cmd.patch}
       /\ tree = TakenTree
  /\ step = "applied" =>
       /\ backup[cmd.patch] = Stack!NoBackups
       /\ needsRefresh = settled.needsRefresh \ {cmd.patch}
       /\ tree = TakenTree

Deleting ==
  /\ Stack!IsIn(settled.series, cmd.patch)
  /\ step \in {"series", "file"} =>
       /\ \/ /\ Stack!IsIn(settled.applied, cmd.patch) /\ settled.applied # <<>>
             /\ cmd.patch = Atomic!Top
             /\ applied = Front(settled.applied)
             /\ \A q \in Patches : q # cmd.patch => backup[q] = settled.backup[q]
             /\ backup[cmd.patch] = Stack!NoBackups
             /\ needsRefresh = settled.needsRefresh \ {cmd.patch}
             /\ tree = TakenTree
          \/ /\ ~Stack!IsIn(settled.applied, cmd.patch)
             /\ applied = settled.applied /\ backup = settled.backup
             /\ needsRefresh = settled.needsRefresh /\ tree = settled.tree
       /\ patchFile = settled.patchFile
  /\ step = "series" => series = settled.series /\ reversed = settled.reversed
  /\ step = "file" =>
       /\ cmd.rm
       /\ series = RemoveAt(settled.series, Stack!Position(settled.series, cmd.patch))
       /\ reversed = settled.reversed \ {cmd.patch}

Creating ==
  /\ ~Stack!IsIn(settled.series, cmd.patch)
  /\ settled.applied # <<>> => Atomic!TopIndex > 0
  /\ series = IF step = "series" THEN settled.series
              ELSE InsertAt(settled.series, Atomic!TopIndex + 1, cmd.patch)
  /\ applied = settled.applied /\ reversed = settled.reversed
  /\ patchFile = settled.patchFile /\ backup = settled.backup
  /\ needsRefresh = settled.needsRefresh /\ tree = settled.tree

\* How far a rename or a fork has come when nothing has gone wrong.
MovesOn ==
  /\ step \in {"file", "dir", "series", "applied"}
  /\ step = "file" => settled.patchFile[cmd.patch] # Absent
  /\ step # "file" => cmd.file = (settled.patchFile[cmd.patch] # Absent)
  /\ step = "dir" => Stack!IsIn(settled.applied, cmd.patch)
  /\ step = "series" => cmd.dir = Stack!IsIn(settled.applied, cmd.patch)
  /\ step = "applied" => cmd.dir /\ Stack!IsIn(settled.applied, cmd.patch)
  /\ cmd.op = "fork" => settled.applied # <<>> /\ cmd.patch = Atomic!Top

ImportsOn ==
  /\ step # "undo file"
  /\ cmd.text \in ImportFrom
  /\ Stack!IsIn(settled.series, cmd.patch) => ~Stack!IsIn(settled.applied, cmd.patch)

Progress ==
  /\ step # "torn"
  /\ cmd.op = "push" => Pushing
  /\ cmd.op = "pop" => TakingDown
  /\ cmd.op = "delete" => Deleting /\ (step \in {"restore", "clear", "applied"} => TakingDown)
  /\ cmd.op = "new" => Creating
  /\ cmd.op \in {"rename", "fork"} => MovesOn
  /\ cmd.op = "import" => ImportsOn

RInv == MInv /\ Before!IInv /\ Progress

-----------------------------------------------------------------------------
(* The same words in the other vocabularies.                                *)

(***************************************************************************)
(* QuiltStack about the settled disk, and QuiltStack about what is on      *)
(* disk, have the same operators on lists and on the parts of the disk.    *)
(***************************************************************************)
LEMMA SameLists ==
  /\ Atomic!NoBackups = Stack!NoBackups
  /\ \A s, p : Atomic!IsIn(s, p) <=> Stack!IsIn(s, p)
  /\ \A s, p : Atomic!Position(s, p) = Stack!Position(s, p)
  /\ \A s, p, n : Atomic!Renamed(s, p, n) = Stack!Renamed(s, p, n)
  /\ \A m, p, n, v : Atomic!Moved(m, p, n, v) = Stack!Moved(m, p, n, v)
  /\ \A S, p, n : Atomic!MovedMember(S, p, n) = Stack!MovedMember(S, p, n)
BY DEF Atomic!NoBackups, Stack!NoBackups, Atomic!IsIn, Stack!IsIn, Atomic!Position,
       Stack!Position, Atomic!Renamed, Stack!Renamed, Atomic!Moved, Stack!Moved,
       Atomic!MovedMember, Stack!MovedMember

(***************************************************************************)
(* On files and sections they agree as well.                               *)
(***************************************************************************)
LEMMA SameFiles ==
  /\ \A c : Atomic!Saved(c) = Saved(c)
  /\ \A b : Atomic!Restored(b) = Restored(b)
  /\ \A P : Atomic!Affected(P) = Affected(P)
  /\ \A P, t, rev, force, re :
       Atomic!PatchedTree(P, t, rev, force, re) = PatchedTree(P, t, rev, force, re)
  /\ \A P, t, rev, force : Atomic!HasRejects(P, t, rev, force) <=> HasRejects(P, t, rev, force)
<1>1. \A c : Atomic!Text(c) = Text(c)
  BY DEF Atomic!Text, Text
<1>2. \A s : Atomic!Deletes(s) = Deletes(s) /\ Atomic!Inserts(s) = Inserts(s)
  BY <1>1 DEF Atomic!Deletes, Deletes, Atomic!Inserts, Inserts
<1>3. \A s, c, force : Atomic!Rejects(s, c, force) <=> Rejects(s, c, force)
  BY <1>1, <1>2 DEF Atomic!Rejects, Rejects, Atomic!CannotFind, CannotFind
<1>4. \A s, c, force, re : Atomic!Patched(s, c, force, re) = Patched(s, c, force, re)
  <2>1. \A s, c : Atomic!Changing(s, c) = Changing(s, c)
    BY <1>1, <1>2 DEF Atomic!Changing, Changing
  <2> QED
    BY <1>1, <1>2, <2>1 DEF Atomic!Patched, Patched, Atomic!CannotFind, CannotFind
<1>5. \A s, rev : Atomic!Oriented(s, rev) = Oriented(s, rev)
  BY DEF Atomic!Oriented, Oriented
<1>6. \A P, t, rev, force, re :
        Atomic!PatchedTree(P, t, rev, force, re) = PatchedTree(P, t, rev, force, re)
  BY <1>4, <1>5 DEF Atomic!PatchedTree, PatchedTree
<1>7. \A P, t, rev, force : Atomic!HasRejects(P, t, rev, force) <=> HasRejects(P, t, rev, force)
  BY <1>3, <1>5 DEF Atomic!HasRejects, HasRejects
<1>8. /\ \A c : Atomic!Saved(c) = Saved(c)
      /\ \A b : Atomic!Restored(b) = Restored(b)
      /\ \A P : Atomic!Affected(P) = Affected(P)
  BY <1>1 DEF Atomic!Saved, Saved, Atomic!Restored, Restored, Atomic!Affected, Affected
<1> QED
  BY <1>6, <1>7, <1>8

(***************************************************************************)
(* When no command runs, what is on disk is the settled disk.              *)
(***************************************************************************)
LEMMA SameStack ==
  ASSUME series = settled.series, applied = settled.applied
  PROVE  Atomic!TopIndex = Stack!TopIndex /\ Atomic!Top = Stack!Top
BY DEF Atomic!TopIndex, Stack!TopIndex, Atomic!Top, Stack!Top, Atomic!Last, Stack!Last,
       Atomic!IsIn, Stack!IsIn, Atomic!Position, Stack!Position

(***************************************************************************)
(* What is known of the settled disk does not change while it stays.       *)
(***************************************************************************)
LEMMA SettledStays ==
  ASSUME settled' = settled
  PROVE  /\ UNCHANGED Atomic!vars
         /\ Atomic!TopIndex' = Atomic!TopIndex /\ Atomic!Top' = Atomic!Top
         /\ Atomic!NextPatch' = Atomic!NextPatch
         /\ Atomic!CanPush' <=> Atomic!CanPush
BY DEF Atomic!vars, Atomic!TopIndex, Atomic!Top, Atomic!Last, Atomic!IsIn, Atomic!Position,
       Atomic!NextPatch, Atomic!CanPush

(***************************************************************************)
(* A command that returns settles the disk as it is.                       *)
(***************************************************************************)
LEMMA ReturnSettles ==
  ASSUME Return
  PROVE  /\ settled'.series = series' /\ settled'.applied = applied'
         /\ settled'.reversed = reversed' /\ settled'.patchFile = patchFile'
         /\ settled'.backup = backup' /\ settled'.needsRefresh = needsRefresh'
         /\ settled'.tree = tree'
BY DEF Return, Disk

(***************************************************************************)
(* What is on disk, and the settled disk, are functions and lists.         *)
(***************************************************************************)
LEMMA SettledTypes ==
  ASSUME TInv
  PROVE  /\ settled.series \in Seq(Patches) /\ settled.applied \in Seq(Patches)
         /\ settled.reversed \subseteq Patches /\ settled.needsRefresh \subseteq Patches
         /\ settled.patchFile \in [Patches -> {Absent} \cup Patch]
         /\ settled.backup \in [Patches -> [Files -> {Absent} \cup Content]]
         /\ settled.tree \in [Files -> FileState]
BY DEF TInv, DiskType

-----------------------------------------------------------------------------
(* push.                                                                    *)

(***************************************************************************)
(* While a push goes on, the values it is described with stay.             *)
(***************************************************************************)
LEMMA PushStays ==
  ASSUME settled' = settled, cmd'.patch = cmd.patch, cmd'.force = cmd.force
  PROVE  /\ PushedPatch' = PushedPatch /\ SavedFirst' = SavedFirst /\ AfterPatch' = AfterPatch
         /\ \A fs : Rejected(fs)' <=> Rejected(fs)
         /\ Atomic!CanPush /\ cmd.patch = Atomic!NextPatch =>
              Atomic!CanPush' /\ cmd'.patch = Atomic!NextPatch'
BY SettledStays DEF PushedPatch, SavedFirst, AfterPatch, Rejected

(***************************************************************************)
(* The values have the right types.                                        *)
(***************************************************************************)
LEMMA PushTypes ==
  ASSUME TInv, cmd.op = "push", patchFile = settled.patchFile
  PROVE  /\ cmd \in PushCommand /\ step \in PushSteps /\ cmd.patch \in Patches
         /\ PushedPatch \in Patch
         /\ SavedFirst \in [Files -> {Absent} \cup Content]
         /\ \A f \in Affected(PushedPatch) : SavedFirst[f] \in Content
         /\ SavedFirst = [f \in Files |-> SavedFirst[f]]
         /\ AfterPatch = [f \in Files |-> AfterPatch[f]]
<1>1. cmd \in PushCommand /\ step \in PushSteps /\ cmd.patch \in Patches
  BY DiskFacts, ShapeFacts DEF PushCommand
<1>2. patchFile[cmd.patch] # Absent
  BY DiskFacts DEF TypeOK
<1>3. PushedPatch \in Patch
  BY <1>1, <1>2, SettledTypes DEF PushedPatch
<1>4. /\ SavedFirst \in [Files -> {Absent} \cup Content]
      /\ \A f \in Affected(PushedPatch) : SavedFirst[f] \in Content
  BY <1>1, SettledTypes, ValueTypes DEF SavedFirst, Affected
<1>5. AfterPatch = [f \in Files |-> AfterPatch[f]]
  BY DEF AfterPatch, PatchedTree
<1> QED
  BY <1>1, <1>3, <1>4, <1>5

(***************************************************************************)
(* The calls that a push makes for each file.                              *)
(***************************************************************************)
LEMMA PushFileCall ==
  ASSUME TInv, cmd.op = "push", Pushing, NEW f \in todo,
         Save(f, TRUE) \/ PatchFile(f, TRUE) \/ Restore(f, TRUE) \/ Clear(f, TRUE)
  PROVE  Pushing' /\ cmd'.op = "push" /\ settled' = settled /\ step' = step
<1>1. /\ patchFile = settled.patchFile /\ series = settled.series /\ reversed = settled.reversed
      /\ applied = IF step = "mark" THEN Append(settled.applied, cmd.patch) ELSE settled.applied
  BY DEF Pushing, OthersKept
<1>2. /\ cmd \in PushCommand /\ cmd.patch \in Patches /\ f \in Files
      /\ PushedPatch \in Patch
      /\ backup \in [Patches -> [Files -> {Absent} \cup Content]]
      /\ tree \in [Files -> FileState]
  BY <1>1, PushTypes, DiskFacts
<1>3. /\ series' = series /\ applied' = applied /\ reversed' = reversed
      /\ patchFile' = patchFile /\ needsRefresh' = needsRefresh
      /\ settled' = settled /\ step' = step /\ todo' = todo \ {f}
      /\ step \in {"save", "patch", "restore", "clear"}
  BY DEF Save, PatchFile, Restore, Clear, GoTo
<1>4. /\ cmd'.op = "push" /\ cmd'.patch = cmd.patch /\ cmd'.force = cmd.force
      /\ step # "patch" => cmd' = cmd
  BY <1>2 DEF Save, PatchFile, Restore, Clear, GoTo, PushCommand
<1>5. /\ PushedPatch' = PushedPatch /\ SavedFirst' = SavedFirst /\ AfterPatch' = AfterPatch
      /\ \A fs : Rejected(fs)' <=> Rejected(fs)
      /\ Atomic!CanPush' /\ cmd'.patch = Atomic!NextPatch'
  BY <1>3, <1>4, PushStays DEF Pushing
<1>6. \A q \in Patches : q # cmd.patch => backup'[q] = settled.backup[q]
  BY <1>2 DEF Save, PatchFile, Restore, Clear, Pushing, OthersKept
<1>7. /\ OthersKept'
      /\ series' = settled'.series
      /\ needsRefresh' \ {cmd'.patch} = settled'.needsRefresh \ {cmd'.patch}
      /\ step' # "clear" => needsRefresh' = settled'.needsRefresh
      /\ applied' = IF step' = "mark" THEN Append(settled'.applied, cmd'.patch) ELSE settled'.applied
  BY <1>1, <1>3, <1>4, <1>6 DEF Pushing, OthersKept
<1>8. CASE step = "save"
  <2>1. /\ backup' = [backup EXCEPT ![cmd.patch][f] = Saved(tree[f])]
        /\ tree' = tree /\ cmd' = cmd
    BY <1>8, <1>4 DEF Save, PatchFile, Restore, Clear
  <2>2. tree = settled.tree /\ f \in Affected(PushedPatch)
    BY <1>8 DEF Pushing
  <2>3. Saved(tree[f]) = SavedFirst[f]
    BY <1>2, <2>2 DEF SavedFirst
  <2>4. \A g \in Files \ todo' : backup'[cmd.patch][g] = SavedFirst[g]
    BY <1>2, <1>3, <1>8, <2>1, <2>3 DEF Pushing
  <2>5. ~cmd'.rejects /\ tree' = settled'.tree /\ todo' \subseteq Affected(PushedPatch)
    BY <1>3, <1>8, <2>1, <2>2 DEF Pushing
  <2> QED
    BY <1>3, <1>4, <1>5, <1>7, <1>8, <2>4, <2>5 DEF Pushing
<1>9. CASE step = "patch"
  <2> DEFINE rev == cmd.patch \in reversed
             s == Oriented(patchFile[cmd.patch][f], rev)
  <2>1. /\ tree' = [tree EXCEPT ![f] = Patched(s, tree[f], cmd.force, TRUE)]
        /\ backup' = backup
        /\ cmd' = [cmd EXCEPT !.rejects = @ \/ Rejects(s, tree[f], cmd.force)]
    BY <1>9 DEF Save, PatchFile, Restore, Clear
  <2>2. cmd'.rejects <=> cmd.rejects \/ Rejects(s, tree[f], cmd.force)
    BY <1>2, <2>1 DEF PushCommand
  <2>3. /\ backup[cmd.patch] = SavedFirst
        /\ \A g \in Files : tree[g] = IF g \in todo THEN settled.tree[g] ELSE AfterPatch[g]
        /\ cmd.rejects <=> Rejected(Files \ todo)
    BY <1>9 DEF Pushing
  <2>4. PushedPatch[f] # Absent /\ s = Oriented(PushedPatch[f], cmd.patch \in settled.reversed)
    BY <1>1, <1>9, DiskFacts DEF Found, PushedPatch
  <2>5. AfterPatch[f] = Patched(s, settled.tree[f], cmd.force, TRUE)
    BY <1>2, <2>4 DEF AfterPatch, PatchedTree
  <2>6. \A g \in Files : tree'[g] = IF g \in todo' THEN settled.tree[g] ELSE AfterPatch[g]
    <3> HIDE DEF s, rev
    <3> QED
      BY <1>2, <1>3, <2>1, <2>3, <2>5
  <2>7. cmd'.rejects <=> Rejected(Files \ todo')
    <3>1. Files \ todo' = (Files \ todo) \cup {f}
      BY <1>2, <1>3, DiskFacts
    <3>2. Rejected((Files \ todo) \cup {f}) <=>
            Rejected(Files \ todo) \/ Rejects(s, settled.tree[f], cmd.force)
      BY <2>4 DEF Rejected
    <3>3. tree[f] = settled.tree[f]
      BY <1>2, <2>3
    <3> HIDE DEF s, rev
    <3> QED
      BY <2>2, <2>3, <3>1, <3>2, <3>3
  <2>8. backup'[cmd'.patch] = SavedFirst'
    BY <1>4, <1>5, <2>1, <2>3
  <2> QED
    BY <1>3, <1>4, <1>5, <1>7, <1>9, <2>6, <2>7, <2>8 DEF Pushing
<1>10. CASE step = "restore"
  <2>1. /\ backup[cmd.patch] = SavedFirst
        /\ todo \subseteq Affected(PushedPatch)
        /\ \A g \in Files : tree[g] = IF g \in Affected(PushedPatch) \ todo
                                      THEN Restored(SavedFirst[g]) ELSE AfterPatch[g]
        /\ Rejected(Files) /\ ~cmd.force
    BY <1>10 DEF Pushing
  <2>2. SavedFirst[f] # Absent
    BY <1>1, <2>1, PushTypes, AbsentIsNoValue
  <2>3. /\ tree' = [tree EXCEPT ![f] = Restored(SavedFirst[f])]
        /\ backup' = backup
    BY <1>10, <2>1, <2>2 DEF Save, PatchFile, Restore, Clear, Stack!Tracks
  <2>4. \A g \in Files : tree'[g] = IF g \in Affected(PushedPatch) \ todo'
                                    THEN Restored(SavedFirst[g]) ELSE AfterPatch[g]
    BY <1>2, <1>3, <2>1, <2>3
  <2>5. todo' \subseteq Affected(PushedPatch) /\ backup'[cmd'.patch] = SavedFirst'
    BY <1>3, <1>4, <1>5, <2>1, <2>3
  <2> QED
    BY <1>3, <1>4, <1>5, <1>7, <1>10, <2>1, <2>4, <2>5 DEF Pushing
<1>11. CASE step = "clear"
  <2>1. /\ \A g \in Files \ todo : backup[cmd.patch][g] = Absent
        /\ \A g \in Files : tree[g] = IF g \in Affected(PushedPatch)
                                      THEN Restored(SavedFirst[g]) ELSE AfterPatch[g]
        /\ Rejected(Files) /\ ~cmd.force
    BY <1>11 DEF Pushing
  <2>2. /\ backup' = [backup EXCEPT ![cmd.patch][f] = Absent] /\ tree' = tree
    BY <1>11 DEF Save, PatchFile, Restore, Clear
  <2>3. \A g \in Files \ todo' : backup'[cmd.patch][g] = Absent
    BY <1>2, <1>3, <2>1, <2>2
  <2> QED
    BY <1>3, <1>4, <1>5, <1>7, <1>11, <2>1, <2>2, <2>3 DEF Pushing
<1> QED
  BY <1>3, <1>4, <1>8, <1>9, <1>10, <1>11

(***************************************************************************)
(* The ends of the loops of a push, up to the last: a push that has been   *)
(* rejected and taken back is PushFails.                                   *)
(***************************************************************************)
LEMMA PushLoopEnd ==
  ASSUME TInv, cmd.op = "push", Pushing, LoopEnd \/ ClearMarker
  PROVE  \/ Pushing' /\ cmd'.op = "push" /\ settled' = settled /\ step' # "torn"
         \/ Return /\ Atomic!PushFails
<1>1. /\ patchFile = settled.patchFile /\ series = settled.series /\ reversed = settled.reversed
      /\ Atomic!CanPush /\ cmd.patch = Atomic!NextPatch
      /\ \A q \in Patches : q # cmd.patch => backup[q] = settled.backup[q]
      /\ needsRefresh \ {cmd.patch} = settled.needsRefresh \ {cmd.patch}
      /\ step # "mark" => applied = settled.applied
  BY DEF Pushing, OthersKept
<1>2. /\ cmd \in PushCommand /\ cmd.patch \in Patches
      /\ PushedPatch \in Patch
      /\ backup \in [Patches -> [Files -> {Absent} \cup Content]]
      /\ tree \in [Files -> FileState]
  BY <1>1, PushTypes, DiskFacts
<1>3. /\ series' = series /\ applied' = applied /\ reversed' = reversed
      /\ patchFile' = patchFile /\ backup' = backup /\ tree' = tree
      /\ step # "clear" => needsRefresh' = needsRefresh
      /\ needsRefresh' \ {cmd.patch} = needsRefresh \ {cmd.patch}
      /\ step \in {"save", "patch", "restore", "clear"}
  BY DEF LoopEnd, LoopEnds, SavesEnd, PatchEnds, RestoresEnd, ClearEnds, ClearMarker, disk
<1>4. ASSUME cmd' = cmd, settled' = settled, step' \in {"patch", "restore", "clear", "applied"},
             step = "clear" => step' = "clear"
      PROVE  /\ PushedPatch' = PushedPatch /\ SavedFirst' = SavedFirst /\ AfterPatch' = AfterPatch
             /\ \A fs : Rejected(fs)' <=> Rejected(fs)
             /\ Atomic!CanPush' /\ cmd'.patch = Atomic!NextPatch'
             /\ OthersKept'
             /\ series' = settled'.series
             /\ needsRefresh' \ {cmd'.patch} = settled'.needsRefresh \ {cmd'.patch}
             /\ step' # "clear" => needsRefresh' = settled'.needsRefresh
             /\ applied' = IF step' = "mark" THEN Append(settled'.applied, cmd'.patch)
                           ELSE settled'.applied
  <2>1. /\ PushedPatch' = PushedPatch /\ SavedFirst' = SavedFirst /\ AfterPatch' = AfterPatch
        /\ \A fs : Rejected(fs)' <=> Rejected(fs)
        /\ Atomic!CanPush' /\ cmd'.patch = Atomic!NextPatch'
    BY <1>1, <1>4, PushStays
  <2>2. step # "clear" => needsRefresh = settled.needsRefresh
    BY DEF Pushing
  <2> QED
    BY <1>1, <1>3, <1>4, <2>1, <2>2 DEF OthersKept
<1>5. CASE SavesEnd
  <2>1. /\ step = "save" /\ todo = {} /\ cmd' = cmd /\ settled' = settled /\ step' = "patch"
        /\ todo' = {f \in Files : PushedPatch[f] # Absent}
    BY <1>1, <1>5 DEF SavesEnd, LoopEnds, GoTo, PushedPatch
  <2>2. ~cmd.rejects /\ tree = settled.tree /\ \A f \in Files : backup[cmd.patch][f] = SavedFirst[f]
    BY <2>1 DEF Pushing
  <2>3. backup[cmd.patch] = SavedFirst
    <3>1. backup[cmd.patch] \in [Files -> {Absent} \cup Content]
      BY <1>2
    <3>2. SavedFirst \in [Files -> {Absent} \cup Content]
      BY <1>1, PushTypes
    <3> QED
      BY <2>2, <3>1, <3>2
  <2>4. \A f \in Files : f \notin todo' => AfterPatch[f] = settled.tree[f]
    BY <2>1 DEF AfterPatch, PatchedTree
  <2>5. ~Rejected(Files \ todo')
    BY <2>1 DEF Rejected
  <2> QED
    BY <1>3, <1>4, <2>1, <2>2, <2>3, <2>4, <2>5 DEF Pushing
<1>6. CASE PatchEnds
  <2>1. /\ step = "patch" /\ todo = {} /\ cmd' = cmd /\ settled' = settled
        /\ \/ /\ cmd.rejects /\ ~cmd.force
              /\ step' = "restore" /\ todo' = Affected(PushedPatch)
           \/ (cmd.rejects => cmd.force) /\ step' = "applied"
    BY <1>1, <1>6 DEF PatchEnds, LoopEnds, GoTo, PushedPatch
  <2>2. /\ backup[cmd.patch] = SavedFirst
        /\ \A f \in Files : tree[f] = AfterPatch[f]
        /\ cmd.rejects <=> Rejected(Files)
    <3>1. Files \ {} = Files
      OBVIOUS
    <3> QED
      BY <2>1, <3>1 DEF Pushing
  <2>3. tree = AfterPatch
    <3>1. AfterPatch = [f \in Files |-> AfterPatch[f]]
      BY <1>1, PushTypes
    <3> QED
      BY <1>2, <2>2, <3>1
  <2> QED
    BY <1>3, <1>4, <2>1, <2>2, <2>3 DEF Pushing
<1>7. CASE RestoresEnd
  <2>1. /\ step = "restore" /\ todo = {} /\ cmd' = cmd /\ settled' = settled /\ step' = "clear"
        /\ todo' = {f \in Files : backup[cmd.patch][f] # Absent}
    BY <1>7 DEF RestoresEnd, LoopEnds, GoTo, Tracked, Stack!Tracks
  <2>2. /\ \A f \in Files : tree[f] = IF f \in Affected(PushedPatch)
                                      THEN Restored(SavedFirst[f]) ELSE AfterPatch[f]
        /\ Rejected(Files) /\ ~cmd.force
    BY <2>1 DEF Pushing
  <2>3. \A f \in Files \ todo' : backup[cmd.patch][f] = Absent
    BY <2>1
  <2> QED
    BY <1>3, <1>4, <2>1, <2>2, <2>3 DEF Pushing
<1>8. CASE ClearMarker
  <2>1. cmd' = cmd /\ settled' = settled /\ step' = "clear" /\ step = "clear" /\ todo' = todo
    BY <1>8 DEF ClearMarker, control
  <2>2. /\ \A f \in Files \ todo : backup[cmd.patch][f] = Absent
        /\ \A f \in Files : tree[f] = IF f \in Affected(PushedPatch)
                                      THEN Restored(SavedFirst[f]) ELSE AfterPatch[f]
        /\ Rejected(Files) /\ ~cmd.force
    BY <2>1 DEF Pushing
  <2> QED
    BY <1>3, <1>4, <2>1, <2>2 DEF Pushing
<1>9. CASE ClearEnds
  <2> DEFINE p == cmd.patch
  <2>1. step = "clear" /\ todo = {} /\ p \notin needsRefresh /\ Return /\ needsRefresh' = needsRefresh
    BY <1>9 DEF ClearEnds, Cleared, LoopEnds, disk
  <2>2. /\ \A f \in Files : backup[p][f] = Absent
        /\ \A f \in Files : tree[f] = IF f \in Affected(PushedPatch)
                                      THEN Restored(SavedFirst[f]) ELSE AfterPatch[f]
        /\ Rejected(Files) /\ ~cmd.force
    BY <2>1 DEF Pushing
  <2>3. /\ settled'.series = settled.series /\ settled'.applied = settled.applied
        /\ settled'.reversed = settled.reversed /\ settled'.patchFile = settled.patchFile
        /\ settled'.backup = backup /\ settled'.needsRefresh = needsRefresh
        /\ settled'.tree = tree
    BY <1>1, <1>3, <2>1, ReturnSettles
  <2>4. Atomic!PushRejects(p, FALSE)
    <3>1. cmd.force = FALSE
      BY <1>2, <2>2 DEF PushCommand
    <3>2. HasRejects(PushedPatch, settled.tree, p \in settled.reversed, FALSE)
      BY <2>2, <3>1 DEF Rejected, HasRejects
    <3> QED
      BY <3>2, SameFiles DEF Atomic!PushRejects, PushedPatch
  <2>5. tree = [f \in Files |-> IF f \in Atomic!Affected(settled.patchFile[p])
                                THEN Atomic!Restored(Atomic!SavedFor(p)[f])
                                ELSE Atomic!AfterPush(p, FALSE)[f]]
    <3>1. cmd.force = FALSE
      BY <1>2, <2>2 DEF PushCommand
    <3>2. Atomic!AfterPush(p, FALSE) = AfterPatch
      BY <3>1, SameFiles DEF Atomic!AfterPush, AfterPatch, PushedPatch
    <3>3. Atomic!SavedFor(p) = SavedFirst
      BY SameFiles DEF Atomic!SavedFor, SavedFirst, PushedPatch
    <3> QED
      BY <1>2, <2>2, <3>2, <3>3, SameFiles DEF PushedPatch
  <2>6. backup = [settled.backup EXCEPT ![p] = Atomic!NoBackups]
    <3>1. backup[p] = Atomic!NoBackups
      <4>1. backup[p] \in [Files -> {Absent} \cup Content]
        BY <1>2
      <4> QED
        BY <2>2, <4>1 DEF Atomic!NoBackups
    <3>2. settled.backup \in [Patches -> [Files -> {Absent} \cup Content]]
      BY SettledTypes
    <3> HIDE DEF p
    <3> QED
      BY <1>1, <1>2, <3>1, <3>2 DEF p
  <2>7. needsRefresh = settled.needsRefresh \ {p}
    BY <1>1, <2>1
  <2> QED
    BY <1>1, <2>1, <2>3, <2>4, <2>5, <2>6, <2>7 DEF Atomic!PushFails
<1> QED
  BY <1>5, <1>6, <1>7, <1>8, <1>9 DEF LoopEnd

(***************************************************************************)
(* The last calls of a push: it is Push, or PushForced when the patch has  *)
(* to be marked.                                                           *)
(***************************************************************************)
LEMMA PushRecords ==
  ASSUME TInv, cmd.op = "push", Pushing, WriteApplied(TRUE) \/ Mark(TRUE)
  PROVE  \/ Pushing' /\ cmd'.op = "push" /\ settled' = settled /\ step' # "torn"
         \/ Return /\ (Atomic!Push(cmd.force) \/ Atomic!PushForced)
<1> DEFINE p == cmd.patch
<1>1. /\ patchFile = settled.patchFile /\ series = settled.series /\ reversed = settled.reversed
      /\ Atomic!CanPush /\ p = Atomic!NextPatch
      /\ \A q \in Patches : q # p => backup[q] = settled.backup[q]
      /\ step \in {"applied", "mark"}
      /\ needsRefresh = settled.needsRefresh
      /\ applied = IF step = "mark" THEN Append(settled.applied, p) ELSE settled.applied
      /\ backup[p] = SavedFirst /\ tree = AfterPatch
      /\ cmd.rejects <=> Rejected(Files)
      /\ cmd.rejects => cmd.force
      /\ step = "mark" => cmd.rejects
  BY DEF Pushing, OthersKept, WriteApplied, Mark
<1>2. cmd \in PushCommand /\ p \in Patches /\ cmd.force \in BOOLEAN
  BY <1>1, PushTypes DEF PushCommand
<1>3. backup = [settled.backup EXCEPT ![p] = Atomic!SavedFor(p)]
  <2>1. Atomic!SavedFor(p) = SavedFirst
    BY SameFiles DEF Atomic!SavedFor, SavedFirst, PushedPatch
  <2>2. /\ settled.backup \in [Patches -> [Files -> {Absent} \cup Content]]
        /\ backup \in [Patches -> [Files -> {Absent} \cup Content]]
    BY SettledTypes, DiskFacts
  <2> HIDE DEF p
  <2> QED
    BY <1>1, <1>2, <2>1, <2>2
<1>4. tree = Atomic!AfterPush(p, cmd.force)
  BY <1>1, SameFiles DEF Atomic!AfterPush, AfterPatch, PushedPatch
<1>5. Atomic!PushRejects(p, cmd.force) <=> Rejected(Files)
  <2>1. HasRejects(PushedPatch, settled.tree, p \in settled.reversed, cmd.force) <=> Rejected(Files)
    BY DEF Rejected, HasRejects
  <2> QED
    BY <2>1, SameFiles DEF Atomic!PushRejects, PushedPatch
<1>6. CASE WriteApplied(TRUE)
  <2>1. /\ step = "applied" /\ applied' = Append(settled.applied, p)
        /\ series' = series /\ reversed' = reversed /\ patchFile' = patchFile
        /\ backup' = backup /\ needsRefresh' = needsRefresh /\ tree' = tree
        /\ \/ cmd.rejects /\ cmd' = cmd /\ step' = "mark" /\ settled' = settled
           \/ ~cmd.rejects /\ Return
    BY <1>1, <1>6 DEF WriteApplied, NewApplied, GoTo
  <2>2. CASE cmd.rejects /\ cmd' = cmd /\ step' = "mark" /\ settled' = settled
    <3>1. /\ PushedPatch' = PushedPatch /\ SavedFirst' = SavedFirst /\ AfterPatch' = AfterPatch
          /\ \A fs : Rejected(fs)' <=> Rejected(fs)
          /\ Atomic!CanPush' /\ cmd'.patch = Atomic!NextPatch'
      BY <1>1, <2>2, PushStays
    <3> QED
      BY <1>1, <2>1, <2>2, <3>1 DEF Pushing, OthersKept
  <2>3. CASE ~cmd.rejects /\ Return
    <3>1. /\ settled'.series = settled.series /\ settled'.applied = Append(settled.applied, p)
          /\ settled'.reversed = settled.reversed /\ settled'.patchFile = settled.patchFile
          /\ settled'.backup = backup /\ settled'.needsRefresh = settled.needsRefresh
          /\ settled'.tree = tree
      BY <1>1, <2>1, <2>3, ReturnSettles
    <3>2. ~Atomic!PushRejects(p, cmd.force)
      BY <1>1, <1>5, <2>3
    <3> QED
      BY <1>1, <1>3, <1>4, <2>3, <3>1, <3>2 DEF Atomic!Push, Atomic!Recorded
  <2> QED
    BY <2>1, <2>2, <2>3
<1>7. CASE Mark(TRUE)
  <2>1. /\ step = "mark" /\ applied' = applied /\ Return
        /\ series' = series /\ reversed' = reversed /\ patchFile' = patchFile
        /\ backup' = backup /\ needsRefresh' = needsRefresh \cup {p} /\ tree' = tree
    BY <1>7 DEF Mark
  <2>2. cmd.force = TRUE /\ cmd.rejects
    BY <1>1, <1>2, <2>1
  <2>3. Atomic!PushRejects(p, TRUE) /\ tree = Atomic!AfterPush(p, TRUE)
    BY <1>1, <1>4, <1>5, <2>2
  <2>4. /\ settled'.series = settled.series /\ settled'.applied = Append(settled.applied, p)
        /\ settled'.reversed = settled.reversed /\ settled'.patchFile = settled.patchFile
        /\ settled'.backup = backup /\ settled'.needsRefresh = settled.needsRefresh \cup {p}
        /\ settled'.tree = tree
    BY <1>1, <2>1, ReturnSettles
  <2> QED
    BY <1>1, <1>3, <2>1, <2>3, <2>4 DEF Atomic!PushForced, Atomic!Recorded
<1> QED
  BY <1>6, <1>7

-----------------------------------------------------------------------------
(* pop, and the first half of delete.                                       *)

(***************************************************************************)
(* The calls that are made for each file of the top, and the removal of    *)
(* its marker.                                                             *)
(***************************************************************************)
LEMMA TakeDownCall ==
  ASSUME TInv, cmd.op \in {"pop", "delete"}, TakingDown,
         \/ \E f \in todo : Restore(f, TRUE) \/ Clear(f, TRUE)
         \/ ClearMarker
  PROVE  TakingDown' /\ cmd' = cmd /\ settled' = settled /\ step' = step
<1>1. /\ cmd.patch \in Patches
      /\ backup \in [Patches -> [Files -> {Absent} \cup Content]]
      /\ tree \in [Files -> FileState] /\ todo \subseteq Files
  BY DiskFacts, StepFacts, ShapeFacts DEF PopCommand, DeleteCommand
<1>2. /\ series' = series /\ applied' = applied /\ reversed' = reversed
      /\ patchFile' = patchFile /\ settled' = settled /\ cmd' = cmd /\ step' = step
      /\ step \in {"restore", "clear"}
  BY DEF Restore, Clear, ClearMarker, GoTo, control
<1>3. TakenTree' = TakenTree /\ Atomic!Top' = Atomic!Top
  BY <1>2, SettledStays DEF TakenTree
<1>4. \A q \in Patches : q # cmd.patch => backup'[q] = settled.backup[q]
  BY <1>1 DEF Restore, Clear, ClearMarker, TakingDown, OthersKept
<1>5. /\ settled'.applied # <<>> /\ cmd'.patch = Atomic!Top' /\ OthersKept'
      /\ series' = settled'.series /\ applied' = settled'.applied
  BY <1>2, <1>3, <1>4 DEF TakingDown, OthersKept
<1>6. CASE step = "restore"
  <2>1. PICK f \in todo : Restore(f, TRUE)
    BY <1>6 DEF Clear, ClearMarker
  <2>2. /\ backup = settled.backup /\ needsRefresh = settled.needsRefresh
        /\ todo \cap Hidden = {}
        /\ \A g \in Files : tree[g] = IF g \in todo THEN settled.tree[g] ELSE TakenTree[g]
    BY <1>6 DEF TakingDown
  <2>3. /\ backup' = backup /\ needsRefresh' = needsRefresh /\ todo' = todo \ {f}
        /\ tree' = IF backup[cmd.patch][f] # Absent
                   THEN [tree EXCEPT ![f] = Restored(backup[cmd.patch][f])] ELSE tree
    BY <2>1 DEF Restore, GoTo, Stack!Tracks
  <2>4. \A g \in Files : tree'[g] = IF g \in todo' THEN settled.tree[g] ELSE TakenTree[g]
    BY <1>1, <2>2, <2>3 DEF TakenTree
  <2> QED
    BY <1>2, <1>3, <1>5, <1>6, <2>2, <2>3, <2>4 DEF TakingDown
<1>7. CASE step = "clear"
  <2>1. /\ \A g \in Files \ todo : backup[cmd.patch][g] = Absent
        /\ needsRefresh \ {cmd.patch} = settled.needsRefresh \ {cmd.patch}
        /\ tree = TakenTree
    BY <1>7 DEF TakingDown
  <2>2. tree' = tree /\ needsRefresh' \ {cmd.patch} = needsRefresh \ {cmd.patch}
    BY <1>7 DEF Restore, Clear, ClearMarker
  <2>3. \A g \in Files \ todo' : backup'[cmd.patch][g] = Absent
    <3>1. CASE ClearMarker
      BY <2>1, <3>1 DEF ClearMarker, control
    <3>2. ASSUME NEW f \in todo, Clear(f, TRUE)
          PROVE  \A g \in Files \ todo' : backup'[cmd.patch][g] = Absent
      <4>1. backup' = [backup EXCEPT ![cmd.patch][f] = Absent] /\ todo' = todo \ {f}
        BY <3>2 DEF Clear, GoTo
      <4> QED
        BY <1>1, <2>1, <4>1
    <3> QED
      BY <1>7, <3>1, <3>2 DEF Restore
  <2> QED
    BY <1>2, <1>3, <1>5, <1>7, <2>1, <2>2, <2>3 DEF TakingDown
<1> QED
  BY <1>2, <1>6, <1>7

(***************************************************************************)
(* The ends of the two loops.                                              *)
(***************************************************************************)
LEMMA TakeDownLoopEnd ==
  ASSUME TInv, cmd.op \in {"pop", "delete"}, TakingDown, LoopEnd
  PROVE  TakingDown' /\ cmd' = cmd /\ settled' = settled /\ step' \in {"clear", "applied"}
<1>1. /\ cmd.patch \in Patches
      /\ backup \in [Patches -> [Files -> {Absent} \cup Content]]
      /\ tree \in [Files -> FileState]
  BY DiskFacts, StepFacts, ShapeFacts DEF PopCommand, DeleteCommand
<1>2. RestoresEnd \/ ClearEnds
  BY StepFacts DEF LoopEnd, LoopEnds, SavesEnd, PatchEnds
<1>3. /\ series' = series /\ applied' = applied /\ reversed' = reversed
      /\ patchFile' = patchFile /\ backup' = backup /\ needsRefresh' = needsRefresh
      /\ tree' = tree
      /\ settled' = settled /\ cmd' = cmd
      /\ \/ /\ step = "restore" /\ todo = {} /\ step' = "clear"
            /\ todo' = {f \in Files : backup[cmd.patch][f] # Absent}
         \/ /\ step = "clear" /\ todo = {} /\ step' = "applied"
            /\ cmd.patch \notin needsRefresh
  BY <1>2 DEF RestoresEnd, ClearEnds, Cleared, LoopEnds, GoTo, disk, Tracked, Stack!Tracks
<1>4. TakenTree' = TakenTree /\ Atomic!Top' = Atomic!Top
  BY <1>3, SettledStays DEF TakenTree
<1>5. /\ settled'.applied # <<>> /\ cmd'.patch = Atomic!Top' /\ OthersKept'
      /\ series' = settled'.series /\ applied' = settled'.applied
  BY <1>3, <1>4 DEF TakingDown, OthersKept
<1>6. CASE step = "restore" /\ step' = "clear"
  <2>1. /\ needsRefresh = settled.needsRefresh
        /\ \A g \in Files : tree[g] = TakenTree[g]
    BY <1>3, <1>6 DEF TakingDown
  <2>2. tree = TakenTree
    <3>1. TakenTree = [g \in Files |-> TakenTree[g]]
      BY DEF TakenTree
    <3> QED
      BY <1>1, <2>1, <3>1
  <2>3. \A g \in Files \ todo' : backup'[cmd'.patch][g] = Absent
    BY <1>3, <1>6
  <2> QED
    BY <1>3, <1>4, <1>5, <1>6, <2>1, <2>2, <2>3 DEF TakingDown
<1>7. CASE step = "clear" /\ step' = "applied"
  <2>1. /\ \A g \in Files : backup[cmd.patch][g] = Absent
        /\ needsRefresh \ {cmd.patch} = settled.needsRefresh \ {cmd.patch}
        /\ tree = TakenTree
    BY <1>3, <1>7 DEF TakingDown
  <2>2. backup[cmd.patch] = Stack!NoBackups
    <3>1. backup[cmd.patch] \in [Files -> {Absent} \cup Content]
      BY <1>1
    <3> QED
      BY <2>1, <3>1 DEF Stack!NoBackups
  <2>3. needsRefresh = settled.needsRefresh \ {cmd.patch}
    BY <1>3, <1>7, <2>1
  <2>4. Stack!NoBackups' = Stack!NoBackups
    BY DEF Stack!NoBackups
  <2> QED
    BY <1>3, <1>4, <1>5, <1>7, <2>1, <2>2, <2>3, <2>4 DEF TakingDown
<1> QED
  BY <1>3, <1>6, <1>7

(***************************************************************************)
(* The record is taken off: a pop is Pop, and a delete goes on.            *)
(***************************************************************************)
LEMMA TakeDownRecords ==
  ASSUME TInv, cmd.op \in {"pop", "delete"}, TakingDown, cmd.op = "delete" => Deleting,
         WriteApplied(TRUE)
  PROVE  \/ cmd.op = "pop" /\ Return /\ Atomic!Pop(TRUE, FALSE)
         \/ /\ cmd.op = "delete" /\ Deleting' /\ cmd' = cmd /\ settled' = settled
            /\ step' = "series"
<1> DEFINE p == cmd.patch
<1>1. /\ step = "applied" /\ settled.applied # <<>> /\ p = Atomic!Top
      /\ reversed = settled.reversed /\ patchFile = settled.patchFile
      /\ \A q \in Patches : q # p => backup[q] = settled.backup[q]
      /\ series = settled.series /\ applied = settled.applied
      /\ backup[p] = Stack!NoBackups
      /\ needsRefresh = settled.needsRefresh \ {p}
      /\ tree = TakenTree
  BY DEF TakingDown, OthersKept, WriteApplied
<1>2. /\ p \in Patches
      /\ backup \in [Patches -> [Files -> {Absent} \cup Content]]
  BY <1>1, DiskFacts, StepFacts
<1>3. /\ series' = series /\ applied' = Front(settled.applied) /\ reversed' = reversed
      /\ patchFile' = patchFile /\ backup' = backup /\ needsRefresh' = needsRefresh
      /\ tree' = tree
      /\ \/ cmd.op = "pop" /\ Return
         \/ cmd.op = "delete" /\ cmd' = cmd /\ settled' = settled /\ step' = "series"
  BY <1>1 DEF WriteApplied, NewApplied, GoTo
<1>4. CASE cmd.op = "pop" /\ Return
  <2>1. /\ settled'.series = settled.series /\ settled'.applied = Front(settled.applied)
        /\ settled'.reversed = settled.reversed /\ settled'.patchFile = settled.patchFile
        /\ settled'.backup = backup /\ settled'.needsRefresh = settled.needsRefresh \ {p}
        /\ settled'.tree = tree
    BY <1>1, <1>3, <1>4, ReturnSettles
  <2>2. backup = [settled.backup EXCEPT ![p] = Atomic!NoBackups]
    <3>1. settled.backup \in [Patches -> [Files -> {Absent} \cup Content]]
      BY SettledTypes
    <3> HIDE DEF p
    <3> QED
      BY <1>1, <1>2, <3>1, SameLists
  <2>3. settled.patchFile = [settled.patchFile EXCEPT ![p] = settled.patchFile[p]]
    <3>1. settled.patchFile \in [Patches -> {Absent} \cup Patch]
      BY SettledTypes
    <3> QED
      BY <3>1
  <2>4. tree = [f \in Files |-> IF Atomic!Listed(Atomic!Top, f)
                                THEN Atomic!Restored(settled.backup[Atomic!Top][f])
                                ELSE settled.tree[f]]
    BY <1>1, SameFiles DEF TakenTree, Atomic!Listed, Atomic!Tracks
  <2>5. Atomic!Front(settled.applied) = Front(settled.applied)
    BY DEF Atomic!Front, Front
  <2> QED
    BY <1>1, <1>4, <2>1, <2>2, <2>3, <2>4, <2>5 DEF Atomic!Pop, Atomic!TakenDown
<1>5. CASE cmd.op = "delete" /\ cmd' = cmd /\ settled' = settled /\ step' = "series"
  <2>1. TakenTree' = TakenTree /\ Atomic!Top' = Atomic!Top /\ Stack!NoBackups' = Stack!NoBackups
    BY <1>5, SettledStays DEF TakenTree, Stack!NoBackups
  <2>2. Stack!IsIn(settled.applied, p)
    <3>1. settled.applied \in Seq(Patches)
      BY SettledTypes
    <3>2. Len(settled.applied) \in DOMAIN settled.applied
      BY <1>1, <3>1, Shortened, LenProperties
    <3>3. settled.applied[Len(settled.applied)] = p
      BY <1>1 DEF Atomic!Top, Atomic!Last
    <3> QED
      BY <3>2, <3>3 DEF Stack!IsIn
  <2>3. Stack!IsIn(settled.series, p)
    BY <1>5 DEF Deleting
  <2> QED
    BY <1>1, <1>3, <1>5, <2>1, <2>2, <2>3 DEF Deleting, Stack!IsIn
<1> QED
  BY <1>3, <1>4, <1>5

-----------------------------------------------------------------------------
(* The series: delete and new.                                              *)

(***************************************************************************)
(* delete takes the patch off the series, and with -r its file: Delete.    *)
(***************************************************************************)
LEMMA DeleteEnds ==
  ASSUME TInv, cmd.op = "delete", Deleting, WriteSeries(TRUE) \/ ChangePatchFile(TRUE)
  PROVE  \/ Deleting' /\ cmd' = cmd /\ settled' = settled /\ step' = "file"
         \/ Return /\ Atomic!Delete(cmd.patch, cmd.rm)
<1> DEFINE p == cmd.patch
           Gone == RemoveAt(settled.series, Stack!Position(settled.series, p))
<1>1. /\ Stack!IsIn(settled.series, p) /\ patchFile = settled.patchFile
      /\ step \in {"series", "file"}
      /\ cmd \in DeleteCommand /\ p \in Patches
  BY StepFacts, DiskFacts, ShapeFacts DEF Deleting, WriteSeries, ChangePatchFile
<1>2. \/ /\ Stack!IsIn(settled.applied, p) /\ settled.applied # <<>> /\ p = Atomic!Top
         /\ applied = Front(settled.applied)
         /\ \A q \in Patches : q # p => backup[q] = settled.backup[q]
         /\ backup[p] = Stack!NoBackups
         /\ needsRefresh = settled.needsRefresh \ {p}
         /\ tree = TakenTree
      \/ /\ ~Stack!IsIn(settled.applied, p)
         /\ applied = settled.applied /\ backup = settled.backup
         /\ needsRefresh = settled.needsRefresh /\ tree = settled.tree
  BY <1>1 DEF Deleting
<1>3. \/ /\ Atomic!IsIn(settled.applied, p) /\ p = Atomic!Top
         /\ tree = [f \in Files |-> IF Atomic!Listed(Atomic!Top, f)
                                    THEN Atomic!Restored(settled.backup[Atomic!Top][f])
                                    ELSE settled.tree[f]]
         /\ backup = [settled.backup EXCEPT ![Atomic!Top] = Atomic!NoBackups]
         /\ needsRefresh = settled.needsRefresh \ {Atomic!Top}
         /\ applied = Atomic!Front(settled.applied)
      \/ /\ ~Atomic!IsIn(settled.applied, p)
         /\ applied = settled.applied /\ backup = settled.backup
         /\ needsRefresh = settled.needsRefresh /\ tree = settled.tree
  <2>1. CASE ~Stack!IsIn(settled.applied, p)
    BY <1>2, <2>1, SameLists
  <2>2. CASE Stack!IsIn(settled.applied, p)
    <3>1. /\ p = Atomic!Top /\ applied = Front(settled.applied)
          /\ \A q \in Patches : q # p => backup[q] = settled.backup[q]
          /\ backup[p] = Stack!NoBackups
          /\ needsRefresh = settled.needsRefresh \ {p}
          /\ tree = TakenTree
      BY <1>2, <2>2
    <3>2. backup = [settled.backup EXCEPT ![p] = Atomic!NoBackups]
      <4>1. /\ settled.backup \in [Patches -> [Files -> {Absent} \cup Content]]
            /\ backup \in [Patches -> [Files -> {Absent} \cup Content]]
        BY SettledTypes, DiskFacts
      <4> HIDE DEF p
      <4> QED
        BY <1>1, <3>1, <4>1, SameLists
    <3>3. tree = [f \in Files |-> IF Atomic!Listed(Atomic!Top, f)
                                  THEN Atomic!Restored(settled.backup[Atomic!Top][f])
                                  ELSE settled.tree[f]]
      BY <3>1, SameFiles DEF TakenTree, Atomic!Listed, Atomic!Tracks
    <3>4. Atomic!Front(settled.applied) = Front(settled.applied)
      BY DEF Atomic!Front, Front
    <3> QED
      BY <2>2, <3>1, <3>2, <3>3, <3>4, SameLists
  <2> QED
    BY <2>1, <2>2
<1>4. Gone = Atomic!RemoveAt(settled.series, Atomic!Position(settled.series, p))
  BY SameLists DEF Atomic!RemoveAt, RemoveAt
<1>5. applied' = applied /\ backup' = backup /\ needsRefresh' = needsRefresh /\ tree' = tree
  BY DEF WriteSeries, ChangePatchFile
<1>6. ASSUME Return, series' = Gone, reversed' = settled.reversed \ {p},
             patchFile' = IF cmd.rm THEN [settled.patchFile EXCEPT ![p] = Absent]
                          ELSE settled.patchFile
      PROVE  Atomic!Delete(p, cmd.rm)
  <2>1. /\ settled'.series = Gone /\ settled'.applied = applied
        /\ settled'.reversed = settled.reversed \ {p}
        /\ settled'.patchFile = IF cmd.rm THEN [settled.patchFile EXCEPT ![p] = Absent]
                                ELSE settled.patchFile
        /\ settled'.backup = backup /\ settled'.needsRefresh = needsRefresh
        /\ settled'.tree = tree
    BY <1>5, <1>6, ReturnSettles
  <2>2. Atomic!IsIn(settled.series, p)
    BY <1>1, SameLists
  <2> HIDE DEF p, Gone
  <2> QED
    BY <1>3, <1>4, <2>1, <2>2 DEF Atomic!Delete, Atomic!TakenDown
<1>7. CASE WriteSeries(TRUE)
  <2>1. /\ step = "series" /\ series = settled.series /\ reversed = settled.reversed
        /\ series' = Gone /\ reversed' = settled.reversed \ {p} /\ patchFile' = patchFile
    BY <1>7 DEF WriteSeries, NewSeries, NewReversed, Deleting
  <2>2. \/ cmd.rm /\ cmd' = cmd /\ settled' = settled /\ step' = "file"
        \/ ~cmd.rm /\ Return
    BY <1>7 DEF WriteSeries, GoTo
  <2>3. CASE cmd.rm /\ cmd' = cmd /\ settled' = settled /\ step' = "file"
    <3>1. TakenTree' = TakenTree /\ Atomic!Top' = Atomic!Top /\ Stack!NoBackups' = Stack!NoBackups
      BY <2>3, SettledStays DEF TakenTree, Stack!NoBackups
    <3>2. /\ Stack!Position(settled.series, p)' = Stack!Position(settled.series, p)
          /\ Stack!IsIn(settled.series, p)' <=> Stack!IsIn(settled.series, p)
          /\ Stack!IsIn(settled.applied, p)' <=> Stack!IsIn(settled.applied, p)
      BY <2>3 DEF Stack!Position, Stack!IsIn
    <3>3. series' = RemoveAt(settled.series, Stack!Position(settled.series, p))'
      BY <2>1, <2>3, <3>2
    <3> QED
      BY <1>1, <1>2, <1>5, <2>1, <2>3, <3>1, <3>2, <3>3 DEF Deleting
  <2>4. CASE ~cmd.rm /\ Return
    BY <1>1, <1>6, <2>1, <2>4
  <2> QED
    BY <2>2, <2>3, <2>4
<1>8. CASE ChangePatchFile(TRUE)
  <2>1. /\ step = "file" /\ cmd.rm /\ series = Gone /\ reversed = settled.reversed \ {p}
        /\ series' = series /\ reversed' = reversed
        /\ patchFile' = [patchFile EXCEPT ![p] = Absent] /\ Return
    BY <1>8 DEF ChangePatchFile, NewPatchFile, Deleting
  <2> QED
    BY <1>1, <1>6, <2>1
<1> QED
  BY <1>7, <1>8

(***************************************************************************)
(* new writes the series, and then the record: New.                        *)
(***************************************************************************)
LEMMA CreateEnds ==
  ASSUME TInv, cmd.op = "new", Creating, WriteSeries(TRUE) \/ WriteApplied(TRUE)
  PROVE  \/ Creating' /\ cmd' = cmd /\ settled' = settled /\ step' = "applied"
         \/ Return /\ Atomic!New(cmd.patch)
<1> DEFINE p == cmd.patch
<1>1. /\ ~Stack!IsIn(settled.series, p) /\ (settled.applied # <<>> => Atomic!TopIndex > 0)
      /\ series = IF step = "series" THEN settled.series
                  ELSE InsertAt(settled.series, Atomic!TopIndex + 1, p)
      /\ applied = settled.applied /\ reversed = settled.reversed
      /\ patchFile = settled.patchFile /\ backup = settled.backup
      /\ needsRefresh = settled.needsRefresh /\ tree = settled.tree
  BY DEF Creating
<1>2. CASE WriteSeries(TRUE)
  <2>1. /\ step = "series" /\ settled' = settled /\ cmd' = cmd /\ step' = "applied"
        /\ series' = InsertAt(series, Stack!TopIndex + 1, p) /\ reversed' = reversed
        /\ applied' = applied /\ patchFile' = patchFile /\ backup' = backup
        /\ needsRefresh' = needsRefresh /\ tree' = tree
    BY <1>2 DEF WriteSeries, NewSeries, NewReversed, GoTo
  <2>2. Stack!TopIndex = Atomic!TopIndex
    BY <1>1, <2>1, SameStack
  <2>3. Atomic!TopIndex' = Atomic!TopIndex
    BY <2>1, SettledStays
  <2>4. Stack!IsIn(settled.series, p)' <=> Stack!IsIn(settled.series, p)
    BY <2>1 DEF Stack!IsIn
  <2>5. series' = InsertAt(settled'.series, Atomic!TopIndex' + 1, cmd'.patch)
    BY <1>1, <2>1, <2>2, <2>3
  <2> QED
    BY <1>1, <2>1, <2>3, <2>4, <2>5 DEF Creating
<1>3. CASE WriteApplied(TRUE)
  <2>1. /\ step = "applied" /\ Return /\ applied' = Append(applied, p)
        /\ series' = series /\ reversed' = reversed /\ patchFile' = patchFile
        /\ backup' = backup /\ needsRefresh' = needsRefresh /\ tree' = tree
    BY <1>3 DEF WriteApplied, NewApplied
  <2>2. /\ settled'.series = InsertAt(settled.series, Atomic!TopIndex + 1, p)
        /\ settled'.applied = Append(settled.applied, p)
        /\ settled'.reversed = settled.reversed /\ settled'.patchFile = settled.patchFile
        /\ settled'.backup = settled.backup
        /\ settled'.needsRefresh = settled.needsRefresh /\ settled'.tree = settled.tree
    BY <1>1, <2>1, ReturnSettles
  <2>3. \A s, i, q : Atomic!InsertAt(s, i, q) = InsertAt(s, i, q)
    BY DEF Atomic!InsertAt, InsertAt
  <2>4. ~Atomic!IsIn(settled.series, p)
    BY <1>1, SameLists
  <2> HIDE DEF p
  <2> QED
    BY <1>1, <2>1, <2>2, <2>3, <2>4 DEF Atomic!New, p
<1> QED
  BY <1>2, <1>3

-----------------------------------------------------------------------------
(* The series: rename and fork.                                             *)

(***************************************************************************)
(* The name that a rename or a fork gives has no directory under .pc, so   *)
(* that the move of .pc/<old> is not refused.                              *)
(***************************************************************************)
LEMMA NameIsFree ==
  ASSUME TInv, Lists, step # "torn", Before!IInv, cmd.op \in {"rename", "fork"}
  PROVE  /\ settled.backup[cmd.new] = Stack!NoBackups
         /\ cmd.new \notin settled.needsRefresh
<1> DEFINE n == cmd.new
           a == settled.applied
           s == settled.series
<1>1. n \in Patches /\ Prefix(a, s) /\ ~Stack!IsIn(s, n)
  BY ListsFacts
<1>2. ~Stack!IsIn(a, n)
  <2> HIDE DEF n, a, s
  <2> QED
    BY <1>1, LenProperties DEF Prefix, Stack!IsIn
<1>3. ~Before!IsIn(a, n)
  BY <1>2 DEF Before!IsIn, Stack!IsIn
<1>4. settled.backup[n] = Before!NoBackups /\ n \notin settled.needsRefresh
  BY <1>1, <1>3 DEF Before!IInv, Before!OnlyAppliedInPc
<1> QED
  BY <1>4 DEF Before!NoBackups, Stack!NoBackups

(***************************************************************************)
(* The calls of a rename or a fork up to the last.                         *)
(***************************************************************************)
LEMMA MoveOn ==
  ASSUME TInv, Lists, step # "torn", Before!IInv, cmd.op \in {"rename", "fork"},
         Moves, MovesOn, Call(TRUE), ~Return
  PROVE  MovesOn' /\ cmd'.op = cmd.op /\ settled' = settled
<1>1. /\ cmd \in MoveCommand /\ cmd.patch \in Patches
      /\ step \in {"file", "dir", "series", "applied"}
  BY SettledFacts DEF MovesOn
<1>2. applied = settled.applied
  BY DEF Lists
<1>3. ASSUME settled' = settled, cmd'.op = cmd.op, cmd'.patch = cmd.patch
      PROVE  /\ cmd'.op = "fork" => settled'.applied # <<>> /\ cmd'.patch = Atomic!Top'
             /\ Stack!IsIn(settled.applied, cmd.patch)' <=> Stack!IsIn(settled.applied, cmd.patch)
             /\ settled'.patchFile[cmd'.patch] = settled.patchFile[cmd.patch]
  <2>1. Atomic!Top' = Atomic!Top
    BY <1>3, SettledStays
  <2> QED
    BY <1>3, <2>1 DEF MovesOn, Stack!IsIn
<1>4. CASE ChangePatchFile(TRUE)
  <2>1. /\ step = "file" /\ settled' = settled /\ cmd' = [cmd EXCEPT !.file = TRUE]
        /\ step' = IF Stack!IsIn(settled.applied, cmd.patch) THEN "dir" ELSE "series"
    BY <1>2, <1>4 DEF ChangePatchFile
  <2>2. cmd' = [op |-> cmd.op, patch |-> cmd.patch, new |-> cmd.new, file |-> TRUE, dir |-> cmd.dir]
    BY <1>1, <2>1 DEF MoveCommand
  <2>3. settled.patchFile[cmd.patch] # Absent
    BY <2>1 DEF MovesOn
  <2>4. ~cmd.dir
    BY <2>1 DEF Moves
  <2>5. /\ cmd'.op = "fork" => settled'.applied # <<>> /\ cmd'.patch = Atomic!Top'
        /\ Stack!IsIn(settled.applied, cmd.patch)' <=> Stack!IsIn(settled.applied, cmd.patch)
        /\ settled'.patchFile[cmd'.patch] = settled.patchFile[cmd.patch]
    BY <1>3, <2>1, <2>2
  <2>6. /\ cmd'.file = TRUE /\ cmd'.dir = cmd.dir /\ cmd.dir \in BOOLEAN
        /\ cmd'.op = cmd.op
    BY <1>1, <2>2 DEF MoveCommand
  <2>7. CASE Stack!IsIn(settled.applied, cmd.patch)
    BY <2>1, <2>3, <2>5, <2>6, <2>7 DEF MovesOn
  <2>8. CASE ~Stack!IsIn(settled.applied, cmd.patch)
    <3>1. cmd'.dir = FALSE
      BY <2>4, <2>6
    <3>2. cmd'.dir = Stack!IsIn(settled.applied, cmd.patch)'
      BY <2>5, <2>8, <3>1 DEF Stack!IsIn
    <3> QED
      BY <2>1, <2>3, <2>5, <2>6, <2>8, <3>2 DEF MovesOn
  <2> QED
    BY <2>7, <2>8
<1>5. CASE MoveDir(TRUE)
  <2>1. step = "dir" /\ backup = settled.backup /\ needsRefresh = settled.needsRefresh
    BY <1>5 DEF MoveDir, Moves
  <2>2. backup[cmd.new] = Stack!NoBackups /\ cmd.new \notin needsRefresh
    BY <2>1, NameIsFree
  <2>3. settled' = settled /\ cmd' = [cmd EXCEPT !.dir = TRUE] /\ step' = "series"
    BY <1>5, <2>2 DEF MoveDir
  <2>4. cmd' = [op |-> cmd.op, patch |-> cmd.patch, new |-> cmd.new, file |-> cmd.file, dir |-> TRUE]
    BY <1>1, <2>3 DEF MoveCommand
  <2>5. /\ cmd'.op = "fork" => settled'.applied # <<>> /\ cmd'.patch = Atomic!Top'
        /\ Stack!IsIn(settled.applied, cmd.patch)' <=> Stack!IsIn(settled.applied, cmd.patch)
        /\ settled'.patchFile[cmd'.patch] = settled.patchFile[cmd.patch]
    BY <1>3, <2>3, <2>4
  <2>6. /\ cmd'.dir = TRUE /\ cmd'.file = cmd.file /\ cmd'.op = cmd.op
    BY <2>4
  <2>7. /\ Stack!IsIn(settled.applied, cmd.patch)
        /\ cmd.file = (settled.patchFile[cmd.patch] # Absent)
    BY <2>1 DEF MovesOn
  <2>8. cmd'.dir = Stack!IsIn(settled.applied, cmd.patch)'
    BY <2>5, <2>6, <2>7 DEF Stack!IsIn
  <2> QED
    BY <2>3, <2>5, <2>6, <2>7, <2>8 DEF MovesOn
<1>6. CASE WriteSeries(TRUE)
  <2>1. /\ step = "series" /\ settled' = settled /\ cmd' = cmd /\ step' = "applied"
        /\ Stack!IsIn(settled.applied, cmd.patch)
    BY <1>2, <1>6 DEF WriteSeries, GoTo
  <2>2. /\ cmd'.op = "fork" => settled'.applied # <<>> /\ cmd'.patch = Atomic!Top'
        /\ Stack!IsIn(settled.applied, cmd.patch)' <=> Stack!IsIn(settled.applied, cmd.patch)
        /\ settled'.patchFile[cmd'.patch] = settled.patchFile[cmd.patch]
    BY <1>3, <2>1
  <2>3. /\ cmd.file = (settled.patchFile[cmd.patch] # Absent)
        /\ cmd.dir = Stack!IsIn(settled.applied, cmd.patch)
    BY <2>1 DEF MovesOn
  <2> QED
    BY <2>1, <2>2, <2>3 DEF MovesOn
<1>7. CASE WriteApplied(TRUE)
  BY <1>7 DEF WriteApplied
<1> QED
  BY <1>1, <1>4, <1>5, <1>6, <1>7 DEF Call, Save, PatchFile, Restore, Clear, Mark,
     UndoSeries, UndoDir, UndoFile

(***************************************************************************)
(* The last call of a rename or a fork: it is Rename or Fork.              *)
(***************************************************************************)
LEMMA MoveEnds ==
  ASSUME TInv, Lists, step # "torn", cmd.op \in {"rename", "fork"},
         Moves, MovesOn, Call(TRUE), Return
  PROVE  \/ cmd.op = "rename" /\ Atomic!Rename(cmd.patch, cmd.new)
         \/ cmd.op = "fork" /\ Atomic!Fork(cmd.new)
<1> DEFINE p == cmd.patch
           n == cmd.new
           on == Stack!IsIn(settled.applied, p)
<1>1. /\ cmd \in MoveCommand /\ cmd.op # "none"
      /\ step \in {"file", "dir", "series", "applied"}
      /\ cmd'.op = "none"
  BY SettledFacts DEF MovesOn, Return, Idle
<1>2. /\ Stack!IsIn(settled.series, p) /\ ~Stack!IsIn(settled.series, n)
      /\ applied = settled.applied
      /\ series = IF step = "applied"
                  THEN ReplaceAt(settled.series, Stack!Position(settled.series, p), n)
                  ELSE settled.series
  BY <1>1 DEF Lists, RenamedSeries
<1>3. \/ WriteSeries(TRUE) /\ step = "series" /\ ~on
      \/ WriteApplied(TRUE) /\ step = "applied" /\ on
  <2>1. ~ChangePatchFile(TRUE)
    BY <1>1 DEF ChangePatchFile, Return, MoveCommand, Idle
  <2>2. ~MoveDir(TRUE)
    BY <1>1 DEF MoveDir, GoTo, MoveCommand
  <2>3. WriteSeries(TRUE) => step = "series" /\ ~on
    BY <1>1, <1>2 DEF WriteSeries, GoTo
  <2>4. WriteApplied(TRUE) => step = "applied" /\ on
    BY <1>1 DEF WriteApplied, MovesOn
  <2> QED
    BY <1>1, <2>1, <2>2, <2>3, <2>4 DEF Call, Save, PatchFile, Restore, Clear, Mark,
       UndoSeries, UndoDir, UndoFile
<1>4. cmd.file = (settled.patchFile[p] # Absent) /\ cmd.dir = on
  BY <1>3 DEF MovesOn
<1>5. /\ settled'.series = ReplaceAt(settled.series, Stack!Position(settled.series, p), n)
      /\ settled'.applied = IF on THEN Stack!Renamed(settled.applied, p, n) ELSE settled.applied
      /\ settled'.reversed = Stack!MovedMember(settled.reversed, p, n)
      /\ settled'.patchFile = MovedFile
      /\ settled'.backup = IF on THEN Stack!Moved(settled.backup, p, n, Stack!NoBackups)
                           ELSE settled.backup
      /\ settled'.needsRefresh = IF on THEN Stack!MovedMember(settled.needsRefresh, p, n)
                                 ELSE settled.needsRefresh
      /\ settled'.tree = settled.tree
  <2>1. /\ settled'.series = series' /\ settled'.applied = applied'
        /\ settled'.reversed = reversed' /\ settled'.patchFile = patchFile'
        /\ settled'.backup = backup' /\ settled'.needsRefresh = needsRefresh'
        /\ settled'.tree = tree'
    BY ReturnSettles
  <2>2. /\ tree' = settled.tree /\ patchFile' = MovedFile
        /\ backup' = IF on THEN Stack!Moved(settled.backup, p, n, Stack!NoBackups)
                     ELSE settled.backup
        /\ needsRefresh' = IF on THEN Stack!MovedMember(settled.needsRefresh, p, n)
                           ELSE settled.needsRefresh
    BY <1>3, <1>4 DEF Moves, WriteSeries, WriteApplied
  <2>3. CASE WriteSeries(TRUE) /\ step = "series" /\ ~on
    <3>1. /\ series' = ReplaceAt(series, Stack!Position(series, p), n)
          /\ reversed' = Stack!MovedMember(reversed, p, n)
          /\ applied' = applied
      BY <2>3 DEF WriteSeries, NewSeries, NewReversed
    <3>2. reversed = settled.reversed
      BY <2>3 DEF Moves
    <3> QED
      BY <1>2, <2>1, <2>2, <2>3, <3>1, <3>2
  <2>4. CASE WriteApplied(TRUE) /\ step = "applied" /\ on
    <3>1. /\ applied' = Stack!Renamed(applied, p, n)
          /\ series' = series /\ reversed' = reversed
      BY <2>4 DEF WriteApplied, NewApplied
    <3>2. reversed = Stack!MovedMember(settled.reversed, p, n)
      BY <2>4 DEF Moves
    <3> QED
      BY <1>2, <2>1, <2>2, <2>4, <3>1, <3>2
  <2> QED
    BY <1>3, <2>3, <2>4
<1>6. Atomic!ReplaceAt(settled.series, Atomic!Position(settled.series, p), n) =
        ReplaceAt(settled.series, Stack!Position(settled.series, p), n)
  BY SameLists DEF Atomic!ReplaceAt, ReplaceAt
<1>7. /\ Atomic!IsIn(settled.series, p) /\ ~Atomic!IsIn(settled.series, n)
      /\ Atomic!IsIn(settled.applied, p) <=> on
  BY <1>2, SameLists
<1>8. CASE cmd.op = "rename"
  <2>1. MovedFile = IF settled.patchFile[p] = Absent THEN settled.patchFile
                    ELSE Atomic!Moved(settled.patchFile, p, n, Absent)
    BY <1>4, <1>8, SameLists DEF MovedFile
  <2> HIDE DEF p, n, on
  <2> QED
    BY <1>5, <1>6, <1>7, <1>8, <2>1, SameLists DEF Atomic!Rename, p, n
<1>9. CASE cmd.op = "fork"
  <2>1. settled.applied # <<>> /\ p = Atomic!Top
    BY <1>9 DEF MovesOn
  <2>2. on
    <3>1. settled.applied \in Seq(Patches)
      BY SettledTypes
    <3>2. Len(settled.applied) \in DOMAIN settled.applied
      BY <2>1, <3>1, Shortened, LenProperties
    <3>3. settled.applied[Len(settled.applied)] = p
      BY <2>1 DEF Atomic!Top, Atomic!Last
    <3> QED
      BY <3>2, <3>3 DEF Stack!IsIn
  <2>3. MovedFile = IF settled.patchFile[p] = Absent THEN settled.patchFile
                    ELSE [settled.patchFile EXCEPT ![n] = settled.patchFile[p]]
    BY <1>4, <1>9 DEF MovedFile
  <2> HIDE DEF p, n, on
  <2> QED
    BY <1>5, <1>6, <1>7, <1>9, <2>1, <2>2, <2>3, SameLists DEF Atomic!Fork, n
<1> QED
  BY <1>8, <1>9

-----------------------------------------------------------------------------
(* The series: import.                                                      *)

(***************************************************************************)
(* import brings the patch file in and then writes the series: Import.     *)
(***************************************************************************)
LEMMA ImportEnds ==
  ASSUME TInv, cmd.op = "import", Imports, ImportsOn, Call(TRUE)
  PROVE  \/ ImportsOn' /\ cmd' = cmd /\ settled' = settled /\ step' # "torn"
         \/ /\ Return /\ cmd.patch \in Patches /\ cmd.text \in ImportFrom /\ cmd.rev \in BOOLEAN
            /\ Atomic!Import(cmd.patch, cmd.text, TRUE, cmd.rev)
<1> DEFINE p == cmd.patch
<1>1. /\ cmd \in ImportCommand /\ step \in {"file", "series"}
      /\ p \in Patches /\ cmd.rev \in BOOLEAN
  BY SettledFacts DEF ImportsOn, ImportSteps, ImportCommand
<1>2. /\ cmd.text \in ImportFrom
      /\ Stack!IsIn(settled.series, p) => ~Stack!IsIn(settled.applied, p)
      /\ series = settled.series /\ applied = settled.applied
      /\ reversed = settled.reversed
      /\ backup = settled.backup /\ needsRefresh = settled.needsRefresh
      /\ tree = settled.tree
      /\ patchFile = IF step = "file" THEN settled.patchFile
                     ELSE [settled.patchFile EXCEPT ![p] = cmd.text]
  BY DEF Imports, ImportsOn
<1>3. CASE ChangePatchFile(TRUE)
  <2>1. cmd' = cmd /\ settled' = settled /\ step' = "series"
    BY <1>3 DEF ChangePatchFile
  <2>2. /\ Stack!IsIn(settled.series, p)' <=> Stack!IsIn(settled.series, p)
        /\ Stack!IsIn(settled.applied, p)' <=> Stack!IsIn(settled.applied, p)
    BY <2>1 DEF Stack!IsIn
  <2> QED
    BY <1>2, <2>1, <2>2 DEF ImportsOn
<1>4. CASE WriteSeries(TRUE)
  <2>1. /\ step = "series" /\ Return
        /\ series' = IF Stack!IsIn(series, p) THEN series
                     ELSE IF Stack!TopIndex > 0 THEN InsertAt(series, Stack!TopIndex + 1, p)
                     ELSE Append(series, p)
        /\ reversed' = IF cmd.rev THEN reversed \cup {p} ELSE reversed \ {p}
        /\ applied' = applied /\ patchFile' = patchFile /\ backup' = backup
        /\ needsRefresh' = needsRefresh /\ tree' = tree
    BY <1>4 DEF WriteSeries, NewSeries, NewReversed
  <2>2. Stack!TopIndex = Atomic!TopIndex
    BY <1>2, SameStack
  <2>3. \A s, i, q : Atomic!InsertAt(s, i, q) = InsertAt(s, i, q)
    BY DEF Atomic!InsertAt, InsertAt
  <2>4. /\ settled'.series = IF Atomic!IsIn(settled.series, p) THEN settled.series
                             ELSE IF Atomic!TopIndex > 0
                             THEN Atomic!InsertAt(settled.series, Atomic!TopIndex + 1, p)
                             ELSE Append(settled.series, p)
        /\ settled'.applied = settled.applied
        /\ settled'.reversed = IF cmd.rev THEN settled.reversed \cup {p}
                               ELSE settled.reversed \ {p}
        /\ settled'.patchFile = [settled.patchFile EXCEPT ![p] = cmd.text]
        /\ settled'.backup = settled.backup
        /\ settled'.needsRefresh = settled.needsRefresh /\ settled'.tree = settled.tree
    BY <1>2, <2>1, <2>2, <2>3, ReturnSettles, SameLists
  <2>5. Atomic!IsIn(settled.series, p) => ~Atomic!IsIn(settled.applied, p)
    BY <1>2, SameLists
  <2> HIDE DEF p
  <2> QED
    BY <1>1, <1>2, <2>1, <2>4, <2>5 DEF Atomic!Import, p
<1> QED
  BY <1>1, <1>3, <1>4, StepFacts DEF Call, Save, PatchFile, Restore, Clear, WriteApplied, Mark,
     MoveDir, UndoSeries, UndoDir, UndoFile

-----------------------------------------------------------------------------
(* Every step.                                                              *)

(***************************************************************************)
(* A command begins on the settled disk, and has made nothing of it yet.   *)
(***************************************************************************)
LEMMA ProgressStart ==
  ASSUME TInv, Start
  PROVE  Progress' /\ settled' = settled
<1>1. step = "idle" /\ settled = Disk /\ settled' = settled /\ disk' = disk
  <2>1. ASSUME NEW c, NEW s, NEW fs, Begin(c, s, fs)
        PROVE  step = "idle" /\ settled' = settled /\ disk' = disk
    BY <2>1 DEF Begin
  <2>2. step = "idle" /\ settled' = settled /\ disk' = disk
    BY <2>1 DEF Start, StartPush, StartPop, StartNew, StartFork, StartDelete, StartRename,
       StartImport, Move
  <2> QED
    BY <2>2 DEF TInv, TypeOK
<1>2. /\ settled.series = series /\ settled.applied = applied
      /\ settled.reversed = reversed /\ settled.patchFile = patchFile
      /\ settled.backup = backup /\ settled.needsRefresh = needsRefresh
      /\ settled.tree = tree
      /\ series' = series /\ applied' = applied /\ reversed' = reversed
      /\ patchFile' = patchFile /\ backup' = backup /\ needsRefresh' = needsRefresh
      /\ tree' = tree
  BY <1>1 DEF Disk, disk
<1>3. /\ Atomic!TopIndex' = Stack!TopIndex /\ Atomic!Top' = Stack!Top
      /\ Atomic!NextPatch' = Stack!NextPatch
      /\ Stack!CanPush => Atomic!CanPush'
  <2>1. Atomic!TopIndex = Stack!TopIndex /\ Atomic!Top = Stack!Top
    BY <1>2, SameStack
  <2>2. Atomic!NextPatch = Stack!NextPatch
    BY <1>2, <2>1 DEF Atomic!NextPatch, Stack!NextPatch
  <2>3. Stack!CanPush => Atomic!CanPush
    BY <1>2, <2>1, <2>2 DEF Atomic!CanPush, Stack!CanPush
  <2> QED
    BY <1>1, <2>1, <2>2, <2>3, SettledStays
<1>4. ASSUME NEW force \in BOOLEAN, StartPush(force)
      PROVE  Progress'
  <2> DEFINE p == Stack!NextPatch
  <2>1. /\ Stack!CanPush /\ step' = "save" /\ todo' = Affected(patchFile[p])
        /\ cmd' = [op |-> "push", patch |-> p, force |-> force, rejects |-> FALSE]
    BY <1>4 DEF StartPush, Begin
  <2>2. PushedPatch' = patchFile[p]
    BY <1>1, <1>2, <2>1 DEF PushedPatch
  <2>3. \A f \in Files \ todo' : backup'[cmd'.patch][f] = SavedFirst'[f]
    BY <1>1, <1>2, <2>1, <2>2 DEF SavedFirst
  <2>4. OthersKept'
    BY <1>1, <1>2 DEF OthersKept
  <2> QED
    BY <1>1, <1>2, <1>3, <2>1, <2>2, <2>3, <2>4 DEF Progress, Pushing
<1>5. ASSUME NEW p, applied # <<>>, p = Stack!Top, cmd'.patch = p,
             step' = "restore", todo' = FilesIn(p)
      PROVE  TakingDown'
  <2>1. \A f \in Files : tree'[f] = IF f \in todo' THEN settled'.tree[f] ELSE TakenTree'[f]
    BY <1>1, <1>2, <1>5 DEF TakenTree, FilesIn, Stack!Listed, Stack!Tracks
  <2>2. todo' \cap Hidden = {}
    BY <1>5 DEF FilesIn, Stack!Listed
  <2> QED
    BY <1>1, <1>2, <1>3, <1>5, <2>1, <2>2 DEF TakingDown, OthersKept
<1>6. ASSUME NEW force \in BOOLEAN, StartPop(force)
      PROVE  Progress'
  <2>1. /\ applied # <<>> /\ step' = "restore" /\ todo' = FilesIn(Stack!Top)
        /\ cmd' = [op |-> "pop", patch |-> Stack!Top]
    BY <1>6 DEF StartPop, Begin
  <2>2. TakingDown'
    BY <1>5, <2>1
  <2> QED
    BY <2>1, <2>2 DEF Progress
<1>7. ASSUME NEW p \in Patches, StartNew(p)
      PROVE  Progress'
  <2>1. /\ ~Stack!IsIn(series, p) /\ (applied # <<>> => Stack!TopIndex > 0)
        /\ step' = "series" /\ cmd' = [op |-> "new", patch |-> p]
    BY <1>7 DEF StartNew, Begin
  <2>2. ~Stack!IsIn(settled.series, cmd.patch)'
    BY <1>1, <1>2, <2>1 DEF Stack!IsIn
  <2>3. Creating'
    BY <1>1, <1>2, <1>3, <2>1, <2>2 DEF Creating
  <2> QED
    BY <2>1, <2>3 DEF Progress
<1>8. ASSUME NEW p \in Patches, NEW rm \in BOOLEAN, StartDelete(p, rm)
      PROVE  Progress'
  <2>1. /\ Stack!IsIn(series, p) /\ cmd' = [op |-> "delete", patch |-> p, rm |-> rm]
        /\ \/ Stack!IsIn(applied, p) /\ p = Stack!Top /\ step' = "restore" /\ todo' = FilesIn(p)
           \/ ~Stack!IsIn(applied, p) /\ step' = "series"
    BY <1>8 DEF StartDelete, Begin
  <2>2. /\ Stack!IsIn(settled.series, cmd.patch)' <=> Stack!IsIn(series, p)
        /\ Stack!IsIn(settled.applied, cmd.patch)' <=> Stack!IsIn(applied, p)
    BY <1>1, <1>2, <2>1 DEF Stack!IsIn
  <2>3. CASE Stack!IsIn(applied, p) /\ p = Stack!Top /\ step' = "restore" /\ todo' = FilesIn(p)
    <3>1. applied # <<>>
      BY <2>3 DEF Stack!IsIn
    <3>2. TakingDown'
      BY <1>5, <2>1, <2>3, <3>1
    <3> QED
      BY <2>1, <2>2, <2>3, <3>2 DEF Progress, Deleting
  <2>4. CASE ~Stack!IsIn(applied, p) /\ step' = "series"
    <3>1. Deleting'
      BY <1>1, <1>2, <2>1, <2>2, <2>4 DEF Deleting
    <3> QED
      BY <2>1, <2>4, <3>1 DEF Progress
  <2> QED
    BY <2>1, <2>3, <2>4
<1>9. ASSUME NEW op \in {"rename", "fork"}, NEW old, NEW new, Move(op, old, new),
             op = "fork" => applied # <<>> /\ old = Stack!Top
      PROVE  Progress'
  <2>1. /\ cmd' = [op |-> op, patch |-> old, new |-> new, file |-> FALSE, dir |-> FALSE]
        /\ step' = IF patchFile[old] # Absent THEN "file"
                   ELSE IF Stack!IsIn(applied, old) THEN "dir" ELSE "series"
    BY <1>9 DEF Move, Begin
  <2>2. Stack!IsIn(settled.applied, cmd.patch)' <=> Stack!IsIn(applied, old)
    BY <1>1, <1>2, <2>1 DEF Stack!IsIn
  <2>3. /\ cmd'.op = op /\ cmd'.patch = old /\ cmd'.file = FALSE /\ cmd'.dir = FALSE
    BY <2>1
  <2>4. MovesOn'
    <3>1. step' = "series" => cmd'.dir = Stack!IsIn(settled.applied, cmd.patch)'
      BY <2>1, <2>2, <2>3 DEF Stack!IsIn
    <3> QED
      BY <1>1, <1>2, <1>3, <1>9, <2>1, <2>2, <2>3, <3>1 DEF MovesOn
  <2> QED
    BY <2>1, <2>3, <2>4 DEF Progress
<1>10. ASSUME NEW p \in Patches, NEW P \in ImportFrom, NEW force \in BOOLEAN,
              NEW rev \in BOOLEAN, StartImport(p, P, force, rev)
       PROVE  Progress'
  <2>1. /\ cmd' = [op |-> "import", patch |-> p, text |-> P, rev |-> rev] /\ step' = "file"
        /\ Stack!IsIn(series, p) => ~Stack!IsIn(applied, p)
    BY <1>10 DEF StartImport, Begin
  <2>2. /\ Stack!IsIn(settled.series, cmd.patch)' <=> Stack!IsIn(series, p)
        /\ Stack!IsIn(settled.applied, cmd.patch)' <=> Stack!IsIn(applied, p)
    BY <1>1, <1>2, <2>1 DEF Stack!IsIn
  <2>3. ImportsOn'
    BY <2>1, <2>2 DEF ImportsOn
  <2> QED
    BY <2>1, <2>3 DEF Progress
<1> QED
  BY <1>1, <1>4, <1>6, <1>7, <1>8, <1>9, <1>10 DEF Start, StartFork, StartRename

(***************************************************************************)
(* The steps of QuiltStack that the commands of QuiltDisk add up to.       *)
(***************************************************************************)
Adds ==
  \/ \E force \in BOOLEAN : Atomic!Push(force)
  \/ Atomic!PushForced
  \/ Atomic!PushFails
  \/ Atomic!Pop(TRUE, FALSE)
  \/ \E p \in Patches : Atomic!New(p) \/ Atomic!Fork(p)
  \/ \E p \in Patches, rm \in BOOLEAN : Atomic!Delete(p, rm)
  \/ \E old, new \in Patches : Atomic!Rename(old, new)
  \/ \E p \in Patches, P \in ImportFrom, rev \in BOOLEAN : Atomic!Import(p, P, TRUE, rev)

(***************************************************************************)
(* They are steps of QuiltStack, also as the proofs about it know them.    *)
(***************************************************************************)
LEMMA AddsUp == Adds => Atomic!Next /\ Before!Next
<1>1. Adds => Atomic!Next
  BY DEF Adds, Atomic!Next, Atomic!Command, Atomic!StackCommand, Atomic!SeriesCommand
<1>2. Adds => Before!Next
  <2>1. /\ Atomic!TopIndex = Before!TopIndex /\ Atomic!Top = Before!Top
        /\ \A s, p : Atomic!IsIn(s, p) <=> Before!IsIn(s, p)
        /\ \A s, p : Atomic!Position(s, p) = Before!Position(s, p)
        /\ Atomic!NextPatch = Before!NextPatch /\ (Atomic!CanPush <=> Before!CanPush)
    BY DEF Atomic!TopIndex, Before!TopIndex, Atomic!Top, Before!Top, Atomic!Last, Before!Last,
       Atomic!IsIn, Before!IsIn, Atomic!Position, Before!Position, Atomic!NextPatch,
       Before!NextPatch, Atomic!CanPush, Before!CanPush
  <2>2. /\ \A s, i, p : Atomic!InsertAt(s, i, p) = Before!InsertAt(s, i, p)
        /\ \A s, i, p : Atomic!ReplaceAt(s, i, p) = Before!ReplaceAt(s, i, p)
        /\ \A s, i : Atomic!RemoveAt(s, i) = Before!RemoveAt(s, i)
        /\ \A s : Atomic!Front(s) = Before!Front(s)
        /\ Atomic!NoBackups = Before!NoBackups
    BY DEF Atomic!InsertAt, Before!InsertAt, Atomic!ReplaceAt, Before!ReplaceAt,
       Atomic!RemoveAt, Before!RemoveAt, Atomic!Front, Before!Front, Atomic!NoBackups,
       Before!NoBackups
  <2>3. /\ \A s, p, n : Atomic!Renamed(s, p, n) = Before!Renamed(s, p, n)
        /\ \A m, p, n, v : Atomic!Moved(m, p, n, v) = Before!Moved(m, p, n, v)
        /\ \A S, p, n : Atomic!MovedMember(S, p, n) = Before!MovedMember(S, p, n)
    BY DEF Atomic!Renamed, Before!Renamed, Atomic!Moved, Before!Moved, Atomic!MovedMember,
       Before!MovedMember
  <2>4. /\ \A c : Atomic!Saved(c) = Before!Saved(c)
        /\ \A b : Atomic!Restored(b) = Before!Restored(b)
        /\ \A P : Atomic!Affected(P) = Before!Affected(P)
    BY DEF Atomic!Text, Before!Text, Atomic!Saved, Before!Saved, Atomic!Restored,
       Before!Restored, Atomic!Affected, Before!Affected
  <2>5. /\ \A P, t, rev, force, re :
             Atomic!PatchedTree(P, t, rev, force, re) = Before!PatchedTree(P, t, rev, force, re)
        /\ \A P, t, rev, force :
             Atomic!HasRejects(P, t, rev, force) <=> Before!HasRejects(P, t, rev, force)
    BY DEF Atomic!Changing, Before!Changing,
       Atomic!PatchedTree, Before!PatchedTree, Atomic!HasRejects, Before!HasRejects,
       Atomic!Text, Before!Text, Atomic!Deletes, Before!Deletes, Atomic!Inserts,
       Before!Inserts, Atomic!CannotFind, Before!CannotFind, Atomic!Rejects,
       Before!Rejects, Atomic!Patched, Before!Patched, Atomic!Oriented, Before!Oriented
  <2>6. /\ \A p, force : Atomic!AfterPush(p, force) = Before!AfterPush(p, force)
        /\ \A p : Atomic!SavedFor(p) = Before!SavedFor(p)
        /\ \A p, force : Atomic!PushRejects(p, force) <=> Before!PushRejects(p, force)
    BY <2>4, <2>5 DEF Atomic!AfterPush, Before!AfterPush, Atomic!SavedFor, Before!SavedFor,
       Atomic!PushRejects, Before!PushRejects
  <2>7. ASSUME NEW force, Atomic!Push(force)
        PROVE  Before!Push(force)
    BY <2>1, <2>6, <2>7 DEF Atomic!Push, Before!Push, Atomic!Recorded, Before!Recorded
  <2>8. Atomic!PushForced => Before!PushForced
    BY <2>1, <2>6 DEF Atomic!PushForced, Before!PushForced, Atomic!Recorded, Before!Recorded
  <2>9. Atomic!PushFails => Before!PushFails
    BY <2>1, <2>2, <2>4, <2>6 DEF Atomic!PushFails, Before!PushFails
  <2>10. Atomic!TakenDown => Before!TakenDown
    BY <2>1, <2>2, <2>4 DEF Atomic!TakenDown, Before!TakenDown, Atomic!Listed, Before!Listed,
                          Atomic!Tracks, Before!Tracks
  <2>11. Atomic!Pop(TRUE, FALSE) => Before!Pop(TRUE, FALSE)
    BY <2>1, <2>10 DEF Atomic!Pop, Before!Pop
  <2>12. ASSUME NEW p, NEW rm, Atomic!Delete(p, rm)
         PROVE  Before!Delete(p, rm)
    BY <2>1, <2>2, <2>10, <2>12 DEF Atomic!Delete, Before!Delete
  <2>13. ASSUME NEW p, Atomic!New(p)
         PROVE  Before!New(p)
    BY <2>1, <2>2, <2>13 DEF Atomic!New, Before!New
  <2>14. ASSUME NEW p, Atomic!Fork(p)
         PROVE  Before!Fork(p)
    BY <2>1, <2>2, <2>3, <2>14 DEF Atomic!Fork, Before!Fork
  <2>15. ASSUME NEW old, NEW new, Atomic!Rename(old, new)
         PROVE  Before!Rename(old, new)
    BY <2>1, <2>2, <2>3, <2>15 DEF Atomic!Rename, Before!Rename
  <2>16. ASSUME NEW p, NEW P, NEW rev, Atomic!Import(p, P, TRUE, rev)
         PROVE  Before!Import(p, P, TRUE, rev)
    BY <2>1, <2>2, <2>16 DEF Atomic!Import, Before!Import
  <2> QED
    BY <2>7, <2>8, <2>9, <2>11, <2>12, <2>13, <2>14, <2>15, <2>16
       DEF Adds, Before!Next, Before!Command, Before!StackCommand, Before!SeriesCommand
<1> QED
  BY <1>1, <1>2

(***************************************************************************)
(* Every call that works, and every end of a loop, takes a command further *)
(* or ends it in a step of QuiltStack.                                     *)
(***************************************************************************)
LEMMA ProgressCall ==
  ASSUME MInv, Before!IInv, Progress, faults = 0, Call(TRUE) \/ ClearMarker \/ LoopEnd
  PROVE  (Progress' /\ settled' = settled) \/ (Return /\ Adds)
<1>1. /\ TInv /\ Lists /\ step # "torn"
      /\ cmd.op \in {"rename", "fork"} => Moves
      /\ cmd.op = "import" => Imports
  BY DEF MInv, LInv, Progress
<1>2. /\ cmd.op \in {"none", "push", "pop", "new", "delete", "rename", "fork", "import"}
      /\ cmd.op = "none" => step = "idle"
      /\ cmd.op = "push" => cmd \in PushCommand /\ step \in PushSteps
      /\ cmd.op = "pop" => cmd \in PopCommand /\ step \in PopSteps
      /\ cmd.op = "new" => cmd \in NewCommand /\ step \in NewSteps
      /\ cmd.op = "delete" => cmd \in DeleteCommand /\ step \in DeleteSteps
      /\ cmd.op \in {"rename", "fork"} => cmd \in MoveCommand /\ step \in MoveSteps
      /\ cmd.op = "import" => cmd \in ImportCommand /\ step \in ImportSteps
  BY <1>1, DiskFacts, ShapeFacts
<1>3. \/ \E f \in todo : \/ Save(f, TRUE) \/ PatchFile(f, TRUE)
                         \/ Restore(f, TRUE) \/ Clear(f, TRUE)
      \/ WriteApplied(TRUE) \/ Mark(TRUE) \/ WriteSeries(TRUE)
      \/ ChangePatchFile(TRUE) \/ MoveDir(TRUE)
      \/ step \in {"undo series", "undo dir", "undo file"}
      \/ ClearMarker \/ LoopEnd
  BY DEF Call, UndoSeries, UndoDir, UndoFile
<1>4. /\ LoopEnd => step \in {"save", "patch", "restore", "clear"}
      /\ ClearMarker => step = "clear"
      /\ \A f \in todo : Save(f, TRUE) => step = "save"
      /\ \A f \in todo : PatchFile(f, TRUE) => step = "patch"
      /\ \A f \in todo : Restore(f, TRUE) => step = "restore"
      /\ \A f \in todo : Clear(f, TRUE) => step = "clear"
      /\ WriteApplied(TRUE) => step = "applied"
      /\ Mark(TRUE) => step = "mark"
      /\ WriteSeries(TRUE) => step = "series"
      /\ ChangePatchFile(TRUE) => step = "file"
      /\ MoveDir(TRUE) => step = "dir"
  BY DEF LoopEnd, LoopEnds, SavesEnd, PatchEnds, RestoresEnd, ClearEnds, ClearMarker, Save,
     PatchFile, Restore, Clear, WriteApplied, Mark, WriteSeries, ChangePatchFile, MoveDir
<1>5. CASE cmd.op = "none"
  BY <1>2, <1>3, <1>4, <1>5
<1>6. CASE cmd.op = "push"
  <2>1. Pushing /\ cmd.force \in BOOLEAN
    BY <1>2, <1>6 DEF Progress, PushCommand
  <2>2. \/ Pushing' /\ cmd'.op = "push" /\ settled' = settled /\ step' # "torn"
        \/ Return /\ (Atomic!Push(cmd.force) \/ Atomic!PushForced \/ Atomic!PushFails)
    <3>1. CASE LoopEnd \/ ClearMarker
      BY <1>1, <1>6, <2>1, <3>1, PushLoopEnd
    <3>2. CASE WriteApplied(TRUE) \/ Mark(TRUE)
      BY <1>1, <1>6, <2>1, <3>2, PushRecords
    <3>3. ASSUME NEW f \in todo,
                 Save(f, TRUE) \/ PatchFile(f, TRUE) \/ Restore(f, TRUE) \/ Clear(f, TRUE)
          PROVE  Pushing' /\ cmd'.op = "push" /\ settled' = settled /\ step' # "torn"
      BY <1>1, <1>6, <2>1, <3>3, PushFileCall
    <3> QED
      BY <1>2, <1>3, <1>4, <1>6, <3>1, <3>2, <3>3 DEF PushSteps
  <2> QED
    BY <2>1, <2>2 DEF Progress, Adds
<1>7. CASE cmd.op \in {"pop", "delete"} /\ step \in {"restore", "clear", "applied"}
  <2>1. TakingDown /\ (cmd.op = "delete" => Deleting)
    BY <1>7 DEF Progress
  <2>2. CASE WriteApplied(TRUE)
    BY <1>1, <1>7, <2>1, <2>2, TakeDownRecords DEF Progress, Adds
  <2>3. ASSUME TakingDown', cmd' = cmd, settled' = settled,
               step' \in {"restore", "clear", "applied"}
        PROVE  Progress'
    BY <1>7, <2>1, <2>3 DEF Progress, Deleting, Stack!IsIn
  <2>4. CASE LoopEnd
    BY <1>1, <1>7, <2>1, <2>3, <2>4, TakeDownLoopEnd
  <2>5. CASE (\E f \in todo : Restore(f, TRUE) \/ Clear(f, TRUE)) \/ ClearMarker
    <3>1. TakingDown' /\ cmd' = cmd /\ settled' = settled /\ step' = step
      BY <1>1, <1>7, <2>1, <2>5, TakeDownCall
    <3> QED
      BY <1>7, <2>3, <3>1
  <2> QED
    BY <1>3, <1>4, <1>7, <2>2, <2>4, <2>5
<1>8. CASE cmd.op = "delete" /\ step \in {"series", "file"}
  <2>1. Deleting /\ cmd.patch \in Patches /\ cmd.rm \in BOOLEAN
    BY <1>2, <1>8 DEF Progress, DeleteCommand
  <2>2. WriteSeries(TRUE) \/ ChangePatchFile(TRUE)
    BY <1>3, <1>4, <1>8
  <2>3. \/ Deleting' /\ cmd' = cmd /\ settled' = settled /\ step' = "file"
        \/ Return /\ Atomic!Delete(cmd.patch, cmd.rm)
    BY <1>1, <1>8, <2>1, <2>2, DeleteEnds
  <2> QED
    BY <1>8, <2>1, <2>3 DEF Progress, Adds
<1>9. CASE cmd.op = "new"
  <2>1. Creating /\ cmd.patch \in Patches
    BY <1>2, <1>9 DEF Progress, NewCommand
  <2>2. WriteSeries(TRUE) \/ WriteApplied(TRUE)
    BY <1>2, <1>3, <1>4, <1>9 DEF NewSteps
  <2>3. \/ Creating' /\ cmd' = cmd /\ settled' = settled /\ step' = "applied"
        \/ Return /\ Atomic!New(cmd.patch)
    BY <1>1, <1>9, <2>1, <2>2, CreateEnds
  <2> QED
    BY <1>9, <2>1, <2>3 DEF Progress, Adds
<1>10. CASE cmd.op \in {"rename", "fork"}
  <2>1. MovesOn /\ cmd.patch \in Patches /\ cmd.new \in Patches
    BY <1>2, <1>10 DEF Progress, MoveCommand
  <2>2. Call(TRUE)
    BY <1>4, <1>10, <2>1 DEF MovesOn
  <2>3. CASE Return
    <3>1. \/ cmd.op = "rename" /\ Atomic!Rename(cmd.patch, cmd.new)
          \/ cmd.op = "fork" /\ Atomic!Fork(cmd.new)
      BY <1>1, <1>10, <2>1, <2>2, <2>3, MoveEnds
    <3> QED
      BY <2>1, <2>3, <3>1 DEF Adds
  <2>4. CASE ~Return
    <3>1. MovesOn' /\ cmd'.op = cmd.op /\ settled' = settled
      BY <1>1, <1>10, <2>1, <2>2, <2>4, MoveOn
    <3>2. step' # "torn"
      BY <3>1 DEF MovesOn
    <3> QED
      BY <1>10, <3>1, <3>2 DEF Progress
  <2> QED
    BY <2>3, <2>4
<1>11. CASE cmd.op = "import"
  <2>1. ImportsOn
    BY <1>11 DEF Progress
  <2>2. Call(TRUE)
    BY <1>2, <1>4, <1>11 DEF ImportSteps
  <2>3. \/ ImportsOn' /\ cmd' = cmd /\ settled' = settled /\ step' # "torn"
        \/ /\ Return /\ cmd.patch \in Patches /\ cmd.text \in ImportFrom /\ cmd.rev \in BOOLEAN
           /\ Atomic!Import(cmd.patch, cmd.text, TRUE, cmd.rev)
    BY <1>1, <1>11, <2>1, <2>2, ImportEnds
  <2> QED
    BY <1>11, <2>3 DEF Progress, Adds
<1> QED
  BY <1>2, <1>5, <1>6, <1>7, <1>8, <1>9, <1>10, <1>11 DEF PopSteps, DeleteSteps

(***************************************************************************)
(* Nothing is said of what does not change.                                *)
(***************************************************************************)
LEMMA ProgressStutters ==
  ASSUME Progress, UNCHANGED vars
  PROVE  Progress'
<1>1. /\ UNCHANGED <<series, applied, reversed, patchFile, backup, needsRefresh, tree>>
      /\ cmd' = cmd /\ step' = step /\ todo' = todo /\ settled' = settled
  BY DEF vars, disk, control
<1>2. /\ Atomic!TopIndex' = Atomic!TopIndex /\ Atomic!Top' = Atomic!Top
      /\ Atomic!NextPatch' = Atomic!NextPatch
      /\ Atomic!CanPush' <=> Atomic!CanPush
  BY <1>1, SettledStays
<1>3. OthersKept' <=> OthersKept
  BY <1>1 DEF OthersKept
<1>4. TakenTree' = TakenTree /\ Stack!NoBackups' = Stack!NoBackups
  BY <1>1 DEF TakenTree, Stack!NoBackups
<1>5. Pushing => Pushing'
  <2>1. /\ PushedPatch' = PushedPatch /\ SavedFirst' = SavedFirst /\ AfterPatch' = AfterPatch
        /\ \A fs : Rejected(fs)' <=> Rejected(fs)
    BY <1>1, PushStays
  <2>2. Rejected(Files)' <=> Rejected(Files)
    BY <2>1
  <2>3. Rejected(Files \ todo)' <=> Rejected(Files \ todo)
    BY <1>1 DEF Rejected, PushedPatch
  <2> QED
    BY <1>1, <1>2, <1>3, <2>1, <2>2, <2>3 DEF Pushing
<1>6. TakingDown => TakingDown'
  BY <1>1, <1>2, <1>3, <1>4 DEF TakingDown
<1>7. Deleting => Deleting'
  BY <1>1, <1>2, <1>4 DEF Deleting, Stack!IsIn, Stack!Position
<1>8. Creating => Creating'
  BY <1>1, <1>2 DEF Creating, Stack!IsIn
<1>9. MovesOn => MovesOn'
  BY <1>1, <1>2 DEF MovesOn, Stack!IsIn
<1>10. ImportsOn => ImportsOn'
  BY <1>1 DEF ImportsOn, Stack!IsIn
<1> QED
  BY <1>1, <1>5, <1>6, <1>7, <1>8, <1>9, <1>10 DEF Progress

(***************************************************************************)
(* The project before its first patch.                                     *)
(***************************************************************************)
LEMMA InitRInv == Init => RInv /\ Atomic!Init
<1> SUFFICES ASSUME Init PROVE RInv /\ Atomic!Init
  OBVIOUS
<1>1. /\ settled.series = <<>> /\ settled.applied = <<>>
      /\ settled.reversed = {} /\ settled.needsRefresh = {}
      /\ settled.patchFile = [p \in Patches |-> Absent]
      /\ settled.backup = [p \in Patches |-> Stack!NoBackups]
      /\ settled.tree \in [Files -> EditTo]
  BY DEF Init, Disk
<1>2. Atomic!Init
  BY <1>1, SameLists DEF Atomic!Init
<1>3. Before!Init
  <2>1. Before!NoBackups = Stack!NoBackups
    BY DEF Before!NoBackups, Stack!NoBackups
  <2> QED
    BY <1>1, <2>1 DEF Before!Init
<1>4. Before!IInv
  BY <1>3, Before!InitIInv, SameValues, AbsentIsNoValue, InputsAreLegal
<1>5. Progress
  BY DEF Init, Idle, Progress
<1> QED
  BY <1>2, <1>4, <1>5, NextMInv DEF RInv

(***************************************************************************)
(* As long as there are no mishaps, every step keeps the invariant, and    *)
(* leaves the settled disk alone or takes it one step of QuiltStack on.    *)
(***************************************************************************)
LEMMA NextRInv ==
  ASSUME MaxMishaps = 0, RInv, [Next]_vars
  PROVE  RInv' /\ [Atomic!Next]_Atomic!vars
<1>1. MInv' /\ TInv /\ MInv /\ Before!IInv /\ Progress
  BY NextMInv DEF RInv, MInv, LInv
<1>2. faults = 0 /\ crashes = 0
  <2>1. faults \in Nat /\ crashes \in Nat /\ faults + crashes <= 0
    BY <1>1, DiskFacts DEF Budget
  <2> QED
    BY <2>1
<1>3. (Progress' /\ settled' = settled) \/ (Return /\ Adds)
  <2>1. CASE Start
    BY <1>1, <2>1, ProgressStart
  <2>2. CASE Works \/ LoopEnd
    BY <1>1, <1>2, <2>2, ProgressCall DEF Works
  <2>3. ~Fails /\ ~Crash
    BY <1>2 DEF Fails, Crash
  <2>4. CASE UNCHANGED vars
    BY <1>1, <2>4, ProgressStutters DEF vars, control
  <2> QED
    BY <2>1, <2>2, <2>3, <2>4 DEF Next
<1>4. CASE Progress' /\ settled' = settled
  <2>1. UNCHANGED Atomic!vars
    BY <1>4, SettledStays
  <2>2. UNCHANGED Before!vars
    BY <1>4 DEF Before!vars
  <2>3. Before!IInv'
    BY <1>1, <2>2, Before!NextIInv, SameValues, AbsentIsNoValue, InputsAreLegal
  <2> QED
    BY <1>1, <1>4, <2>1, <2>3 DEF RInv
<1>5. CASE Return /\ Adds
  <2>1. Atomic!Next /\ Before!Next
    BY <1>5, AddsUp
  <2>2. Before!IInv'
    BY <1>1, <2>1, Before!NextIInv, SameValues, AbsentIsNoValue, InputsAreLegal
  <2>3. Progress'
    BY <1>5 DEF Return, Idle, Progress
  <2> QED
    BY <1>1, <2>1, <2>2, <2>3 DEF RInv
<1> QED
  BY <1>3, <1>4, <1>5

(***************************************************************************)
(* Refinement: without failing calls and cut-short commands, QuiltDisk     *)
(* implements QuiltStack.  The calls of a command, in any order of the     *)
(* files that the code allows, add up to one step of QuiltStack.           *)
(***************************************************************************)
THEOREM AtomicIsImplemented ==
  ASSUME MaxMishaps = 0
  PROVE  Spec => ImplementsStack
<1>1. Init => RInv /\ Atomic!Init
  BY InitRInv
<1>2. RInv /\ [Next]_vars => RInv' /\ [Atomic!Next]_Atomic!vars
  BY NextRInv
<1> QED
  BY <1>1, <1>2, PTL DEF Spec, ImplementsStack, Atomic!Spec

=============================================================================
