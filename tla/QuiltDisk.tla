------------------------------- MODULE QuiltDisk -------------------------------
(***************************************************************************)
(* The commands of the patch stack as the file system sees them: one       *)
(* action per call that changes a file, in the order in which              *)
(* src/src/quilt.cpp makes them.  Between two calls the process may end,   *)
(* and a call may fail; the code then goes on, gives up, or takes back     *)
(* what it has done.  The seven variables of QuiltStack are what is on     *)
(* disk.  A call is done as a whole or not at all, an empty directory is   *)
(* like none, and nobody edits the tree meanwhile.                         *)
(*                                                                         *)
(* Without failures a command is a step of QuiltStack (ImplementsStack).   *)
(***************************************************************************)
EXTENDS QuiltPatch, Sequences, SequencesExt

CONSTANTS
  Patches, ImportFrom,    \* as in QuiltStack
  EditTo,                 \* what the files of the tree are at the start
  MaxMishaps              \* how many calls fail or commands are cut short

ASSUME MishapsAreNatural == MaxMishaps \in Nat

ASSUME InputsAreLegal ==
  /\ EditTo \subseteq FileState
  /\ ImportFrom \subseteq Patch

VARIABLES
  series, applied, reversed, patchFile, backup, needsRefresh, tree,
  cmd,        \* the running command with what it has found out so far
  step,       \* the call it makes next
  todo,       \* the files that a loop over files has not come to
  faults,     \* how many calls have failed
  crashes,    \* how many commands have been cut short
  settled     \* the disk as it was when the last command ended

disk    == <<series, applied, reversed, patchFile, backup, needsRefresh, tree>>
control == <<cmd, step, todo, settled>>
vars    == <<disk, control, faults, crashes>>

Disk == [series |-> series, applied |-> applied, reversed |-> reversed,
         patchFile |-> patchFile, backup |-> backup,
         needsRefresh |-> needsRefresh, tree |-> tree]

\* The vocabulary of QuiltStack, about what is on disk.
Stack == INSTANCE QuiltStack WITH FoldFrom <- {}

Idle == [op |-> "none"]

Steps == {"idle", "torn", "save", "patch", "restore", "clear", "applied", "mark",
          "series", "file", "dir", "undo series", "undo dir", "undo file"}

TypeOK ==
  /\ Stack!TypeOK
  /\ cmd.op \in {"none", "push", "pop", "new", "delete", "rename", "fork", "import"}
  /\ step \in Steps
  /\ todo \subseteq Files
  /\ faults \in Nat /\ crashes \in Nat /\ faults + crashes <= MaxMishaps
  /\ (cmd = Idle) = (step \in {"idle", "torn"})
  /\ step = "idle" => settled = Disk
  /\ cmd.op = "push" => patchFile[cmd.patch] # Absent
  /\ cmd.op \in {"pop", "delete"} /\ step \in {"restore", "clear", "applied"} =>
       applied # <<>> /\ cmd.patch = Stack!Top

-----------------------------------------------------------------------------
(* How a command goes on.                                                   *)

Begin(c, s, fs) ==
  /\ step = "idle"
  /\ cmd' = c /\ step' = s /\ todo' = fs
  /\ UNCHANGED <<disk, settled, faults, crashes>>

GoTo(s, fs) == step' = s /\ todo' = fs /\ UNCHANGED <<cmd, settled>>

\* The command returns, with or without success.
Return ==
  /\ cmd' = Idle /\ step' = "idle" /\ todo' = {}
  /\ settled' = Disk'

\* A loop over files is over.
LoopEnds(s) == step = s /\ todo = {} /\ UNCHANGED <<disk, faults, crashes>>

\* Everything in .pc/<p>, and what files_in_patch lists of it.
Tracked(p) == {f \in Files : Stack!Tracks(p, f)}

FilesIn(p) == {f \in Files : Stack!Listed(p, f)}

-----------------------------------------------------------------------------
(* What the commands check before their first call.                         *)

StartPush(force) ==
  /\ Stack!CanPush
  /\ LET p == Stack!NextPatch IN
     Begin([op |-> "push", patch |-> p, force |-> force, rejects |-> FALSE],
           "save", Affected(patchFile[p]))

\* A slip in pop: the backups are removed first.
StartPopClearsFirst(force) ==
  /\ applied # <<>>
  /\ LET p == Stack!Top IN
     /\ ~force => p \notin needsRefresh
     /\ ~force /\ patchFile[p] # Absent => ~HasRejects(patchFile[p], tree, TRUE, TRUE)
     /\ Begin([op |-> "pop", patch |-> p], "clear", Tracked(p))

StartPop(force) ==
  /\ applied # <<>>
  /\ LET p == Stack!Top IN
     /\ ~force => p \notin needsRefresh
     /\ ~force /\ patchFile[p] # Absent => ~HasRejects(patchFile[p], tree, TRUE, TRUE)
     /\ Begin([op |-> "pop", patch |-> p], "restore", FilesIn(p))

\* A slip in new: the patch is recorded as applied first.
StartNewAppliedFirst(p) ==
  /\ ~Stack!IsIn(series, p)
  /\ applied # <<>> => Stack!TopIndex > 0
  /\ Begin([op |-> "new", patch |-> p], "applied", {})

StartNew(p) ==
  /\ ~Stack!IsIn(series, p)
  /\ applied # <<>> => Stack!TopIndex > 0
  /\ Begin([op |-> "new", patch |-> p], "series", {})

\* A slip in delete: any applied patch is taken down.
StartDeleteAnywhere(p, rm) ==
  LET c == [op |-> "delete", patch |-> p, rm |-> rm] IN
  /\ Stack!IsIn(series, p)
  /\ IF Stack!IsIn(applied, p) THEN Begin(c, "restore", FilesIn(p))
                               ELSE Begin(c, "series", {})

StartDelete(p, rm) ==
  LET c == [op |-> "delete", patch |-> p, rm |-> rm] IN
  /\ Stack!IsIn(series, p)
  /\ IF Stack!IsIn(applied, p)
     THEN p = Stack!Top /\ Begin(c, "restore", FilesIn(p))
     ELSE Begin(c, "series", {})

\* file and dir: whether the patch file, and .pc/<old>, have been moved.
Move(op, old, new) ==
  /\ Stack!IsIn(series, old)
  /\ ~Stack!IsIn(series, new)
  /\ Begin([op |-> op, patch |-> old, new |-> new, file |-> FALSE, dir |-> FALSE],
           IF patchFile[old] # Absent THEN "file"
           ELSE IF Stack!IsIn(applied, old) THEN "dir" ELSE "series", {})

StartRename(old, new) == Move("rename", old, new)

StartFork(new) == applied # <<>> /\ Move("fork", Stack!Top, new)

StartImport(p, P, force, rev) ==
  /\ Stack!IsIn(series, p) => force /\ ~Stack!IsIn(applied, p)
  /\ Begin([op |-> "import", patch |-> p, text |-> P, rev |-> rev], "file", {})

-----------------------------------------------------------------------------
(***************************************************************************)
(* The calls.  ok says whether the call does what it should; backup_file,  *)
(* restore_file, delete_dir_recursive, the writes of builtin_patch and the *)
(* write of applied-patches in push and pop are not asked whether they did.*)
(***************************************************************************)

Save(f, ok) ==
  /\ step = "save" /\ f \in todo
  /\ backup' = IF ok THEN [backup EXCEPT ![cmd.patch][f] = Saved(tree[f])] ELSE backup
  /\ GoTo("save", todo \ {f})
  /\ UNCHANGED <<series, applied, reversed, patchFile, needsRefresh, tree>>

SavesEnd ==
  /\ LoopEnds("save")
  /\ GoTo("patch", {f \in Files : patchFile[cmd.patch][f] # Absent})

\* A slip in builtin_patch: the last file decides whether there were rejects.
PatchFileForgets(f, ok) ==
  LET s == Oriented(patchFile[cmd.patch][f], cmd.patch \in reversed) IN
  /\ step = "patch" /\ f \in todo
  /\ tree' = IF ok THEN [tree EXCEPT ![f] = Patched(s, tree[f], cmd.force, TRUE)] ELSE tree
  /\ cmd' = [cmd EXCEPT !.rejects = Rejects(s, tree[f], cmd.force)]
  /\ todo' = todo \ {f}
  /\ UNCHANGED <<series, applied, reversed, patchFile, backup, needsRefresh, step, settled>>

PatchFile(f, ok) ==
  LET s == Oriented(patchFile[cmd.patch][f], cmd.patch \in reversed) IN
  /\ step = "patch" /\ f \in todo
  /\ tree' = IF ok THEN [tree EXCEPT ![f] = Patched(s, tree[f], cmd.force, TRUE)] ELSE tree
  /\ cmd' = [cmd EXCEPT !.rejects = @ \/ Rejects(s, tree[f], cmd.force)]
  /\ todo' = todo \ {f}
  /\ UNCHANGED <<series, applied, reversed, patchFile, backup, needsRefresh, step, settled>>

PatchEnds ==
  /\ LoopEnds("patch")
  /\ IF cmd.rejects /\ ~cmd.force
     THEN GoTo("restore", Affected(patchFile[cmd.patch]))
     ELSE GoTo("applied", {})

Restore(f, ok) ==
  /\ step = "restore" /\ f \in todo
  /\ tree' = IF ok /\ Stack!Tracks(cmd.patch, f)
             THEN [tree EXCEPT ![f] = Restored(backup[cmd.patch][f])] ELSE tree
  /\ GoTo("restore", todo \ {f})
  /\ UNCHANGED <<series, applied, reversed, patchFile, backup, needsRefresh>>

RestoresEnd == LoopEnds("restore") /\ GoTo("clear", Tracked(cmd.patch))

\* delete_dir_recursive meets the files of .pc/<patch> in any order, the marker
\* among them.
Clear(f, ok) ==
  /\ step = "clear" /\ f \in todo
  /\ backup' = IF ok THEN [backup EXCEPT ![cmd.patch][f] = Absent] ELSE backup
  /\ GoTo("clear", todo \ {f})
  /\ UNCHANGED <<series, applied, reversed, patchFile, needsRefresh, tree>>

ClearMarker ==
  /\ step = "clear" /\ cmd.patch \in needsRefresh
  /\ needsRefresh' = needsRefresh \ {cmd.patch}
  /\ UNCHANGED <<series, applied, reversed, patchFile, backup, tree, control>>

\* The backups and the marker have been seen to: push gives up, pop and delete
\* go on.
Cleared == IF cmd.op = "push" THEN Return ELSE GoTo("applied", {})

ClearEnds ==
  /\ LoopEnds("clear")
  /\ cmd.patch \notin needsRefresh
  /\ Cleared

\* The marker stays: it is the last that is met.
ClearMarkerFails ==
  /\ step = "clear" /\ todo = {} /\ cmd.patch \in needsRefresh
  /\ UNCHANGED disk
  /\ Cleared

\* The new text of .pc/applied-patches.
NewApplied ==
  CASE cmd.op \in {"push", "new"}    -> Append(applied, cmd.patch)
    [] cmd.op \in {"pop", "delete"}  -> Front(applied)
    [] cmd.op \in {"rename", "fork"} -> Stack!Renamed(applied, cmd.patch, cmd.new)

WriteApplied(ok) ==
  /\ step = "applied"
  /\ applied' = IF ok THEN NewApplied ELSE applied
  /\ UNCHANGED <<series, reversed, patchFile, backup, needsRefresh, tree>>
  /\ CASE cmd.op = "push" /\ cmd.rejects        -> GoTo("mark", {})
       [] cmd.op = "delete" /\ ok               -> GoTo("series", {})
       [] cmd.op \in {"rename", "fork"} /\ ~ok  -> GoTo("undo series", {})
       [] OTHER                                 -> Return

Mark(ok) ==
  /\ step = "mark"
  /\ needsRefresh' = IF ok THEN needsRefresh \cup {cmd.patch} ELSE needsRefresh
  /\ UNCHANGED <<series, applied, reversed, patchFile, backup, tree>>
  /\ Return

\* The new text of the series file: the names, and those marked -R.
NewSeries ==
  CASE cmd.op = "new"    -> InsertAt(series, Stack!TopIndex + 1, cmd.patch)
    [] cmd.op = "delete" -> RemoveAt(series, Stack!Position(series, cmd.patch))
    [] cmd.op \in {"rename", "fork"} ->
         ReplaceAt(series, Stack!Position(series, cmd.patch), cmd.new)
    [] cmd.op = "import" ->
         IF Stack!IsIn(series, cmd.patch) THEN series
         ELSE IF Stack!TopIndex > 0 THEN InsertAt(series, Stack!TopIndex + 1, cmd.patch)
         ELSE Append(series, cmd.patch)

NewReversed ==
  CASE cmd.op = "new"    -> reversed
    [] cmd.op = "delete" -> reversed \ {cmd.patch}
    [] cmd.op \in {"rename", "fork"} -> Stack!MovedMember(reversed, cmd.patch, cmd.new)
    [] cmd.op = "import" -> IF cmd.rev THEN reversed \cup {cmd.patch}
                                       ELSE reversed \ {cmd.patch}

WriteSeries(ok) ==
  /\ step = "series"
  /\ series' = IF ok THEN NewSeries ELSE series
  /\ reversed' = IF ok THEN NewReversed ELSE reversed
  /\ UNCHANGED <<applied, patchFile, backup, needsRefresh, tree>>
  /\ CASE cmd.op = "new" /\ ok -> GoTo("applied", {})
       [] cmd.op = "delete" /\ ok /\ cmd.rm -> GoTo("file", {})
       [] cmd.op \in {"rename", "fork"} /\ ok /\ Stack!IsIn(applied, cmd.patch) ->
            GoTo("applied", {})
       [] cmd.op \in {"rename", "fork"} /\ ~ok -> GoTo("undo dir", {})
       [] cmd.op = "import" /\ ~ok /\ ~Stack!IsIn(series, cmd.patch) ->
            GoTo("undo file", {})
       [] OTHER -> Return

\* patches/ after the patch file has been moved, copied, removed or brought in.
NewPatchFile ==
  CASE cmd.op = "rename" -> Stack!Moved(patchFile, cmd.patch, cmd.new, Absent)
    [] cmd.op = "fork"   -> [patchFile EXCEPT ![cmd.new] = patchFile[cmd.patch]]
    [] cmd.op = "delete" -> [patchFile EXCEPT ![cmd.patch] = Absent]
    [] cmd.op = "import" -> [patchFile EXCEPT ![cmd.patch] = cmd.text]

ChangePatchFile(ok) ==
  /\ step = "file"
  /\ patchFile' = IF ok THEN NewPatchFile ELSE patchFile
  /\ UNCHANGED <<series, applied, reversed, backup, needsRefresh, tree>>
  /\ IF ~ok \/ cmd.op = "delete" THEN Return
     ELSE /\ cmd' = IF cmd.op = "import" THEN cmd ELSE [cmd EXCEPT !.file = TRUE]
          /\ step' = IF cmd.op # "import" /\ Stack!IsIn(applied, cmd.patch)
                     THEN "dir" ELSE "series"
          /\ UNCHANGED <<todo, settled>>

\* .pc/<from> becomes .pc/<to>; the system refuses when there is a .pc/<to>.
MovedDir(from, to, ok) ==
  IF ok /\ backup[to] = Stack!NoBackups /\ to \notin needsRefresh
  THEN /\ backup' = Stack!Moved(backup, from, to, Stack!NoBackups)
       /\ needsRefresh' = Stack!MovedMember(needsRefresh, from, to)
  ELSE UNCHANGED <<backup, needsRefresh>>

MoveDir(ok) ==
  /\ step = "dir"
  /\ MovedDir(cmd.patch, cmd.new, ok)
  /\ UNCHANGED <<series, applied, reversed, patchFile, tree>>
  /\ IF ok /\ backup[cmd.new] = Stack!NoBackups /\ cmd.new \notin needsRefresh
     THEN /\ cmd' = [cmd EXCEPT !.dir = TRUE]
          /\ step' = "series"
          /\ UNCHANGED <<todo, settled>>
     ELSE GoTo("undo file", {})

-----------------------------------------------------------------------------
(* Taking back a rename, a fork or an import.                               *)

(***************************************************************************)
(* The old series is written while the marks are still under the new name, *)
(* which it does not contain: the -R of the patch does not come back.      *)
(***************************************************************************)
UndoSeries(ok) ==
  /\ step = "undo series"
  /\ series' = IF ok THEN ReplaceAt(series, Stack!Position(series, cmd.new), cmd.patch)
               ELSE series
  /\ reversed' = IF ok THEN reversed \ {cmd.new} ELSE reversed
  /\ GoTo("undo dir", {})
  /\ UNCHANGED <<applied, patchFile, backup, needsRefresh, tree>>

\* A slip in rename: .pc/<new> is left where it is.
UndoDirForgotten(ok) ==
  /\ step = "undo dir"
  /\ GoTo("undo file", {})
  /\ UNCHANGED disk

UndoDir(ok) ==
  /\ step = "undo dir"
  /\ IF cmd.dir THEN MovedDir(cmd.new, cmd.patch, ok) ELSE UNCHANGED <<backup, needsRefresh>>
  /\ GoTo("undo file", {})
  /\ UNCHANGED <<series, applied, reversed, patchFile, tree>>

UndoFile(ok) ==
  /\ step = "undo file"
  /\ patchFile' =
       IF ~ok THEN patchFile
       ELSE CASE cmd.op = "import" -> [patchFile EXCEPT ![cmd.patch] = Absent]
              [] cmd.op = "rename" /\ cmd.file ->
                   Stack!Moved(patchFile, cmd.new, cmd.patch, Absent)
              [] cmd.op = "fork" /\ cmd.file -> [patchFile EXCEPT ![cmd.new] = Absent]
              [] OTHER -> patchFile
  /\ UNCHANGED <<series, applied, reversed, backup, needsRefresh, tree>>
  /\ Return

-----------------------------------------------------------------------------
\* The project before its first patch.
Init ==
  /\ series = <<>> /\ applied = <<>> /\ reversed = {} /\ needsRefresh = {}
  /\ patchFile = [p \in Patches |-> Absent]
  /\ backup = [p \in Patches |-> Stack!NoBackups]
  /\ tree \in [Files -> EditTo]
  /\ cmd = Idle /\ step = "idle" /\ todo = {}
  /\ faults = 0 /\ crashes = 0
  /\ settled = Disk

Start ==
  \/ \E force \in BOOLEAN : StartPush(force) \/ StartPop(force)
  \/ \E p \in Patches : StartNew(p) \/ StartFork(p)
  \/ \E p \in Patches, rm \in BOOLEAN : StartDelete(p, rm)
  \/ \E old, new \in Patches : StartRename(old, new)
  \/ \E p \in Patches, P \in ImportFrom, force, rev \in BOOLEAN :
       StartImport(p, P, force, rev)

Call(ok) ==
  \/ \E f \in todo : Save(f, ok) \/ PatchFile(f, ok) \/ Restore(f, ok) \/ Clear(f, ok)
  \/ WriteApplied(ok) \/ Mark(ok) \/ WriteSeries(ok)
  \/ ChangePatchFile(ok) \/ MoveDir(ok)
  \/ UndoSeries(ok) \/ UndoDir(ok) \/ UndoFile(ok)

Works == (Call(TRUE) \/ ClearMarker) /\ UNCHANGED <<faults, crashes>>

\* At most MaxMishaps calls fail.
Fails ==
  /\ faults + crashes < MaxMishaps
  /\ Call(FALSE) \/ ClearMarkerFails
  /\ faults' = faults + 1
  /\ UNCHANGED crashes

LoopEnd == SavesEnd \/ PatchEnds \/ RestoresEnd \/ ClearEnds

(***************************************************************************)
(* A command ends between two calls.  What becomes of a project that is in *)
(* the middle of a rename or a fork then is not followed further.          *)
(***************************************************************************)
Crash ==
  /\ cmd # Idle
  /\ faults + crashes < MaxMishaps
  /\ crashes' = crashes + 1
  /\ cmd' = Idle
  /\ step' = IF cmd.op \in {"rename", "fork"} /\ settled # Disk THEN "torn" ELSE "idle"
  /\ todo' = {}
  /\ settled' = Disk
  /\ UNCHANGED <<disk, faults>>

Next == Start \/ Works \/ Fails \/ LoopEnd \/ Crash

Spec == Init /\ [][Next]_vars

-----------------------------------------------------------------------------
(***************************************************************************)
(* The stack as it was when the last command ended takes, with each        *)
(* command, one step of QuiltStack: the calls of a command add up to what  *)
(* its action says, whatever the order of the files.  It holds as long as  *)
(* no call fails and no command is cut short.                              *)
(***************************************************************************)
Atomic == INSTANCE QuiltStack WITH
  FoldFrom <- {},
  series <- settled.series, applied <- settled.applied,
  reversed <- settled.reversed, patchFile <- settled.patchFile,
  backup <- settled.backup, needsRefresh <- settled.needsRefresh,
  tree <- settled.tree

ImplementsStack == Atomic!Spec

(***************************************************************************)
(* new, import, push, pop and delete write the series file and             *)
(* applied-patches in such an order that the applied patches are the first *)
(* of the series after each of their calls, and so after a crash or a call *)
(* that fails.  Only rename and fork, which change a name in both, pass    *)
(* through a state in which the two files disagree; when the second write  *)
(* fails, and then the write that takes the first one back, they stay so.  *)
(***************************************************************************)
ListsAgree ==
  \/ cmd.op \in {"rename", "fork"} \/ step = "torn"
  \/ faults > 1
  \/ Stack!AppliedIsSeriesPrefix

-----------------------------------------------------------------------------
\* The .pc directories that no applied patch owns.
Unrecorded(d) ==
  {p \in Patches : ~Stack!IsIn(d.applied, p) /\ d.backup[p] # Stack!NoBackups}

\* The file as it is without any patch, read off what is on disk at this moment.
Bottom(f) ==
  LET held == {p \in Unrecorded(Disk) : Stack!Tracks(p, f)} IN
  IF Stack!Holders(1, f) # {} \/ held = {} THEN Stack!Underneath(1, f)
  ELSE Restored(backup[CHOOSE p \in held : TRUE][f])

(***************************************************************************)
(* At no moment, between any two calls of a push, a pop, a delete or any   *)
(* other command but rename and fork, is a file without patches lost: it   *)
(* is in the tree, or in the oldest backup, of an applied patch or of the  *)
(* one being pushed.  A crash finds it there, and so does the command      *)
(* after a crash.  Left out are the files that CommandsKeepUnderneath of   *)
(* QuiltStack leaves out (names that begin with a dot, which pop and       *)
(* delete lose without any mishap; files that a patch deletes; files that  *)
(* are empty), calls that fail, and commands that find the directory of a  *)
(* push that crashed: the next push saves over it.                         *)
(***************************************************************************)
BottomKeptByEveryCall ==
  [][\A f \in Files \ Hidden :
       \/ Bottom(f)' = Bottom(f)
       \/ Bottom(f) = {}
       \/ step = "patch" /\ f \in Unlisted(patchFile[cmd.patch])
       \/ cmd.op \in {"rename", "fork"}
       \/ faults > 0
       \/ Unrecorded(settled) # {}]_vars

(***************************************************************************)
(* A rename, a fork or an import that gives up after one of its calls has  *)
(* failed leaves the project as it found it: lists, backups, markers and   *)
(* the files of all its patches.  The -R of the patch itself is left out.  *)
(***************************************************************************)
FailureUndone ==
  [][UndoFile(TRUE) /\ faults <= 1 =>
       /\ series' = settled.series
       /\ applied' = settled.applied
       /\ reversed' \cup {cmd.patch} = settled.reversed \cup {cmd.patch}
       /\ \A i \in DOMAIN series' : patchFile'[series'[i]] = settled.patchFile[series'[i]]
       /\ backup' = settled.backup
       /\ needsRefresh' = settled.needsRefresh
       /\ tree' = settled.tree]_vars

(***************************************************************************)
(* "Remove the topmost applied patch by restoring files from backup", says *)
(* the usage of pop: when the patch is off the list, its files have been   *)
(* restored.                                                               *)
(***************************************************************************)
PopRestoresFiles ==
  [][cmd.op = "pop" /\ WriteApplied(TRUE) =>
       \A f \in Files : settled.backup[cmd.patch][f] # Absent =>
         tree[f] = Restored(settled.backup[cmd.patch][f])]_vars
=============================================================================
