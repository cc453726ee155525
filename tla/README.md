# A formal model of w64devkit's own programs

w64devkit is a portable C and C++ development kit for Windows.  Most of what it
ships is built from other projects; what it contributes itself is under `src/`:
a reimplementation of quilt in one C++ file (`quilt.cpp`, 9,500 lines), and a
dozen small C programs and libraries.  This directory holds TLA+ models of that
code, TLC configurations that check them on small instances, and theorems about
them whose proofs TLAPS checks.

Line numbers below refer to `src/src/quilt.cpp` unless another file is named;
`threads.c`, `pkg-config.c` and `rexxd.c` are in the same directory.

## Inventory

| Component | State it keeps | Operations | What makes it hard | What makes it correct |
|---|---|---|---|---|
| quilt: patch stack (59-942, 1357-1506, 3897-4286, 4512-5975, 6572-7198, 7601-7845) | `series`, `.pc/applied-patches`, the `-p`/`-R` marks in the series, `patches/<p>`, `.pc/<p>/<file>` backups, `.pc/<p>/.needs_refresh`, the working tree | init, new, add, remove, edit, revert, refresh, push, pop, delete, rename, fork, import, fold, header, snapshot | long sequences of legal commands; pushes that fail half way; editors that change files between commands; several lists edited one after the other; writes that fail; two processes at once | applied patches are a prefix of the series; a push can be undone; no command loses what lies underneath a patch; refresh records what is in the tree |
| quilt: patch engine (2609-3568) | none; a file system, real or in memory | `parse_patch`, `locate_hunk`, `build_output`, `builtin_patch` | offsets, fuzz, hunks that freeze what they matched, files without a last newline, creation and deletion | an exact hunk is found where it was made; a patch applied and reversed gives the file back |
| quilt: diff engine (1508-2607) | none | Myers, minimal, patience, histogram, hunks from edits | linear-space recursion, limits, merging of hunks | the script turns one file into the other, as briefly as was asked for |
| quilt: annotate, graph (4288-4484, 7867-8391) | none | line attribution over backups, dependency edges and their reduction | chains of backups through several patches | a line is blamed on the patch that wrote it; a graph shows every dependency, reduced or not |
| quilt: diff, snapshot, header (5256-5490, 6053-6570, 7283-7408) | `.pc/.snap` | printing diffs, taking snapshots, editing headers | the same sources as refresh, computed again | agrees with refresh |
| quilt: listings, mail, grep, setup, shell | none | read state, print, start programs | formatting | |
| quilt: platform layer (8817-9534) | files, processes | Win32 calls | long paths, console encodings | |
| C11 threads (`threads.c`, `threads.h`) | handshake of a new thread, Win32 handles, condition variables | `thrd_*`, `mtx_*`, `cnd_*`, `tss_*`, `call_once` | real concurrency, spurious and lost wake-ups, time-outs | the new thread has read its argument when `thrd_create` returns; no false time-out |
| rexxd (`rexxd.c`) | buffered input and output with positions | dump, reverse, seek | output that cannot seek, sparse reverse dumps, limits | bytes end up where the dump says |
| pkg-config (`pkg-config.c`) | the packages loaded, a stack for the walk | `process`, `expand` | cycles, private and public requirements, a bounded stack | every needed package once, in link order |
| peports, uuidgen, vc++filt, w64devkit launcher, aliases, recycle, debugbreak | little | one pass over their input | offsets that overflow, encodings | |
| runtime libraries (`libmemory.c`, `libchkstk.S`, `contrib/`) | none | memory and stack primitives | assembly | |
| build (Dockerfile, `multibuild.sh`, `*.patch`) | | | third-party sources | |

**How the parts interact.**  The programs do not talk to one another.  Inside
quilt, `quilt_main` loads the whole state from the file system (`load_state`),
calls one command function, and the command writes what it changed.  Commands
share state only through the files.  push, pop, refresh and revert call the
patch and the diff engine; pop `--refresh` and push `--refresh` call refresh.
The user's editor and build change the working tree at any time, without telling
quilt.  annotate and graph read the backups, and `graph --lines` calls the diff
engine on them.  A program
that uses `threads.h` calls it from any of its threads.  `xxd` and `xxd -r` are
two runs of one program, and what the first writes the second reads.

## Modules

| Module | Models |
|---|---|
| `QuiltPatch` | files, backups, sections and patches, and what diff and patch compute from them |
| `QuiltStack` (EXTENDS `QuiltPatch`) | the patch stack: the state and the commands that change it |
| `MCQuiltStack` | the instances of `QuiltStack` for TLC |
| `QuiltStackProofs` (EXTENDS `QuiltStack`) | theorems about `QuiltStack`, for all constants: its invariants, then what lies underneath a patch, refresh, revert, the marker |
| `QuiltDisk` (EXTENDS `QuiltPatch`, INSTANCE of `QuiltStack` twice) | the same commands call by call, with failing calls and crashes |
| `MCQuiltDisk` | the instances of `QuiltDisk` for TLC |
| `QuiltDiskProofs` (EXTENDS `QuiltDisk`, INSTANCE of `QuiltStackProofs` twice) | which command is at which call, and that it finds there what it relies on |
| `QuiltFailureProofs` (EXTENDS `QuiltDiskProofs`) | failing calls and crashes: the two lists, what is taken back, and where a file without patches is |
| `QuiltAtomicProofs` (EXTENDS `QuiltFailureProofs`) | without them, `QuiltDisk` implements `QuiltStack` |
| `DiffEngine` | the four diff algorithms, hunks, and the two formats |
| `PatchEngine` | `builtin_patch` on the section of one file, hunk by hunk |
| `QuiltRanges` | the ranges that hunks cover, and what it means that they overlap |
| `QuiltText` (EXTENDS the three above) | the engines on the same texts |
| `QuiltGraph` (EXTENDS `QuiltRanges`) | dependencies of patches, the graph of one patch, reduction |
| `QuiltAnnotate` | which patch each line of a file is from |
| `MCQuiltText` (EXTENDS `QuiltText`, `QuiltGraph`, `QuiltAnnotate`) | the instances of these three for TLC |
| `QuiltTextProofs` (EXTENDS `PatchEngine`, `QuiltGraph`, `QuiltAnnotate`) | theorems about the search for hunks, about graph and about annotate |
| `C11Threads` | `threads.c` call by call, with what Win32 does |
| `C11ThreadsProofs` (EXTENDS `C11Threads`) | theorems about it |
| `MCC11Threads` | the instances of `C11Threads` for TLC |
| `PkgConfig` | the walk, the expansion and the output of `pkg-config.c` |
| `PkgConfigProofs` (EXTENDS `PkgConfig`) | theorems about the walk and its stacks |
| `MCPkgConfig` | its instances, and the same answers computed without stacks |
| `Rexxd` | a dump and its reverse, buffer by buffer, and what they must say |
| `RexxdInvariants` (EXTENDS `Rexxd`) | what holds of them at every step |
| `RexxdProofs` (EXTENDS `RexxdInvariants`) | theorems about the buffers and the dump |
| `MCRexxd` | its instances |

### QuiltPatch

A file is the set of its lines, or `Absent`.  That is the coarsest view in which
the questions asked of the stack still have different answers: whether a file
existed, was empty, and had certain content.  The order of lines, context, fuzz
and offsets belong to the patch engine and are in `PatchEngine`.  What this
abstraction assumes of it, that a patch applied to what it was made from gives
the other side and can be reversed, is `RoundTrip` of the run `texts`.

* `Text` is `read_file`: a missing file reads as an empty one.  The code uses this
  everywhere, and so do the definitions.
* `Saved` and `Restored` are `backup_file` and `restore_file`.  The backup of a
  file that does not exist is an empty file, and an empty backup is restored by
  deleting the file.  The two are inverse to each other except for an existing
  empty file, and this exception is visible in the properties below.
* `Diff` is `generate_path_diff`: a section with the two sides, or none when both
  read the same.
* `Rejects` and `Patched` are the part of `builtin_patch` about one file;
  `Oriented` is the swap of `parse_patch` with `reverse`.  The lines a section
  deletes must be in the file.  `HunkOf` says which lines belong to one hunk: the
  hunks that apply are written even when others of the section are rejected
  (`Changing`), and a rejected creation leaves a file too.
* `Affected` is `parse_patch_files`, which reads the `+++` lines of the text and
  so misses deletions (`Unlisted`).
* `Hidden` are the files whose base name begins with a dot, which part of the code
  does not see (next section).

A patch has at most one section for a file, as every patch that refresh writes.
Reject files and merge mode are left out.

### QuiltStack

| Variable | In the code |
|---|---|
| `series` | `QuiltState::series`, `patches/series` |
| `applied` | `QuiltState::applied`, `.pc/applied-patches` |
| `reversed` | `QuiltState::patch_reversed`, the `-R` in the series file |
| `patchFile` | `patches/<name>`, parsed |
| `backup` | `.pc/<name>/<file>` |
| `needsRefresh` | `.pc/<name>/.needs_refresh` |
| `tree` | the working tree |

Each command is one action with the name of its command: `New`, `AddFile`,
`RemoveFile`, `Edit`, `RevertFile`, `Refresh`, `RefreshFork` (refresh `-z`),
`Push`, `PushForced`, `PushFails`, `Pop` (with `-f` and `--refresh`), `Delete`
(with `-r`), `Rename`, `Fork`, `Import` (with `-f` and `-R`), `Fold` (with `-R`
and `-f`).  `UserEdit` is everybody else who writes to the tree.  The guards are
the early returns of the command functions, in the form of what must hold for the
command to do something; a command that is refused changes nothing and is no step.

The code has two ways to ask what a patch holds.  add, edit, remove and revert look
for the backup of one file (`Tracks`, `file_exists`).  pop, delete, refresh, fold, and
everything that asks the patches above except add and annotate's own versions, go through
`files_in_patch` (`Listed`), which passes over each name that begins with a dot (882),
meant for its own markers.  So the backup of a `.gitignore` is made and then removed
by `delete_dir_recursive`, but nothing restores it.

Decisions worth knowing:

* push and pop of several patches are several steps, which is what the loops in
  the code do: `.pc/applied-patches` is written in each round, and the loop stops
  at the first failure.
* `pop --refresh` is one step, because the refresh and the pop happen in one call.
* refresh returns early when the patch text has not changed, and then leaves the
  `.needs_refresh` marker.  Whether the text has changed depends on the
  timestamps in the labels, so `Refresh` allows both outcomes when the sections
  are equal.
* refresh of a name that is not applied is allowed, because the code never asks
  (5646): there are no backups, and the patch file is replaced by an empty one.
* `RevertFile` applies the patch forwards even for a `-R` patch, and pop verifies
  in reverse whatever the series says, because the code does.

Left out: strip levels (`-p`), merge mode, `QUILT_*_ARGS` and `QUILT_PATCH_OPTS`
(taken as empty), headers, diffstat, trailing white space, context diffs,
import's refusal to merge headers, snapshots, symbolic links, hand-edited series
files, and a file of the project that has the name of a marker (`.needs_refresh`,
`.timestamp`), whose backup would be the marker.  A command runs without interruption by another quilt process.

### QuiltDisk

`QuiltStack` has a command as one step.  `QuiltDisk` has one action per file
system call, for the commands that make several: new, import, push, pop, delete,
rename and fork.  The seven variables of `QuiltStack` are what is on disk; `cmd`
is the running command with the local variables of its function, `step` the call
it makes next, and `todo` what is left of a loop over files, which may run in any
order.

| Actions | Code |
|---|---|
| `StartPush`, `StartPop`, ... | the checks of the command before its first call |
| `Save`, `Restore`, `Clear`, `ClearMarker`, `ClearMarkerFails` | `backup_file`, `restore_file`, `delete_dir_recursive`; what pop restores is `FilesIn`, what is cleared `Tracked` |
| `PatchFile` | the write of `builtin_patch` for one file |
| `WriteSeries`, `WriteApplied`, `Mark` | `write_series_checked`, `write_applied_checked` and the unchecked one, `.needs_refresh` |
| `ChangePatchFile`, `MoveDir` | the rename, copy or removal of the patch file and of `.pc/<patch>` |
| `UndoSeries`, `UndoDir`, `UndoFile` | the rollbacks of rename, fork and import |
| `SavesEnd`, `PatchEnds`, `RestoresEnd`, `ClearEnds` | the ends of the loops |

Every call has a parameter `ok`, or for the removal of the marker an action of its own
that fails.  With `ok` false nothing changes on disk and the
command goes on as the code does: most calls of push and pop are not asked
whether they did anything; the others make the command give up, in rename, fork
and import after taking back what was done.  `Crash` ends the command between two
calls.  The next command is again one that finds the disk as it is.

Left out: a write that stops half way (`write_file` truncates first), calls that
make directories (an empty directory is like none), the user's edits during a
command, refresh and the commands with a single call.  A crash in the middle of
rename or fork is a state of its own (`"torn"`) from which nothing is explored:
the two lists disagree there.

### DiffEngine

Functions of two sequences of lines; the program keeps no state here.  `Myers`
is the search from both ends for a middle (`Furthest`, `Endpoints`, `Best`) and
the backtracking of the part that was searched; `CostLimit` is the point where
the `myers` algorithm, unlike `minimal`, takes the best it has and starts again
on the rest.  `Patience` cuts off common ends, deals the lines that are unique on
both sides into piles and works between the anchors; `Histogram` looks for the
block of the rarest lines and falls back on `Myers` for lines that repeat too
often or when it has gone too deep.  The limits of the code (256, 64, 1024) are
the constants `CostFloor`, `ChainLimit` and `DepthLimit`, so that small files
reach them.

`BuildHunks` groups changes with their context; `Unified` and `Context` are the two
formats, a body line being its first character and its text.  `SplitLast` is the
end of `builtin_diff`: when only one file ends in a newline, an equal last line
is a change.

### PatchEngine

| Variable | In the code |
|---|---|
| `job` | the arguments of `builtin_patch`, one section |
| `placed` | where the hunks so far matched, with the fuzz, or that they did not |
| `offset`, `frozen` | `cumulative_offset`, `last_frozen_line` |
| `outcome` | the file written, removed or kept, and the reject file |

`Parse` reads hunks from their text (`parse_patch`), with the counts of the header
deciding where a body ends, turned round with `-R`.  `Accept` and `Reject` are
`locate_hunk` on the next hunk: with the least fuzz that finds anything, the match
nearest to the guess.  The spiral of the code is written as what it visits
(`Candidates`) and in which order (`Nearer`).  `Finish` writes the file, with
conflict markers under `--merge` (`Marked`, `Conflict`), or the rejects.
`CannotFind` is the early return for a missing file.

### QuiltText

One behaviour is one call on one input (`given`): the diff engine makes the hunks
in the initial state, the patch engine reads and applies them to a tree that is,
or is not, the one they were made from.  What the headers of the hunks cover, as
`parse_ranges` reads it (`QuiltRanges`), is looked at on the same texts.

### QuiltGraph

`query` is the call: which applied patch lists a backup of which file, the ranges of
its diff of each file, and the options.  `stage` is the loop that `cmd_graph` is in.

| Variables | In the code |
|---|---|
| `edges` | `edges`; an edge leads from the earlier patch to the one that depends on it |
| `node`, `todo` | the loops at 8335 and 8336 |
| `at` | the loop at 8342 and the two positions in `is_conflict` |
| `pending`, `seen` | the stack and the set of `collect_reachable` and `has_alternate_path` |
| `near` | `reachable`, what is related to the selected patch |
| `key`, `tested`, `detours` | the loop and the list of `reduce_edges` |

`FirstSeen`, `Linked` and `CompareLast` are what happens to a file of a patch; with
`--lines`, `Pass`, `Conflicts` and `NoConflict` are the turns and the two ends of
`is_conflict`, which decides by the parity of the bounds that are left (`Hit`).
`AllLinked` to `CutDown` are 8364-8386, `Test` to `NoDetour` `reduce_edges`, and
`Draw` what `render_dot` does with nodes and edges.  The edges are removed only when all
have been tested, so each is tested against the whole graph.

The loops over maps, sets and stacks take their members in any order.  The ranges are part
of the call: `IsRanges` says what diffs with context have, and `RoundTrip` of `texts`
that the diff engine writes no others.

### QuiltAnnotate

`history` is the call: how many patches are applied, which of them keep a backup of the
file, these backups, the file in the tree and the patch asked for.

| Variables | In the code |
|---|---|
| `patch`, `count` | the loop at 4467: the patch, and the number that is printed for it |
| `notes`, `result` | `annotations`, and `result` of `reannotate_lines` |
| `table`, `row`, `col` | `dp`, and `i`, `j` of both its loops, from 1 |

`NextPatch` is the next pair of files; `LeftBy` is the second of them, which for the last
patch looked at may be the backup of one above.  The versions up to the patch asked for are
found by `file_exists`, the one above by `files_in_patch`: for a file whose name begins with a
dot (`hidden`) the patches above are not seen, and the tree is taken instead.  `Fill` and `NextRow` fill the table,
`KeepLine`, `InsertLine` and `DeleteLine` are the branches of the walk along it.  Missing and empty
files have no lines, as in `read_lines`.

### C11Threads

`program` is the set of functions that a program calls; each thread calls them
in any order that the C standard allows.  A step is what happens between two
points at which another thread can come in.

| Variables | In the code |
|---|---|
| `pc` | where each thread is |
| `spawn`, `maker`, `arg` | the `Spawn` on the stack of `thrd_create`; whose Spawn a trampoline has; what it read there |
| `handles`, `joinable`, `target` | open Win32 handles, and which of them the program, or a join, has |
| `holder`, `wait`, `now` | the mutex, the waits on the condition variable with their deadlines, the system time |
| `once`, `tss` | a `once_flag`, the values under a key |
| `spurious` | wake-ups that nobody asked for, bounded by `MaxSpurious` |

`CreateThread`, `Acquire`, `Sleep`, `Release`, `Leave` are `thrd_create`;
`ReadSpawn`, `Enter`, `Consume`, `Wake`, `Start` are `thread_trampoline`, each one
Win32 call or one access to shared memory.  `Measure` and `TimedWait` are the two
halves of `cnd_timedwait`, which reads the clock and then sleeps for a relative
time; `Timeout` is its arithmetic with the limits of 64 and 32 bits.  A thread
that is woken has to get the mutex again (`Locked`).

The mutex is a slim lock of Win32 and the order in which it is handed on is
left open.  Any failure of the wait counts as a time-out in the code (230); in
the model a wait fails only by its time-out.

### PkgConfig

| Variable | In the code |
|---|---|
| `input` | the files, the search path, the command line |
| `stack` | the frames of `process`: requirements left, depth, flags |
| `pkgs`, `order` | the packages loaded, and their list in load order |
| `work` | the package being expanded, with the strings on the stack of `expand` |
| `status` | what the program does, or why it failed |

`Start`, `Return`, `Visit`, `Find`, `Load` are the turns of the loop in
`process`: a package met again may turn out to be public (`Promotes`), and then
the walk enters it once more.  `Copy`, `Unescape`, `Substitute`, `FieldEnds` are
`expand`, which keeps the tail of a string on the stack while a variable's value
is expanded.  `Report` decides between flags, versions and failure; `Cflags` and
`Libs` are what is printed, `Kept` which of several equal words is.
`CompareVersions` works on bytes.

### Rexxd

`turn` is the process that runs, the dump first.  `in` and `out` are the structures
`Input` and `Output` with the file behind them, `line` what has been read of the
next line, `todo` what is still to be printed, `dump` the offset and the three
states of autoskip.  `Refill` may read less than asked for; `Put` flushes a buffer
that is full; `Seek`, `SkipRead`, `Skipped` are `-s`, with and without a seek;
`PrintLine` and `EndOfInput` the loop of the dump; `ReverseLine` reads one line of a
dump and does what `seekout` does: nothing, a seek after a flush, or zeros up to the
position, after which the bytes of the line follow with the checks of any output.
`ReadFails`, `SkipFails`, and the second branches of `Put`, `ReverseLine` and
`Finish` are system calls that fail.

Offsets have one bit more than positions, as in the code; `Wrap` is where they
overflow.

## Runs

All passing runs explore their whole state space.  Deadlock is checked, except
where the program really stops: in `disk_fails`, where a crash in the middle of a
rename is the end; in `threads`, where all threads may have ended or wait for a
signal that nobody sends; in `pkg_config` and `rexxd`, whose programs end.

**deep** (`QuiltStackDeep.cfg`): three patches, one file that is absent or has
one line, one importable patch and one foldable diff.  Three patches are the
fewest with which a patch has two others above it (the first and the last backup
above differ) and with which an unapplied patch lies behind two applied ones.
Patch names are symmetric: nothing in the specification tells them apart.  165,778
states.

* `TypeOK`.
* `AppliedIsSeriesPrefix`: the applied patches are the first of the series and
  no name occurs twice.
* `OnlyAppliedInPc`: no backup and no marker of an unapplied patch.
* `CommandsKeepUnderneath`: *the* property of a patch stack.  `Underneath(i, f)`
  is the state that `f` returns to when everything from the i-th patch on is
  popped by force.  No command changes it, for any `i` up to the new height,
  though every command moves backups around, but for the exceptions below.
* `RefreshRecordsPatch`: pushing the patch file that refresh writes, on what is
  underneath, gives what the next patch up found, in every file that is listed;
  of a name that begins with a dot refresh writes nothing.
* `MarkerKeptUntilRefresh`: a patch pushed with rejects stays marked until it is
  regenerated or taken down.

**wide** (`QuiltStackWide.cfg`): one patch over two files that are absent, empty,
or have one or two lines; patches that create, change and delete.  Two files are
needed for a push in which one file applies and the other is rejected; each line is
a hunk of its own, so that a section can be applied in part.  406,742 states.

* `PushCanBeUndone`: after any push, clean, forced or failed, popping gives the
  tree back, but for the exceptions below.
* `RevertedFilePops`: what revert restores is accepted by pop's verification.

`CommandsKeepUnderneath` and `PushCanBeUndone` name their exceptions: names that
begin with a dot (pop does not restore them, next section), files that
exist and are empty (the backup format cannot tell them from missing ones), files
that a patch deletes (next section), and, for the first, `remove -P` below a patch
that tracks the file too (the code has no guard there, and the chain of backups
breaks).

**disk_atomic** (`QuiltDiskAtomic.cfg`): three patch names, three files, of
which one has a name that begins with a dot and any patch changes at most two, no mishap.
500,252 states.

* `ImplementsStack`: `QuiltDisk` implements `QuiltStack`.  The refinement mapping
  takes the state of `QuiltStack` from `settled`, the disk when the last command
  ended, so a command is a sequence of stuttering steps with the atomic action at
  its return.  It ties each list of calls to the effect that the first module
  states for the whole command: save before patching, restore from what was
  saved, the position in the series found before anything is written.

**disk_fails** (`QuiltDiskFails.cfg`): three patch names, two files, and one
mishap anywhere: a call that fails or a crash.  One patch text for both files is
enough to have a push rejected (the second time) and, after a crash, rejected in
one file only.  627,830 states.

* `TypeOK` of the module.
* `ListsAgree`: the order in which new, delete and the others write the two lists
  keeps the applied patches a prefix of the series after each call.  Left out are
  rename and fork, which pass through a state where the lists disagree, and a
  second failing call, which can leave them there.
* `BottomKeptByEveryCall`: between any two calls, a file without patches is in
  the tree or in the oldest backup, as long as no call fails.  Left out are names that
  begin with a dot, which pop and delete lose without any mishap, files that a patch
  deletes, empty files, and commands that find the directory of a push that crashed,
  which the next push saves over.
* `FailureUndone`: after a failure in any of their calls, rename, fork and import
  leave the project as it was.

One mishap is the design limit of the code: its rollbacks do not look at the
results of their own calls.

**texts** (`QuiltTexts.cfg`): one command at a time, push and refresh with their engines,
graph, or annotate.  `MCQuiltText` puts the three modules side by side; the two that a
command does not use stand still, so each behaviour is one of its own module, and the
theorems about the modules are about what is run here.

For the engines: pairs of files of up to four lines over two values
for the algorithms; of up to three lines, with and without a last newline, for
patches on the file they were made from, in both directions, with no or one line
of context; and a patch on any drifted file of up to four lines.  Four lines hold
two hunks with one line of context that touch, and a hunk that matches in more than
one place; the cost limit is two steps, a rare line one that occurs at most twice.

* `ScriptsAreExact`: what each algorithm returns, cut short or not, has every
  line of both files once, in order, and calls equal only what is.
* `MinimalIsShortest`: `minimal` keeps as many lines as a longest common
  subsequence, found by trying all.
* `ContextDiffIsComplete`: a reader of a context diff can put both sides
  together.
* `RoundTrip`: what is read from a patch is a `Job`, which is what the theorems about
  the search start from; what the headers of its hunks cover is what those about graph
  start from; and applied to the file it was made from, forwards or in
  reverse, a patch gives the other file to the last newline and rejects nothing.  Refresh
  followed by push, and pop's verification, rest on it, and so does
  `QuiltPatch`.
* `SegmentsDisjoint`, `RejectsAreHonest`: hunks never replace the same line
  twice, and a hunk is rejected only if its old side is nowhere that the search
  may look.
* `MergeKeepsOurs`: `--merge` only adds to a file when nothing applies.
* `IndependentPatchesApply`: patches that `--lines` shows as independent are; the later
  applies without the earlier.

`RoundTrip` leaves out patches without context: an insertion is then written as
`@@ -N,0`, and `locate_hunk` guesses the line before (3018); a newline added to
the last line is lost, too.  `MergeKeepsOurs` is about calls where no hunk
applies: after a rejected hunk that reaches beyond the next accepted one, the
code goes back (3183, 3218) and writes lines twice.

For graph: every way in which four patches touch two files, with all
of them shown or any one selected, with and without `--reduce`; two patches with every
pair of lists of up to two ranges between the lines 0 and 5 under `--lines`; and three
patches over two files that each cover one place or two.  Four patches are the fewest with
which a detour has two patches in between, and two ranges on each side give bounds that
meet in every way from inside and from outside.

* `GraphIsExact`: there is an edge to each patch from the last earlier one that conflicts
  with it in a file, and no other, where two patches conflict if ranges of theirs have a
  line in common, which is said of pairs of ranges (`Overlap`), not of a sweep; for one
  patch, the edges between those that it reaches or that reach it.
* `GraphIsReduced`: what is drawn under `--reduce` has all patches and every dependency,
  direct or through others, and no edge that follows from the rest.

For annotate: one patch between any file of up to four lines and any
of up to three, over two values; and three patches of which any touch the file, with the
name of any of them asked for.  The longest common subsequence of such files is often
reached in several ways, and names go through two more patches.

* `AnnotateIsFaithful`: the lines that a patch is not named for are paired, in order, with
  equal lines of the file before it, as many as can be paired at all (over all sets of
  pairs, not by a table), and keep the names they had there.  The file that a patch left
  is here the true one (`Left`), not the one that the code compares with; they differ for
  a file with a dot in front of its name that a patch above the one asked for has saved
  too (`Misread`), and such calls are left out: annotate then names the last patch for
  lines of that one.

**threads** (`C11Threads.cfg`): three threads and five programs, each with the
functions that share state.  Three are the fewest with which a thread created by
another creates one itself while the third waits; two ticks make a millisecond
and time-outs have two bits, so that rounding and the longest time-out both
happen.

* `SpawnOutlivesUse`: while the trampoline looks at the `Spawn` on its creator's
  stack, it is there and its own, whatever wake-ups come early.
* `HandlesAccounted`: a handle is open exactly as long as somebody has it.
* `NoEarlyTimeout`: a time-out is reported at most a millisecond early.
* `CreateReturns`: no wake-up of the handshake is lost.
* `TimedWaitEnds`: a wait ends if its deadline is one that Win32 can express.

**pkg_config** (`PkgConfig.cfg`): every graph of public and private requirements
over three packages, cycles included; chains and forks over four; versions on
which length, digits and bytes decide; every way in which a file can be wrong;
variables that refer to each other and to themselves.  The stacks have eight and
six places instead of 256 and 128, so that both fill up.

* `LoadedAreTheNeeded`: the packages loaded are the fewest that have what was asked
  for and all that one of them requires; the public ones likewise with public
  requirements, however the walk met them first.
* `ListedBeforeNeeded`: every package loaded is on the list, once, which is what the
  assertion at the end of `process` counts; and before those it requires, unless they
  require it in turn.
* `WalkIsExact`: the packages found are the ones that can be reached, each once;
  the public ones those reached without a private requirement, however the walk met
  them first; their fields the text with all variables replaced.
* `VerdictIsRight`: success means that every package reached is sound and does for
  one who asks for it, and what is said about a failure is true.
* `LinkOrder`: libraries come before the ones they need, and nothing twice.
* `CommandEnds`: the command ends, though packages and variables require themselves.

`LoadedAreTheNeeded` and `WalkIsExact` say the same of the packages in two ways:
the one as least sets, of the requirements as they were loaded, which can be proved;
the other from the files, step by step from what was asked for, which a run can
compute.  Both say less with `--maximum-traverse-depth`: a package first met at the
limit is not entered again from nearer the root (1522).  `VerdictIsRight` speaks of
one who asks, because a version is compared only where a package is loaded
(1548), and a stricter requirement met later is not looked at.

**rexxd** (`Rexxd.cfg`): up to six bytes, lines of one to three, buffers of three,
positions of four bits, one failing call.  A line then straddles buffers, a run of
zeros is longer than two lines, and offsets overflow.

* `BuffersInBounds`: the position that the program counts is the real one, after
  any mixture of writes, seeks and flushes; no buffer is overrun.
* `DumpIsExact`: a dump that ended well shows every byte at its offset or a star
  that stands for zeros, and the last byte always.
* `ReverseRestores`: a reverse that ended well has restored the file.

On a file that exists the bytes that autoskip left out keep their old value, and
`ReverseRestores` says so.

### Where the program and its words disagree

* **pop_pending**: `cmd_pop` says of its verification "detects dirty/unrefreshed
  changes" (4228).  It looks only for the lines that the patch adds, and not at
  all when the patch file is missing or empty.  `new`, `edit`, `pop` loses the edit.
* **push_deletion**: push saves the files named on `+++` lines (3590 skips
  `/dev/null`), so a file deleted by a patch is not saved and pop cannot bring it
  back; nor can the error path of push.
* **pop_unrestored**: `cmd_pop` ignores the result of `restore_file` (4259) and
  then removes the backup.
* **pop_hidden**: `files_in_patch` means to skip its markers and skips every name that
  begins with a dot (882).  `new`, `edit .gitignore`, `pop` leaves the edit in the tree and
  removes the backup, where the usage of pop says that it restores files from backup
  (991).

### Fairness

The modules of quilt and `Rexxd` state safety only: a user may stop at any time,
and nothing in the stack runs by itself.

`C11Threads` assumes that Windows runs each thread that can run (`WF` of
`Creator` and of `Trampoline` for each thread), notices a time-out that has
passed (`WF` of `Expire`), and that time goes on (`WF` of `Tick`).  Nothing
makes a program call a function or give up a mutex.  Weak fairness is enough for
the lock of the handshake because only two threads ever compete for it, and the
creator gives it up to sleep.  `Tick` goes on past `MaxTime` as long as a wait
has not reached its time-out.

`PkgConfig` is one process that the system does not stop: `WF` of `Next`.

## Proofs

`QuiltStackProofs` proves, for any sets of patches, files and lines, and any
inputs from editors, imports and folds:

| Theorem | States |
|---|---|
| `Invariant` | `Spec => []IInv` |
| `TypeCorrect` | `Spec => []TypeOK` |
| `AppliedIsAlwaysSeriesPrefix` | `Spec => []AppliedIsSeriesPrefix` |
| `PcHoldsOnlyApplied` | `Spec => []OnlyAppliedInPc` |
| `PushIsUndone` | `Spec => PushCanBeUndone` |

The assumptions are the two named ones: `AbsentIsNoValue` (the marker for
"nothing" is not a content, section or patch) and `InputsAreLegal`.

`IInv` is the conjunction of `TypeOK`, `AppliedIsSeriesPrefix` and
`OnlyAppliedInPc`.  None of the last two is inductive alone.  A pop removes the
backups of the top and shortens `applied`; that the patch is then in neither
place needs that it was listed once.  A push appends the patch after the top in
the series; that this keeps `applied` a prefix needs that the top is where
`top_index` finds it, which is its only place in the series.  So every command
uses the facts about the lists (`StackStep`), and then the ones about `.pc`
(`PcStep`), with the types of everything beside them (`TypeStep`).  The lists are
treated apart from the commands: `Stack(a, s)` says of two sequences what
`AppliedIsSeriesPrefix` says of the variables, and `StackPush`, `StackPop`,
`StackInsert`, `StackAppend`, `StackRemove`, `StackRename` are the six ways in
which commands change them.

`PushIsUndone` needs `OnlyAppliedInPc`: the directory of the patch about to be
pushed is empty, so every backup in it after the push is one the push has made,
and `Restored(Saved(c)) = c` for a file that is not an empty one.  It says nothing of
files that the patch deletes, nor of names that begin with a dot, for which it is false.

In the same module, under the same assumptions:

| Theorem | States |
|---|---|
| `UnderneathIsKept` | `Spec => CommandsKeepUnderneath` |
| `RefreshIsRecorded` | `Spec => RefreshRecordsPatch` |
| `MarkerIsKept` | `Spec => MarkerKeptUntilRefresh` |
| `RevertedPops` | `Spec => RevertedFilePops` |

They need no invariant beyond `IInv`; what they need are facts about the copies
that the patches keep of one file.  `Copies(f)` is that column of backups, lowest
patch first, and `Lowest` is `Underneath` as a function of any column, any height and
any tree.  The first copy from a place on decides, so there are four ways in which a
command leaves a place alone, each a lemma: it keeps a copy there and all below it
(`KeepsHeld`); it changes neither copies nor tree (`KeepsSame`); it saves the tree
where there was no copy (`KeepsSaved`); it puts the first copy back into the tree and
none is left (`KeepsRestored`).  Each command has a lemma that says which of these
happens to which file; only for remove below another copy none does, and that is the
exception `RemovesShadowed`.  The column holds the listed copies, so names that begin
with a dot, for which no command keeps anything, are not in `UnderneathIsKept`; that the
commands treat them as the code does is part of the actions.

`QuiltDiskProofs`, `QuiltFailureProofs` and `QuiltAtomicProofs`, for any patches,
files, lines and imports:

| Theorem | States |
|---|---|
| `DiskTypeCorrect` | `Spec => []TypeOK` |
| `ListsAlwaysAgree` | `Spec => []ListsAgree` |
| `FailureIsUndone` | `Spec => FailureUndone` |
| `BottomIsKept` | `Spec => BottomKeptByEveryCall` |
| `AtomicIsImplemented` | `MaxMishaps = 0` implies `Spec => ImplementsStack` |

The assumptions are `MishapsAreNatural`, `InputsAreLegal` (of this module: the
tree at the start and the imports are files and patches) and `AbsentIsNoValue`.
The proofs about `QuiltStack` are not repeated: `QuiltStackProofs` is instantiated
once for what is on disk (`Now`) and once for the disk as the last command left it
(`Before`), and its lemmas about lists are cited through these instances.

The invariants are built up in five layers.

* `TInv`: `TypeOK`, and which command may be at which step with which local
  variables (`Shape`); the names that the next write of a list looks for are in the
  list (`Found`); only patches of the series are marked `-R` (`Marked`).  It holds
  through any number of failures and crashes.
* `LInv` adds `Lists`: while a push or a new is under way, the patch about to be
  recorded is the next of the series (`IsNext`), a delete has taken the patch off
  `applied` before it touches the series, and a rename or fork has changed exactly the
  series.  It holds for up to one failing call and any number of crashes; that is why
  `ListsAgree` and `FailureUndone` speak of one failing call.  With two, the second
  can be the write that takes the first back, whose result the code does not look at.
* `MInv` adds, for rename, fork and import, what has become of the settled disk up
  to this call, on the way there and on the way back (`Moves`, `Imports`).  `cmd.dir`
  and `cmd.file`, the local variables of the code, say exactly what there is to
  undo.
* `BInv` adds to `LInv`, while no call has failed and no push that crashed has left
  its directory: no patch but the one being pushed has copies without being applied
  (`OnlyOwn`), and which of these copies the command has made, restored or removed so
  far (`OwnCopies`).  It does not ask how the command came to its call, and so
  survives any number of crashes.  `Bottom` is read as a function of a list, the
  backups and a tree (`BottomOf`), for the files that `files_in_patch` lists, of which the
  first copy decides, and each kind of
  call that changes the disk has a lemma: a save copies what the tree has
  (`SaveKeeps`), patches and restores change the tree only where there is a copy
  (`TreeKeeps`), only what has been restored is cleared (`ClearKeeps`), and to record
  a patch or to take it off the list moves its copies from one place of the reading to
  the other (`RecordKeeps`).
* `RInv` adds to `MInv` the same for push, pop, delete and new, if nothing goes wrong
  (`Progress`), for any set `todo` of files that a loop has not come to yet.  The
  order of the files does not matter because each is saved, patched, restored or
  cleared from what the settled disk says of that file alone.

For the refinement every step of `QuiltDisk` that leaves `settled` alone is a
stutter, and every `Return` is shown to be the action of `QuiltStack` that the
command stands for, or no change (a rejected push).  `RInv` contains
`Before!IInv`, the invariant of `QuiltStack` on the settled disk; it is not proved
again but follows from the refinement itself, step by step: the settled disk
changes by a step of `QuiltStack`, and `NextIInv` of `QuiltStackProofs` says that
this keeps it.  Theorems of `QuiltStackProofs` thereby hold of the disk between
commands.

`QuiltTextProofs`, for any lines, any fuzz and any calls of the patch engine; for any
history of any number of patches, files and ranges of a graph; for any files, patches
and backups that annotate looks at:

| Theorem | States |
|---|---|
| `SegmentsAreDisjoint` | `Spec => []SegmentsDisjoint` |
| `RejectsAreOnlyHonest` | `Spec => RejectsAreHonest` |
| `GraphExact` | `GraphSpec => []GraphIsExact` |
| `GraphReduced` | `GraphSpec => []GraphIsReduced` |
| `AnnotationIsFaithful` | `AnnotateSpec => []AnnotateIsFaithful` |

The assumptions are `MaxFuzzIsCount`, `QueriesAreLegal` and `HistoriesAreLegal`: what is
asked is well typed, and the bounds of ranges are in order.

*The search.*  The invariant, `SearchInv`, says besides the types that `frozen` is behind
the segment of every accepted hunk.  A match is looked for from `frozen` on, and a
segment begins with its match, so the next segment begins behind all others.
That is so because `frozen` and the end of a segment leave out the same lines of
context.  For `RejectsAreHonest` a place where the old side occurs is a
candidate without fuzz: the reach of the spiral, the larger of the distances to
both ends, takes it in.

*graph.*  The invariant, `GInv`, has a part for each loop:

* `LinksOK`: the edges so far are the dependencies of the patches and files that have been
  looked at; `CompareOK`: the earlier patches that the loop has gone past do not conflict.
* `SweepOK`: of all pairs of ranges of which one has been passed, none overlap (`Swept`).
  To keep it, a bound that closes a range must not be passed while the other side is in
  the middle of one; that parity tells just this is `HitInside`, and that a hit is a
  real overlap follows from the same reading of the bounds.
* `CollectOK`, `DetourOK`: a walk has taken or still has every successor of what it
  has taken (`Walks`), so when the stack is empty what it has seen is closed under the
  edges and everything seen can be reached.
* `DrawOK`: the edges are the ones of `GraphIsExact`, and of those tested exactly the ones
  with an alternate path are in `detours`.

That removing all of these at once loses nothing is `ReductionKeeps`.  The edges go
forwards, so every edge of a detour is shorter than the edge it replaces; a shortest edge
that is lost would have a detour in which an edge is lost.  In place of an induction
over the length the least such edge is taken (`LeastNumber`, from the theorem on
well-founded sets).  Reachability is defined by closed sets, and the lemmas `Reach...` are
what is used of it.

*annotate.*  The invariant, `AInv`:

* `HistoryOK`: which patches have been looked at, `count` of them, and that there is a note
  for each line of the old file.
* `TableOK`: a cell that is filled is at least the size of every set of pairs that lies
  in the rest of both files (`AtMost`).
* `PathOK`: the lines kept so far are pairs in order, in front of where the walk is, and
  their number and the cell there add up to the first cell.  So at the end they are as
  many as the first cell says, and no set of pairs has more.
* `NamedOK`: each of the lines kept has the note of its pair, the others the number of
  the patch.

`CellIsBest` is the step from the cells to the right and below: a set of pairs that lies in
the rest either has no pair in the first line of one side, or begins with one, without
which it lies in both rests (`NextPair`).

`C11ThreadsProofs`, for any number of threads and any bound on wake-ups:

| Theorem | States |
|---|---|
| `SpawnAlwaysOutlivesUse` | `Spec => []SpawnOutlivesUse` |
| `ThreadsTypeCorrect` | `Spec => []TypeOK` |
| `HandlesAlwaysAccounted` | `Spec => []HandlesAccounted` |
| `TimeoutIsNeverEarly` | `Spec => []NoEarlyTimeout` |

The assumptions are `ThreadsAreThreads` and `TimesAreCounts`.  `Handshake` is the
invariant behind the first: while a trampoline is at work, its maker is inside the
loop of `thrd_create` for it, `consumed` is set only after the last read, and from
then on the trampoline has the lock until it is done; so a creator that sees
`consumed` has the lock, which means that the trampoline has let go.  `IInv` adds
that every open handle has exactly one owner (`Accounts`), and that a wait expires
no earlier than its deadline but for the rounding (`Punctual`, from the lemma
`TimeoutRoundsDown`).

`RexxdProofs`, for any input and command lines, any size of the buffers, any short
reads and any number of failing calls:

| Theorem | States |
|---|---|
| `BuffersAlwaysInBounds` | `Spec => []BuffersInBounds` |
| `DumpIsAlwaysExact` | `Spec => []DumpIsExact` |

The assumptions are `SizesArePositive`, `StarIsNoLine` (the line `*` is none with an
offset) and `JobsAreLegal`: bytes are bytes, a line has at least one column, only the
number of `-s` may be negative and its sign is the minus that was typed (`parse64`
takes none, 1101), `-o` is a position, and a pipe is read from where it is.
`BuffersInBounds` is not inductive alone.  The invariant has the
types, which differ for the two processes (`InItem`, `OutItem`: bytes are read and
lines written, then lines read and bytes written), and `Stages`: the dump is written
without a gap, so that a flush adds no zeros among its lines; a line and what is to
be printed are used up before a stage ends; a plain dump leaves no lines out, so each
line of it has bytes to reverse.  The position that is counted stays the real one
because a flush moves the one by what it takes from the buffer (`FlushedFacts`), and
a seek drains first (`DrainedFacts`).

`DumpIsExact` speaks of a dump that ended.  What makes it so at every step before is
`DInv`, whose parts run from the input to the text:

* `SeekOK`: until reading begins nothing has been read or written, and the position is
  as far as `-s` has come; so the first byte read is the one at `First` (`SeekTells`,
  `SkippingTells`).
* `ReadOK`: line and buffer are what follows in the input behind the bytes that were
  passed on (`Passed`), however short the reads were.  At the end of the input, if no
  read failed, that is all of the data (`ReadsData`).
* `DumpOK`: the offset counts the bytes passed on, but for the end (`Counts`); the
  lines put out, in the file, in the buffer and not yet printed, tell all of them
  (`Tells`); and the last line is behind by just the lines that autoskip left out,
  none, one or more (`Reaches`).  From `Reaches` follows that a star has something to
  stand for, and that the last zeros, printed without one, meet the line before them.
* `TextOK`: the text that the dump leaves tells all of the data.

`Follows` and `LineTells` say when one more line may be printed: one proof for a line
in the middle, for one that ends a run of zeros, and for the last one, whose zeros
were passed on already.  `Tells` is a statement about every line and its
neighbour, so one step of the program changes it at the end only, and no induction
over the lines is needed.

`PkgConfigProofs`, for any files, search path, variables and command line, and for
stacks of any size:

| Theorem | States |
|---|---|
| `StacksStayInBounds` | `Spec => []TypeOK` |
| `OnlyTheNeededAreLoaded` | `Spec => []LoadedAreTheNeeded` |
| `ListIsInLinkOrder` | `Spec => []ListedBeforeNeeded` |

The assumptions are `StacksHaveRoom` and `InputsAreLegal`: the stacks have a place,
and arguments, paths, files and values are read from front to back.  Nothing is
assumed of the graph of requirements, or of how variables refer to each other.

The invariant has two halves.  `SInv` is the structure: frames, strings, packages and
list are what they should be, and while a package is expanded it is the one that the
top frame has met.  `WInv` is about the walk, from its start to its end:

* `Placed`: a package that has been met is on exactly one frame until it is on the
  list, and then only there.
* `Promised`: what was asked for is public, or comes up on a frame of the command
  line; what a public package publicly requires is public, or comes up on a public
  frame.  That a frame for it is always made when a package is promoted needs that a
  frame is never as deep as the stack is high (`RoomToGoOn`): so with `Unlimited`
  depth only the size of the stack ends a walk, and that is an error.
* `Justified`: every set that has what was asked for and is closed under requirements
  has all that is loaded and all that comes up.
* `Nested`: what comes up above the frame of a package is needed by it.
* `Awaited`: what a package requires is loaded, or comes up above its frame.
* `Sorted`: what is on the list is in order.

A package goes on the list when the walk is back at its frame.  Nothing is above it
then, so by `Awaited` all that it requires is loaded: and on the list already, or on a
frame below, and then by `Nested` one of those that require it in turn.  `Return`,
`Visit` and `Find` all put the package of the top frame on the list and take something
off that frame; `Moves` says what they have in common, and each part of `WInv` is
proved once for it, and once for `Load` (`Loads`).

The loop over the words of a requirement (`ParseTokens`) is a recursive function.  What
is needed of it, that it yields a sequence, is proved by looking at the least place
where it would not (`Least`, from the theorem on well-founded sets), in place of an
induction.

Only model-checked: what the two text engines compute, which is recursive
(`ScriptsAreExact`, `MinimalIsShortest`, `ContextDiffIsComplete`, `RoundTrip`,
`MergeKeepsOurs`, `IndependentPatchesApply`);
`WalkIsExact`, `VerdictIsRight` and `LinkOrder` of `PkgConfig`, whose reference
definitions are recursive; `ReverseRestores` of `Rexxd`, which would need an
invariant as large as `DInv` again for the second process: what the seeks, the gaps
and the old file have left so far, against the lines read so far.
Liveness under fairness, ENABLED and what recursive definitions compute are out of
reach of the prover and stay with TLC: `CreateReturns`, `TimedWaitEnds`, `CommandEnds`.

## Not modelled

* Commands that only read and print (the listings, diff, files, mail, grep), and
  those that start other programs (shell, setup); the quoting and parsing of command
  lines; Win32 itself.
* header and snapshot, whose state lies apart from the stack.
* In the patch engine: file names in headers, strip levels, CRLF, time stamps.
  Context patches, which refresh `-c` writes, cannot be read back by `parse_patch`.
* A hunk whose new side has no final newline and which is applied in the middle of
  a file joins two lines, and reject files drop that marker; the model does both and
  no property is about them.
* `graph --lines` compares line numbers of versions that are not adjacent when a
  third patch lies between.  `GraphIsExact` says which ranges overlap, and
  `IndependentPatchesApply`, about adjacent versions, what that is good for.
* `graph --lines=0`, whose ranges need not have a line.
* `thrd_create` stores `*thr` after the new thread may have begun (66); the standard
  allows a program to find it unset.
* In rexxd: columns, `-e`, `-i`, the text of a line; in pkg-config: quotes and
  escapes, names that are paths, `--variable`, the listings.
* peports, uuidgen, vc++filt, the launcher, aliases, recycle, debugbreak: one pass
  over an input or a few calls in a row.  The runtime libraries are assembly.

## Plan

Done: the stack with its proofs; the call-by-call view of the commands,
failures and crashes, with its proofs; both text engines, annotate and graph; the
threads; pkg-config; rexxd.  Left, in this order:

1. `TreeStack`: the abstract promise of a patch stack, a sequence of snapshots
   of the tree of which only the last changes, and `QuiltStack` shown to
   implement it through `Underneath`.
2. `QuiltDisk`: refresh and refresh `-z` call by call, a second process, strip
   levels; snapshot and header.
3. That the diff of two files, as `Unified` writes it, is one that `Parse` reads
   back whole.
