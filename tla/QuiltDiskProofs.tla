---------------------------- MODULE QuiltDiskProofs ----------------------------
(***************************************************************************)
(* Proofs about QuiltDisk, for any patches, files, lines and inputs, and   *)
(* for any number of calls that fail and of commands that are cut short.   *)
(*                                                                         *)
(* The proofs about QuiltStack are used twice: for what is on disk now     *)
(* (Now), and for the disk as the last command has left it (Before).       *)
(***************************************************************************)
EXTENDS QuiltDisk, SequenceTheorems, TLAPS

Now == INSTANCE QuiltStackProofs WITH FoldFrom <- {}

Before == INSTANCE QuiltStackProofs WITH
  FoldFrom <- {},
  series <- settled.series, applied <- settled.applied,
  reversed <- settled.reversed, patchFile <- settled.patchFile,
  backup <- settled.backup, needsRefresh <- settled.needsRefresh,
  tree <- settled.tree

-----------------------------------------------------------------------------
(* The inductive invariant: which command is at which of its calls, and    *)
(* what that says about the disk.                                          *)

DiskType ==
  [series : Seq(Patches), applied : Seq(Patches), reversed : SUBSET Patches,
   patchFile : [Patches -> {Absent} \cup Patch],
   backup : [Patches -> [Files -> {Absent} \cup Content]],
   needsRefresh : SUBSET Patches, tree : [Files -> FileState]]

PushCommand   == [op : {"push"}, patch : Patches, force : BOOLEAN, rejects : BOOLEAN]
PopCommand    == [op : {"pop"}, patch : Patches]
NewCommand    == [op : {"new"}, patch : Patches]
DeleteCommand == [op : {"delete"}, patch : Patches, rm : BOOLEAN]
MoveCommand   == [op : {"rename", "fork"}, patch : Patches, new : Patches,
                  file : BOOLEAN, dir : BOOLEAN]
ImportCommand == [op : {"import"}, patch : Patches, text : Patch, rev : BOOLEAN]

PushSteps   == {"save", "patch", "restore", "clear", "applied", "mark"}
PopSteps    == {"restore", "clear", "applied"}
NewSteps    == {"series", "applied"}
DeleteSteps == {"restore", "clear", "applied", "series", "file"}
MoveSteps   == {"file", "dir", "series", "applied", "undo series", "undo dir", "undo file"}
ImportSteps == {"file", "series", "undo file"}

\* The steps that a command c can be at, and what it knows there.
Shape(c, s) ==
  \/ c = Idle /\ s \in {"idle", "torn"}
  \/ c \in PushCommand /\ s \in PushSteps
  \/ c \in PopCommand /\ s \in PopSteps
  \/ c \in NewCommand /\ s \in NewSteps
  \/ c \in DeleteCommand /\ s \in DeleteSteps
  \/ c \in MoveCommand /\ s \in MoveSteps
  \/ c \in ImportCommand /\ s \in ImportSteps

\* The names that the next write of the series file looks for are in it, and
\* the sections that builtin_patch has not come to are in the patch file.
Found ==
  /\ cmd.op = "delete" /\ step # "file" => Stack!IsIn(series, cmd.patch)
  /\ cmd.op \in {"rename", "fork"} /\ step \in {"file", "dir", "series"} =>
       Stack!IsIn(series, cmd.patch)
  /\ cmd.op \in {"rename", "fork"} /\ step \in {"applied", "undo series"} =>
       Stack!IsIn(series, cmd.new)
  /\ step = "patch" => \A f \in todo : patchFile[cmd.patch][f] # Absent

\* Only a patch of the series is marked -R there.
Marked == \A p \in reversed : Stack!IsIn(series, p)

TInv ==
  /\ TypeOK
  /\ settled \in DiskType
  /\ Shape(cmd, step)
  /\ Found
  /\ Marked

-----------------------------------------------------------------------------
(* What is known of lists of patches, in the words of this module.          *)

(***************************************************************************)
(* All modules speak of the same files, sections and patches.              *)
(***************************************************************************)
LEMMA SameValues ==
  /\ Now!Content = Content /\ Before!Content = Content /\ Stack!Content = Content
  /\ Now!FileState = FileState /\ Before!FileState = FileState /\ Stack!FileState = FileState
  /\ Now!Section = Section /\ Before!Section = Section /\ Stack!Section = Section
  /\ Now!Patch = Patch /\ Before!Patch = Patch /\ Stack!Patch = Patch
BY DEF Now!Content, Now!FileState, Now!Section, Now!Patch, Now!Text,
       Before!Content, Before!FileState, Before!Section, Before!Patch, Before!Text,
       Stack!Content, Stack!FileState, Stack!Section, Stack!Patch, Stack!Text,
       Content, FileState, Section, Patch, Text

(***************************************************************************)
(* A name that is in a list has a position there.                          *)
(***************************************************************************)
LEMMA PositionIn ==
  ASSUME NEW s \in Seq(Patches), NEW p, Stack!IsIn(s, p)
  PROVE  /\ Stack!Position(s, p) \in 1 .. Len(s)
         /\ s[Stack!Position(s, p)] = p
         /\ p \in Patches
<1>1. DOMAIN s = 1 .. Len(s) /\ Len(s) \in Nat
  BY LenProperties
<1> DEFINE T == {i \in 1 .. Len(s) : s[i] = p}
<1>2. T \subseteq Nat /\ T # {}
  BY <1>1 DEF Stack!IsIn
<1>3. \E i \in T : \A j \in T : i <= j
  <2> HIDE DEF T
  <2> QED
    BY <1>2, Now!LeastOf, SameValues, AbsentIsNoValue, InputsAreLegal
<1>4. \E i \in DOMAIN s : s[i] = p /\ \A j \in 1 .. i-1 : s[j] # p
  BY <1>1, <1>3
<1>5. Stack!Position(s, p) \in DOMAIN s /\ s[Stack!Position(s, p)] = p
  BY <1>4 DEF Stack!Position
<1> QED
  BY <1>1, <1>5, ElementOfSeq

(***************************************************************************)
(* Inserting a name keeps the others.                                      *)
(***************************************************************************)
LEMMA Inserted ==
  ASSUME NEW s \in Seq(Patches), NEW i \in 1 .. Len(s) + 1, NEW p \in Patches
  PROVE  /\ InsertAt(s, i, p) \in Seq(Patches)
         /\ Len(InsertAt(s, i, p)) = Len(s) + 1
         /\ \A j \in 1 .. i-1 : InsertAt(s, i, p)[j] = s[j]
         /\ InsertAt(s, i, p)[i] = p
         /\ \A q : Stack!IsIn(s, q) \/ q = p => Stack!IsIn(InsertAt(s, i, p), q)
<1> DEFINE t == InsertAt(s, i, p)
<1>1. DOMAIN s = 1 .. Len(s) /\ Len(s) \in Nat
  BY LenProperties
<1>2. /\ t \in Seq(Patches)
      /\ Len(t) = Len(s) + 1
      /\ \A j \in 1 .. i-1 : t[j] = s[j]
      /\ t[i] = p
      /\ \A j \in i+1 .. Len(s)+1 : t[j] = s[j-1]
  <2>1. Now!InsertAt(s, i, p) = t
    BY DEF InsertAt, Now!InsertAt
  <2> HIDE DEF t
  <2>2. /\ Now!InsertAt(s, i, p) \in Seq(Patches)
        /\ Len(Now!InsertAt(s, i, p)) = Len(s) + 1
        /\ \A j \in 1 .. i-1 : Now!InsertAt(s, i, p)[j] = s[j]
        /\ Now!InsertAt(s, i, p)[i] = p
        /\ \A j \in i+1 .. Len(s)+1 : Now!InsertAt(s, i, p)[j] = s[j-1]
    BY Now!InsertAtProperties, SameValues, AbsentIsNoValue, InputsAreLegal
  <2> QED
    BY <2>1, <2>2
<1> HIDE DEF t
<1>3. DOMAIN t = 1 .. Len(t)
  BY <1>2, LenProperties
<1>4. ASSUME NEW q, NEW j \in 1 .. Len(s), s[j] = q
      PROVE  Stack!IsIn(t, q)
  <2>1. CASE j < i
    BY <1>1, <1>2, <1>3, <1>4, <2>1 DEF Stack!IsIn
  <2>2. CASE j >= i
    <3>1. j + 1 \in i+1 .. Len(s)+1 /\ j + 1 \in DOMAIN t /\ (j + 1) - 1 = j
      BY <1>1, <1>2, <1>3, <2>2
    <3>2. t[j + 1] = q
      BY <1>2, <1>4, <3>1
    <3> QED
      BY <3>1, <3>2 DEF Stack!IsIn
  <2> QED
    BY <1>1, <2>1, <2>2
<1>5. Stack!IsIn(t, p)
  BY <1>1, <1>2, <1>3 DEF Stack!IsIn
<1>6. \A q : Stack!IsIn(s, q) \/ q = p => Stack!IsIn(t, q)
  BY <1>1, <1>4, <1>5 DEF Stack!IsIn
<1> QED
  BY <1>2, <1>6 DEF t

(***************************************************************************)
(* So does appending one.                                                  *)
(***************************************************************************)
LEMMA Appended ==
  ASSUME NEW s \in Seq(Patches), NEW p \in Patches
  PROVE  /\ Append(s, p) \in Seq(Patches)
         /\ Len(Append(s, p)) = Len(s) + 1
         /\ \A q : Stack!IsIn(s, q) \/ q = p => Stack!IsIn(Append(s, p), q)
<1> DEFINE t == Append(s, p)
<1>1. DOMAIN s = 1 .. Len(s) /\ Len(s) \in Nat
  BY LenProperties
<1>2. /\ t \in Seq(Patches)
      /\ Len(t) = Len(s) + 1
      /\ \A j \in 1 .. Len(s) : t[j] = s[j]
      /\ t[Len(s) + 1] = p
  BY AppendProperties
<1> HIDE DEF t
<1>3. DOMAIN t = 1 .. Len(s) + 1
  BY <1>2, LenProperties
<1>4. \A q : Stack!IsIn(s, q) \/ q = p => Stack!IsIn(t, q)
  BY <1>1, <1>2, <1>3 DEF Stack!IsIn
<1> QED
  BY <1>2, <1>4 DEF t

(***************************************************************************)
(* Removing the name at a position keeps the others.                       *)
(***************************************************************************)
LEMMA Removed ==
  ASSUME NEW s \in Seq(Patches), NEW k \in 1 .. Len(s)
  PROVE  /\ RemoveAt(s, k) \in Seq(Patches)
         /\ \A q : Stack!IsIn(s, q) /\ q # s[k] => Stack!IsIn(RemoveAt(s, k), q)
<1> DEFINE t == RemoveAt(s, k)
<1>1. DOMAIN s = 1 .. Len(s) /\ Len(s) \in Nat
  BY LenProperties
<1>2. /\ t \in Seq(Patches)
      /\ Len(t) = Len(s) - 1
      /\ \A j \in 1 .. k-1 : t[j] = s[j]
      /\ \A j \in k .. Len(s)-1 : t[j] = s[j+1]
  BY Now!RemoveAtProperties, SameValues, AbsentIsNoValue, InputsAreLegal
     DEF RemoveAt, Now!RemoveAt
<1> HIDE DEF t
<1>3. DOMAIN t = 1 .. Len(t)
  BY <1>2, LenProperties
<1>4. ASSUME NEW q, NEW j \in 1 .. Len(s), s[j] = q, q # s[k]
      PROVE  Stack!IsIn(t, q)
  <2>1. CASE j < k
    BY <1>1, <1>2, <1>3, <1>4, <2>1 DEF Stack!IsIn
  <2>2. CASE j > k
    <3>1. j - 1 \in k .. Len(s)-1 /\ j - 1 \in DOMAIN t /\ (j - 1) + 1 = j
      BY <1>1, <1>2, <1>3, <2>2
    <3>2. t[j - 1] = q
      BY <1>2, <1>4, <3>1
    <3> QED
      BY <3>1, <3>2 DEF Stack!IsIn
  <2>3. j # k
    BY <1>4
  <2> QED
    BY <1>1, <2>1, <2>2, <2>3
<1>5. \A q : Stack!IsIn(s, q) /\ q # s[k] => Stack!IsIn(t, q)
  BY <1>1, <1>4 DEF Stack!IsIn
<1> QED
  BY <1>2, <1>5 DEF t

(***************************************************************************)
(* Replacing the name at a position brings the new one and keeps the       *)
(* others.                                                                 *)
(***************************************************************************)
LEMMA Replaced ==
  ASSUME NEW s \in Seq(Patches), NEW k \in 1 .. Len(s), NEW p \in Patches
  PROVE  /\ ReplaceAt(s, k, p) \in Seq(Patches)
         /\ Len(ReplaceAt(s, k, p)) = Len(s)
         /\ \A j \in 1 .. Len(s) : ReplaceAt(s, k, p)[j] = IF j = k THEN p ELSE s[j]
         /\ \A q : (Stack!IsIn(s, q) /\ q # s[k]) \/ q = p => Stack!IsIn(ReplaceAt(s, k, p), q)
<1> DEFINE t == ReplaceAt(s, k, p)
<1>1. DOMAIN s = 1 .. Len(s) /\ Len(s) \in Nat
  BY LenProperties
<1>2. /\ t \in Seq(Patches)
      /\ Len(t) = Len(s)
      /\ \A j \in 1 .. Len(s) : t[j] = IF j = k THEN p ELSE s[j]
  BY ExceptSeq DEF ReplaceAt
<1> HIDE DEF t
<1>3. DOMAIN t = 1 .. Len(s)
  BY <1>2, LenProperties
<1>4. \A q : (Stack!IsIn(s, q) /\ q # s[k]) \/ q = p => Stack!IsIn(t, q)
  BY <1>1, <1>2, <1>3 DEF Stack!IsIn
<1> QED
  BY <1>2, <1>4 DEF t

(***************************************************************************)
(* Removing the last name of a list leaves a list.                         *)
(***************************************************************************)
LEMMA Shortened ==
  ASSUME NEW s \in Seq(Patches), s # <<>>
  PROVE  /\ Front(s) \in Seq(Patches)
         /\ Len(s) \in Nat \ {0}
         /\ Len(Front(s)) = Len(s) - 1
         /\ \A j \in 1 .. Len(s)-1 : Front(s)[j] = s[j]
BY Now!FrontProperties, SameValues, AbsentIsNoValue, InputsAreLegal DEF Front, Now!Front

(***************************************************************************)
(* Giving a patch another name leaves a list.                              *)
(***************************************************************************)
LEMMA RenamedType ==
  ASSUME NEW s \in Seq(Patches), NEW old, NEW new \in Patches
  PROVE  Stack!Renamed(s, old, new) \in Seq(Patches)
<1>1. DOMAIN s = 1 .. Len(s) /\ Len(s) \in Nat /\ \A i \in 1 .. Len(s) : s[i] \in Patches
  BY LenProperties, ElementOfSeq
<1>2. Stack!Renamed(s, old, new) = [i \in 1 .. Len(s) |-> IF s[i] = old THEN new ELSE s[i]]
  BY <1>1 DEF Stack!Renamed
<1>3. \A i \in 1 .. Len(s) : (IF s[i] = old THEN new ELSE s[i]) \in Patches
  BY <1>1
<1>4. [i \in 1 .. Len(s) |-> IF s[i] = old THEN new ELSE s[i]] \in Seq(Patches)
  BY <1>1, <1>3, IsASeq
<1> QED
  BY <1>2, <1>4

(***************************************************************************)
(* Where top_index points, whatever the two lists are.                     *)
(***************************************************************************)
LEMMA TopIndexType ==
  ASSUME TypeOK
  PROVE  /\ Stack!TopIndex \in 0 .. Len(series)
         /\ Len(series) \in Nat /\ Len(applied) \in Nat
         /\ applied # <<>> => Stack!Top \in Patches /\ Stack!IsIn(applied, Stack!Top)
<1>1. /\ series \in Seq(Patches) /\ applied \in Seq(Patches)
      /\ Len(series) \in Nat /\ Len(applied) \in Nat /\ DOMAIN applied = 1 .. Len(applied)
  BY LenProperties DEF TypeOK, Stack!TypeOK
<1>2. Stack!TopIndex \in 0 .. Len(series)
  BY <1>1, PositionIn DEF Stack!TopIndex
<1>3. ASSUME applied # <<>>
      PROVE  Stack!Top \in Patches /\ Stack!IsIn(applied, Stack!Top)
  <2>1. Len(applied) \in 1 .. Len(applied)
    BY <1>1, <1>3, Shortened
  <2> QED
    BY <1>1, <2>1, ElementOfSeq DEF Stack!Top, Stack!Last, Stack!IsIn
<1> QED
  BY <1>1, <1>2, <1>3

-----------------------------------------------------------------------------
(* Types.                                                                   *)

\* The parts of TInv about the disk, and about the running command.
DiskOK == Stack!TypeOK /\ Marked

ControlOK ==
  /\ todo \subseteq Files
  /\ faults \in Nat /\ crashes \in Nat /\ faults + crashes <= MaxMishaps
  /\ step = "idle" => settled = Disk
  /\ cmd.op = "push" => patchFile[cmd.patch] # Absent
  /\ cmd.op \in {"pop", "delete"} /\ step \in {"restore", "clear", "applied"} =>
       applied # <<>> /\ cmd.patch = Stack!Top
  /\ settled \in DiskType
  /\ Shape(cmd, step)
  /\ Found

(***************************************************************************)
(* What a command's name says of it.                                       *)
(***************************************************************************)
LEMMA ShapeFacts ==
  ASSUME NEW c, NEW s, Shape(c, s)
  PROVE  /\ c.op \in {"none", "push", "pop", "new", "delete", "rename", "fork", "import"}
         /\ s \in Steps
         /\ (c = Idle) = (s \in {"idle", "torn"})
         /\ c.op = "none" => s \in {"idle", "torn"}
         /\ c.op = "push" => c \in PushCommand /\ s \in PushSteps
         /\ c.op = "pop" => c \in PopCommand /\ s \in PopSteps
         /\ c.op = "new" => c \in NewCommand /\ s \in NewSteps
         /\ c.op = "delete" => c \in DeleteCommand /\ s \in DeleteSteps
         /\ c.op \in {"rename", "fork"} => c \in MoveCommand /\ s \in MoveSteps
         /\ c.op = "import" => c \in ImportCommand /\ s \in ImportSteps
         /\ c.op # "none" => c.patch \in Patches
<1>1. Idle.op = "none"
  BY DEF Idle
<1>2. CASE c = Idle /\ s \in {"idle", "torn"}
  BY <1>1, <1>2 DEF Steps
<1>3. CASE c \in PushCommand /\ s \in PushSteps
  <2>1. c.op \in {"push"} /\ c.patch \in Patches
    BY <1>3 DEF PushCommand
  <2>2. s \in Steps /\ s \notin {"idle", "torn"}
    BY <1>3 DEF PushSteps, Steps
  <2>3. c # Idle
    BY <1>1, <2>1
  <2> QED
    BY <1>3, <2>1, <2>2, <2>3
<1>4. CASE c \in PopCommand /\ s \in PopSteps
  <2>1. c.op \in {"pop"} /\ c.patch \in Patches
    BY <1>4 DEF PopCommand
  <2>2. s \in Steps /\ s \notin {"idle", "torn"}
    BY <1>4 DEF PopSteps, Steps
  <2>3. c # Idle
    BY <1>1, <2>1
  <2> QED
    BY <1>4, <2>1, <2>2, <2>3
<1>5. CASE c \in NewCommand /\ s \in NewSteps
  <2>1. c.op \in {"new"} /\ c.patch \in Patches
    BY <1>5 DEF NewCommand
  <2>2. s \in Steps /\ s \notin {"idle", "torn"}
    BY <1>5 DEF NewSteps, Steps
  <2>3. c # Idle
    BY <1>1, <2>1
  <2> QED
    BY <1>5, <2>1, <2>2, <2>3
<1>6. CASE c \in DeleteCommand /\ s \in DeleteSteps
  <2>1. c.op \in {"delete"} /\ c.patch \in Patches
    BY <1>6 DEF DeleteCommand
  <2>2. s \in Steps /\ s \notin {"idle", "torn"}
    BY <1>6 DEF DeleteSteps, Steps
  <2>3. c # Idle
    BY <1>1, <2>1
  <2> QED
    BY <1>6, <2>1, <2>2, <2>3
<1>7. CASE c \in MoveCommand /\ s \in MoveSteps
  <2>1. c.op \in {"rename", "fork"} /\ c.patch \in Patches
    BY <1>7 DEF MoveCommand
  <2>2. s \in Steps /\ s \notin {"idle", "torn"}
    BY <1>7 DEF MoveSteps, Steps
  <2>3. c # Idle
    BY <1>1, <2>1
  <2> QED
    BY <1>7, <2>1, <2>2, <2>3
<1>8. CASE c \in ImportCommand /\ s \in ImportSteps
  <2>1. c.op \in {"import"} /\ c.patch \in Patches
    BY <1>8 DEF ImportCommand
  <2>2. s \in Steps /\ s \notin {"idle", "torn"}
    BY <1>8 DEF ImportSteps, Steps
  <2>3. c # Idle
    BY <1>1, <2>1
  <2> QED
    BY <1>8, <2>1, <2>2, <2>3
<1> QED
  BY <1>2, <1>3, <1>4, <1>5, <1>6, <1>7, <1>8 DEF Shape

(***************************************************************************)
(* The two parts make up the whole.                                        *)
(***************************************************************************)
LEMMA TypeParts == (TInv <=> DiskOK /\ ControlOK) /\ (TInv' <=> DiskOK' /\ ControlOK')
<1>1. TInv <=> DiskOK /\ ControlOK
  BY ShapeFacts DEF TInv, TypeOK, DiskOK, ControlOK
<1>2. TInv' <=> DiskOK' /\ ControlOK'
  BY ShapeFacts DEF TInv, TypeOK, DiskOK, ControlOK
<1> QED
  BY <1>1, <1>2

(***************************************************************************)
(* A command begins from a settled disk, and leaves it alone.              *)
(***************************************************************************)
LEMMA BeginTypes ==
  ASSUME TInv, NEW c, NEW s, NEW fs, Begin(c, s, fs),
         Shape(c, s), s # "idle", fs \subseteq Files,
         c.op = "push" => patchFile[c.patch] # Absent,
         c.op \in {"pop", "delete"} /\ s \in {"restore", "clear", "applied"} =>
           applied # <<>> /\ c.patch = Stack!Top,
         c.op = "delete" => Stack!IsIn(series, c.patch),
         c.op \in {"rename", "fork"} => Stack!IsIn(series, c.patch) /\ s \in {"file", "dir", "series"},
         s # "patch"
  PROVE  TInv'
<1>1. /\ cmd' = c /\ step' = s /\ todo' = fs
      /\ series' = series /\ applied' = applied /\ reversed' = reversed
      /\ patchFile' = patchFile /\ backup' = backup /\ needsRefresh' = needsRefresh
      /\ tree' = tree /\ settled' = settled /\ faults' = faults /\ crashes' = crashes
  BY DEF Begin, disk
<1>2. DiskOK'
  BY <1>1, TypeParts DEF DiskOK, Marked, Stack!TypeOK
<1>3. Stack!Top' = Stack!Top
  BY <1>1 DEF Stack!Top
<1>4. Found'
  BY <1>1 DEF Found
<1>5. ControlOK'
  BY <1>1, <1>3, <1>4, TypeParts DEF ControlOK
<1> QED
  BY <1>2, <1>5, TypeParts

(***************************************************************************)
(* Every command begins with the right types.                              *)
(***************************************************************************)
LEMMA StartTypes ==
  ASSUME TInv, Start
  PROVE  TInv'
<1>1. TypeOK
  BY DEF TInv
<1>2. series \in Seq(Patches)
  BY <1>1 DEF TypeOK, Stack!TypeOK
<1>3. ASSUME NEW force \in BOOLEAN, StartPush(force)
      PROVE  TInv'
  <2> DEFINE p == Stack!NextPatch
             c == [op |-> "push", patch |-> p, force |-> force, rejects |-> FALSE]
  <2>1. Begin(c, "save", Affected(patchFile[p])) /\ patchFile[p] # Absent
    BY <1>3 DEF StartPush, Stack!CanPush
  <2>2. p \in Patches
    BY <1>1, <1>2, <1>3, TopIndexType, ElementOfSeq DEF StartPush, Stack!CanPush, Stack!NextPatch
  <2> HIDE DEF p
  <2>3. Shape(c, "save") /\ c.op = "push" /\ c.patch = p
    BY <2>2 DEF Shape, PushCommand, PushSteps
  <2>4. Affected(patchFile[p]) \subseteq Files
    BY DEF Affected
  <2> QED
    BY <2>1, <2>3, <2>4, BeginTypes
<1>4. ASSUME NEW force \in BOOLEAN, StartPop(force)
      PROVE  TInv'
  <2> DEFINE p == Stack!Top
             c == [op |-> "pop", patch |-> p]
  <2>1. Begin(c, "restore", FilesIn(p)) /\ applied # <<>> /\ p = Stack!Top
    BY <1>4 DEF StartPop
  <2>2. p \in Patches
    BY <1>1, <2>1, TopIndexType
  <2> HIDE DEF p
  <2>3. Shape(c, "restore") /\ c.op = "pop" /\ c.patch = p
    BY <2>2 DEF Shape, PopCommand, PopSteps
  <2>4. FilesIn(p) \subseteq Files
    BY DEF FilesIn
  <2> QED
    BY <2>1, <2>3, <2>4, BeginTypes
<1>5. ASSUME NEW p \in Patches, StartNew(p)
      PROVE  TInv'
  <2> DEFINE c == [op |-> "new", patch |-> p]
  <2>1. Begin(c, "series", {})
    BY <1>5 DEF StartNew
  <2>2. Shape(c, "series") /\ c.op = "new"
    BY DEF Shape, NewCommand, NewSteps
  <2> QED
    BY <2>1, <2>2, BeginTypes
<1>6. ASSUME NEW p \in Patches, NEW rm \in BOOLEAN, StartDelete(p, rm)
      PROVE  TInv'
  <2> DEFINE c == [op |-> "delete", patch |-> p, rm |-> rm]
  <2>1. Shape(c, "restore") /\ Shape(c, "series") /\ c.op = "delete" /\ c.patch = p
    BY DEF Shape, DeleteCommand, DeleteSteps
  <2>2. Stack!IsIn(series, p)
    BY <1>6 DEF StartDelete
  <2>3. CASE Stack!IsIn(applied, p)
    <3>1. Begin(c, "restore", FilesIn(p)) /\ p = Stack!Top
      BY <1>6, <2>3 DEF StartDelete
    <3>2. applied # <<>>
      BY <2>3 DEF Stack!IsIn
    <3>3. FilesIn(p) \subseteq Files
      BY DEF FilesIn
    <3> QED
      BY <2>1, <2>2, <3>1, <3>2, <3>3, BeginTypes
  <2>4. CASE ~Stack!IsIn(applied, p)
    <3>1. Begin(c, "series", {})
      BY <1>6, <2>4 DEF StartDelete
    <3> QED
      BY <2>1, <2>2, <3>1, BeginTypes
  <2> QED
    BY <2>3, <2>4
<1>7. ASSUME NEW op \in {"rename", "fork"}, NEW old \in Patches, NEW new \in Patches,
             Move(op, old, new)
      PROVE  TInv'
  <2> DEFINE c == [op |-> op, patch |-> old, new |-> new, file |-> FALSE, dir |-> FALSE]
             s == IF patchFile[old] # Absent THEN "file"
                  ELSE IF Stack!IsIn(applied, old) THEN "dir" ELSE "series"
  <2>1. Begin(c, s, {}) /\ Stack!IsIn(series, old) /\ s \in {"file", "dir", "series"}
    BY <1>7 DEF Move
  <2> HIDE DEF s
  <2>2. Shape(c, s) /\ c.op \in {"rename", "fork"} /\ c.patch = old
    BY <2>1 DEF Shape, MoveCommand, MoveSteps
  <2> QED
    BY <2>1, <2>2, BeginTypes
<1>8. ASSUME NEW p \in Patches, NEW P \in ImportFrom, NEW force \in BOOLEAN,
             NEW rev \in BOOLEAN, StartImport(p, P, force, rev)
      PROVE  TInv'
  <2> DEFINE c == [op |-> "import", patch |-> p, text |-> P, rev |-> rev]
  <2>1. Begin(c, "file", {})
    BY <1>8 DEF StartImport
  <2>2. Shape(c, "file") /\ c.op = "import"
    BY InputsAreLegal DEF Shape, ImportCommand, ImportSteps
  <2> QED
    BY <2>1, <2>2, BeginTypes
<1>9. ASSUME NEW old \in Patches, NEW new \in Patches, StartRename(old, new)
      PROVE  TInv'
  BY <1>7, <1>9 DEF StartRename
<1>10. ASSUME NEW new \in Patches, StartFork(new)
       PROVE  TInv'
  <2>1. Stack!Top \in Patches
    BY <1>1, <1>10, TopIndexType DEF StartFork
  <2> QED
    BY <1>7, <1>10, <2>1 DEF StartFork
<1> QED
  BY <1>3, <1>4, <1>5, <1>6, <1>8, <1>9, <1>10 DEF Start

-----------------------------------------------------------------------------
(* Every call keeps the types, whether it does what it should or not.       *)

Budget == faults \in Nat /\ crashes \in Nat /\ faults + crashes <= MaxMishaps

(***************************************************************************)
(* What is saved, restored and patched are contents and file states.       *)
(***************************************************************************)
LEMMA ValueTypes ==
  /\ \A c \in FileState : Saved(c) \in Content
  /\ \A c \in Content : Restored(c) \in FileState
  /\ \A s \in Section, rev \in BOOLEAN : Oriented(s, rev) \in Section
  /\ \A s \in Section, c \in FileState, force, re \in BOOLEAN :
       Patched(s, c, force, re) \in FileState
<1>1. /\ \A c \in FileState : Saved(c) \in Content
      /\ \A c \in Content : Restored(c) \in FileState
  BY DEF FileState, Content, Text, Saved, Restored
<1>2. \A s \in Section, rev \in BOOLEAN : Oriented(s, rev) \in Section
  BY DEF Oriented, Section
<1>3. ASSUME NEW s \in Section, NEW c \in FileState, NEW force \in BOOLEAN, NEW re \in BOOLEAN
      PROVE  Patched(s, c, force, re) \in FileState
  <2> DEFINE change == Changing(s, c)
  <2>1. Text(c) \in Content /\ Inserts(s) \in Content
    BY DEF FileState, Content, Text, Inserts, Section
  <2> HIDE DEF change
  <2>2. (Text(c) \ (Deletes(s) \cap change)) \cup (Inserts(s) \cap change) \in Content
    BY <2>1 DEF Content
  <2> QED
    BY <2>2 DEF Patched, FileState, change
<1> QED
  BY <1>1, <1>2, <1>3

(***************************************************************************)
(* Changing one copy leaves copies.                                        *)
(***************************************************************************)
LEMMA CopyTypes ==
  ASSUME backup \in [Patches -> [Files -> {Absent} \cup Content]],
         NEW p \in Patches, NEW f \in Files, NEW v \in {Absent} \cup Content
  PROVE  [backup EXCEPT ![p][f] = v] \in [Patches -> [Files -> {Absent} \cup Content]]
<1>1. [backup[p] EXCEPT ![f] = v] \in [Files -> {Absent} \cup Content]
  OBVIOUS
<1> QED
  BY <1>1

(***************************************************************************)
(* Which commands a step belongs to.                                       *)
(***************************************************************************)
LEMMA StepFacts ==
  ASSUME TInv
  PROVE  /\ step \in {"save", "patch", "mark"} => cmd.op = "push"
         /\ step \in {"restore", "clear"} => cmd.op \in {"push", "pop", "delete"}
         /\ step = "applied" => cmd.op \in {"push", "pop", "new", "delete", "rename", "fork"}
         /\ step = "series" => cmd.op \in {"new", "delete", "rename", "fork", "import"}
         /\ step = "file" => cmd.op \in {"delete", "rename", "fork", "import"}
         /\ step \in {"dir", "undo series", "undo dir"} => cmd.op \in {"rename", "fork"}
         /\ step = "undo file" => cmd.op \in {"rename", "fork", "import"}
         /\ step \notin {"idle", "torn"} => cmd.op # "none" /\ cmd.patch \in Patches
<1>1. Shape(cmd, step)
  BY DEF TInv
<1> QED
  BY <1>1, ShapeFacts DEF PushSteps, PopSteps, NewSteps, DeleteSteps, MoveSteps, ImportSteps

(***************************************************************************)
(* What the state holds.                                                   *)
(***************************************************************************)
LEMMA DiskFacts ==
  ASSUME TInv
  PROVE  /\ series \in Seq(Patches) /\ applied \in Seq(Patches)
         /\ reversed \subseteq Patches /\ needsRefresh \subseteq Patches
         /\ patchFile \in [Patches -> {Absent} \cup Patch]
         /\ backup \in [Patches -> [Files -> {Absent} \cup Content]]
         /\ tree \in [Files -> FileState]
         /\ todo \subseteq Files
         /\ Shape(cmd, step) /\ Found /\ Marked /\ TypeOK /\ Budget
BY SameValues DEF TInv, TypeOK, Stack!TypeOK, Budget

(***************************************************************************)
(* The disk has the right types when its parts have.                       *)
(***************************************************************************)
LEMMA DiskTypes ==
  ASSUME series' \in Seq(Patches), applied' \in Seq(Patches),
         reversed' \subseteq Patches, needsRefresh' \subseteq Patches,
         patchFile' \in [Patches -> {Absent} \cup Patch],
         backup' \in [Patches -> [Files -> {Absent} \cup Content]],
         tree' \in [Files -> FileState],
         \A p \in reversed' : Stack!IsIn(series', p)
  PROVE  DiskOK'
BY SameValues DEF DiskOK, Stack!TypeOK, Marked

(***************************************************************************)
(* A command that returns leaves no command running.                       *)
(***************************************************************************)
LEMMA ReturnTypes ==
  ASSUME DiskOK', Budget', Return
  PROVE  ControlOK'
<1>1. /\ cmd' = Idle /\ step' = "idle" /\ todo' = {} /\ settled' = Disk' /\ Idle.op = "none"
  BY DEF Return, Idle
<1>2. Disk' \in DiskType
  BY SameValues DEF Disk, DiskType, DiskOK, Stack!TypeOK
<1>3. Found' /\ Shape(cmd', step')
  BY <1>1 DEF Found, Shape
<1> QED
  BY <1>1, <1>2, <1>3 DEF ControlOK, Budget

(***************************************************************************)
(* A command that goes on does so at a step of its own.                    *)
(***************************************************************************)
LEMMA GoOnTypes ==
  ASSUME TInv, Budget', Shape(cmd', step'), step' # "idle",
         settled' = settled, todo' \subseteq Files,
         cmd'.op = "push" => patchFile'[cmd'.patch] # Absent,
         cmd'.op \in {"pop", "delete"} /\ step' \in {"restore", "clear", "applied"} =>
           applied' # <<>> /\ cmd'.patch = Stack!Top',
         Found'
  PROVE  ControlOK'
BY TypeParts DEF ControlOK, Budget

(***************************************************************************)
(* Saving, patching, restoring and clearing single files.                  *)
(***************************************************************************)
LEMMA FileCallTypes ==
  ASSUME TInv, Budget', NEW ok \in BOOLEAN, NEW f \in todo,
         Save(f, ok) \/ PatchFile(f, ok) \/ Restore(f, ok) \/ Clear(f, ok)
  PROVE  TInv'
<1> USE DiskFacts
<1>1. /\ series' = series /\ applied' = applied /\ reversed' = reversed
      /\ patchFile' = patchFile /\ needsRefresh' = needsRefresh
      /\ settled' = settled /\ step' = step
      /\ f \in Files /\ todo' = todo \ {f} /\ todo' \subseteq Files
      /\ step \in {"save", "patch", "restore", "clear"} /\ cmd.patch \in Patches
      /\ cmd.op \in {"push", "pop", "delete"}
  BY StepFacts DEF Save, PatchFile, Restore, Clear, GoTo
<1>2. backup' \in [Patches -> [Files -> {Absent} \cup Content]]
  <2>1. Saved(tree[f]) \in Content
    BY <1>1, ValueTypes
  <2>2. \/ backup' = backup
        \/ backup' = [backup EXCEPT ![cmd.patch][f] = Saved(tree[f])]
        \/ backup' = [backup EXCEPT ![cmd.patch][f] = Absent]
    BY DEF Save, PatchFile, Restore, Clear
  <2>3. /\ Saved(tree[f]) \in {Absent} \cup Content /\ Absent \in {Absent} \cup Content
        /\ cmd.patch \in Patches /\ f \in Files
        /\ backup \in [Patches -> [Files -> {Absent} \cup Content]]
    BY <1>1, <2>1
  <2>4. /\ [backup EXCEPT ![cmd.patch][f] = Saved(tree[f])] \in [Patches -> [Files -> {Absent} \cup Content]]
        /\ [backup EXCEPT ![cmd.patch][f] = Absent] \in [Patches -> [Files -> {Absent} \cup Content]]
    BY <2>3, CopyTypes
  <2> QED
    BY <2>2, <2>3, <2>4
<1>3. tree' \in [Files -> FileState]
  <2>1. CASE step = "patch"
    <3>1. PatchFile(f, ok) /\ cmd \in PushCommand /\ patchFile[cmd.patch] # Absent
      BY <2>1, StepFacts, ShapeFacts DEF Save, PatchFile, Restore, Clear, TypeOK
    <3> DEFINE rev == cmd.patch \in reversed
               s   == Oriented(patchFile[cmd.patch][f], rev)
    <3>2. tree' = IF ok THEN [tree EXCEPT ![f] = Patched(s, tree[f], cmd.force, TRUE)] ELSE tree
      BY <3>1 DEF PatchFile
    <3>3. patchFile[cmd.patch][f] \in Section
      <4>1. patchFile[cmd.patch] \in Patch /\ patchFile[cmd.patch][f] # Absent
        BY <1>1, <2>1, <3>1 DEF Found
      <4> QED
        BY <1>1, <4>1 DEF Patch
    <3>4. rev \in BOOLEAN
      OBVIOUS
    <3> HIDE DEF rev
    <3>5. s \in Section
      BY <3>3, <3>4, ValueTypes
    <3>6. tree[f] \in FileState /\ cmd.force \in BOOLEAN
      BY <1>1, <3>1 DEF PushCommand
    <3> HIDE DEF s
    <3>7. Patched(s, tree[f], cmd.force, TRUE) \in FileState
      BY <3>5, <3>6, ValueTypes
    <3> QED
      BY <3>2, <3>7
  <2>2. CASE step # "patch"
    <3>1. Stack!Tracks(cmd.patch, f) => Restored(backup[cmd.patch][f]) \in FileState
      BY <1>1, ValueTypes, SameValues DEF Stack!Tracks
    <3> QED
      BY <1>1, <2>2, <3>1 DEF Save, PatchFile, Restore, Clear
  <2> QED
    BY <2>1, <2>2
<1>4. DiskOK'
  BY <1>1, <1>2, <1>3, DiskTypes DEF Marked
<1>5. /\ cmd'.op = cmd.op /\ cmd'.patch = cmd.patch /\ Shape(cmd', step')
  <2>1. CASE step = "patch"
    <3>1. cmd \in PushCommand /\ step \in PushSteps
      BY <2>1, StepFacts, ShapeFacts
    <3>2. PICK r : cmd' = [cmd EXCEPT !.rejects = @ \/ r]
      BY <2>1 DEF Save, PatchFile, Restore, Clear
    <3>3. cmd' = [op |-> "push", patch |-> cmd.patch, force |-> cmd.force, rejects |-> cmd.rejects \/ r]
      BY <3>1, <3>2 DEF PushCommand
    <3> QED
      BY <1>1, <3>1, <3>3 DEF PushCommand, Shape
  <2>2. CASE step # "patch"
    BY <1>1, <2>2 DEF Save, PatchFile, Restore, Clear, GoTo
  <2> QED
    BY <2>1, <2>2
<1>6. Stack!Top' = Stack!Top
  BY <1>1 DEF Stack!Top
<1>7. Found'
  BY <1>1, <1>5 DEF Found
<1>8. ControlOK'
  BY <1>1, <1>5, <1>6, <1>7, GoOnTypes DEF TypeOK
<1> QED
  BY <1>4, <1>8, TypeParts

(***************************************************************************)
(* The write of applied-patches.                                           *)
(***************************************************************************)
LEMMA AppliedTypes ==
  ASSUME TInv, Budget', NEW ok \in BOOLEAN, WriteApplied(ok)
  PROVE  TInv'
<1>1. /\ series' = series /\ reversed' = reversed /\ patchFile' = patchFile
      /\ backup' = backup /\ needsRefresh' = needsRefresh /\ tree' = tree
      /\ step = "applied" /\ applied' = IF ok THEN NewApplied ELSE applied
  BY DEF WriteApplied
<1>2. /\ cmd.op \in {"push", "pop", "new", "delete", "rename", "fork"}
      /\ cmd.patch \in Patches /\ Shape(cmd, step)
  BY <1>1, StepFacts, DiskFacts
<1>3. NewApplied \in Seq(Patches)
  <2>1. CASE cmd.op \in {"push", "new"}
    BY <1>2, <2>1, DiskFacts, Appended DEF NewApplied
  <2>2. CASE cmd.op \in {"pop", "delete"}
    <3>1. applied # <<>>
      BY <1>1, <2>2, DiskFacts DEF TypeOK
    <3> QED
      BY <2>2, <3>1, DiskFacts, Shortened DEF NewApplied
  <2>3. CASE cmd.op \in {"rename", "fork"}
    <3>1. cmd.new \in Patches
      BY <1>2, <2>3, ShapeFacts DEF MoveCommand
    <3> QED
      BY <2>3, <3>1, DiskFacts, RenamedType DEF NewApplied
  <2> QED
    BY <1>2, <2>1, <2>2, <2>3
<1>4. DiskOK'
  BY <1>1, <1>3, DiskFacts, DiskTypes DEF Marked
<1>5. \/ cmd.op = "push" /\ GoTo("mark", {})
      \/ cmd.op = "delete" /\ GoTo("series", {})
      \/ cmd.op \in {"rename", "fork"} /\ GoTo("undo series", {})
      \/ Return
  BY DEF WriteApplied
<1>6. CASE Return
  BY <1>4, <1>6, ReturnTypes, TypeParts
<1>7. ASSUME NEW s \in {"mark", "series", "undo series"}, GoTo(s, {}), Shape(cmd, s),
             cmd.op = "delete" => s = "series", cmd.op = "push" => s = "mark",
             cmd.op \notin {"delete", "push"} => cmd.op \in {"rename", "fork"} /\ s = "undo series"
      PROVE  TInv'
  <2>1. cmd' = cmd /\ step' = s /\ todo' = {} /\ settled' = settled
    BY <1>7 DEF GoTo
  <2>2. Found'
    BY <1>1, <1>7, <2>1, DiskFacts DEF Found
  <2>3. ControlOK'
    BY <1>1, <1>7, <2>1, <2>2, DiskFacts, GoOnTypes DEF TypeOK
  <2> QED
    BY <1>4, <2>3, TypeParts
<1>8. CASE cmd.op = "push" /\ GoTo("mark", {})
  <2>1. Shape(cmd, "mark")
    BY <1>2, <1>8, ShapeFacts DEF Shape, PushSteps
  <2> QED
    BY <1>7, <1>8, <2>1
<1>9. CASE cmd.op = "delete" /\ GoTo("series", {})
  <2>1. Shape(cmd, "series")
    BY <1>2, <1>9, ShapeFacts DEF Shape, DeleteSteps
  <2> QED
    BY <1>7, <1>9, <2>1
<1>10. CASE cmd.op \in {"rename", "fork"} /\ GoTo("undo series", {})
  <2>1. Shape(cmd, "undo series")
    BY <1>2, <1>10, ShapeFacts DEF Shape, MoveSteps
  <2> QED
    BY <1>7, <1>10, <2>1
<1> QED
  BY <1>5, <1>6, <1>8, <1>9, <1>10

(***************************************************************************)
(* The marker of a push with rejects.                                      *)
(***************************************************************************)
LEMMA MarkTypes ==
  ASSUME TInv, Budget', NEW ok \in BOOLEAN, Mark(ok)
  PROVE  TInv'
<1>1. cmd.patch \in Patches
  BY StepFacts DEF Mark
<1>2. DiskOK'
  BY <1>1, DiskFacts, DiskTypes DEF Mark, Marked
<1> QED
  BY <1>2, ReturnTypes, TypeParts DEF Mark

(***************************************************************************)
(* What is written to the series file is a list, and only a patch of that  *)
(* list is marked.                                                         *)
(***************************************************************************)
LEMMA NewSeriesTypes ==
  ASSUME TInv, step = "series"
  PROVE  /\ NewSeries \in Seq(Patches)
         /\ NewReversed \subseteq Patches
         /\ \A p \in NewReversed : Stack!IsIn(NewSeries, p)
         /\ cmd.op \in {"rename", "fork"} => Stack!IsIn(NewSeries, cmd.new)
<1>1. /\ cmd.op \in {"new", "delete", "rename", "fork", "import"}
      /\ cmd.patch \in Patches /\ Shape(cmd, step)
      /\ series \in Seq(Patches) /\ reversed \subseteq Patches
      /\ \A p \in reversed : Stack!IsIn(series, p)
  BY StepFacts, DiskFacts DEF Marked
<1>2. /\ Stack!TopIndex + 1 \in 1 .. Len(series) + 1
      /\ Len(series) \in Nat
  BY TopIndexType, DiskFacts
<1>3. CASE cmd.op = "new"
  <2>1. NewSeries = InsertAt(series, Stack!TopIndex + 1, cmd.patch) /\ NewReversed = reversed
    BY <1>3 DEF NewSeries, NewReversed
  <2> QED
    BY <1>1, <1>2, <1>3, <2>1, Inserted
<1>4. CASE cmd.op = "delete"
  <2> DEFINE k == Stack!Position(series, cmd.patch)
  <2>1. NewSeries = RemoveAt(series, k) /\ NewReversed = reversed \ {cmd.patch}
    BY <1>4 DEF NewSeries, NewReversed
  <2>2. k \in 1 .. Len(series) /\ series[k] = cmd.patch
    BY <1>1, <1>4, DiskFacts, PositionIn DEF Found
  <2> HIDE DEF k
  <2> QED
    BY <1>1, <1>4, <2>1, <2>2, Removed
<1>5. CASE cmd.op \in {"rename", "fork"}
  <2> DEFINE k == Stack!Position(series, cmd.patch)
  <2>1. /\ NewSeries = ReplaceAt(series, k, cmd.new)
        /\ NewReversed = Stack!MovedMember(reversed, cmd.patch, cmd.new)
    BY <1>5 DEF NewSeries, NewReversed
  <2>2. k \in 1 .. Len(series) /\ series[k] = cmd.patch
    BY <1>1, <1>5, DiskFacts, PositionIn DEF Found
  <2>3. cmd.new \in Patches
    BY <1>1, <1>5, ShapeFacts DEF MoveCommand
  <2> HIDE DEF k
  <2> DEFINE t == ReplaceAt(series, k, cmd.new)
  <2>4. /\ t \in Seq(Patches)
        /\ \A q : (Stack!IsIn(series, q) /\ q # series[k]) \/ q = cmd.new => Stack!IsIn(t, q)
    <3> DEFINE n == cmd.new
    <3>1. k \in 1 .. Len(series) /\ n \in Patches /\ series \in Seq(Patches)
      BY <1>1, <2>2, <2>3
    <3> HIDE DEF n
    <3>2. /\ ReplaceAt(series, k, n) \in Seq(Patches)
          /\ \A q : (Stack!IsIn(series, q) /\ q # series[k]) \/ q = n
                     => Stack!IsIn(ReplaceAt(series, k, n), q)
      BY <3>1, Replaced
    <3> QED
      BY <3>2 DEF n, t
  <2> HIDE DEF t
  <2>5. \A p \in NewReversed : p \in Patches /\ Stack!IsIn(t, p)
    BY <1>1, <2>1, <2>2, <2>3, <2>4 DEF Stack!MovedMember
  <2> QED
    BY <1>5, <2>1, <2>4, <2>5 DEF t
<1>6. CASE cmd.op = "import"
  <2>1. NewReversed \subseteq reversed \cup {cmd.patch}
    BY <1>6, <1>1, ShapeFacts DEF NewReversed
  <2>2. NewSeries = IF Stack!IsIn(series, cmd.patch) THEN series
                    ELSE IF Stack!TopIndex > 0 THEN InsertAt(series, Stack!TopIndex + 1, cmd.patch)
                    ELSE Append(series, cmd.patch)
    BY <1>6 DEF NewSeries
  <2>3. NewSeries \in Seq(Patches)
    BY <1>1, <1>2, <2>2, Inserted, Appended
  <2>4. \A q : Stack!IsIn(series, q) \/ q = cmd.patch => Stack!IsIn(NewSeries, q)
    BY <1>1, <1>2, <2>2, Inserted, Appended
  <2> QED
    BY <1>1, <1>6, <2>1, <2>3, <2>4
<1> QED
  BY <1>1, <1>3, <1>4, <1>5, <1>6

(***************************************************************************)
(* The write of the series file.                                           *)
(***************************************************************************)
LEMMA SeriesTypes ==
  ASSUME TInv, Budget', NEW ok \in BOOLEAN, WriteSeries(ok)
  PROVE  TInv'
<1>1. /\ applied' = applied /\ patchFile' = patchFile
      /\ backup' = backup /\ needsRefresh' = needsRefresh /\ tree' = tree
      /\ step = "series"
      /\ series' = IF ok THEN NewSeries ELSE series
      /\ reversed' = IF ok THEN NewReversed ELSE reversed
  BY DEF WriteSeries
<1>2. /\ cmd.op \in {"new", "delete", "rename", "fork", "import"}
      /\ cmd.patch \in Patches /\ Shape(cmd, step)
  BY <1>1, StepFacts, DiskFacts
<1>3. DiskOK'
  BY <1>1, DiskFacts, NewSeriesTypes, DiskTypes DEF Marked
<1>4. \/ cmd.op = "new" /\ GoTo("applied", {})
      \/ cmd.op = "delete" /\ GoTo("file", {})
      \/ cmd.op \in {"rename", "fork"} /\ ok /\ GoTo("applied", {})
      \/ cmd.op \in {"rename", "fork"} /\ GoTo("undo dir", {})
      \/ cmd.op = "import" /\ GoTo("undo file", {})
      \/ Return
  BY DEF WriteSeries
<1>5. CASE Return
  BY <1>3, <1>5, ReturnTypes, TypeParts
<1>6. ASSUME NEW s \in {"applied", "file", "undo dir", "undo file"}, GoTo(s, {}), Shape(cmd, s),
             cmd.op = "delete" => s = "file",
             cmd.op \in {"rename", "fork"} => s = "undo dir" \/ (s = "applied" /\ ok)
      PROVE  TInv'
  <2>1. cmd' = cmd /\ step' = s /\ todo' = {} /\ settled' = settled
    BY <1>6 DEF GoTo
  <2>2. cmd.op \in {"rename", "fork"} /\ s = "applied" => Stack!IsIn(series', cmd.new)
    BY <1>1, <1>6, NewSeriesTypes
  <2>3. Found'
    BY <1>1, <1>2, <1>6, <2>1, <2>2 DEF Found
  <2>4. ControlOK'
    BY <1>1, <1>2, <1>6, <2>1, <2>3, GoOnTypes
  <2> QED
    BY <1>3, <2>4, TypeParts
<1>7. CASE cmd.op = "new" /\ GoTo("applied", {})
  <2>1. Shape(cmd, "applied")
    BY <1>2, <1>7, ShapeFacts DEF Shape, NewSteps
  <2> QED
    BY <1>6, <1>7, <2>1
<1>8. CASE cmd.op = "delete" /\ GoTo("file", {})
  <2>1. Shape(cmd, "file")
    BY <1>2, <1>8, ShapeFacts DEF Shape, DeleteSteps
  <2> QED
    BY <1>6, <1>8, <2>1
<1>9. CASE cmd.op \in {"rename", "fork"} /\ ((ok /\ GoTo("applied", {})) \/ GoTo("undo dir", {}))
  <2>1. Shape(cmd, "applied") /\ Shape(cmd, "undo dir")
    BY <1>2, <1>9, ShapeFacts DEF Shape, MoveSteps
  <2>2. cmd.op \in {"rename", "fork"} /\ cmd.op # "delete"
    BY <1>9
  <2>3. CASE ok /\ GoTo("applied", {})
    <3>1. "applied" \in {"applied", "file", "undo dir", "undo file"}
      OBVIOUS
    <3> QED
      BY <1>6, <2>1, <2>2, <2>3, <3>1
  <2>4. CASE GoTo("undo dir", {})
    <3>1. "undo dir" \in {"applied", "file", "undo dir", "undo file"}
      OBVIOUS
    <3> QED
      BY <1>6, <2>1, <2>2, <2>4, <3>1
  <2> QED
    BY <1>9, <2>3, <2>4
<1>10. CASE cmd.op = "import" /\ GoTo("undo file", {})
  <2>1. Shape(cmd, "undo file")
    BY <1>2, <1>10, ShapeFacts DEF Shape, ImportSteps
  <2> QED
    BY <1>6, <1>10, <2>1
<1> QED
  BY <1>4, <1>5, <1>7, <1>8, <1>9, <1>10

(***************************************************************************)
(* The patch file is moved, copied, removed or brought in.                 *)
(***************************************************************************)
LEMMA FileTypes ==
  ASSUME TInv, Budget', NEW ok \in BOOLEAN, ChangePatchFile(ok)
  PROVE  TInv'
<1>1. /\ series' = series /\ applied' = applied /\ reversed' = reversed
      /\ backup' = backup /\ needsRefresh' = needsRefresh /\ tree' = tree
      /\ step = "file" /\ patchFile' = IF ok THEN NewPatchFile ELSE patchFile
  BY DEF ChangePatchFile
<1>2. /\ cmd.op \in {"delete", "rename", "fork", "import"}
      /\ cmd.patch \in Patches /\ Shape(cmd, step)
  BY <1>1, StepFacts, DiskFacts
<1>3. NewPatchFile \in [Patches -> {Absent} \cup Patch]
  <2>1. CASE cmd.op = "delete"
    BY <1>2, <2>1, DiskFacts DEF NewPatchFile
  <2>2. CASE cmd.op \in {"rename", "fork"}
    <3>1. cmd.new \in Patches
      BY <1>2, <2>2, ShapeFacts DEF MoveCommand
    <3> QED
      BY <1>2, <2>2, <3>1, DiskFacts DEF NewPatchFile, Stack!Moved
  <2>3. CASE cmd.op = "import"
    <3>1. cmd.text \in Patch
      BY <1>2, <2>3, ShapeFacts DEF ImportCommand
    <3> QED
      BY <1>2, <2>3, <3>1, DiskFacts DEF NewPatchFile
  <2> QED
    BY <1>2, <2>1, <2>2, <2>3
<1>4. DiskOK'
  BY <1>1, <1>3, DiskFacts, DiskTypes DEF Marked
<1>5. CASE Return
  BY <1>4, <1>5, ReturnTypes, TypeParts
<1>6. CASE ~Return
  <2>1. /\ cmd.op \in {"rename", "fork", "import"}
        /\ cmd' = IF cmd.op = "import" THEN cmd ELSE [cmd EXCEPT !.file = TRUE]
        /\ step' = IF cmd.op # "import" /\ Stack!IsIn(applied, cmd.patch) THEN "dir" ELSE "series"
        /\ todo' = todo /\ settled' = settled
    BY <1>2, <1>6 DEF ChangePatchFile
  <2>2. /\ Shape(cmd', step') /\ cmd'.op = cmd.op /\ cmd'.patch = cmd.patch
        /\ cmd'.op \in {"rename", "fork"} => cmd'.new = cmd.new
    <3>1. CASE cmd.op = "import"
      BY <1>2, <2>1, <3>1, ShapeFacts DEF Shape, ImportSteps
    <3>2. CASE cmd.op \in {"rename", "fork"}
      <4>1. cmd \in MoveCommand
        BY <1>2, <3>2, ShapeFacts
      <4>2. cmd' = [op |-> cmd.op, patch |-> cmd.patch, new |-> cmd.new, file |-> TRUE, dir |-> cmd.dir]
        BY <2>1, <3>2, <4>1 DEF MoveCommand
      <4>3. cmd' \in MoveCommand
        BY <4>1, <4>2 DEF MoveCommand
      <4>4. step' \in {"dir", "series"}
        BY <2>1
      <4> QED
        BY <4>2, <4>3, <4>4 DEF Shape, MoveSteps
    <3> QED
      BY <2>1, <3>1, <3>2
  <2>3. Found'
    BY <1>1, <2>1, <2>2, DiskFacts DEF Found
  <2>4. ControlOK'
    BY <1>1, <2>1, <2>2, <2>3, DiskFacts, GoOnTypes
  <2> QED
    BY <1>4, <2>4, TypeParts
<1> QED
  BY <1>5, <1>6

(***************************************************************************)
(* Moving the directory of a patch keeps copies and markers.               *)
(***************************************************************************)
LEMMA MovedDirTypes ==
  ASSUME TInv, NEW from \in Patches, NEW to \in Patches, NEW ok \in BOOLEAN,
         MovedDir(from, to, ok)
  PROVE  /\ backup' \in [Patches -> [Files -> {Absent} \cup Content]]
         /\ needsRefresh' \subseteq Patches
<1>1. Stack!NoBackups \in [Files -> {Absent} \cup Content]
  BY DEF Stack!NoBackups
<1>2. Stack!Moved(backup, from, to, Stack!NoBackups) \in [Patches -> [Files -> {Absent} \cup Content]]
  BY <1>1, DiskFacts DEF Stack!Moved
<1>3. Stack!MovedMember(needsRefresh, from, to) \subseteq Patches
  BY DiskFacts DEF Stack!MovedMember
<1> QED
  BY <1>2, <1>3, DiskFacts DEF MovedDir

(***************************************************************************)
(* The directory of a patch that gets a new name.                          *)
(***************************************************************************)
LEMMA DirTypes ==
  ASSUME TInv, Budget', NEW ok \in BOOLEAN, MoveDir(ok)
  PROVE  TInv'
<1>1. /\ series' = series /\ applied' = applied /\ reversed' = reversed
      /\ patchFile' = patchFile /\ tree' = tree /\ step = "dir"
      /\ MovedDir(cmd.patch, cmd.new, ok)
  BY DEF MoveDir
<1>2. cmd \in MoveCommand /\ cmd.op \in {"rename", "fork"}
  BY <1>1, StepFacts, ShapeFacts, DiskFacts
<1>3. cmd.patch \in Patches /\ cmd.new \in Patches
  BY <1>2 DEF MoveCommand
<1>4. DiskOK'
  BY <1>1, <1>3, MovedDirTypes, DiskFacts, DiskTypes DEF Marked
<1>5. \/ cmd' = [cmd EXCEPT !.dir = TRUE] /\ step' = "series" /\ todo' = todo /\ settled' = settled
      \/ cmd' = cmd /\ step' = "undo file" /\ todo' = {} /\ settled' = settled
  BY DEF MoveDir, GoTo
<1>6. ASSUME cmd' = [cmd EXCEPT !.dir = TRUE]
      PROVE  cmd' = [op |-> cmd.op, patch |-> cmd.patch, new |-> cmd.new,
                     file |-> cmd.file, dir |-> TRUE]
  BY <1>2, <1>6 DEF MoveCommand
<1>7. /\ cmd' \in MoveCommand /\ cmd'.op = cmd.op /\ cmd'.patch = cmd.patch
      /\ step' \in {"series", "undo file"} /\ todo' \subseteq Files /\ settled' = settled
  BY <1>2, <1>5, <1>6, DiskFacts DEF MoveCommand
<1>8. Shape(cmd', step')
  BY <1>7 DEF Shape, MoveSteps
<1>9. Found'
  BY <1>1, <1>2, <1>7, DiskFacts DEF Found
<1>10. ControlOK'
  BY <1>1, <1>2, <1>7, <1>8, <1>9, GoOnTypes
<1> QED
  BY <1>4, <1>10, TypeParts

(***************************************************************************)
(* Taking back the series file, the directory and the patch file.          *)
(***************************************************************************)
LEMMA UndoTypes ==
  ASSUME TInv, Budget', NEW ok \in BOOLEAN,
         UndoSeries(ok) \/ UndoDir(ok) \/ UndoFile(ok)
  PROVE  TInv'
<1>1. CASE UndoSeries(ok) \/ UndoDir(ok)
  <2>1. /\ step \in {"undo series", "undo dir"} /\ applied' = applied
        /\ patchFile' = patchFile /\ tree' = tree
    BY <1>1 DEF UndoSeries, UndoDir
  <2>2. cmd \in MoveCommand /\ cmd.op \in {"rename", "fork"}
    BY <2>1, StepFacts, ShapeFacts, DiskFacts
  <2>3. cmd.patch \in Patches /\ cmd.new \in Patches
    BY <2>2 DEF MoveCommand
  <2>4. DiskOK'
    <3>1. CASE UndoSeries(ok)
      <4> DEFINE k == Stack!Position(series, cmd.new)
                 n == cmd.patch
      <4>1. /\ series' = IF ok THEN ReplaceAt(series, k, n) ELSE series
            /\ reversed' = IF ok THEN reversed \ {cmd.new} ELSE reversed
            /\ backup' = backup /\ needsRefresh' = needsRefresh
        BY <3>1 DEF UndoSeries
      <4>2. Stack!IsIn(series, cmd.new) /\ series \in Seq(Patches)
        BY <2>2, <3>1, DiskFacts DEF UndoSeries, Found
      <4>3. k \in 1 .. Len(series) /\ series[k] = cmd.new /\ n \in Patches
        <5> DEFINE m == cmd.new
        <5>1. Stack!IsIn(series, m)
          BY <4>2
        <5> HIDE DEF m
        <5>2. Stack!Position(series, m) \in 1 .. Len(series) /\ series[Stack!Position(series, m)] = m
          BY <4>2, <5>1, PositionIn
        <5> QED
          BY <2>3, <5>2 DEF m
      <4> HIDE DEF k, n
      <4>4. /\ ReplaceAt(series, k, n) \in Seq(Patches)
            /\ \A q : (Stack!IsIn(series, q) /\ q # series[k]) \/ q = n
                       => Stack!IsIn(ReplaceAt(series, k, n), q)
        <5>1. k \in 1 .. Len(series) /\ n \in Patches /\ series \in Seq(Patches)
          BY <4>2, <4>3
        <5> QED
          BY <5>1, Replaced
      <4>5. \A p \in reversed : Stack!IsIn(series, p)
        BY DiskFacts DEF Marked
      <4>6. series' \in Seq(Patches) /\ \A p \in reversed' : Stack!IsIn(series', p)
        BY <4>1, <4>2, <4>3, <4>4, <4>5
      <4> QED
        BY <2>1, <4>1, <4>6, DiskFacts, DiskTypes
    <3>2. CASE UndoDir(ok)
      <4>1. \/ MovedDir(cmd.new, cmd.patch, ok)
            \/ backup' = backup /\ needsRefresh' = needsRefresh
        BY <3>2 DEF UndoDir
      <4>2. /\ backup' \in [Patches -> [Files -> {Absent} \cup Content]]
            /\ needsRefresh' \subseteq Patches
        BY <2>3, <4>1, MovedDirTypes, DiskFacts
      <4>3. series' = series /\ reversed' = reversed
        BY <3>2 DEF UndoDir
      <4> QED
        BY <2>1, <4>2, <4>3, DiskFacts, DiskTypes DEF Marked
    <3> QED
      BY <1>1, <3>1, <3>2
  <2>5. /\ cmd' = cmd /\ settled' = settled /\ todo' = {}
        /\ step' \in {"undo dir", "undo file"}
    BY <1>1 DEF UndoSeries, UndoDir, GoTo
  <2>6. Shape(cmd', step') /\ Found'
    BY <2>2, <2>5 DEF Shape, MoveSteps, Found
  <2>7. ControlOK'
    BY <2>2, <2>5, <2>6, GoOnTypes
  <2> QED
    BY <2>4, <2>7, TypeParts
<1>2. CASE UndoFile(ok)
  <2>1. /\ series' = series /\ applied' = applied /\ reversed' = reversed
        /\ backup' = backup /\ needsRefresh' = needsRefresh /\ tree' = tree
        /\ step = "undo file" /\ Return
    BY <1>2 DEF UndoFile
  <2>2. /\ cmd.op \in {"rename", "fork", "import"} /\ cmd.patch \in Patches
        /\ cmd.op \in {"rename", "fork"} => cmd.new \in Patches
    BY <2>1, StepFacts, ShapeFacts, DiskFacts DEF MoveCommand
  <2>3. \/ patchFile' = patchFile
        \/ patchFile' = [patchFile EXCEPT ![cmd.patch] = Absent]
        \/ cmd.op = "rename" /\ patchFile' = Stack!Moved(patchFile, cmd.new, cmd.patch, Absent)
        \/ cmd.op = "fork" /\ patchFile' = [patchFile EXCEPT ![cmd.new] = Absent]
    BY <1>2 DEF UndoFile
  <2>4. patchFile' \in [Patches -> {Absent} \cup Patch]
    BY <2>2, <2>3, DiskFacts DEF Stack!Moved
  <2>5. DiskOK'
    BY <2>1, <2>4, DiskFacts, DiskTypes DEF Marked
  <2> QED
    BY <2>1, <2>5, ReturnTypes, TypeParts
<1> QED
  BY <1>1, <1>2

(***************************************************************************)
(* The marker goes with its directory.                                     *)
(***************************************************************************)
LEMMA ClearMarkerTypes ==
  ASSUME TInv, Budget', ClearMarker
  PROVE  TInv'
<1>1. /\ series' = series /\ applied' = applied /\ reversed' = reversed
      /\ patchFile' = patchFile /\ backup' = backup /\ tree' = tree
      /\ needsRefresh' = needsRefresh \ {cmd.patch}
      /\ cmd' = cmd /\ step' = step /\ todo' = todo /\ settled' = settled /\ step = "clear"
  BY DEF ClearMarker, control
<1>2. DiskOK'
  BY <1>1, DiskFacts, DiskTypes DEF Marked
<1>3. Stack!Top' = Stack!Top
  BY <1>1 DEF Stack!Top
<1>4. Found'
  BY <1>1, DiskFacts DEF Found
<1>5. ControlOK'
  BY <1>1, <1>3, <1>4, DiskFacts, GoOnTypes DEF TypeOK
<1> QED
  BY <1>2, <1>5, TypeParts

(***************************************************************************)
(* The ends of the loops over files leave the disk alone, and so does a    *)
(* marker that cannot be deleted.                                          *)
(***************************************************************************)
LEMMA LoopEndTypes ==
  ASSUME TInv, Budget', LoopEnd \/ ClearMarkerFails
  PROVE  TInv'
<1>1. /\ series' = series /\ applied' = applied /\ reversed' = reversed
      /\ patchFile' = patchFile /\ backup' = backup /\ needsRefresh' = needsRefresh
      /\ tree' = tree
  BY DEF LoopEnd, LoopEnds, SavesEnd, PatchEnds, RestoresEnd, ClearEnds, ClearMarkerFails, disk
<1>2. DiskOK' /\ Budget'
  BY <1>1, DiskFacts, DiskTypes DEF Marked
<1>3. Stack!Top' = Stack!Top
  BY <1>1 DEF Stack!Top
<1>4. CASE Return
  BY <1>2, <1>4, ReturnTypes, TypeParts
<1>5. ASSUME NEW s \in Steps, NEW fs \in SUBSET Files, GoTo(s, fs),
             Shape(cmd, s), s # "idle",
             s = "patch" => \A f \in fs : patchFile[cmd.patch][f] # Absent,
             cmd.op = "delete" => step # "file",
             cmd.op \notin {"rename", "fork"},
             cmd.op \in {"pop", "delete"} => step \in {"restore", "clear", "applied"}
      PROVE  TInv'
  <2>1. cmd' = cmd /\ step' = s /\ todo' = fs /\ settled' = settled
    BY <1>5 DEF GoTo
  <2>2. Found'
    BY <1>1, <1>5, <2>1, DiskFacts DEF Found
  <2>3. ControlOK'
    BY <1>1, <1>2, <1>3, <1>5, <2>1, <2>2, DiskFacts, GoOnTypes DEF TypeOK
  <2> QED
    BY <1>2, <2>3, TypeParts
<1>6. CASE SavesEnd
  <2> DEFINE fs == {f \in Files : patchFile[cmd.patch][f] # Absent}
  <2>1. step = "save" /\ GoTo("patch", fs)
    BY <1>6 DEF SavesEnd, LoopEnds
  <2>2. cmd \in PushCommand /\ cmd.op = "push"
    BY <2>1, StepFacts, ShapeFacts, DiskFacts
  <2>3. Shape(cmd, "patch") /\ fs \subseteq Files /\ \A f \in fs : patchFile[cmd.patch][f] # Absent
    BY <2>2 DEF Shape, PushSteps
  <2>4. "patch" \in Steps
    BY DEF Steps
  <2> HIDE DEF fs
  <2> QED
    BY <1>5, <2>1, <2>2, <2>3, <2>4
<1>7. CASE PatchEnds
  <2> DEFINE fs == Affected(patchFile[cmd.patch])
  <2>1. step = "patch" /\ (GoTo("restore", fs) \/ GoTo("applied", {}))
    BY <1>7 DEF PatchEnds, LoopEnds
  <2>2. cmd \in PushCommand /\ cmd.op = "push"
    BY <2>1, StepFacts, ShapeFacts, DiskFacts
  <2>3. Shape(cmd, "restore") /\ Shape(cmd, "applied") /\ fs \subseteq Files
    BY <2>2 DEF Shape, PushSteps, Affected
  <2>4. "restore" \in Steps /\ "applied" \in Steps
    BY DEF Steps
  <2> HIDE DEF fs
  <2>5. CASE GoTo("restore", fs)
    BY <1>5, <2>2, <2>3, <2>4, <2>5
  <2>6. CASE GoTo("applied", {})
    BY <1>5, <2>2, <2>3, <2>4, <2>6
  <2> QED
    BY <2>1, <2>5, <2>6
<1>8. CASE RestoresEnd
  <2> DEFINE fs == Tracked(cmd.patch)
  <2>1. step = "restore" /\ GoTo("clear", fs)
    BY <1>8 DEF RestoresEnd, LoopEnds
  <2>2. cmd.op \in {"push", "pop", "delete"} /\ Shape(cmd, step)
    BY <2>1, StepFacts, DiskFacts
  <2>3. Shape(cmd, "clear") /\ fs \subseteq Files
    BY <2>2, ShapeFacts DEF Shape, PushSteps, PopSteps, DeleteSteps, Tracked
  <2>4. "clear" \in Steps
    BY DEF Steps
  <2> HIDE DEF fs
  <2> QED
    BY <1>5, <2>1, <2>2, <2>3, <2>4
<1>9. CASE (ClearEnds \/ ClearMarkerFails) /\ ~Return
  <2>1. step = "clear" /\ GoTo("applied", {}) /\ cmd.op # "push"
    BY <1>9 DEF ClearEnds, ClearMarkerFails, Cleared, LoopEnds
  <2>2. cmd.op \in {"pop", "delete"} /\ Shape(cmd, step)
    BY <2>1, StepFacts, DiskFacts
  <2>3. Shape(cmd, "applied")
    BY <2>2, ShapeFacts DEF Shape, PopSteps, DeleteSteps
  <2>4. "applied" \in Steps
    BY DEF Steps
  <2> QED
    BY <1>5, <2>1, <2>2, <2>3, <2>4
<1> QED
  BY <1>4, <1>6, <1>7, <1>8, <1>9 DEF LoopEnd

(***************************************************************************)
(* Nor does a command that is cut short change the disk.                   *)
(***************************************************************************)
LEMMA CrashTypes ==
  ASSUME TInv, Crash
  PROVE  TInv'
<1>1. /\ series' = series /\ applied' = applied /\ reversed' = reversed
      /\ patchFile' = patchFile /\ backup' = backup /\ needsRefresh' = needsRefresh
      /\ tree' = tree /\ cmd' = Idle /\ step' \in {"idle", "torn"} /\ todo' = {}
      /\ settled' = Disk /\ faults' = faults /\ crashes' = crashes + 1
      /\ faults + crashes < MaxMishaps
  BY DEF Crash, disk
<1>2. DiskOK' /\ Budget'
  BY <1>1, DiskFacts, DiskTypes, MishapsAreNatural DEF Marked, Budget
<1>3. Disk' = Disk /\ Disk \in DiskType
  BY <1>1, DiskFacts DEF Disk, DiskType
<1>4. Found' /\ Shape(cmd', step') /\ cmd'.op = "none"
  BY <1>1 DEF Found, Shape, Idle
<1>5. ControlOK'
  BY <1>1, <1>2, <1>3, <1>4 DEF ControlOK, Budget
<1> QED
  BY <1>2, <1>5, TypeParts

(***************************************************************************)
(* Every step keeps the types.                                             *)
(***************************************************************************)
LEMMA CallTypes ==
  ASSUME TInv, Budget', NEW ok \in BOOLEAN, Call(ok)
  PROVE  TInv'
BY FileCallTypes, AppliedTypes, MarkTypes, SeriesTypes, FileTypes, DirTypes, UndoTypes DEF Call

(***************************************************************************)
(* The invariant holds at the start and is kept by every step.             *)
(***************************************************************************)
LEMMA InitTInv == Init => TInv
<1> SUFFICES ASSUME Init PROVE TInv
  OBVIOUS
<1>1. Stack!TypeOK /\ Marked
  BY InputsAreLegal, SameValues DEF Init, Stack!TypeOK, Marked, Stack!NoBackups
<1>2. Disk \in DiskType
  BY <1>1, SameValues DEF Disk, DiskType, Stack!TypeOK
<1>3. ControlOK
  BY <1>2, MishapsAreNatural DEF Init, ControlOK, Found, Shape, Idle
<1> QED
  BY <1>1, <1>3, TypeParts DEF DiskOK

(***************************************************************************)
(* The same for a step.                                                    *)
(***************************************************************************)
LEMMA NextTInv == TInv /\ [Next]_vars => TInv'
<1> SUFFICES ASSUME TInv, [Next]_vars PROVE TInv'
  OBVIOUS
<1>1. CASE Works
  <2>1. Budget'
    BY <1>1, DiskFacts DEF Works, Budget
  <2> QED
    BY <1>1, <2>1, CallTypes, ClearMarkerTypes DEF Works
<1>2. CASE Fails
  <2>1. Budget'
    BY <1>2, DiskFacts, MishapsAreNatural DEF Fails, Budget
  <2> QED
    BY <1>2, <2>1, CallTypes, LoopEndTypes DEF Fails
<1>3. CASE UNCHANGED vars
  <2>1. TypeOK'
    BY <1>3, DiskFacts DEF TypeOK, Stack!TypeOK, Stack!Top, vars, disk, control, Disk
  <2> QED
    BY <1>3, <2>1 DEF TInv, vars, disk, control, Shape, Found, Marked
<1>4. CASE LoopEnd
  <2>1. Budget'
    BY <1>4, DiskFacts DEF LoopEnd, LoopEnds, SavesEnd, PatchEnds, RestoresEnd, ClearEnds, Budget
  <2> QED
    BY <1>4, <2>1, LoopEndTypes
<1> QED
  BY <1>1, <1>2, <1>3, <1>4, StartTypes, CrashTypes DEF Next

(***************************************************************************)
(* TypeOK holds in every reachable state: whichever calls fail, and        *)
(* wherever a command is cut short, the disk holds lists, patches, copies  *)
(* and markers of the right kind, a patch that is being pushed has a patch *)
(* file, and pop and delete still have their patch on top of the stack.    *)
(***************************************************************************)
THEOREM DiskTypeCorrect == Spec => []TypeOK
<1>1. TInv => TypeOK
  BY DEF TInv
<1> QED
  BY <1>1, InitTInv, NextTInv, PTL DEF Spec
=============================================================================
