--------------------------- MODULE QuiltFailureProofs ---------------------------
(***************************************************************************)
(* What QuiltDisk keeps when a call fails or a command is cut short: the   *)
(* applied patches remain the first of the series, and a rename, a fork or *)
(* an import that gives up leaves the project as it was.  Both hold for    *)
(* one failing call, with any number of commands cut short; with a second  *)
(* one the taking back itself may fail.  And as long as no call fails, no  *)
(* file without patches is lost, wherever commands are cut short.          *)
(***************************************************************************)
EXTENDS QuiltDiskProofs

-----------------------------------------------------------------------------
\* The list a of applied patches is a prefix of the series s.
Prefix(a, s) ==
  /\ a \in Seq(Patches)
  /\ s \in Seq(Patches)
  /\ \A i, j \in DOMAIN s : s[i] = s[j] => i = j
  /\ Len(a) <= Len(s)
  /\ \A i \in 1 .. Len(a) : a[i] = s[i]

\* The patch that is about to be recorded as applied is the next of the series.
IsNext == Len(applied) < Len(series) /\ series[Len(applied) + 1] = cmd.patch

\* The series file once the name has been changed in it.
RenamedSeries ==
  ReplaceAt(settled.series, Stack!Position(settled.series, cmd.patch), cmd.new)

Lists ==
  /\ step # "torn" => Prefix(settled.applied, settled.series)
  /\ cmd.op \notin {"rename", "fork"} /\ step # "torn" => Prefix(applied, series)
  /\ cmd.op = "push" /\ step # "mark" => IsNext
  /\ cmd.op = "new" /\ step = "series" => ~Stack!IsIn(series, cmd.patch)
  /\ cmd.op = "new" /\ step = "applied" => IsNext
  /\ cmd.op = "delete" /\ step = "series" => ~Stack!IsIn(applied, cmd.patch)
  /\ cmd.op \in {"rename", "fork"} =>
       /\ Stack!IsIn(settled.series, cmd.patch)
       /\ ~Stack!IsIn(settled.series, cmd.new)
       /\ applied = settled.applied
       /\ series = IF step \in {"applied", "undo series"} THEN RenamedSeries
                   ELSE settled.series
  /\ step = "undo series" => faults >= 1

LInv == TInv /\ (faults <= 1 => Lists)

-----------------------------------------------------------------------------
(* What is known of the two lists, in the words of this module.             *)

\* Prefix is what the proofs about QuiltStack call a stack.
LEMMA PrefixIsStack == \A a, s : Prefix(a, s) <=> Now!Stack(a, s)
BY DEF Prefix, Now!Stack, Now!Distinct

\* Without a prefix of the series there is no agreement of the lists.
LEMMA PrefixAgrees == Prefix(applied, series) => Stack!AppliedIsSeriesPrefix
<1> SUFFICES ASSUME Prefix(applied, series) PROVE Stack!AppliedIsSeriesPrefix
  OBVIOUS
<1>1. DOMAIN applied = 1 .. Len(applied)
  BY LenProperties DEF Prefix
<1> QED
  BY <1>1 DEF Prefix, Stack!AppliedIsSeriesPrefix

\* A patch of the series is applied when it is among the first Len(a).
LEMMA AppliedFirst ==
  ASSUME NEW a, NEW s, Prefix(a, s), NEW k \in 1 .. Len(s)
  PROVE  Stack!IsIn(a, s[k]) <=> k <= Len(a)
<1>1. Now!Stack(a, s)
  BY PrefixIsStack
<1>2. Now!IsIn(a, s[k]) <=> k <= Len(a)
  BY <1>1, Now!AppliedByPosition, SameValues, AbsentIsNoValue, InputsAreLegal
<1>3. Now!IsIn(a, s[k]) <=> Stack!IsIn(a, s[k])
  BY DEF Now!IsIn, Stack!IsIn
<1> QED
  BY <1>2, <1>3

\* The next patch of the series may be recorded as applied.
LEMMA PrefixPush ==
  ASSUME NEW a, NEW s, Prefix(a, s), Len(a) < Len(s)
  PROVE  Prefix(Append(a, s[Len(a) + 1]), s)
<1>1. Now!Stack(a, s)
  BY PrefixIsStack
<1>2. Now!Stack(Append(a, s[Len(a) + 1]), s)
  BY <1>1, Now!StackPush, SameValues, AbsentIsNoValue, InputsAreLegal
<1> QED
  BY <1>2, PrefixIsStack

\* The top may be taken off, and is then not applied.
LEMMA PrefixPop ==
  ASSUME NEW a, NEW s, Prefix(a, s), a # <<>>
  PROVE  Prefix(Front(a), s) /\ ~Stack!IsIn(Front(a), a[Len(a)])
<1>1. Now!Stack(a, s)
  BY PrefixIsStack
<1>2. Now!Stack(Now!Front(a), s)
  BY <1>1, Now!StackPop, SameValues, AbsentIsNoValue, InputsAreLegal
<1>3. Now!Front(a) = Front(a)
  BY DEF Now!Front, Front
<1>4. Prefix(Front(a), s)
  BY <1>2, <1>3, PrefixIsStack
<1>5. a \in Seq(Patches) /\ s \in Seq(Patches) /\ Len(a) <= Len(s) /\ Len(s) \in Nat
  BY LenProperties DEF Prefix
<1>6. Len(a) \in Nat \ {0} /\ Len(Front(a)) = Len(a) - 1
  BY <1>5, Shortened
<1>7. Len(a) \in 1 .. Len(s) /\ a[Len(a)] = s[Len(a)]
  BY <1>5, <1>6 DEF Prefix
<1>8. Stack!IsIn(Front(a), s[Len(a)]) <=> Len(a) <= Len(Front(a))
  BY <1>4, <1>7, AppliedFirst
<1> QED
  BY <1>4, <1>6, <1>7, <1>8

\* A new patch may be inserted after the applied ones.
LEMMA PrefixInsert ==
  ASSUME NEW a, NEW s, Prefix(a, s), NEW p \in Patches, ~Stack!IsIn(s, p)
  PROVE  Prefix(a, InsertAt(s, Len(a) + 1, p)) /\ Prefix(a, Append(s, p))
<1>1. Now!Stack(a, s)
  BY PrefixIsStack
<1>2. ~Now!IsIn(s, p)
  BY DEF Now!IsIn, Stack!IsIn
<1>3. Len(a) + 1 \in Len(a) + 1 .. Len(s) + 1
  BY LenProperties DEF Prefix
<1>4. Now!Stack(a, Now!InsertAt(s, Len(a) + 1, p))
  BY <1>1, <1>2, <1>3, Now!StackInsert, SameValues, AbsentIsNoValue, InputsAreLegal
<1>5. Now!InsertAt(s, Len(a) + 1, p) = InsertAt(s, Len(a) + 1, p)
  BY DEF Now!InsertAt, InsertAt
<1>6. Now!Stack(a, Append(s, p))
  BY <1>1, <1>2, Now!StackAppend, SameValues, AbsentIsNoValue, InputsAreLegal
<1> QED
  BY <1>4, <1>5, <1>6, PrefixIsStack

\* A patch that is not applied may be removed.
LEMMA PrefixRemove ==
  ASSUME NEW a, NEW s, Prefix(a, s), NEW k \in 1 .. Len(s), ~Stack!IsIn(a, s[k])
  PROVE  Prefix(a, RemoveAt(s, k))
<1>1. Now!Stack(a, s)
  BY PrefixIsStack
<1>2. k > Len(a)
  <2>1. Len(a) \in Nat /\ Len(s) \in Nat
    BY LenProperties DEF Prefix
  <2> QED
    BY <2>1, AppliedFirst
<1>3. Now!Stack(a, Now!RemoveAt(s, k))
  BY <1>1, <1>2, Now!StackRemove, SameValues, AbsentIsNoValue, InputsAreLegal
<1>4. Now!RemoveAt(s, k) = RemoveAt(s, k)
  BY DEF Now!RemoveAt, RemoveAt
<1> QED
  BY <1>3, <1>4, PrefixIsStack

(***************************************************************************)
(* A patch may get another name in both lists, or in the series when it is *)
(* not applied.                                                            *)
(***************************************************************************)
LEMMA PrefixRename ==
  ASSUME NEW a, NEW s, Prefix(a, s), NEW k \in 1 .. Len(s),
         NEW n \in Patches, ~Stack!IsIn(s, n)
  PROVE  /\ Prefix(Stack!Renamed(a, s[k], n), ReplaceAt(s, k, n))
         /\ ~Stack!IsIn(a, s[k]) => Prefix(a, ReplaceAt(s, k, n))
<1>1. Now!Stack(a, s)
  BY PrefixIsStack
<1>2. ~Now!IsIn(s, n)
  BY DEF Now!IsIn, Stack!IsIn
<1>3. /\ Now!Stack(Now!Renamed(a, s[k], n), Now!ReplaceAt(s, k, n))
      /\ k > Len(a) => Now!Stack(a, Now!ReplaceAt(s, k, n))
  BY <1>1, <1>2, Now!StackRename, SameValues, AbsentIsNoValue, InputsAreLegal
<1>4. /\ Now!ReplaceAt(s, k, n) = ReplaceAt(s, k, n)
      /\ Now!Renamed(a, s[k], n) = Stack!Renamed(a, s[k], n)
  BY DEF Now!ReplaceAt, ReplaceAt, Now!Renamed, Stack!Renamed
<1>5. ~Stack!IsIn(a, s[k]) => k > Len(a)
  <2>1. Len(a) \in Nat /\ Len(s) \in Nat
    BY LenProperties DEF Prefix
  <2> QED
    BY <2>1, AppliedFirst
<1> QED
  BY <1>3, <1>4, <1>5, PrefixIsStack

\* Giving the patch its old name back gives the old series back.
LEMMA RenamedBack ==
  ASSUME NEW a, NEW s, Prefix(a, s), NEW k \in 1 .. Len(s),
         NEW n \in Patches, ~Stack!IsIn(s, n)
  PROVE  LET t == ReplaceAt(s, k, n)
         IN  ReplaceAt(t, Stack!Position(t, n), s[k]) = s
<1> DEFINE t == ReplaceAt(s, k, n)
           i == Stack!Position(t, n)
<1>1. s \in Seq(Patches) /\ Len(s) \in Nat /\ DOMAIN s = 1 .. Len(s) /\ s[k] \in Patches
  BY LenProperties, ElementOfSeq DEF Prefix
<1>2. /\ t \in Seq(Patches)
      /\ Len(t) = Len(s)
      /\ \A j \in 1 .. Len(s) : t[j] = IF j = k THEN n ELSE s[j]
  BY <1>1, ExceptSeq DEF ReplaceAt
<1> HIDE DEF t
<1>8. Stack!IsIn(t, n)
  <2>1. k \in DOMAIN t /\ t[k] = n
    BY <1>1, <1>2, LenProperties
  <2> QED
    BY <2>1 DEF Stack!IsIn
<1>3. i \in 1 .. Len(t) /\ t[i] = n
  BY <1>2, <1>8, PositionIn
<1> HIDE DEF i
<1>4. i = k
  BY <1>1, <1>2, <1>3 DEF Stack!IsIn
<1>5. /\ ReplaceAt(t, i, s[k]) \in Seq(Patches)
      /\ Len(ReplaceAt(t, i, s[k])) = Len(s)
      /\ \A j \in 1 .. Len(s) : ReplaceAt(t, i, s[k])[j] = IF j = i THEN s[k] ELSE t[j]
  BY <1>1, <1>2, <1>3, Replaced
<1>6. \A j \in 1 .. Len(s) : ReplaceAt(t, i, s[k])[j] = s[j]
  BY <1>2, <1>4, <1>5
<1>7. ReplaceAt(t, i, s[k]) = s
  BY <1>1, <1>5, <1>6, SeqEqual
<1> QED
  BY <1>7 DEF t, i

\* top_index points at the last applied patch.
LEMMA TopIsLast ==
  ASSUME Prefix(applied, series)
  PROVE  /\ Stack!TopIndex = Len(applied)
         /\ Len(applied) \in Nat /\ Len(series) \in Nat
         /\ Stack!Top = applied[Len(applied)]
<1>1. Now!Stack(applied, series)
  BY PrefixIsStack
<1>2. Now!TopIndex = Len(applied)
  BY <1>1, Now!TopIndexIs, SameValues, AbsentIsNoValue, InputsAreLegal
<1>3. Stack!TopIndex = Now!TopIndex
  BY DEF Stack!TopIndex, Now!TopIndex, Stack!Top, Now!Top, Stack!Last, Now!Last,
         Stack!IsIn, Now!IsIn, Stack!Position, Now!Position
<1> QED
  BY <1>2, <1>3, LenProperties DEF Prefix, Stack!Top, Stack!Last

-----------------------------------------------------------------------------
(* The lists, call by call.                                                 *)

\* The calls that leave both lists alone.
LEMMA ListsKept ==
  ASSUME Lists, step # "torn", step' # "torn",
         series' = series, applied' = applied, settled' = settled,
         cmd'.op = cmd.op, cmd'.patch = cmd.patch,
         cmd.op # "new",
         cmd.op = "push" => step # "mark",
         cmd.op = "delete" => step' # "series",
         cmd.op \in {"rename", "fork"} =>
           cmd'.new = cmd.new /\ {step, step'} \cap {"applied", "undo series"} = {},
         step' # "undo series"
  PROVE  Lists'
<1>1. cmd.op \in {"rename", "fork"} =>
        step \notin {"applied", "undo series"} /\ step' \notin {"applied", "undo series"}
  OBVIOUS
<1>2. RenamedSeries' = RenamedSeries \/ cmd.op \notin {"rename", "fork"}
  BY DEF RenamedSeries
<1> QED
  BY <1>1, <1>2 DEF Lists, IsNext

\* A command returns with lists that agree.
LEMMA ListsReturn ==
  ASSUME Return, Prefix(applied, series)'
  PROVE  Lists'
<1>1. cmd'.op = "none" /\ step' = "idle" /\ settled' = Disk'
  BY DEF Return, Idle
<1>2. settled.applied' = applied' /\ settled.series' = series'
  BY <1>1 DEF Disk
<1> QED
  BY <1>1, <1>2 DEF Lists

(***************************************************************************)
(* Whenever a rename or a fork is not between its two writes, the lists    *)
(* agree; what is known of the command then.                               *)
(***************************************************************************)
LEMMA ListsFacts ==
  ASSUME TInv, Lists, step # "torn"
  PROVE  /\ step \notin {"applied", "undo series"} \/ cmd.op \notin {"rename", "fork"} =>
              Prefix(applied, series)
         /\ step = "idle" => settled.series = series /\ settled.applied = applied
         /\ cmd.op \in {"rename", "fork"} =>
              /\ cmd.patch \in Patches /\ cmd.new \in Patches
              /\ Prefix(settled.applied, settled.series)
              /\ ~Stack!IsIn(settled.series, cmd.new)
              /\ Stack!Position(settled.series, cmd.patch) \in 1 .. Len(settled.series)
              /\ settled.series[Stack!Position(settled.series, cmd.patch)] = cmd.patch
<1>1. step = "idle" => settled.series = series /\ settled.applied = applied
  BY DEF TInv, TypeOK, Disk
<1>2. ASSUME cmd.op \in {"rename", "fork"}
      PROVE  /\ cmd.patch \in Patches /\ cmd.new \in Patches
             /\ Prefix(settled.applied, settled.series)
             /\ ~Stack!IsIn(settled.series, cmd.new)
             /\ Stack!Position(settled.series, cmd.patch) \in 1 .. Len(settled.series)
             /\ settled.series[Stack!Position(settled.series, cmd.patch)] = cmd.patch
  <2>1. cmd.patch \in Patches /\ cmd.new \in Patches
    BY <1>2, DiskFacts, ShapeFacts DEF MoveCommand
  <2>2. /\ Prefix(settled.applied, settled.series)
        /\ Stack!IsIn(settled.series, cmd.patch)
        /\ ~Stack!IsIn(settled.series, cmd.new)
    BY <1>2 DEF Lists
  <2> DEFINE s == settled.series
             p == cmd.patch
  <2>3. s \in Seq(Patches) /\ Stack!IsIn(s, p)
    BY <2>2 DEF Prefix
  <2> HIDE DEF s, p
  <2>4. Stack!Position(s, p) \in 1 .. Len(s) /\ s[Stack!Position(s, p)] = p
    BY <2>3, PositionIn
  <2> QED
    BY <2>1, <2>2, <2>4 DEF s, p
<1>3. step \notin {"applied", "undo series"} \/ cmd.op \notin {"rename", "fork"} =>
        Prefix(applied, series)
  BY DEF Lists
<1> QED
  BY <1>1, <1>2, <1>3

\* A command begins with lists that agree.
LEMMA ListsStart ==
  ASSUME TInv, Lists, Start
  PROVE  Lists'
<1>1. ASSUME NEW c, NEW s, NEW fs, Begin(c, s, fs), s # "torn",
             c.op = "push" => c.patch = Stack!NextPatch /\ Stack!CanPush,
             c.op = "new" => ~Stack!IsIn(series, c.patch) /\ s = "series",
             c.op = "delete" /\ s = "series" => ~Stack!IsIn(applied, c.patch),
             c.op \in {"rename", "fork"} =>
               /\ Stack!IsIn(series, c.patch) /\ ~Stack!IsIn(series, c.new)
               /\ s \in {"file", "dir", "series"},
             s # "undo series"
      PROVE  Lists'
  <2>1. /\ step = "idle" /\ step' = s /\ cmd' = c /\ settled' = settled
        /\ series' = series /\ applied' = applied
    BY <1>1 DEF Begin, disk
  <2>2. cmd.op \notin {"rename", "fork"}
    BY <2>1 DEF TInv, TypeOK, Idle
  <2>3. /\ Prefix(applied, series)
        /\ settled.series = series /\ settled.applied = applied
    BY <2>1, <2>2, ListsFacts
  <2>4. Prefix(applied', series') /\ Prefix(settled.applied', settled.series')
    BY <2>1, <2>3
  <2>5. c.op = "push" => IsNext'
    BY <1>1, <2>1, <2>3, TopIsLast DEF IsNext, Stack!CanPush, Stack!NextPatch
  <2> QED
    BY <1>1, <2>1, <2>3, <2>4, <2>5 DEF Lists
<1>2. ASSUME NEW force \in BOOLEAN, StartPush(force)
      PROVE  Lists'
  <2> DEFINE p == Stack!NextPatch
             c == [op |-> "push", patch |-> p, force |-> force, rejects |-> FALSE]
  <2>1. Begin(c, "save", Affected(patchFile[p])) /\ Stack!CanPush
    BY <1>2 DEF StartPush
  <2>2. c.op = "push" /\ c.patch = Stack!NextPatch
    OBVIOUS
  <2> HIDE DEF c
  <2> QED
    BY <1>1, <2>1, <2>2
<1>3. ASSUME NEW force \in BOOLEAN, StartPop(force)
      PROVE  Lists'
  <2> DEFINE p == Stack!Top
             c == [op |-> "pop", patch |-> p]
  <2>1. Begin(c, "restore", FilesIn(p))
    BY <1>3 DEF StartPop
  <2>2. c.op = "pop"
    OBVIOUS
  <2> HIDE DEF c
  <2> QED
    BY <1>1, <2>1, <2>2
<1>4. ASSUME NEW p \in Patches, StartNew(p)
      PROVE  Lists'
  <2> DEFINE c == [op |-> "new", patch |-> p]
  <2>1. Begin(c, "series", {}) /\ ~Stack!IsIn(series, p)
    BY <1>4 DEF StartNew
  <2>2. c.op = "new" /\ c.patch = p
    OBVIOUS
  <2> HIDE DEF c
  <2> QED
    BY <1>1, <2>1, <2>2
<1>5. ASSUME NEW p \in Patches, NEW rm \in BOOLEAN, StartDelete(p, rm)
      PROVE  Lists'
  <2> DEFINE c == [op |-> "delete", patch |-> p, rm |-> rm]
  <2>1. \/ Begin(c, "restore", FilesIn(p))
        \/ ~Stack!IsIn(applied, p) /\ Begin(c, "series", {})
    BY <1>5 DEF StartDelete
  <2>2. c.op = "delete" /\ c.patch = p
    OBVIOUS
  <2> HIDE DEF c
  <2>3. CASE Begin(c, "restore", FilesIn(p))
    BY <1>1, <2>2, <2>3
  <2>4. CASE ~Stack!IsIn(applied, p) /\ Begin(c, "series", {})
    BY <1>1, <2>2, <2>4
  <2> QED
    BY <2>1, <2>3, <2>4
<1>6. ASSUME NEW op \in {"rename", "fork"}, NEW old, NEW new, Move(op, old, new)
      PROVE  Lists'
  <2> DEFINE c == [op |-> op, patch |-> old, new |-> new, file |-> FALSE, dir |-> FALSE]
             s == IF patchFile[old] # Absent THEN "file"
                  ELSE IF Stack!IsIn(applied, old) THEN "dir" ELSE "series"
  <2>1. /\ Begin(c, s, {}) /\ s \in {"file", "dir", "series"}
        /\ Stack!IsIn(series, old) /\ ~Stack!IsIn(series, new)
    BY <1>6 DEF Move
  <2>2. c.op \in {"rename", "fork"} /\ c.patch = old /\ c.new = new
    OBVIOUS
  <2> HIDE DEF c, s
  <2> QED
    BY <1>1, <2>1, <2>2
<1>7. ASSUME NEW p \in Patches, NEW P \in ImportFrom, NEW force \in BOOLEAN,
             NEW rev \in BOOLEAN, StartImport(p, P, force, rev)
      PROVE  Lists'
  <2> DEFINE c == [op |-> "import", patch |-> p, text |-> P, rev |-> rev]
  <2>1. Begin(c, "file", {})
    BY <1>7 DEF StartImport
  <2>2. c.op = "import"
    OBVIOUS
  <2> HIDE DEF c
  <2> QED
    BY <1>1, <2>1, <2>2
<1>8. (\E old, new \in Patches : StartRename(old, new)) \/ (\E new \in Patches : StartFork(new))
      => Lists'
  BY <1>6 DEF StartRename, StartFork
<1> QED
  BY <1>2, <1>3, <1>4, <1>5, <1>7, <1>8 DEF Start

\* The write of applied-patches.
LEMMA ListsApplied ==
  ASSUME TInv, Lists, NEW ok \in BOOLEAN, WriteApplied(ok), ~ok => faults' >= 1
  PROVE  Lists'
<1>1. /\ series' = series /\ step = "applied"
      /\ applied' = IF ok THEN NewApplied ELSE applied
      /\ step # "torn"
  BY DEF WriteApplied
<1>2. cmd.op \in {"push", "pop", "new", "delete", "rename", "fork"}
  BY <1>1, StepFacts
<1>3. CASE cmd.op \in {"push", "new"}
  <2>1. IsNext /\ Prefix(applied, series)
    BY <1>1, <1>3 DEF Lists
  <2>2. Prefix(Append(applied, series[Len(applied) + 1]), series)
    BY <2>1, PrefixPush DEF IsNext
  <2>3. Prefix(applied', series')
    BY <1>1, <1>3, <2>1, <2>2 DEF NewApplied, IsNext
  <2>4. Return \/ (cmd.op = "push" /\ GoTo("mark", {}))
    BY <1>3 DEF WriteApplied
  <2>5. CASE Return
    BY <2>3, <2>5, ListsReturn
  <2>6. CASE cmd.op = "push" /\ GoTo("mark", {})
    <3>1. cmd' = cmd /\ step' = "mark" /\ settled' = settled
      BY <2>6 DEF GoTo
    <3>2. Prefix(settled.applied, settled.series)
      BY <1>1 DEF Lists
    <3> QED
      BY <2>3, <2>6, <3>1, <3>2 DEF Lists
  <2> QED
    BY <2>4, <2>5, <2>6
<1>4. CASE cmd.op \in {"pop", "delete"}
  <2>1. /\ Prefix(applied, series) /\ applied # <<>>
        /\ cmd.patch = applied[Len(applied)]
    BY <1>1, <1>4, DiskFacts, TopIsLast DEF Lists, TypeOK
  <2>2. Prefix(Front(applied), series) /\ ~Stack!IsIn(Front(applied), cmd.patch)
    BY <2>1, PrefixPop
  <2>3. NewApplied = Front(applied)
    BY <1>4 DEF NewApplied
  <2>4. Prefix(applied', series')
    BY <1>1, <2>1, <2>2, <2>3
  <2>5. Return \/ (cmd.op = "delete" /\ ok /\ GoTo("series", {}))
    BY <1>4 DEF WriteApplied
  <2>6. CASE Return
    BY <2>4, <2>6, ListsReturn
  <2>7. CASE cmd.op = "delete" /\ ok /\ GoTo("series", {})
    <3>1. cmd' = cmd /\ step' = "series" /\ settled' = settled
      BY <2>7 DEF GoTo
    <3>2. Prefix(settled.applied, settled.series)
      BY <1>1 DEF Lists
    <3>3. ~Stack!IsIn(applied', cmd.patch)
      BY <1>1, <2>2, <2>3, <2>7
    <3> QED
      BY <2>4, <2>7, <3>1, <3>2, <3>3 DEF Lists
  <2> QED
    BY <2>5, <2>6, <2>7
<1>5. CASE cmd.op \in {"rename", "fork"}
  <2> DEFINE s == settled.series
             a == settled.applied
             p == cmd.patch
             n == cmd.new
             k == Stack!Position(s, p)
  <2>1. /\ Prefix(a, s) /\ ~Stack!IsIn(s, n) /\ n \in Patches
        /\ k \in 1 .. Len(s) /\ s[k] = p
    BY <1>1, <1>5, ListsFacts
  <2>2. series = ReplaceAt(s, k, n) /\ applied = a
    BY <1>1, <1>5 DEF Lists, RenamedSeries
  <2>3. NewApplied = Stack!Renamed(applied, p, n)
    BY <1>5 DEF NewApplied
  <2>4. (ok /\ Return) \/ (~ok /\ GoTo("undo series", {}))
    BY <1>5 DEF WriteApplied
  <2>5. CASE ok /\ Return
    <3> HIDE DEF s, a, p, n, k
    <3>1. Prefix(Stack!Renamed(a, s[k], n), ReplaceAt(s, k, n))
      BY <2>1, PrefixRename
    <3>2. Prefix(applied', series')
      BY <1>1, <2>1, <2>2, <2>3, <2>5, <3>1
    <3> QED
      BY <2>5, <3>2, ListsReturn
  <2>6. CASE ~ok /\ GoTo("undo series", {})
    <3>1. /\ cmd' = cmd /\ step' = "undo series" /\ settled' = settled
          /\ applied' = applied /\ series' = series /\ faults' >= 1
      BY <1>1, <2>6 DEF GoTo
    <3>2. RenamedSeries' = RenamedSeries
      BY <3>1 DEF RenamedSeries
    <3> QED
      BY <1>1, <1>5, <3>1, <3>2 DEF Lists
  <2> QED
    BY <2>4, <2>5, <2>6
<1> QED
  BY <1>2, <1>3, <1>4, <1>5

\* The write of the series file.
LEMMA ListsSeries ==
  ASSUME TInv, Lists, NEW ok \in BOOLEAN, WriteSeries(ok)
  PROVE  Lists'
<1>1. /\ applied' = applied /\ step = "series" /\ step # "torn"
      /\ series' = IF ok THEN NewSeries ELSE series
      /\ Prefix(applied, series) /\ Prefix(settled.applied, settled.series)
  BY ListsFacts DEF WriteSeries, Lists
<1>2. /\ cmd.op \in {"new", "delete", "rename", "fork", "import"}
      /\ cmd.patch \in Patches
  BY <1>1, StepFacts
<1>3. Stack!TopIndex = Len(applied) /\ series \in Seq(Patches)
  BY <1>1, TopIsLast DEF Prefix
<1>4. CASE cmd.op = "new"
  <2>1. NewSeries = InsertAt(series, Len(applied) + 1, cmd.patch)
    BY <1>3, <1>4 DEF NewSeries
  <2>2. ~Stack!IsIn(series, cmd.patch)
    BY <1>1, <1>4 DEF Lists
  <2>3. Prefix(applied, NewSeries)
    BY <1>1, <1>2, <2>1, <2>2, PrefixInsert
  <2>4. Prefix(applied', series')
    BY <1>1, <2>3
  <2>5. Return \/ (ok /\ GoTo("applied", {}))
    BY <1>4 DEF WriteSeries
  <2>6. CASE Return
    BY <2>4, <2>6, ListsReturn
  <2>7. CASE ok /\ GoTo("applied", {})
    <3>1. cmd' = cmd /\ step' = "applied" /\ settled' = settled
      BY <2>7 DEF GoTo
    <3>2. /\ Len(applied) + 1 \in 1 .. Len(series) + 1
          /\ Len(applied) \in Nat /\ Len(series) \in Nat /\ Len(applied) <= Len(series)
      BY <1>1, LenProperties DEF Prefix
    <3>3. /\ Len(NewSeries) = Len(series) + 1
          /\ NewSeries[Len(applied) + 1] = cmd.patch
      <4> DEFINE i == Len(applied) + 1
                 p == cmd.patch
      <4>1. i \in 1 .. Len(series) + 1 /\ p \in Patches /\ series \in Seq(Patches)
        BY <1>2, <1>3, <3>2
      <4> HIDE DEF i, p
      <4>2. Len(InsertAt(series, i, p)) = Len(series) + 1 /\ InsertAt(series, i, p)[i] = p
        BY <4>1, Inserted
      <4> QED
        BY <2>1, <4>2 DEF i, p
    <3>4. IsNext'
      BY <1>1, <2>7, <3>1, <3>2, <3>3 DEF IsNext
    <3> QED
      BY <1>1, <1>4, <2>4, <3>1, <3>4 DEF Lists
  <2> QED
    BY <2>5, <2>6, <2>7
<1>5. CASE cmd.op = "delete"
  <2> DEFINE k == Stack!Position(series, cmd.patch)
  <2>1. NewSeries = RemoveAt(series, k)
    BY <1>5 DEF NewSeries
  <2>2. k \in 1 .. Len(series) /\ series[k] = cmd.patch
    <3>1. Stack!IsIn(series, cmd.patch)
      BY <1>1, <1>5, DiskFacts DEF Found
    <3> QED
      BY <1>3, <3>1, PositionIn
  <2>3. ~Stack!IsIn(applied, cmd.patch)
    BY <1>1, <1>5 DEF Lists
  <2> HIDE DEF k
  <2>4. Prefix(applied, RemoveAt(series, k))
    BY <1>1, <2>2, <2>3, PrefixRemove
  <2>5. Prefix(applied', series')
    BY <1>1, <2>1, <2>4
  <2>6. Return \/ GoTo("file", {})
    BY <1>5 DEF WriteSeries
  <2>7. CASE Return
    BY <2>5, <2>7, ListsReturn
  <2>8. CASE GoTo("file", {})
    <3>1. cmd' = cmd /\ step' = "file" /\ settled' = settled
      BY <2>8 DEF GoTo
    <3> QED
      BY <1>1, <1>5, <2>5, <3>1 DEF Lists
  <2> QED
    BY <2>6, <2>7, <2>8
<1>6. CASE cmd.op \in {"rename", "fork"}
  <2> DEFINE s == settled.series
             a == settled.applied
             p == cmd.patch
             n == cmd.new
             k == Stack!Position(s, p)
  <2>1. /\ Prefix(a, s) /\ ~Stack!IsIn(s, n) /\ n \in Patches
        /\ k \in 1 .. Len(s) /\ s[k] = p
    BY <1>1, <1>6, ListsFacts
  <2>2. series = s /\ applied = a
    BY <1>1, <1>6 DEF Lists
  <2>3. NewSeries = ReplaceAt(s, k, n)
    BY <1>6, <2>2 DEF NewSeries
  <2>4. \/ ok /\ ~Stack!IsIn(a, p) /\ Return
        \/ ok /\ GoTo("applied", {})
        \/ ~ok /\ GoTo("undo dir", {})
    BY <1>6, <2>2 DEF WriteSeries
  <2>5. CASE ok /\ ~Stack!IsIn(a, p) /\ Return
    <3> HIDE DEF s, a, p, n, k
    <3>1. Prefix(a, ReplaceAt(s, k, n))
      BY <2>1, <2>5, PrefixRename
    <3>2. Prefix(applied', series')
      BY <1>1, <2>2, <2>3, <2>5, <3>1
    <3> QED
      BY <2>5, <3>2, ListsReturn
  <2>6. CASE ok /\ GoTo("applied", {})
    <3>1. /\ cmd' = cmd /\ step' = "applied" /\ settled' = settled
          /\ applied' = applied /\ series' = NewSeries
      BY <1>1, <2>6 DEF GoTo
    <3>2. series' = RenamedSeries'
      BY <2>3, <3>1 DEF RenamedSeries
    <3> QED
      BY <1>1, <1>6, <3>1, <3>2 DEF Lists
  <2>7. CASE ~ok /\ GoTo("undo dir", {})
    <3>1. /\ cmd' = cmd /\ step' = "undo dir" /\ settled' = settled
          /\ applied' = applied /\ series' = series
      BY <1>1, <2>7 DEF GoTo
    <3> QED
      BY <1>1, <1>6, <3>1, ListsKept
  <2> QED
    BY <2>4, <2>5, <2>6, <2>7
<1>7. CASE cmd.op = "import"
  <2>1. NewSeries = IF Stack!IsIn(series, cmd.patch) THEN series
                    ELSE IF Stack!TopIndex > 0 THEN InsertAt(series, Stack!TopIndex + 1, cmd.patch)
                    ELSE Append(series, cmd.patch)
    BY <1>7 DEF NewSeries
  <2>2. ~Stack!IsIn(series, cmd.patch) =>
          /\ Prefix(applied, InsertAt(series, Len(applied) + 1, cmd.patch))
          /\ Prefix(applied, Append(series, cmd.patch))
    BY <1>1, <1>2, PrefixInsert
  <2>3. Prefix(applied', series')
    BY <1>1, <1>3, <2>1, <2>2
  <2>4. Return \/ (~ok /\ GoTo("undo file", {}))
    BY <1>7 DEF WriteSeries
  <2>5. CASE Return
    BY <2>3, <2>5, ListsReturn
  <2>6. CASE ~ok /\ GoTo("undo file", {})
    <3>1. /\ cmd' = cmd /\ step' = "undo file" /\ settled' = settled
          /\ applied' = applied /\ series' = series
      BY <1>1, <2>6 DEF GoTo
    <3> QED
      BY <1>1, <1>7, <3>1, ListsKept
  <2> QED
    BY <2>4, <2>5, <2>6
<1> QED
  BY <1>2, <1>4, <1>5, <1>6, <1>7

\* The write that takes the new name out of the series again.
LEMMA ListsUndo ==
  ASSUME TInv, Lists, UndoSeries(TRUE)
  PROVE  Lists'
<1>1. /\ step = "undo series" /\ step # "torn" /\ applied' = applied
      /\ cmd' = cmd /\ step' = "undo dir" /\ settled' = settled
      /\ series' = ReplaceAt(series, Stack!Position(series, cmd.new), cmd.patch)
  BY DEF UndoSeries, GoTo
<1>2. cmd.op \in {"rename", "fork"}
  BY <1>1, StepFacts
<1> DEFINE s == settled.series
           a == settled.applied
           p == cmd.patch
           n == cmd.new
           k == Stack!Position(s, p)
<1>3. /\ Prefix(a, s) /\ ~Stack!IsIn(s, n) /\ n \in Patches
      /\ k \in 1 .. Len(s) /\ s[k] = p
  BY <1>1, <1>2, ListsFacts
<1>4. series = ReplaceAt(s, k, n) /\ applied = a
  BY <1>1, <1>2 DEF Lists, RenamedSeries
<1>5. series' = s
  <2>1. series' = ReplaceAt(series, Stack!Position(series, n), p)
    BY <1>1
  <2> HIDE DEF s, a, p, n, k
  <2>2. ReplaceAt(ReplaceAt(s, k, n), Stack!Position(ReplaceAt(s, k, n), n), s[k]) = s
    BY <1>3, RenamedBack
  <2> QED
    BY <1>3, <1>4, <2>1, <2>2
<1> QED
  BY <1>1, <1>2, <1>4, <1>5 DEF Lists

\* Every call keeps what is said of the lists.
LEMMA ListsCall ==
  ASSUME TInv, Lists, NEW ok \in BOOLEAN, Call(ok), ~ok => faults' = faults + 1, faults' <= 1
  PROVE  Lists'
<1>1. ASSUME NEW f \in todo, Save(f, ok) \/ PatchFile(f, ok) \/ Restore(f, ok) \/ Clear(f, ok)
      PROVE  Lists'
  <2>1. /\ series' = series /\ applied' = applied /\ settled' = settled /\ step' = step
        /\ step \in {"save", "patch", "restore", "clear"}
        /\ \/ cmd' = cmd
           \/ cmd.op = "push" /\ cmd' = [cmd EXCEPT !.rejects = cmd'.rejects]
    BY <1>1, StepFacts DEF Save, PatchFile, Restore, Clear, GoTo
  <2>2. cmd.op \in {"push", "pop", "delete"} /\ (cmd.op = "push" => cmd \in PushCommand)
    BY <2>1, StepFacts, ShapeFacts, DiskFacts
  <2>3. cmd'.op = cmd.op /\ cmd'.patch = cmd.patch
    BY <2>1, <2>2 DEF PushCommand
  <2> QED
    BY <2>1, <2>2, <2>3, ListsKept
<1>2. CASE Mark(ok)
  <2>1. Return /\ series' = series /\ applied' = applied /\ step = "mark" /\ cmd.op = "push"
    BY <1>2, StepFacts DEF Mark
  <2> QED
    BY <2>1, ListsFacts, ListsReturn
<1>3. CASE ChangePatchFile(ok)
  <2>1. series' = series /\ applied' = applied /\ step = "file"
    BY <1>3 DEF ChangePatchFile
  <2>2. cmd.op \in {"delete", "rename", "fork", "import"} /\ Shape(cmd, step)
    BY <2>1, StepFacts, DiskFacts
  <2>3. CASE Return
    BY <2>1, <2>3, ListsFacts, ListsReturn
  <2>4. CASE ~Return
    <3>1. /\ cmd' = IF cmd.op = "import" THEN cmd ELSE [cmd EXCEPT !.file = TRUE]
          /\ step' \in {"dir", "series"} /\ settled' = settled /\ cmd.op # "delete"
      BY <1>3, <2>4 DEF ChangePatchFile
    <3>2. cmd.op \in {"rename", "fork"} => cmd \in MoveCommand
      BY <2>2, ShapeFacts
    <3>3. /\ cmd'.op = cmd.op /\ cmd'.patch = cmd.patch
          /\ cmd.op \in {"rename", "fork"} => cmd'.new = cmd.new
      BY <2>2, <3>1, <3>2 DEF MoveCommand
    <3> QED
      BY <2>1, <2>2, <3>1, <3>3, ListsKept
  <2> QED
    BY <2>3, <2>4
<1>4. CASE MoveDir(ok)
  <2>1. /\ series' = series /\ applied' = applied /\ step = "dir" /\ settled' = settled
        /\ cmd' = cmd \/ cmd' = [cmd EXCEPT !.dir = TRUE]
        /\ step' \in {"series", "undo file"}
    BY <1>4 DEF MoveDir, GoTo
  <2>2. cmd.op \in {"rename", "fork"} /\ cmd \in MoveCommand
    BY <2>1, StepFacts, ShapeFacts, DiskFacts
  <2>3. cmd'.op = cmd.op /\ cmd'.patch = cmd.patch /\ cmd'.new = cmd.new
    BY <2>1, <2>2 DEF MoveCommand
  <2> QED
    BY <2>1, <2>2, <2>3, ListsKept
<1>5. CASE UndoSeries(ok)
  <2>1. faults >= 1
    BY <1>5 DEF UndoSeries, Lists
  <2>2. faults \in Nat
    BY DiskFacts DEF Budget
  <2>3. ok = TRUE
    BY <2>1, <2>2
  <2> QED
    BY <1>5, <2>3, ListsUndo
<1>6. CASE UndoDir(ok)
  <2>1. /\ series' = series /\ applied' = applied /\ step = "undo dir" /\ settled' = settled
        /\ cmd' = cmd /\ step' = "undo file"
    BY <1>6 DEF UndoDir, GoTo
  <2>2. cmd.op \in {"rename", "fork"}
    BY <2>1, StepFacts
  <2> QED
    BY <2>1, <2>2, ListsKept
<1>7. CASE UndoFile(ok)
  <2>1. series' = series /\ applied' = applied /\ step = "undo file" /\ Return
    BY <1>7 DEF UndoFile
  <2> QED
    BY <2>1, ListsFacts, ListsReturn
<1>8. CASE WriteApplied(ok)
  BY <1>8, ListsApplied, DiskFacts DEF Budget
<1>9. CASE WriteSeries(ok)
  BY <1>9, ListsSeries
<1> QED
  BY <1>1, <1>2, <1>3, <1>4, <1>5, <1>6, <1>7, <1>8, <1>9 DEF Call

\* LInv holds at the start and is kept by every step.
LEMMA InitLInv == Init => LInv
<1> SUFFICES ASSUME Init PROVE LInv
  OBVIOUS
<1>1. Prefix(applied, series) /\ Prefix(settled.applied, settled.series)
  BY DEF Init, Prefix, Disk
<1>2. Lists
  BY <1>1 DEF Init, Lists, Idle
<1> QED
  BY <1>2, InitTInv DEF LInv

\* The same for a step.
LEMMA NextLInv == LInv /\ [Next]_vars => LInv'
<1> SUFFICES ASSUME LInv, [Next]_vars, faults' <= 1
             PROVE  Lists'
  BY NextTInv DEF LInv
<1>1. TInv /\ faults \in Nat /\ Budget
  BY DiskFacts DEF LInv, Budget
<1>2. faults' = faults \/ faults' = faults + 1
  <2>1. Start => faults' = faults
    BY DEF Start, StartPush, StartPop, StartNew, StartFork, StartDelete, StartRename,
       StartImport, Move, Begin
  <2>2. LoopEnd \/ Crash => faults' = faults
    BY DEF LoopEnd, SavesEnd, PatchEnds, RestoresEnd, ClearEnds, LoopEnds, Crash
  <2> QED
    BY <2>1, <2>2 DEF Next, Works, Fails, vars
<1>3. Lists
  BY <1>1, <1>2 DEF LInv
<1>4. CASE Start
  BY <1>1, <1>3, <1>4, ListsStart
<1>5. CASE Works
  <2>1. CASE Call(TRUE)
    BY <1>1, <1>3, <2>1, ListsCall
  <2>2. CASE ClearMarker
    <3>1. /\ series' = series /\ applied' = applied /\ settled' = settled
          /\ cmd' = cmd /\ step' = step /\ step = "clear"
      BY <2>2 DEF ClearMarker, control
    <3>2. cmd.op \in {"push", "pop", "delete"}
      BY <1>1, <3>1, StepFacts
    <3> QED
      BY <1>3, <3>1, <3>2, ListsKept
  <2> QED
    BY <1>5, <2>1, <2>2 DEF Works
<1>6. CASE Fails /\ Call(FALSE)
  BY <1>1, <1>3, <1>6, ListsCall DEF Fails
<1>7. CASE LoopEnd \/ ClearMarkerFails
  <2>1. series' = series /\ applied' = applied
    BY <1>7 DEF LoopEnd, LoopEnds, SavesEnd, PatchEnds, RestoresEnd, ClearEnds,
                ClearMarkerFails, disk
  <2>2. step \in {"save", "patch", "restore", "clear"}
    BY <1>7 DEF LoopEnd, LoopEnds, SavesEnd, PatchEnds, RestoresEnd, ClearEnds,
                ClearMarkerFails
  <2>3. cmd.op \in {"push", "pop", "delete"}
    BY <1>1, <2>2, StepFacts
  <2>4. CASE Return
    BY <1>1, <1>3, <2>1, <2>2, <2>3, <2>4, ListsFacts, ListsReturn
  <2>5. CASE ~Return
    <3>1. /\ cmd' = cmd /\ settled' = settled
          /\ step' \in {"patch", "restore", "clear", "applied"}
      BY <1>7, <2>5 DEF LoopEnd, SavesEnd, PatchEnds, RestoresEnd, ClearEnds, ClearMarkerFails,
                        Cleared, GoTo
    <3> QED
      BY <1>3, <2>1, <2>2, <2>3, <3>1, ListsKept
  <2> QED
    BY <2>4, <2>5
<1>8. CASE Crash
  <2>1. /\ series' = series /\ applied' = applied /\ cmd' = Idle /\ settled' = Disk
        /\ Idle.op = "none" /\ cmd # Idle
        /\ step' = IF cmd.op \in {"rename", "fork"} /\ settled # Disk THEN "torn" ELSE "idle"
    BY <1>8 DEF Crash, disk, Idle
  <2>2. step # "torn"
    BY <1>1, <2>1 DEF TInv, TypeOK
  <2>3. step' = "idle" => Prefix(applied, series)
    <3>1. CASE cmd.op \notin {"rename", "fork"}
      BY <1>3, <2>2, <3>1 DEF Lists
    <3>2. CASE settled = Disk
      BY <1>3, <2>2, <3>2 DEF Lists, Disk
    <3> QED
      BY <2>1, <3>1, <3>2
  <2>4. settled'.applied = applied /\ settled'.series = series
    BY <2>1 DEF Disk
  <2> QED
    BY <2>1, <2>3, <2>4 DEF Lists
<1>9. CASE UNCHANGED vars
  BY <1>3, <1>9 DEF vars, disk, control, Lists, IsNext, RenamedSeries
<1> QED
  BY <1>4, <1>5, <1>6, <1>7, <1>8, <1>9 DEF Next, Fails

\* ListsAgree holds in every reachable state.
THEOREM ListsAlwaysAgree == Spec => []ListsAgree
<1>1. LInv => ListsAgree
  <2> SUFFICES ASSUME LInv, faults <= 1, cmd.op \notin {"rename", "fork"}, step # "torn"
               PROVE  Stack!AppliedIsSeriesPrefix
    BY DiskFacts DEF ListsAgree, LInv, Budget
  <2>1. Prefix(applied, series)
    BY DEF LInv, Lists
  <2> QED
    BY <2>1, PrefixAgrees
<1> QED
  BY <1>1, InitLInv, NextLInv, PTL DEF Spec

-----------------------------------------------------------------------------
(* Taking back.                                                             *)

\* patches/ once the patch file has been moved or copied.
MovedFile ==
  IF ~cmd.file THEN settled.patchFile
  ELSE IF cmd.op = "rename" THEN Stack!Moved(settled.patchFile, cmd.patch, cmd.new, Absent)
  ELSE [settled.patchFile EXCEPT ![cmd.new] = settled.patchFile[cmd.patch]]

\* How far a rename or a fork has come, on its way or back.
Moves ==
  /\ tree = settled.tree
  /\ patchFile = MovedFile
  /\ step = "file" => ~cmd.file
  /\ cmd.dir => /\ step \notin {"file", "dir"}
                /\ settled.backup[cmd.new] = Stack!NoBackups
                /\ cmd.new \notin settled.needsRefresh
  /\ IF cmd.dir /\ step # "undo file"
     THEN /\ backup = Stack!Moved(settled.backup, cmd.patch, cmd.new, Stack!NoBackups)
          /\ needsRefresh = Stack!MovedMember(settled.needsRefresh, cmd.patch, cmd.new)
     ELSE backup = settled.backup /\ needsRefresh = settled.needsRefresh
  /\ cmd.new \notin settled.reversed
  /\ step \in {"file", "dir", "series"} => reversed = settled.reversed
  /\ step \in {"applied", "undo series"} =>
       reversed = Stack!MovedMember(settled.reversed, cmd.patch, cmd.new)
  /\ step \in {"undo dir", "undo file"} =>
       reversed \cup {cmd.patch} = settled.reversed \cup {cmd.patch}
  /\ step = "undo dir" => faults >= 1

\* How far an import has come.
Imports ==
  /\ series = settled.series /\ applied = settled.applied
  /\ reversed = settled.reversed
  /\ backup = settled.backup /\ needsRefresh = settled.needsRefresh
  /\ tree = settled.tree
  /\ patchFile = IF step = "file" THEN settled.patchFile
                 ELSE [settled.patchFile EXCEPT ![cmd.patch] = cmd.text]
  /\ step = "undo file" => ~Stack!IsIn(series, cmd.patch)

MInv ==
  /\ LInv
  /\ faults <= 1 /\ cmd.op \in {"rename", "fork"} => Moves
  /\ cmd.op = "import" => Imports

\* What is known of the settled disk and of a command that gives a name.
LEMMA SettledFacts ==
  ASSUME TInv
  PROVE  /\ settled.patchFile \in [Patches -> {Absent} \cup Patch]
         /\ settled.backup \in [Patches -> [Files -> {Absent} \cup Content]]
         /\ settled.reversed \subseteq Patches /\ settled.needsRefresh \subseteq Patches
         /\ settled.series \in Seq(Patches)
         /\ cmd.op \in {"rename", "fork"} =>
              /\ cmd \in MoveCommand /\ step \in MoveSteps
              /\ cmd.patch \in Patches /\ cmd.new \in Patches
         /\ cmd.op = "import" => cmd \in ImportCommand /\ step \in ImportSteps
         /\ step = "idle" => settled = Disk
<1>1. settled \in DiskType /\ Shape(cmd, step) /\ (step = "idle" => settled = Disk)
  BY DEF TInv, TypeOK
<1>2. /\ cmd.op \in {"rename", "fork"} => cmd \in MoveCommand /\ step \in MoveSteps
      /\ cmd.op = "import" => cmd \in ImportCommand /\ step \in ImportSteps
  BY <1>1, ShapeFacts
<1> QED
  BY <1>1, <1>2 DEF DiskType, MoveCommand

\* A name that is given is new.
LEMMA NameIsNew ==
  ASSUME Lists, cmd.op \in {"rename", "fork"}
  PROVE  cmd.patch # cmd.new
BY DEF Lists

\* What has been moved is moved back.
LEMMA MovedBack ==
  ASSUME NEW map, NEW p \in Patches, NEW n \in Patches, NEW none,
         map = [q \in Patches |-> map[q]], p # n, map[n] = none
  PROVE  /\ Stack!Moved(map, p, n, none)[p] = none
         /\ Stack!Moved(Stack!Moved(map, p, n, none), n, p, none) = map
BY DEF Stack!Moved

\* The same for a member of a set.
LEMMA MemberMovedBack ==
  ASSUME NEW S, NEW p, NEW n, p # n, n \notin S
  PROVE  /\ p \notin Stack!MovedMember(S, p, n)
         /\ Stack!MovedMember(Stack!MovedMember(S, p, n), n, p) = S
         /\ (Stack!MovedMember(S, p, n) \ {n}) \cup {p} = S \cup {p}
BY DEF Stack!MovedMember

\* A command begins with everything as it was.
LEMMA MovesStart ==
  ASSUME TInv, Start
  PROVE  /\ cmd'.op \in {"rename", "fork"} => Moves'
         /\ cmd'.op = "import" => Imports'
<1>1. ASSUME NEW c, NEW s, NEW fs, Begin(c, s, fs)
      PROVE  /\ cmd' = c /\ step' = s /\ settled' = settled
             /\ series' = settled.series /\ applied' = settled.applied
             /\ reversed' = settled.reversed /\ patchFile' = settled.patchFile
             /\ backup' = settled.backup /\ needsRefresh' = settled.needsRefresh
             /\ tree' = settled.tree
  <2>1. step = "idle" /\ cmd' = c /\ step' = s /\ settled' = settled /\ UNCHANGED disk
    BY <1>1 DEF Begin
  <2>2. settled = Disk
    BY <2>1, SettledFacts
  <2> QED
    BY <2>1, <2>2 DEF disk, Disk
<1>2. ASSUME NEW op \in {"rename", "fork"}, NEW old, NEW new, Move(op, old, new)
      PROVE  Moves' /\ cmd'.op # "import"
  <2> DEFINE c == [op |-> op, patch |-> old, new |-> new, file |-> FALSE, dir |-> FALSE]
             s == IF patchFile[old] # Absent THEN "file"
                  ELSE IF Stack!IsIn(applied, old) THEN "dir" ELSE "series"
  <2>1. /\ Begin(c, s, {}) /\ s \in {"file", "dir", "series"} /\ ~Stack!IsIn(series, new)
    BY <1>2 DEF Move
  <2>2. c.op = op /\ c.patch = old /\ c.new = new /\ c.file = FALSE /\ c.dir = FALSE
    OBVIOUS
  <2> HIDE DEF c, s
  <2>3. new \notin settled.reversed
    BY <1>1, <2>1, DiskFacts, SettledFacts DEF Begin, Marked, Disk
  <2>4. cmd' = c /\ step' = s /\ settled' = settled /\ tree' = settled.tree
        /\ reversed' = settled.reversed /\ patchFile' = settled.patchFile
        /\ backup' = settled.backup /\ needsRefresh' = settled.needsRefresh
    BY <1>1, <2>1
  <2>5. MovedFile' = settled.patchFile
    BY <2>2, <2>4 DEF MovedFile
  <2> QED
    BY <2>1, <2>2, <2>3, <2>4, <2>5 DEF Moves
<1>3. ASSUME NEW p \in Patches, NEW P \in ImportFrom, NEW force \in BOOLEAN,
             NEW rev \in BOOLEAN, StartImport(p, P, force, rev)
      PROVE  Imports' /\ cmd'.op = "import"
  <2> DEFINE c == [op |-> "import", patch |-> p, text |-> P, rev |-> rev]
  <2>1. Begin(c, "file", {})
    BY <1>3 DEF StartImport
  <2>2. c.op = "import"
    OBVIOUS
  <2> HIDE DEF c
  <2>3. /\ cmd' = c /\ step' = "file" /\ settled' = settled
        /\ series' = settled.series /\ applied' = settled.applied
        /\ reversed' = settled.reversed /\ patchFile' = settled.patchFile
        /\ backup' = settled.backup /\ needsRefresh' = settled.needsRefresh
        /\ tree' = settled.tree
    BY <1>1, <2>1
  <2> QED
    BY <2>2, <2>3 DEF Imports
<1>4. ASSUME \/ \E force \in BOOLEAN : StartPush(force) \/ StartPop(force)
             \/ \E p \in Patches : StartNew(p)
             \/ \E p \in Patches, rm \in BOOLEAN : StartDelete(p, rm)
      PROVE  cmd'.op \in {"push", "pop", "new", "delete"}
  <2>1. ASSUME NEW force, StartPush(force)
        PROVE  cmd'.op = "push"
    BY <2>1 DEF StartPush, Begin
  <2>2. ASSUME NEW force, StartPop(force)
        PROVE  cmd'.op = "pop"
    BY <2>2 DEF StartPop, Begin
  <2>3. ASSUME NEW p, StartNew(p)
        PROVE  cmd'.op = "new"
    BY <2>3 DEF StartNew, Begin
  <2>4. ASSUME NEW p, NEW rm, StartDelete(p, rm)
        PROVE  cmd'.op = "delete"
    BY <2>4 DEF StartDelete, Begin
  <2> QED
    BY <1>4, <2>1, <2>2, <2>3, <2>4
<1>5. ASSUME \/ \E old, new \in Patches : StartRename(old, new)
             \/ \E new \in Patches : StartFork(new)
      PROVE  Moves' /\ cmd'.op # "import"
  BY <1>2, <1>5 DEF StartRename, StartFork
<1> QED
  BY <1>3, <1>4, <1>5 DEF Start

\* Every call of an import, on its way or back.
LEMMA ImportsCall ==
  ASSUME TInv, NEW ok \in BOOLEAN, Call(ok), cmd.op = "import", Imports, cmd'.op = "import"
  PROVE  Imports'
<1>1. step \in {"file", "series", "undo file"} /\ cmd.patch \in Patches
  BY SettledFacts DEF ImportSteps, ImportCommand
<1>2. ~Return
  BY DEF Return, Idle
<1>3. CASE ChangePatchFile(ok)
  BY <1>2, <1>3 DEF ChangePatchFile, NewPatchFile, Imports
<1>4. CASE WriteSeries(ok)
  BY <1>2, <1>4 DEF WriteSeries, GoTo, Imports
<1>5. CASE UndoFile(ok)
  BY <1>2, <1>5 DEF UndoFile
<1> QED
  BY <1>1, <1>3, <1>4, <1>5 DEF Call, Save, PatchFile, Restore, Clear, WriteApplied, Mark,
     MoveDir, UndoSeries, UndoDir

\* Every call of a rename or a fork, on its way or back.
LEMMA MovesCall ==
  ASSUME TInv, Lists, NEW ok \in BOOLEAN, Call(ok),
         ok => faults' = faults, ~ok => faults' = faults + 1, faults' <= 1,
         cmd.op \in {"rename", "fork"}, Moves, cmd'.op \in {"rename", "fork"}
  PROVE  Moves'
<1>1. /\ cmd \in MoveCommand /\ step \in MoveSteps
      /\ cmd.patch \in Patches /\ cmd.new \in Patches /\ cmd.patch # cmd.new
      /\ faults \in Nat
  BY SettledFacts, NameIsNew, DiskFacts DEF Budget
<1>2. ~Return
  BY DEF Return, Idle
<1>8. faults >= 1 => ok = TRUE
  <2>1. faults \in Nat
    BY <1>1
  <2> QED
    BY <2>1
<1>3. CASE ChangePatchFile(ok)
  <2>1. /\ tree' = tree /\ backup' = backup /\ needsRefresh' = needsRefresh
        /\ reversed' = reversed /\ settled' = settled /\ patchFile' = NewPatchFile
        /\ cmd' = [cmd EXCEPT !.file = TRUE] /\ step' \in {"dir", "series"} /\ step = "file"
    BY <1>2, <1>3 DEF ChangePatchFile
  <2>2. cmd' = [op |-> cmd.op, patch |-> cmd.patch, new |-> cmd.new, file |-> TRUE, dir |-> cmd.dir]
    BY <1>1, <2>1 DEF MoveCommand
  <2>3. patchFile = settled.patchFile /\ ~cmd.dir
    BY <2>1 DEF Moves, MovedFile
  <2>4. patchFile' = MovedFile'
    BY <2>1, <2>2, <2>3 DEF NewPatchFile, MovedFile
  <2> QED
    BY <2>1, <2>2, <2>3, <2>4 DEF Moves
<1>4. CASE MoveDir(ok)
  <2>1. /\ tree' = tree /\ patchFile' = patchFile /\ reversed' = reversed
        /\ settled' = settled /\ step = "dir"
    BY <1>4 DEF MoveDir, GoTo
  <2>2. ~cmd.dir /\ backup = settled.backup /\ needsRefresh = settled.needsRefresh
        /\ reversed = settled.reversed
    BY <2>1 DEF Moves
  <2> DEFINE free == ok /\ backup[cmd.new] = Stack!NoBackups /\ cmd.new \notin needsRefresh
  <2>3. CASE free
    <3>1. /\ backup' = Stack!Moved(backup, cmd.patch, cmd.new, Stack!NoBackups)
          /\ needsRefresh' = Stack!MovedMember(needsRefresh, cmd.patch, cmd.new)
          /\ cmd' = [cmd EXCEPT !.dir = TRUE] /\ step' = "series"
      BY <1>4, <2>3 DEF MoveDir, MovedDir
    <3>2. cmd' = [op |-> cmd.op, patch |-> cmd.patch, new |-> cmd.new, file |-> cmd.file, dir |-> TRUE]
      BY <1>1, <3>1 DEF MoveCommand
    <3>3. MovedFile' = MovedFile
      BY <2>1, <3>2 DEF MovedFile
    <3> QED
      BY <2>1, <2>2, <2>3, <3>1, <3>2, <3>3 DEF Moves
  <2>4. CASE ~free
    <3>1. backup' = backup /\ needsRefresh' = needsRefresh /\ cmd' = cmd /\ step' = "undo file"
      BY <1>4, <2>4 DEF MoveDir, MovedDir, GoTo
    <3>2. MovedFile' = MovedFile
      BY <2>1, <3>1 DEF MovedFile
    <3> QED
      BY <2>1, <2>2, <3>1, <3>2 DEF Moves
  <2> QED
    BY <2>3, <2>4
<1>5. ASSUME WriteSeries(ok) \/ WriteApplied(ok) \/ UndoSeries(ok)
      PROVE  Moves'
  <2>1. /\ tree' = tree /\ patchFile' = patchFile /\ backup' = backup
        /\ needsRefresh' = needsRefresh /\ settled' = settled /\ cmd' = cmd
        /\ step \in {"series", "applied", "undo series"}
        /\ step' \in {"applied", "undo series", "undo dir"}
    BY <1>2, <1>5 DEF WriteSeries, WriteApplied, UndoSeries, GoTo
  <2>2. MovedFile' = MovedFile
    BY <2>1 DEF MovedFile
  <2>3. /\ step' \in {"applied", "undo series"} =>
             reversed' = Stack!MovedMember(settled.reversed, cmd.patch, cmd.new)
        /\ step' = "undo dir" =>
             reversed' \cup {cmd.patch} = settled.reversed \cup {cmd.patch} /\ faults' >= 1
    <3>1. CASE WriteSeries(ok)
      <4>1. /\ reversed = settled.reversed /\ (step' = "undo dir" => ~ok)
            /\ step' # "undo series" /\ (step' = "applied" => ok)
            /\ reversed' = IF ok THEN NewReversed ELSE reversed
        BY <1>2, <3>1 DEF WriteSeries, GoTo, Moves
      <4>2. NewReversed = Stack!MovedMember(reversed, cmd.patch, cmd.new)
        BY DEF NewReversed
      <4>3. ~ok => faults' >= 1
        BY <1>1
      <4>4. reversed' = (IF ok THEN Stack!MovedMember(settled.reversed, cmd.patch, cmd.new)
                         ELSE settled.reversed)
        BY <4>1, <4>2
      <4> QED
        BY <4>1, <4>3, <4>4
    <3>2. CASE WriteApplied(ok)
      BY <1>2, <3>2 DEF WriteApplied, GoTo, Moves
    <3>3. CASE UndoSeries(ok)
      <4>1. step = "undo series" /\ step' = "undo dir" /\ faults >= 1
        BY <3>3 DEF UndoSeries, GoTo, Lists
      <4>2. ok = TRUE
        BY <1>8, <4>1
      <4>3. reversed' = reversed \ {cmd.new}
        BY <3>3, <4>2 DEF UndoSeries
      <4>4. /\ reversed = Stack!MovedMember(settled.reversed, cmd.patch, cmd.new)
            /\ cmd.new \notin settled.reversed
        BY <4>1 DEF Moves
      <4> DEFINE S == settled.reversed
                 p == cmd.patch
                 n == cmd.new
      <4>5. p # n /\ n \notin S
        BY <1>1, <4>4
      <4> HIDE DEF S, p, n
      <4>6. (Stack!MovedMember(S, p, n) \ {n}) \cup {p} = S \cup {p}
        BY <4>5, MemberMovedBack
      <4> QED
        BY <4>1, <4>2, <4>3, <4>4, <4>6 DEF S, p, n
    <3> QED
      BY <1>5, <3>1, <3>2, <3>3
  <2> QED
    BY <2>1, <2>2, <2>3 DEF Moves
<1>6. CASE UndoDir(ok)
  <2>1. /\ tree' = tree /\ patchFile' = patchFile /\ reversed' = reversed
        /\ settled' = settled /\ cmd' = cmd /\ step = "undo dir" /\ step' = "undo file"
    BY <1>6 DEF UndoDir, GoTo
  <2>2. ok = TRUE
    <3>1. faults >= 1
      BY <2>1 DEF Moves
    <3> QED
      BY <1>8, <3>1
  <2>3. backup' = settled.backup /\ needsRefresh' = settled.needsRefresh
    <3>1. CASE cmd.dir
      <4> DEFINE B == settled.backup
                 S == settled.needsRefresh
                 p == cmd.patch
                 n == cmd.new
      <4>1. /\ backup = Stack!Moved(B, p, n, Stack!NoBackups)
            /\ needsRefresh = Stack!MovedMember(S, p, n)
            /\ B[n] = Stack!NoBackups /\ n \notin S
        BY <2>1, <3>1 DEF Moves
      <4>2. MovedDir(n, p, ok)
        BY <1>6, <3>1 DEF UndoDir
      <4>3. p \in Patches /\ n \in Patches /\ p # n /\ B = [q \in Patches |-> B[q]]
        BY <1>1, SettledFacts
      <4> HIDE DEF B, S, p, n
      <4>4. /\ Stack!Moved(B, p, n, Stack!NoBackups)[p] = Stack!NoBackups
            /\ Stack!Moved(Stack!Moved(B, p, n, Stack!NoBackups), n, p, Stack!NoBackups) = B
        BY <4>1, <4>3, MovedBack
      <4>5. /\ p \notin Stack!MovedMember(S, p, n)
            /\ Stack!MovedMember(Stack!MovedMember(S, p, n), n, p) = S
        BY <4>1, <4>3, MemberMovedBack
      <4>6. backup[p] = Stack!NoBackups /\ p \notin needsRefresh
        BY <4>1, <4>4, <4>5
      <4>7. /\ backup' = Stack!Moved(backup, n, p, Stack!NoBackups)
            /\ needsRefresh' = Stack!MovedMember(needsRefresh, n, p)
        BY <2>2, <4>2, <4>6 DEF MovedDir
      <4> QED
        BY <4>1, <4>4, <4>5, <4>7 DEF B, S
    <3>2. CASE ~cmd.dir
      BY <1>6, <3>2 DEF UndoDir, Moves
    <3> QED
      BY <3>1, <3>2
  <2>4. MovedFile' = MovedFile
    BY <2>1 DEF MovedFile
  <2> QED
    BY <2>1, <2>3, <2>4 DEF Moves
<1>7. CASE UndoFile(ok)
  BY <1>2, <1>7 DEF UndoFile
<1> QED
  BY <1>1, <1>3, <1>4, <1>5, <1>6, <1>7
     DEF Call, Save, PatchFile, Restore, Clear, Mark, MoveSteps

\* MInv holds at the start and is kept by every step.
LEMMA NextMInv == (Init => MInv) /\ (MInv /\ [Next]_vars => MInv')
<1>1. Init => MInv
  BY InitLInv DEF MInv, Init, Idle
<1>2. ASSUME MInv, [Next]_vars
      PROVE  /\ faults' <= 1 /\ cmd'.op \in {"rename", "fork"} => Moves'
             /\ cmd'.op = "import" => Imports'
  <2>1. LInv /\ TInv /\ faults \in Nat
    BY <1>2, DiskFacts DEF MInv, LInv, Budget
  <2>2. CASE Start
    BY <2>1, <2>2, MovesStart
  <2>3. ASSUME NEW ok \in BOOLEAN, Call(ok), faults' = IF ok THEN faults ELSE faults + 1
        PROVE  /\ faults' <= 1 /\ cmd'.op \in {"rename", "fork"} => Moves'
               /\ cmd'.op = "import" => Imports'
    <3>1. cmd'.op \in {"rename", "fork", "import"} => cmd'.op = cmd.op
      <4>1. CASE cmd' = Idle
        BY <4>1 DEF Idle
      <4>2. CASE cmd' = cmd
        BY <4>2
      <4>3. CASE \E r : cmd' = [cmd EXCEPT !.rejects = r] /\ step = "patch"
        BY <2>1, <4>3, StepFacts, ShapeFacts, DiskFacts DEF PushCommand
      <4>4. CASE /\ cmd' = [cmd EXCEPT !.file = TRUE] \/ cmd' = [cmd EXCEPT !.dir = TRUE]
                 /\ cmd.op \in {"rename", "fork"}
        BY <2>1, <4>4, SettledFacts DEF MoveCommand
      <4>5. \/ cmd' = Idle \/ cmd' = cmd
            \/ \E r : cmd' = [cmd EXCEPT !.rejects = r] /\ step = "patch"
            \/ /\ cmd' = [cmd EXCEPT !.file = TRUE] \/ cmd' = [cmd EXCEPT !.dir = TRUE]
               /\ cmd.op \in {"rename", "fork"}
        <5>1. step = "file" => cmd.op \in {"delete", "rename", "fork", "import"}
          BY <2>1, StepFacts
        <5>2. step = "dir" => cmd.op \in {"rename", "fork"}
          BY <2>1, StepFacts
        <5> QED
          BY <2>3, <5>1, <5>2 DEF Call, Save, PatchFile, Restore, Clear, WriteApplied, Mark,
             WriteSeries, ChangePatchFile, MoveDir, UndoSeries, UndoDir, UndoFile, GoTo, Return
      <4> QED
        BY <4>1, <4>2, <4>3, <4>4, <4>5
    <3>2. ASSUME faults' <= 1, cmd'.op \in {"rename", "fork"}
          PROVE  Moves'
      <4>1. faults <= 1 /\ cmd.op \in {"rename", "fork"}
        BY <2>1, <2>3, <3>1, <3>2
      <4>2. Lists /\ Moves
        BY <1>2, <2>1, <4>1 DEF MInv, LInv
      <4> QED
        BY <2>1, <2>3, <3>2, <4>1, <4>2, MovesCall
    <3>3. ASSUME cmd'.op = "import"
          PROVE  Imports'
      <4>1. cmd.op = "import" /\ Imports
        BY <1>2, <3>1, <3>3 DEF MInv
      <4> QED
        BY <2>1, <2>3, <3>3, <4>1, ImportsCall
    <3> QED
      BY <3>2, <3>3
  <2>4. CASE Works
    <3>1. CASE Call(TRUE)
      BY <2>3, <2>4, <3>1 DEF Works
    <3>2. CASE ClearMarker
      <4>1. cmd' = cmd /\ step = "clear"
        BY <3>2 DEF ClearMarker, control
      <4>2. cmd.op \in {"push", "pop", "delete"}
        BY <2>1, <4>1, StepFacts
      <4> QED
        BY <4>1, <4>2
    <3> QED
      BY <2>4, <3>1, <3>2 DEF Works
  <2>5. CASE Fails /\ Call(FALSE)
    BY <2>3, <2>5 DEF Fails
  <2>6. CASE LoopEnd \/ ClearMarkerFails
    <3>1. /\ step \in {"save", "patch", "restore", "clear"}
          /\ cmd' = cmd \/ cmd' = Idle
      BY <2>6 DEF LoopEnd, LoopEnds, SavesEnd, PatchEnds, RestoresEnd, ClearEnds,
                  ClearMarkerFails, Cleared, GoTo, Return
    <3>2. cmd.op \in {"push", "pop", "delete"}
      BY <2>1, <3>1, StepFacts
    <3> QED
      BY <3>1, <3>2 DEF Idle
  <2>7. CASE Crash
    BY <2>7 DEF Crash, Idle
  <2>8. CASE UNCHANGED vars
    BY <1>2, <2>8 DEF vars, disk, control, MInv, Moves, MovedFile, Imports
  <2> QED
    BY <1>2, <2>2, <2>4, <2>5, <2>6, <2>7, <2>8 DEF Next, Fails
<1> QED
  BY <1>1, <1>2, NextLInv DEF MInv

(***************************************************************************)
(* FailureUndone holds of every step: a rename, a fork or an import that   *)
(* gives up after a call has failed leaves the project as it found it.     *)
(***************************************************************************)
THEOREM FailureIsUndone == Spec => FailureUndone
<1>1. ASSUME MInv, UndoFile(TRUE), faults <= 1
      PROVE  /\ series' = settled.series
             /\ applied' = settled.applied
             /\ reversed' \cup {cmd.patch} = settled.reversed \cup {cmd.patch}
             /\ \A i \in DOMAIN series' : patchFile'[series'[i]] = settled.patchFile[series'[i]]
             /\ backup' = settled.backup
             /\ needsRefresh' = settled.needsRefresh
             /\ tree' = settled.tree
  <2>1. /\ step = "undo file" /\ series' = series /\ applied' = applied
        /\ reversed' = reversed /\ backup' = backup /\ needsRefresh' = needsRefresh
        /\ tree' = tree
    BY <1>1 DEF UndoFile
  <2>2. TInv /\ Lists /\ cmd.op \in {"rename", "fork", "import"}
    BY <1>1, <2>1, StepFacts DEF MInv, LInv
  <2>3. /\ settled.series \in Seq(Patches) /\ DOMAIN settled.series = 1 .. Len(settled.series)
        /\ \A i \in 1 .. Len(settled.series) : settled.series[i] \in Patches
        /\ settled.patchFile \in [Patches -> {Absent} \cup Patch]
    BY <2>2, SettledFacts, LenProperties, ElementOfSeq
  <2>4. CASE cmd.op = "import"
    <3>1. Imports /\ ~Stack!IsIn(series, cmd.patch) /\ cmd.patch \in Patches
      BY <1>1, <2>1, <2>2, <2>4, StepFacts DEF MInv, Imports
    <3>2. patchFile' = [patchFile EXCEPT ![cmd.patch] = Absent]
      BY <1>1, <2>4 DEF UndoFile
    <3>3. patchFile = [settled.patchFile EXCEPT ![cmd.patch] = cmd.text]
      BY <2>1, <3>1 DEF Imports
    <3>4. \A i \in DOMAIN series : series[i] # cmd.patch
      BY <3>1 DEF Stack!IsIn
    <3>5. series = settled.series
      BY <3>1 DEF Imports
    <3>6. \A i \in DOMAIN series' : patchFile'[series'[i]] = settled.patchFile[series'[i]]
      BY <2>1, <2>3, <3>2, <3>3, <3>4, <3>5
    <3> QED
      BY <2>1, <3>1, <3>6 DEF Imports
  <2>5. CASE cmd.op \in {"rename", "fork"}
    <3>1. Moves
      BY <1>1, <2>5 DEF MInv
    <3>2. /\ series = settled.series /\ applied = settled.applied
          /\ ~Stack!IsIn(settled.series, cmd.new)
          /\ cmd.patch # cmd.new /\ cmd.patch \in Patches /\ cmd.new \in Patches
      BY <2>1, <2>2, <2>5, NameIsNew, SettledFacts DEF Lists
    <3>3. \A i \in DOMAIN series : series[i] # cmd.new
      BY <3>2 DEF Stack!IsIn
    <3>4. patchFile = MovedFile
      BY <3>1 DEF Moves
    <3>5. patchFile' = IF ~cmd.file THEN patchFile
                       ELSE IF cmd.op = "rename" THEN Stack!Moved(patchFile, cmd.new, cmd.patch, Absent)
                       ELSE [patchFile EXCEPT ![cmd.new] = Absent]
      BY <1>1, <2>5 DEF UndoFile
    <3>6. \A q \in Patches : q # cmd.new => patchFile'[q] = settled.patchFile[q]
      BY <2>3, <2>5, <3>2, <3>4, <3>5 DEF MovedFile, Stack!Moved
    <3>7. \A i \in DOMAIN series' : patchFile'[series'[i]] = settled.patchFile[series'[i]]
      BY <2>1, <2>3, <3>2, <3>3, <3>6
    <3>8. /\ reversed \cup {cmd.patch} = settled.reversed \cup {cmd.patch}
          /\ backup = settled.backup /\ needsRefresh = settled.needsRefresh
          /\ tree = settled.tree
      BY <2>1, <3>1 DEF Moves
    <3> QED
      BY <2>1, <3>2, <3>7, <3>8
  <2> QED
    BY <2>2, <2>4, <2>5
<1>2. ASSUME MInv
      PROVE  [UndoFile(TRUE) /\ faults <= 1 =>
                /\ series' = settled.series
                /\ applied' = settled.applied
                /\ reversed' \cup {cmd.patch} = settled.reversed \cup {cmd.patch}
                /\ \A i \in DOMAIN series' : patchFile'[series'[i]] = settled.patchFile[series'[i]]
                /\ backup' = settled.backup
                /\ needsRefresh' = settled.needsRefresh
                /\ tree' = settled.tree]_vars
  BY <1>1, <1>2
<1> QED
  BY <1>2, NextMInv, PTL DEF Spec, FailureUndone

-----------------------------------------------------------------------------
(* The file without patches, call by call.                                  *)

\* The applied patches that have a copy of f, and the others that have one.
Holding(a, b, f) == {j \in 1 .. Len(a) : b[a[j]][f] # Absent}

\* The first of the applied patches that have a copy is the j-th.
First(a, b, f, j) == j \in Holding(a, b, f) /\ \A k \in Holding(a, b, f) : j <= k

Loose(a, b, f) == {p \in Patches : ~Stack!IsIn(a, p) /\ b[p][f] # Absent}

\* Bottom, of any list a of patches with backups b over the tree t.
BottomOf(a, b, t, f) ==
  IF Holding(a, b, f) # {}
  THEN Restored(b[a[CHOOSE j \in Holding(a, b, f) : \A k \in Holding(a, b, f) : j <= k]][f])
  ELSE IF Loose(a, b, f) # {} THEN Restored(b[CHOOSE p \in Loose(a, b, f) : TRUE][f])
  ELSE t[f]

\* What QuiltDisk reads off the disk, now and after a step.
LEMMA BottomIs ==
  ASSUME NEW f \in Files \ Hidden
  PROVE  /\ Bottom(f) = BottomOf(applied, backup, tree, f)
         /\ Bottom(f)' = BottomOf(applied', backup', tree', f)
<1>1. Bottom(f) = BottomOf(applied, backup, tree, f)
  <2> DEFINE H == Holding(applied, backup, f)
             L == Loose(applied, backup, f)
  <2>1. Stack!Holders(1, f) = H
    BY DEF Holding, Stack!Holders, Stack!Listed, Stack!Tracks
  <2>2. {p \in Unrecorded(Disk) : Stack!Tracks(p, f)} = L
    BY DEF Loose, Unrecorded, Disk, Stack!Tracks, Stack!NoBackups
  <2>3. Bottom(f) = IF H # {} \/ L = {} THEN Stack!Underneath(1, f)
                    ELSE Restored(backup[CHOOSE p \in L : TRUE][f])
    <3> DEFINE M == {p \in Unrecorded(Disk) : Stack!Tracks(p, f)}
    <3>1. Bottom(f) = IF Stack!Holders(1, f) # {} \/ M = {} THEN Stack!Underneath(1, f)
                      ELSE Restored(backup[CHOOSE p \in M : TRUE][f])
      BY DEF Bottom
    <3>2. M = L
      BY <2>2
    <3> HIDE DEF H, L, M
    <3> QED
      BY <2>1, <3>1, <3>2
  <2>4. Stack!Underneath(1, f) =
          IF H = {} THEN tree[f]
          ELSE Restored(backup[applied[CHOOSE j \in H : \A k \in H : j <= k]][f])
    <3> DEFINE J == Stack!Holders(1, f)
    <3>1. Stack!Underneath(1, f) =
            IF J = {} THEN tree[f]
            ELSE Restored(backup[applied[CHOOSE j \in J : \A k \in J : j <= k]][f])
      BY DEF Stack!Underneath, Stack!Restored, Restored
    <3>2. J = H
      BY <2>1
    <3> HIDE DEF H, J
    <3> QED
      BY <3>1, <3>2
  <2>5. BottomOf(applied, backup, tree, f) =
          IF H # {}
          THEN Restored(backup[applied[CHOOSE j \in H : \A k \in H : j <= k]][f])
          ELSE IF L # {} THEN Restored(backup[CHOOSE p \in L : TRUE][f]) ELSE tree[f]
    BY DEF BottomOf
  <2> HIDE DEF H, L
  <2> QED
    BY <2>3, <2>4, <2>5
<1>2. Bottom(f)' = BottomOf(applied', backup', tree', f)
  <2> DEFINE H == Holding(applied', backup', f)
             L == Loose(applied', backup', f)
  <2>1. Stack!Holders(1, f)' = H
    BY DEF Holding, Stack!Holders, Stack!Listed, Stack!Tracks
  <2>2. {p \in Unrecorded(Disk)' : Stack!Tracks(p, f)'} = L
    BY DEF Loose, Unrecorded, Disk, Stack!Tracks, Stack!NoBackups
  <2>3. Bottom(f)' = IF H # {} \/ L = {} THEN Stack!Underneath(1, f)'
                     ELSE Restored(backup'[CHOOSE p \in L : TRUE][f])
    <3> DEFINE M == {p \in Unrecorded(Disk)' : Stack!Tracks(p, f)'}
    <3>1. Bottom(f)' = IF Stack!Holders(1, f)' # {} \/ M = {} THEN Stack!Underneath(1, f)'
                       ELSE Restored(backup'[CHOOSE p \in M : TRUE][f])
      BY DEF Bottom
    <3>2. M = L
      BY <2>2
    <3> HIDE DEF H, L, M
    <3> QED
      BY <2>1, <3>1, <3>2
  <2>4. Stack!Underneath(1, f)' =
          IF H = {} THEN tree'[f]
          ELSE Restored(backup'[applied'[CHOOSE j \in H : \A k \in H : j <= k]][f])
    <3> DEFINE J == Stack!Holders(1, f)'
    <3>1. Stack!Underneath(1, f)' =
            IF J = {} THEN tree'[f]
            ELSE Restored(backup'[applied'[CHOOSE j \in J : \A k \in J : j <= k]][f])
      BY DEF Stack!Underneath, Stack!Restored, Restored
    <3>2. J = H
      BY <2>1
    <3> HIDE DEF H, J
    <3> QED
      BY <3>1, <3>2
  <2>5. BottomOf(applied', backup', tree', f) =
          IF H # {}
          THEN Restored(backup'[applied'[CHOOSE j \in H : \A k \in H : j <= k]][f])
          ELSE IF L # {} THEN Restored(backup'[CHOOSE p \in L : TRUE][f]) ELSE tree'[f]
    BY DEF BottomOf
  <2> HIDE DEF H, L
  <2> QED
    BY <2>3, <2>4, <2>5
<1> QED
  BY <1>1, <1>2

\* The first applied patch that has a copy decides.
LEMMA BottomOfFirst ==
  ASSUME NEW a \in Seq(Patches), NEW b, NEW t, NEW f, NEW j, First(a, b, f, j)
  PROVE  BottomOf(a, b, t, f) = Restored(b[a[j]][f])
<1> DEFINE H == Holding(a, b, f)
<1>1. H \subseteq Nat
  BY LenProperties DEF Holding
<1>2. j \in H /\ \A k \in H : j <= k
  BY DEF First
<1>3. \A x \in H : (\A k \in H : x <= k) => x = j
  BY <1>1, <1>2
<1> HIDE DEF H
<1>4. (CHOOSE x \in H : \A k \in H : x <= k) = j
  BY <1>1, <1>2, <1>3
<1>5. H # {}
  BY <1>2
<1> QED
  BY <1>4, <1>5 DEF BottomOf, H

\* If one has a copy, a first one has.
LEMMA FirstHolder ==
  ASSUME NEW a \in Seq(Patches), NEW b, NEW f, NEW x \in Holding(a, b, f)
  PROVE  \E j : First(a, b, f, j) /\ j <= x
<1> DEFINE H == Holding(a, b, f)
<1>1. H \subseteq Nat /\ x \in H
  BY LenProperties DEF Holding
<1>2. PICK j \in H : \A k \in H : j <= k
  <2> HIDE DEF H
  <2> QED
    BY <1>1, Now!LeastOf, SameValues, AbsentIsNoValue, InputsAreLegal
<1> QED
  BY <1>1, <1>2 DEF First

\* What happens above an applied patch that has a copy does not matter.
LEMMA BottomBelow ==
  ASSUME NEW a \in Seq(Patches), NEW b, NEW t, NEW a2 \in Seq(Patches), NEW b2, NEW t2,
         NEW f, NEW x \in Holding(a, b, f), x <= Len(a2),
         \A j \in 1 .. x : b2[a2[j]][f] = b[a[j]][f]
  PROVE  BottomOf(a2, b2, t2, f) = BottomOf(a, b, t, f)
<1>1. PICK j : First(a, b, f, j) /\ j <= x
  BY FirstHolder
<1>2. /\ Len(a) \in Nat /\ Len(a2) \in Nat /\ x \in 1 .. Len(a) /\ j \in 1 .. Len(a)
      /\ b[a[j]][f] # Absent /\ \A k \in Holding(a, b, f) : j <= k
  BY <1>1, LenProperties DEF First, Holding
<1>3. b2[a2[j]][f] = b[a[j]][f] /\ j \in 1 .. Len(a2)
  BY <1>1, <1>2
<1>4. ASSUME NEW k \in Holding(a2, b2, f), ~(j <= k)
      PROVE  FALSE
  <2>1. k \in 1 .. Len(a2) /\ b2[a2[k]][f] # Absent
    BY <1>4 DEF Holding
  <2>2. k \in 1 .. x /\ k \in 1 .. Len(a)
    BY <1>1, <1>2, <1>4, <2>1
  <2>3. b[a[k]][f] # Absent
    BY <2>1, <2>2
  <2>4. k \in Holding(a, b, f)
    BY <2>2, <2>3 DEF Holding
  <2> QED
    BY <1>2, <1>4, <2>4
<1>5. j \in Holding(a2, b2, f)
  BY <1>2, <1>3 DEF Holding
<1>6. First(a2, b2, f, j)
  BY <1>4, <1>5 DEF First
<1> QED
  BY <1>1, <1>3, <1>6, BottomOfFirst

\* When no applied patch has a copy, the one other patch that has decides.
LEMMA BottomOfLoose ==
  ASSUME NEW a, NEW b, NEW t, NEW f,
         \A k \in 1 .. Len(a) : b[a[k]][f] = Absent,
         NEW p \in Patches, ~Stack!IsIn(a, p), b[p][f] # Absent,
         \A q \in Patches : ~Stack!IsIn(a, q) /\ b[q][f] # Absent => q = p
  PROVE  BottomOf(a, b, t, f) = Restored(b[p][f])
<1> DEFINE L == Loose(a, b, f)
<1>1. Holding(a, b, f) = {}
  BY DEF Holding
<1>2. L = {p}
  BY DEF Loose
<1> HIDE DEF L
<1>3. (CHOOSE q \in L : TRUE) = p
  BY <1>2
<1> QED
  BY <1>1, <1>2, <1>3 DEF BottomOf, L

\* When nobody has a copy, it is the file itself.
LEMMA BottomOfNone ==
  ASSUME NEW a, NEW b, NEW t, NEW f,
         \A k \in 1 .. Len(a) : b[a[k]][f] = Absent,
         \A q \in Patches : ~Stack!IsIn(a, q) => b[q][f] = Absent
  PROVE  BottomOf(a, b, t, f) = t[f]
BY DEF BottomOf, Holding, Loose

\* The tree does not matter while anybody has a copy.
LEMMA BottomSame ==
  ASSUME NEW a \in Seq(Patches), NEW b, NEW t, NEW b2, NEW t2, NEW f,
         \A q \in Patches : b2[q][f] = b[q][f],
         t2[f] = t[f] \/ \E q \in Patches : b[q][f] # Absent
  PROVE  BottomOf(a, b2, t2, f) = BottomOf(a, b, t, f)
<1>1. \A k \in 1 .. Len(a) : a[k] \in Patches /\ b2[a[k]][f] = b[a[k]][f]
  BY LenProperties, ElementOfSeq
<1>2. CASE Holding(a, b, f) # {}
  <2>1. PICK x \in Holding(a, b, f) : TRUE
    BY <1>2
  <2>2. x <= Len(a) /\ \A j \in 1 .. x : b2[a[j]][f] = b[a[j]][f]
    BY <1>1, LenProperties DEF Holding
  <2> QED
    BY <2>1, <2>2, BottomBelow
<1>3. CASE Holding(a, b, f) = {}
  <2> DEFINE L == Loose(a, b, f)
  <2>1. Holding(a, b2, f) = {} /\ Loose(a, b2, f) = L
    BY <1>1, <1>3 DEF Holding, Loose
  <2>2. L \subseteq Patches
    BY DEF Loose
  <2>3. ASSUME L = {}
        PROVE  t2[f] = t[f]
    <3>1. \A q \in Patches : b[q][f] = Absent
      <4> TAKE q \in Patches
      <4>1. CASE Stack!IsIn(a, q)
        <5>1. PICK k \in DOMAIN a : a[k] = q
          BY <4>1 DEF Stack!IsIn
        <5>2. k \in 1 .. Len(a)
          BY LenProperties
        <5> QED
          BY <1>3, <5>1, <5>2 DEF Holding
      <4>2. CASE ~Stack!IsIn(a, q)
        BY <2>3, <4>2 DEF Loose
      <4> QED
        BY <4>1, <4>2
    <3> QED
      BY <3>1
  <2> HIDE DEF L
  <2>4. CASE L = {}
    BY <1>3, <2>1, <2>3, <2>4 DEF BottomOf, L
  <2>5. CASE L # {}
    <3> DEFINE p == CHOOSE q \in L : TRUE
    <3>1. p \in L
      BY <2>5
    <3>2. p \in Patches /\ b2[p][f] = b[p][f]
      BY <2>2, <3>1
    <3>3. BottomOf(a, b, t, f) = Restored(b[p][f])
      BY <1>3, <2>5 DEF BottomOf, L
    <3>4. BottomOf(a, b2, t2, f) = Restored(b2[p][f])
      BY <2>1, <2>5 DEF BottomOf
    <3> QED
      BY <3>2, <3>3, <3>4
  <2> QED
    BY <2>4, <2>5
<1> QED
  BY <1>2, <1>3

\* What the running command has saved of f, call by call.
OwnCopies(f) ==
  /\ step = "save" /\ f \in todo => f \in Affected(patchFile[cmd.patch])
  /\ step = "save" =>
       (Stack!Tracks(cmd.patch, f) <=> f \in Affected(patchFile[cmd.patch]) \ todo)
  /\ step = "patch" => (Stack!Tracks(cmd.patch, f) <=> f \in Affected(patchFile[cmd.patch]))
  /\ step = "restore" /\ Stack!Listed(cmd.patch, f) /\ f \notin todo =>
       tree[f] = Restored(backup[cmd.patch][f])
  /\ step = "clear" /\ Stack!Tracks(cmd.patch, f) => f \in todo
  /\ step = "clear" /\ Stack!Listed(cmd.patch, f) => tree[f] = Restored(backup[cmd.patch][f])
  /\ step = "applied" /\ cmd.op \in {"pop", "delete"} => ~Stack!Tracks(cmd.patch, f)

\* Nobody but the patch being pushed has a copy without being applied.
OnlyOwn == \A p \in Unrecorded(Disk) : cmd.op = "push" /\ p = cmd.patch

\* The commands that BottomKeptByEveryCall speaks of.
Orderly ==
  /\ faults = 0
  /\ Unrecorded(settled) = {}
  /\ cmd.op \notin {"rename", "fork"}
  /\ step # "torn"

BInv == LInv /\ (Orderly => OnlyOwn /\ \A f \in Files : OwnCopies(f))

\* The applied patches of an orderly command, and its own.
LEMMA RunFacts ==
  ASSUME TInv, Lists, cmd.op \notin {"rename", "fork"}, step # "torn"
  PROVE  /\ Prefix(applied, series)
         /\ applied \in Seq(Patches) /\ Len(applied) \in Nat
         /\ \A i \in 1 .. Len(applied) : applied[i] \in Patches
         /\ \A i, j \in 1 .. Len(applied) : applied[i] = applied[j] => i = j
         /\ \A q : Stack!IsIn(applied, q) <=> \E i \in 1 .. Len(applied) : applied[i] = q
         /\ (cmd.op = "push" /\ step # "mark") \/ (cmd.op = "new" /\ step = "applied") =>
              cmd.patch \in Patches /\ ~Stack!IsIn(applied, cmd.patch)
         /\ cmd.op \in {"pop", "delete"} /\ step \in {"restore", "clear", "applied"} =>
              /\ Len(applied) > 0 /\ applied # <<>>
              /\ cmd.patch = applied[Len(applied)] /\ cmd.patch \in Patches
<1>1. Prefix(applied, series)
  BY ListsFacts
<1>2. /\ applied \in Seq(Patches) /\ Len(applied) \in Nat
      /\ DOMAIN applied = 1 .. Len(applied)
      /\ series \in Seq(Patches) /\ Len(series) \in Nat /\ Len(applied) <= Len(series)
      /\ \A i \in 1 .. Len(applied) : applied[i] \in Patches
  BY <1>1, LenProperties, ElementOfSeq DEF Prefix
<1>3. ASSUME NEW i \in 1 .. Len(applied), NEW j \in 1 .. Len(applied), applied[i] = applied[j]
      PROVE  i = j
  <2>1. i \in DOMAIN series /\ j \in DOMAIN series
    BY <1>2, LenProperties
  <2>2. series[i] = series[j]
    BY <1>1, <1>3 DEF Prefix
  <2> QED
    BY <1>1, <2>1, <2>2 DEF Prefix
<1>4. \A q : Stack!IsIn(applied, q) <=> \E i \in 1 .. Len(applied) : applied[i] = q
  BY <1>2 DEF Stack!IsIn
<1>5. ASSUME (cmd.op = "push" /\ step # "mark") \/ (cmd.op = "new" /\ step = "applied")
      PROVE  cmd.patch \in Patches /\ ~Stack!IsIn(applied, cmd.patch)
  <2>1. IsNext
    <3>1. /\ cmd.op = "push" /\ step # "mark" => IsNext
          /\ cmd.op = "new" /\ step = "applied" => IsNext
      BY Zenon DEF Lists
    <3> QED
      BY <1>5, <3>1
  <2> DEFINE k == Len(applied) + 1
  <2>2. k \in 1 .. Len(series) /\ ~(k <= Len(applied)) /\ series[k] = cmd.patch
    BY <1>2, <2>1 DEF IsNext
  <2> HIDE DEF k
  <2>3. Stack!IsIn(applied, series[k]) <=> k <= Len(applied)
    BY <1>1, <2>2, AppliedFirst
  <2>4. series[k] \in Patches
    BY <1>2, <2>2, ElementOfSeq
  <2> QED
    BY <2>2, <2>3, <2>4
<1>6. ASSUME cmd.op \in {"pop", "delete"}, step \in {"restore", "clear", "applied"}
      PROVE  /\ Len(applied) > 0 /\ applied # <<>>
             /\ cmd.patch = applied[Len(applied)] /\ cmd.patch \in Patches
  <2>1. applied # <<>> /\ cmd.patch = Stack!Top
    BY <1>6, DiskFacts DEF TypeOK
  <2>2. Stack!Top = applied[Len(applied)] /\ Stack!Top \in Patches
    BY <1>1, <2>1, TopIsLast, TopIndexType, DiskFacts
  <2>3. Len(applied) > 0
    BY <1>2, <2>1, Shortened
  <2> QED
    BY <2>1, <2>2, <2>3
<1> QED
  BY <1>1, <1>2, <1>3, <1>4, <1>5, <1>6

\* What OnlyOwn says of one file.
LEMMA OwnFacts ==
  ASSUME TInv, OnlyOwn, NEW f \in Files
  PROVE  \A q \in Patches :
           ~Stack!IsIn(applied, q) /\ backup[q][f] # Absent => cmd.op = "push" /\ q = cmd.patch
<1> SUFFICES ASSUME NEW q \in Patches, ~Stack!IsIn(applied, q), backup[q][f] # Absent
             PROVE  cmd.op = "push" /\ q = cmd.patch
  OBVIOUS
<1>1. backup[q] # Stack!NoBackups
  BY DEF Stack!NoBackups
<1>2. q \in Unrecorded(Disk)
  BY <1>1 DEF Unrecorded, Disk
<1> QED
  BY <1>2 DEF OnlyOwn

(***************************************************************************)
(* A copy is never missing, and reads back as the file when the file is    *)
(* not an empty one.                                                       *)
(***************************************************************************)
LEMMA SavedFacts ==
  ASSUME NEW c \in FileState
  PROVE  /\ Saved(c) # Absent /\ Saved(c) \in Content
         /\ c # {} => Restored(Saved(c)) = c
<1>1. Saved(c) \in Content
  BY DEF Saved, Text, FileState, Content
<1>2. Saved(c) # Absent
  BY <1>1, AbsentIsNoValue
<1>3. c # {} => Restored(Saved(c)) = c
  BY DEF Saved, Text, Restored
<1> QED
  BY <1>1, <1>2, <1>3

\* A file of the tree changes only while there is a copy of it.
LEMMA TreeKeeps ==
  ASSUME TInv, NEW f \in Files \ Hidden, applied' = applied, backup' = backup,
         tree'[f] = tree[f] \/ \E q \in Patches : backup[q][f] # Absent
  PROVE  Bottom(f)' = Bottom(f)
<1>1. applied \in Seq(Patches)
  BY DiskFacts
<1>2. BottomOf(applied, backup, tree', f) = BottomOf(applied, backup, tree, f)
  BY <1>1, BottomSame
<1> QED
  BY <1>2, BottomIs

\* A copy is made of the file itself when nobody has another.
LEMMA SaveKeeps ==
  ASSUME TInv, Lists, OnlyOwn, NEW g \in todo, NEW ok \in BOOLEAN, Save(g, ok),
         NEW f \in Files \ Hidden, OwnCopies(f)
  PROVE  Bottom(f)' = Bottom(f) \/ Bottom(f) = {}
<1> DEFINE p == cmd.patch
<1>1. /\ step = "save" /\ cmd.op = "push" /\ p \in Patches
      /\ applied' = applied /\ tree' = tree
      /\ backup' = IF ok THEN [backup EXCEPT ![p][g] = Saved(tree[g])] ELSE backup
      /\ backup \in [Patches -> [Files -> {Absent} \cup Content]]
      /\ tree[f] \in FileState
  BY StepFacts, DiskFacts DEF Save
<1>2. /\ applied \in Seq(Patches) /\ Len(applied) \in Nat
      /\ \A i \in 1 .. Len(applied) : applied[i] \in Patches /\ applied[i] # p
      /\ ~Stack!IsIn(applied, p)
  <2>1. cmd.op \notin {"rename", "fork"} /\ step \notin {"torn", "mark"}
    BY <1>1
  <2> HIDE DEF p
  <2>2. /\ applied \in Seq(Patches) /\ Len(applied) \in Nat
        /\ \A i \in 1 .. Len(applied) : applied[i] \in Patches
        /\ \A q : Stack!IsIn(applied, q) <=> \E i \in 1 .. Len(applied) : applied[i] = q
    BY <2>1, RunFacts
  <2>3. ~Stack!IsIn(applied, p)
    BY <1>1, <2>1, RunFacts DEF p
  <2> QED
    BY <2>2, <2>3
<1>3. \A q \in Patches : q # p \/ f # g \/ ~ok => backup'[q][f] = backup[q][f]
  BY <1>1
<1>4. CASE f # g \/ ~ok
  <2>1. BottomOf(applied, backup', tree, f) = BottomOf(applied, backup, tree, f)
    BY <1>2, <1>3, <1>4, BottomSame
  <2> QED
    BY <1>1, <2>1, BottomIs
<1>5. CASE f = g /\ ok
  <2>1. backup'[p][f] = Saved(tree[f]) /\ backup[p][f] = Absent
    BY <1>1, <1>5 DEF OwnCopies, Stack!Tracks
  <2>2. CASE Holding(applied, backup, f) # {}
    <3>1. PICK x \in Holding(applied, backup, f) : TRUE
      BY <2>2
    <3>2. x <= Len(applied) /\ \A j \in 1 .. x : backup'[applied[j]][f] = backup[applied[j]][f]
      BY <1>2, <1>3 DEF Holding
    <3>3. BottomOf(applied, backup', tree, f) = BottomOf(applied, backup, tree, f)
      BY <1>2, <3>1, <3>2, BottomBelow
    <3> QED
      BY <1>1, <3>3, BottomIs
  <2>3. CASE Holding(applied, backup, f) = {} /\ tree[f] # {}
    <3>1. /\ \A k \in 1 .. Len(applied) : backup[applied[k]][f] = Absent
          /\ \A q \in Patches : ~Stack!IsIn(applied, q) => backup[q][f] = Absent
      BY <2>1, <2>3, OwnFacts DEF Holding
    <3>2. BottomOf(applied, backup, tree, f) = tree[f]
      BY <3>1, BottomOfNone
    <3>3. /\ \A k \in 1 .. Len(applied) : backup'[applied[k]][f] = Absent
          /\ \A q \in Patches : ~Stack!IsIn(applied, q) /\ backup'[q][f] # Absent => q = p
          /\ backup'[p][f] # Absent /\ Restored(backup'[p][f]) = tree[f]
      BY <1>1, <1>2, <1>3, <2>1, <2>3, <3>1, SavedFacts
    <3>4. BottomOf(applied, backup', tree, f) = Restored(backup'[p][f])
      <4>1. p \in Patches /\ ~Stack!IsIn(applied, p)
        BY <1>1, <1>2
      <4> HIDE DEF p
      <4> QED
        BY <3>3, <4>1, BottomOfLoose
    <3> QED
      BY <1>1, <3>2, <3>3, <3>4, BottomIs
  <2>4. CASE Holding(applied, backup, f) = {} /\ tree[f] = {}
    <3>1. /\ \A k \in 1 .. Len(applied) : backup[applied[k]][f] = Absent
          /\ \A q \in Patches : ~Stack!IsIn(applied, q) => backup[q][f] = Absent
      BY <2>1, <2>4, OwnFacts DEF Holding
    <3>2. BottomOf(applied, backup, tree, f) = tree[f]
      BY <3>1, BottomOfNone
    <3> QED
      BY <2>4, <3>2, BottomIs
  <2> QED
    BY <2>2, <2>3, <2>4
<1> QED
  BY <1>4, <1>5

\* A copy is removed where the file has been restored from it.
LEMMA ClearKeeps ==
  ASSUME TInv, Lists, OnlyOwn, NEW g \in todo, NEW ok \in BOOLEAN, Clear(g, ok),
         NEW f \in Files \ Hidden, OwnCopies(f)
  PROVE  Bottom(f)' = Bottom(f)
<1> DEFINE p == cmd.patch
<1>1. /\ step = "clear" /\ cmd.op \in {"push", "pop", "delete"} /\ p \in Patches
      /\ applied' = applied /\ tree' = tree
      /\ backup' = IF ok THEN [backup EXCEPT ![p][g] = Absent] ELSE backup
      /\ backup \in [Patches -> [Files -> {Absent} \cup Content]]
  BY StepFacts, DiskFacts DEF Clear
<1>2. /\ applied \in Seq(Patches) /\ Len(applied) \in Nat
      /\ \A i \in 1 .. Len(applied) : applied[i] \in Patches
      /\ \A i, j \in 1 .. Len(applied) : applied[i] = applied[j] => i = j
      /\ cmd.op = "push" => ~Stack!IsIn(applied, p)
      /\ cmd.op # "push" => Len(applied) > 0 /\ p = applied[Len(applied)]
  <2>1. cmd.op \notin {"rename", "fork"} /\ step \notin {"torn", "mark"}
    BY <1>1
  <2>2. /\ applied \in Seq(Patches) /\ Len(applied) \in Nat
        /\ \A i \in 1 .. Len(applied) : applied[i] \in Patches
        /\ \A i, j \in 1 .. Len(applied) : applied[i] = applied[j] => i = j
    BY <2>1, RunFacts
  <2>3. cmd.op = "push" => ~Stack!IsIn(applied, p)
    BY <1>1, <2>1, RunFacts
  <2>4. cmd.op # "push" => Len(applied) > 0 /\ p = applied[Len(applied)]
    BY <1>1, <2>1, RunFacts
  <2> QED
    BY <2>2, <2>3, <2>4
<1>3. \A q \in Patches : q # p \/ f # g \/ ~ok => backup'[q][f] = backup[q][f]
  BY <1>1
<1>4. CASE f # g \/ ~ok \/ backup[p][f] = Absent
  <2>1. \A q \in Patches : backup'[q][f] = backup[q][f]
    BY <1>1, <1>3, <1>4
  <2>2. BottomOf(applied, backup', tree, f) = BottomOf(applied, backup, tree, f)
    BY <1>2, <2>1, BottomSame
  <2> QED
    BY <1>1, <2>2, BottomIs
<1>5. CASE f = g /\ ok /\ backup[p][f] # Absent
  <2>1. backup'[p][f] = Absent /\ tree[f] = Restored(backup[p][f])
    BY <1>1, <1>5 DEF OwnCopies, Stack!Listed, Stack!Tracks
  <2>2. CASE \E x \in Holding(applied, backup, f) : applied[x] # p
    <3>1. PICK x \in Holding(applied, backup, f) : applied[x] # p
      BY <2>2
    <3>2. x \in 1 .. Len(applied)
      BY DEF Holding
    <3>3. \A j \in 1 .. x : applied[j] \in Patches /\ applied[j] # p
      <4>1. CASE cmd.op = "push"
        <5>1. ~Stack!IsIn(applied, p) /\ DOMAIN applied = 1 .. Len(applied)
          BY <1>2, <4>1, LenProperties
        <5> QED
          BY <1>2, <3>2, <5>1 DEF Stack!IsIn
      <4>2. CASE cmd.op # "push"
        <5>1. x < Len(applied)
          BY <1>2, <3>1, <3>2, <4>2
        <5>2. Len(applied) \in 1 .. Len(applied)
          BY <1>2, <4>2
        <5>3. \A j \in 1 .. x : j \in 1 .. Len(applied) /\ j # Len(applied)
          BY <1>2, <3>2, <5>1
        <5> QED
          BY <1>2, <4>2, <5>2, <5>3
      <4> QED
        BY <4>1, <4>2
    <3>4. x <= Len(applied) /\ \A j \in 1 .. x : backup'[applied[j]][f] = backup[applied[j]][f]
      BY <1>2, <1>3, <3>2, <3>3
    <3>5. BottomOf(applied, backup', tree, f) = BottomOf(applied, backup, tree, f)
      BY <1>2, <3>1, <3>4, BottomBelow
    <3> QED
      BY <1>1, <3>5, BottomIs
  <2>3. CASE \A x \in Holding(applied, backup, f) : applied[x] = p
    <3>1. \A k \in 1 .. Len(applied) : applied[k] # p => backup[applied[k]][f] = Absent
      BY <2>3 DEF Holding
    <3>2. \A q \in Patches : ~Stack!IsIn(applied, q) /\ backup[q][f] # Absent => q = p
      BY OwnFacts
    <3>3. \A k \in 1 .. Len(applied) : backup'[applied[k]][f] = Absent
      BY <1>2, <1>3, <2>1, <3>1
    <3>4. \A q \in Patches : ~Stack!IsIn(applied, q) => backup'[q][f] = Absent
      BY <1>3, <2>1, <3>2
    <3>5. BottomOf(applied, backup', tree, f) = tree[f]
      BY <3>3, <3>4, BottomOfNone
    <3>6. BottomOf(applied, backup, tree, f) = Restored(backup[p][f])
      <4>1. CASE cmd.op = "push"
        <5>1. ~Stack!IsIn(applied, p) /\ DOMAIN applied = 1 .. Len(applied)
          BY <1>2, <4>1, LenProperties
        <5>2. \A k \in 1 .. Len(applied) : backup[applied[k]][f] = Absent
          BY <3>1, <5>1 DEF Stack!IsIn
        <5> HIDE DEF p
        <5> QED
          BY <1>1, <1>5, <3>2, <5>1, <5>2, BottomOfLoose
      <4>2. CASE cmd.op # "push"
        <5>1. Len(applied) \in Holding(applied, backup, f)
          BY <1>2, <1>5, <4>2 DEF Holding
        <5>2. \A k \in Holding(applied, backup, f) : Len(applied) <= k
          <6> TAKE k \in Holding(applied, backup, f)
          <6>1. k \in 1 .. Len(applied) /\ applied[k] = p
            BY <2>3 DEF Holding
          <6>2. Len(applied) \in 1 .. Len(applied)
            BY <1>2, <4>2
          <6>3. k = Len(applied)
            BY <1>2, <4>2, <6>1, <6>2
          <6> QED
            BY <1>2, <6>3
        <5>3. First(applied, backup, f, Len(applied))
          BY <5>1, <5>2 DEF First
        <5>4. BottomOf(applied, backup, tree, f) = Restored(backup[applied[Len(applied)]][f])
          BY <1>2, <5>3, BottomOfFirst
        <5> QED
          BY <1>2, <4>2, <5>4
      <4> QED
        BY <4>1, <4>2
    <3> QED
      BY <1>1, <2>1, <3>5, <3>6, BottomIs
  <2> QED
    BY <2>2, <2>3
<1> QED
  BY <1>4, <1>5

(***************************************************************************)
(* A patch is recorded with the copies it has already, and taken off the   *)
(* list when it has none.                                                  *)
(***************************************************************************)
LEMMA RecordKeeps ==
  ASSUME TInv, Lists, OnlyOwn, NEW ok \in BOOLEAN, WriteApplied(ok),
         cmd.op \notin {"rename", "fork"}, NEW f \in Files \ Hidden, OwnCopies(f)
  PROVE  Bottom(f)' = Bottom(f)
<1> DEFINE p == cmd.patch
           n == Len(applied)
<1>1. /\ step = "applied" /\ backup' = backup /\ tree' = tree
      /\ applied' = IF ok THEN NewApplied ELSE applied
      /\ cmd.op \in {"push", "new", "pop", "delete"} /\ p \in Patches
  BY StepFacts DEF WriteApplied
<1>2. /\ applied \in Seq(Patches) /\ n \in Nat
      /\ \A i \in 1 .. n : applied[i] \in Patches
      /\ \A i, j \in 1 .. n : applied[i] = applied[j] => i = j
      /\ \A q : Stack!IsIn(applied, q) <=> \E i \in 1 .. n : applied[i] = q
  BY <1>1, RunFacts
<1>3. \A q \in Patches : ~Stack!IsIn(applied, q) /\ backup[q][f] # Absent =>
        cmd.op = "push" /\ q = p
  BY OwnFacts
<1>4. CASE ~ok
  <2>1. applied' = applied
    BY <1>1, <1>4
  <2> QED
    BY <1>1, <2>1, TreeKeeps
<1>5. CASE ok /\ cmd.op \in {"push", "new"}
  <2> DEFINE a2 == Append(applied, p)
  <2>1. applied' = a2 /\ ~Stack!IsIn(applied, p)
    <3>1. applied' = a2
      BY <1>1, <1>5 DEF NewApplied
    <3>2. ~Stack!IsIn(applied, p)
      BY <1>1, <1>5, RunFacts
    <3> QED
      BY <3>1, <3>2
  <2>2. /\ a2 \in Seq(Patches) /\ Len(a2) = n + 1
        /\ \A j \in 1 .. n : a2[j] = applied[j]
        /\ a2[n + 1] = p
    BY <1>1, <1>2, AppendProperties
  <2>3. \A q \in Patches : ~Stack!IsIn(a2, q) => ~Stack!IsIn(applied, q) /\ q # p
    <3> HIDE DEF p
    <3> QED
      BY <1>1, <1>2, Appended
  <2> HIDE DEF a2
  <2>4. CASE Holding(applied, backup, f) # {}
    <3>1. PICK x \in Holding(applied, backup, f) : TRUE
      BY <2>4
    <3>2. x \in 1 .. n
      BY DEF Holding
    <3>3. x <= Len(a2) /\ \A j \in 1 .. x : backup[a2[j]][f] = backup[applied[j]][f]
      BY <1>2, <2>2, <3>2
    <3>4. BottomOf(a2, backup, tree, f) = BottomOf(applied, backup, tree, f)
      BY <1>2, <2>2, <3>1, <3>3, BottomBelow
    <3> QED
      BY <1>1, <2>1, <3>4, BottomIs
  <2>5. CASE Holding(applied, backup, f) = {}
    <3>1. \A k \in 1 .. n : backup[applied[k]][f] = Absent
      BY <2>5 DEF Holding
    <3>2. CASE backup[p][f] # Absent
      <4>1. BottomOf(applied, backup, tree, f) = Restored(backup[p][f])
        <5>1. p \in Patches /\ ~Stack!IsIn(applied, p)
          BY <1>1, <2>1
        <5>2. \A q \in Patches : ~Stack!IsIn(applied, q) /\ backup[q][f] # Absent => q = p
          BY <1>3
        <5> HIDE DEF p
        <5> QED
          BY <3>1, <3>2, <5>1, <5>2, BottomOfLoose
      <4>2. n + 1 \in Holding(a2, backup, f)
        BY <1>2, <2>2, <3>2 DEF Holding
      <4>3. \A k \in Holding(a2, backup, f) : n + 1 <= k
        <5> TAKE k \in Holding(a2, backup, f)
        <5>1. k \in 1 .. n + 1 /\ backup[a2[k]][f] # Absent
          BY <2>2 DEF Holding
        <5>2. k \notin 1 .. n
          BY <2>2, <3>1, <5>1
        <5> QED
          BY <1>2, <5>1, <5>2
      <4>4. First(a2, backup, f, n + 1)
        BY <4>2, <4>3 DEF First
      <4>5. BottomOf(a2, backup, tree, f) = Restored(backup[p][f])
        <5>1. BottomOf(a2, backup, tree, f) = Restored(backup[a2[n + 1]][f])
          BY <2>2, <4>4, BottomOfFirst
        <5> QED
          BY <2>2, <5>1
      <4> QED
        BY <1>1, <2>1, <4>1, <4>5, BottomIs
    <3>3. CASE backup[p][f] = Absent
      <4>1. \A q \in Patches : ~Stack!IsIn(applied, q) => backup[q][f] = Absent
        BY <1>3, <3>3
      <4>2. BottomOf(applied, backup, tree, f) = tree[f]
        BY <3>1, <4>1, BottomOfNone
      <4>3. \A k \in 1 .. Len(a2) : backup[a2[k]][f] = Absent
        <5> TAKE k \in 1 .. Len(a2)
        <5>1. k \in 1 .. n \/ k = n + 1
          BY <1>2, <2>2
        <5> QED
          BY <2>2, <3>1, <3>3, <5>1
      <4>4. \A q \in Patches : ~Stack!IsIn(a2, q) => backup[q][f] = Absent
        BY <2>3, <4>1
      <4>5. BottomOf(a2, backup, tree, f) = tree[f]
        BY <4>3, <4>4, BottomOfNone
      <4> QED
        BY <1>1, <2>1, <4>2, <4>5, BottomIs
    <3> QED
      BY <3>2, <3>3
  <2> QED
    BY <2>4, <2>5
<1>6. CASE ok /\ cmd.op \in {"pop", "delete"}
  <2> DEFINE a2 == Front(applied)
  <2>1. /\ applied' = a2 /\ applied # <<>> /\ n > 0 /\ p = applied[n]
        /\ backup[p][f] = Absent
    <3>1. applied' = a2
      BY <1>1, <1>6 DEF NewApplied
    <3>2. applied # <<>> /\ n > 0 /\ p = applied[n]
      BY <1>1, <1>6, RunFacts
    <3>3. backup[p][f] = Absent
      BY <1>1, <1>6 DEF OwnCopies, Stack!Tracks
    <3> QED
      BY <3>1, <3>2, <3>3
  <2>2. /\ a2 \in Seq(Patches) /\ Len(a2) = n - 1
        /\ \A j \in 1 .. n - 1 : a2[j] = applied[j]
    BY <1>2, <2>1, Shortened
  <2> HIDE DEF a2
  <2>3. \A q \in Patches : ~Stack!IsIn(a2, q) => ~Stack!IsIn(applied, q) \/ q = p
    <3> SUFFICES ASSUME NEW q \in Patches, Stack!IsIn(applied, q), q # p
                 PROVE  Stack!IsIn(a2, q)
      OBVIOUS
    <3>1. PICK i \in 1 .. n : applied[i] = q
      BY <1>2
    <3>2. i # n /\ i \in 1 .. n - 1
      BY <1>2, <2>1, <3>1
    <3>3. i \in DOMAIN a2 /\ a2[i] = q
      BY <2>2, <3>1, <3>2, LenProperties
    <3> QED
      BY <3>3 DEF Stack!IsIn
  <2>4. CASE Holding(applied, backup, f) # {}
    <3>1. PICK x \in Holding(applied, backup, f) : TRUE
      BY <2>4
    <3>2. x \in 1 .. n - 1
      BY <1>2, <2>1 DEF Holding
    <3>3. x <= Len(a2) /\ \A j \in 1 .. x : backup[a2[j]][f] = backup[applied[j]][f]
      BY <1>2, <2>2, <3>2
    <3>4. BottomOf(a2, backup, tree, f) = BottomOf(applied, backup, tree, f)
      BY <1>2, <2>2, <3>1, <3>3, BottomBelow
    <3> QED
      BY <1>1, <2>1, <3>4, BottomIs
  <2>5. CASE Holding(applied, backup, f) = {}
    <3>1. \A k \in 1 .. n : backup[applied[k]][f] = Absent
      BY <2>5 DEF Holding
    <3>2. \A q \in Patches : ~Stack!IsIn(applied, q) => backup[q][f] = Absent
      BY <1>3, <1>6
    <3>3. BottomOf(applied, backup, tree, f) = tree[f]
      BY <3>1, <3>2, BottomOfNone
    <3>4. \A k \in 1 .. Len(a2) : backup[a2[k]][f] = Absent
      BY <1>2, <2>2, <3>1
    <3>5. \A q \in Patches : ~Stack!IsIn(a2, q) => backup[q][f] = Absent
      BY <2>1, <2>3, <3>2
    <3>6. BottomOf(a2, backup, tree, f) = tree[f]
      BY <3>4, <3>5, BottomOfNone
    <3> QED
      BY <1>1, <2>1, <3>3, <3>6, BottomIs
  <2> QED
    BY <2>4, <2>5
<1> QED
  BY <1>1, <1>4, <1>5, <1>6

-----------------------------------------------------------------------------
(* BInv, call by call.                                                      *)

OwnOK == OnlyOwn /\ \A f \in Files : OwnCopies(f)

\* A command that has ended leaves nothing to be said.
LEMMA OwnSettles ==
  ASSUME step' \in {"idle", "torn"}, settled' = Disk', Orderly'
  PROVE  OwnOK'
BY DEF OwnOK, Orderly, OnlyOwn, OwnCopies

(***************************************************************************)
(* Nobody gets copies without being applied, and nobody who has some is    *)
(* taken off the list.                                                     *)
(***************************************************************************)
LEMMA OwnStays ==
  ASSUME OnlyOwn, cmd'.op = cmd.op, cmd'.patch = cmd.patch,
         \A q \in Patches :
           ~Stack!IsIn(applied', q) /\ backup'[q] # Stack!NoBackups =>
             \/ ~Stack!IsIn(applied, q) /\ backup[q] # Stack!NoBackups
             \/ cmd.op = "push" /\ q = cmd.patch
  PROVE  OnlyOwn'
BY DEF OnlyOwn, Unrecorded, Disk, Stack!NoBackups

\* A command begins without copies of its own, or with those of the top.
LEMMA OwnStart ==
  ASSUME TInv, Lists, Start, Orderly'
  PROVE  OwnOK'
<1>1. step = "idle" /\ UNCHANGED <<disk, settled>>
  BY DEF Start, StartPush, StartPop, StartNew, StartDelete, StartRename, StartFork, Move,
         StartImport, Begin
<1>2. /\ settled = Disk /\ Disk' = Disk /\ backup' = backup /\ applied' = applied
      /\ patchFile' = patchFile /\ tree' = tree
  BY <1>1 DEF TInv, TypeOK, disk, Disk
<1>3. Unrecorded(Disk) = {} /\ Unrecorded(Disk') = {}
  BY <1>1, <1>2 DEF Orderly
<1>4. OnlyOwn'
  BY <1>3 DEF OnlyOwn
<1>5. \A q \in Patches, f \in Files : ~Stack!IsIn(applied, q) => ~Stack!Tracks(q, f)
  <2> SUFFICES ASSUME NEW q \in Patches, NEW f \in Files, ~Stack!IsIn(applied, q)
               PROVE  ~Stack!Tracks(q, f)
    OBVIOUS
  <2>1. backup[q] = Stack!NoBackups
    BY <1>3 DEF Unrecorded, Disk
  <2> QED
    BY <2>1 DEF Stack!NoBackups, Stack!Tracks
<1>6. CASE \E force \in BOOLEAN : StartPush(force)
  <2> DEFINE p == Stack!NextPatch
  <2>1. /\ cmd'.patch = p /\ step' = "save" /\ todo' = Affected(patchFile[p])
        /\ Stack!CanPush
    BY <1>6 DEF StartPush, Begin
  <2>2. p \in Patches /\ ~Stack!IsIn(applied, p)
    <3> DEFINE k == Len(applied) + 1
    <3>1. Prefix(applied, series)
      <4>1. cmd.op \notin {"rename", "fork"}
        BY <1>1 DEF TInv, TypeOK, Idle
      <4> QED
        BY <1>1, <4>1, ListsFacts
    <3>2. p = series[k] /\ k \in 1 .. Len(series) /\ ~(k <= Len(applied))
      BY <2>1, <3>1, TopIsLast DEF Stack!NextPatch, Stack!CanPush
    <3> HIDE DEF k, p
    <3>3. Stack!IsIn(applied, series[k]) <=> k <= Len(applied)
      BY <3>1, <3>2, AppliedFirst
    <3>4. series[k] \in Patches
      BY <3>1, <3>2, ElementOfSeq DEF Prefix
    <3> QED
      BY <3>2, <3>3, <3>4
  <2> HIDE DEF p
  <2>3. \A f \in Files : backup'[p][f] = Absent
    BY <1>2, <1>5, <2>2 DEF Stack!Tracks
  <2>4. \A f \in Files : OwnCopies(f)'
    BY <1>2, <2>1, <2>3 DEF OwnCopies, Stack!Listed, Stack!Tracks
  <2> QED
    BY <1>4, <2>4 DEF OwnOK
<1>7. CASE \/ \E force \in BOOLEAN : StartPop(force)
           \/ \E p \in Patches, rm \in BOOLEAN : StartDelete(p, rm)
  <2>1. \/ step' = "series"
        \/ step' = "restore" /\ todo' = FilesIn(cmd'.patch)
    <3>1. ASSUME NEW force \in BOOLEAN, StartPop(force)
          PROVE  step' = "restore" /\ todo' = FilesIn(cmd'.patch)
      <4>1. cmd' = [op |-> "pop", patch |-> Stack!Top]
        BY <3>1 DEF StartPop, Begin
      <4>2. step' = "restore" /\ todo' = FilesIn(Stack!Top)
        BY <3>1 DEF StartPop, Begin
      <4>3. cmd'.patch = Stack!Top
        BY <4>1
      <4> QED
        BY <4>2, <4>3
    <3>2. ASSUME NEW q \in Patches, NEW rm \in BOOLEAN, StartDelete(q, rm)
          PROVE  \/ step' = "series"
                 \/ step' = "restore" /\ todo' = FilesIn(cmd'.patch)
      <4> DEFINE c == [op |-> "delete", patch |-> q, rm |-> rm]
      <4>4. Begin(c, "restore", FilesIn(q)) \/ Begin(c, "series", {})
        BY <3>2 DEF StartDelete
      <4>1. cmd' = c
        BY <4>4 DEF Begin
      <4>2. \/ step' = "series"
            \/ step' = "restore" /\ todo' = FilesIn(q)
        BY <4>4 DEF Begin
      <4>3. cmd'.patch = q
        BY <4>1
      <4> QED
        BY <4>2, <4>3
    <3> QED
      BY <1>7, <3>1, <3>2
  <2>2. \A f \in Files : OwnCopies(f)'
    BY <1>2, <2>1 DEF OwnCopies, FilesIn, Stack!Listed, Stack!Tracks
  <2> QED
    BY <1>4, <2>2 DEF OwnOK
<1>8. CASE \/ \E p \in Patches : StartNew(p) \/ StartFork(p)
           \/ \E old, new \in Patches : StartRename(old, new)
           \/ \E p \in Patches, P \in ImportFrom, force, rev \in BOOLEAN :
                StartImport(p, P, force, rev)
  <2>1. step' \in {"series", "file", "dir"}
    BY <1>8 DEF StartNew, StartFork, StartRename, Move, StartImport, Begin
  <2>2. \A f \in Files : OwnCopies(f)'
    BY <2>1 DEF OwnCopies
  <2> QED
    BY <1>4, <2>2 DEF OwnOK
<1> QED
  BY <1>6, <1>7, <1>8 DEF Start

\* A command that is running knows its patch.
LEMMA RunningPatch ==
  ASSUME TInv, NEW s \in PushSteps \cup PopSteps \cup {"series", "file"}, step = s
  PROVE  cmd.patch \in Patches
<1>1. Shape(cmd, step) /\ step \notin {"idle", "torn"}
  BY DEF TInv, PushSteps, PopSteps
<1>2. cmd.op # "none"
  BY <1>1, ShapeFacts
<1> QED
  BY <1>1, <1>2, ShapeFacts

\* A file is saved, patched or restored, or its copy removed.
LEMMA OwnFileCall ==
  ASSUME TInv, OwnOK, NEW g \in todo,
         Save(g, TRUE) \/ PatchFile(g, TRUE) \/ Restore(g, TRUE) \/ Clear(g, TRUE)
  PROVE  OwnOK'
<1> DEFINE p == cmd.patch
<1>1. /\ step \in {"save", "patch", "restore", "clear"} /\ step' = step
      /\ applied' = applied /\ patchFile' = patchFile /\ todo' = todo \ {g}
      /\ g \in Files /\ p \in Patches
      /\ backup \in [Patches -> [Files -> {Absent} \cup Content]]
      /\ tree \in [Files -> FileState]
  <2>1. /\ step \in {"save", "patch", "restore", "clear"} /\ step' = step
        /\ applied' = applied /\ patchFile' = patchFile /\ todo' = todo \ {g}
    BY DEF Save, PatchFile, Restore, Clear, GoTo
  <2>2. /\ todo \subseteq Files /\ tree \in [Files -> FileState]
        /\ backup \in [Patches -> [Files -> {Absent} \cup Content]]
    BY DiskFacts
  <2>3. p \in Patches
    BY <2>1, RunningPatch DEF PushSteps
  <2> QED
    BY <2>1, <2>2, <2>3
<1>2. CASE Save(g, TRUE)
  <2>1. /\ step = "save" /\ cmd.op = "push" /\ cmd' = cmd
        /\ backup' = [backup EXCEPT ![p][g] = Saved(tree[g])]
    BY <1>2, StepFacts DEF Save, GoTo
  <2>2. OnlyOwn'
    <3>1. \A q \in Patches : q # p => backup'[q] = backup[q]
      BY <1>1, <2>1
    <3> QED
      BY <1>1, <2>1, <3>1, OwnStays DEF OwnOK
  <2>3. ASSUME NEW f \in Files
        PROVE  OwnCopies(f)'
    <3>1. g \in Affected(patchFile[p])
      BY <1>1, <2>1 DEF OwnOK, OwnCopies
    <3>2. Stack!Tracks(p, f)' <=> Stack!Tracks(p, f) \/ f = g
      BY <1>1, <2>1, SavedFacts DEF Stack!Tracks
    <3>3. OwnCopies(f)
      BY DEF OwnOK
    <3> QED
      BY <1>1, <2>1, <3>1, <3>2, <3>3 DEF OwnCopies, Stack!Listed, Stack!Tracks
  <2> QED
    BY <2>2, <2>3 DEF OwnOK
<1>3. CASE PatchFile(g, TRUE)
  <2>1. step = "patch" /\ backup' = backup /\ cmd'.op = cmd.op /\ cmd'.patch = p
    <3>1. step = "patch" /\ cmd \in PushCommand
      BY <1>3, StepFacts, ShapeFacts, DiskFacts DEF PatchFile
    <3> QED
      BY <1>3, <3>1 DEF PatchFile, PushCommand
  <2>2. OnlyOwn'
    BY <1>1, <2>1, OwnStays DEF OwnOK
  <2>3. \A f \in Files : OwnCopies(f)'
    BY <1>1, <2>1 DEF OwnOK, OwnCopies, Stack!Listed, Stack!Tracks
  <2> QED
    BY <2>2, <2>3 DEF OwnOK
<1>4. CASE Restore(g, TRUE)
  <2>1. /\ step = "restore" /\ backup' = backup /\ cmd' = cmd
        /\ tree' = IF Stack!Tracks(p, g) THEN [tree EXCEPT ![g] = Restored(backup[p][g])] ELSE tree
    BY <1>4 DEF Restore, GoTo
  <2>2. OnlyOwn'
    BY <1>1, <2>1, OwnStays DEF OwnOK
  <2>3. ASSUME NEW f \in Files
        PROVE  OwnCopies(f)'
    <3>1. OwnCopies(f)
      BY DEF OwnOK
    <3>2. CASE f = g
      BY <1>1, <2>1, <3>1, <3>2 DEF OwnCopies, Stack!Listed, Stack!Tracks
    <3>3. CASE f # g
      BY <1>1, <2>1, <3>1, <3>3 DEF OwnCopies, Stack!Listed, Stack!Tracks
    <3> QED
      BY <3>2, <3>3
  <2> QED
    BY <2>2, <2>3 DEF OwnOK
<1>5. CASE Clear(g, TRUE)
  <2>1. /\ step = "clear" /\ cmd' = cmd /\ tree' = tree
        /\ backup' = [backup EXCEPT ![p][g] = Absent]
    BY <1>5 DEF Clear, GoTo
  <2>2. OnlyOwn'
    <3>1. \A q \in Patches : backup'[q] # Stack!NoBackups => backup[q] # Stack!NoBackups
      <4> SUFFICES ASSUME NEW q \in Patches, backup[q] = Stack!NoBackups
                   PROVE  backup'[q] = Stack!NoBackups
        OBVIOUS
      <4>1. backup'[q] = IF q = p THEN [backup[q] EXCEPT ![g] = Absent] ELSE backup[q]
        BY <1>1, <2>1
      <4>2. [Stack!NoBackups EXCEPT ![g] = Absent] = Stack!NoBackups
        BY DEF Stack!NoBackups
      <4> QED
        BY <4>1, <4>2
    <3> QED
      BY <1>1, <2>1, <3>1, OwnStays DEF OwnOK
  <2>3. ASSUME NEW f \in Files
        PROVE  OwnCopies(f)'
    <3>1. OwnCopies(f)
      BY DEF OwnOK
    <3>2. CASE f = g
      BY <1>1, <2>1, <3>1, <3>2 DEF OwnCopies, Stack!Listed, Stack!Tracks
    <3>3. CASE f # g
      BY <1>1, <2>1, <3>1, <3>3 DEF OwnCopies, Stack!Listed, Stack!Tracks
    <3> QED
      BY <3>2, <3>3
  <2> QED
    BY <2>2, <2>3 DEF OwnOK
<1> QED
  BY <1>2, <1>3, <1>4, <1>5

\* A loop over files is over.
LEMMA OwnLoopEnd ==
  ASSUME TInv, OwnOK, LoopEnd, Orderly'
  PROVE  OwnOK'
<1>1. todo = {} /\ step \in {"save", "patch", "restore", "clear"} /\ UNCHANGED disk
  BY DEF LoopEnd, SavesEnd, PatchEnds, RestoresEnd, ClearEnds, LoopEnds
<1>2. applied' = applied /\ backup' = backup /\ tree' = tree /\ patchFile' = patchFile
  BY <1>1 DEF disk
<1>3. CASE Return
  BY <1>3, OwnSettles DEF Return
<1>4. CASE \E s, fs : GoTo(s, fs) /\ cmd' = cmd
  <2>1. cmd' = cmd
    BY <1>4
  <2>2. OnlyOwn'
    BY <1>2, <2>1, OwnStays DEF OwnOK
  <2>3. \A f \in Files : OwnCopies(f)
    BY DEF OwnOK
  <2>4. \A f \in Files : OwnCopies(f)'
    <3>1. CASE SavesEnd
      BY <1>1, <1>2, <2>1, <2>3, <3>1 DEF SavesEnd, LoopEnds, GoTo, OwnCopies, Stack!Listed, Stack!Tracks
    <3>2. CASE PatchEnds
      <4>1. /\ step = "patch"
            /\ \/ step' = "restore" /\ todo' = Affected(patchFile[cmd.patch])
               \/ step' = "applied"
        BY <3>2 DEF PatchEnds, LoopEnds, GoTo
      <4>2. cmd.op = "push"
        BY <4>1, StepFacts
      <4> QED
        BY <1>2, <2>1, <2>3, <4>1, <4>2 DEF OwnCopies, Stack!Listed, Stack!Tracks
    <3>3. CASE RestoresEnd
      <4>1. step = "restore" /\ step' = "clear" /\ todo' = Tracked(cmd.patch) /\ todo = {}
        BY <3>3 DEF RestoresEnd, LoopEnds, GoTo
      <4> QED
        BY <1>2, <2>1, <2>3, <4>1 DEF OwnCopies, Tracked, Stack!Listed, Stack!Tracks
    <3>4. CASE ClearEnds /\ GoTo("applied", {})
      <4>1. step = "clear" /\ step' = "applied" /\ todo = {}
        BY <3>4 DEF ClearEnds, LoopEnds, GoTo
      <4> QED
        BY <1>2, <2>1, <2>3, <4>1 DEF OwnCopies, Stack!Listed, Stack!Tracks
    <3>5. CASE ClearEnds /\ Return
      BY <3>5 DEF Return, OwnCopies
    <3> QED
      BY <3>1, <3>2, <3>3, <3>4, <3>5 DEF LoopEnd, ClearEnds, Cleared
  <2> QED
    BY <2>2, <2>4 DEF OwnOK
<1> QED
  BY <1>3, <1>4 DEF LoopEnd, SavesEnd, PatchEnds, RestoresEnd, ClearEnds, Cleared, GoTo

(***************************************************************************)
(* The other calls: of these only the write of applied-patches changes who *)
(* is applied, and takes off a patch without copies.                       *)
(***************************************************************************)
LEMMA OwnOtherCall ==
  ASSUME TInv, Lists, OwnOK, Orderly', step' \notin {"idle", "torn"},
         cmd.op \notin {"rename", "fork"},
         \/ WriteApplied(TRUE) \/ Mark(TRUE) \/ WriteSeries(TRUE) \/ ChangePatchFile(TRUE)
         \/ UndoFile(TRUE) \/ ClearMarker
  PROVE  OwnOK'
<1>1. CASE ClearMarker
  <2>1. UNCHANGED <<cmd, step, todo, applied, patchFile, backup, tree>>
    BY <1>1 DEF ClearMarker, control
  <2>2. OnlyOwn'
    BY <2>1, OwnStays DEF OwnOK
  <2>3. \A f \in Files : OwnCopies(f)'
    BY <2>1 DEF OwnOK, OwnCopies, Stack!Listed, Stack!Tracks
  <2> QED
    BY <2>2, <2>3 DEF OwnOK
<1>2. CASE Mark(TRUE) \/ UndoFile(TRUE)
  BY <1>2 DEF Mark, UndoFile, Return
<1>3. CASE WriteSeries(TRUE)
  <2>1. /\ applied' = applied /\ backup' = backup /\ cmd' = cmd
        /\ \/ step' = "applied" /\ cmd.op = "new"
           \/ step' = "file"
    <3>1. ~Return
      BY DEF Return
    <3>2. applied' = applied /\ backup' = backup
      BY <1>3 DEF WriteSeries
    <3>3. \/ cmd.op = "new" /\ GoTo("applied", {})
          \/ GoTo("file", {})
      BY <1>3, <3>1 DEF WriteSeries
    <3> QED
      BY <3>2, <3>3 DEF GoTo
  <2>2. OnlyOwn'
    BY <2>1, OwnStays DEF OwnOK
  <2>3. \A f \in Files : OwnCopies(f)'
    BY <2>1 DEF OwnCopies
  <2> QED
    BY <2>2, <2>3 DEF OwnOK
<1>4. CASE ChangePatchFile(TRUE)
  <2>1. ~Return /\ step = "file"
    BY <1>4 DEF Return, ChangePatchFile
  <2>2. cmd.op \in {"delete", "import"}
    <3>1. cmd.op \in {"delete", "rename", "fork", "import"}
      BY <2>1, StepFacts
    <3> QED
      BY <3>1
  <2>3. cmd.op = "import"
    BY <1>4, <2>1, <2>2 DEF ChangePatchFile
  <2>4. applied' = applied /\ backup' = backup /\ cmd' = cmd /\ step' = "series"
    BY <1>4, <2>1, <2>3 DEF ChangePatchFile
  <2>5. OnlyOwn'
    BY <2>4, OwnStays DEF OwnOK
  <2>6. \A f \in Files : OwnCopies(f)'
    BY <2>4 DEF OwnCopies
  <2> QED
    BY <2>5, <2>6 DEF OwnOK
<1>5. CASE WriteApplied(TRUE)
  <2>1. ~Return /\ step = "applied"
    BY <1>5 DEF Return, WriteApplied
  <2>2. /\ applied' = NewApplied /\ backup' = backup
        /\ \/ cmd.op = "push" /\ GoTo("mark", {})
           \/ cmd.op = "delete" /\ GoTo("series", {})
    BY <1>5, <2>1 DEF WriteApplied
  <2>3. cmd' = cmd /\ step' \in {"mark", "series"}
    BY <2>2 DEF GoTo
  <2>4. applied \in Seq(Patches) /\ cmd.patch \in Patches
    BY <2>1, RunningPatch, DiskFacts DEF PushSteps
  <2>5. OnlyOwn'
    <3>1. CASE cmd.op = "push"
      <4>1. \A q \in Patches : ~Stack!IsIn(applied', q) => ~Stack!IsIn(applied, q)
        BY <2>2, <2>4, <3>1, Appended DEF NewApplied
      <4> QED
        BY <2>2, <2>3, <4>1, OwnStays DEF OwnOK
    <3>2. CASE cmd.op = "delete"
      <4> DEFINE p == cmd.patch
      <4>1. applied' = Front(applied)
        BY <2>2, <3>2 DEF NewApplied
      <4>2. applied # <<>> /\ p = applied[Len(applied)]
        BY <2>1, <3>2, RunFacts
      <4>3. \A q \in Patches : ~Stack!IsIn(applied', q) => ~Stack!IsIn(applied, q) \/ q = p
        <5> SUFFICES ASSUME NEW q \in Patches, Stack!IsIn(applied, q), q # p
                     PROVE  Stack!IsIn(applied', q)
          OBVIOUS
        <5> DEFINE a2 == Front(applied)
        <5>1. /\ a2 \in Seq(Patches) /\ Len(applied) \in Nat \ {0}
              /\ Len(a2) = Len(applied) - 1
              /\ \A j \in 1 .. Len(applied)-1 : a2[j] = applied[j]
          BY <2>4, <4>2, Shortened
        <5>2. PICK i \in 1 .. Len(applied) : applied[i] = q
          BY <2>4, LenProperties DEF Stack!IsIn
        <5>3. i # Len(applied) /\ i \in 1 .. Len(applied) - 1
          BY <4>2, <5>1, <5>2
        <5> HIDE DEF a2
        <5>4. i \in DOMAIN a2 /\ a2[i] = q
          BY <5>1, <5>2, <5>3, LenProperties
        <5>5. Stack!IsIn(a2, q)
          BY <5>4 DEF Stack!IsIn
        <5> QED
          BY <4>1, <5>5 DEF a2
      <4>4. backup[p] = Stack!NoBackups
        <5>1. \A f \in Files : backup[p][f] = Absent
          BY <2>1, <3>2 DEF OwnOK, OwnCopies, Stack!Listed, Stack!Tracks
        <5>2. backup[p] \in [Files -> {Absent} \cup Content]
          BY <2>4, DiskFacts
        <5> QED
          BY <5>1, <5>2 DEF Stack!NoBackups
      <4> QED
        BY <2>2, <2>3, <4>3, <4>4, OwnStays DEF OwnOK
    <3> QED
      BY <2>2, <3>1, <3>2
  <2>6. \A f \in Files : OwnCopies(f)'
    BY <2>3 DEF OwnCopies
  <2> QED
    BY <2>5, <2>6 DEF OwnOK
<1> QED
  BY <1>1, <1>2, <1>3, <1>4, <1>5

\* A call ends the command or goes on with it.
LEMMA CallGoesOn ==
  ASSUME TInv, NEW ok \in BOOLEAN, Call(ok)
  PROVE  Return \/ (settled' = settled /\ cmd'.op = cmd.op /\ step # "torn")
<1>1. /\ step # "torn"
      /\ \/ Return
         \/ settled' = settled /\ cmd' = cmd
         \/ settled' = settled /\ step = "patch" /\ \E r : cmd' = [cmd EXCEPT !.rejects = r]
         \/ /\ settled' = settled /\ step \in {"file", "dir"} /\ cmd.op # "import"
            /\ cmd.op # "delete"
            /\ cmd' = [cmd EXCEPT !.file = TRUE] \/ cmd' = [cmd EXCEPT !.dir = TRUE]
  <2>1. step = "dir" => cmd.op \in {"rename", "fork"}
    BY StepFacts
  <2>2. CASE \/ \E f \in todo : Save(f, ok) \/ Restore(f, ok) \/ Clear(f, ok)
             \/ WriteApplied(ok) \/ Mark(ok) \/ WriteSeries(ok)
             \/ UndoSeries(ok) \/ UndoDir(ok) \/ UndoFile(ok)
    BY <2>2 DEF Save, Restore, Clear, WriteApplied, Mark, WriteSeries, UndoSeries, UndoDir,
                UndoFile, GoTo
  <2>3. CASE \E f \in todo : PatchFile(f, ok)
    BY <2>3 DEF PatchFile
  <2>4. CASE ChangePatchFile(ok)
    BY <2>4 DEF ChangePatchFile
  <2>5. CASE MoveDir(ok)
    BY <2>1, <2>5 DEF MoveDir, GoTo
  <2> QED
    BY <2>2, <2>3, <2>4, <2>5 DEF Call
<1>2. step = "patch" => cmd \in PushCommand
  BY StepFacts, ShapeFacts, DiskFacts
<1>3. step \in {"file", "dir"} => cmd.op \in {"delete", "rename", "fork", "import"}
  BY StepFacts
<1>4. cmd.op \in {"rename", "fork"} => cmd \in MoveCommand
  BY ShapeFacts, DiskFacts
<1>5. CASE step = "patch" /\ \E r : cmd' = [cmd EXCEPT !.rejects = r]
  BY <1>1, <1>2, <1>5 DEF PushCommand
<1>6. CASE /\ step \in {"file", "dir"} /\ cmd.op # "import" /\ cmd.op # "delete"
           /\ cmd' = [cmd EXCEPT !.file = TRUE] \/ cmd' = [cmd EXCEPT !.dir = TRUE]
  <2>1. cmd \in MoveCommand
    BY <1>3, <1>4, <1>6
  <2> QED
    BY <1>1, <1>6, <2>1 DEF MoveCommand
<1> QED
  BY <1>1, <1>5, <1>6

\* BInv holds at the start and is kept by every step.
LEMMA NextBInv == (Init => BInv) /\ (BInv /\ [Next]_vars => BInv')
<1>1. ASSUME Init PROVE BInv
  <2>1. LInv
    BY <1>1, InitLInv
  <2>2. OnlyOwn
    BY <1>1 DEF Init, OnlyOwn, Unrecorded, Disk
  <2>3. \A f \in Files : OwnCopies(f)
    BY <1>1 DEF Init, OwnCopies
  <2> QED
    BY <2>1, <2>2, <2>3 DEF BInv
<1>2. ASSUME BInv, [Next]_vars
      PROVE  BInv'
  <2> SUFFICES ASSUME Orderly'
               PROVE  OwnOK'
    BY <1>2, NextLInv DEF BInv, OwnOK
  <2>1. TInv /\ faults \in Nat /\ faults' = 0
    BY <1>2, DiskFacts DEF BInv, LInv, Budget, Orderly
  <2>2. faults = 0
    <3>1. Start => faults' = faults
      BY DEF Start, StartPush, StartPop, StartNew, StartFork, StartDelete, StartRename,
         StartImport, Move, Begin
    <3>2. LoopEnd \/ Crash => faults' = faults
      BY DEF LoopEnd, SavesEnd, PatchEnds, RestoresEnd, ClearEnds, LoopEnds, Crash
    <3>3. faults' = faults \/ faults' = faults + 1
      BY <1>2, <3>1, <3>2 DEF Next, Works, Fails, vars
    <3> QED
      BY <2>1, <3>3
  <2>3. Lists /\ (Orderly => OwnOK)
    BY <1>2, <2>1, <2>2 DEF BInv, LInv, OwnOK
  <2>4. ASSUME settled' = settled, cmd'.op = cmd.op, step # "torn"
        PROVE  OwnOK /\ cmd.op \notin {"rename", "fork"}
    <3>1. Orderly
      BY <2>2, <2>4 DEF Orderly
    <3> QED
      BY <2>3, <3>1 DEF Orderly
  <2>5. CASE Start
    BY <2>1, <2>3, <2>5, OwnStart
  <2>6. CASE Works
    <3>1. CASE Return
      BY <3>1, OwnSettles DEF Return
    <3>2. CASE ClearMarker
      <4>1. /\ settled' = settled /\ cmd'.op = cmd.op
            /\ step = "clear" /\ step # "torn" /\ step' \notin {"idle", "torn"}
        BY <3>2 DEF ClearMarker, control
      <4>2. OwnOK /\ cmd.op \notin {"rename", "fork"}
        BY <2>4, <4>1
      <4> QED
        BY <2>1, <2>3, <3>2, <4>1, <4>2, OwnOtherCall
    <3>3. CASE Call(TRUE) /\ ~Return
      <4>1. settled' = settled /\ cmd'.op = cmd.op /\ step # "torn"
        BY <2>1, <3>3, CallGoesOn
      <4>2. OwnOK /\ cmd.op \notin {"rename", "fork"}
        BY <2>4, <4>1
      <4>3. CASE \E f \in todo : \/ Save(f, TRUE) \/ PatchFile(f, TRUE)
                                 \/ Restore(f, TRUE) \/ Clear(f, TRUE)
        BY <2>1, <4>2, <4>3, OwnFileCall
      <4>4. CASE \/ WriteApplied(TRUE) \/ Mark(TRUE) \/ WriteSeries(TRUE)
                 \/ ChangePatchFile(TRUE) \/ UndoFile(TRUE)
        <5>1. step' \notin {"idle", "torn"}
          BY <3>3, <4>4 DEF WriteApplied, Mark, WriteSeries, ChangePatchFile, UndoFile, GoTo
        <5> QED
          BY <2>1, <2>3, <4>2, <4>4, <5>1, OwnOtherCall
      <4>5. CASE MoveDir(TRUE) \/ UndoSeries(TRUE) \/ UndoDir(TRUE)
        <5>1. step \in {"dir", "undo series", "undo dir"}
          BY <4>5 DEF MoveDir, UndoSeries, UndoDir
        <5> QED
          BY <2>1, <4>2, <5>1, StepFacts
      <4> QED
        BY <3>3, <4>3, <4>4, <4>5 DEF Call
    <3> QED
      BY <2>6, <3>1, <3>2, <3>3 DEF Works
  <2>7. CASE Fails
    BY <2>1, <2>2, <2>7 DEF Fails
  <2>8. CASE LoopEnd
    <3>1. CASE Return
      BY <3>1, OwnSettles DEF Return
    <3>2. CASE ~Return
      <4>1. settled' = settled /\ cmd' = cmd /\ step # "torn"
        BY <2>8, <3>2 DEF LoopEnd, SavesEnd, PatchEnds, RestoresEnd, ClearEnds, Cleared, LoopEnds,
                          GoTo
      <4> QED
        BY <2>1, <2>4, <2>8, <4>1, OwnLoopEnd
    <3> QED
      BY <3>1, <3>2
  <2>9. CASE Crash
    <3>1. step' \in {"idle", "torn"} /\ settled' = Disk'
      BY <2>9 DEF Crash, disk, Disk
    <3> QED
      BY <3>1, OwnSettles
  <2>10. CASE UNCHANGED vars
    <3>1. Orderly' = Orderly /\ OwnOK' = OwnOK
      BY <2>10 DEF vars, disk, control, Orderly, OwnOK, OnlyOwn, OwnCopies, Unrecorded, Disk,
                   Stack!Listed, Stack!Tracks, Stack!NoBackups
    <3> QED
      BY <2>3, <3>1
  <2> QED
    BY <1>2, <2>5, <2>6, <2>7, <2>8, <2>9, <2>10 DEF Next
<1> QED
  BY <1>1, <1>2

(***************************************************************************)
(* BottomKeptByEveryCall holds of every step: while no call fails, and but *)
(* for the files that the property leaves out, hidden ones among them, a   *)
(* file without patches is at every moment in the tree, in the oldest      *)
(* backup of an applied patch, or in that of the patch being pushed,       *)
(* wherever the command is cut short, and whatever the order of its files. *)
(***************************************************************************)
THEOREM BottomIsKept == Spec => BottomKeptByEveryCall
<1>1. ASSUME BInv, [Next]_vars, NEW f \in Files \ Hidden, cmd.op \notin {"rename", "fork"},
             ~(faults > 0), Unrecorded(settled) = {},
             ~(step = "patch" /\ f \in Unlisted(patchFile[cmd.patch]))
      PROVE  Bottom(f)' = Bottom(f) \/ Bottom(f) = {}
  <2>1. TInv /\ faults = 0
    <3>1. TInv
      BY <1>1 DEF BInv, LInv
    <3> QED
      BY <1>1, <3>1, DiskFacts DEF Budget
  <2>2. Lists
    BY <1>1, <2>1 DEF BInv, LInv
  <2>3. step # "torn" => OnlyOwn /\ \A g \in Files : OwnCopies(g)
    BY <1>1, <2>1 DEF BInv, Orderly
  <2>4. ASSUME applied' = applied, backup' = backup, tree' = tree
        PROVE  Bottom(f)' = Bottom(f)
    BY <2>1, <2>4, TreeKeeps
  <2>5. ASSUME NEW ok \in BOOLEAN, Call(ok)
        PROVE  Bottom(f)' = Bottom(f) \/ Bottom(f) = {}
    <3>1. ASSUME NEW g \in todo, Save(g, ok)
          PROVE  Bottom(f)' = Bottom(f) \/ Bottom(f) = {}
      <4>1. step # "torn"
        BY <3>1 DEF Save
      <4> QED
        BY <2>1, <2>2, <2>3, <3>1, <4>1, SaveKeeps
    <3>2. ASSUME NEW g \in todo, Clear(g, ok)
          PROVE  Bottom(f)' = Bottom(f)
      <4>1. step # "torn"
        BY <3>2 DEF Clear
      <4> QED
        BY <2>1, <2>2, <2>3, <3>2, <4>1, ClearKeeps
    <3>3. ASSUME NEW g \in todo, PatchFile(g, ok)
          PROVE  Bottom(f)' = Bottom(f)
      <4>1. /\ step = "patch" /\ applied' = applied /\ backup' = backup
            /\ f = g \/ tree'[f] = tree[f]
        BY <2>1, <3>3, DiskFacts DEF PatchFile
      <4>2. CASE f = g
        <5>1. patchFile[cmd.patch][f] # Absent /\ cmd.patch \in Patches
          BY <2>1, <3>3, <4>1, <4>2, DiskFacts, RunningPatch DEF Found, PushSteps
        <5>2. f \in Affected(patchFile[cmd.patch])
          BY <1>1, <4>1, <5>1 DEF Affected, Unlisted
        <5>3. backup[cmd.patch][f] # Absent
          BY <2>3, <4>1, <5>2 DEF OwnCopies, Stack!Listed, Stack!Tracks
        <5> QED
          BY <2>1, <4>1, <5>1, <5>3, TreeKeeps
      <4>3. CASE tree'[f] = tree[f]
        BY <2>1, <4>1, <4>3, TreeKeeps
      <4> QED
        BY <4>1, <4>2, <4>3
    <3>4. ASSUME NEW g \in todo, Restore(g, ok)
          PROVE  Bottom(f)' = Bottom(f)
      <4>1. /\ step = "restore" /\ applied' = applied /\ backup' = backup
            /\ f = g \/ tree'[f] = tree[f]
            /\ Stack!Tracks(cmd.patch, g) \/ tree' = tree
        BY <2>1, <3>4, DiskFacts DEF Restore
      <4>2. cmd.patch \in Patches
        BY <2>1, <4>1, RunningPatch DEF PushSteps
      <4> QED
        BY <2>1, <4>1, <4>2, TreeKeeps DEF Stack!Tracks
    <3>5. ASSUME WriteApplied(ok)
          PROVE  Bottom(f)' = Bottom(f)
      <4>1. step # "torn"
        BY <3>5 DEF WriteApplied
      <4> QED
        BY <1>1, <2>1, <2>2, <2>3, <3>5, <4>1, RecordKeeps
    <3>6. CASE \/ Mark(ok) \/ WriteSeries(ok) \/ ChangePatchFile(ok)
               \/ UndoSeries(ok) \/ UndoFile(ok)
      <4>1. applied' = applied /\ backup' = backup /\ tree' = tree
        BY <3>6 DEF Mark, WriteSeries, ChangePatchFile, UndoSeries, UndoFile
      <4> QED
        BY <2>4, <4>1
    <3>7. CASE MoveDir(ok) \/ UndoDir(ok)
      <4>1. step \in {"dir", "undo dir"}
        BY <3>7 DEF MoveDir, UndoDir
      <4> QED
        BY <1>1, <2>1, <4>1, StepFacts
    <3> QED
      BY <2>5, <3>1, <3>2, <3>3, <3>4, <3>5, <3>6, <3>7 DEF Call
  <2>6. CASE Works \/ Fails
    <3>1. CASE ClearMarker \/ ClearMarkerFails
      <4>1. applied' = applied /\ backup' = backup /\ tree' = tree
        BY <3>1 DEF ClearMarker, ClearMarkerFails, disk
      <4> QED
        BY <2>4, <4>1
    <3> QED
      BY <2>5, <2>6, <3>1 DEF Works, Fails
  <2>7. CASE Start
    <3>1. UNCHANGED disk
      BY <2>7 DEF Start, StartPush, StartPop, StartNew, StartFork, StartDelete, StartRename,
         StartImport, Move, Begin
    <3> QED
      BY <2>4, <3>1 DEF disk
  <2>8. CASE LoopEnd \/ Crash \/ UNCHANGED vars
    <3>1. UNCHANGED disk
      BY <2>8 DEF LoopEnd, SavesEnd, PatchEnds, RestoresEnd, ClearEnds, LoopEnds, Crash, vars
    <3> QED
      BY <2>4, <3>1 DEF disk
  <2> QED
    BY <1>1, <2>6, <2>7, <2>8 DEF Next
<1>2. ASSUME BInv, [Next]_vars
      PROVE  [\A f \in Files \ Hidden :
                \/ Bottom(f)' = Bottom(f)
                \/ Bottom(f) = {}
                \/ step = "patch" /\ f \in Unlisted(patchFile[cmd.patch])
                \/ cmd.op \in {"rename", "fork"}
                \/ faults > 0
                \/ Unrecorded(settled) # {}]_vars
  BY <1>1, <1>2
<1> QED
  BY <1>2, NextBInv, PTL DEF Spec, BottomKeptByEveryCall

=============================================================================
