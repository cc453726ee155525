---------------------------- MODULE QuiltAnnotate ----------------------------
(***************************************************************************)
(* quilt annotate: which patch last changed each line of a file.           *)
(*                                                                         *)
(* A history is what .pc/ holds about one file: the applied patches are    *)
(* numbered from 1, tracked says which of them keep a backup of the file,  *)
(* backup is the file before each of those, and work is the file now.  A   *)
(* file here is the sequence of its lines; one that is missing or empty    *)
(* has none.  For each patch that touches the file, the command fills a    *)
(* table with how many lines the rest of the old and of the new file have  *)
(* in common, and walks through both files along it.                       *)
(***************************************************************************)
EXTENDS Integers, Sequences, FiniteSets

CONSTANTS
  Contents,   \* lines
  Histories   \* the calls looked at

\* stop is the patch that is asked for; hidden says that the file's name begins
\* with a dot.
History ==
  {h \in [applied : Nat, tracked : SUBSET Nat, backup : Seq(Seq(Contents)),
          work : Seq(Contents), stop : Nat, hidden : BOOLEAN] :
     /\ h.stop \in 1 .. h.applied /\ Len(h.backup) = h.applied
     /\ h.tracked \subseteq 1 .. h.applied}

ASSUME HistoriesAreLegal == Histories \subseteq History

VARIABLES
  history,  \* the call
  doing,    \* the loop it is in
  patch,    \* the patch whose lines are looked for, 0 before the first
  count,    \* its number among those that touch the file
  notes,    \* an annotation for each line of the file before it: such a number, or 0
  table,    \* dp: lines in common from there on, for what is filled
  row, col, \* the place in the table
  result    \* the annotations of the file after it, as far as they are known

annotateVars == <<history, doing, patch, count, notes, table, row, col, result>>

\* The patches up to stop that touch the file.
Touching == {i \in history.tracked : i <= history.stop}

IsFirst(k, set) == k \in set /\ \A l \in set : k <= l

\* The first of some backups, or the file in the tree.
FirstOf(later) ==
  IF later = {} THEN history.work
  ELSE history.backup[CHOOSE k \in later : IsFirst(k, later)]

\* The file as a patch left it.  Above stop next_patch_for_file goes by
\* files_in_patch, which does not list a hidden file.
LeftBy(i) ==
  FirstOf({k \in history.tracked : k > i /\ (k <= history.stop \/ ~history.hidden)})

OldLines == history.backup[patch]
NewLines == LeftBy(patch)

Rows == Len(OldLines)
Cols == Len(NewLines)

AnnotateAtStart ==
  /\ doing = "patches"
  /\ patch = 0 /\ count = 0 /\ notes = <<>>
  /\ table = <<>> /\ row = 0 /\ col = 0 /\ result = <<>>

AnnotateInit == history \in Histories /\ AnnotateAtStart

\* The next patch that touches the file: an empty table, where nothing is in
\* common with the end of a file.  Before the first one no line has a note.
NextPatch ==
  /\ doing = "patches"
  /\ \E k \in Touching :
       LET old == history.backup[k]
           new == LeftBy(k)
       IN  /\ IsFirst(k, {i \in Touching : i > patch})
           /\ patch' = k /\ count' = count + 1
           /\ notes' = IF count = 0 THEN [i \in DOMAIN old |-> 0] ELSE result
           /\ table' = [c \in (1 .. Len(old) + 1) \X (1 .. Len(new) + 1) |-> 0]
           /\ row' = Len(old) /\ col' = Len(new)
  /\ doing' = "filling"
  /\ UNCHANGED <<history, result>>

\* A slip in reannotate_lines: lines that are equal continue one side only.
CellBeside(i, j) ==
  IF OldLines[i] = NewLines[j] THEN table[<<i + 1, j>>] + 1
  ELSE IF table[<<i + 1, j>>] >= table[<<i, j + 1>>] THEN table[<<i + 1, j>>]
  ELSE table[<<i, j + 1>>]

Cell(i, j) ==
  IF OldLines[i] = NewLines[j] THEN table[<<i + 1, j + 1>>] + 1
  ELSE IF table[<<i + 1, j>>] >= table[<<i, j + 1>>] THEN table[<<i + 1, j>>]
  ELSE table[<<i, j + 1>>]

\* The rows of the table from the last one up, and each from its end.
Fill ==
  /\ doing = "filling" /\ row > 0 /\ col > 0
  /\ table' = [table EXCEPT ![<<row, col>>] = Cell(row, col)]
  /\ col' = col - 1
  /\ UNCHANGED <<history, doing, patch, count, notes, row, result>>

NextRow ==
  /\ doing = "filling" /\ row > 0 /\ col = 0
  /\ row' = row - 1 /\ col' = Cols
  /\ UNCHANGED <<history, doing, patch, count, notes, table, result>>

Filled ==
  /\ doing = "filling" /\ row = 0
  /\ doing' = "walking" /\ row' = 1 /\ col' = 1 /\ result' = <<>>
  /\ UNCHANGED <<history, patch, count, notes, table>>

MoreOld == row <= Rows
MoreNew == col <= Cols
SameLine == MoreOld /\ MoreNew /\ OldLines[row] = NewLines[col]

\* A line in both files keeps its annotation.
KeepLine ==
  /\ doing = "walking" /\ SameLine
  /\ result' = Append(result, notes[row])
  /\ row' = row + 1 /\ col' = col + 1
  /\ UNCHANGED <<history, doing, patch, count, notes, table>>

Inserts == MoreNew /\ (MoreOld => table[<<row, col + 1>>] >= table[<<row + 1, col>>])

InsertLine ==
  /\ doing = "walking" /\ ~SameLine /\ Inserts
  /\ result' = Append(result, count)
  /\ col' = col + 1
  /\ UNCHANGED <<history, doing, patch, count, notes, table, row>>

DeleteLine ==
  /\ doing = "walking" /\ (MoreOld \/ MoreNew) /\ ~SameLine /\ ~Inserts
  /\ row' = row + 1
  /\ UNCHANGED <<history, doing, patch, count, notes, table, col, result>>

Walked ==
  /\ doing = "walking" /\ ~MoreOld /\ ~MoreNew
  /\ doing' = "patches"
  /\ UNCHANGED <<history, patch, count, notes, table, row, col, result>>

\* No patch is left: what is printed are the lines with their annotations; none
\* if no patch touches the file.
Show ==
  /\ doing = "patches" /\ \A i \in Touching : i <= patch
  /\ doing' = "printed"
  /\ UNCHANGED <<history, patch, count, notes, table, row, col, result>>

AnnotateNext ==
  \/ NextPatch
  \/ Fill \/ NextRow \/ Filled
  \/ KeepLine \/ InsertLine \/ DeleteLine \/ Walked
  \/ Show
  \/ doing = "printed" /\ UNCHANGED annotateVars

AnnotateSpec == AnnotateInit /\ [][AnnotateNext]_annotateVars

-----------------------------------------------------------------------------
\* Pairs of equal lines, in the same order in both files.
Common(old, new) == {p \in (DOMAIN old) \X (DOMAIN new) : old[p[1]] = new[p[2]]}
InOrder(pairs) == \A p, q \in pairs : p[1] < q[1] <=> p[2] < q[2]
Alignments(old, new) == {pairs \in SUBSET Common(old, new) : InOrder(pairs)}

\* A patch is named for as few lines as possible: the others are paired with
\* lines of the file before it, as many as can be paired at all, and keep the
\* names they had there (reannotate_lines).
Faithful(old, before, new, after, n) ==
  LET all == Alignments(old, new)
  IN  \E pairs \in all :
        /\ \A others \in all : Cardinality(others) <= Cardinality(pairs)
        /\ DOMAIN after = DOMAIN new
        /\ \A p \in pairs : after[p[2]] = before[p[1]]
        /\ \A j \in DOMAIN new : (\A p \in pairs : p[2] # j) => after[j] = n

\* The file as a patch really left it, whatever its name.
Left(i) == FirstOf({k \in history.tracked : k > i})

\* A hidden file that a patch above stop has changed: the lines of that patch are
\* put down to the last one up to stop.
Misread == history.hidden /\ \E k \in history.tracked : k > history.stop

\* Every patch up to stop that touches the file is looked at, between the file it
\* found and the one it left; each line of the first has one annotation, those of
\* the patch its number; and there is one for each line of the file that stop left,
\* which is printed (cmd_annotate).  It is not so of a file that is misread.
AnnotateIsFaithful ==
  Misread \/
  /\ doing \in {"filling", "walking"} => DOMAIN notes = DOMAIN OldLines
  /\ doing = "patches" /\ patch # 0 => Faithful(OldLines, notes, Left(patch), result, count)
  /\ doing = "printed" =>
       /\ count = Cardinality(Touching)
       /\ count # 0 => DOMAIN result = DOMAIN Left(history.stop)

=============================================================================
