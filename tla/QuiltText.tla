------------------------------ MODULE QuiltText ------------------------------
(***************************************************************************)
(* The two text engines together, as refresh and push use them: a patch is *)
(* the unified diff of two files, and it is applied, forwards or in        *)
(* reverse, to the file it was made from or to one that has drifted; with  *)
(* what graph --lines concludes from the same texts.                       *)
(*                                                                         *)
(* given is the whole input: two files old and new, the file in the tree,  *)
(* and the options of both engines.                                        *)
(***************************************************************************)
EXTENDS PatchEngine, DiffEngine, QuiltRanges

CONSTANT Givens    \* the inputs looked at

VARIABLES given,
          hunks      \* the diff engine's hunks from old to new, and from tree to old

textVars == <<vars, given, hunks>>

HunksOf(g) ==
  [patch |-> Hunks(g.old, g.new, g.ctx, g.algorithm),
   drift |-> Hunks(g.tree, g.old, g.ctx, g.algorithm)]

\* One side of the diff is /dev/null when that file is empty.
JobOf(g, diff) ==
  [file     |-> [exists |-> g.exists, lines |-> g.tree.lines, nl |-> g.tree.nl],
   hunks    |-> Evaluated(Parse(Unified(g.old, g.new, diff), g.reverse)),
   creation |-> IF g.reverse THEN g.new.lines = <<>> ELSE g.old.lines = <<>>,
   force    |-> FALSE, merge |-> g.merge, style |-> g.style, removeEmpty |-> TRUE]

TextAtStart ==
  /\ hunks = HunksOf(given)
  /\ job = JobOf(given, hunks.patch)
  /\ placed = <<>> /\ offset = 0 /\ frozen = 0 /\ outcome = Pending

TextInit == given \in Givens /\ TextAtStart

Done == outcome # Pending

\* A call that is over stays so; one that cannot go on before is a deadlock.
TextNext ==
  /\ \/ CannotFind
     \/ Searching /\ Accept(This)
     \/ Searching /\ Reject(This)
     \/ Finish
     \/ Done /\ UNCHANGED vars
  /\ UNCHANGED <<given, hunks>>

TextSpec == TextInit /\ [][TextNext]_textVars

-----------------------------------------------------------------------------
(* The diff engine. *)

Olds(ops) == SelectSeq(ops, LAMBDA op : op.old > 0)
News(ops) == SelectSeq(ops, LAMBDA op : op.new > 0)

\* Every line of both files exactly once, in order, and equal where it says so.
Exact(ops, o, w) ==
  /\ [n \in DOMAIN Olds(ops) |-> Olds(ops)[n].old] = [n \in DOMAIN o |-> n]
  /\ [n \in DOMAIN News(ops) |-> News(ops)[n].new] = [n \in DOMAIN w |-> n]
  /\ \A n \in DOMAIN ops : ops[n].type = "E" => o[ops[n].old] = w[ops[n].new]

Equals(ops) == Cardinality({n \in DOMAIN ops : ops[n].type = "E"})

\* Every algorithm, whatever limit cuts it short, writes a script that turns
\* the old file into the new one (myers_diff, patience_diff, histogram_diff).
ScriptsAreExact ==
  given.kind = "diff" /\ Done =>
    \A algorithm \in Algorithms :
      Exact(Script(given.old.lines, given.new.lines, algorithm),
            given.old.lines, given.new.lines)

\* The longest common subsequence, by looking at all of them.
Subsequences(s) == {[n \in 1 .. Cardinality(I) |-> s[SetToSortSeq(I, <)[n]]] : I \in SUBSET DOMAIN s}
Longest(o, w) == Max({Len(s) : s \in Subsequences(o) \cap Subsequences(w)})

\* "minimal" is: no script keeps more lines (myers_diff without a cost limit).
MinimalIsShortest ==
  given.kind = "diff" /\ Done =>
    Equals(Myers(given.old.lines, given.new.lines, "minimal"))
      = Longest(given.old.lines, given.new.lines)

\* A context diff says on each side what the hunk covers there; a side that is
\* left out has only context, which the other side shows (format_context).
SideShown(side, other, file, from, to) ==
  LET lines == SelectSeq(IF side = <<>> THEN other ELSE side, LAMBDA l : l.p # "\\")
      mine  == IF side = <<>> THEN SelectSeq(lines, LAMBDA l : l.p = " ") ELSE lines
  IN  [n \in DOMAIN mine |-> mine[n].text] = SubSeq(file.lines, from, to)

ContextDiffIsComplete ==
  given.kind = "patch" /\ Done =>
    LET text == Context(given.old, given.new, hunks.patch)
    IN  \A n \in DOMAIN text :
          LET h == text[n]
          IN  /\ hunks.patch[n].oldCount > 0 =>
                   SideShown(h.oldSide, h.newSide, given.old, h.oldFrom, h.oldTo)
              /\ hunks.patch[n].newCount > 0 =>
                   SideShown(h.newSide, h.oldSide, given.new, h.newFrom, h.newTo)

-----------------------------------------------------------------------------
(* Both engines. *)

Source == IF given.reverse THEN given.new ELSE given.old
Result == IF given.reverse THEN given.old ELSE given.new

\* Without context nothing places a hunk that only inserts: its header names
\* the line before it, and locate_hunk takes the name for the line itself.
HasContext == given.ctx > 0

PiecesOf(file) ==
  [n \in DOMAIN file.lines |->
    [text |-> file.lines[n], nl |-> n < Len(file.lines) \/ file.nl]]

\* What is read from a patch is what the engine is made for, and what the headers
\* of its hunks cover what graph is made for; and a patch applied to the file it was
\* made from, forwards or in reverse, gives exactly the other file, final newline
\* included, and rejects nothing: what refresh followed by push, and pop's check of
\* the reversed patch, rely on.
RoundTrip ==
  /\ job \in Job
  /\ HasContext => \A h \in {hunks.patch, hunks.drift} :
                     IsRanges(OldRanges(h)) /\ IsRanges(NewRanges(h))
  /\ given.kind = "patch" /\ HasContext /\ Done /\ given.tree = Source
     => /\ outcome.rejects = <<>>
        /\ outcome.file = "removed" => Result.lines = <<>>
        /\ outcome.file = "kept" => Source = Result
        /\ outcome.file = "written" => outcome.pieces = PiecesOf(Result)

\* Ours: what remains of a file with conflict markers for who keeps his side.
RECURSIVE Ours(_, _)
Ours(pieces, mine) ==
  IF pieces = <<>> THEN <<>>
  ELSE LET t == Head(pieces).text
       IN  CASE t = "<<<" -> Ours(Tail(pieces), TRUE)
             [] t \in {"|||", "==="} -> Ours(Tail(pieces), FALSE)
             [] t = ">>>" -> Ours(Tail(pieces), TRUE)
             [] OTHER -> (IF mine THEN <<t>> ELSE <<>>) \o Ours(Tail(pieces), mine)

\* When no hunk applies, --merge adds markers and the patch's lines to the file
\* and neither loses nor moves a line of it (build_merge_output).
MergeKeepsOurs ==
  /\ given.kind = "drift" /\ given.merge /\ outcome.file = "written"
  /\ placed # <<>> /\ \A n \in DOMAIN placed : Rejects(n)
  => Ours(outcome.pieces, TRUE) = given.tree.lines

-----------------------------------------------------------------------------
(* Ranges. *)

\* Two patches in a row, from tree to old and from old to new.  Where graph
\* --lines shows them as independent they are: the later one applies without the
\* earlier one.
IndependentPatchesApply ==
  /\ given.kind = "drift" /\ HasContext /\ Done /\ ~given.reverse
  /\ ~Overlap(OldRanges(hunks.patch), NewRanges(hunks.drift))
  => \A n \in DOMAIN placed : placed[n].pos >= 0

=============================================================================
