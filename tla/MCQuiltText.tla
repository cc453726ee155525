----------------------------- MODULE MCQuiltText -----------------------------
(***************************************************************************)
(* Small instances of QuiltText, QuiltGraph and QuiltAnnotate.  One        *)
(* behaviour is one command: it moves in the module of the command, and    *)
(* the other two stand at the beginning of a call that is not made, so it  *)
(* is a behaviour of each of the three.                                    *)
(***************************************************************************)
EXTENDS QuiltText, QuiltGraph, QuiltAnnotate
CONSTANTS LineA, LineB, fileA, fileB

VARIABLE command

allVars == <<textVars, graphVars, annotateVars, command>>

MCText == {LineA, LineB}
Upto(n) == UNION {[1 .. l -> MCText] : l \in 0 .. n}

-----------------------------------------------------------------------------
(* Diff and patch: files of a few lines over two values. *)

Whole(s) == [lines |-> s, nl |-> TRUE]
Texts(n) == {[lines |-> s, nl |-> nl] : s \in Upto(n), nl \in BOOLEAN}
              \ {[lines |-> <<>>, nl |-> FALSE]}

Base == [kind |-> "diff", old |-> Whole(<<>>), new |-> Whole(<<>>), tree |-> Whole(<<>>),
         exists |-> FALSE, ctx |-> 1, algorithm |-> "minimal", reverse |-> FALSE,
         merge |-> FALSE, style |-> "merge"]

\* Scripts of longer files, for every algorithm.
Diffs == {[Base EXCEPT !.old = Whole(o), !.new = Whole(w)] : o \in Upto(4), w \in Upto(4)}

\* A patch and the file it was made from.
Patches ==
  {[Base EXCEPT !.kind = "patch", !.old = o, !.new = w, !.ctx = c, !.reverse = r,
                !.algorithm = al, !.exists = TRUE, !.tree = IF r THEN w ELSE o] :
     o \in Texts(3), w \in Texts(3), c \in {0, 1}, r \in BOOLEAN,
     al \in {"myers", "histogram"}}

\* A patch, and a file that has drifted.  The two values are interchangeable:
\* the old file begins with the first.
Drifts ==
  {[Base EXCEPT !.kind = "drift", !.old = Whole(o), !.new = Whole(w), !.tree = Whole(t),
                !.exists = TRUE, !.ctx = c, !.merge = mg] :
     o \in {f \in [1 .. 4 -> MCText] : f[1] = LineA}, w \in Upto(3), t \in Upto(4),
     c \in {0, 1}, mg \in BOOLEAN}

MCGivens == Diffs \cup Patches \cup Drifts

-----------------------------------------------------------------------------
(* graph. *)

MCFiles == {fileA, fileB}

All == [touches |-> <<>>, selected |-> 0, lines |-> FALSE, reduce |-> TRUE,
        left |-> <<>>, right |-> <<>>]
Same(n, r) == [i \in 1 .. n |-> [file \in MCFiles |-> r]]

\* Four patches over two files.
WithoutLines ==
  {[All EXCEPT !.touches = t, !.selected = s, !.reduce = r,
               !.left = Same(4, <<>>), !.right = Same(4, <<>>)] :
     t \in [1 .. 4 -> SUBSET MCFiles], s \in 0 .. 4, r \in BOOLEAN}

RangesUpto(n) ==
  {r \in UNION {[1 .. l -> 0 .. n] : l \in {0, 2, 4}} : IsRanges(r)}

\* Two patches with every two lists of ranges in one file.
EveryTwo ==
  {[All EXCEPT !.touches = <<{fileA}, {fileA}>>, !.lines = TRUE,
               !.left = Same(2, l), !.right = Same(2, r)] :
     l \in RangesUpto(5), r \in RangesUpto(5)}

\* Three patches that each cover one place of a file, or two.
SomeThree ==
  {[All EXCEPT !.touches = <<{fileA}, MCFiles, MCFiles>>, !.lines = TRUE, !.selected = s,
               !.left = [i \in 1 .. 3 |-> [file \in MCFiles |-> p[i]]],
               !.right = [i \in 1 .. 3 |-> [file \in MCFiles |-> p[i]]]] :
     s \in 0 .. 3, p \in [1 .. 3 -> {<<1, 3>>, <<3, 4>>, <<1, 2, 3, 5>>}]}

MCQueries == {All} \cup WithoutLines \cup EveryTwo \cup SomeThree

-----------------------------------------------------------------------------
(* annotate. *)

\* One patch, and every file of up to four lines before and up to three after it.
OnePatch ==
  {[applied |-> 1, tracked |-> {1}, backup |-> <<o>>, work |-> w, stop |-> 1,
    hidden |-> FALSE] :
     o \in Upto(4), w \in Upto(3)}

\* Three patches, some of which touch the file.  The two values are
\* interchangeable: the first backup begins with the first.
ThreePatches ==
  {[applied |-> 3, tracked |-> t, backup |-> <<o, <<LineB, LineA>>, n>>, work |-> w, stop |-> s,
    hidden |-> h] :
     t \in SUBSET (1 .. 3), o \in {<<>>, <<LineA>>, <<LineA, LineB>>},
     n \in Upto(2), w \in {<<LineA>>, <<LineB, LineB, LineA>>}, s \in 1 .. 3,
     h \in BOOLEAN}

NoHistory == [applied |-> 1, tracked |-> {}, backup |-> <<<<>>>>, work |-> <<>>, stop |-> 1,
              hidden |-> FALSE]

MCHistories == {NoHistory} \cup OnePatch \cup ThreePatches

-----------------------------------------------------------------------------
MCInit ==
  /\ \/ command = "patch" /\ given \in Givens /\ query = All /\ history = NoHistory
     \/ command = "graph" /\ given = Base /\ query \in Queries /\ history = NoHistory
     \/ command = "annotate" /\ given = Base /\ query = All /\ history \in Histories
  /\ TextAtStart /\ GraphAtStart /\ AnnotateAtStart

MCNext ==
  /\ \/ command = "patch" /\ TextNext /\ UNCHANGED <<graphVars, annotateVars>>
     \/ command = "graph" /\ GraphNext /\ UNCHANGED <<textVars, annotateVars>>
     \/ command = "annotate" /\ AnnotateNext /\ UNCHANGED <<textVars, graphVars>>
  /\ UNCHANGED command

MCSpec == MCInit /\ [][MCNext]_allVars
=============================================================================
