----------------------------- MODULE DiffEngine -----------------------------
(***************************************************************************)
(* The diff engine of quilt.cpp: edit scripts by Myers' algorithm (cut off *)
(* after a cost, or minimal), by patience and by histogram; hunks from an  *)
(* edit script; and the text of a unified diff.                            *)
(*                                                                         *)
(* A file is the sequence of its lines and whether the last one ends in a  *)
(* newline.  A line is a value of which only equality matters.  x and y    *)
(* count the lines consumed on the old and the new side, as in the code;   *)
(* the indices in edit operations count from 1, with 0 for "none".         *)
(* Everything here is a function of its arguments; nothing is proved about *)
(* it, and it is free to use recursive operators.                          *)
(***************************************************************************)
EXTENDS Integers, Sequences, FiniteSets
LOCAL INSTANCE SequencesExt
LOCAL INSTANCE FiniteSetsExt

CONSTANTS
  CostFloor,     \* the least cost after which Myers gives up (256)
  ChainLimit,    \* lines more frequent than this anchor no block (64)
  DepthLimit     \* histogram recursion that falls back to Myers (1024)

ASSUME LimitsAreCounts == {CostFloor, ChainLimit, DepthLimit} \subseteq Nat \ {0}

Algorithms == {"myers", "minimal", "patience", "histogram"}

-----------------------------------------------------------------------------
(* Edit operations. *)

Equal(i, j) == [type |-> "E", old |-> i, new |-> j]
Delete(i)   == [type |-> "D", old |-> i, new |-> 0]
Insert(j)   == [type |-> "I", old |-> 0, new |-> j]

\* A script for the rest of the files, moved to where the rest begins.
Shift(ops, i, j) ==
  [n \in DOMAIN ops |->
    [ops[n] EXCEPT !.old = IF @ > 0 THEN @ + i ELSE 0,
                   !.new = IF @ > 0 THEN @ + j ELSE 0]]

\* One side is empty: everything is deleted, or everything inserted.
OneSided(o, w) ==
  [i \in 1 .. Len(o) |-> Delete(i)] \o [j \in 1 .. Len(w) |-> Insert(j)]

Shorter(s, t) == Min({Len(s), Len(t)})
Prefix(s, t) == Max({l \in 0 .. Shorter(s, t) : SubSeq(s, 1, l) = SubSeq(t, 1, l)})
Suffix(s, t) == Prefix(Reverse(s), Reverse(t))
From(s, x) == SubSeq(s, x + 1, Len(s))

-----------------------------------------------------------------------------
(* Myers.  At(v, k) is the furthest x on the diagonal x - y = k.  A round   *)
(* reads only the diagonals of the round before: its order is immaterial.   *)

\* v is a sequence with the diagonal 0 in its middle.
At(v, k) == v[k + (Len(v) + 1) \div 2]

\* The same sequence, of which TLC computes the elements only once.
Evaluated(s) == s \o <<>>

Diagonals(d) == {k \in -d .. d : (k + d) % 2 = 0}

\* Whether the path to diagonal k comes from the one above, by an insertion.
FromInsert(v, d, k) == k = -d \/ (k # d /\ At(v, k-1) < At(v, k+1))

Furthest(o, w, v, d) ==
  Evaluated([n \in DOMAIN v |->
    LET k == n - (Len(v) + 1) \div 2
        x == IF FromInsert(v, d, k) THEN At(v, k+1) ELSE At(v, k-1) + 1
    IN  IF k \in Diagonals(d) THEN x + Prefix(From(o, x), From(w, x - k)) ELSE v[n]])

\* The path of d edits to (x, y); trace[d+1] is v before the round d.
RECURSIVE Backtrack(_, _, _, _)
Backtrack(trace, d, x, y) ==
  LET v  == trace[d+1]
      k  == x - y
      pk == IF FromInsert(v, d, k) THEN k + 1 ELSE k - 1
      px == IF d = 0 THEN 0 ELSE At(v, pk)
      py == IF d = 0 THEN 0 ELSE px - pk
      l  == Max({0, Min({x - px, y - py})})
      diagonal == [i \in 1 .. l |-> Equal(x - l + i, y - l + i)]
  IN  CASE d = 0          -> diagonal
        [] d > 0 /\ x - l > px ->
             Backtrack(trace, d - 1, x - l - 1, y - l) \o <<Delete(x - l)>> \o diagonal
        [] d > 0 /\ x - l <= px /\ y - l > py ->
             Backtrack(trace, d - 1, x - l, y - l - 1) \o <<Insert(y - l)>> \o diagonal
        [] OTHER -> Backtrack(trace, d - 1, x - l, y - l) \o diagonal

\* The next power of two that is not below the square root.
BogoSqrt(n) == 2 ^ Min({e \in 0 .. n : 2 ^ (2 * e) >= n})

\* A slip in myers_diff: minimal gives up as well.
CostLimitAlways(o, w, algorithm) == Min({CostFloor, Len(o) + Len(w)})

CostLimit(o, w, algorithm) ==
  LET all == Len(o) + Len(w)
  IN  IF algorithm = "myers" THEN Min({all, Max({CostFloor, BogoSqrt(all)})})
                             ELSE all

\* Where to stop when the search costs too much: the diagonal with the most
\* progress inside both files, the lowest of several.
Endpoints(o, w, v, d) ==
  {k \in Diagonals(d) : At(v, k) \in 0 .. Len(o) /\ At(v, k) - k \in 0 .. Len(w)}
Best(v, ends) ==
  CHOOSE k \in ends :
    \A j \in ends : \/ 2 * At(v, j) - j < 2 * At(v, k) - k
                    \/ 2 * At(v, j) - j = 2 * At(v, k) - k /\ j >= k

RECURSIVE Myers(_, _, _), Search(_, _, _, _)
Search(o, w, algorithm, trace) ==
  LET n == Len(o)
      m == Len(w)
      d == Len(trace) - 1
      v == Furthest(o, w, Last(trace), d)
      ends == Endpoints(o, w, v, d)
      x == At(v, Best(v, ends))
      y == x - Best(v, ends)
  IN  CASE \E j \in Diagonals(d) : At(v, j) >= n /\ At(v, j) - j >= m ->
             Backtrack(trace, d, n, m)
        [] /\ \A j \in Diagonals(d) : At(v, j) < n \/ At(v, j) - j < m
           /\ d >= CostLimit(o, w, algorithm) /\ d < n + m /\ ends # {} ->
             Backtrack(trace, d, x, y)
               \o Shift(Myers(From(o, x), From(w, y), algorithm), x, y)
        [] OTHER -> Search(o, w, algorithm, Append(trace, v))
Myers(o, w, algorithm) ==
  IF o = <<>> \/ w = <<>> THEN OneSided(o, w)
  ELSE LET d == Len(o) + Len(w)
       IN  Search(o, w, algorithm, <<[n \in 1 .. 2 * d + 1 |-> IF n = d + 2 THEN 0 ELSE -1]>>)

-----------------------------------------------------------------------------
(* What patience and histogram share: lines that both files begin or end    *)
(* with are equal, and only the interior is looked at.                      *)

\* A slip in histogram_diff: the common end may reach into the common beginning.
EndsOverlapping(o, w) == [prefix |-> Prefix(o, w), suffix |-> Suffix(o, w)]

Ends(o, w) ==
  LET p == Prefix(o, w)
  IN  [prefix |-> p, suffix |-> Suffix(From(o, p), From(w, p))]
Interior(s, e) == SubSeq(s, e.prefix + 1, Len(s) - e.suffix)

Framed(o, w, e, inner) ==
  [i \in 1 .. e.prefix |-> Equal(i, i)]
    \o Shift(inner, e.prefix, e.prefix)
    \o [i \in 1 .. e.suffix |-> Equal(Len(o) - e.suffix + i, Len(w) - e.suffix + i)]

Count(s, line) == Cardinality({i \in DOMAIN s : s[i] = line})

-----------------------------------------------------------------------------
(* Patience: anchors are lines that occur once in each interior, the longest *)
(* subset of them in the same order on both sides.                           *)

UniqueMatches(o, w) ==
  LET once == {p \in (DOMAIN o) \X (DOMAIN w) :
                 o[p[1]] = w[p[2]] /\ Count(o, o[p[1]]) = 1 /\ Count(w, w[p[2]]) = 1}
  IN  SetToSortSeq({[old |-> p[1], new |-> p[2]] : p \in once}, LAMBDA a, b : a.old < b.old)

\* Piles whose tops increase.  A card remembers the chain of cards to its left.
Deal(piles, match) ==
  LET lo == Cardinality({i \in DOMAIN piles : Last(piles[i]).new < match.new})
      chain == Append(IF lo > 0 THEN piles[lo] ELSE <<>>, match)
  IN  IF lo = Len(piles) THEN Append(piles, chain) ELSE [piles EXCEPT ![lo + 1] = chain]

Anchors(o, w) ==
  LET piles == FoldLeft(Deal, <<>>, UniqueMatches(o, w))
  IN  IF piles = <<>> THEN <<>> ELSE Last(piles)

RECURSIVE Patience(_, _), BetweenAnchors(_, _, _)
\* The gaps before each anchor, the anchors, and the rest.
BetweenAnchors(o, w, anchors) ==
  IF anchors = <<>> THEN Patience(o, w)
  ELSE LET a == Head(anchors)
       IN  Patience(SubSeq(o, 1, a.old - 1), SubSeq(w, 1, a.new - 1))
             \o <<Equal(a.old, a.new)>>
             \o Shift(BetweenAnchors(From(o, a.old), From(w, a.new),
                         [i \in 1 .. Len(anchors) - 1 |->
                            [old |-> anchors[i+1].old - a.old,
                             new |-> anchors[i+1].new - a.new]]),
                       a.old, a.new)
Patience(o, w) ==
  IF o = <<>> \/ w = <<>> THEN OneSided(o, w)
  ELSE LET e  == Ends(o, w)
           io == Interior(o, e)
           iw == Interior(w, e)
           anchors == Anchors(io, iw)
       IN  Framed(o, w, e, IF anchors = <<>> THEN Myers(io, iw, "minimal")
                                             ELSE BetweenAnchors(io, iw, anchors))

-----------------------------------------------------------------------------
(* Histogram: the longest common block around the rarest line of the old    *)
(* interior; the search skips lines that cannot improve on the best one.    *)

\* The block through o[i] = w[j]: how far it reaches, and its rarest line.
Block(o, w, i, j) ==
  LET back == Suffix(SubSeq(o, 1, i - 1), SubSeq(w, 1, j - 1))
      fwd  == Prefix(From(o, i), From(w, j))
  IN  [old |-> i - back, new |-> j - back, len |-> back + 1 + fwd, fwd |-> fwd,
       rarest |-> Min({Count(o, o[n]) : n \in i - back .. i + fwd})]

Better(b, best) ==
  \/ b.rarest < best.rarest
  \/ b.rarest = best.rarest /\ b.len > best.len

NoBlock == [old |-> 0, new |-> 0, len |-> 0, fwd |-> 0, rarest |-> ChainLimit + 1]

RECURSIVE BestBlock(_, _, _, _)
BestBlock(o, w, j, best) ==
  LET at == SetToSortSeq({i \in DOMAIN o : o[i] = w[j]}, <)
      blocks == [n \in DOMAIN at |-> Block(o, w, at[n], j)]
      skip == at = <<>> \/ Len(at) > ChainLimit \/ Len(at) > best.rarest
  IN  IF j > Len(w) THEN best
      ELSE IF skip THEN BestBlock(o, w, j + 1, best)
      ELSE BestBlock(o, w, j + 1 + Max({b.fwd : b \in ToSet(blocks)}),
             FoldLeft(LAMBDA x, b : IF Better(b, x) THEN b ELSE x, best, blocks))

RECURSIVE Histogram(_, _, _)
Histogram(o, w, depth) ==
  IF o = <<>> \/ w = <<>> THEN OneSided(o, w)
  ELSE LET e  == Ends(o, w)
           io == Interior(o, e)
           iw == Interior(w, e)
           b  == IF depth >= DepthLimit THEN NoBlock ELSE BestBlock(io, iw, 1, NoBlock)
           afterOld == b.old + b.len - 1
           afterNew == b.new + b.len - 1
           around ==
             Histogram(SubSeq(io, 1, b.old - 1), SubSeq(iw, 1, b.new - 1), depth + 1)
               \o [n \in 1 .. b.len |-> Equal(b.old + n - 1, b.new + n - 1)]
               \o Shift(Histogram(From(io, afterOld), From(iw, afterNew), depth + 1),
                        afterOld, afterNew)
       IN  Framed(o, w, e, IF b.len = 0 THEN Myers(io, iw, "minimal") ELSE around)

Script(o, w, algorithm) ==
  CASE algorithm = "patience"  -> Patience(o, w)
    [] algorithm = "histogram" -> Histogram(o, w, 0)
    [] OTHER                   -> Myers(o, w, algorithm)

-----------------------------------------------------------------------------
(* Hunks.  ops[lo .. hi] with its place on both sides; a side without lines  *)
(* in the hunk is placed after the last line before it.                      *)

Changes(ops) == {i \in DOMAIN ops : ops[i].type # "E"}

\* Groups of changes whose context would touch: <<first, last>> of each.
Groups(ops, ctx) ==
  LET near(a, b) == b - a <= Max({1, 2 * ctx})
      c == Changes(ops)
      firsts == {i \in c : \A j \in c : j < i => ~near(j, i)}
      lasts  == {i \in c : \A j \in c : j > i => ~near(i, j)}
  IN  [n \in 1 .. Cardinality(firsts) |->
         <<SetToSortSeq(firsts, <)[n], SetToSortSeq(lasts, <)[n]>>]

HunkOf(ops, ctx, range) ==
  LET lo == Max({1, range[1] - ctx})
      hi == Min({Len(ops), range[2] + ctx})
      olds == {i \in lo .. hi : ops[i].old > 0}
      news == {i \in lo .. hi : ops[i].new > 0}
      before(side) == Max({0} \cup {ops[i][side] : i \in 1 .. lo - 1})
  IN  [oldStart |-> IF olds = {} THEN before("old") ELSE ops[Min(olds)].old,
       oldCount |-> Cardinality(olds),
       newStart |-> IF news = {} THEN before("new") ELSE ops[Min(news)].new,
       newCount |-> Cardinality(news),
       ops      |-> SubSeq(ops, lo, hi)]

BuildHunks(ops, ctx) ==
  LET g == Groups(ops, ctx) IN [n \in DOMAIN g |-> HunkOf(ops, ctx, g[n])]

-----------------------------------------------------------------------------
(* The text.  A file is [lines, nl].  Every line of a hunk's body is its    *)
(* first character and the line; the marker says that the line above it is  *)
(* the last of its file and has no newline.                                 *)

Marker == [p |-> "\\", text |-> "No newline at end of file"]
Line(p, text, last) == <<[p |-> p, text |-> text]>> \o IF last THEN <<Marker>> ELSE <<>>

Unterminated(file, i) == i = Len(file.lines) /\ ~file.nl

BodyOf(old, new, op) ==
  LET atOld == op.old > 0 /\ Unterminated(old, op.old)
      atNew == op.new > 0 /\ Unterminated(new, op.new)
      both  == op.type = "E" /\ atOld = atNew
  IN  IF both THEN Line(" ", old.lines[op.old], atOld)
      ELSE (IF op.type = "I" THEN <<>>
            ELSE Line("-", old.lines[op.old], IF op.type = "E" THEN ~old.nl ELSE atOld))
        \o (IF op.type = "D" THEN <<>>
            ELSE Line("+", new.lines[op.new], IF op.type = "E" THEN ~new.nl ELSE atNew))

Unified(old, new, hunks) ==
  [n \in DOMAIN hunks |->
    [oldStart |-> hunks[n].oldStart, oldCount |-> hunks[n].oldCount,
     newStart |-> hunks[n].newStart, newCount |-> hunks[n].newCount,
     body |-> FlattenSeq([i \in DOMAIN hunks[n].ops |-> BodyOf(old, new, hunks[n].ops[i])])]]

\* A context diff writes the sides one after the other; lines are changed ("!")
\* in a run of deletions followed by insertions.
InChange(ops, i) ==
  LET run(t, lo, hi) == lo <= hi /\ \A k \in lo .. hi : ops[k].type = t
  IN  \E a \in 1 .. i, b \in i .. Len(ops), m \in DOMAIN ops :
        run("D", a, m) /\ run("I", m + 1, b)

\* A slip in format_context: a side is left out unless it has a changed line.
ContextSideChanged(file, other, ops, side, plain) ==
  LET onSide == SelectSeq(ops, LAMBDA op : op[side] > 0)
      p(op) == IF op.type = "E" THEN " " ELSE "!"
  IN  IF \A n \in DOMAIN ops : ~InChange(ops, n) THEN <<>>
      ELSE [n \in DOMAIN onSide |-> [p |-> p(onSide[n]), text |-> file.lines[onSide[n][side]]]]

ContextSide(file, other, ops, side, plain) ==
  LET there  == IF side = "old" THEN "new" ELSE "old"
      onSide == SelectSeq([i \in DOMAIN ops |-> i], LAMBDA i : ops[i][side] > 0)
      lines  == [n \in DOMAIN onSide |->
        LET op == ops[onSide[n]]
        IN  Line(CASE op.type = "E" -> " "
                   [] op.type # "E" /\ InChange(ops, onSide[n]) -> "!"
                   [] OTHER -> plain,
                 file.lines[op[side]],
                 Unterminated(file, op[side])
                   /\ (op.type = "E" => Unterminated(other, op[there])))]
  IN  IF \A n \in DOMAIN lines : lines[n][1].p = " " THEN <<>> ELSE FlattenSeq(lines)

Context(old, new, hunks) ==
  LET lastOf(start, count) == IF count = 0 THEN start ELSE start + count - 1
  IN  [n \in DOMAIN hunks |->
        LET h == hunks[n]
        IN  [oldFrom |-> h.oldStart, oldTo |-> lastOf(h.oldStart, h.oldCount),
             newFrom |-> h.newStart, newTo |-> lastOf(h.newStart, h.newCount),
             oldSide |-> ContextSide(old, new, h.ops, "old", "-"),
             newSide |-> ContextSide(new, old, h.ops, "new", "+")]]

\* builtin_diff: when the final newlines differ, an equal last line is a change.
SplitLast(old, new, ops) ==
  LET e == {i \in DOMAIN ops : ops[i].type = "E"}
      i == Max(e)
      last == Equal(Len(old.lines), Len(new.lines))
  IN  IF old.lines = <<>> \/ old.nl = new.nl \/ e = {} \/ ops[i] # last THEN ops
      ELSE SubSeq(ops, 1, i - 1) \o <<Delete(last.old), Insert(last.new)>> \o From(ops, i)

\* The hunks of the diff of two files, none when they are the same.
Hunks(old, new, ctx, algorithm) ==
  BuildHunks(SplitLast(old, new, Script(old.lines, new.lines, algorithm)), ctx)

=============================================================================
