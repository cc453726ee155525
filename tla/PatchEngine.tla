---------------------------- MODULE PatchEngine ----------------------------
(***************************************************************************)
(* builtin_patch of quilt.cpp, on one section of a patch: reading the      *)
(* hunks, searching a place for each one, and writing the patched file,    *)
(* the file with conflict markers, or the rejects.                         *)
(*                                                                         *)
(* A file is [lines, nl] as in the diff engine; a file being written is a  *)
(* sequence of pieces, each a line and whether a newline follows it.       *)
(* Positions in the file count from 0, as in the code; hunk headers count  *)
(* from 1.  The search keeps offset (cumulative_offset) and frozen         *)
(* (last_frozen_line) and takes the hunks in order.                        *)
(***************************************************************************)
EXTENDS Integers, Sequences, FiniteSets, SequencesExt

CONSTANTS
  Text,       \* lines
  MaxFuzz     \* context lines that may be ignored at each end (--fuzz)

ASSUME MaxFuzzIsCount == MaxFuzz \in Nat

\* A line of a hunk: its first character and the rest of it.
HunkLine == [p : {" ", "-", "+"}, text : Text]

Changed(h) == \E i \in DOMAIN h.lines : h.lines[i].p # " "

Hunk == {h \in [oldStart : Nat, oldCount : Nat, newStart : Nat, newCount : Nat,
                lines : Seq(HunkLine), oldNoNl : BOOLEAN, newNoNl : BOOLEAN] : Changed(h)}

File == [exists : BOOLEAN, lines : Seq(Text), nl : BOOLEAN]

\* One call: the file, the section's hunks, whether either side is /dev/null,
\* and the options.  style says how --merge shows the old lines.
Job == [file : File, hunks : Seq(Hunk), creation : BOOLEAN,
        force : BOOLEAN, merge : BOOLEAN, style : {"merge", "diff3"},
        removeEmpty : BOOLEAN]

VARIABLES
  job,      \* the call
  placed,   \* for each hunk so far: where it matched and with how much fuzz
  offset,   \* how far the last match was from where its header said
  frozen,   \* lines before this one are behind the search
  outcome   \* what became of the file, and the hunks in the reject file

vars == <<job, placed, offset, frozen, outcome>>

Rejected == [pos |-> -1, lead |-> 0, trail |-> 0]
Pending  == [file |-> "unwritten", pieces |-> <<>>, rejects |-> <<>>]

-----------------------------------------------------------------------------
(* Reading the body of a hunk.  The counts of the header say where it ends. *)

Opposite == [p \in {" ", "-", "+"} |-> CASE p = "-" -> "+" [] p = "+" -> "-" [] p = " " -> " "]

Fits(acc, p, h) ==
  CASE p = " " -> acc.old < h.oldCount \/ acc.new < h.newCount
    [] p = "-" -> acc.old < h.oldCount
    [] p = "+" -> acc.new < h.newCount

\* A slip in parse_patch: the marker is about the new file.
NoNewlineOfNew(acc) == [acc EXCEPT !.newNoNl = TRUE]

\* "\ No newline at end of file" is about the line above it.
NoNewline(acc) ==
  IF acc.lines = <<>> THEN acc
  ELSE LET p == Last(acc.lines).p
       IN  [acc EXCEPT !.oldNoNl = @ \/ p # "+", !.newNoNl = @ \/ p # "-"]

TakeLine(acc, t, h, reverse) ==
  LET p == IF reverse THEN Opposite[t.p] ELSE t.p
  IN  IF ~Fits(acc, p, h) THEN [acc EXCEPT !.done = TRUE]
      ELSE [acc EXCEPT !.lines = Append(@, [p |-> p, text |-> t.text]),
                       !.old = IF p = "+" THEN @ ELSE @ + 1,
                       !.new = IF p = "-" THEN @ ELSE @ + 1,
                       !.taken = @ + 1]

ReadBody(body, h, reverse) ==
  LET Take(acc, t) ==
        CASE acc.done    -> acc
          [] ~acc.done /\ t.p = "\\" -> [NoNewline(acc) EXCEPT !.taken = @ + 1]
          [] OTHER       -> TakeLine(acc, t, h, reverse)
  IN  FoldLeft(Take, [lines |-> <<>>, old |-> 0, new |-> 0, oldNoNl |-> FALSE,
                      newNoNl |-> FALSE, taken |-> 0, done |-> FALSE], body)

Turned(t, reverse) ==
  IF reverse THEN [oldStart |-> t.newStart, oldCount |-> t.newCount,
                   newStart |-> t.oldStart, newCount |-> t.oldCount]
  ELSE [oldStart |-> t.oldStart, oldCount |-> t.oldCount,
        newStart |-> t.newStart, newCount |-> t.newCount]

ReadHunk(t, reverse) ==
  LET h == Turned(t, reverse)
      b == ReadBody(t.body, h, reverse)
  IN  [oldStart |-> h.oldStart, oldCount |-> h.oldCount,
       newStart |-> h.newStart, newCount |-> h.newCount,
       lines |-> b.lines, oldNoNl |-> b.oldNoNl, newNoNl |-> b.newNoNl]

\* The hunks of a section.  Text left over in a body hides the hunks after it.
Parse(text, reverse) ==
  LET whole(t) == ReadBody(t.body, Turned(t, reverse), reverse).taken = Len(t.body)
      cut == {n \in DOMAIN text : ~whole(text[n])}
  IN  [n \in 1 .. Min({Len(text)} \cup cut) |-> ReadHunk(text[n], reverse)]

-----------------------------------------------------------------------------
(* Matching. *)

Side(h, p) ==
  LET s == SelectSeq(h.lines, LAMBDA l : l.p # p) IN [i \in DOMAIN s |-> s[i].text]
OldSide(h) == Side(h, "+")
NewSide(h) == Side(h, "-")

OldLen(h) == Cardinality({i \in DOMAIN h.lines : h.lines[i].p # "+"})

\* Context before the first change, and after the last one.
Lead(h)  == Cardinality({i \in DOMAIN h.lines : \A j \in 1 .. i : h.lines[j].p = " "})
Trail(h) == Cardinality({i \in DOMAIN h.lines :
                           \A j \in i .. Len(h.lines) : h.lines[j].p = " "})

Least(a, b)    == IF a <= b THEN a ELSE b
Greatest(a, b) == IF a >= b THEN a ELSE b

LeadFuzz(h, f)  == Least(f, Lead(h))
TrailFuzz(h, f) == Least(f, Trail(h))
Kept(h, f)      == OldLen(h) - LeadFuzz(h, f) - TrailFuzz(h, f)

FileLen == Len(job.file.lines)

\* try_match: the old side is at pos, but for f lines of context at each end.
Matches(h, pos, f) ==
  \A j \in LeadFuzz(h, f) + 1 .. OldLen(h) - TrailFuzz(h, f) :
     /\ pos + j \in 1 .. FileLen
     /\ job.file.lines[pos + j] = OldSide(h)[j]

-----------------------------------------------------------------------------
(* locate_hunk: with the least fuzz that finds anything, the match nearest  *)
(* to the guess, the later of two.                                          *)

Guess(h)        == h.oldStart - 1 + offset
LastStart(h, f) == IF Kept(h, f) = 0 THEN FileLen ELSE FileLen - Kept(h, f)

\* A slip in locate_hunk: the spiral ends at the end of the file.
ReachForward(h, f) == Greatest(0, LastStart(h, f) - Guess(h))

Reach(h, f)     == Greatest(0, Greatest(LastStart(h, f) - Guess(h), Guess(h) - frozen))
Distance(h, pos) == Greatest(pos - Guess(h), Guess(h) - pos)

\* A slip in locate_hunk: behind the last match is as good as after it.
CandidatesAnywhere(h, f) ==
  {pos \in 0 .. LastStart(h, f) : Distance(h, pos) <= Reach(h, f) /\ Matches(h, pos, f)}

Candidates(h, f) ==
  {pos \in 0 .. LastStart(h, f) :
     pos >= frozen /\ Distance(h, pos) <= Reach(h, f) /\ Matches(h, pos, f)}

Nearer(h, p, q) ==
  \/ Distance(h, p) < Distance(h, q)
  \/ Distance(h, p) = Distance(h, q) /\ p > q

\* The search stops at fuzz f and position pos.
Located(h, f, pos) ==
  /\ \A g \in 0 .. f - 1 : Candidates(h, g) = {}
  /\ pos \in Candidates(h, f)
  /\ \A q \in Candidates(h, f) : ~Nearer(h, q, pos)

NotLocated(h) == \A f \in 0 .. MaxFuzz : Candidates(h, f) = {}

\* The fuzz that is recorded is looked for again at the position found.
FuzzUsed(h, pos, f) ==
  Matches(h, pos, f) /\ \A g \in 0 .. f - 1 : ~Matches(h, pos, g)

-----------------------------------------------------------------------------
(* What is written.  A segment is a stretch of the file that a hunk replaces. *)

SegStart(h, at) == Least(at.pos + at.lead, FileLen)
SegEnd(h, at) ==
  Least(SegStart(h, at) + Greatest(0, OldLen(h) - at.lead - at.trail), FileLen)

Terminated(lines) == [i \in DOMAIN lines |-> [text |-> lines[i], nl |-> TRUE]]
Copy(from, to)    == Terminated(SubSeq(job.file.lines, from + 1, to))

\* The rest of the file, with its last line as it was.
Remaining(from) ==
  LET rest == Copy(from, FileLen)
  IN  IF rest = <<>> THEN <<>>
      ELSE [rest EXCEPT ![Len(rest)].nl = job.file.nl]

Replacement(h, at) ==
  LET new == NewSide(h)
      kept == Terminated(SubSeq(new, at.lead + 1, Len(new) - at.trail))
  IN  IF kept = <<>> THEN <<>>
      ELSE [kept EXCEPT ![Len(kept)].nl = ~(at.trail = 0 /\ h.newNoNl)]

Apply(acc, h, at) ==
  [pieces |-> acc.pieces \o Copy(acc.copied, SegStart(h, at)) \o Replacement(h, at),
   copied |-> SegEnd(h, at)]

\* A slip in build_merge_output: the lines it has shown are not counted as written.
ConflictStays(h, first, last, at) ==
  LET texts(p) == LET s == SelectSeq(SubSeq(h.lines, first, last), LAMBDA l : l.p = p)
                  IN  Terminated([i \in DOMAIN s |-> s[i].text])
      mark(m) == Terminated(<<m>>)
      to == Least(at + Len(texts("-")), FileLen)
  IN  [pieces |-> mark("<<<") \o Copy(at, to) \o mark("===")
                    \o texts("+") \o mark(">>>"),
       copied |-> at]

\* A run of deletions and insertions between conflict markers.
Conflict(h, first, last, at) ==
  LET run == SubSeq(h.lines, first, last)
      texts(p) == LET s == SelectSeq(run, LAMBDA l : l.p = p)
                  IN  Terminated([i \in DOMAIN s |-> s[i].text])
      mark(m) == Terminated(<<m>>)
      to == Least(at + Len(texts("-")), FileLen)
  IN  [pieces |-> mark("<<<") \o Copy(at, to)
                    \o (IF job.style = "diff3" THEN mark("|||") \o texts("-") ELSE <<>>)
                    \o mark("===") \o texts("+") \o mark(">>>"),
       copied |-> to]

\* One line of context, or the whole run that begins here; the rest of a run
\* is behind its first line.
RunEnd(h, i) ==
  LET p(n) == h.lines[n].p
      run(n) == \E m \in i .. n + 1 : (\A k \in i .. m - 1 : p(k) = "-")
                                   /\ (\A k \in m .. n : p(k) = "+")
  IN  Max({n \in i .. Len(h.lines) : run(n)})

Walk(h, acc, i) ==
  LET p == h.lines[i].p
  IN  CASE i <= acc.through -> acc
        [] i > acc.through /\ p = " " ->
             [pieces |-> acc.pieces \o Copy(acc.copied, Least(acc.copied + 1, FileLen)),
              copied |-> Least(acc.copied + 1, FileLen), through |-> i]
        [] OTHER ->
             LET c == Conflict(h, i, RunEnd(h, i), acc.copied)
             IN  [pieces |-> acc.pieces \o c.pieces, copied |-> c.copied,
                  through |-> RunEnd(h, i)]

\* A rejected hunk goes where its header says, or behind what is written.
Marked(acc, h) ==
  LET at == Least(Greatest(h.oldStart - 1, acc.copied), FileLen)
      start == [pieces |-> acc.pieces \o Copy(acc.copied, at), copied |-> at, through |-> 0]
      end == FoldLeft(LAMBDA a, i : Walk(h, a, i), start, [i \in DOMAIN h.lines |-> i])
  IN  [pieces |-> end.pieces, copied |-> end.copied]

Written(merging) ==
  LET Step(acc, n) ==
        IF placed[n].pos >= 0 THEN Apply(acc, job.hunks[n], placed[n])
        ELSE IF merging THEN Marked(acc, job.hunks[n]) ELSE acc
      end == FoldLeft(Step, [pieces |-> <<>>, copied |-> 0], [n \in DOMAIN placed |-> n])
  IN  end.pieces \o Remaining(end.copied)

\* format_rejects: the body as it was read, and at its end the old side's marker.
RejectText(h) ==
  [oldStart |-> h.oldStart, oldCount |-> h.oldCount,
   newStart |-> h.newStart, newCount |-> h.newCount,
   body |-> h.lines \o IF h.oldNoNl
                       THEN <<[p |-> "\\", text |-> "No newline at end of file"]>>
                       ELSE <<>>]

Rejects(n) == placed[n].pos < 0
RejectFile ==
  LET s == SelectSeq([n \in DOMAIN placed |-> n], Rejects)
  IN  [i \in DOMAIN s |-> RejectText(job.hunks[s[i]])]

-----------------------------------------------------------------------------
Init ==
  /\ job \in Job
  /\ placed = <<>>
  /\ offset = 0
  /\ frozen = 0
  /\ outcome = Pending

\* No file, and the section does not create it: every hunk is rejected.
CannotFind ==
  /\ placed = <<>> /\ outcome = Pending
  /\ ~job.file.exists /\ ~job.creation /\ ~job.force
  /\ outcome' = [file |-> "kept", pieces |-> <<>>,
                 rejects |-> [n \in DOMAIN job.hunks |-> RejectText(job.hunks[n])]]
  /\ UNCHANGED <<job, placed, offset, frozen>>

Searching ==
  /\ outcome = Pending
  /\ job.file.exists \/ job.creation \/ job.force
  /\ Len(placed) < Len(job.hunks)

This == job.hunks[Len(placed) + 1]

Accept(h) ==
  \E f \in 0 .. MaxFuzz : \E pos \in Candidates(h, f) : \E used \in 0 .. MaxFuzz :
    /\ Located(h, f, pos)
    /\ FuzzUsed(h, pos, used)
    /\ placed' = Append(placed, [pos |-> pos, lead |-> LeadFuzz(h, used),
                                 trail |-> TrailFuzz(h, used)])
    /\ offset' = pos - (Greatest(h.oldStart, 1) - 1)
    /\ frozen' = pos + OldLen(h) - TrailFuzz(h, used)
    /\ UNCHANGED <<job, outcome>>

Reject(h) ==
  /\ NotLocated(h)
  /\ placed' = Append(placed, Rejected)
  /\ UNCHANGED <<job, offset, frozen, outcome>>

Finish ==
  /\ outcome = Pending
  /\ job.file.exists \/ job.creation \/ job.force
  /\ Len(placed) = Len(job.hunks)
  /\ LET rejects  == \E n \in DOMAIN placed : Rejects(n)
         applied  == \E n \in DOMAIN placed : ~Rejects(n)
         pieces   == Written(job.merge /\ rejects)
         touched  == applied \/ job.creation \/ (job.merge /\ rejects)
         removed  == touched /\ job.removeEmpty /\ pieces = <<>> /\ ~job.creation
     IN  outcome' = [file    |-> CASE removed -> "removed"
                                   [] touched /\ ~removed -> "written"
                                   [] OTHER -> "kept",
                     pieces  |-> IF touched THEN pieces ELSE <<>>,
                     rejects |-> IF job.merge THEN <<>> ELSE RejectFile]
  /\ UNCHANGED <<job, placed, offset, frozen>>

Next ==
  \/ CannotFind
  \/ Searching /\ Accept(This)
  \/ Searching /\ Reject(This)
  \/ Finish

Spec == Init /\ [][Next]_vars

-----------------------------------------------------------------------------
\* The accepted hunks, in order, replace stretches of the file that do not
\* overlap: builtin_patch never loses or doubles a line between two hunks.
AreDisjoint(m, n) ==
  m < n /\ placed[m].pos >= 0 /\ placed[n].pos >= 0 =>
    SegEnd(job.hunks[m], placed[m]) <= SegStart(job.hunks[n], placed[n])

SegmentsDisjoint == \A m, n \in DOMAIN placed : AreDisjoint(m, n)

\* A hunk is rejected only when its old side is nowhere at or after the place
\* where the search may look: the spiral of locate_hunk skips no position.
Occurs(h, pos) ==
  \A j \in 1 .. OldLen(h) : /\ pos + j <= FileLen
                            /\ job.file.lines[pos + j] = OldSide(h)[j]

HonestReject(n) ==
  placed'[n].pos < 0 => \A pos \in frozen .. FileLen : ~Occurs(job.hunks[n], pos)

RejectsAreHonest == [][\A n \in DOMAIN placed' \ DOMAIN placed : HonestReject(n)]_vars

=============================================================================
