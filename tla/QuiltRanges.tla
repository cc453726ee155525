----------------------------- MODULE QuiltRanges -----------------------------
(***************************************************************************)
(* The lines that the hunks of a diff cover, on either side, as graph      *)
(* --lines compares them: a list of bounds, two for each hunk, the line it *)
(* begins at and the line after it.                                        *)
(***************************************************************************)
EXTENDS Integers, Sequences, SequencesExt

\* parse_ranges: where the hunks of a diff begin and end, one side of it.
OldRanges(hunks) ==
  FlattenSeq([n \in DOMAIN hunks |->
    <<hunks[n].oldStart, hunks[n].oldStart + hunks[n].oldCount>>])

\* A slip in compute_ranges: the ranges of the version before the patch.
NewRangesBefore(hunks) == OldRanges(hunks)

NewRanges(hunks) ==
  FlattenSeq([n \in DOMAIN hunks |->
    <<hunks[n].newStart, hunks[n].newStart + hunks[n].newCount>>])

Odd(n) == n % 2 = 1

\* What a diff with context has: hunks in order, each with a line on this side
\* unless the file is missing or empty there.
IsRanges(r) ==
  /\ r \in Seq(Nat) /\ ~Odd(Len(r))
  /\ \/ r = <<0, 0>>
     \/ /\ \A n \in DOMAIN r : r[n] > 0
        /\ \A n \in DOMAIN r : n + 1 \in DOMAIN r =>
             IF Odd(n) THEN r[n] < r[n + 1] ELSE r[n] <= r[n + 1]

\* The n-th bound opens a range that the next one closes.
Opens(r, n) == n \in DOMAIN r /\ Odd(n)

\* Two ranges with a line in common, or empty ones at the same place.
Meet(a, m, b, n) ==
  \/ a[m] < b[n + 1] /\ b[n] < a[m + 1]
  \/ a[m] = b[n]

Overlap(a, b) == \E m \in DOMAIN a, n \in DOMAIN b : Opens(a, m) /\ Opens(b, n) /\ Meet(a, m, b, n)

=============================================================================
