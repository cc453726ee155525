--------------------------- MODULE QuiltTextProofs ---------------------------
(***************************************************************************)
(* Proofs about what quilt computes from texts: the patch engine, for any  *)
(* file, hunks, options and fuzz; the graph, for any history, ranges and   *)
(* options; and annotate, for any history.                                 *)
(***************************************************************************)
EXTENDS PatchEngine, QuiltGraph, QuiltAnnotate, FiniteSetTheorems, SequenceTheorems,
        WellFoundedInduction, TLAPS

-----------------------------------------------------------------------------
(* Lengths.                                                                 *)

\* Both sides of a place in a sequence are in it.
LEMMA AroundIsWithin ==
  ASSUME NEW n \in Nat, NEW i \in 1 .. n
  PROVE  (\A j \in 1 .. i : j \in 1 .. n) /\ (\A j \in i .. n : j \in 1 .. n) OBVIOUS

\* A hunk that changes something has lines between its leading and its trailing context, so
\* that the two never overlap on the old side.
LEMMA ContextFits ==
  ASSUME NEW h \in Hunk
  PROVE  /\ Lead(h) \in Nat /\ Trail(h) \in Nat /\ OldLen(h) \in Nat
         /\ Lead(h) + Trail(h) <= OldLen(h)
<1> DEFINE s == h.lines
           D == DOMAIN s
           L == {i \in D : \A j \in 1 .. i : s[j].p = " "}
           T == {i \in D : \A j \in i .. Len(s) : s[j].p = " "}
           O == {i \in D : s[i].p # "+"}
<1>1. Len(s) \in Nat /\ D = 1 .. Len(s) BY DEF Hunk
<1>2. PICK c \in D : s[c].p # " " BY DEF Hunk, Changed
<1>3. Lead(h) = Cardinality(L) /\ Trail(h) = Cardinality(T) /\ OldLen(h) = Cardinality(O)
  BY DEF Lead, Trail, OldLen
<1> DEFINE C == {i \in D : s[i].p = " "}
<1>4. c \notin C /\ C \subseteq O BY <1>2, Zenon
<1>4b. ASSUME NEW i \in L, NEW j \in 1 .. i PROVE j \in C
  <2>1. j \in D BY <1>1, AroundIsWithin, Zenon
  <2>2. s[j].p = " " BY Zenon
  <2> QED BY <2>1, <2>2, Zenon
<1>4c. ASSUME NEW i \in T, NEW j \in i .. Len(s) PROVE j \in C
  <2>1. j \in D BY <1>1, AroundIsWithin, Zenon
  <2>2. s[j].p = " " BY Zenon
  <2> QED BY <2>1, <2>2, Zenon
<1>4d. L \subseteq D /\ T \subseteq D /\ O \in SUBSET D BY Zenon
<1> HIDE DEF L, T, C, O, s
<1>5a. ASSUME NEW i \in L PROVE i \in O /\ i < c
  <2>1. i \in 1 .. Len(s) /\ c \in 1 .. Len(s) BY <1>1, <1>4d
  <2>2. i \in C BY <1>1, <1>4b, <2>1
  <2>3. ~(c <= i) BY <1>1, <1>4, <1>4b, <2>1
  <2> QED BY <1>1, <1>4, <2>1, <2>2, <2>3
<1>5b. ASSUME NEW i \in T PROVE i \in O /\ c < i
  <2>1. i \in 1 .. Len(s) /\ c \in 1 .. Len(s) BY <1>1, <1>4d
  <2>2. i \in C BY <1>1, <1>4c, <2>1
  <2>3. ~(i <= c) BY <1>1, <1>4, <1>4c, <2>1
  <2> QED BY <1>1, <1>4, <2>1, <2>2, <2>3
<1>6. L \in SUBSET O /\ T \in SUBSET O /\ L \cup T \in SUBSET O BY <1>5a, <1>5b
<1>7. L \cap T = {}
  <2>1. ASSUME NEW i \in L, i \in T PROVE FALSE
    <3>1. i < c /\ c < i BY <1>5a, <1>5b, <2>1
    <3>2. i \in Int /\ c \in Int BY <1>1, <1>4d
    <3> QED BY <3>1, <3>2
  <2> QED BY <2>1
<1>8. IsFiniteSet(D) BY <1>1, FS_Interval
<1> HIDE DEF D
<1>10. IsFiniteSet(O) BY <1>8, <1>4d, FS_Subset
<1>11. IsFiniteSet(L) /\ IsFiniteSet(T) BY <1>6, <1>10, FS_Subset
<1>12. /\ Cardinality(L) \in Nat /\ Cardinality(T) \in Nat /\ Cardinality(O) \in Nat
  BY <1>10, <1>11, FS_CardinalityType
<1>13. Cardinality(L \cup T) = Cardinality(L) + Cardinality(T) - Cardinality(L \cap T)
  BY <1>11, FS_Union
<1>14. Cardinality(L \cap T) = 0 BY <1>7, FS_EmptySet
<1>15. Cardinality(L \cup T) <= Cardinality(O) BY <1>6, <1>10, FS_Subset
<1> QED BY <1>3, <1>12, <1>13, <1>14, <1>15

\* Ignored context is no more than there is.
LEMMA FuzzFits ==
  ASSUME NEW h \in Hunk, NEW f \in Nat
  PROVE  /\ LeadFuzz(h, f) \in Nat /\ TrailFuzz(h, f) \in Nat
         /\ LeadFuzz(h, f) + TrailFuzz(h, f) <= OldLen(h)
BY ContextFits DEF LeadFuzz, TrailFuzz, Least

-----------------------------------------------------------------------------
(* The inductive invariant.                                                 *)

Place == [pos : Int, lead : Nat, trail : Nat]

SearchTyped ==
  /\ job \in Job
  /\ placed \in Seq(Place)
  /\ Len(placed) <= Len(job.hunks)
  /\ frozen \in Nat
  /\ offset \in Int

\* Every accepted hunk has a segment that is whole, and behind the search.
Behind(n) ==
  placed[n].pos >= 0 =>
    /\ placed[n].lead + placed[n].trail <= OldLen(job.hunks[n])
    /\ placed[n].pos + OldLen(job.hunks[n]) - placed[n].trail <= frozen

SearchInv ==
  /\ SearchTyped
  /\ \A n \in DOMAIN placed : Behind(n)
  /\ SegmentsDisjoint

LEMMA HunksTyped ==
  ASSUME job \in Job
  PROVE  /\ Len(job.hunks) \in Nat
         /\ \A n \in 1 .. Len(job.hunks) : job.hunks[n] \in Hunk
         /\ FileLen \in Nat BY DEF Job, File, FileLen

\* A segment that is behind the search ends there or at the end of the file.
LEMMA SegmentBehind ==
  ASSUME SearchTyped, NEW n \in DOMAIN placed, placed[n].pos >= 0, Behind(n)
  PROVE  /\ SegEnd(job.hunks[n], placed[n]) \in Int
         /\ SegEnd(job.hunks[n], placed[n]) <= frozen
         /\ SegEnd(job.hunks[n], placed[n]) <= FileLen
<1>1. n \in 1 .. Len(job.hunks) /\ placed[n] \in Place BY HunksTyped DEF SearchTyped
<1>2. OldLen(job.hunks[n]) \in Nat BY <1>1, HunksTyped, ContextFits DEF SearchTyped
<1>3. FileLen \in Nat BY HunksTyped DEF SearchTyped
<1> DEFINE k == OldLen(job.hunks[n])
<1>4. k \in Nat BY <1>2
<1> HIDE DEF k
<1>5. /\ placed[n].pos \in Int /\ placed[n].lead \in Nat /\ placed[n].trail \in Nat
  BY <1>1 DEF Place
<1>6. placed[n].lead + placed[n].trail <= k /\ placed[n].pos + k - placed[n].trail <= frozen
  BY DEF Behind, k
<1>7. frozen \in Nat BY DEF SearchTyped
<1>8. SegEnd(job.hunks[n], placed[n])
        = Least(SegStart(job.hunks[n], placed[n])
                  + Greatest(0, k - placed[n].lead - placed[n].trail), FileLen) BY DEF SegEnd, k
<1> QED BY <1>3, <1>4, <1>5, <1>6, <1>7, <1>8 DEF SegStart, Least, Greatest

\* The search begins with nothing placed.
LEMMA SearchInit == Init => SearchInv BY DEF Init, SearchInv, SearchTyped, SegmentsDisjoint, Place

\* The segment of a hunk that is placed stays where it is.
LEMMA SegmentStands ==
  ASSUME NEW i, job' = job, placed'[i] = placed[i]
  PROVE  /\ SegEnd(job.hunks[i], placed[i])' = SegEnd(job.hunks[i], placed[i])
         /\ SegStart(job.hunks[i], placed[i])' = SegStart(job.hunks[i], placed[i])
BY DEF SegEnd, SegStart, FileLen

\* The segment of the hunk that was just placed.
LEMMA NewSegment ==
  ASSUME NEW i, NEW spot, job' = job, placed'[i] = spot
  PROVE  SegStart(job.hunks[i], placed[i])' = Least(spot.pos + spot.lead, FileLen)
BY DEF SegStart, FileLen

\* Placing a hunk keeps the invariant when its segment, if it has one, is after the frozen
\* line and moves it on.
LEMMA PlacingKeeps ==
  ASSUME SearchInv, Searching, NEW spot \in Place, placed' = Append(placed, spot), job' = job,
         offset' \in Int, frozen' \in Nat, frozen' >= frozen,
         spot.pos >= 0 => /\ spot.pos >= frozen /\ spot.lead + spot.trail <= OldLen(This)
                        /\ frozen' = spot.pos + OldLen(This) - spot.trail
  PROVE  SearchInv'
<1> DEFINE h == This
           n == Len(placed) + 1
<1>1. /\ SearchTyped /\ SegmentsDisjoint /\ \A i \in DOMAIN placed : Behind(i) BY DEF SearchInv
<1>2. /\ n \in 1 .. Len(job.hunks) /\ h \in Hunk /\ FileLen \in Nat
      /\ DOMAIN placed = 1 .. Len(placed) /\ Len(placed) \in Nat
  BY <1>1, HunksTyped DEF Searching, SearchTyped, This
<1>3. frozen \in Nat /\ placed \in Seq(Place) /\ job \in Job BY <1>1 DEF SearchTyped
<1>4. h = job.hunks[n] /\ OldLen(h) \in Nat BY <1>2, ContextFits DEF This
<1>5. spot.pos \in Int /\ spot.lead \in Nat /\ spot.trail \in Nat BY DEF Place
<1>6. /\ placed' \in Seq(Place) /\ Len(placed') = n /\ DOMAIN placed' = 1 .. n
      /\ placed'[n] = spot
      /\ \A i \in 1 .. Len(placed) : placed'[i] = placed[i] BY <1>2, <1>3
<1>7. SearchTyped' BY <1>2, <1>3, <1>6 DEF SearchTyped
<1> HIDE DEF h
<1>8. ASSUME NEW i \in DOMAIN placed' PROVE Behind(i)'
  <2>1. CASE i = n BY <1>4, <1>5, <1>6, <2>1 DEF Behind, h
  <2>2. CASE i # n
    <3>1. i \in 1 .. Len(placed) BY <1>2, <1>6, <2>2
    <3>2. Behind(i) /\ placed'[i] = placed[i] /\ placed[i] \in Place
      BY <1>1, <1>2, <1>3, <1>6, <3>1
    <3> DEFINE o == OldLen(job.hunks[i])
               q == placed[i]
    <3>3. o \in Nat BY <1>1, <3>1, HunksTyped, ContextFits DEF SearchTyped
    <3>4. q.pos \in Int /\ q.trail \in Nat /\ q.lead \in Nat BY <3>2 DEF Place
    <3>5. q.pos >= 0 => q.lead + q.trail <= o /\ q.pos + o - q.trail <= frozen BY <3>2 DEF Behind
    <3>6. Behind(i)' <=> (q.pos >= 0 => q.lead + q.trail <= o /\ q.pos + o - q.trail <= frozen')
      BY <3>2 DEF Behind
    <3> HIDE DEF o, q
    <3>7. q.pos + o - q.trail <= frozen => q.pos + o - q.trail <= frozen' BY <1>3, <3>3, <3>4
    <3> QED BY <3>5, <3>6, <3>7
  <2> QED BY <2>1, <2>2
<1>9. ASSUME NEW i \in 1 .. n, NEW j \in 1 .. n PROVE AreDisjoint(i, j)'
  <2>1. CASE ~(i < j) \/ ~(placed'[i].pos >= 0) \/ ~(placed'[j].pos >= 0) BY <2>1 DEF AreDisjoint
  <2>2. CASE i < j /\ placed'[i].pos >= 0 /\ placed'[j].pos >= 0 /\ j = n
    <3> DEFINE end == SegEnd(job.hunks[i], placed[i])
               start == Least(spot.pos + spot.lead, FileLen)
    <3>1. i \in 1 .. Len(placed) BY <1>2, <2>2
    <3>2. Behind(i) /\ i \in DOMAIN placed /\ placed[i].pos >= 0 BY <1>1, <1>2, <1>6, <2>2, <3>1
    <3>3. end \in Int /\ end <= frozen /\ end <= FileLen BY <1>1, <3>2, SegmentBehind
    <3>4. SegEnd(job.hunks[i], placed[i])' = end BY <1>6, <3>1, SegmentStands
    <3>5. SegStart(job.hunks[j], placed[j])' = start BY <1>6, <2>2, NewSegment
    <3>6. spot.pos >= frozen BY <1>6, <2>2
    <3> HIDE DEF end
    <3>7. end <= start BY <1>2, <1>3, <1>5, <3>3, <3>6 DEF Least
    <3> HIDE DEF start
    <3> QED BY <3>4, <3>5, <3>7 DEF AreDisjoint
  <2>3. CASE i < j /\ j # n
    <3>1. i \in 1 .. Len(placed) /\ j \in 1 .. Len(placed) BY <1>2, <2>3
    <3>2. AreDisjoint(i, j) BY <1>1, <1>2, <3>1 DEF SegmentsDisjoint
    <3>3. placed'[i] = placed[i] /\ placed'[j] = placed[j] BY <1>6, <3>1
    <3>4. /\ SegEnd(job.hunks[i], placed[i])' = SegEnd(job.hunks[i], placed[i])
          /\ SegStart(job.hunks[j], placed[j])' = SegStart(job.hunks[j], placed[j])
      BY <3>3, SegmentStands
    <3> QED BY <3>2, <3>3, <3>4 DEF AreDisjoint
  <2> QED BY <2>1, <2>2, <2>3
<1> QED BY <1>6, <1>7, <1>8, <1>9 DEF SearchInv, SegmentsDisjoint

\* An accepted hunk goes at or after the frozen line, and moves it on.
LEMMA Accepted ==
  ASSUME SearchInv, Searching, Accept(This)
  PROVE  \E spot \in Place :
           /\ placed' = Append(placed, spot) /\ job' = job
           /\ offset' = spot.pos - (Greatest(This.oldStart, 1) - 1)
           /\ frozen' = spot.pos + OldLen(This) - spot.trail
           /\ spot.pos >= 0 /\ spot.pos >= frozen /\ spot.lead + spot.trail <= OldLen(This)
<1> DEFINE h == This
           spot(pos, used) == [pos |-> pos, lead |-> LeadFuzz(h, used), trail |-> TrailFuzz(h, used)]
<1>1. PICK f \in 0 .. MaxFuzz : \E pos \in Candidates(h, f), used \in 0 .. MaxFuzz :
        /\ placed' = Append(placed, spot(pos, used)) /\ job' = job
        /\ offset' = pos - (Greatest(h.oldStart, 1) - 1)
        /\ frozen' = pos + OldLen(h) - TrailFuzz(h, used) BY DEF Accept
<1>2. PICK pos \in Candidates(h, f), used \in 0 .. MaxFuzz :
        /\ placed' = Append(placed, spot(pos, used)) /\ job' = job
        /\ offset' = pos - (Greatest(h.oldStart, 1) - 1)
        /\ frozen' = pos + OldLen(h) - TrailFuzz(h, used) BY <1>1
<1>3. pos \in Int /\ pos >= 0 /\ pos >= frozen BY DEF Candidates
<1>4. h \in Hunk /\ used \in Nat
  BY HunksTyped, MaxFuzzIsCount DEF Searching, SearchInv, SearchTyped, This
<1>5. /\ LeadFuzz(h, used) \in Nat /\ TrailFuzz(h, used) \in Nat
      /\ LeadFuzz(h, used) + TrailFuzz(h, used) <= OldLen(h) BY <1>4, FuzzFits
<1>6. spot(pos, used) \in Place BY <1>3, <1>5 DEF Place
<1> HIDE DEF h
<1> QED BY <1>2, <1>3, <1>5, <1>6 DEF h

LEMMA AcceptKeeps ==
  ASSUME SearchInv, Searching, Accept(This)
  PROVE  SearchInv'
<1>1. PICK spot \in Place :
        /\ placed' = Append(placed, spot) /\ job' = job
        /\ offset' = spot.pos - (Greatest(This.oldStart, 1) - 1)
        /\ frozen' = spot.pos + OldLen(This) - spot.trail
        /\ spot.pos >= 0 /\ spot.pos >= frozen /\ spot.lead + spot.trail <= OldLen(This) BY Accepted
<1>2. This \in Hunk /\ frozen \in Nat BY HunksTyped DEF Searching, SearchInv, SearchTyped, This
<1>3. OldLen(This) \in Nat /\ This.oldStart \in Nat BY <1>2, ContextFits DEF Hunk
<1>4. spot.pos \in Int /\ spot.lead \in Nat /\ spot.trail \in Nat BY DEF Place
<1>5. frozen' \in Nat /\ frozen' >= frozen BY <1>1, <1>2, <1>3, <1>4
<1>6. offset' \in Int BY <1>1, <1>3, <1>4 DEF Greatest
<1> QED BY <1>1, <1>5, <1>6, PlacingKeeps

\* A rejected hunk has no segment.
LEMMA RejectKeeps ==
  ASSUME SearchInv, Searching, Reject(This)
  PROVE  SearchInv'
<1>1. Rejected \in Place /\ ~(Rejected.pos >= 0) BY DEF Rejected, Place
<1>2. frozen \in Nat /\ offset \in Int BY DEF SearchInv, SearchTyped
<1> QED BY <1>1, <1>2, PlacingKeeps DEF Reject

\* Writing the result leaves the search alone, and so does a stutter.
LEMMA OthersKeep ==
  ASSUME SearchInv, UNCHANGED <<job, placed, offset, frozen>>
  PROVE  SearchInv'
BY DEF SearchInv, SearchTyped, Behind, SegmentsDisjoint, AreDisjoint, SegEnd, SegStart, FileLen

\* Every step keeps the invariant.
LEMMA SearchStep == SearchInv /\ [Next]_vars => SearchInv'
<1> SUFFICES ASSUME SearchInv, [Next]_vars
             PROVE  SearchInv' OBVIOUS
<1>1. CASE CannotFind BY <1>1, OthersKeep DEF CannotFind
<1>2. CASE Searching /\ Accept(This) BY <1>2, AcceptKeeps
<1>3. CASE Searching /\ Reject(This) BY <1>3, RejectKeeps
<1>4. CASE Finish BY <1>4, OthersKeep DEF Finish
<1>5. CASE UNCHANGED vars BY <1>5, OthersKeep DEF vars
<1> QED BY <1>1, <1>2, <1>3, <1>4, <1>5 DEF Next

\* The segments that builtin_patch replaces never overlap, whatever the hunks say and
\* wherever the search finds them: every accepted hunk is behind the frozen line, and the
\* next one is not.
THEOREM SegmentsAreDisjoint == Spec => []SegmentsDisjoint
<1>1. SearchInv => SegmentsDisjoint BY DEF SearchInv
<1> QED BY <1>1, SearchInit, SearchStep, PTL DEF Spec

-----------------------------------------------------------------------------
(* Rejects.                                                                 *)

\* Wherever the old side of a hunk occurs at or after the frozen line, the spiral passes: the
\* place is a candidate without fuzz.
LEMMA SpiralIsComplete ==
  ASSUME SearchTyped, NEW h \in Hunk, NEW pos \in frozen .. FileLen, Occurs(h, pos)
  PROVE  pos \in Candidates(h, 0)
<1>1. FileLen \in Nat /\ frozen \in Nat /\ offset \in Int BY HunksTyped DEF SearchTyped
<1>2. OldLen(h) \in Nat /\ Lead(h) \in Nat /\ Trail(h) \in Nat BY ContextFits
<1>3. LeadFuzz(h, 0) = 0 /\ TrailFuzz(h, 0) = 0 BY <1>2 DEF LeadFuzz, TrailFuzz, Least
<1>4. Kept(h, 0) = OldLen(h) BY <1>2, <1>3 DEF Kept
<1>5. Guess(h) \in Int BY <1>1 DEF Guess, Hunk
<1>6. pos <= LastStart(h, 0) /\ LastStart(h, 0) \in Int
  <2>1. CASE OldLen(h) = 0 BY <1>1, <1>4, <2>1 DEF LastStart
  <2>2. CASE OldLen(h) > 0
    <3>1. pos + OldLen(h) <= FileLen BY <1>2, <2>2 DEF Occurs
    <3> QED BY <1>1, <1>2, <1>4, <2>2, <3>1 DEF LastStart
  <2> QED BY <1>2, <2>1, <2>2
<1>7. Distance(h, pos) <= Reach(h, 0)
  <2> DEFINE g == Guess(h)
             l == LastStart(h, 0)
  <2>1. g \in Int /\ l \in Int /\ pos <= l BY <1>5, <1>6
  <2>2. /\ Distance(h, pos) = Greatest(pos - g, g - pos)
        /\ Reach(h, 0) = Greatest(0, Greatest(l - g, g - frozen)) BY DEF Distance, Reach
  <2> HIDE DEF g, l
  <2> QED BY <1>1, <2>1, <2>2 DEF Greatest
<1>8. Matches(h, pos, 0)
  <2> SUFFICES ASSUME NEW j \in 1 .. OldLen(h)
               PROVE  /\ pos + j \in 1 .. FileLen
                      /\ job.file.lines[pos + j] = OldSide(h)[j] BY <1>2, <1>3 DEF Matches
  <2> QED BY <1>1, <1>2 DEF Occurs
<1>9. pos \in 0 .. LastStart(h, 0) /\ pos >= frozen BY <1>1, <1>6
<1> QED BY <1>7, <1>8, <1>9 DEF Candidates

\* builtin_patch rejects a hunk only when its old side is nowhere in the part of the file
\* that is left: locate_hunk overlooks no place.
THEOREM RejectsAreOnlyHonest == Spec => RejectsAreHonest
<1> DEFINE Honest == \A n \in DOMAIN placed' \ DOMAIN placed : HonestReject(n)
<1>1. ASSUME SearchInv, [Next]_vars
      PROVE  Honest \/ UNCHANGED vars
  <2> USE <1>1
  <2>1. SearchTyped BY DEF SearchInv
  <2>2. CASE CannotFind \/ Finish BY <2>2 DEF CannotFind, Finish
  <2>3. ASSUME Searching, Accept(This) \/ Reject(This),
               NEW n \in DOMAIN placed' \ DOMAIN placed
        PROVE  HonestReject(n)
    <3>1. /\ Len(placed) + 1 \in 1 .. Len(job.hunks) /\ This \in Hunk
      BY <2>1, <2>3, HunksTyped DEF Searching, SearchTyped, This
    <3>2. PICK p \in Place : /\ placed' = Append(placed, p)
                             /\ p.pos < 0 => NotLocated(This)
      <4>1. CASE Reject(This)
        <5>1. Rejected \in Place BY DEF Rejected, Place
        <5> QED BY <4>1, <5>1 DEF Reject
      <4>2. CASE Accept(This)
        <5>1. PICK p \in Place : placed' = Append(placed, p) /\ p.pos >= 0 BY <2>3, <4>2, Accepted
        <5> QED BY <5>1 DEF Place
      <4> QED BY <2>3, <4>1, <4>2
    <3>3. n = Len(placed) + 1 /\ placed'[n] = p BY <2>1, <2>3, <3>2 DEF SearchTyped
    <3>4. SUFFICES ASSUME p.pos < 0, NEW pos \in frozen .. FileLen, Occurs(This, pos)
                   PROVE  FALSE BY <3>3 DEF HonestReject, This
    <3>5. pos \in Candidates(This, 0) BY <2>1, <3>1, <3>4, SpiralIsComplete
    <3>6. 0 \in 0 .. MaxFuzz BY MaxFuzzIsCount
    <3> QED BY <3>2, <3>4, <3>5, <3>6 DEF NotLocated
  <2> QED BY <2>2, <2>3 DEF Next
<1>2. SearchInv /\ [Next]_vars => [Honest]_vars BY <1>1
<1>3. Spec => []SearchInv BY SearchInit, SearchStep, PTL DEF Spec
<1> QED BY <1>2, <1>3, PTL DEF Spec, RejectsAreHonest

-----------------------------------------------------------------------------
(* What can be reached.                                                     *)

LEMMA ReachIs ==
  ASSUME NEW some, NEW n \in Nodes
  PROVE  /\ Reached(some, n) \subseteq Nodes
         /\ n \in Reached(some, n) BY DEF Reached

\* It is the least closed set.
LEMMA ReachLeast ==
  ASSUME NEW some, NEW n, NEW set \in SUBSET Nodes, n \in set, Closed(some, set)
  PROVE  Reached(some, n) \subseteq set BY DEF Reached

LEMMA ReachOn ==
  ASSUME NEW some, NEW n, NEW e \in some, e[2] \in Nodes, e[1] \in Reached(some, n)
  PROVE  e[2] \in Reached(some, n) BY DEF Reached, Closed

LEMMA ReachClosed ==
  ASSUME NEW some, some \subseteq Nodes \X Nodes, NEW n
  PROVE  Closed(some, Reached(some, n)) BY ReachOn DEF Closed

LEMMA ReachThrough ==
  ASSUME NEW some, some \subseteq Nodes \X Nodes, NEW n \in Nodes, NEW m \in Reached(some, n)
  PROVE  Reached(some, m) \subseteq Reached(some, n)
<1>1. Reached(some, n) \in SUBSET Nodes BY ReachIs
<1> QED BY <1>1, ReachClosed, ReachLeast

LEMMA ReachMore ==
  ASSUME NEW some, NEW more, some \subseteq more, NEW n
  PROVE  Reached(some, n) \subseteq Reached(more, n) BY DEF Reached, Closed

\* Backwards, what is reached is what it can be reached from.
LEMMA ReachBack ==
  ASSUME NEW some, some \subseteq Nodes \X Nodes, NEW n \in Nodes, NEW s \in Nodes
  PROVE  n \in Reached(Backwards(some), s) <=> s \in Reached(some, n)
<1>1. ASSUME n \in Reached(Backwards(some), s) PROVE s \in Reached(some, n)
  <2> DEFINE T == {m \in Nodes : s \in Reached(some, m)}
  <2>1. s \in T BY ReachIs
  <2>2. ASSUME NEW e \in some, e[2] \in T PROVE e[1] \in T
    <3>2. e[1] \in Nodes /\ e[2] \in Nodes OBVIOUS
    <3>3. e[2] \in Reached(some, e[1]) BY <3>2, ReachIs, ReachOn
    <3>4. Reached(some, e[2]) \subseteq Reached(some, e[1]) BY <3>2, <3>3, ReachThrough
    <3> QED BY <2>2, <3>2, <3>4
  <2>3. Closed(Backwards(some), T) BY <2>2 DEF Closed, Backwards
  <2>4. T \in SUBSET Nodes OBVIOUS
  <2>5. Reached(Backwards(some), s) \subseteq T BY <2>1, <2>3, <2>4, ReachLeast
  <2> QED BY <1>1, <2>5
<1>2. ASSUME s \in Reached(some, n) PROVE n \in Reached(Backwards(some), s)
  <2>1. SUFFICES ASSUME NEW T \in SUBSET Nodes, s \in T, Closed(Backwards(some), T)
                 PROVE  n \in T BY DEF Reached
  <2>2. ASSUME NEW e \in some, e[2] \in T PROVE e[1] \in T
    <3>2. <<e[2], e[1]>> \in Backwards(some) BY DEF Backwards
    <3> QED BY <2>1, <2>2, <3>2 DEF Closed
  <2>3. Closed(some, Nodes \ T) BY <2>2 DEF Closed
  <2>4. ASSUME n \notin T PROVE FALSE BY <1>2, <2>1, <2>3, <2>4, ReachLeast
  <2> QED BY <2>4
<1> QED BY <1>1, <1>2

\* Whatever is reached, other than the start, an edge leads to from what is
\* reached; and an edge leads away from the start.
LEMMA ReachBy ==
  ASSUME NEW some, some \subseteq Nodes \X Nodes, NEW n \in Nodes,
         NEW m \in Reached(some, n), m # n
  PROVE  /\ \E e \in some : e[2] = m /\ e[1] \in Reached(some, n)
         /\ \E e \in some : e[1] = n /\ m \in Reached(some, e[2])
<1>1. \E e \in some : e[2] = m /\ e[1] \in Reached(some, n)
  <2> DEFINE T == Reached(some, n) \ {m}
  <2>1. SUFFICES ASSUME ~\E e \in some : e[2] = m /\ e[1] \in Reached(some, n)
                 PROVE  FALSE OBVIOUS
  <2>2. Closed(some, T) BY <2>1, ReachClosed DEF Closed
  <2>3. T \in SUBSET Nodes /\ n \in T BY ReachIs
  <2>4. Reached(some, n) \subseteq T BY <2>2, <2>3, ReachLeast
  <2> QED BY <2>4
<1>2. \E e \in some : e[1] = n /\ m \in Reached(some, e[2])
  <2> DEFINE T == {n} \cup {k \in Nodes : \E e \in some : e[1] = n /\ k \in Reached(some, e[2])}
  <2>1. ASSUME NEW d \in some, d[1] \in T PROVE d[2] \in T
    <3>2. d[1] \in Nodes /\ d[2] \in Nodes OBVIOUS
    <3>3. CASE d[1] = n BY <3>2, <3>3, ReachIs
    <3>4. CASE d[1] # n BY <2>1, <3>2, <3>4, ReachOn
    <3> QED BY <3>3, <3>4
  <2>2. Closed(some, T) BY <2>1 DEF Closed
  <2>3. T \in SUBSET Nodes /\ n \in T OBVIOUS
  <2>4. m \in T BY <2>2, <2>3, ReachLeast
  <2> QED BY <2>4
<1> QED BY <1>1, <1>2

-----------------------------------------------------------------------------
(* Reduction.                                                               *)

\* Every set of numbers has a least element.
LEMMA LeastNumber ==
  ASSUME NEW T, T \subseteq Nat, T # {}
  PROVE  \E m \in T : \A k \in T : m <= k
<1>1. IsWellFoundedOn(OpToRel(<, Nat), Nat) BY NatLessThanWellFounded
<1>2. PICK m \in T : \A k \in T : <<k, m>> \notin OpToRel(<, Nat) BY <1>1, WFMin
<1>3. \A k \in T : ~(k < m) BY <1>2 DEF OpToRel
<1>4. \A k \in T : m <= k BY <1>3
<1> QED BY <1>4

\* All edges lead to later patches.
Forward(some) == \A e \in some : e \in Nodes \X Nodes /\ e[1] < e[2]

Alternate(some, e) == e[2] \in Reached(some \ {e}, e[1])

\* When the edges with an alternate path are left out, all at once, each of them
\* can still be replaced: the longest is replaced by shorter ones, and these in turn.
LEMMA ReductionKeeps ==
  ASSUME Nodes \subseteq Nat, NEW some, Forward(some),
         NEW kept, kept = {e \in some : ~Alternate(some, e)}
  PROVE  \A e \in some : e[2] \in Reached(kept, e[1])
<1> DEFINE Bad == {e \in some : e[2] \notin Reached(kept, e[1])}
           T == {e[2] - e[1] : e \in Bad}
<1>0. kept \subseteq some /\ some \subseteq Nodes \X Nodes BY DEF Forward
<1>1. SUFFICES ASSUME Bad # {} PROVE FALSE OBVIOUS
<1>2. T \subseteq Nat /\ T # {}
  <2>1. \A e \in Bad : e[1] \in Nat /\ e[2] \in Nat /\ e[1] < e[2] BY DEF Forward
  <2>2. \A e \in Bad : e[2] - e[1] \in Nat BY <2>1
  <2> QED BY <1>1, <2>2
<1>3. PICK d \in T : \A k \in T : d <= k
  <2> HIDE DEF T
  <2> QED BY <1>2, LeastNumber
<1>4. PICK e \in Bad : d = e[2] - e[1] OBVIOUS
<1> DEFINE x == e[1]
           y == e[2]
<1>5. e \in some /\ x \in Nodes /\ y \in Nodes /\ x < y /\ y \notin Reached(kept, x)
      /\ x \in Nat /\ y \in Nat /\ e = <<x, y>> BY <1>4 DEF Forward
<1>6. Alternate(some, e)
  <2>1. SUFFICES ASSUME ~Alternate(some, e) PROVE FALSE OBVIOUS
  <2>2. e \in kept BY <1>5, <2>1
  <2>3. y \in Reached(kept, x) BY <1>5, <2>2, ReachIs, ReachOn
  <2> QED BY <1>5, <2>3
<1> DEFINE S == Reached(kept, x)
           U == {n \in Nodes : n \in S \/ n > y}
<1>7. S \subseteq {n \in Nodes : n >= x}
  <2> DEFINE V == {n \in Nodes : n >= x}
  <2>1. Closed(kept, V)
    <3>1. \A c \in kept : c[1] \in Nat /\ c[2] \in Nat /\ c[1] < c[2] /\ c[2] \in Nodes
      BY <1>0 DEF Forward
    <3> QED BY <1>5, <3>1 DEF Closed
  <2>2. V \in SUBSET Nodes /\ x \in V BY <1>5
  <2> QED BY <2>1, <2>2, ReachLeast
<1>8. ASSUME NEW c \in some, c # e, c[1] \in U, c[2] \notin U PROVE FALSE
  <2>2. c = <<c[1], c[2]>> /\ c[1] \in Nodes /\ c[2] \in Nodes /\ c[1] < c[2]
        /\ c[1] \in Nat /\ c[2] \in Nat BY DEF Forward
  <2>3. c[2] <= y /\ c[2] \notin S BY <1>5, <1>8, <2>2
  <2>4. c[1] \in S /\ c[1] >= x BY <1>5, <1>7, <1>8, <2>2, <2>3
  <2>5. ~(c[1] = x /\ c[2] = y) BY <1>5, <1>8, <2>2
  <2>6. c[2] - c[1] < y - x BY <1>5, <2>2, <2>3, <2>4, <2>5
  <2>7. c[2] - c[1] \notin T BY <1>3, <1>4, <1>5, <2>2, <2>6
  <2>8. c[2] \in Reached(kept, c[1]) BY <1>8, <2>7
  <2>9. Reached(kept, c[1]) \subseteq S
    <3>1. kept \subseteq Nodes \X Nodes BY <1>0
    <3> QED BY <1>5, <2>4, <3>1, ReachThrough
  <2> QED BY <2>3, <2>8, <2>9
<1>9. y \in U
  <2>1. Closed(some \ {e}, U) BY <1>8 DEF Closed
  <2>2. U \in SUBSET Nodes /\ x \in U BY <1>5, ReachIs
  <2>3. Reached(some \ {e}, x) \subseteq U BY <2>1, <2>2, ReachLeast
  <2> QED BY <1>6, <2>3 DEF Alternate
<1> QED BY <1>5, <1>9

-----------------------------------------------------------------------------
(* graph: the invariant.                                                    *)

Stages == {"link", "sweep", "forward", "backward", "drawing", "detour", "drawn"}
Linking == stage \in {"link", "sweep"}
Drawing == stage \in {"drawing", "detour", "drawn"}

\* The loops keep to the patches, and all edges lead to later ones.
QueryOK ==
  /\ query \in Query /\ stage \in Stages
  /\ Forward(edges)
  /\ node \in Nat /\ node <= Len(query.touches)
  /\ todo \subseteq (IF node = 0 THEN {} ELSE Shown(node))
  /\ pending \subseteq Nodes /\ seen \subseteq Nodes
  /\ tested \subseteq edges /\ detours \subseteq edges

\* The last patch that conflicts with j in the file.
Conflicted(k, j, f) == k \in Nodes /\ k < j /\ f \in Shown(k) /\ Conflicting(k, j, f)
LastConflict(k, j, f) ==
  /\ f \in Shown(j) /\ Conflicted(k, j, f)
  /\ \A l \in Nodes : Conflicted(l, j, f) => l <= k

\* The links of the patches and files that were looked at.
Found(e) ==
  \E f \in Shown(e[2]) :
    /\ LastConflict(e[1], e[2], f)
    /\ e[2] < node \/ (e[2] = node /\ f \notin todo)

LinksOK ==
  Linking =>
    /\ edges = {e \in Nodes \X Nodes : Found(e)}
    /\ tested = {} /\ detours = {}

\* While two patches are compared, the ones between them did not conflict.
CompareOK ==
  stage = "sweep" =>
    /\ query.lines /\ at.file \in todo /\ node > 0
    /\ at.earlier \in Nodes /\ at.earlier < node /\ at.file \in Shown(at.earlier)
    /\ \A k \in Nodes : Conflicted(k, node, at.file) => k <= at.earlier
    /\ at = [file |-> at.file, earlier |-> at.earlier, a |-> at.a, b |-> at.b]
    /\ at.a \in Nat /\ at.a <= Len(SideA) /\ at.b \in Nat /\ at.b <= Len(SideB)

NoLines(r) == r = <<0, 0>>

\* A sweep has passed the first m bounds of a and n of b: no bound that was passed
\* is behind one that was not, it is not inside a range of both, and no two ranges
\* that it has entered meet.  Two sides without lines meet at once.
Swept(a, m, b, n) ==
  /\ NoLines(a) /\ NoLines(b) => m = 0 /\ n = 0
  /\ \A i \in DOMAIN a, j \in DOMAIN b :
       /\ i <= m /\ n < j => a[i] <= b[j]
       /\ m < i /\ j <= n => b[j] <= a[i]
  /\ ~(Odd(m) /\ Odd(n))
  /\ \A i \in DOMAIN a, j \in DOMAIN b :
       i <= m /\ j <= n /\ Opens(a, i) /\ Opens(b, j) => ~Meet(a, i, b, j)

SweepOK == stage = "sweep" => Swept(SideA, at.a, SideB, at.b)

\* A walk from a patch: all it has come to can be reached, and what is next to a
\* patch that it has seen is seen or on the stack.
Walks(some, from, stack, done) ==
  /\ from \in stack \cup done
  /\ stack \cup done \subseteq Reached(some, from)
  /\ \A n \in done : Ahead(some, n) \subseteq stack \cup done

WalkOK(some, from) == Walks(some, from, pending, seen)

CollectOK ==
  /\ stage \in {"forward", "backward"} =>
       /\ query.selected # 0 /\ edges = Dependencies /\ tested = {} /\ detours = {}
  /\ stage = "forward" => WalkOK(edges, query.selected)
  /\ stage = "backward" =>
       /\ near = Reached(edges, query.selected)
       /\ WalkOK(Backwards(edges), query.selected)

DrawOK ==
  Drawing =>
    /\ edges = {e \in Dependencies : query.selected = 0 \/ (Related(e[1]) /\ Related(e[2]))}
    /\ query.selected # 0 => near = {n \in Nodes : Related(n)}
    /\ detours = {e \in tested : Alternate(edges, e)}
    /\ stage = "drawn" /\ query.reduce => edges \subseteq tested

\* While an edge is looked at, the walk has not come to where it leads.
DetourOK ==
  stage = "detour" =>
    /\ key \in edges /\ key \notin tested
    /\ WalkOK(Ways, key[1])
    /\ key[2] \notin pending \cup seen

GInv == QueryOK /\ LinksOK /\ CompareOK /\ SweepOK /\ CollectOK /\ DrawOK /\ DetourOK

-----------------------------------------------------------------------------
(* What the call alone decides stays as it is.                              *)

LEMMA SameCall ==
  ASSUME query' = query
  PROVE  /\ Nodes' = Nodes
         /\ \A i : Shown(i)' = Shown(i)
         /\ \A i, f : Before(i, f)' = Before(i, f)
         /\ \A some, n : Ahead(some, n)' = Ahead(some, n)
         /\ \A some, n : Reached(some, n)' = Reached(some, n)
         /\ \A some : Forward(some)' = Forward(some)
         /\ \A some, e : Alternate(some, e)' = Alternate(some, e)
         /\ \A k, j, f : Conflicted(k, j, f)' = Conflicted(k, j, f)
         /\ \A k, j, f : LastConflict(k, j, f)' = LastConflict(k, j, f)
         /\ \A i, j : Depends(i, j)' = Depends(i, j)
         /\ Dependencies' = Dependencies
         /\ \A n : Related(n)' = Related(n)
         /\ \A some, n, stack, done : Walks(some, n, stack, done)' = Walks(some, n, stack, done)
BY DEF Nodes, Shown, Before, Ahead, Reached, Forward, Alternate, Conflicting, Conflicted,
       LastConflict, Depends, Dependencies, Related, Walks

-----------------------------------------------------------------------------
(* The sweep over two lists of ranges.                                      *)

LEMMA Parity ==
  /\ ~Odd(0)
  /\ \A n \in Nat : Odd(n + 1) <=> ~Odd(n)
  /\ \A m, n \in Nat : m <= n /\ ~Odd(n) => (Odd(n - m) <=> Odd(m)) BY DEF Odd

LEMMA RangesAre ==
  ASSUME NEW r, IsRanges(r)
  PROVE  /\ Len(r) \in Nat /\ DOMAIN r = 1 .. Len(r) /\ ~Odd(Len(r))
         /\ \A i \in 1 .. Len(r) : r[i] \in Nat
         /\ \A i, j \in 1 .. Len(r) : i <= j => r[i] <= r[j]
         /\ \A i \in 1 .. Len(r) : Odd(i) => i + 1 \in 1 .. Len(r)
         /\ \A i \in 1 .. Len(r) : r[i] = 0 => NoLines(r)
         /\ ~NoLines(r) => \A i \in 1 .. Len(r) : Odd(i) => r[i] < r[i + 1]
         /\ NoLines(r) => Len(r) = 2 /\ \A i \in 1 .. Len(r) : r[i] = 0
<1>1. r \in Seq(Nat) /\ Len(r) \in Nat /\ DOMAIN r = 1 .. Len(r) /\ ~Odd(Len(r))
      /\ \A i \in 1 .. Len(r) : r[i] \in Nat BY DEF IsRanges
<1>2. \A i \in 1 .. Len(r) : Odd(i) => i + 1 \in 1 .. Len(r) BY <1>1
<1>3. \A i \in 1 .. Len(r) : i + 1 \in 1 .. Len(r) => r[i] <= r[i + 1]
  <2>1. CASE r = <<0, 0>> BY <2>1
  <2>2. CASE r # <<0, 0>>
    <3>1. SUFFICES ASSUME NEW i \in 1 .. Len(r), i + 1 \in 1 .. Len(r) PROVE r[i] <= r[i + 1]
      OBVIOUS
    <3>2. i \in DOMAIN r /\ i + 1 \in DOMAIN r BY <1>1, <3>1
    <3>3. IF Odd(i) THEN r[i] < r[i + 1] ELSE r[i] <= r[i + 1] BY <2>2, <3>2 DEF IsRanges
    <3>4. r[i] \in Nat /\ r[i + 1] \in Nat BY <1>1, <3>1
    <3> QED BY <3>3, <3>4
  <2> QED BY <2>1, <2>2
<1>4. ASSUME NEW i \in 1 .. Len(r), NEW j \in 1 .. Len(r), i <= j PROVE r[i] <= r[j]
  <2> DEFINE T == {k \in 1 .. Len(r) : i <= k /\ r[k] < r[i]}
  <2>1. SUFFICES ASSUME T # {} PROVE FALSE BY <1>1, <1>4
  <2>2. T \subseteq Nat BY <1>1
  <2>3. PICK k \in T : \A l \in T : k <= l
    <3> HIDE DEF T
    <3> QED BY <2>1, <2>2, LeastNumber
  <2>4. k \in 1 .. Len(r) /\ i <= k /\ r[k] < r[i] /\ k # i /\ k \in Nat /\ i \in Nat BY <1>1
  <2>5. k - 1 \in 1 .. Len(r) /\ k - 1 >= i /\ k - 1 \notin T BY <1>1, <2>3, <2>4
  <2>6. r[k - 1] >= r[i] BY <1>1, <2>5
  <2>7. r[k - 1] <= r[(k - 1) + 1] /\ (k - 1) + 1 = k BY <1>1, <1>3, <2>4, <2>5
  <2> QED BY <1>1, <2>4, <2>5, <2>6, <2>7
<1>5. CASE NoLines(r)
  <2>1. r = <<0, 0>> BY <1>5 DEF NoLines
  <2>2. Len(r) = 2 /\ \A i \in 1 .. Len(r) : r[i] = 0 BY <2>1
  <2> QED BY <1>1, <1>2, <1>4, <1>5, <2>2
<1>6. CASE ~NoLines(r)
  <2>1. \A i \in 1 .. Len(r) : r[i] > 0 /\ (Odd(i) => r[i] < r[i + 1])
    BY <1>1, <1>2, <1>6 DEF IsRanges, NoLines
  <2>2. \A i \in 1 .. Len(r) : r[i] # 0 BY <1>1, <2>1
  <2> QED BY <1>1, <1>2, <1>4, <1>6, <2>1, <2>2
<1> QED BY <1>5, <1>6

\* The two sides can change places.
LEMMA SweptBoth ==
  ASSUME NEW a, NEW b, NEW m, NEW n, Swept(a, m, b, n)
  PROVE  Swept(b, n, a, m) BY DEF Swept, Meet

LEMMA OverlapBoth ==
  ASSUME NEW a, NEW b, Overlap(a, b)
  PROVE  Overlap(b, a) BY DEF Overlap, Meet

\* What was passed is not behind what was not.
LEMMA SweptOver ==
  ASSUME NEW a, IsRanges(a), NEW b, IsRanges(b), NEW m \in Nat, NEW n \in Nat, Swept(a, m, b, n),
         NEW i \in 1 .. Len(a), NEW j \in 1 .. Len(b)
  PROVE  /\ i <= m /\ n < j => a[i] <= b[j]
         /\ m < i /\ j <= n => b[j] <= a[i]
<1>1. i \in DOMAIN a /\ j \in DOMAIN b BY RangesAre
<1> QED BY <1>1 DEF Swept

\* The next bound of one side, not behind that of the other, is passed while the sweep is
\* in no range of the other.
LEMMA SweptOne ==
  ASSUME NEW a, IsRanges(a), NEW b, IsRanges(b), ~(NoLines(a) /\ NoLines(b)),
         NEW m \in Nat, m < Len(a), NEW n \in Nat, n <= Len(b), Swept(a, m, b, n),
         n < Len(b) => a[m + 1] <= b[n + 1], ~Odd(n)
  PROVE  Swept(a, m + 1, b, n)
<1>1. Len(a) \in Nat /\ DOMAIN a = 1 .. Len(a) /\ (\A i \in 1 .. Len(a) : a[i] \in Nat)
      /\ Len(b) \in Nat /\ DOMAIN b = 1 .. Len(b) /\ (\A i \in 1 .. Len(b) : b[i] \in Nat)
  BY RangesAre
<1>2. m + 1 \in 1 .. Len(a) BY <1>1
<1>3. ASSUME NEW i \in 1 .. Len(a), NEW j \in 1 .. Len(b), i <= m + 1, n < j PROVE a[i] <= b[j]
  <2>1. CASE i <= m BY <1>1, <1>3, <2>1 DEF Swept
  <2>2. CASE i = m + 1
    <3>1. n + 1 \in 1 .. Len(b) /\ n + 1 <= j /\ n < Len(b) BY <1>1, <1>3
    <3>2. b[n + 1] <= b[j] BY <3>1, RangesAre
    <3> QED BY <1>1, <1>2, <2>2, <3>1, <3>2
  <2> QED BY <1>1, <1>3, <2>1, <2>2
<1>4. ASSUME NEW i \in 1 .. Len(a), NEW j \in 1 .. Len(b), m + 1 < i, j <= n PROVE b[j] <= a[i]
  <2>1. m < i BY <1>4
  <2> QED BY <1>1, <1>4, <2>1 DEF Swept
<1>5. ASSUME NEW i \in 1 .. Len(a), NEW j \in 1 .. Len(b), i <= m + 1, j <= n, Opens(a, i), Opens(b, j)
      PROVE  ~Meet(a, i, b, j)
  <2>1. CASE i <= m BY <1>1, <1>5, <2>1 DEF Swept
  <2>2. CASE i = m + 1
    <3>1. Odd(j) /\ j # n BY <1>5 DEF Opens
    <3>2. j + 1 \in 1 .. Len(b) /\ j + 1 <= n BY <1>1, <1>5, <3>1
    <3>3. b[j + 1] <= a[m + 1] BY <1>2, <3>2, SweptOver
    <3>4. b[j] # a[m + 1]
      <4>1. CASE NoLines(b) BY <1>2, <4>1, RangesAre
      <4>2. CASE ~NoLines(b)
        <5>1. b[j] < b[j + 1] BY <3>1, <4>2, RangesAre
        <5> QED BY <1>1, <1>2, <3>2, <3>3, <5>1
      <4> QED BY <4>1, <4>2
    <3> QED BY <1>1, <1>2, <2>2, <3>2, <3>3, <3>4 DEF Meet
  <2> QED BY <1>1, <1>5, <2>1, <2>2
<1>6. ~(Odd(m + 1) /\ Odd(n)) OBVIOUS
<1> QED BY <1>1, <1>3, <1>4, <1>5, <1>6 DEF Swept

\* A bound of both is passed: the sweep leaves a range of b and enters one of a.
LEMMA SweptTwo ==
  ASSUME NEW a, IsRanges(a), NEW b, IsRanges(b), ~(NoLines(a) /\ NoLines(b)),
         NEW m \in Nat, m < Len(a), NEW n \in Nat, n < Len(b), Swept(a, m, b, n),
         a[m + 1] = b[n + 1], ~Odd(m), Odd(n)
  PROVE  Swept(a, m + 1, b, n + 1)
<1>1. Len(b) \in Nat /\ m + 1 \in 1 .. Len(a) /\ a[m + 1] \in Nat BY RangesAre
<1>2. b[n + 1] <= a[m + 1] /\ Swept(b, n, a, m) BY <1>1, SweptBoth
<1>3. Swept(b, n + 1, a, m) BY <1>2, SweptOne
<1>4. n + 1 < Len(b) => b[n + 1] <= b[(n + 1) + 1] BY <1>1, RangesAre
<1>5. ~Odd(n + 1) BY Parity
<1> QED BY <1>1, <1>3, <1>4, <1>5, SweptBoth, SweptOne

\* The lower bound is inside a range of the other side.
LEMMA HitInside ==
  ASSUME NEW a, IsRanges(a), NEW b, IsRanges(b),
         NEW m \in Nat, m < Len(a), NEW n \in Nat, n < Len(b), Swept(a, m, b, n),
         a[m + 1] < b[n + 1], Odd(n)
  PROVE  Overlap(a, b)
<1>1. Len(a) \in Nat /\ DOMAIN a = 1 .. Len(a) /\ (\A i \in 1 .. Len(a) : a[i] \in Nat)
      /\ Len(b) \in Nat /\ DOMAIN b = 1 .. Len(b) /\ (\A i \in 1 .. Len(b) : b[i] \in Nat)
  BY RangesAre
<1>2. n # 0 BY Parity
<1>3. m + 1 \in 1 .. Len(a) /\ n + 1 \in 1 .. Len(b) /\ n \in 1 .. Len(b) BY <1>1, <1>2
<1>4. ~Odd(m) BY DEF Swept
<1>5. Odd(m + 1) BY <1>4, Parity
<1>6. Opens(a, m + 1) /\ Opens(b, n) BY <1>1, <1>3, <1>5 DEF Opens
<1>7. (m + 1) + 1 \in 1 .. Len(a) BY <1>3, <1>5, RangesAre
<1>8. b[n] <= a[m + 1] BY <1>3, SweptOver
<1>9. ~NoLines(a)
  <2>1. SUFFICES ASSUME NoLines(a) PROVE FALSE OBVIOUS
  <2>2. a[m + 1] = 0 BY <1>3, <2>1, RangesAre
  <2>3. b[n] = 0 BY <1>1, <1>3, <1>8, <2>2
  <2>4. NoLines(b) BY <1>3, <2>3, RangesAre
  <2> QED BY <1>2, <2>1, <2>4 DEF Swept
<1>10. a[m + 1] < a[(m + 1) + 1] BY <1>3, <1>5, <1>9, RangesAre
<1>11. b[n] < a[(m + 1) + 1] BY <1>1, <1>3, <1>7, <1>8, <1>10
<1>12. Meet(a, m + 1, b, n) BY <1>11 DEF Meet
<1> QED BY <1>1, <1>3, <1>6, <1>12 DEF Overlap

\* All bounds of a side are passed, and there was no hit.
LEMMA SweptAll ==
  ASSUME NEW a, IsRanges(a), NEW b, IsRanges(b), NEW n, n \in Nat, n <= Len(b),
         Swept(a, Len(a), b, n)
  PROVE  ~Overlap(a, b)
<1>1. Len(a) \in Nat /\ DOMAIN a = 1 .. Len(a) /\ (\A i \in 1 .. Len(a) : a[i] \in Nat)
      /\ Len(b) \in Nat /\ DOMAIN b = 1 .. Len(b) /\ (\A i \in 1 .. Len(b) : b[i] \in Nat)
  BY RangesAre
<1>2. SUFFICES ASSUME NEW i \in 1 .. Len(a), NEW j \in 1 .. Len(b),
                      Opens(a, i), Opens(b, j), Meet(a, i, b, j)
               PROVE  FALSE BY <1>1 DEF Overlap
<1>3. i <= Len(a) /\ Odd(i) BY <1>1, <1>2 DEF Opens
<1>4. n < j BY <1>1, <1>2, <1>3 DEF Swept
<1>5. i + 1 \in 1 .. Len(a) BY <1>3, RangesAre
<1>6. ASSUME NEW k \in 1 .. Len(a) PROVE a[k] <= b[j]
  <2>2. k <= Len(a) BY <1>1
  <2> QED BY <1>1, <1>4, <2>2, SweptOver
<1>7. a[i] = b[j] BY <1>1, <1>2, <1>5, <1>6 DEF Meet
<1>8. NoLines(a)
  <2>1. ~(a[i] < a[i + 1]) BY <1>1, <1>5, <1>6, <1>7
  <2> QED BY <1>3, <2>1, RangesAre
<1>9. a[i] = 0 /\ Len(a) = 2 BY <1>8, RangesAre
<1>10. NoLines(b) BY <1>7, <1>9, RangesAre
<1> QED BY <1>8, <1>9, <1>10 DEF Swept

-----------------------------------------------------------------------------
(* graph: linking.                                                          *)

LEMMA CallFacts ==
  ASSUME query \in Query
  PROVE  /\ Len(query.touches) \in Nat /\ Nodes = 1 .. Len(query.touches) /\ Nodes \subseteq Nat
         /\ \A i \in Nodes : Shown(i) \subseteq Files
         /\ query.selected # 0 => query.selected \in Nodes
         /\ \A i \in Nodes : \A f \in Files : IsRanges(query.left[i][f]) /\ IsRanges(query.right[i][f])
<1>1. Len(query.touches) \in Nat /\ Nodes = 1 .. Len(query.touches) /\ query.selected \in Nat
      /\ \A i \in Nodes : query.touches[i] \subseteq Files BY DEF Query, Nodes
<1>2. \A i \in Nodes : Shown(i) \subseteq Files BY <1>1 DEF Shown
<1>3. query.selected # 0 => query.selected \in Nodes BY <1>1 DEF Query
<1>4. \A i \in Nodes : \A f \in Files : IsRanges(query.left[i][f]) /\ IsRanges(query.right[i][f])
  BY DEF Query, Nodes
<1> QED BY <1>1, <1>2, <1>3, <1>4

LEMMA GraphStarts ==
  ASSUME GraphInit
  PROVE  GInv
<1>1. query \in Query /\ Len(query.touches) \in Nat /\ Nodes = 1 .. Len(query.touches)
  BY QueriesAreLegal, CallFacts DEF GraphInit, GraphAtStart
<1>2. QueryOK
  <2>1. stage = "link" /\ edges = {} /\ node = 0 /\ todo = {} /\ pending = {} /\ seen = {}
        /\ tested = {} /\ detours = {} BY DEF GraphInit, GraphAtStart, NoWalk
  <2>2. Forward(edges) BY <2>1 DEF Forward
  <2> QED BY <1>1, <2>1, <2>2 DEF QueryOK, Stages
<1>3. LinksOK
  <2>1. \A e \in Nodes \X Nodes : ~Found(e)
    <3>1. node = 0 /\ \A e \in Nodes \X Nodes : e[2] \in 1 .. Len(query.touches)
      BY <1>1 DEF GraphInit, GraphAtStart
    <3>2. \A e \in Nodes \X Nodes : ~(e[2] < node) /\ e[2] # node BY <1>1, <3>1
    <3> QED BY <3>2 DEF Found
  <2> QED BY <2>1 DEF GraphInit, GraphAtStart, LinksOK
<1> QED
  BY <1>2, <1>3
    DEF GInv, GraphInit, GraphAtStart, CompareOK, SweepOK, CollectOK, DrawOK, DetourOK, Drawing

\* What there is to say of each loop.
LEMMA LoopInv ==
  ASSUME QueryOK',
         \/ stage' = "link" /\ LinksOK'
         \/ stage' = "sweep" /\ LinksOK' /\ CompareOK' /\ SweepOK'
         \/ stage' \in {"forward", "backward"} /\ CollectOK'
         \/ stage' \in {"drawing", "drawn"} /\ DrawOK'
         \/ stage' = "detour" /\ DrawOK' /\ DetourOK'
  PROVE  GInv'
BY DEF GInv, LinksOK, CompareOK, SweepOK, CollectOK, DrawOK, DetourOK, Linking, Drawing

LEMMA SweptNone ==
  ASSUME NEW a, IsRanges(a), NEW b, IsRanges(b)
  PROVE  Swept(a, 0, b, 0)
<1>1. \A i \in DOMAIN a : ~(i <= 0) BY RangesAre
<1>2. \A i \in DOMAIN b : ~(i <= 0) BY RangesAre
<1> QED BY <1>1, <1>2, Parity DEF Swept

\* One more file of the patch is looked at.
LEMMA FileDone ==
  ASSUME QueryOK, query' = query, node' = node, NEW f \in todo, todo' = todo \ {f},
         NEW e \in Nodes \X Nodes
  PROVE  Found(e)' <=> Found(e) \/ (e[2] = node /\ LastConflict(e[1], e[2], f))
<1>1. node # 0 /\ f \in Shown(node) BY DEF QueryOK
<1>2. Found(e)' <=> \E g \in Shown(e[2]) :
                      /\ LastConflict(e[1], e[2], g)
                      /\ e[2] < node \/ (e[2] = node /\ g \notin todo \ {f}) BY SameCall DEF Found
<1>3. e[1] \in Nat /\ e[2] \in Nat /\ node \in Nat BY CallFacts DEF QueryOK
<1> QED BY <1>1, <1>2, <1>3 DEF Found

\* It is linked with one patch, or with none.
LEMMA FileLinked ==
  ASSUME GInv, Linking, query' = query, node' = node, NEW f \in todo, todo' = todo \ {f},
         stage' = "link", tested' = tested, detours' = detours, pending' = pending, seen' = seen,
         \/ /\ edges' = edges
            /\ \A k \in Nodes : ~Conflicted(k, node, f)
         \/ \E k \in Nodes : edges' = edges \cup {<<k, node>>} /\ LastConflict(k, node, f)
  PROVE  GInv'
<1>1. query' \in Query /\ Len(query.touches) \in Nat /\ node \in Nodes /\ f \in Shown(node)
      /\ Nodes \subseteq Nat
  <2>1. node # 0 /\ f \in Shown(node) /\ node \in Nat /\ node <= Len(query.touches)
    BY DEF GInv, QueryOK
  <2> QED BY <2>1, CallFacts DEF GInv, QueryOK
<1>2. \A e \in Nodes \X Nodes :
        Found(e)' <=> Found(e) \/ (e[2] = node /\ LastConflict(e[1], e[2], f))
  BY FileDone DEF GInv
<1>3. edges = {e \in Nodes \X Nodes : Found(e)} /\ tested = {} /\ detours = {}
  BY DEF GInv, LinksOK
<1>4. edges' = {e \in Nodes \X Nodes : Found(e)'}
  <2>1. CASE edges' = edges /\ \A k \in Nodes : ~Conflicted(k, node, f)
    <3>1. \A k \in Nodes : ~LastConflict(k, node, f) BY <2>1 DEF LastConflict
    <3>2. \A e \in Nodes \X Nodes : Found(e)' <=> Found(e) BY <1>2, <3>1
    <3> QED BY <1>3, <2>1, <3>2
  <2>2. CASE \E k \in Nodes : edges' = edges \cup {<<k, node>>} /\ LastConflict(k, node, f)
    <3>1. PICK k \in Nodes : edges' = edges \cup {<<k, node>>} /\ LastConflict(k, node, f) BY <2>2
    <3>2. ASSUME NEW l \in Nodes, LastConflict(l, node, f) PROVE l = k
      <4>2. l <= k /\ k <= l BY <3>1, <3>2 DEF LastConflict
      <4> QED BY <1>1, <4>2
    <3>3. ASSUME NEW e \in Nodes \X Nodes PROVE Found(e)' <=> Found(e) \/ e = <<k, node>>
      <4>2. e = <<k, node>> <=> e[1] = k /\ e[2] = node OBVIOUS
      <4>3. e[2] = node => (LastConflict(e[1], e[2], f) <=> e[1] = k) BY <3>1, <3>2
      <4> QED BY <1>2, <4>2, <4>3
    <3> QED BY <1>1, <1>3, <3>1, <3>3
  <2> QED BY <2>1, <2>2
<1>5. \A e \in Nodes \X Nodes : Found(e)' => e[1] < e[2]
  BY SameCall DEF Found, LastConflict, Conflicted
<1>6. QueryOK'
  <2>1. Forward(edges)' BY <1>4, <1>5, SameCall DEF Forward
  <2>2. todo' \subseteq Shown(node) /\ node # 0 BY <1>1 DEF GInv, QueryOK
  <2> QED BY <1>1, <1>3, <2>1, <2>2, SameCall DEF GInv, QueryOK, Stages
<1>7. LinksOK' BY <1>3, <1>4, SameCall DEF LinksOK
<1> QED BY <1>6, <1>7, LoopInv

\* The comparison of a file with an earlier patch begins, the ones between did not conflict.
LEMMA CompareStarts ==
  ASSUME GInv, Linking, query.lines, NEW f \in todo, NEW k \in Nodes, Compare(f, k),
         k < node, f \in Shown(k), \A l \in Nodes : Conflicted(l, node, f) => l <= k,
         query' = query, edges' = edges, node' = node, todo' = todo, pending' = pending,
         seen' = seen, tested' = tested, detours' = detours
  PROVE  GInv'
<1>1. query \in Query /\ node \in Nodes /\ f \in Shown(node) /\ node # 0 /\ Nodes \subseteq Nat
  BY CallFacts DEF GInv, QueryOK
<1>2. stage' = "sweep" /\ at' = [file |-> f, earlier |-> k, a |-> 0, b |-> 0] BY DEF Compare
<1>3. at'.file = f /\ at'.earlier = k /\ at'.a = 0 /\ at'.b = 0 BY <1>2
<1>4. SideA' = query.right[node][f] /\ SideB' = query.left[k][f] BY <1>3 DEF SideA, SideB
<1>5. IsRanges(SideA') /\ IsRanges(SideB') BY <1>1, <1>4, CallFacts
<1>6. SweepOK' BY <1>3, <1>5, SweptNone DEF SweepOK
<1>7. CompareOK'
  <2>1. Len(SideA') \in Nat /\ Len(SideB') \in Nat BY <1>5, RangesAre
  <2>2. Nodes' = Nodes /\ Shown(k)' = Shown(k) /\ \A l : Conflicted(l, node, f)' = Conflicted(l, node, f)
    BY SameCall
  <2>3. node > 0 BY <1>1
  <2> QED BY <1>2, <1>3, <2>1, <2>2, <2>3 DEF CompareOK
<1>8. QueryOK' BY <1>2, SameCall DEF GInv, QueryOK, Stages
<1>9. LinksOK' BY <1>2, SameCall DEF GInv, LinksOK, Found, Linking
<1> QED BY <1>2, <1>6, <1>7, <1>8, <1>9, LoopInv

\* Conflicts with the patches before are among those that have the file.
LEMMA AmongBefore ==
  ASSUME query \in Query, NEW j \in Nodes, NEW f, NEW k \in Nodes
  PROVE  /\ Conflicted(k, j, f) => k \in Before(j, f)
         /\ k \in Before(j, f) => k < j /\ f \in Shown(k)
         /\ ~query.lines /\ k \in Before(j, f) => Conflicted(k, j, f)
         /\ \A i \in Nodes : Conflicted(k, j, f) /\ k < i => k \in Before(i, f)
BY CallFacts DEF Conflicted, Conflicting, Before

\* What a sweep has at hand.
LEMMA SweepFacts ==
  ASSUME GInv, stage = "sweep"
  PROVE  /\ IsRanges(SideA) /\ IsRanges(SideB) /\ Len(SideA) \in Nat /\ Len(SideB) \in Nat
         /\ at.a \in Nat /\ at.a <= Len(SideA) /\ at.b \in Nat /\ at.b <= Len(SideB)
         /\ Swept(SideA, at.a, SideB, at.b)
         /\ InsideA <=> Odd(at.a)
         /\ InsideB <=> Odd(at.b)
         /\ node \in Nodes /\ at.earlier \in Nodes /\ at.file \in Shown(node)
         /\ Conflicted(at.earlier, node, at.file) <=> Overlap(SideA, SideB)
<1>1. query \in Query /\ Nodes = 1 .. Len(query.touches) /\ node \in Nodes /\ at.earlier \in Nodes
      /\ at.file \in todo /\ at.file \in Shown(node) BY CallFacts DEF GInv, QueryOK, CompareOK
<1>2. at.file \in Files BY <1>1, CallFacts
<1>3. IsRanges(SideA) /\ IsRanges(SideB) BY <1>1, <1>2, CallFacts DEF SideA, SideB
<1>4. Len(SideA) \in Nat /\ Len(SideB) \in Nat /\ ~Odd(Len(SideA)) /\ ~Odd(Len(SideB))
  BY <1>3, RangesAre
<1>5. at.a \in Nat /\ at.a <= Len(SideA) /\ at.b \in Nat /\ at.b <= Len(SideB)
  BY DEF GInv, CompareOK
<1>6. (InsideA <=> Odd(at.a)) /\ (InsideB <=> Odd(at.b))
  BY <1>4, <1>5, Parity DEF InsideA, InsideB
<1>7. Conflicted(at.earlier, node, at.file) <=> Overlap(SideA, SideB)
  BY <1>1 DEF GInv, CompareOK, Conflicted, Conflicting, SideA, SideB
<1> QED BY <1>1, <1>3, <1>4, <1>5, <1>6, <1>7 DEF GInv, SweepOK

Hits(a, m, b, n) ==
  \/ a[m + 1] < b[n + 1] /\ Odd(n)
  \/ a[m + 1] > b[n + 1] /\ Odd(m)
  \/ a[m + 1] = b[n + 1] /\ (Odd(m) <=> Odd(n))

\* A hit is an overlap.
LEMMA HitIs ==
  ASSUME NEW a, IsRanges(a), NEW b, IsRanges(b),
         NEW m \in Nat, m < Len(a), NEW n \in Nat, n < Len(b), Swept(a, m, b, n), Hits(a, m, b, n)
  PROVE  Overlap(a, b)
<1>1. CASE a[m + 1] < b[n + 1] /\ Odd(n) BY <1>1, HitInside
<1>2. CASE a[m + 1] > b[n + 1] /\ Odd(m)
  <2>1. a[m + 1] \in Nat /\ b[n + 1] \in Nat
    <3>1. m + 1 \in 1 .. Len(a) /\ n + 1 \in 1 .. Len(b) BY RangesAre
    <3> QED BY <3>1, RangesAre
  <2>2. b[n + 1] < a[m + 1] BY <1>2, <2>1
  <2>3. Overlap(b, a) BY <1>2, <2>2, SweptBoth, HitInside
  <2> QED BY <2>3, OverlapBoth
<1>3. CASE a[m + 1] = b[n + 1] /\ (Odd(m) <=> Odd(n))
  <2>1. ~Odd(m) /\ ~Odd(n) BY <1>3 DEF Swept
  <2>2. Odd(m + 1) /\ Odd(n + 1) BY <2>1, Parity
  <2>3. m + 1 \in DOMAIN a /\ n + 1 \in DOMAIN b BY RangesAre
  <2> QED BY <1>3, <2>2, <2>3 DEF Overlap, Opens, Meet
<1> QED BY <1>1, <1>2, <1>3 DEF Hits

\* The lower bound is passed when there is no hit, both when they are the same.
LEMMA PassIs ==
  ASSUME NEW a, IsRanges(a), NEW b, IsRanges(b),
         NEW m \in Nat, m < Len(a), NEW n \in Nat, n < Len(b), Swept(a, m, b, n), ~Hits(a, m, b, n)
  PROVE  Swept(a, IF a[m + 1] <= b[n + 1] THEN m + 1 ELSE m, b, IF b[n + 1] <= a[m + 1] THEN n + 1 ELSE n)
<1>1. a[m + 1] \in Nat /\ b[n + 1] \in Nat
  <2>1. m + 1 \in 1 .. Len(a) /\ n + 1 \in 1 .. Len(b) BY RangesAre
  <2> QED BY <2>1, RangesAre
<1>0. ~(NoLines(a) /\ NoLines(b))
  <2>1. SUFFICES ASSUME NoLines(a), NoLines(b) PROVE FALSE OBVIOUS
  <2>2. m = 0 /\ n = 0 BY <2>1 DEF Swept
  <2>3. a[m + 1] = 0 /\ b[n + 1] = 0 BY <2>1, <2>2, RangesAre
  <2> QED BY <2>2, <2>3 DEF Hits
<1>2. CASE a[m + 1] < b[n + 1]
  <2>1. Swept(a, m + 1, b, n) BY <1>0, <1>1, <1>2, SweptOne DEF Hits
  <2>2. a[m + 1] <= b[n + 1] /\ ~(b[n + 1] <= a[m + 1]) BY <1>1, <1>2
  <2> QED BY <2>1, <2>2
<1>3. CASE a[m + 1] > b[n + 1]
  <2>1. b[n + 1] < a[m + 1] /\ ~Odd(m) BY <1>1, <1>3 DEF Hits
  <2>2. Swept(b, n + 1, a, m) BY <1>0, <1>1, <2>1, SweptBoth, SweptOne
  <2>3. b[n + 1] <= a[m + 1] /\ ~(a[m + 1] <= b[n + 1]) BY <1>1, <1>3
  <2> QED BY <2>2, <2>3, SweptBoth
<1>4. CASE a[m + 1] = b[n + 1]
  <2>1. Swept(a, m + 1, b, n + 1)
    <3>1. CASE ~Odd(m) /\ Odd(n) BY <1>0, <1>4, <3>1, SweptTwo
    <3>2. CASE Odd(m) /\ ~Odd(n)
      <4>1. Swept(b, n + 1, a, m + 1) BY <1>0, <1>4, <3>2, SweptBoth, SweptTwo
      <4> QED BY <4>1, SweptBoth
    <3> QED BY <1>4, <3>1, <3>2 DEF Hits
  <2>2. b[n + 1] <= a[m + 1] /\ a[m + 1] <= b[n + 1] BY <1>1, <1>4
  <2> QED BY <2>1, <2>2
<1> QED BY <1>1, <1>2, <1>3, <1>4

LEMMA AtBecomes ==
  ASSUME NEW f, NEW k, NEW a, NEW b, NEW m, NEW n, NEW r, NEW s,
         r = [file |-> f, earlier |-> k, a |-> a, b |-> b], s = [r EXCEPT !.a = m, !.b = n]
  PROVE  s = [file |-> f, earlier |-> k, a |-> m, b |-> n] OBVIOUS

LEMMA SweepInv ==
  ASSUME GInv, stage = "sweep", Pass \/ Conflicts \/ NoConflict
  PROVE  GInv'
<1> DEFINE x == SideA[at.a + 1]
           y == SideB[at.b + 1]
<1>0. query \in Query /\ Nodes \subseteq Nat /\ node \in Nodes /\ at.earlier \in Nodes
      /\ at.file \in todo /\ at.file \in Shown(node) /\ node # 0
      /\ at.earlier < node /\ at.file \in Shown(at.earlier) /\ query.lines
      /\ (\A k \in Nodes : Conflicted(k, node, at.file) => k <= at.earlier)
      /\ at = [file |-> at.file, earlier |-> at.earlier, a |-> at.a, b |-> at.b]
  BY SweepFacts, CallFacts DEF GInv, QueryOK, CompareOK
<1>1. CASE Pass
  <2> DEFINE m == IF x <= y THEN at.a + 1 ELSE at.a
             n == IF y <= x THEN at.b + 1 ELSE at.b
  <2>1. query' = query /\ edges' = edges /\ node' = node /\ todo' = todo /\ pending' = pending
        /\ seen' = seen /\ tested' = tested /\ detours' = detours /\ stage' = "sweep"
    BY <1>1 DEF Pass, linkVars, walkVars, reduceVars
  <2>2. at' = [file |-> at.file, earlier |-> at.earlier, a |-> m, b |-> n]
    <3>1. at' = [at EXCEPT !.a = m, !.b = n] BY <1>1 DEF Pass
    <3> HIDE DEF m, n
    <3>2. at = [file |-> at.file, earlier |-> at.earlier, a |-> at.a, b |-> at.b] BY <1>0
    <3> QED BY <3>1, <3>2, AtBecomes
  <2>3. at.a \in Nat /\ at.b \in Nat /\ at.a < Len(SideA) /\ at.b < Len(SideB)
    BY <1>1, SweepFacts DEF Pass, BoundsLeft
  <2>4. Swept(SideA, m, SideB, n)
    <3>1. ~Hits(SideA, at.a, SideB, at.b) BY <1>1, SweepFacts DEF Pass, Hit, Hits
    <3>2. IsRanges(SideA) /\ IsRanges(SideB) /\ Swept(SideA, at.a, SideB, at.b) BY SweepFacts
    <3> QED BY <2>3, <3>1, <3>2, PassIs
  <2>5. SideA' = SideA /\ SideB' = SideB
    <3>1. at'.file = at.file /\ at'.earlier = at.earlier BY <2>2
    <3> QED BY <2>1, <3>1 DEF SideA, SideB
  <2>6. m \in Nat /\ m <= Len(SideA) /\ n \in Nat /\ n <= Len(SideB) BY <2>3, SweepFacts
  <2>7. at'.file = at.file /\ at'.earlier = at.earlier /\ at'.a = m /\ at'.b = n BY <2>2
  <2> HIDE DEF m, n
  <2>8. CompareOK' BY <1>0, <2>1, <2>2, <2>5, <2>6, <2>7, SameCall DEF CompareOK
  <2>9. SweepOK' BY <2>4, <2>5, <2>7 DEF SweepOK
  <2>10. QueryOK' BY <2>1, SameCall DEF GInv, QueryOK, Stages
  <2>11. LinksOK' BY <2>1, SameCall DEF GInv, LinksOK, Found, Linking
  <2> QED BY <2>1, <2>8, <2>9, <2>10, <2>11, LoopInv
<1>2. CASE Conflicts
  <2>1. at.a < Len(SideA) /\ at.b < Len(SideB) /\ Hits(SideA, at.a, SideB, at.b)
    BY <1>2, SweepFacts DEF Conflicts, BoundsLeft, Hit, Hits
  <2>2. Overlap(SideA, SideB) BY <2>1, SweepFacts, HitIs
  <2>3. LastConflict(at.earlier, node, at.file) BY <1>0, <2>2, SweepFacts DEF LastConflict
  <2> QED BY <1>0, <1>2, <2>3, FileLinked DEF Conflicts, Linking, walkVars, reduceVars
<1>3. CASE NoConflict
  <2>1. ~Overlap(SideA, SideB)
    <3>1. at.a = Len(SideA) \/ at.b = Len(SideB) BY <1>3, SweepFacts DEF NoConflict, BoundsLeft
    <3>2. CASE at.a = Len(SideA) BY <3>2, SweepFacts, SweptAll
    <3>3. CASE at.b = Len(SideB)
      <4>1. Swept(SideB, Len(SideB), SideA, at.a) BY <3>3, SweepFacts, SweptBoth
      <4>2. ~Overlap(SideB, SideA) BY <4>1, SweepFacts, SweptAll
      <4> QED BY <4>2, OverlapBoth
    <3> QED BY <3>1, <3>2, <3>3
  <2>2. ASSUME NEW k \in Nodes, Conflicted(k, node, at.file)
        PROVE  k < at.earlier /\ k \in Before(at.earlier, at.file)
    <3>2. ~Conflicted(at.earlier, node, at.file) BY <2>1, SweepFacts
    <3>3. k <= at.earlier /\ k # at.earlier BY <1>0, <2>2, <3>2
    <3>4. k < at.earlier BY <1>0, <3>3
    <3> QED BY <1>0, <2>2, <3>4, AmongBefore
  <2>3. query' = query /\ edges' = edges /\ node' = node /\ pending' = pending
        /\ seen' = seen /\ tested' = tested /\ detours' = detours
    BY <1>3 DEF NoConflict, walkVars, reduceVars
  <2>4. CASE \E k \in Nodes : IsLast(k, Before(at.earlier, at.file)) /\ Compare(at.file, k) /\ todo' = todo
    <3>1. PICK k \in Nodes : IsLast(k, Before(at.earlier, at.file)) /\ Compare(at.file, k) /\ todo' = todo
      BY <2>4
    <3>2. k < at.earlier /\ at.file \in Shown(k) BY <1>0, <3>1, AmongBefore DEF IsLast
    <3>3. k < node /\ \A l \in Nodes : Conflicted(l, node, at.file) => l <= k
      BY <1>0, <2>2, <3>1, <3>2 DEF IsLast
    <3> QED BY <1>0, <2>3, <3>1, <3>2, <3>3, CompareStarts DEF Linking
  <2>5. CASE Before(at.earlier, at.file) = {} /\ stage' = "link" /\ todo' = todo \ {at.file}
    <3>1. \A k \in Nodes : ~Conflicted(k, node, at.file) BY <2>2, <2>5
    <3> QED BY <1>0, <2>3, <2>5, <3>1, FileLinked DEF Linking
  <2> QED BY <1>3, <2>4, <2>5 DEF NoConflict
<1> QED BY <1>1, <1>2, <1>3

-----------------------------------------------------------------------------
(* graph: the walks.                                                        *)

\* A turn of the loop keeps the walk.
LEMMA VisitKeeps ==
  ASSUME NEW some, some \subseteq Nodes \X Nodes, NEW from \in Nodes, seen \subseteq Nodes,
         WalkOK(some, from), NEW n \in pending, Visited(some, n)
  PROVE  Walks(some, from, pending', seen') /\ pending' \cup seen' \subseteq Nodes
<1>0. Reached(some, from) \subseteq Nodes BY ReachIs
<1>1. n \in Reached(some, from) BY DEF WalkOK, Walks
<1>2. Ahead(some, n) \subseteq Reached(some, from)
  <2>1. SUFFICES ASSUME NEW k \in Nodes, <<n, k>> \in some PROVE k \in Reached(some, from)
    BY DEF Ahead
  <2> QED BY <1>1, <2>1, ReachOn
<1>3. CASE n \in seen
  <2>1. pending' = pending \ {n} /\ seen' = seen BY <1>3 DEF Visited
  <2> QED BY <1>0, <1>3, <2>1 DEF WalkOK, Walks
<1>4. CASE n \notin seen
  <2>1. pending' = (pending \ {n}) \cup Ahead(some, n) /\ seen' = seen \cup {n}
    BY <1>4 DEF Visited
  <2> QED BY <1>0, <1>1, <1>2, <2>1 DEF WalkOK, Walks
<1> QED BY <1>3, <1>4

\* When the stack is empty, all that can be reached was seen.
LEMMA WalkDone ==
  ASSUME NEW some, some \subseteq Nodes \X Nodes, NEW from \in Nodes, seen \subseteq Nodes,
         WalkOK(some, from), pending = {}
  PROVE  seen = Reached(some, from)
<1>1. Closed(some, seen)
  <2>1. SUFFICES ASSUME NEW e \in some, e[1] \in seen PROVE e[2] \in seen BY DEF Closed
  <2>2. e[2] \in Nodes /\ <<e[1], e[2]>> \in some OBVIOUS
  <2>3. e[2] \in Ahead(some, e[1]) BY <2>2 DEF Ahead
  <2> QED BY <2>1, <2>3 DEF WalkOK, Walks
<1>2. Reached(some, from) \subseteq seen BY <1>1, ReachLeast DEF WalkOK, Walks
<1> QED BY <1>2 DEF WalkOK, Walks

LEMMA WalkStarts ==
  ASSUME NEW some, NEW from \in Nodes
  PROVE  Walks(some, from, {from}, {}) BY ReachIs DEF Walks

LEMMA DependsIs ==
  ASSUME query \in Query, NEW i \in Nodes, NEW j \in Nodes
  PROVE  Depends(i, j) <=> \E f \in Shown(j) : LastConflict(i, j, f)
<1> DEFINE conflicts(f) == {k \in 1 .. j - 1 : f \in Shown(k) /\ Conflicting(k, j, f)}
<1>1. \A f, k : k \in conflicts(f) <=> Conflicted(k, j, f) BY CallFacts DEF Conflicted
<1>2. Depends(i, j) <=> \E f \in Shown(j) : i \in conflicts(f) /\ \A k \in conflicts(f) : k <= i
  BY DEF Depends
<1> HIDE DEF conflicts
<1>3. \A f, k : k \in conflicts(f) => k \in Nodes BY <1>1 DEF Conflicted
<1> QED BY <1>1, <1>2, <1>3 DEF LastConflict

\* All patches are linked.
LEMMA LinkedAll ==
  ASSUME GInv, stage = "link", todo = {}, node = Len(query.touches)
  PROVE  edges = Dependencies
<1>1. query \in Query /\ Nodes = 1 .. Len(query.touches) /\ Len(query.touches) \in Nat
  BY CallFacts DEF GInv, QueryOK
<1>2. edges = {e \in Nodes \X Nodes : Found(e)} BY DEF GInv, LinksOK, Linking
<1>3. ASSUME NEW e \in Nodes \X Nodes PROVE Found(e) <=> Depends(e[1], e[2])
  <2>1. e[1] \in Nodes /\ e[2] \in Nodes /\ (e[2] < node \/ e[2] = node) BY <1>1
  <2>2. Found(e) <=> \E f \in Shown(e[2]) : LastConflict(e[1], e[2], f) BY <2>1 DEF Found
  <2> QED BY <1>1, <2>1, <2>2, DependsIs
<1> QED BY <1>2, <1>3 DEF Dependencies

LEMMA AllLinkedInv ==
  ASSUME GInv, AllLinked
  PROVE  GInv'
<1>1. query \in Query /\ query' = query /\ edges' = edges /\ node' = node /\ todo' = todo
      /\ near' = near /\ tested' = tested /\ detours' = detours
  BY DEF AllLinked, linkVars, reduceVars, GInv, QueryOK
<1>2. edges = Dependencies /\ tested = {} /\ detours = {}
  BY LinkedAll DEF AllLinked, GInv, LinksOK, Linking
<1>3. CASE query.selected # 0
  <2>1. stage' = "forward" /\ pending' = {query.selected} /\ seen' = {} /\ query.selected \in Nodes
    BY <1>1, <1>3, CallFacts DEF AllLinked, Restarted
  <2>2. QueryOK' BY <1>1, <2>1, SameCall DEF GInv, QueryOK, Stages
  <2>3. CollectOK' BY <1>1, <1>2, <1>3, <2>1, WalkStarts, SameCall DEF CollectOK, WalkOK
  <2> QED BY <2>1, <2>2, <2>3, LoopInv
<1>4. CASE query.selected = 0
  <2>1. stage' = "drawing" /\ pending' = pending /\ seen' = seen BY <1>4 DEF AllLinked, walkVars
  <2>2. QueryOK' BY <1>1, <2>1, SameCall DEF GInv, QueryOK, Stages
  <2>3. DrawOK' BY <1>1, <1>2, <1>4, <2>1, SameCall DEF DrawOK
  <2> QED BY <2>1, <2>2, <2>3, LoopInv
<1> QED BY <1>3, <1>4

LEMMA LinkingInv ==
  ASSUME GInv, GraphNext, Linking
  PROVE  GInv'
<1>0. query \in Query /\ Len(query.touches) \in Nat /\ Nodes = 1 .. Len(query.touches)
      /\ Nodes \subseteq Nat /\ node \in Nat BY CallFacts DEF GInv, QueryOK
<1>1. CASE NextNode
  <2>1. query' = query /\ stage = "link" /\ stage' = "link" /\ todo = {} /\ node' = node + 1
        /\ todo' = Shown(node + 1) /\ node < Len(query.touches)
        /\ edges' = edges /\ pending' = pending /\ seen' = seen
        /\ tested' = tested /\ detours' = detours BY <1>1 DEF NextNode, walkVars, reduceVars
  <2>2. QueryOK' BY <1>0, <2>1, SameCall DEF GInv, QueryOK, Stages
  <2>3. LinksOK'
    <3>1. ASSUME NEW e \in Nodes \X Nodes PROVE Found(e)' <=> Found(e)
      <4>2. e[2] \in Nat BY <1>0
      <4>3. Found(e)' <=> \E g \in Shown(e[2]) :
                      /\ LastConflict(e[1], e[2], g)
                      /\ e[2] < node + 1 \/ (e[2] = node + 1 /\ g \notin Shown(node + 1))
        BY <2>1, SameCall DEF Found
      <4>4. Found(e)' <=> \E g \in Shown(e[2]) : LastConflict(e[1], e[2], g) /\ e[2] < node + 1
        BY <4>3
      <4>5. Found(e) <=> \E g \in Shown(e[2]) : LastConflict(e[1], e[2], g) /\ (e[2] < node \/ e[2] = node)
        BY <2>1 DEF Found
      <4> QED BY <1>0, <4>2, <4>4, <4>5
    <3> QED BY <2>1, <3>1, SameCall DEF GInv, LinksOK, Linking
  <2> QED BY <2>1, <2>2, <2>3, LoopInv
<1>2. ASSUME NEW f \in todo, FirstSeen(f) PROVE GInv'
  <2>1. node \in Nodes BY <1>0 DEF GInv, QueryOK
  <2>2. \A k \in Nodes : ~Conflicted(k, node, f) BY <1>0, <1>2, <2>1, AmongBefore DEF FirstSeen
  <2> QED BY <1>2, <2>2, FileLinked DEF FirstSeen, walkVars, reduceVars
<1>3. ASSUME NEW f \in todo, Linked(f) PROVE GInv'
  <2>1. node \in Nodes /\ f \in Shown(node) BY <1>0 DEF GInv, QueryOK
  <2>2. PICK k \in Nodes : IsLast(k, Before(node, f)) /\ edges' = edges \cup {<<k, node>>}
    BY <1>3 DEF Linked
  <2>3. ~query.lines BY <1>3 DEF Linked
  <2>4. LastConflict(k, node, f)
    <3>1. Conflicted(k, node, f) BY <1>0, <2>1, <2>2, <2>3, AmongBefore DEF IsLast
    <3>2. \A l \in Nodes : Conflicted(l, node, f) => l <= k
      BY <1>0, <2>1, <2>2, AmongBefore DEF IsLast
    <3> QED BY <2>1, <3>1, <3>2 DEF LastConflict
  <2> QED BY <1>3, <2>2, <2>4, FileLinked DEF Linked, walkVars, reduceVars
<1>4. ASSUME NEW f \in todo, CompareLast(f) PROVE GInv'
  <2>1. node \in Nodes /\ f \in Shown(node) /\ node # 0 BY <1>0 DEF GInv, QueryOK
  <2>2. PICK k \in Nodes : IsLast(k, Before(node, f)) /\ Compare(f, k) BY <1>4 DEF CompareLast
  <2>3. k < node /\ f \in Shown(k) /\ \A l \in Nodes : Conflicted(l, node, f) => l <= k
    BY <1>0, <2>1, <2>2, AmongBefore DEF IsLast
  <2> QED BY <1>0, <1>4, <2>2, <2>3, CompareStarts DEF CompareLast, linkVars, walkVars, reduceVars
<1>5. CASE Pass \/ Conflicts \/ NoConflict BY <1>5, SweepInv DEF Pass, Conflicts, NoConflict
<1>6. CASE AllLinked BY <1>6, AllLinkedInv
<1> QED
  BY <1>1, <1>2, <1>3, <1>4, <1>5, <1>6
     DEF GraphNext, Linking, CollectForward, CollectBackward, DetourVisit, DetourFound, TurnBack,
         CutDown, Test, NoDetour, Draw

\* What edges and their reverse have in common.
LEMMA EdgesAre ==
  ASSUME GInv
  PROVE  /\ edges \subseteq Nodes \X Nodes /\ Ways \subseteq Nodes \X Nodes
         /\ Backwards(edges) \subseteq Nodes \X Nodes
         /\ \A e \in edges : e[1] \in Nodes /\ e[2] \in Nodes /\ e[1] # e[2]
<1>1. \A e \in edges : e \in Nodes \X Nodes /\ e[1] < e[2] BY DEF GInv, QueryOK, Forward
<1>2. Nodes \subseteq Nat BY CallFacts DEF GInv, QueryOK
<1>3. ASSUME NEW e \in edges PROVE e[1] \in Nodes /\ e[2] \in Nodes /\ e[1] # e[2]
  <2>2. e[1] \in Nodes /\ e[2] \in Nodes /\ e[1] < e[2] BY <1>1
  <2>3. e[1] \in Nat /\ e[2] \in Nat BY <1>2, <2>2
  <2> QED BY <2>2, <2>3
<1>4. Backwards(edges) \subseteq Nodes \X Nodes BY <1>3 DEF Backwards
<1>5. edges \subseteq Nodes \X Nodes /\ Ways \subseteq Nodes \X Nodes BY <1>1 DEF Ways
<1> QED BY <1>3, <1>4, <1>5

LEMMA CollectInv ==
  ASSUME GInv, TurnBack \/ CutDown \/ \E n \in pending : CollectForward(n) \/ CollectBackward(n)
  PROVE  GInv'
<1>0. query \in Query /\ query' = query /\ node' = node /\ todo' = todo
      /\ tested' = tested /\ detours' = detours /\ key' = key /\ tested = {} /\ detours = {}
      /\ query.selected # 0 /\ query.selected \in Nodes /\ edges = Dependencies
      /\ seen \subseteq Nodes /\ pending \subseteq Nodes /\ edges \subseteq Nodes \X Nodes
      /\ Backwards(edges) \subseteq Nodes \X Nodes
  BY CallFacts, EdgesAre DEF CollectForward, CollectBackward, TurnBack, CutDown, linkVars, reduceVars,
     GInv, QueryOK, CollectOK
<1>1. ASSUME NEW n \in pending, CollectForward(n) PROVE GInv'
  <2>1. stage = "forward" /\ stage' = "forward" /\ edges' = edges /\ near' = near /\ Visited(edges, n)
    BY <1>1 DEF CollectForward
  <2>2. WalkOK(edges, query.selected) BY <2>1 DEF GInv, CollectOK
  <2>3. WalkOK(edges, query.selected)' /\ pending' \cup seen' \subseteq Nodes
    BY <1>0, <2>1, <2>2, VisitKeeps, SameCall DEF WalkOK
  <2>4. QueryOK' BY <1>0, <2>1, <2>3, SameCall DEF GInv, QueryOK, Stages
  <2>5. CollectOK' BY <1>0, <2>1, <2>3, SameCall DEF CollectOK
  <2> QED BY <2>1, <2>4, <2>5, LoopInv
<1>2. ASSUME NEW n \in pending, CollectBackward(n) PROVE GInv'
  <2>1. stage = "backward" /\ stage' = "backward" /\ edges' = edges /\ near' = near
        /\ Visited(Backwards(edges), n) BY <1>2 DEF CollectBackward
  <2>2. WalkOK(Backwards(edges), query.selected) /\ near = Reached(edges, query.selected)
    BY <2>1 DEF GInv, CollectOK
  <2>3. WalkOK(Backwards(edges), query.selected)' /\ pending' \cup seen' \subseteq Nodes
    <3>1. Backwards(edges)' = Backwards(edges) BY <2>1 DEF Backwards
    <3> QED BY <1>0, <2>1, <2>2, <3>1, VisitKeeps, SameCall DEF WalkOK
  <2>4. QueryOK' BY <1>0, <2>1, <2>3, SameCall DEF GInv, QueryOK, Stages
  <2>5. CollectOK' BY <1>0, <2>1, <2>2, <2>3, SameCall DEF CollectOK
  <2> QED BY <2>1, <2>4, <2>5, LoopInv
<1>3. CASE TurnBack
  <2>1. stage = "forward" /\ stage' = "backward" /\ edges' = edges /\ near' = seen /\ pending = {}
        /\ pending' = {query.selected} /\ seen' = {} BY <1>3 DEF TurnBack, Restarted
  <2>2. seen = Reached(edges, query.selected) BY <1>0, <2>1, WalkDone DEF GInv, CollectOK
  <2>3. WalkOK(Backwards(edges), query.selected)' BY <1>0, <2>1, WalkStarts, SameCall DEF WalkOK
  <2>4. QueryOK' BY <1>0, <2>1, SameCall DEF GInv, QueryOK, Stages
  <2>5. CollectOK' BY <1>0, <2>1, <2>2, <2>3, SameCall DEF CollectOK
  <2> QED BY <2>1, <2>4, <2>5, LoopInv
<1>4. CASE CutDown
  <2>1. stage = "backward" /\ stage' = "drawing" /\ near' = near \cup seen /\ pending = {}
        /\ edges' = {e \in edges : {e[1], e[2]} \subseteq near'} /\ pending' = pending /\ seen' = seen
    BY <1>4 DEF CutDown, walkVars
  <2>2. seen = Reached(Backwards(edges), query.selected) /\ near = Reached(edges, query.selected)
    BY <1>0, <2>1, WalkDone DEF GInv, CollectOK
  <2>3. near' = {n \in Nodes : Related(n)}
    <3>1. near' \subseteq Nodes BY <1>0, <2>1, <2>2, ReachIs
    <3>2. ASSUME NEW n \in Nodes PROVE n \in near' <=> Related(n)
      <4>1. n \in seen <=> query.selected \in Reached(edges, n) BY <1>0, <2>2, ReachBack
      <4> QED BY <1>0, <2>1, <2>2, <4>1 DEF Related
    <3> QED BY <3>1, <3>2
  <2>4. edges' = {e \in Dependencies : Related(e[1]) /\ Related(e[2])} BY <1>0, <2>1, <2>3
  <2>5. QueryOK'
    <3>1. Forward(edges)' BY <1>0, <2>1, SameCall DEF GInv, QueryOK, Forward
    <3> QED BY <1>0, <2>1, <3>1, SameCall DEF GInv, QueryOK, Stages
  <2>6. DrawOK' BY <1>0, <2>1, <2>3, <2>4, SameCall DEF DrawOK
  <2> QED BY <2>1, <2>5, <2>6, LoopInv
<1> QED BY <1>1, <1>2, <1>3, <1>4

-----------------------------------------------------------------------------
(* graph: the reduction.                                                    *)

LEMMA ReduceInv ==
  ASSUME GInv, \/ \E e \in edges : Test(e)
               \/ \E n \in pending : DetourVisit(n) \/ DetourFound(n)
               \/ NoDetour \/ Draw
  PROVE  GInv'
<1>0. query \in Query /\ query' = query /\ edges' = edges /\ node' = node /\ todo' = todo
      /\ near' = near /\ seen \subseteq Nodes /\ pending \subseteq Nodes
      /\ edges \subseteq Nodes \X Nodes /\ Ways \subseteq Nodes \X Nodes
      /\ Drawing /\ stage \in {"drawing", "detour"} /\ tested \subseteq edges /\ detours \subseteq edges
  BY EdgesAre DEF Test, DetourVisit, DetourFound, NoDetour, Draw, linkVars, reduceVars, GInv, QueryOK, Drawing
<1>1. /\ edges = {e \in Dependencies : query.selected = 0 \/ (Related(e[1]) /\ Related(e[2]))}
      /\ query.selected # 0 => near = {n \in Nodes : Related(n)}
      /\ detours = {e \in tested : Alternate(edges, e)} BY <1>0 DEF GInv, DrawOK
<1>2. ASSUME NEW e \in edges, Test(e) PROVE GInv'
  <2>1. stage = "drawing" /\ stage' = "detour" /\ key' = e /\ pending' = {e[1]} /\ seen' = {}
        /\ tested' = tested /\ detours' = detours /\ e \notin tested BY <1>2 DEF Test, Restarted
  <2>2. e[1] \in Nodes /\ e[1] # e[2] BY EdgesAre
  <2>3. DetourOK' BY <1>0, <2>1, <2>2, WalkStarts, SameCall DEF DetourOK, WalkOK, Ways
  <2>4. QueryOK' BY <1>0, <2>1, <2>2, SameCall DEF GInv, QueryOK, Stages
  <2>5. DrawOK' BY <1>0, <1>1, <2>1, SameCall DEF DrawOK
  <2> QED BY <2>1, <2>3, <2>4, <2>5, LoopInv
<1>3. ASSUME NEW n \in pending, DetourVisit(n) PROVE GInv'
  <2>1. stage = "detour" /\ stage' = "detour" /\ key' = key /\ tested' = tested /\ detours' = detours
        /\ Visited(Ways, n) /\ (n \in seen \/ key[2] \notin Ahead(Ways, n))
    BY <1>3 DEF DetourVisit, reduceVars
  <2>2. key \in edges /\ key \notin tested /\ WalkOK(Ways, key[1]) /\ key[2] \notin pending \cup seen
        /\ key[1] \in Nodes BY <1>0, <2>1 DEF GInv, DetourOK
  <2>3. Walks(Ways, key[1], pending', seen') /\ pending' \cup seen' \subseteq Nodes
    BY <1>0, <2>1, <2>2, VisitKeeps
  <2>4. key[2] \notin pending' \cup seen' BY <2>1, <2>2 DEF Visited
  <2>5. DetourOK'
    <3>1. Ways' = Ways BY <1>0, <2>1 DEF Ways
    <3> QED BY <1>0, <2>1, <2>2, <2>3, <2>4, <3>1, SameCall DEF DetourOK, WalkOK
  <2>6. QueryOK' BY <1>0, <2>1, <2>3, SameCall DEF GInv, QueryOK, Stages
  <2>7. DrawOK' BY <1>0, <1>1, <2>1, SameCall DEF DrawOK
  <2> QED BY <2>1, <2>5, <2>6, <2>7, LoopInv
<1>4. ASSUME NEW n \in pending, DetourFound(n) PROVE GInv'
  <2>1. stage = "detour" /\ stage' = "drawing" /\ pending' = pending /\ seen' = seen
        /\ tested' = tested \cup {key} /\ detours' = detours \cup {key} /\ key[2] \in Ahead(Ways, n)
    BY <1>4 DEF DetourFound, Tested, walkVars
  <2>2. key \in edges /\ WalkOK(Ways, key[1]) /\ key[1] \in Nodes BY <1>0, <2>1 DEF GInv, DetourOK
  <2>3. Alternate(edges, key)
    <3>1. n \in Reached(Ways, key[1]) BY <2>2 DEF WalkOK, Walks
    <3>2. <<n, key[2]>> \in Ways /\ key[2] \in Nodes BY <2>1 DEF Ahead
    <3>3. key[2] \in Reached(Ways, key[1]) BY <3>1, <3>2, ReachOn
    <3> QED BY <3>3 DEF Alternate, Ways
  <2>4. detours' = {e \in tested' : Alternate(edges, e)} BY <1>1, <2>1, <2>3
  <2>5. QueryOK' BY <1>0, <2>1, <2>2, SameCall DEF GInv, QueryOK, Stages
  <2>6. DrawOK' BY <1>0, <1>1, <2>1, <2>4, SameCall DEF DrawOK
  <2> QED BY <2>1, <2>5, <2>6, LoopInv
<1>5. CASE NoDetour
  <2>1. stage = "detour" /\ stage' = "drawing" /\ pending' = pending /\ seen' = seen
        /\ tested' = tested \cup {key} /\ detours' = detours /\ pending = {}
    BY <1>5 DEF NoDetour, Tested, walkVars
  <2>2. key \in edges /\ WalkOK(Ways, key[1]) /\ key[1] \in Nodes /\ key[2] \notin seen
    BY <1>0, <2>1 DEF GInv, DetourOK
  <2>3. ~Alternate(edges, key)
    <3>1. seen = Reached(Ways, key[1]) BY <1>0, <2>1, <2>2, WalkDone
    <3> QED BY <2>2, <3>1 DEF Alternate, Ways
  <2>4. detours' = {e \in tested' : Alternate(edges, e)} BY <1>1, <2>1, <2>3
  <2>5. QueryOK' BY <1>0, <2>1, <2>2, SameCall DEF GInv, QueryOK, Stages
  <2>6. DrawOK' BY <1>0, <1>1, <2>1, <2>4, SameCall DEF DrawOK
  <2> QED BY <2>1, <2>5, <2>6, LoopInv
<1>6. CASE Draw
  <2>1. stage' = "drawn" /\ pending' = pending /\ seen' = seen /\ tested' = tested
        /\ detours' = detours /\ (query.reduce => edges \subseteq tested)
    BY <1>6 DEF Draw, walkVars, reduceVars
  <2>2. QueryOK' BY <1>0, <2>1, SameCall DEF GInv, QueryOK, Stages
  <2>3. DrawOK' BY <1>0, <1>1, <2>1, SameCall DEF DrawOK
  <2> QED BY <2>1, <2>2, <2>3, LoopInv
<1> QED BY <1>2, <1>3, <1>4, <1>5, <1>6

LEMMA GraphStutters ==
  ASSUME GInv, UNCHANGED graphVars
  PROVE  GInv'
<1>1. query' = query /\ stage' = stage /\ edges' = edges /\ node' = node /\ todo' = todo /\ at' = at
      /\ pending' = pending /\ seen' = seen /\ near' = near /\ key' = key /\ tested' = tested
      /\ detours' = detours BY DEF graphVars, linkVars, walkVars, reduceVars
<1>2. SideA' = SideA /\ SideB' = SideB /\ Ways' = Ways /\ Backwards(edges)' = Backwards(edges)
      /\ Linking' = Linking /\ Drawing' = Drawing
  BY <1>1 DEF SideA, SideB, Ways, Backwards, Linking, Drawing
<1>3. QueryOK' /\ LinksOK' /\ CompareOK' /\ SweepOK'
  BY <1>1, <1>2, SameCall DEF GInv, QueryOK, LinksOK, Found, CompareOK, SweepOK
<1>4. CollectOK' /\ DrawOK' /\ DetourOK'
  BY <1>1, <1>2, SameCall DEF GInv, CollectOK, DrawOK, DetourOK, WalkOK
<1> QED BY <1>3, <1>4 DEF GInv

LEMMA GraphKeeps ==
  ASSUME GInv, [GraphNext]_graphVars
  PROVE  GInv'
<1>1. CASE Linking /\ GraphNext BY <1>1, LinkingInv
<1>2. CASE TurnBack \/ CutDown \/ \E n \in pending : CollectForward(n) \/ CollectBackward(n)
  BY <1>2, CollectInv
<1>3. CASE \/ \E e \in edges : Test(e)
           \/ \E n \in pending : DetourVisit(n) \/ DetourFound(n)
           \/ NoDetour \/ Draw BY <1>3, ReduceInv
<1>4. CASE UNCHANGED graphVars BY <1>4, GraphStutters
<1> QED
  BY <1>1, <1>2, <1>3, <1>4
     DEF GraphNext, Linking, NextNode, AllLinked, FirstSeen, Linked, CompareLast, Pass, Conflicts,
         NoConflict

\* quilt graph draws the edges to the last patch before that conflicts, and no
\* others; for one patch those between what is related to it (cmd_graph).
THEOREM GraphExact == GraphSpec => []GraphIsExact
<1>1. GInv => GraphIsExact BY DEF GInv, DrawOK, Drawing, GraphIsExact
<1> QED BY <1>1, GraphStarts, GraphKeeps, PTL DEF GraphSpec

\* Each patch that an edge leads to or from has an edge that is kept.
LEMMA EndsKept ==
  ASSUME Nodes \subseteq Nat, Forward(edges), NEW kept, kept = {e \in edges : ~Alternate(edges, e)}
  PROVE  EndsOf(kept) = EndsOf(edges)
<1>1. kept \subseteq edges /\ kept \subseteq Nodes \X Nodes BY DEF Forward
<1>2. EndsOf(kept) \subseteq EndsOf(edges) BY <1>1 DEF EndsOf
<1>3. ASSUME NEW e \in edges PROVE e[1] \in EndsOf(kept) /\ e[2] \in EndsOf(kept)
  <2>1. e[1] \in Nodes /\ e[2] \in Nodes /\ e[1] < e[2] BY DEF Forward
  <2>2. e[1] # e[2]
    <3>1. e[1] \in Nat /\ e[2] \in Nat BY <2>1
    <3> QED BY <2>1, <3>1
  <2>3. e[2] \in Reached(kept, e[1]) BY ReductionKeeps
  <2>4. /\ \E d \in kept : d[2] = e[2] /\ d[1] \in Reached(kept, e[1])
        /\ \E d \in kept : d[1] = e[1] /\ e[2] \in Reached(kept, d[2])
    BY <1>1, <2>1, <2>2, <2>3, ReachBy
  <2> QED BY <2>4 DEF EndsOf
<1>4. EndsOf(edges) \subseteq EndsOf(kept) BY <1>3 DEF EndsOf
<1> QED BY <1>2, <1>4

\* What is related to the selected patch has an edge, unless it is the patch itself.
LEMMA NearAre ==
  ASSUME query \in Query, query.selected # 0,
         edges = {e \in Dependencies : Related(e[1]) /\ Related(e[2])}
  PROVE  {n \in Nodes : Related(n)} = EndsOf(edges) \cup {query.selected}
<1>1. query.selected \in Nodes /\ Related(query.selected) /\ Dependencies \subseteq Nodes \X Nodes
  BY CallFacts, ReachIs DEF Related, Dependencies
<1>2. \A e \in edges : e[1] \in Nodes /\ e[2] \in Nodes /\ Related(e[1]) /\ Related(e[2]) BY <1>1
<1>3. ASSUME NEW n \in Nodes, Related(n), n # query.selected PROVE n \in EndsOf(edges)
  <2>1. CASE n \in Reached(Dependencies, query.selected)
    <3>1. PICK e \in Dependencies : e[2] = n /\ e[1] \in Reached(Dependencies, query.selected)
      BY <1>1, <1>3, <2>1, ReachBy
    <3>2. e \in edges BY <1>3, <3>1 DEF Related
    <3> QED BY <3>1, <3>2 DEF EndsOf
  <2>2. CASE query.selected \in Reached(Dependencies, n)
    <3>1. PICK e \in Dependencies : e[1] = n /\ query.selected \in Reached(Dependencies, e[2])
      BY <1>1, <1>3, <2>2, ReachBy
    <3>2. e \in edges BY <1>3, <3>1 DEF Related
    <3> QED BY <3>1, <3>2 DEF EndsOf
  <2> QED BY <1>3, <2>1, <2>2 DEF Related
<1>4. EndsOf(edges) \subseteq {n \in Nodes : Related(n)} BY <1>2 DEF EndsOf
<1> QED BY <1>1, <1>3, <1>4

\* quilt graph --reduce loses no dependency and no patch, and leaves no edge that
\* follows from others, although all edges are looked at before one is left out
\* (reduce_edges, has_alternate_path).
THEOREM GraphReduced == GraphSpec => []GraphIsReduced
<1>1. ASSUME GInv, stage = "drawn"
      PROVE  /\ Drawn = EndsOf(edges) \cup Selected
             /\ query.reduce =>
                  /\ \A n \in Nodes : Reached(KeptEdges, n) = Reached(edges, n)
                  /\ \A e \in KeptEdges : e[2] \notin Reached(KeptEdges \ {e}, e[1])
  <2>1. query \in Query /\ Nodes \subseteq Nat /\ Forward(edges) /\ edges \subseteq Nodes \X Nodes
    BY <1>1, CallFacts, EdgesAre DEF GInv, QueryOK
  <2>2. /\ edges = {e \in Dependencies : query.selected = 0 \/ (Related(e[1]) /\ Related(e[2]))}
        /\ query.selected # 0 => near = {n \in Nodes : Related(n)}
        /\ detours = {e \in tested : Alternate(edges, e)}
        /\ query.reduce => edges = tested BY <1>1 DEF GInv, QueryOK, DrawOK, Drawing
  <2>3. CASE ~query.reduce
    <3>1. CASE query.selected = 0 BY <2>3, <3>1 DEF Drawn, Selected
    <3>2. CASE query.selected # 0
      <4>1. edges = {e \in Dependencies : Related(e[1]) /\ Related(e[2])} BY <2>2, <3>2
      <4>2. near = EndsOf(edges) \cup {query.selected} BY <2>1, <2>2, <3>2, <4>1, NearAre
      <4> QED BY <2>3, <3>2, <4>2 DEF Drawn, Selected
    <3> QED BY <3>1, <3>2
  <2>4. CASE query.reduce
    <3>1. KeptEdges = {e \in edges : ~Alternate(edges, e)} BY <2>2, <2>4 DEF KeptEdges
    <3>2. KeptEdges \subseteq edges /\ KeptEdges \subseteq Nodes \X Nodes BY <2>1, <3>1
    <3>3. Drawn = EndsOf(edges) \cup Selected BY <2>1, <2>4, <3>1, EndsKept DEF Drawn
    <3>4. ASSUME NEW n \in Nodes PROVE Reached(KeptEdges, n) = Reached(edges, n)
      <4>1. Reached(KeptEdges, n) \subseteq Reached(edges, n) BY <3>2, ReachMore
      <4>2. Closed(edges, Reached(KeptEdges, n))
        <5>1. SUFFICES ASSUME NEW e \in edges, e[1] \in Reached(KeptEdges, n)
                       PROVE  e[2] \in Reached(KeptEdges, n) BY DEF Closed
        <5>2. e[2] \in Reached(KeptEdges, e[1]) BY <2>1, <3>1, ReductionKeeps
        <5>3. Reached(KeptEdges, e[1]) \subseteq Reached(KeptEdges, n) BY <3>2, <5>1, ReachThrough
        <5> QED BY <5>2, <5>3
      <4>3. Reached(KeptEdges, n) \in SUBSET Nodes /\ n \in Reached(KeptEdges, n) BY ReachIs
      <4>4. Reached(edges, n) \subseteq Reached(KeptEdges, n) BY <4>2, <4>3, ReachLeast
      <4> QED BY <4>1, <4>4
    <3>5. ASSUME NEW e \in KeptEdges PROVE e[2] \notin Reached(KeptEdges \ {e}, e[1])
      <4>1. KeptEdges \ {e} \subseteq edges \ {e} BY <3>2
      <4>2. Reached(KeptEdges \ {e}, e[1]) \subseteq Reached(edges \ {e}, e[1]) BY <4>1, ReachMore
      <4>3. e[2] \notin Reached(edges \ {e}, e[1]) BY <3>1 DEF Alternate
      <4> QED BY <4>2, <4>3
    <3> QED BY <3>3, <3>4, <3>5
  <2> QED BY <2>3, <2>4
<1>2. GInv => GraphIsReduced BY <1>1 DEF GraphIsReduced
<1> QED BY <1>2, GraphStarts, GraphKeeps, PTL DEF GraphSpec

-----------------------------------------------------------------------------
(* annotate: the invariant.                                                 *)

Cells == (1 .. Rows + 1) \X (1 .. Cols + 1)

\* Pairs of lines from there on; none has more than the table says.
From(pairs, i, j) == \A p \in pairs : p[1] >= i /\ p[2] >= j
AtMost(i, j, n) ==
  \A pairs \in Alignments(OldLines, NewLines) : From(pairs, i, j) => Cardinality(pairs) <= n

HistoryOK ==
  /\ history \in History
  /\ doing \in {"patches", "filling", "walking", "printed"}
  /\ patch \in Touching \cup {0} /\ (doing \in {"filling", "walking"} => patch # 0)
  /\ count = Cardinality({i \in Touching : i <= patch})

\* The cells that are filled.
Done(i, j) == doing = "filling" => i > row \/ (i = row /\ j > col)

TableOK ==
  doing \in {"filling", "walking"} =>
    /\ notes \in [1 .. Rows -> Nat]
    /\ table \in [Cells -> Nat]
    /\ \A i \in 1 .. Rows + 1 : table[<<i, Cols + 1>>] = 0
    /\ \A j \in 1 .. Cols + 1 : table[<<Rows + 1, j>>] = 0
    /\ \A i \in 1 .. Rows, j \in 1 .. Cols :
         Done(i, j) => table[<<i, j>>] = Cell(i, j) /\ AtMost(i, j, table[<<i, j>>])
    /\ doing = "filling" => row \in 0 .. Rows /\ col \in 0 .. Cols

\* What has been paired on the way, and what can still be, is as much as there is.
Paired(pairs) ==
  /\ \A p \in pairs : p[1] < row /\ p[2] < col
  /\ Cardinality(pairs) + table[<<row, col>>] = table[<<1, 1>>]
  /\ \A p \in pairs : result[p[2]] = notes[p[1]]
  /\ \A j \in 1 .. col - 1 : (\A p \in pairs : p[2] # j) => result[j] = count

PathOK ==
  doing = "walking" =>
    /\ row \in 1 .. Rows + 1 /\ col \in 1 .. Cols + 1
    /\ result \in Seq(Nat) /\ Len(result) = col - 1
    /\ \E pairs \in Alignments(OldLines, NewLines) : Paired(pairs)

NamedOK ==
  /\ doing = "patches" /\ patch # 0 =>
       /\ result \in Seq(Nat)
       /\ Faithful(OldLines, notes, NewLines, result, count)
  /\ doing = "printed" =>
       /\ count = Cardinality(Touching)
       /\ count # 0 => DOMAIN result = DOMAIN LeftBy(history.stop)

AInv == HistoryOK /\ TableOK /\ PathOK /\ NamedOK

-----------------------------------------------------------------------------
(* annotate: pairs of lines.                                                *)

LEMMA PairsAre ==
  ASSUME NEW old, NEW new, DOMAIN old = 1 .. Len(old), DOMAIN new = 1 .. Len(new),
         Len(old) \in Nat, Len(new) \in Nat, NEW pairs \in Alignments(old, new)
  PROVE  /\ pairs \subseteq (1 .. Len(old)) \X (1 .. Len(new))
         /\ \A p \in pairs : p[1] \in 1 .. Len(old) /\ p[2] \in 1 .. Len(new)
                             /\ old[p[1]] = new[p[2]] /\ p = <<p[1], p[2]>>
         /\ IsFiniteSet(pairs) /\ Cardinality(pairs) \in Nat
<1>1. pairs \subseteq (1 .. Len(old)) \X (1 .. Len(new))
      /\ \A p \in pairs : old[p[1]] = new[p[2]] BY DEF Alignments, Common
<1>2. IsFiniteSet(1 .. Len(old)) /\ IsFiniteSet(1 .. Len(new)) BY FS_Interval
<1>3. IsFiniteSet((1 .. Len(old)) \X (1 .. Len(new))) BY <1>2, FS_Product
<1>4. IsFiniteSet(pairs) BY <1>1, <1>3, FS_Subset
<1> QED BY <1>1, <1>4, FS_CardinalityType

\* A part of an alignment is one.
LEMMA PartOf ==
  ASSUME NEW old, NEW new, NEW pairs \in Alignments(old, new), NEW part, part \subseteq pairs
  PROVE  part \in Alignments(old, new) BY DEF Alignments, InOrder

\* In what is left of an alignment at most one pair has one of the next two lines,
\* and none has both unless they are equal.
LEMMA NextPair ==
  ASSUME NEW pairs, \A p \in pairs : p[1] \in Nat /\ p[2] \in Nat /\ p = <<p[1], p[2]>>,
         InOrder(pairs), NEW i \in Nat, NEW j \in Nat, From(pairs, i, j)
  PROVE  /\ \A p, q \in pairs : (p[1] = i \/ p[2] = j) /\ (q[1] = i \/ q[2] = j) => p = q
         /\ <<i, j>> \notin pairs => From(pairs, i + 1, j) \/ From(pairs, i, j + 1)
<1>1. ASSUME NEW p \in pairs, NEW q \in pairs, p[1] = i, q[2] = j
      PROVE  p[1] = q[1] /\ p[2] = q[2]
  <2>1. p[1] <= q[1] /\ q[2] <= p[2] /\ (p[1] < q[1] <=> p[2] < q[2]) /\ (q[1] < p[1] <=> q[2] < p[2])
    BY <1>1 DEF From, InOrder
  <2>2. p[1] \in Nat /\ p[2] \in Nat /\ q[1] \in Nat /\ q[2] \in Nat OBVIOUS
  <2> QED BY <2>1, <2>2
<1>2. ASSUME NEW p \in pairs, NEW q \in pairs, p[1] = q[1] \/ p[2] = q[2] PROVE p[1] = q[1] /\ p[2] = q[2]
  <2>1. (p[1] < q[1] <=> p[2] < q[2]) /\ (q[1] < p[1] <=> q[2] < p[2]) BY DEF InOrder
  <2>2. p[1] \in Nat /\ p[2] \in Nat /\ q[1] \in Nat /\ q[2] \in Nat OBVIOUS
  <2> QED BY <1>2, <2>1, <2>2
<1>3. ASSUME NEW p \in pairs, NEW q \in pairs, p[1] = q[1], p[2] = q[2] PROVE p = q
  <2>2. p = <<p[1], p[2]>> /\ q = <<q[1], q[2]>> OBVIOUS
  <2>3. <<p[1], p[2]>> = <<q[1], q[2]>> BY <1>3
  <2> QED BY <2>2, <2>3
<1>4. ASSUME NEW p \in pairs, NEW q \in pairs, p[1] = i \/ p[2] = j, q[1] = i \/ q[2] = j
      PROVE  p = q
  <2>1. p[1] = q[1] /\ p[2] = q[2] BY <1>1, <1>2, <1>4
  <2> QED BY <1>3, <2>1
<1>5. ASSUME <<i, j>> \notin pairs PROVE From(pairs, i + 1, j) \/ From(pairs, i, j + 1)
  <2>1. CASE \E p \in pairs : p[1] = i
    <3>1. PICK p \in pairs : p[1] = i BY <2>1
    <3>2. ASSUME NEW q \in pairs, q[2] = j PROVE FALSE
      <4>2. q[1] = i /\ q = <<q[1], q[2]>> BY <1>1, <3>1, <3>2
      <4> QED BY <1>5, <3>2, <4>2
    <3>3. From(pairs, i, j + 1)
      <4>1. SUFFICES ASSUME NEW q \in pairs PROVE q[1] >= i /\ q[2] >= j + 1 BY DEF From
      <4>2. q[1] >= i /\ q[2] >= j /\ q[2] # j /\ q[2] \in Nat BY <3>2 DEF From
      <4> QED BY <4>2
    <3> QED BY <3>3
  <2>2. CASE ~\E p \in pairs : p[1] = i
    <3>1. SUFFICES ASSUME NEW q \in pairs PROVE q[1] >= i + 1 /\ q[2] >= j BY DEF From
    <3>2. q[1] >= i /\ q[2] >= j /\ q[1] # i /\ q[1] \in Nat BY <2>2 DEF From
    <3> QED BY <3>2
  <2> QED BY <2>1, <2>2
<1> QED BY <1>4, <1>5

-----------------------------------------------------------------------------
(* annotate: the files.                                                     *)

LEMMA SameFiles ==
  ASSUME history' = history
  PROVE  /\ Touching' = Touching
         /\ \A i : LeftBy(i)' = LeftBy(i)
         /\ patch' = patch =>
              /\ OldLines' = OldLines /\ NewLines' = NewLines /\ Rows' = Rows /\ Cols' = Cols
              /\ Cells' = Cells
              /\ \A i, j, n : AtMost(i, j, n)' = AtMost(i, j, n)
<1>1. Touching' = Touching BY DEF Touching
<1>2. \A i : LeftBy(i)' = LeftBy(i) BY DEF LeftBy, FirstOf
<1>3. ASSUME patch' = patch
      PROVE  /\ OldLines' = OldLines /\ NewLines' = NewLines /\ Rows' = Rows /\ Cols' = Cols
             /\ Cells' = Cells
             /\ \A i, j, n : AtMost(i, j, n)' = AtMost(i, j, n)
  <2>1. OldLines' = OldLines /\ NewLines' = NewLines BY <1>2, <1>3 DEF OldLines, NewLines
  <2>2. Rows' = Rows /\ Cols' = Cols BY <2>1 DEF Rows, Cols
  <2>3. \A i, j, n : AtMost(i, j, n)' = AtMost(i, j, n) BY <2>1 DEF AtMost
  <2> QED BY <2>1, <2>2, <2>3 DEF Cells
<1> QED BY <1>1, <1>2, <1>3

\* The backups that the command takes for those of later patches.
Later(i) == {k \in history.tracked : k > i /\ (k <= history.stop \/ ~history.hidden)}

LEMMA HistoryFacts ==
  ASSUME history \in History
  PROVE  /\ history.applied \in Nat /\ history.stop \in 1 .. history.applied
         /\ history.tracked \subseteq 1 .. history.applied
         /\ Touching \subseteq history.tracked /\ Touching \subseteq 1 .. history.applied
         /\ \A i \in 1 .. history.applied : history.backup[i] \in Seq(Contents)
         /\ \A i : LeftBy(i) \in Seq(Contents)
<1>1. history.applied \in Nat /\ history.stop \in 1 .. history.applied
      /\ history.tracked \subseteq 1 .. history.applied
      /\ history.backup \in Seq(Seq(Contents)) /\ Len(history.backup) = history.applied
      /\ history.work \in Seq(Contents) BY DEF History
<1>2. \A i \in 1 .. history.applied : history.backup[i] \in Seq(Contents) BY <1>1
<1>3. Touching \subseteq history.tracked BY DEF Touching
<1>4. ASSUME NEW i PROVE LeftBy(i) \in Seq(Contents)
  <2> DEFINE later == Later(i)
  <2>1. CASE later = {} BY <1>1, <2>1 DEF LeftBy, FirstOf, Later
  <2>2. CASE later # {}
    <3>1. \E k : IsFirst(k, later)
      <4>1. later \subseteq Nat BY <1>1 DEF Later
      <4> HIDE DEF later
      <4> QED BY <2>2, <4>1, LeastNumber DEF IsFirst
    <3>2. IsFirst(CHOOSE k \in later : IsFirst(k, later), later)
          /\ (CHOOSE k \in later : IsFirst(k, later)) \in later
      <4> HIDE DEF later
      <4> QED BY <3>1 DEF IsFirst
    <3>3. LeftBy(i) = history.backup[CHOOSE k \in later : IsFirst(k, later)] BY <2>2 DEF LeftBy, FirstOf, Later
    <3> QED BY <1>1, <1>2, <3>2, <3>3 DEF Later
  <2> QED BY <2>1, <2>2
<1> QED BY <1>1, <1>2, <1>3, <1>4

\* The two files that are compared.
LEMMA LinesAre ==
  ASSUME HistoryOK, patch # 0
  PROVE  /\ OldLines \in Seq(Contents) /\ NewLines \in Seq(Contents)
         /\ Rows \in Nat /\ Cols \in Nat /\ Rows = Len(OldLines) /\ Cols = Len(NewLines)
         /\ DOMAIN OldLines = 1 .. Rows /\ DOMAIN NewLines = 1 .. Cols
<1>1. patch \in 1 .. history.applied BY HistoryFacts DEF HistoryOK
<1>2. OldLines \in Seq(Contents) /\ NewLines \in Seq(Contents)
  BY <1>1, HistoryFacts DEF HistoryOK, OldLines, NewLines
<1> QED BY <1>2 DEF Rows, Cols

\* The first backup that is later than a patch is what it left.
LEMMA LeftIs ==
  ASSUME history \in History, NEW i \in Nat, NEW k \in history.tracked,
         k > i, k <= history.stop, \A l \in history.tracked : l > i => k <= l
  PROVE  LeftBy(i) = history.backup[k]
<1> DEFINE later == Later(i)
<1>1. k \in later /\ IsFirst(k, later) /\ later \subseteq Nat BY HistoryFacts DEF IsFirst, Later
<1>2. LeftBy(i) = history.backup[CHOOSE l \in later : IsFirst(l, later)]
  BY <1>1 DEF LeftBy, FirstOf, Later
<1>3. \A l \in later : IsFirst(l, later) => l = k
  <2> HIDE DEF later
  <2>1. SUFFICES ASSUME NEW l \in later, IsFirst(l, later) PROVE l = k OBVIOUS
  <2>2. l <= k /\ k <= l /\ l \in Nat /\ k \in Nat BY <1>1, <2>1 DEF IsFirst
  <2> QED BY <2>2
<1>4. (CHOOSE l \in later : IsFirst(l, later)) = k
  <2> HIDE DEF later
  <2> QED BY <1>1, <1>3
<1> QED BY <1>2, <1>4

LEMMA SameLeft ==
  ASSUME NEW i, NEW j, Later(i) = Later(j)
  PROVE  LeftBy(i) = LeftBy(j)
BY DEF LeftBy, Later

\* Unless the file is misread, it is what the patch left.
LEMMA LeftIsLeft ==
  ASSUME history \in History, ~Misread, NEW i
  PROVE  LeftBy(i) = Left(i)
<1>1. \A k \in history.tracked : k <= history.stop \/ ~history.hidden
  <2>1. history.stop \in Nat /\ \A k \in history.tracked : k \in Nat BY HistoryFacts
  <2> QED BY <2>1 DEF Misread
<1>2. Later(i) = {k \in history.tracked : k > i} BY <1>1 DEF Later
<1> QED BY <1>2 DEF LeftBy, Left, Later

\* A patch is counted.
LEMMA OneMore ==
  ASSUME history \in History, patch \in Touching \cup {0}, NEW k \in Touching,
         IsFirst(k, {i \in Touching : i > patch})
  PROVE  /\ Cardinality({i \in Touching : i <= k}) = Cardinality({i \in Touching : i <= patch}) + 1
         /\ Cardinality({i \in Touching : i <= patch}) \in Nat
<1>1. Touching \subseteq 1 .. history.applied /\ IsFiniteSet(1 .. history.applied)
  BY HistoryFacts, FS_Interval
<1>2. IsFiniteSet({i \in Touching : i <= patch}) BY <1>1, FS_Subset
<1>3. k > patch /\ \A i \in Touching : i > patch => k <= i BY DEF IsFirst
<1>4. {i \in Touching : i <= k} = {i \in Touching : i <= patch} \cup {k}
  <2>1. \A i \in Touching : i <= k <=> i <= patch \/ i = k
    <3>1. Touching \subseteq Nat /\ patch \in Nat BY <1>1, HistoryFacts
    <3>2. SUFFICES ASSUME NEW i \in Touching PROVE i <= k <=> i <= patch \/ i = k OBVIOUS
    <3>3. i \in Nat /\ k \in Nat BY <3>1
    <3>4. i > patch => k <= i BY <1>3
    <3> QED BY <1>3, <3>1, <3>3, <3>4
  <2> QED BY <2>1
<1>5. k \notin {i \in Touching : i <= patch} BY <1>1, <1>3, HistoryFacts
<1> QED BY <1>2, <1>4, <1>5, FS_AddElement, FS_CardinalityType

LEMMA CountIs ==
  ASSUME HistoryOK
  PROVE  count \in Nat /\ (count = 0 <=> patch = 0)
<1>1. Touching \subseteq 1 .. history.applied /\ IsFiniteSet(1 .. history.applied) /\ history.applied \in Nat
  BY HistoryFacts, FS_Interval DEF HistoryOK
<1>2. IsFiniteSet({i \in Touching : i <= patch}) BY <1>1, FS_Subset
<1>3. count \in Nat BY <1>2, FS_CardinalityType DEF HistoryOK
<1>4. count = 0 <=> {i \in Touching : i <= patch} = {} BY <1>2, FS_EmptySet DEF HistoryOK
<1>5. patch = 0 => {i \in Touching : i <= patch} = {}
  <2>1. \A i \in Touching : i \in 1 .. history.applied BY <1>1
  <2>2. \A i \in Touching : ~(i <= 0) BY <1>1, <2>1
  <2> QED BY <2>2
<1>6. patch # 0 => patch \in {i \in Touching : i <= patch} BY <1>1 DEF HistoryOK
<1> QED BY <1>3, <1>4, <1>5, <1>6

-----------------------------------------------------------------------------
(* annotate: the table.                                                     *)

LEMMA AtMostNone ==
  ASSUME HistoryOK, patch # 0, NEW i \in Nat, NEW j \in Nat, i > Rows \/ j > Cols
  PROVE  AtMost(i, j, 0)
<1>1. SUFFICES ASSUME NEW pairs \in Alignments(OldLines, NewLines), From(pairs, i, j)
               PROVE  Cardinality(pairs) <= 0 BY DEF AtMost
<1>2. \A p \in pairs : p[1] \in 1 .. Rows /\ p[2] \in 1 .. Cols BY LinesAre, PairsAre
<1>3. Rows \in Nat /\ Cols \in Nat BY LinesAre
<1>4. pairs = {} BY <1>1, <1>2, <1>3 DEF From
<1> QED BY <1>4, FS_EmptySet

\* The recurrence: what three cells say of what comes after gives the bound here.
LEMMA CellIsBest ==
  ASSUME HistoryOK, patch # 0, NEW i \in 1 .. Rows, NEW j \in 1 .. Cols,
         table[<<i + 1, j + 1>>] \in Nat, AtMost(i + 1, j + 1, table[<<i + 1, j + 1>>]),
         table[<<i + 1, j>>] \in Nat, AtMost(i + 1, j, table[<<i + 1, j>>]),
         table[<<i, j + 1>>] \in Nat, AtMost(i, j + 1, table[<<i, j + 1>>])
  PROVE  AtMost(i, j, Cell(i, j))
<1>1. SUFFICES ASSUME NEW pairs \in Alignments(OldLines, NewLines), From(pairs, i, j)
               PROVE  Cardinality(pairs) <= Cell(i, j) BY DEF AtMost
<1>2. Rows \in Nat /\ Cols \in Nat /\ i \in Nat /\ j \in Nat BY LinesAre
<1>3. /\ \A p \in pairs : p[1] \in 1 .. Rows /\ p[2] \in 1 .. Cols
                          /\ OldLines[p[1]] = NewLines[p[2]] /\ p = <<p[1], p[2]>>
      /\ IsFiniteSet(pairs) /\ Cardinality(pairs) \in Nat BY LinesAre, PairsAre
<1>4. /\ \A p, q \in pairs : (p[1] = i \/ p[2] = j) /\ (q[1] = i \/ q[2] = j) => p = q
      /\ <<i, j>> \notin pairs => From(pairs, i + 1, j) \/ From(pairs, i, j + 1)
  <2>1. InOrder(pairs) BY DEF Alignments
  <2>2. \A p \in pairs : p[1] \in Nat /\ p[2] \in Nat /\ p = <<p[1], p[2]>> BY <1>2, <1>3
  <2> QED BY <1>1, <1>2, <2>1, <2>2, NextPair
<1>5. CASE OldLines[i] = NewLines[j]
  <2> DEFINE later == {p \in pairs : p[1] # i /\ p[2] # j}
  <2>1. later \in Alignments(OldLines, NewLines) /\ IsFiniteSet(later) /\ Cardinality(later) \in Nat
    <3>1. later \in Alignments(OldLines, NewLines) BY PartOf
    <3> QED BY <1>3, <3>1, FS_Subset, FS_CardinalityType
  <2>2. From(later, i + 1, j + 1)
    <3>1. SUFFICES ASSUME NEW p \in pairs, p[1] # i, p[2] # j PROVE p[1] >= i + 1 /\ p[2] >= j + 1
      BY DEF From
    <3>2. p[1] >= i /\ p[2] >= j /\ p[1] \in Nat /\ p[2] \in Nat BY <1>1, <1>2, <1>3 DEF From
    <3> QED BY <1>2, <3>1, <3>2
  <2>3. Cardinality(later) <= table[<<i + 1, j + 1>>]
    <3> HIDE DEF later
    <3> QED BY <2>1, <2>2 DEF AtMost
  <2>4. Cardinality(pairs) <= Cardinality(later) + 1
    <3>1. CASE pairs = later BY <2>1, <3>1
    <3>2. CASE pairs # later
      <4>1. PICK p \in pairs : p[1] = i \/ p[2] = j BY <3>2
      <4>2. \A q \in pairs : q \notin later => q = p BY <1>4, <4>1
      <4>3. pairs = later \cup {p} /\ p \notin later BY <4>1, <4>2
      <4> HIDE DEF later
      <4>4. Cardinality(pairs) = Cardinality(later) + 1 BY <2>1, <4>3, FS_AddElement
      <4> QED BY <2>1, <4>4
    <3> QED BY <3>1, <3>2
  <2>5. Cell(i, j) = table[<<i + 1, j + 1>>] + 1 BY <1>5 DEF Cell
  <2> HIDE DEF later
  <2> QED BY <1>3, <2>1, <2>3, <2>4, <2>5
<1>6. CASE OldLines[i] # NewLines[j]
  <2>1. <<i, j>> \notin pairs
    <3>1. SUFFICES ASSUME <<i, j>> \in pairs PROVE FALSE OBVIOUS
    <3>2. OldLines[<<i, j>>[1]] = NewLines[<<i, j>>[2]] BY <1>3, <3>1
    <3> QED BY <1>6, <3>2
  <2>2. Cardinality(pairs) <= table[<<i + 1, j>>] \/ Cardinality(pairs) <= table[<<i, j + 1>>]
    BY <1>4, <2>1 DEF AtMost
  <2>3. Cell(i, j) = IF table[<<i + 1, j>>] >= table[<<i, j + 1>>] THEN table[<<i + 1, j>>]
                     ELSE table[<<i, j + 1>>] BY <1>6 DEF Cell
  <2> QED BY <1>3, <2>2, <2>3
<1> QED BY <1>5, <1>6

\* What is filled, and the border, is a bound.
LEMMA FilledIsBest ==
  ASSUME HistoryOK, patch # 0, TableOK, doing \in {"filling", "walking"},
         NEW i \in 1 .. Rows + 1, NEW j \in 1 .. Cols + 1, i = Rows + 1 \/ j = Cols + 1 \/ Done(i, j)
  PROVE  table[<<i, j>>] \in Nat /\ AtMost(i, j, table[<<i, j>>])
<1>1. Rows \in Nat /\ Cols \in Nat BY LinesAre
<1>2. <<i, j>> \in Cells /\ table \in [Cells -> Nat] BY DEF TableOK, Cells
<1>3. table[<<i, j>>] \in Nat BY <1>2
<1>4. CASE i = Rows + 1 \/ j = Cols + 1
  <2>1. table[<<i, j>>] = 0 BY <1>4 DEF TableOK
  <2>2. i > Rows \/ j > Cols BY <1>1, <1>4
  <2> QED BY <1>1, <2>1, <2>2, AtMostNone
<1>5. CASE i # Rows + 1 /\ j # Cols + 1
  <2>1. i \in 1 .. Rows /\ j \in 1 .. Cols /\ Done(i, j) BY <1>1, <1>5
  <2> QED BY <1>3, <2>1 DEF TableOK
<1> QED BY <1>3, <1>4, <1>5

LEMMA AnnotateStarts ==
  ASSUME AnnotateInit
  PROVE  AInv
<1>1. history \in History /\ doing = "patches" /\ patch = 0 /\ count = 0
  BY HistoriesAreLegal DEF AnnotateInit, AnnotateAtStart
<1>2. Cardinality({i \in Touching : i <= patch}) = 0
  <2>1. \A i \in Touching : i \in 1 .. history.applied /\ history.applied \in Nat
    BY <1>1, HistoryFacts
  <2>2. {i \in Touching : i <= patch} = {} BY <1>1, <2>1
  <2> QED BY <2>2, FS_EmptySet
<1>3. HistoryOK BY <1>1, <1>2 DEF HistoryOK
<1> QED BY <1>1, <1>3 DEF AInv, TableOK, PathOK, NamedOK

LEMMA NextPatchInv ==
  ASSUME AInv, NextPatch
  PROVE  AInv'
<1>1. PICK k \in Touching :
        /\ IsFirst(k, {i \in Touching : i > patch})
        /\ patch' = k /\ count' = count + 1
        /\ notes' = IF count = 0 THEN [i \in DOMAIN history.backup[k] |-> 0] ELSE result
        /\ table' = [c \in (1 .. Len(history.backup[k]) + 1) \X (1 .. Len(LeftBy(k)) + 1) |-> 0]
        /\ row' = Len(history.backup[k]) /\ col' = Len(LeftBy(k)) BY DEF NextPatch
<1>2. doing = "patches" /\ doing' = "filling" /\ history' = history /\ result' = result
  BY DEF NextPatch
<1>3. HistoryOK /\ history \in History /\ k \in 1 .. history.applied /\ k # 0 /\ k \in Nat
      /\ patch \in Nat /\ Touching \subseteq Nat /\ k \in history.tracked
  BY <1>1, HistoryFacts DEF AInv, HistoryOK
<1>4. HistoryOK' BY <1>1, <1>2, <1>3, OneMore, SameFiles DEF HistoryOK
<1>5. OldLines' = history.backup[k] /\ NewLines' = LeftBy(k)
  BY <1>1, <1>2, SameFiles DEF OldLines, NewLines
<1>6. Rows' \in Nat /\ Cols' \in Nat /\ Rows' = Len(history.backup[k]) /\ Cols' = Len(LeftBy(k))
      /\ DOMAIN history.backup[k] = 1 .. Rows' BY <1>3, <1>5, HistoryFacts DEF Rows, Cols
<1>7. notes' \in [1 .. Rows' -> Nat]
  <2>1. CASE count = 0 BY <1>1, <1>6, <2>1
  <2>2. CASE count # 0
    <3>1. patch # 0 BY <1>3, <2>2, CountIs
    <3>2. result \in Seq(Nat) /\ DOMAIN result = DOMAIN LeftBy(patch)
      BY <1>2, <3>1 DEF AInv, NamedOK, Faithful, NewLines
    <3>3. k > patch /\ \A l \in history.tracked : l > patch => k <= l
      <4>1. k > patch /\ \A l \in Touching : l > patch => k <= l BY <1>1 DEF IsFirst
      <4>2. ASSUME NEW l \in history.tracked, l > patch PROVE k <= l
        <5>1. l \in Nat /\ history.stop \in Nat /\ k <= history.stop
          BY <1>1, <1>3, HistoryFacts DEF Touching
        <5>2. CASE l <= history.stop BY <4>1, <4>2, <5>2 DEF Touching
        <5>3. CASE l > history.stop BY <1>3, <5>1, <5>3
        <5> QED BY <5>1, <5>2, <5>3
      <4> QED BY <4>1, <4>2
    <3>4. LeftBy(patch) = history.backup[k] BY <1>1, <1>3, <3>3, LeftIs DEF Touching
    <3>5. notes' = result /\ DOMAIN result = 1 .. Rows' BY <1>1, <1>6, <2>2, <3>2, <3>4
    <3>6. result \in [DOMAIN result -> Nat] BY <3>2
    <3> QED BY <3>5, <3>6
  <2> QED BY <2>1, <2>2
<1>8. TableOK'
  <2>1. table' = [c \in Cells' |-> 0] BY <1>1, <1>6 DEF Cells
  <2>2. \A i \in 1 .. Rows' + 1, j \in 1 .. Cols' + 1 : table'[<<i, j>>] = 0 BY <2>1 DEF Cells
  <2>3. \A i \in 1 .. Rows', j \in 1 .. Cols' : ~Done(i, j)' BY <1>1, <1>2, <1>6 DEF Done
  <2>4. Rows' + 1 \in 1 .. Rows' + 1 /\ Cols' + 1 \in 1 .. Cols' + 1 BY <1>6
  <2>5. row' \in 0 .. Rows' /\ col' \in 0 .. Cols' BY <1>1, <1>6
  <2>6. table' \in [Cells' -> Nat] BY <2>1
  <2> QED BY <1>7, <2>2, <2>3, <2>4, <2>5, <2>6 DEF TableOK
<1> QED BY <1>2, <1>4, <1>8 DEF AInv, PathOK, NamedOK

\* What the table's loops have at hand.
LEMMA TableFacts ==
  ASSUME AInv, doing \in {"filling", "walking"}
  PROVE  /\ HistoryOK /\ patch # 0 /\ Rows \in Nat /\ Cols \in Nat /\ count \in Nat
         /\ notes \in [1 .. Rows -> Nat] /\ table \in [Cells -> Nat]
         /\ \A i \in 1 .. Rows + 1, j \in 1 .. Cols + 1 : table[<<i, j>>] \in Nat
<1>1. HistoryOK /\ patch # 0 /\ table \in [Cells -> Nat] /\ notes \in [1 .. Rows -> Nat]
  BY DEF AInv, HistoryOK, TableOK
<1>2. \A i \in 1 .. Rows + 1, j \in 1 .. Cols + 1 : table[<<i, j>>] \in Nat BY <1>1 DEF Cells
<1> QED BY <1>1, <1>2, LinesAre, CountIs

LEMMA FillInv ==
  ASSUME AInv, Fill
  PROVE  AInv'
<1>1. doing = "filling" /\ doing' = "filling" /\ row > 0 /\ col > 0 /\ history' = history /\ patch' = patch
      /\ count' = count /\ notes' = notes /\ row' = row /\ col' = col - 1
      /\ table' = [table EXCEPT ![<<row, col>>] = Cell(row, col)] BY DEF Fill
<1>2. HistoryOK /\ patch # 0 /\ Rows \in Nat /\ Cols \in Nat /\ table \in [Cells -> Nat]
      /\ row \in 1 .. Rows /\ col \in 1 .. Cols
      /\ \A i \in 1 .. Rows + 1, j \in 1 .. Cols + 1 : table[<<i, j>>] \in Nat
  BY <1>1, TableFacts DEF AInv, TableOK
<1>3. /\ AtMost(row + 1, col + 1, table[<<row + 1, col + 1>>]) /\ table[<<row + 1, col + 1>>] \in Nat
      /\ AtMost(row + 1, col, table[<<row + 1, col>>]) /\ table[<<row + 1, col>>] \in Nat
      /\ AtMost(row, col + 1, table[<<row, col + 1>>]) /\ table[<<row, col + 1>>] \in Nat
  <2>1. row + 1 \in 1 .. Rows + 1 /\ col + 1 \in 1 .. Cols + 1 /\ row \in 1 .. Rows + 1 /\ col \in 1 .. Cols + 1
    BY <1>2
  <2>2. Done(row + 1, col + 1) /\ Done(row + 1, col) /\ Done(row, col + 1) BY <1>2 DEF Done
  <2> QED BY <1>1, <1>2, <2>1, <2>2, FilledIsBest DEF AInv
<1>4. AtMost(row, col, Cell(row, col)) BY <1>2, <1>3, CellIsBest
<1>5. Cell(row, col) \in Nat BY <1>3 DEF Cell
<1>6. ASSUME NEW i \in 1 .. Rows + 1, NEW j \in 1 .. Cols + 1
      PROVE  table'[<<i, j>>] = IF i = row /\ j = col THEN Cell(row, col) ELSE table[<<i, j>>]
  <2>2. <<i, j>> \in DOMAIN table BY <1>2 DEF Cells
  <2>3. <<i, j>> = <<row, col>> <=> i = row /\ j = col OBVIOUS
  <2> QED BY <1>1, <2>2, <2>3
<1>7. table' \in [Cells -> Nat] BY <1>1, <1>2, <1>5
<1>8. Rows' = Rows /\ Cols' = Cols /\ Cells' = Cells /\ OldLines' = OldLines /\ NewLines' = NewLines
      /\ \A i, j, n : AtMost(i, j, n)' = AtMost(i, j, n) BY <1>1, SameFiles
<1>9. ASSUME NEW i \in 1 .. Rows, NEW j \in 1 .. Cols, Done(i, j)'
      PROVE  table'[<<i, j>>] = Cell(i, j)' /\ AtMost(i, j, table'[<<i, j>>])
  <2>1. i \in Nat /\ j \in Nat /\ row \in Nat /\ col \in Nat
        /\ i \in 1 .. Rows + 1 /\ j \in 1 .. Cols + 1 /\ i + 1 \in 1 .. Rows + 1 /\ j + 1 \in 1 .. Cols + 1
    BY <1>2
  <2>2. i > row \/ (i = row /\ j >= col) BY <1>1, <1>9, <2>1 DEF Done
  <2>3. Cell(i, j)' = Cell(i, j)
    <3>1. /\ table'[<<i + 1, j + 1>>] = table[<<i + 1, j + 1>>]
          /\ table'[<<i + 1, j>>] = table[<<i + 1, j>>]
          /\ table'[<<i, j + 1>>] = table[<<i, j + 1>>] BY <1>6, <2>1, <2>2
    <3> QED BY <1>8, <3>1 DEF Cell
  <2>4. CASE i = row /\ j = col BY <1>4, <1>6, <2>1, <2>3, <2>4
  <2>5. CASE ~(i = row /\ j = col)
    <3>1. table'[<<i, j>>] = table[<<i, j>>] BY <1>6, <2>1, <2>5
    <3>2. Done(i, j) BY <2>1, <2>2, <2>5 DEF Done
    <3> QED BY <1>1, <2>3, <3>1, <3>2 DEF AInv, TableOK
  <2> QED BY <2>4, <2>5
<1>10. /\ \A i \in 1 .. Rows + 1 : table'[<<i, Cols + 1>>] = 0
       /\ \A j \in 1 .. Cols + 1 : table'[<<Rows + 1, j>>] = 0
  <2>1. Cols + 1 \in 1 .. Cols + 1 /\ Rows + 1 \in 1 .. Rows + 1 /\ col # Cols + 1 /\ row # Rows + 1
    BY <1>2
  <2>2. /\ \A i \in 1 .. Rows + 1 : table'[<<i, Cols + 1>>] = table[<<i, Cols + 1>>]
        /\ \A j \in 1 .. Cols + 1 : table'[<<Rows + 1, j>>] = table[<<Rows + 1, j>>] BY <1>6, <2>1
  <2> QED BY <1>1, <2>2 DEF AInv, TableOK
<1>11. TableOK'
  <2>1. row' \in 0 .. Rows /\ col' \in 0 .. Cols BY <1>1, <1>2
  <2>2. notes' \in [1 .. Rows -> Nat] BY <1>1, TableFacts
  <2> QED BY <1>7, <1>8, <1>9, <1>10, <2>1, <2>2 DEF TableOK
<1>12. HistoryOK' BY <1>1, <1>2, SameFiles DEF HistoryOK
<1> QED BY <1>1, <1>11, <1>12 DEF AInv, PathOK, NamedOK

\* The table stays, and at least as much of it is not filled.
LEMMA TableStays ==
  ASSUME AInv, doing \in {"filling", "walking"}, doing' \in {"filling", "walking"},
         history' = history, patch' = patch, count' = count, notes' = notes, table' = table,
         doing' = "filling" => row' \in 0 .. Rows /\ col' \in 0 .. Cols,
         \A i \in 1 .. Rows, j \in 1 .. Cols : Done(i, j)' => Done(i, j)
  PROVE  HistoryOK' /\ TableOK'
<1>1. Rows' = Rows /\ Cols' = Cols /\ Cells' = Cells /\ OldLines' = OldLines /\ NewLines' = NewLines
      /\ \A i, j, n : AtMost(i, j, n)' = AtMost(i, j, n) BY SameFiles
<1>2. \A i, j : Cell(i, j)' = Cell(i, j) BY <1>1 DEF Cell
<1>3. TableOK' BY <1>1, <1>2 DEF AInv, TableOK
<1>4. HistoryOK' BY TableFacts, SameFiles DEF HistoryOK
<1> QED BY <1>3, <1>4

LEMMA NextRowInv ==
  ASSUME AInv, NextRow
  PROVE  AInv'
<1>1. doing = "filling" /\ doing' = "filling" /\ row > 0 /\ col = 0 /\ row' = row - 1 /\ col' = Cols
      /\ history' = history /\ patch' = patch /\ count' = count /\ notes' = notes /\ table' = table
  BY DEF NextRow
<1>2. Rows \in Nat /\ Cols \in Nat /\ row \in 1 .. Rows BY <1>1, TableFacts DEF AInv, TableOK
<1>3. \A i \in 1 .. Rows, j \in 1 .. Cols : Done(i, j)' => Done(i, j) BY <1>1, <1>2 DEF Done
<1>4. row' \in 0 .. Rows /\ col' \in 0 .. Cols BY <1>1, <1>2
<1> QED BY <1>1, <1>3, <1>4, TableStays DEF AInv, PathOK, NamedOK

LEMMA FilledInv ==
  ASSUME AInv, Filled
  PROVE  AInv'
<1>1. doing = "filling" /\ doing' = "walking" /\ row = 0 /\ row' = 1 /\ col' = 1 /\ result' = <<>>
      /\ history' = history /\ patch' = patch /\ count' = count /\ notes' = notes /\ table' = table
  BY DEF Filled
<1>2. Rows \in Nat /\ Cols \in Nat /\ table[<<1, 1>>] \in Nat
  <2>1. 1 \in 1 .. Rows + 1 /\ 1 \in 1 .. Cols + 1 BY <1>1, TableFacts
  <2> QED BY <1>1, <2>1, TableFacts
<1>3. \A i \in 1 .. Rows, j \in 1 .. Cols : Done(i, j) BY <1>1, <1>2 DEF Done
<1>4. PathOK'
  <2>1. {} \in Alignments(OldLines, NewLines) /\ Cardinality({}) = 0
    BY FS_EmptySet DEF Alignments, InOrder
  <2>2. result' \in Seq(Nat) /\ Len(result') = col' - 1 BY <1>1
  <2>3. \E pairs \in Alignments(OldLines, NewLines) :
          /\ \A p \in pairs : p[1] < row' /\ p[2] < col'
          /\ Cardinality(pairs) + table'[<<row', col'>>] = table'[<<1, 1>>]
          /\ \A p \in pairs : result'[p[2]] = notes'[p[1]]
          /\ \A j \in 1 .. col' - 1 : (\A p \in pairs : p[2] # j) => result'[j] = count'
    <3>1. 1 .. col' - 1 = {} BY <1>1
    <3>2. /\ \A p \in {} : p[1] < row' /\ p[2] < col'
          /\ Cardinality({}) + table'[<<row', col'>>] = table'[<<1, 1>>]
          /\ \A p \in {} : result'[p[2]] = notes'[p[1]]
          /\ \A j \in 1 .. col' - 1 : (\A p \in {} : p[2] # j) => result'[j] = count'
      BY <1>1, <1>2, <2>1, <3>1
    <3> QED BY <2>1, <3>2
  <2>4. row' \in 1 .. Rows + 1 /\ col' \in 1 .. Cols + 1 BY <1>1, <1>2
  <2> QED BY <1>1, <2>2, <2>3, <2>4, SameFiles DEF PathOK, Paired
<1> QED BY <1>1, <1>3, <1>4, TableStays DEF AInv, NamedOK

\* What the walk has at hand.
LEMMA WalkFacts ==
  ASSUME AInv, doing = "walking"
  PROVE  /\ Rows \in Nat /\ Cols \in Nat /\ row \in 1 .. Rows + 1 /\ col \in 1 .. Cols + 1
         /\ MoreOld <=> row \in 1 .. Rows
         /\ MoreNew <=> col \in 1 .. Cols
         /\ ~MoreOld => row = Rows + 1
         /\ ~MoreNew => col = Cols + 1
         /\ result \in Seq(Nat) /\ Len(result) = col - 1
         /\ \A i \in 1 .. Rows + 1, j \in 1 .. Cols + 1 : table[<<i, j>>] \in Nat
         /\ ~MoreOld \/ ~MoreNew => table[<<row, col>>] = 0
         /\ MoreOld /\ MoreNew => table[<<row, col>>] = Cell(row, col)
<1>1. Rows \in Nat /\ Cols \in Nat /\ row \in 1 .. Rows + 1 /\ col \in 1 .. Cols + 1
      /\ result \in Seq(Nat) /\ Len(result) = col - 1 BY TableFacts DEF AInv, PathOK
<1>2. /\ MoreOld <=> row \in 1 .. Rows
      /\ MoreNew <=> col \in 1 .. Cols
      /\ ~MoreOld => row = Rows + 1
      /\ ~MoreNew => col = Cols + 1 BY <1>1 DEF MoreOld, MoreNew
<1>3. /\ ~MoreOld \/ ~MoreNew => table[<<row, col>>] = 0
      /\ MoreOld /\ MoreNew => table[<<row, col>>] = Cell(row, col)
  BY <1>1, <1>2 DEF AInv, TableOK, Done
<1> QED BY <1>1, <1>2, <1>3, TableFacts

\* A step of the walk leaves all but the place and the result as it is.
LEMMA WalkSteps ==
  ASSUME AInv, doing = "walking", doing' = "walking",
         history' = history, patch' = patch, count' = count, notes' = notes, table' = table, PathOK'
  PROVE  AInv'
<1>1. \A i \in 1 .. Rows, j \in 1 .. Cols : Done(i, j) BY DEF Done
<1> QED BY <1>1, TableStays DEF AInv, NamedOK

LEMMA KeepInv ==
  ASSUME AInv, KeepLine
  PROVE  AInv'
<1>1. doing = "walking" /\ doing' = "walking" /\ history' = history /\ patch' = patch /\ count' = count
      /\ notes' = notes /\ table' = table /\ row' = row + 1 /\ col' = col + 1
      /\ result' = Append(result, notes[row]) /\ SameLine BY DEF KeepLine
<1>2. /\ Rows \in Nat /\ Cols \in Nat /\ row \in 1 .. Rows /\ col \in 1 .. Cols
      /\ result \in Seq(Nat) /\ Len(result) = col - 1
      /\ table[<<row, col>>] = Cell(row, col) /\ OldLines[row] = NewLines[col]
  BY <1>1, WalkFacts DEF SameLine
<1>3. /\ table[<<row, col>>] = table[<<row + 1, col + 1>>] + 1
      /\ table[<<row + 1, col + 1>>] \in Nat
  <2>1. row + 1 \in 1 .. Rows + 1 /\ col + 1 \in 1 .. Cols + 1 BY <1>2
  <2> QED BY <1>1, <1>2, <2>1, WalkFacts DEF Cell
<1>4. notes[row] \in Nat BY <1>1, <1>2, TableFacts
<1>5. result' \in Seq(Nat) /\ Len(result') = col /\ result'[col] = notes[row]
      /\ \A j \in 1 .. col - 1 : result'[j] = result[j] BY <1>1, <1>2, <1>4
<1>6. PICK pairs \in Alignments(OldLines, NewLines) : Paired(pairs) BY <1>1 DEF AInv, PathOK
<1>7. /\ \A p \in pairs : p[1] \in 1 .. Rows /\ p[2] \in 1 .. Cols
                          /\ OldLines[p[1]] = NewLines[p[2]] /\ p = <<p[1], p[2]>>
      /\ IsFiniteSet(pairs) /\ Cardinality(pairs) \in Nat BY <1>1, TableFacts, LinesAre, PairsAre
<1> DEFINE more == pairs \cup {<<row, col>>}
<1>8. ASSUME NEW p \in pairs
      PROVE  p[1] \in Nat /\ p[2] \in Nat /\ p[1] < row /\ p[2] < col /\ p # <<row, col>>
  <2>2. p[1] \in Nat /\ p[2] \in Nat /\ p[1] < row /\ p[2] < col /\ row \in Nat
    BY <1>2, <1>6, <1>7 DEF Paired
  <2>3. p[1] # row BY <2>2
  <2> QED BY <2>2, <2>3
<1>9. more \in Alignments(OldLines, NewLines)
  <2>1. more \subseteq Common(OldLines, NewLines)
    <3>1. pairs \subseteq Common(OldLines, NewLines) BY DEF Alignments
    <3>2. <<row, col>> \in Common(OldLines, NewLines)
      BY <1>1, <1>2, TableFacts, LinesAre DEF Common
    <3> QED BY <3>1, <3>2
  <2>2. InOrder(more)
    <3>1. SUFFICES ASSUME NEW p \in more, NEW q \in more PROVE p[1] < q[1] <=> p[2] < q[2]
      BY DEF InOrder
    <3>2. CASE p \in pairs /\ q \in pairs BY <3>2 DEF Alignments, InOrder
    <3>3. CASE p \in pairs /\ q = <<row, col>> BY <1>8, <3>3
    <3>4. CASE p = <<row, col>> /\ q \in pairs
      <4>1. ~(row < q[1]) /\ ~(col < q[2]) BY <1>2, <1>8, <3>4
      <4> QED BY <3>4, <4>1
    <3>5. CASE p = <<row, col>> /\ q = <<row, col>> BY <1>2, <3>5
    <3> QED BY <3>2, <3>3, <3>4, <3>5
  <2> QED BY <2>1, <2>2 DEF Alignments
<1>10. Cardinality(more) = Cardinality(pairs) + 1 BY <1>7, <1>8, FS_AddElement
<1>11. Cardinality(more) + table'[<<row', col'>>] = table'[<<1, 1>>]
  <2>1. table'[<<row', col'>>] = table[<<row + 1, col + 1>>] /\ table'[<<1, 1>>] = table[<<1, 1>>]
    BY <1>1
  <2> HIDE DEF more
  <2> QED BY <1>3, <1>6, <1>7, <1>10, <2>1 DEF Paired
<1>12. \A p \in more : p[1] < row' /\ p[2] < col' /\ result'[p[2]] = notes'[p[1]]
  <2>1. ASSUME NEW p \in pairs PROVE p[1] < row' /\ p[2] < col' /\ result'[p[2]] = notes'[p[1]]
    <3>1. p[2] \in 1 .. col - 1 /\ p[1] < row + 1 /\ p[2] < col + 1 BY <1>2, <1>7, <1>8
    <3> QED BY <1>1, <1>5, <1>6, <3>1 DEF Paired
  <2>2. ASSUME NEW p, p = <<row, col>> PROVE p[1] < row' /\ p[2] < col' /\ result'[p[2]] = notes'[p[1]]
    BY <1>1, <1>2, <1>5, <2>2
  <2> QED BY <2>1, <2>2
<1>13. \A j \in 1 .. col' - 1 : (\A p \in more : p[2] # j) => result'[j] = count'
  <2>1. SUFFICES ASSUME NEW j \in 1 .. col, \A p \in more : p[2] # j PROVE result'[j] = count
    BY <1>1, <1>2
  <2>2. j # col
    <3>1. <<row, col>> \in more /\ <<row, col>>[2] = col OBVIOUS
    <3> HIDE DEF more
    <3> QED BY <2>1, <3>1
  <2>3. j \in 1 .. col - 1 /\ \A p \in pairs : p[2] # j BY <1>2, <2>1, <2>2
  <2> QED BY <1>5, <1>6, <2>3 DEF Paired
<1>14. PathOK'
  <2>1. row' \in 1 .. Rows + 1 /\ col' \in 1 .. Cols + 1 /\ Len(result') = col' - 1
    BY <1>1, <1>2, <1>5
  <2> HIDE DEF more
  <2> QED BY <1>1, <1>5, <1>9, <1>11, <1>12, <1>13, <2>1, SameFiles DEF PathOK, Paired
<1> QED BY <1>1, <1>14, WalkSteps

LEMMA InsertInv ==
  ASSUME AInv, InsertLine
  PROVE  AInv'
<1>1. doing = "walking" /\ doing' = "walking" /\ history' = history /\ patch' = patch /\ count' = count
      /\ notes' = notes /\ table' = table /\ row' = row /\ col' = col + 1
      /\ result' = Append(result, count) /\ ~SameLine /\ MoreNew
      /\ (MoreOld => table[<<row, col + 1>>] >= table[<<row + 1, col>>]) BY DEF InsertLine, Inserts
<1>2. /\ Rows \in Nat /\ Cols \in Nat /\ row \in 1 .. Rows + 1 /\ col \in 1 .. Cols
      /\ result \in Seq(Nat) /\ Len(result) = col - 1 /\ count \in Nat
  BY <1>1, WalkFacts, TableFacts
<1>3. table[<<row, col>>] = table[<<row, col + 1>>]
  <2>1. CASE MoreOld
    <3>1. table[<<row, col + 1>>] \in Nat /\ table[<<row + 1, col>>] \in Nat
      <4>1. row \in 1 .. Rows + 1 /\ row + 1 \in 1 .. Rows + 1 /\ col \in 1 .. Cols + 1 /\ col + 1 \in 1 .. Cols + 1
        BY <1>1, <1>2, <2>1, WalkFacts
      <4> QED BY <1>1, <4>1, WalkFacts
    <3>2. table[<<row, col>>] = Cell(row, col) /\ OldLines[row] # NewLines[col]
      BY <1>1, <2>1, WalkFacts DEF SameLine
    <3> QED BY <1>1, <2>1, <3>1, <3>2 DEF Cell
  <2>2. CASE ~MoreOld
    <3>1. row = Rows + 1 /\ table[<<row, col>>] = 0 BY <1>1, <2>2, WalkFacts
    <3>2. col + 1 \in 1 .. Cols + 1 BY <1>2
    <3>3. table[<<Rows + 1, col + 1>>] = 0 BY <1>1, <3>2 DEF AInv, TableOK
    <3> QED BY <3>1, <3>3
  <2> QED BY <2>1, <2>2
<1>4. result' \in Seq(Nat) /\ Len(result') = col /\ result'[col] = count
      /\ \A j \in 1 .. col - 1 : result'[j] = result[j] BY <1>1, <1>2
<1>5. PICK pairs \in Alignments(OldLines, NewLines) : Paired(pairs) BY <1>1 DEF AInv, PathOK
<1>6. \A p \in pairs : p[1] \in 1 .. Rows /\ p[2] \in 1 .. Cols
  BY <1>1, TableFacts, LinesAre, PairsAre
<1>7. ASSUME NEW p \in pairs PROVE p[1] < row' /\ p[2] < col' /\ result'[p[2]] = notes'[p[1]]
  <2>2. p[2] \in 1 .. col - 1 /\ p[2] < col + 1 BY <1>2, <1>5, <1>6 DEF Paired
  <2> QED BY <1>1, <1>4, <1>5, <2>2 DEF Paired
<1>8. \A j \in 1 .. col' - 1 : (\A p \in pairs : p[2] # j) => result'[j] = count'
  <2>1. SUFFICES ASSUME NEW j \in 1 .. col, \A p \in pairs : p[2] # j PROVE result'[j] = count
    BY <1>1, <1>2
  <2>2. CASE j = col BY <1>4, <2>2
  <2>3. CASE j # col
    <3>1. j \in 1 .. col - 1 BY <1>2, <2>3
    <3> QED BY <1>4, <1>5, <2>1, <3>1 DEF Paired
  <2> QED BY <2>2, <2>3
<1>9. PathOK'
  <2>1. row' \in 1 .. Rows + 1 /\ col' \in 1 .. Cols + 1 /\ Len(result') = col' - 1
        /\ Cardinality(pairs) + table'[<<row', col'>>] = table'[<<1, 1>>]
    BY <1>1, <1>2, <1>3, <1>4, <1>5 DEF Paired
  <2> QED BY <1>1, <1>4, <1>7, <1>8, <2>1, SameFiles DEF PathOK, Paired
<1> QED BY <1>1, <1>9, WalkSteps

LEMMA DeleteInv ==
  ASSUME AInv, DeleteLine
  PROVE  AInv'
<1>1. doing = "walking" /\ doing' = "walking" /\ history' = history /\ patch' = patch /\ count' = count
      /\ notes' = notes /\ table' = table /\ row' = row + 1 /\ col' = col /\ result' = result
      /\ ~SameLine /\ MoreOld
      /\ (MoreNew => ~(table[<<row, col + 1>>] >= table[<<row + 1, col>>])) BY DEF DeleteLine, Inserts
<1>2. /\ Rows \in Nat /\ Cols \in Nat /\ row \in 1 .. Rows /\ col \in 1 .. Cols + 1
      /\ result \in Seq(Nat) /\ Len(result) = col - 1 BY <1>1, WalkFacts
<1>3. table[<<row, col>>] = table[<<row + 1, col>>]
  <2>1. CASE MoreNew
    <3>1. table[<<row, col + 1>>] \in Nat /\ table[<<row + 1, col>>] \in Nat
      <4>1. row \in 1 .. Rows + 1 /\ row + 1 \in 1 .. Rows + 1 /\ col \in 1 .. Cols + 1 /\ col + 1 \in 1 .. Cols + 1
        BY <1>1, <1>2, <2>1, WalkFacts
      <4> QED BY <1>1, <4>1, WalkFacts
    <3>2. table[<<row, col>>] = Cell(row, col) /\ OldLines[row] # NewLines[col]
      BY <1>1, <2>1, WalkFacts DEF SameLine
    <3> QED BY <1>1, <2>1, <3>1, <3>2 DEF Cell
  <2>2. CASE ~MoreNew
    <3>1. col = Cols + 1 /\ table[<<row, col>>] = 0 BY <1>1, <2>2, WalkFacts
    <3>2. row + 1 \in 1 .. Rows + 1 BY <1>2
    <3>3. table[<<row + 1, Cols + 1>>] = 0 BY <1>1, <3>2 DEF AInv, TableOK
    <3> QED BY <3>1, <3>3
  <2> QED BY <2>1, <2>2
<1>4. PICK pairs \in Alignments(OldLines, NewLines) : Paired(pairs) BY <1>1 DEF AInv, PathOK
<1>5. \A p \in pairs : p[1] < row' /\ p[2] < col'
  <2>1. \A p \in pairs : p[1] \in 1 .. Rows BY <1>1, TableFacts, LinesAre, PairsAre
  <2> QED BY <1>1, <1>2, <1>4, <2>1 DEF Paired
<1>6. PathOK'
  <2>1. row' \in 1 .. Rows + 1 /\ col' \in 1 .. Cols + 1 /\ Len(result') = col' - 1
        /\ Cardinality(pairs) + table'[<<row', col'>>] = table'[<<1, 1>>]
    BY <1>1, <1>2, <1>3, <1>4 DEF Paired
  <2> QED BY <1>1, <1>2, <1>4, <1>5, <2>1, SameFiles DEF PathOK, Paired
<1> QED BY <1>1, <1>6, WalkSteps

\* At the end of both files as many lines are paired as can be.
LEMMA WalkedInv ==
  ASSUME AInv, Walked
  PROVE  AInv'
<1>1. doing = "walking" /\ doing' = "patches" /\ history' = history /\ patch' = patch /\ count' = count
      /\ notes' = notes /\ table' = table /\ result' = result /\ ~MoreOld /\ ~MoreNew
  BY DEF Walked
<1>2. Rows \in Nat /\ Cols \in Nat /\ row = Rows + 1 /\ col = Cols + 1 /\ table[<<row, col>>] = 0
      /\ result \in Seq(Nat) /\ Len(result) = Cols /\ HistoryOK /\ patch # 0
  BY <1>1, WalkFacts, TableFacts
<1>3. PICK pairs \in Alignments(OldLines, NewLines) : Paired(pairs) BY <1>1 DEF AInv, PathOK
<1>4. Cardinality(pairs) = table[<<1, 1>>]
  <2>1. Cardinality(pairs) \in Nat BY <1>2, LinesAre, PairsAre
  <2> QED BY <1>2, <1>3, <2>1 DEF Paired
<1>5. ASSUME NEW others \in Alignments(OldLines, NewLines)
      PROVE  Cardinality(others) <= Cardinality(pairs)
  <2>1. 1 \in 1 .. Rows + 1 /\ 1 \in 1 .. Cols + 1 /\ Done(1, 1) BY <1>1, <1>2 DEF Done
  <2>2. AtMost(1, 1, table[<<1, 1>>]) BY <1>1, <1>2, <2>1, FilledIsBest DEF AInv
  <2>3. From(others, 1, 1)
    <3>1. \A p \in others : p[1] \in 1 .. Rows /\ p[2] \in 1 .. Cols BY <1>2, LinesAre, PairsAre
    <3> QED BY <3>1 DEF From
  <2> QED BY <1>4, <2>2, <2>3 DEF AtMost
<1>6. DOMAIN result = DOMAIN NewLines /\ DOMAIN NewLines = 1 .. col - 1 BY <1>2, LinesAre
<1>7. Faithful(OldLines, notes, NewLines, result, count) BY <1>3, <1>5, <1>6 DEF Faithful, Paired
<1>8. NamedOK' BY <1>1, <1>2, <1>7, SameFiles DEF NamedOK
<1>9. HistoryOK' BY <1>1, <1>2, SameFiles DEF HistoryOK
<1> QED BY <1>1, <1>8, <1>9 DEF AInv, TableOK, PathOK

LEMMA ShowInv ==
  ASSUME AInv, Show
  PROVE  AInv'
<1>1. doing = "patches" /\ doing' = "printed" /\ (\A i \in Touching : i <= patch)
      /\ history' = history /\ patch' = patch /\ count' = count /\ result' = result BY DEF Show
<1>2. HistoryOK /\ history \in History BY DEF AInv, HistoryOK
<1>3. count = Cardinality(Touching)
  <2>1. {i \in Touching : i <= patch} = Touching BY <1>1
  <2> QED BY <1>2, <2>1 DEF HistoryOK
<1>4. ASSUME count # 0 PROVE DOMAIN result = DOMAIN LeftBy(history.stop)
  <2>1. patch # 0 /\ patch \in Touching BY <1>2, <1>4, CountIs DEF HistoryOK
  <2>2. DOMAIN result = DOMAIN LeftBy(patch) BY <1>1, <2>1 DEF AInv, NamedOK, Faithful, NewLines
  <2>3. ASSUME NEW k \in history.tracked PROVE k > patch <=> k > history.stop
    <3>2. k \in Nat /\ patch \in Nat /\ history.stop \in Nat /\ patch <= history.stop
      BY <1>2, <2>1, HistoryFacts DEF Touching
    <3>3. k <= history.stop => k <= patch BY <1>1 DEF Touching
    <3> QED BY <3>2, <3>3
  <2>4. LeftBy(patch) = LeftBy(history.stop)
    <3>1. Later(patch) = Later(history.stop) BY <2>3 DEF Later
    <3> QED BY <3>1, SameLeft
  <2> QED BY <2>2, <2>4
<1>5. NamedOK' BY <1>1, <1>3, <1>4, SameFiles DEF NamedOK
<1>6. HistoryOK' BY <1>1, <1>2, SameFiles DEF HistoryOK
<1> QED BY <1>1, <1>5, <1>6 DEF AInv, TableOK, PathOK

LEMMA AnnotateStutters ==
  ASSUME AInv, UNCHANGED annotateVars
  PROVE  AInv'
<1>1. history' = history /\ doing' = doing /\ patch' = patch /\ count' = count /\ notes' = notes
      /\ table' = table /\ row' = row /\ col' = col /\ result' = result BY DEF annotateVars
<1>2. HistoryOK' /\ NamedOK' BY <1>1, SameFiles DEF AInv, HistoryOK, NamedOK
<1>3. \A i, j : Cell(i, j)' = Cell(i, j) /\ Done(i, j)' = Done(i, j)
  BY <1>1, SameFiles DEF Cell, Done
<1>4. TableOK' BY <1>1, <1>3, SameFiles DEF AInv, TableOK
<1>5. PathOK' BY <1>1, SameFiles DEF AInv, PathOK, Paired
<1> QED BY <1>2, <1>4, <1>5 DEF AInv

LEMMA AnnotateKeeps ==
  ASSUME AInv, [AnnotateNext]_annotateVars
  PROVE  AInv'
BY NextPatchInv, FillInv, NextRowInv, FilledInv, KeepInv, InsertInv, DeleteInv, WalkedInv, ShowInv,
   AnnotateStutters DEF AnnotateNext

\* Every line that quilt annotate prints has the patch that the table asks for, and
\* the table pairs as many lines as can be paired (reannotate_lines, cmd_annotate),
\* unless the file is misread.
THEOREM AnnotationIsFaithful == AnnotateSpec => []AnnotateIsFaithful
<1>1. ASSUME AInv PROVE AnnotateIsFaithful
  <2>1. doing \in {"filling", "walking"} => DOMAIN notes = DOMAIN OldLines
    BY <1>1, TableFacts, LinesAre
  <2>2. ~Misread => \A i : LeftBy(i) = Left(i) BY <1>1, LeftIsLeft DEF AInv, HistoryOK
  <2> QED BY <1>1, <2>1, <2>2 DEF AInv, NamedOK, NewLines, AnnotateIsFaithful
<1> QED BY <1>1, AnnotateStarts, AnnotateKeeps, PTL DEF AnnotateSpec

==============================================================================
