--------------------------- MODULE QuiltStackProofs ---------------------------
(***************************************************************************)
(* Proofs about QuiltStack, for any patches, files, lines and inputs: its  *)
(* invariants, and then what its commands do to the files: what lies       *)
(* underneath a patch, what refresh records, what revert restores, and     *)
(* which markers stay.                                                     *)
(***************************************************************************)
EXTENDS QuiltStack, SequenceTheorems, WellFoundedInduction, TLAPS

-----------------------------------------------------------------------------
(* Files, backups and patches keep their types.                             *)

\* Reading a file, saving it and restoring it stay within the file states.
LEMMA ContentTypes ==
  /\ \A c \in FileState : Text(c) \in Content /\ Saved(c) \in Content
  /\ \A b \in Content : Restored(b) \in FileState
BY DEF FileState, Content, Text, Saved, Restored

\* The diff of two file states is a section, or nothing.
LEMMA DiffType ==
  \A old, new \in FileState : Diff(old, new) \in {Absent} \cup Section
BY DEF Diff, Section

\* A section read backwards is a section.
LEMMA OrientedType ==
  \A s \in Section, rev \in BOOLEAN : Oriented(s, rev) \in Section
BY DEF Oriented, Section

\* A patched file is a file state again.
LEMMA PatchedType ==
  ASSUME NEW s \in Section, NEW c \in FileState,
         NEW force \in BOOLEAN, NEW removeEmpty \in BOOLEAN
  PROVE  Patched(s, c, force, removeEmpty) \in FileState
<1> DEFINE change == Changing(s, c)
<1>1. Text(c) \in Content /\ Inserts(s) \in Content
  BY ContentTypes DEF Inserts, Section, Content
<1> HIDE DEF change
<1>2. (Text(c) \ (Deletes(s) \cap change)) \cup (Inserts(s) \cap change) \in Content
  BY <1>1 DEF Content
<1> QED
  BY <1>2 DEF Patched, FileState, change

\* Where nothing is rejected every hunk applies.
LEMMA PatchedClean ==
  ASSUME NEW s \in Section, NEW c, NEW force, NEW removeEmpty, ~Rejects(s, c, force)
  PROVE  Patched(s, c, force, removeEmpty) =
           LET out == (Text(c) \ Deletes(s)) \cup Inserts(s)
           IN IF removeEmpty /\ out = {} /\ s.old # Absent THEN Absent ELSE out
<1>1. Changing(s, c) = Deletes(s) \cup Inserts(s)
  BY DEF Changing, Rejects
<1>2. Changing(s, c) # {}
  BY <1>1 DEF Section, Deletes, Inserts
<1>3. /\ Deletes(s) \cap Changing(s, c) = Deletes(s)
      /\ Inserts(s) \cap Changing(s, c) = Inserts(s)
  BY <1>1
<1> QED
  BY <1>2, <1>3 DEF Patched, Rejects

\* So is every file of a patched tree.
LEMMA PatchedTreeType ==
  ASSUME NEW P \in Patch, NEW t \in [Files -> FileState],
         NEW rev \in BOOLEAN, NEW force \in BOOLEAN, NEW removeEmpty \in BOOLEAN
  PROVE  PatchedTree(P, t, rev, force, removeEmpty) \in [Files -> FileState]
<1>1. ASSUME NEW f \in Files, P[f] # Absent
      PROVE  Patched(Oriented(P[f], rev), t[f], force, removeEmpty) \in FileState
  <2>1. P[f] \in Section
    BY <1>1 DEF Patch
  <2>2. Oriented(P[f], rev) \in Section
    BY <2>1, OrientedType
  <2> QED
    BY <2>2, PatchedType
<1> QED
  BY <1>1 DEF PatchedTree

-----------------------------------------------------------------------------
(* Lists of patches without repetition.                                     *)

Distinct(s) == \A i, j \in DOMAIN s : s[i] = s[j] => i = j

(***************************************************************************)
(* In a list without repetition a patch has one position, the one that     *)
(* find_in_series returns.                                                 *)
(***************************************************************************)
LEMMA PositionIs ==
  ASSUME NEW S, NEW s \in Seq(S), Distinct(s), NEW k \in DOMAIN s
  PROVE  Position(s, s[k]) = k
<1>1. \A j \in 1 .. k-1 : s[j] # s[k]
  BY DEF Distinct
<1>2. \A i \in DOMAIN s : s[i] = s[k] => i = k
  BY DEF Distinct
<1> QED
  BY <1>1, <1>2 DEF Position

\* Inserting a patch moves the ones behind it one place back.
LEMMA InsertAtProperties ==
  ASSUME NEW S, NEW s \in Seq(S), NEW i \in 1 .. Len(s) + 1, NEW e \in S
  PROVE  /\ InsertAt(s, i, e) \in Seq(S)
         /\ Len(InsertAt(s, i, e)) = Len(s) + 1
         /\ \A j \in 1 .. i-1 : InsertAt(s, i, e)[j] = s[j]
         /\ InsertAt(s, i, e)[i] = e
         /\ \A j \in i+1 .. Len(s)+1 : InsertAt(s, i, e)[j] = s[j-1]
<1> DEFINE a == SubSeq(s, 1, i-1)
           b == SubSeq(s, i, Len(s))
           m == a \o <<e>>
<1>1. Len(s) \in Nat /\ i \in Int /\ \A j \in 1 .. Len(s) : s[j] \in S
  BY LenProperties, ElementOfSeq
<1>2. /\ a \in Seq(S)
      /\ Len(a) = i-1
      /\ \A j \in 1 .. i-1 : a[j] = s[j]
  <2>1. \A j \in 1 .. i-1 : s[j] \in S
    BY <1>1
  <2> QED
    BY <1>1, <2>1, SubSeqProperties
<1>3. /\ b \in Seq(S)
      /\ Len(b) = Len(s) - i + 1
      /\ \A j \in 1 .. Len(s)-i+1 : b[j] = s[i+j-1]
  <2>1. \A j \in i .. Len(s) : s[j] \in S
    BY <1>1
  <2> QED
    BY <1>1, <2>1, SubSeqProperties
<1>4. <<e>> \in Seq(S) /\ Len(<<e>>) = 1 /\ <<e>>[1] = e
  OBVIOUS
<1> HIDE DEF a, b
<1>5. /\ m \in Seq(S)
      /\ Len(m) = i
      /\ \A j \in 1 .. i : m[j] = IF j <= i-1 THEN a[j] ELSE <<e>>[j - (i-1)]
  BY <1>1, <1>2, <1>4, ConcatProperties
<1>6. /\ \A j \in 1 .. i-1 : m[j] = s[j]
      /\ m[i] = e
  BY <1>1, <1>2, <1>4, <1>5
<1> HIDE DEF m
<1>7. /\ m \o b \in Seq(S)
      /\ Len(m \o b) = Len(s) + 1
      /\ \A j \in 1 .. Len(s)+1 : (m \o b)[j] = IF j <= i THEN m[j] ELSE b[j - i]
  <2>1. Len(m) + Len(b) = Len(s) + 1
    BY <1>1, <1>3, <1>5
  <2>2. /\ m \o b \in Seq(S)
        /\ Len(m \o b) = Len(m) + Len(b)
        /\ \A j \in 1 .. Len(m) + Len(b) :
              (m \o b)[j] = IF j <= Len(m) THEN m[j] ELSE b[j - Len(m)]
    BY <1>3, <1>5, ConcatProperties
  <2> QED
    BY <1>5, <2>1, <2>2
<1>8. \A j \in i+1 .. Len(s)+1 : (m \o b)[j] = s[j-1]
  BY <1>1, <1>3, <1>7
<1>9. InsertAt(s, i, e) = m \o b
  BY DEF InsertAt, a, b, m
<1> QED
  BY <1>1, <1>6, <1>7, <1>8, <1>9

\* Removing a patch moves the ones behind it one place forward.
LEMMA RemoveAtProperties ==
  ASSUME NEW S, NEW s \in Seq(S), NEW i \in 1 .. Len(s)
  PROVE  /\ RemoveAt(s, i) \in Seq(S)
         /\ Len(RemoveAt(s, i)) = Len(s) - 1
         /\ \A j \in 1 .. i-1 : RemoveAt(s, i)[j] = s[j]
         /\ \A j \in i .. Len(s)-1 : RemoveAt(s, i)[j] = s[j+1]
<1> DEFINE a == SubSeq(s, 1, i-1)
           b == SubSeq(s, i+1, Len(s))
<1>1. Len(s) \in Nat /\ i \in Int /\ \A j \in 1 .. Len(s) : s[j] \in S
  BY LenProperties, ElementOfSeq
<1>2. /\ a \in Seq(S)
      /\ Len(a) = i-1
      /\ \A j \in 1 .. i-1 : a[j] = s[j]
  <2>1. \A j \in 1 .. i-1 : s[j] \in S
    BY <1>1
  <2> QED
    BY <1>1, <2>1, SubSeqProperties
<1>3. /\ b \in Seq(S)
      /\ Len(b) = Len(s) - i
      /\ \A j \in 1 .. Len(s)-i : b[j] = s[i+j]
  <2>1. \A j \in i+1 .. Len(s) : s[j] \in S
    BY <1>1
  <2> QED
    BY <1>1, <2>1, SubSeqProperties
<1> HIDE DEF a, b
<1>4. /\ a \o b \in Seq(S)
      /\ Len(a \o b) = Len(s) - 1
      /\ \A j \in 1 .. Len(s)-1 : (a \o b)[j] = IF j <= i-1 THEN a[j] ELSE b[j - (i-1)]
  <2>1. Len(a) + Len(b) = Len(s) - 1
    BY <1>1, <1>2, <1>3
  <2>2. /\ a \o b \in Seq(S)
        /\ Len(a \o b) = Len(a) + Len(b)
        /\ \A j \in 1 .. Len(a) + Len(b) :
              (a \o b)[j] = IF j <= Len(a) THEN a[j] ELSE b[j - Len(a)]
    BY <1>2, <1>3, ConcatProperties
  <2> QED
    BY <1>2, <2>1, <2>2
<1>5. /\ \A j \in 1 .. i-1 : (a \o b)[j] = s[j]
      /\ \A j \in i .. Len(s)-1 : (a \o b)[j] = s[j+1]
  BY <1>1, <1>2, <1>3, <1>4
<1>6. RemoveAt(s, i) = a \o b
  BY DEF RemoveAt, a, b
<1> QED
  BY <1>4, <1>5, <1>6

\* Dropping the top leaves the patches below it where they are.
LEMMA FrontProperties ==
  ASSUME NEW S, NEW s \in Seq(S), s # <<>>
  PROVE  /\ Front(s) \in Seq(S)
         /\ Len(s) \in Nat \ {0}
         /\ Len(Front(s)) = Len(s) - 1
         /\ \A j \in 1 .. Len(s)-1 : Front(s)[j] = s[j]
<1>1. PICK n \in Nat : Len(s) = n + 1
  <2>1. Len(s) \in Nat \ {0}
    BY EmptySeq
  <2>2. Len(s) - 1 \in Nat /\ Len(s) = (Len(s) - 1) + 1
    BY <2>1
  <2> QED
    BY <2>2
<1>2. \A j \in 1 .. n : s[j] \in S
  BY <1>1, ElementOfSeq
<1>3. /\ SubSeq(s, 1, n) \in Seq(S)
      /\ Len(SubSeq(s, 1, n)) = n
      /\ \A j \in 1 .. n : SubSeq(s, 1, n)[j] = s[j]
  BY <1>2, SubSeqProperties
<1>4. Front(s) = SubSeq(s, 1, n)
  BY <1>1 DEF Front
<1> QED
  BY <1>1, <1>3, <1>4

-----------------------------------------------------------------------------
(* The first of some positions.                                             *)

(***************************************************************************)
(* Every set of positions that has a member has a least one, which is what *)
(* a loop over applied that stops at its first hit finds.                  *)
(***************************************************************************)
LEMMA LeastOf ==
  ASSUME NEW T, T \subseteq Nat, T # {}
  PROVE  \E x \in T : \A y \in T : x <= y
<1> DEFINE R == {ss \in Nat \X Nat : ss[1] < ss[2]}
<1>1. IsWellFoundedOn(R, Nat)
  BY NatLessThanWellFounded DEF OpToRel
<1> HIDE DEF R
<1>2. PICK x \in T : \A y \in T : ~(<<y, x>> \in R)
  BY <1>1, WFMin
<1>3. \A y \in T : x <= y
  <2> TAKE y \in T
  <2>1. x \in Nat /\ y \in Nat
    OBVIOUS
  <2>2. y < x => <<y, x>> \in R
    BY <2>1 DEF R
  <2> QED
    BY <1>2, <2>1, <2>2
<1> QED
  BY <1>3

-----------------------------------------------------------------------------
(* What the commands compute from a well-typed state.                       *)

\* A patch above another is one of the applied ones.
LEMMA AboveAreApplied ==
  ASSUME TypeOK, NEW p, NEW q \in Above(p)
  PROVE  q \in Patches /\ \E k \in DOMAIN applied : applied[k] = q
BY ElementOfSeq DEF TypeOK, Above

\* The backup that refresh takes for a shadowed file is there.
LEMMA NextBackupType ==
  ASSUME TypeOK, NEW p, NEW f \in Files, f \in Shadowed(p)
  PROVE  NextBackup(p, f) \in Content
<1> DEFINE Hits == {i \in DOMAIN applied : applied[i] \in Above(p) /\ Listed(applied[i], f)}
           First(i) == /\ applied[i] \in Above(p) /\ Listed(applied[i], f)
                       /\ \A j \in 1 .. i-1 :
                            ~(applied[j] \in Above(p) /\ Listed(applied[j], f))
<1>1. DOMAIN applied = 1 .. Len(applied) /\ Len(applied) \in Nat
  BY LenProperties DEF TypeOK
<1>2. Hits \subseteq Nat /\ Hits # {}
  <2>1. PICK q \in Above(p) : Listed(q, f)
    BY DEF Shadowed
  <2>2. PICK k \in DOMAIN applied : applied[k] = q
    BY AboveAreApplied
  <2>3. k \in Hits
    BY <2>1, <2>2
  <2> QED
    BY <1>1, <2>3
<1>3. PICK x \in Hits : \A y \in Hits : x <= y
  <2> HIDE DEF Hits
  <2> QED
    BY <1>2, LeastOf
<1>4. x \in DOMAIN applied /\ First(x)
  <2> SUFFICES ASSUME NEW j \in 1 .. x-1, applied[j] \in Above(p), Listed(applied[j], f)
               PROVE  FALSE
    OBVIOUS
  <2>1. x \in 1 .. Len(applied)
    BY <1>1
  <2>2. j \in Hits
    BY <1>1, <2>1
  <2>3. x <= j
    BY <1>3, <2>2
  <2> QED
    BY <2>1, <2>3
<1>5. PICK i \in DOMAIN applied : First(i) /\ NextBackup(p, f) = backup[applied[i]][f]
  <2> HIDE DEF First
  <2>1. NextBackup(p, f) = backup[applied[CHOOSE i \in DOMAIN applied : First(i)]][f]
    BY DEF NextBackup, First
  <2> QED
    BY <1>4, <2>1
<1>6. applied[i] \in Patches
  BY <1>1, ElementOfSeq DEF TypeOK
<1> QED
  BY <1>5, <1>6 DEF TypeOK, Listed, Tracks

\* What refresh computes is a patch.
LEMMA RegeneratedType ==
  ASSUME TypeOK, NEW p \in Patches
  PROVE  Regenerated(p) \in Patch
<1>1. ASSUME NEW f \in Files, Listed(p, f)
      PROVE  Diff(Restored(backup[p][f]),
                  IF f \in Shadowed(p) THEN Restored(NextBackup(p, f)) ELSE tree[f])
               \in {Absent} \cup Section
  <2>1. Restored(backup[p][f]) \in FileState
    BY <1>1, ContentTypes DEF TypeOK, Listed, Tracks
  <2>2. f \in Shadowed(p) => Restored(NextBackup(p, f)) \in FileState
    BY NextBackupType, ContentTypes
  <2>3. tree[f] \in FileState
    BY DEF TypeOK
  <2> QED
    BY <2>1, <2>2, <2>3, DiffType
<1> QED
  BY <1>1 DEF Regenerated, Patch

\* The copies a push saves are the backups of the patch.
LEMMA SavedForType ==
  ASSUME TypeOK, NEW p \in Patches
  PROVE  SavedFor(p) \in [Files -> {Absent} \cup Content]
BY ContentTypes DEF SavedFor, TypeOK

-----------------------------------------------------------------------------
(* The two lists.                                                           *)

\* The list a of applied patches is a prefix of the series s.
Stack(a, s) ==
  /\ a \in Seq(Patches)
  /\ s \in Seq(Patches)
  /\ Distinct(s)
  /\ Len(a) <= Len(s)
  /\ \A i \in 1 .. Len(a) : a[i] = s[i]

\* A patch that is in the series is found there.
LEMMA PositionFound ==
  ASSUME NEW s \in Seq(Patches), Distinct(s), NEW p, IsIn(s, p)
  PROVE  /\ Position(s, p) \in 1 .. Len(s)
         /\ s[Position(s, p)] = p
<1>1. PICK k \in DOMAIN s : s[k] = p
  BY DEF IsIn
<1>2. Position(s, p) = k
  BY <1>1, PositionIs
<1> QED
  BY <1>1, <1>2, LenProperties

\* A patch of the series is applied when it is among the first Len(a).
LEMMA AppliedByPosition ==
  ASSUME NEW a, NEW s, Stack(a, s), NEW k \in 1 .. Len(s)
  PROVE  IsIn(a, s[k]) <=> k <= Len(a)
<1>1. /\ DOMAIN a = 1 .. Len(a) /\ Len(a) \in Nat
      /\ DOMAIN s = 1 .. Len(s) /\ Len(s) \in Nat
  BY LenProperties DEF Stack
<1>2. k <= Len(a) => IsIn(a, s[k])
  BY <1>1 DEF Stack, IsIn
<1>3. ASSUME NEW i \in 1 .. Len(a), a[i] = s[k]
      PROVE  k <= Len(a)
  <2>1. i \in DOMAIN s /\ k \in DOMAIN s /\ s[i] = s[k]
    BY <1>1, <1>3 DEF Stack
  <2> QED
    BY <1>1, <2>1 DEF Stack, Distinct
<1> QED
  BY <1>1, <1>2, <1>3 DEF IsIn

\* The next patch of the series may be pushed.
LEMMA StackPush ==
  ASSUME NEW a, NEW s, Stack(a, s), Len(a) < Len(s)
  PROVE  Stack(Append(a, s[Len(a) + 1]), s)
<1>1. Len(a) \in Nat /\ Len(s) \in Nat
  BY LenProperties DEF Stack
<1>2. s[Len(a) + 1] \in Patches
  BY <1>1, ElementOfSeq DEF Stack
<1> DEFINE t == Append(a, s[Len(a) + 1])
<1>3. /\ t \in Seq(Patches)
      /\ Len(t) = Len(a) + 1
      /\ \A i \in 1 .. Len(a) : t[i] = a[i]
      /\ t[Len(a) + 1] = s[Len(a) + 1]
  BY <1>2, AppendProperties DEF Stack
<1> HIDE DEF t
<1>4. \A i \in 1 .. Len(t) : t[i] = s[i]
  BY <1>1, <1>3 DEF Stack
<1>5. Stack(t, s)
  BY <1>1, <1>3, <1>4 DEF Stack
<1> QED
  BY <1>5 DEF t

\* The top may be popped.
LEMMA StackPop ==
  ASSUME NEW a, NEW s, Stack(a, s), a # <<>>
  PROVE  Stack(Front(a), s)
<1>1. Len(s) \in Nat
  BY LenProperties DEF Stack
<1>2. /\ Front(a) \in Seq(Patches)
      /\ Len(a) \in Nat \ {0}
      /\ Len(Front(a)) = Len(a) - 1
      /\ \A j \in 1 .. Len(a)-1 : Front(a)[j] = a[j]
  BY FrontProperties DEF Stack
<1> QED
  BY <1>1, <1>2 DEF Stack

\* A new patch may be inserted anywhere after the top.
LEMMA StackInsert ==
  ASSUME NEW a, NEW s, Stack(a, s), NEW p \in Patches, ~IsIn(s, p),
         NEW k \in Len(a) + 1 .. Len(s) + 1
  PROVE  Stack(a, InsertAt(s, k, p))
<1>1. /\ Len(a) \in Nat /\ Len(s) \in Nat
      /\ k \in 1 .. Len(s) + 1
      /\ DOMAIN s = 1 .. Len(s)
      /\ s \in Seq(Patches)
  BY LenProperties DEF Stack
<1> DEFINE t == InsertAt(s, k, p)
<1>2. /\ t \in Seq(Patches)
      /\ Len(t) = Len(s) + 1
      /\ \A j \in 1 .. k-1 : t[j] = s[j]
      /\ t[k] = p
      /\ \A j \in k+1 .. Len(s)+1 : t[j] = s[j-1]
  <2>1. t \in Seq(Patches)
    BY <1>1, InsertAtProperties
  <2>2. Len(t) = Len(s) + 1
    BY <1>1, InsertAtProperties
  <2>3. \A j \in 1 .. k-1 : t[j] = s[j]
    BY <1>1, InsertAtProperties
  <2>4. t[k] = p
    BY <1>1, InsertAtProperties
  <2>5. \A j \in k+1 .. Len(s)+1 : t[j] = s[j-1]
    BY <1>1, InsertAtProperties
  <2> QED
    BY <2>1, <2>2, <2>3, <2>4, <2>5
<1> HIDE DEF t
<1>3. DOMAIN t = 1 .. Len(s) + 1
  BY <1>2, LenProperties
<1>4. \A j \in 1 .. Len(s) : s[j] # p
  BY <1>1 DEF IsIn
<1>5. \A i, j \in 1 .. Len(s) : s[i] = s[j] => i = j
  BY <1>1 DEF Stack, Distinct
<1>6. Distinct(t)
  <2> SUFFICES ASSUME NEW i \in 1 .. Len(s) + 1, NEW j \in 1 .. Len(s) + 1, t[i] = t[j]
               PROVE  i = j
    BY <1>3 DEF Distinct
  <2>1. CASE i = k \/ j = k
    BY <1>1, <1>2, <1>4, <2>1
  <2>2. CASE i < k /\ j < k
    BY <1>1, <1>2, <1>5, <2>2
  <2>3. CASE i < k /\ j > k
    BY <1>1, <1>2, <1>5, <2>3
  <2>4. CASE i > k /\ j < k
    BY <1>1, <1>2, <1>5, <2>4
  <2>5. CASE i > k /\ j > k
    BY <1>1, <1>2, <1>5, <2>5
  <2> QED
    BY <1>1, <2>1, <2>2, <2>3, <2>4, <2>5
<1>7. \A i \in 1 .. Len(a) : a[i] = t[i]
  BY <1>1, <1>2 DEF Stack
<1>8. Stack(a, t)
  BY <1>1, <1>2, <1>6, <1>7 DEF Stack
<1> QED
  BY <1>8 DEF t

\* A new patch may be appended to the series.
LEMMA StackAppend ==
  ASSUME NEW a, NEW s, Stack(a, s), NEW p \in Patches, ~IsIn(s, p)
  PROVE  Stack(a, Append(s, p))
<1>1. /\ Len(a) \in Nat /\ Len(s) \in Nat
      /\ DOMAIN s = 1 .. Len(s)
  BY LenProperties DEF Stack
<1> DEFINE t == Append(s, p)
<1>2. /\ t \in Seq(Patches)
      /\ Len(t) = Len(s) + 1
      /\ \A j \in 1 .. Len(s) : t[j] = s[j]
      /\ t[Len(s) + 1] = p
  BY AppendProperties DEF Stack
<1> HIDE DEF t
<1>3. DOMAIN t = 1 .. Len(s) + 1
  BY <1>2, LenProperties
<1>4. Distinct(t)
  BY <1>1, <1>2, <1>3 DEF Distinct, Stack, IsIn
<1>5. Stack(a, t)
  BY <1>1, <1>2, <1>4 DEF Stack
<1> QED
  BY <1>5 DEF t

\* A patch after the top may be removed from the series.
LEMMA StackRemove ==
  ASSUME NEW a, NEW s, Stack(a, s), NEW k \in 1 .. Len(s), k > Len(a)
  PROVE  Stack(a, RemoveAt(s, k))
<1>1. /\ Len(a) \in Nat /\ Len(s) \in Nat
      /\ DOMAIN s = 1 .. Len(s)
  BY LenProperties DEF Stack
<1> DEFINE t == RemoveAt(s, k)
<1>2. /\ t \in Seq(Patches)
      /\ Len(t) = Len(s) - 1
      /\ \A j \in 1 .. k-1 : t[j] = s[j]
      /\ \A j \in k .. Len(s)-1 : t[j] = s[j+1]
  BY RemoveAtProperties DEF Stack
<1> HIDE DEF t
<1>3. DOMAIN t = 1 .. Len(s) - 1
  BY <1>2, LenProperties
<1>4. \A i, j \in 1 .. Len(s) : s[i] = s[j] => i = j
  BY <1>1 DEF Stack, Distinct
<1>5. Distinct(t)
  <2> SUFFICES ASSUME NEW i \in 1 .. Len(s) - 1, NEW j \in 1 .. Len(s) - 1, t[i] = t[j]
               PROVE  i = j
    BY <1>3 DEF Distinct
  <2>1. CASE i < k /\ j < k
    BY <1>1, <1>2, <1>4, <2>1
  <2>2. CASE i < k /\ j >= k
    BY <1>1, <1>2, <1>4, <2>2
  <2>3. CASE i >= k /\ j < k
    BY <1>1, <1>2, <1>4, <2>3
  <2>4. CASE i >= k /\ j >= k
    BY <1>1, <1>2, <1>4, <2>4
  <2> QED
    BY <1>1, <2>1, <2>2, <2>3, <2>4
<1>6. \A i \in 1 .. Len(a) : a[i] = t[i]
  BY <1>1, <1>2 DEF Stack
<1>7. Stack(a, t)
  BY <1>1, <1>2, <1>5, <1>6 DEF Stack
<1> QED
  BY <1>7 DEF t

(***************************************************************************)
(* A patch may be renamed in both lists, or in the series alone when it is *)
(* not applied.                                                            *)
(***************************************************************************)
LEMMA StackRename ==
  ASSUME NEW a, NEW s, Stack(a, s), NEW k \in 1 .. Len(s),
         NEW new \in Patches, ~IsIn(s, new)
  PROVE  /\ Stack(Renamed(a, s[k], new), ReplaceAt(s, k, new))
         /\ k > Len(a) => Stack(a, ReplaceAt(s, k, new))
<1>1. /\ Len(a) \in Nat /\ Len(s) \in Nat
      /\ DOMAIN s = 1 .. Len(s) /\ DOMAIN a = 1 .. Len(a)
  BY LenProperties DEF Stack
<1> DEFINE t == ReplaceAt(s, k, new)
           b == Renamed(a, s[k], new)
<1>2. /\ t \in Seq(Patches)
      /\ Len(t) = Len(s)
      /\ \A j \in 1 .. Len(s) : t[j] = IF j = k THEN new ELSE s[j]
  BY ExceptSeq DEF Stack, ReplaceAt
<1>3. /\ b \in Seq(Patches)
      /\ Len(b) = Len(a)
      /\ \A j \in 1 .. Len(a) : b[j] = IF a[j] = s[k] THEN new ELSE a[j]
  <2>1. b = [i \in 1 .. Len(a) |-> IF a[i] = s[k] THEN new ELSE a[i]]
    BY <1>1 DEF Renamed
  <2>2. \A i \in 1 .. Len(a) : a[i] \in Patches
    BY ElementOfSeq DEF Stack
  <2> HIDE DEF b
  <2>3. b \in [1 .. Len(a) -> Patches]
    BY <2>1, <2>2
  <2>4. b \in Seq(Patches)
    BY <1>1, <2>3
  <2>5. Len(b) = Len(a)
    BY <1>1, <2>3, <2>4, LenProperties
  <2> QED
    BY <2>1, <2>4, <2>5
<1> HIDE DEF t, b
<1>4. \A i, j \in 1 .. Len(s) : s[i] = s[j] => i = j
  BY <1>1 DEF Stack, Distinct
<1>5. \A j \in 1 .. Len(s) : s[j] # new
  BY <1>1 DEF IsIn
<1>6. Distinct(t)
  BY <1>1, <1>2, <1>4, <1>5, LenProperties DEF Distinct
<1>7. \A i \in 1 .. Len(a) : a[i] = s[i] /\ i \in 1 .. Len(s)
  BY <1>1 DEF Stack
<1>8. \A i \in 1 .. Len(a) : b[i] = t[i]
  BY <1>2, <1>3, <1>4, <1>7
<1>9. k > Len(a) => \A i \in 1 .. Len(a) : a[i] = t[i]
  BY <1>1, <1>2, <1>7
<1>10. Stack(b, t) /\ (k > Len(a) => Stack(a, t))
  BY <1>1, <1>2, <1>3, <1>6, <1>8, <1>9 DEF Stack
<1> QED
  BY <1>10 DEF t, b

\* The invariant AppliedIsSeriesPrefix is Stack of the two lists.
LEMMA StackIsPrefix ==
  /\ TypeOK /\ AppliedIsSeriesPrefix => Stack(applied, series)
  /\ Stack(applied, series) => AppliedIsSeriesPrefix
<1>1. ASSUME TypeOK, AppliedIsSeriesPrefix
      PROVE  Stack(applied, series)
  BY <1>1, LenProperties DEF TypeOK, AppliedIsSeriesPrefix, Stack, Distinct
<1>2. ASSUME Stack(applied, series)
      PROVE  AppliedIsSeriesPrefix
  BY <1>2, LenProperties DEF AppliedIsSeriesPrefix, Stack, Distinct
<1> QED
  BY <1>1, <1>2

(***************************************************************************)
(* top_index finds the top where it should be: push goes on behind the     *)
(* last applied patch.                                                     *)
(***************************************************************************)
LEMMA TopIndexIs ==
  ASSUME Stack(applied, series)
  PROVE  /\ TopIndex = Len(applied)
         /\ Len(applied) \in Nat /\ Len(series) \in Nat
         /\ applied # <<>> => /\ Len(applied) \in 1 .. Len(series)
                              /\ Top = series[Len(applied)]
                              /\ Top \in Patches
                              /\ IsIn(series, Top)
                              /\ IsIn(applied, Top)
                              /\ Position(series, Top) = Len(applied)
<1>1. /\ DOMAIN applied = 1 .. Len(applied) /\ Len(applied) \in Nat
      /\ DOMAIN series = 1 .. Len(series) /\ Len(series) \in Nat
  BY LenProperties DEF Stack
<1>2. CASE applied = <<>>
  <2>1. Len(applied) = 0
    BY <1>2
  <2>2. TopIndex = 0
    BY <1>2 DEF TopIndex
  <2> QED
    BY <1>1, <1>2, <2>1, <2>2
<1>3. CASE applied # <<>>
  <2>1. Len(applied) \in Nat \ {0}
    BY <1>3, EmptySeq DEF Stack
  <2>2. Len(applied) \in 1 .. Len(series) /\ Top = series[Len(applied)]
    BY <1>1, <2>1 DEF Stack, Top, Last
  <2>3. IsIn(series, Top) /\ IsIn(applied, Top)
    BY <1>1, <2>1, <2>2 DEF IsIn, Top, Last
  <2>4. Position(series, Top) = Len(applied)
    BY <1>1, <2>2, PositionIs DEF Stack
  <2>5. Top \in Patches
    BY <2>2, ElementOfSeq DEF Stack
  <2> QED
    BY <1>1, <1>3, <2>2, <2>3, <2>4, <2>5 DEF TopIndex
<1> QED
  BY <1>2, <1>3

\* Every command keeps the applied patches a prefix of the series.
LEMMA StackStep ==
  ASSUME Stack(applied, series), Next
  PROVE  Stack(applied, series)'
<1>1. /\ TopIndex = Len(applied)
      /\ Len(applied) \in Nat /\ Len(series) \in Nat
      /\ DOMAIN series = 1 .. Len(series)
  BY TopIndexIs, LenProperties DEF Stack
<1>2. ASSUME NEW p \in Patches, ~IsIn(series, p)
      PROVE  Stack(Append(applied, p), InsertAt(series, Len(applied) + 1, p))
  <2> DEFINE k == Len(applied) + 1
             t == InsertAt(series, k, p)
  <2>1. /\ k \in Len(applied) + 1 .. Len(series) + 1
        /\ k \in 1 .. Len(series) + 1
        /\ series \in Seq(Patches)
    BY <1>1 DEF Stack
  <2> HIDE DEF k
  <2>2. Stack(applied, t)
    BY <1>2, <2>1, StackInsert
  <2>3. Len(t) = Len(series) + 1
    BY <2>1, InsertAtProperties
  <2>4. t[k] = p
    BY <2>1, InsertAtProperties
  <2> HIDE DEF t
  <2>5. Len(applied) < Len(t)
    BY <1>1, <2>1, <2>3
  <2>6. Stack(Append(applied, p), t)
    BY <2>2, <2>4, <2>5, StackPush DEF k
  <2> QED
    BY <2>6 DEF t, k
<1>3. ASSUME NEW p \in Patches, New(p)
      PROVE  Stack(applied, series)'
  BY <1>1, <1>2, <1>3 DEF New
<1>4. ASSUME NEW new \in Patches, RefreshFork(new)
      PROVE  Stack(applied, series)'
  <2>1. /\ applied # <<>>
        /\ ~IsIn(series, new)
        /\ series' = InsertAt(series, Position(series, Top) + 1, new)
        /\ applied' = Append(applied, new)
    BY <1>4 DEF RefreshFork
  <2>2. Position(series, Top) = Len(applied)
    BY <2>1, TopIndexIs
  <2> QED
    BY <1>2, <2>1, <2>2
<1>5. ASSUME CanPush, Recorded(NextPatch), series' = series
      PROVE  Stack(applied, series)'
  BY <1>1, <1>5, StackPush DEF CanPush, Recorded, NextPatch
<1>6. ASSUME applied # <<>>, TakenDown, series' = series
      PROVE  Stack(applied, series)'
  BY <1>6, StackPop DEF TakenDown
<1>7. ASSUME NEW p \in Patches, NEW rm \in BOOLEAN, Delete(p, rm)
      PROVE  Stack(applied, series)'
  <2> DEFINE k == Position(series, p)
  <2>1. k \in 1 .. Len(series) /\ series[k] = p
    BY <1>7, PositionFound DEF Delete, Stack
  <2>2. series' = RemoveAt(series, k)
    BY <1>7 DEF Delete
  <2>3. CASE IsIn(applied, p) /\ p = Top /\ TakenDown
    <3>1. applied # <<>>
      BY <1>1, <2>3 DEF IsIn, Stack
    <3>2. k = Len(applied)
      BY <2>3, <3>1, TopIndexIs
    <3>3. Stack(Front(applied), series)
      BY <3>1, StackPop
    <3>4. Len(Front(applied)) = Len(applied) - 1
      BY <3>1, FrontProperties DEF Stack
    <3>5. k > Len(Front(applied))
      BY <1>1, <3>2, <3>4
    <3> HIDE DEF k
    <3>6. Stack(Front(applied), RemoveAt(series, k))
      BY <2>1, <3>3, <3>5, StackRemove
    <3> QED
      BY <2>2, <2>3, <3>6 DEF TakenDown
  <2>4. CASE ~IsIn(applied, p) /\ applied' = applied
    <3> HIDE DEF k
    <3>1. k > Len(applied)
      BY <1>1, <2>1, <2>4, AppliedByPosition
    <3>2. Stack(applied, RemoveAt(series, k))
      BY <2>1, <3>1, StackRemove
    <3> QED
      BY <2>2, <2>4, <3>2
  <2> QED
    BY <1>7, <2>3, <2>4 DEF Delete
<1>8. ASSUME NEW old \in Patches, NEW new \in Patches,
             IsIn(series, old), ~IsIn(series, new),
             series' = ReplaceAt(series, Position(series, old), new),
             \/ applied' = Renamed(applied, old, new)
             \/ ~IsIn(applied, old) /\ applied' = applied
      PROVE  Stack(applied, series)'
  <2> DEFINE k == Position(series, old)
  <2>1. k \in 1 .. Len(series) /\ series[k] = old
    BY <1>8, PositionFound DEF Stack
  <2> HIDE DEF k
  <2>2. /\ Stack(Renamed(applied, old, new), ReplaceAt(series, k, new))
        /\ k > Len(applied) => Stack(applied, ReplaceAt(series, k, new))
    BY <1>8, <2>1, StackRename
  <2>3. ~IsIn(applied, old) => k > Len(applied)
    BY <1>1, <2>1, AppliedByPosition
  <2> QED
    BY <1>8, <2>2, <2>3 DEF k
<1>9. ASSUME NEW old \in Patches, NEW new \in Patches, Rename(old, new)
      PROVE  Stack(applied, series)'
  BY <1>8, <1>9 DEF Rename
<1>10. ASSUME NEW new \in Patches, Fork(new)
       PROVE  Stack(applied, series)'
  <2>1. Top \in Patches
    BY <1>10, TopIndexIs DEF Fork
  <2> QED
    BY <1>8, <1>10, <2>1 DEF Fork
<1>11. ASSUME NEW p \in Patches, NEW P \in ImportFrom,
              NEW force \in BOOLEAN, NEW rev \in BOOLEAN, Import(p, P, force, rev)
       PROVE  Stack(applied, series)'
  <2>1. CASE IsIn(series, p)
    BY <1>11, <2>1 DEF Import
  <2>2. CASE ~IsIn(series, p) /\ TopIndex > 0
    <3>1. Len(applied) + 1 \in Len(applied) + 1 .. Len(series) + 1
      BY <1>1 DEF Stack
    <3> QED
      BY <1>1, <1>11, <2>2, <3>1, StackInsert DEF Import
  <2>3. CASE ~IsIn(series, p) /\ ~(TopIndex > 0)
    BY <1>11, <2>3, StackAppend DEF Import
  <2> QED
    BY <2>1, <2>2, <2>3
<1>12. ASSUME UNCHANGED <<applied, series>>
       PROVE  Stack(applied, series)'
  BY <1>12
<1>13. CASE FileCommand \/ EditCommand \/ UserStep
  BY <1>12, <1>13 DEF FileCommand, EditCommand, UserStep,
                      AddFile, RemoveFile, RevertFile, Edit, UserEdit
<1>14. CASE RefreshCommand
  BY <1>4, <1>12, <1>14 DEF RefreshCommand, Refresh
<1>15. CASE StackCommand
  BY <1>5, <1>6, <1>12, <1>15 DEF StackCommand, Push, PushForced, PushFails, Pop
<1>16. CASE SeriesCommand
  BY <1>3, <1>7, <1>9, <1>10, <1>11, <1>12, <1>16 DEF SeriesCommand, Fold
<1> QED
  BY <1>13, <1>14, <1>15, <1>16 DEF Next, Command

-----------------------------------------------------------------------------
(* Types.                                                                   *)

\* TypeOK without the two lists, whose types are part of Stack.
DataOK ==
  /\ reversed \subseteq Patches
  /\ patchFile \in [Patches -> {Absent} \cup Patch]
  /\ backup \in [Patches -> [Files -> {Absent} \cup Content]]
  /\ needsRefresh \subseteq Patches
  /\ tree \in [Files -> FileState]

\* The commands on single files keep the types.
LEMMA FileCommandTypes ==
  ASSUME TypeOK, FileCommand
  PROVE  DataOK'
<1>1. ASSUME NEW p \in Patches, NEW f \in Files, AddFile(p, f)
      PROVE  DataOK'
  <2>1. Saved(tree[f]) \in Content
    BY ContentTypes DEF TypeOK
  <2> QED
    BY <1>1, <2>1 DEF AddFile, TypeOK, DataOK
<1>2. ASSUME NEW p \in Patches, NEW f \in Files, RemoveFile(p, f)
      PROVE  DataOK'
  <2>1. Restored(backup[p][f]) \in FileState
    BY <1>2, ContentTypes DEF RemoveFile, Tracks, TypeOK
  <2> QED
    BY <1>2, <2>1 DEF RemoveFile, TypeOK, DataOK
<1>3. ASSUME NEW p \in Patches, NEW f \in Files, RevertFile(p, f)
      PROVE  DataOK'
  <2> DEFINE s     == IF patchFile[p] = Absent THEN Absent ELSE patchFile[p][f]
             clean == IF s = Absent THEN backup[p][f]
                      ELSE Patched(s, backup[p][f], FALSE, FALSE)
  <2>1. backup[p][f] \in Content
    BY <1>3 DEF RevertFile, Tracks, TypeOK
  <2>2. s = Absent \/ s \in Section
    BY DEF TypeOK, Patch
  <2> HIDE DEF s
  <2>3. backup[p][f] \in FileState
    BY <2>1 DEF FileState
  <2>4. clean \in FileState
    BY <2>2, <2>3, PatchedType
  <2> HIDE DEF clean
  <2>5. Restored(clean) \in FileState
    BY <2>4 DEF Restored, FileState
  <2>6. tree' = [tree EXCEPT ![f] = Restored(clean)]
    BY <1>3 DEF RevertFile, clean, s
  <2> QED
    BY <1>3, <2>5, <2>6 DEF RevertFile, TypeOK, DataOK
<1> QED
  BY <1>1, <1>2, <1>3 DEF FileCommand

\* So do edits, by the editor that quilt starts or without quilt.
LEMMA EditTypes ==
  ASSUME TypeOK, Stack(applied, series), EditCommand \/ UserStep
  PROVE  DataOK'
<1>1. ASSUME NEW f \in Files, NEW c \in EditTo, Edit(f, c)
      PROVE  DataOK'
  <2>1. Saved(tree[f]) \in Content /\ c \in FileState
    BY ContentTypes, InputsAreLegal DEF TypeOK
  <2>2. Top \in Patches
    BY <1>1, TopIndexIs DEF Edit
  <2> QED
    BY <1>1, <2>1, <2>2 DEF Edit, TypeOK, DataOK
<1>2. ASSUME NEW f \in Files, NEW c \in EditTo, UserEdit(f, c)
      PROVE  DataOK'
  BY <1>2, InputsAreLegal DEF UserEdit, TypeOK, DataOK
<1> QED
  BY <1>1, <1>2 DEF EditCommand, UserStep

\* So does refresh, with -z or without.
LEMMA RefreshTypes ==
  ASSUME TypeOK, Stack(applied, series), RefreshCommand
  PROVE  DataOK'
<1>1. ASSUME NEW p \in Patches, NEW force \in BOOLEAN, Refresh(p, force)
      PROVE  DataOK'
  <2>1. Regenerated(p) \in Patch
    BY RegeneratedType
  <2> QED
    BY <1>1, <2>1 DEF Refresh, TypeOK, DataOK
<1>2. ASSUME NEW new \in Patches, RefreshFork(new)
      PROVE  DataOK'
  <2> DEFINE old     == Top
             before  == [f \in Files |-> IF Listed(old, f) THEN Restored(backup[old][f])
                                                           ELSE Absent]
             between == IF patchFile[old] = Absent THEN before
                        ELSE PatchedTree(patchFile[old], before, old \in reversed, FALSE, FALSE)
             fork    == [f \in Files |-> IF Listed(old, f) THEN Saved(between[f])
                                                           ELSE backup[new][f]]
             record  == [f \in Files |-> IF fork[f] = Absent \/ f \in Hidden THEN Absent
                                         ELSE Diff(Restored(fork[f]), tree[f])]
  <2>1. old \in Patches
    BY <1>2, TopIndexIs DEF RefreshFork
  <2>2. /\ backup' = [backup EXCEPT ![new] = fork]
        /\ patchFile' = [patchFile EXCEPT ![new] = record]
        /\ reversed' \subseteq reversed \cup {new}
        /\ needsRefresh' = needsRefresh \ {new}
        /\ UNCHANGED tree
    BY <1>2 DEF RefreshFork
  <2> HIDE DEF old
  <2>3. before \in [Files -> FileState]
    <3>1. ASSUME NEW f \in Files, Listed(old, f)
          PROVE  Restored(backup[old][f]) \in FileState
      BY <2>1, <3>1, ContentTypes DEF Listed, Tracks, TypeOK
    <3> QED
      BY <3>1 DEF FileState
  <2> HIDE DEF before
  <2>4. between \in [Files -> FileState]
    <3>1. patchFile[old] # Absent => patchFile[old] \in Patch
      BY <2>1 DEF TypeOK
    <3>2. (old \in reversed) \in BOOLEAN
      OBVIOUS
    <3> QED
      BY <2>3, <3>1, <3>2, PatchedTreeType
  <2> HIDE DEF between
  <2>5. fork \in [Files -> {Absent} \cup Content]
    BY <2>4, ContentTypes DEF TypeOK
  <2> HIDE DEF fork
  <2>6. record \in Patch
    <3>1. ASSUME NEW f \in Files, fork[f] # Absent
          PROVE  Diff(Restored(fork[f]), tree[f]) \in {Absent} \cup Section
      BY <2>5, <3>1, ContentTypes, DiffType DEF TypeOK
    <3> QED
      BY <3>1 DEF Patch
  <2> HIDE DEF record
  <2> QED
    BY <2>2, <2>5, <2>6 DEF TypeOK, DataOK
<1> QED
  BY <1>1, <1>2 DEF RefreshCommand

\* Taking the top down leaves well-typed backups, markers and files.
LEMMA TakenDownTypes ==
  ASSUME TypeOK, Top \in Patches, TakenDown
  PROVE  /\ backup' \in [Patches -> [Files -> {Absent} \cup Content]]
         /\ needsRefresh' \subseteq Patches
         /\ tree' \in [Files -> FileState]
<1>1. \A f \in Files : Listed(Top, f) => Restored(backup[Top][f]) \in FileState
  BY ContentTypes DEF TypeOK, Listed, Tracks
<1>2. tree' \in [Files -> FileState]
  BY <1>1 DEF TakenDown, TypeOK
<1>3. NoBackups \in [Files -> {Absent} \cup Content]
  BY DEF NoBackups
<1> QED
  BY <1>2, <1>3 DEF TakenDown, TypeOK

\* push and pop keep the types.
LEMMA StackCommandTypes ==
  ASSUME TypeOK, Stack(applied, series), StackCommand
  PROVE  DataOK'
<1>1. NoBackups \in [Files -> {Absent} \cup Content]
  BY DEF NoBackups
<1>2. ASSUME CanPush
      PROVE  /\ NextPatch \in Patches
             /\ patchFile[NextPatch] \in Patch
             /\ SavedFor(NextPatch) \in [Files -> {Absent} \cup Content]
             /\ \A force \in BOOLEAN : AfterPush(NextPatch, force) \in [Files -> FileState]
  <2>1. NextPatch \in Patches
    BY <1>2, TopIndexIs, ElementOfSeq DEF CanPush, NextPatch, Stack
  <2>2. patchFile[NextPatch] \in Patch
    BY <1>2, <2>1 DEF CanPush, TypeOK
  <2>3. SavedFor(NextPatch) \in [Files -> {Absent} \cup Content]
    BY <2>1, SavedForType
  <2>4. ASSUME NEW force \in BOOLEAN
        PROVE  AfterPush(NextPatch, force) \in [Files -> FileState]
    <3>1. (NextPatch \in reversed) \in BOOLEAN /\ tree \in [Files -> FileState]
      BY DEF TypeOK
    <3> QED
      BY <2>2, <3>1, PatchedTreeType DEF AfterPush
  <2> QED
    BY <2>1, <2>2, <2>3, <2>4
<1>3. ASSUME NEW force \in BOOLEAN, Push(force)
      PROVE  DataOK'
  BY <1>2, <1>3 DEF Push, Recorded, TypeOK, DataOK
<1>4. CASE PushForced
  BY <1>2, <1>4 DEF PushForced, Recorded, TypeOK, DataOK
<1>5. CASE PushFails
  <2> DEFINE p == NextPatch
  <2>1. \A f \in Affected(patchFile[p]) : SavedFor(p)[f] \in Content
    BY ContentTypes DEF SavedFor, TypeOK, Affected
  <2>2. \A f \in Affected(patchFile[p]) : Restored(SavedFor(p)[f]) \in FileState
    BY <2>1, ContentTypes
  <2>3. tree' \in [Files -> FileState]
    BY <1>2, <1>5, <2>2 DEF PushFails
  <2> QED
    BY <1>1, <1>2, <1>5, <2>3 DEF PushFails, TypeOK, DataOK
<1>6. ASSUME NEW force \in BOOLEAN, NEW auto \in BOOLEAN, Pop(force, auto)
      PROVE  DataOK'
  <2>1. Top \in Patches
    BY <1>6, TopIndexIs DEF Pop
  <2>2. Regenerated(Top) \in Patch
    BY <2>1, RegeneratedType
  <2>3. patchFile' \in [Patches -> {Absent} \cup Patch]
    BY <1>6, <2>1, <2>2 DEF Pop, TypeOK
  <2>4. TakenDown /\ reversed' = reversed
    BY <1>6 DEF Pop
  <2> QED
    BY <2>1, <2>3, <2>4, TakenDownTypes DEF TypeOK, DataOK
<1> QED
  BY <1>3, <1>4, <1>5, <1>6 DEF StackCommand

\* The commands on the series keep the types.
LEMMA SeriesCommandTypes ==
  ASSUME TypeOK, Stack(applied, series), SeriesCommand
  PROVE  DataOK'
<1>1. NoBackups \in [Files -> {Absent} \cup Content]
  BY DEF NoBackups
<1>2. ASSUME NEW p \in Patches, New(p)
      PROVE  DataOK'
  BY <1>2 DEF New, TypeOK, DataOK
<1>3. ASSUME NEW p \in Patches, NEW rm \in BOOLEAN, Delete(p, rm)
      PROVE  DataOK'
  <2>1. /\ patchFile' \in [Patches -> {Absent} \cup Patch]
        /\ reversed' \subseteq Patches
    BY <1>3 DEF Delete, TypeOK
  <2>2. CASE p = Top /\ TakenDown
    BY <2>1, <2>2, TakenDownTypes DEF DataOK
  <2>3. CASE UNCHANGED <<applied, backup, needsRefresh, tree>>
    BY <2>1, <2>3 DEF TypeOK, DataOK
  <2> QED
    BY <1>3, <2>2, <2>3 DEF Delete
<1>4. ASSUME NEW old \in Patches, NEW new \in Patches, Rename(old, new)
      PROVE  DataOK'
  BY <1>1, <1>4 DEF Rename, Moved, MovedMember, TypeOK, DataOK
<1>5. ASSUME NEW new \in Patches, Fork(new)
      PROVE  DataOK'
  <2>1. Top \in Patches
    BY <1>5, TopIndexIs DEF Fork
  <2> QED
    BY <1>1, <1>5, <2>1 DEF Fork, Moved, MovedMember, TypeOK, DataOK
<1>6. ASSUME NEW p \in Patches, NEW P \in ImportFrom,
             NEW force \in BOOLEAN, NEW rev \in BOOLEAN, Import(p, P, force, rev)
      PROVE  DataOK'
  BY <1>6, InputsAreLegal DEF Import, TypeOK, DataOK
<1>7. ASSUME NEW P \in FoldFrom, NEW rev \in BOOLEAN, NEW force \in BOOLEAN,
             Fold(P, rev, force)
      PROVE  DataOK'
  <2>1. Top \in Patches
    BY <1>7, TopIndexIs DEF Fold
  <2>2. tree' \in [Files -> FileState]
    BY <1>7, InputsAreLegal, PatchedTreeType DEF Fold, TypeOK
  <2>3. [f \in Files |-> IF f \in Affected(P) /\ ~Listed(Top, f)
                         THEN Saved(tree[f]) ELSE backup[Top][f]]
          \in [Files -> {Absent} \cup Content]
    BY <2>1, ContentTypes DEF TypeOK
  <2> QED
    BY <1>7, <2>1, <2>2, <2>3 DEF Fold, TypeOK, DataOK
<1> QED
  BY <1>2, <1>3, <1>4, <1>5, <1>6, <1>7 DEF SeriesCommand

\* Every step keeps the types.
LEMMA TypeStep ==
  ASSUME TypeOK, Stack(applied, series), Next
  PROVE  TypeOK'
<1>1. Stack(applied, series)'
  BY StackStep
<1>2. DataOK'
  BY FileCommandTypes, EditTypes, RefreshTypes, StackCommandTypes, SeriesCommandTypes
     DEF Next, Command
<1> QED
  BY <1>1, <1>2 DEF Stack, DataOK, TypeOK

-----------------------------------------------------------------------------
(* What is in .pc/.                                                         *)

\* Who is applied after a push, a pop and a change of name.
LEMMA AppliedAfter ==
  ASSUME Stack(applied, series)
  PROVE  /\ \A p \in Patches : \A q : IsIn(Append(applied, p), q) <=> IsIn(applied, q) \/ q = p
         /\ applied # <<>> => \A q : IsIn(applied, q) => IsIn(Front(applied), q) \/ q = Top
         /\ \A old, new, q : IsIn(applied, q) => IsIn(Renamed(applied, old, new), q) \/ q = old
         /\ \A old, new : IsIn(applied, old) => IsIn(Renamed(applied, old, new), new)
<1>1. DOMAIN applied = 1 .. Len(applied) /\ Len(applied) \in Nat
  BY LenProperties DEF Stack
<1>2. ASSUME NEW p \in Patches, NEW q
      PROVE  IsIn(Append(applied, p), q) <=> IsIn(applied, q) \/ q = p
  <2> DEFINE t == Append(applied, p)
  <2>1. /\ t \in Seq(Patches)
        /\ Len(t) = Len(applied) + 1
        /\ \A i \in 1 .. Len(applied) : t[i] = applied[i]
        /\ t[Len(applied) + 1] = p
    BY AppendProperties DEF Stack
  <2>2. DOMAIN t = 1 .. Len(applied) + 1
    BY <2>1, LenProperties
  <2> HIDE DEF t
  <2>3. IsIn(t, q) <=> IsIn(applied, q) \/ q = p
    BY <1>1, <2>1, <2>2 DEF IsIn
  <2> QED
    BY <2>3 DEF t
<1>3. ASSUME applied # <<>>, NEW q, IsIn(applied, q)
      PROVE  IsIn(Front(applied), q) \/ q = Top
  <2>1. /\ Front(applied) \in Seq(Patches)
        /\ Len(Front(applied)) = Len(applied) - 1
        /\ \A j \in 1 .. Len(applied)-1 : Front(applied)[j] = applied[j]
    BY <1>3, FrontProperties DEF Stack
  <2>2. DOMAIN Front(applied) = 1 .. Len(applied) - 1
    BY <2>1, LenProperties
  <2>3. PICK k \in 1 .. Len(applied) : applied[k] = q
    BY <1>1, <1>3 DEF IsIn
  <2>4. CASE k = Len(applied)
    BY <2>3, <2>4 DEF Top, Last
  <2>5. CASE k \in 1 .. Len(applied) - 1
    BY <2>1, <2>2, <2>3, <2>5 DEF IsIn
  <2>6. Len(applied) \in Nat
    BY <1>1
  <2>7. k = Len(applied) \/ k \in 1 .. Len(applied) - 1
    BY <2>6
  <2> QED
    BY <2>4, <2>5, <2>7
<1>4. \A old, new : DOMAIN Renamed(applied, old, new) = DOMAIN applied
  BY DEF Renamed
<1>5. ASSUME NEW old, NEW new, NEW q, IsIn(applied, q)
      PROVE  IsIn(Renamed(applied, old, new), q) \/ q = old
  BY <1>5 DEF Renamed, IsIn
<1>6. ASSUME NEW old, NEW new, IsIn(applied, old)
      PROVE  IsIn(Renamed(applied, old, new), new)
  BY <1>6 DEF Renamed, IsIn
<1> QED
  BY <1>2, <1>3, <1>5, <1>6

(***************************************************************************)
(* Every step cleans up the directory of a patch that it takes down, and   *)
(* writes to no other than an applied patch's.                             *)
(***************************************************************************)
LEMMA PcStep ==
  ASSUME TypeOK, Stack(applied, series), OnlyAppliedInPc, Next
  PROVE  OnlyAppliedInPc'
<1>1. \A q \in Patches : ~IsIn(applied, q) => backup[q] = NoBackups /\ q \notin needsRefresh
  BY DEF OnlyAppliedInPc
<1>2. applied # <<>> => Top \in Patches /\ IsIn(applied, Top)
  BY TopIndexIs
<1>3. backup \in [Patches -> [Files -> {Absent} \cup Content]]
  BY DEF TypeOK
<1>4. ASSUME UNCHANGED <<applied, needsRefresh>>,
             \A q \in Patches : IsIn(applied, q) \/ backup'[q] = backup[q]
      PROVE  OnlyAppliedInPc'
  BY <1>1, <1>4 DEF OnlyAppliedInPc
<1>5. CASE FileCommand
  BY <1>3, <1>4, <1>5 DEF FileCommand, AddFile, RemoveFile, RevertFile
<1>6. CASE EditCommand \/ UserStep
  BY <1>2, <1>3, <1>4, <1>6 DEF EditCommand, UserStep, Edit, UserEdit
<1>7. ASSUME NEW p \in Patches, NEW force \in BOOLEAN, Refresh(p, force)
      PROVE  OnlyAppliedInPc'
  BY <1>1, <1>7 DEF Refresh, OnlyAppliedInPc
<1>8. ASSUME NEW p \in Patches, applied' = Append(applied, p),
             needsRefresh' \subseteq needsRefresh \cup {p},
             \A q \in Patches : q = p \/ backup'[q] = backup[q]
      PROVE  OnlyAppliedInPc'
  BY <1>1, <1>8, AppliedAfter DEF OnlyAppliedInPc
<1>9. ASSUME NEW new \in Patches, RefreshFork(new)
      PROVE  OnlyAppliedInPc'
  BY <1>3, <1>8, <1>9 DEF RefreshFork
<1>10. ASSUME CanPush
       PROVE  NextPatch \in Patches
  BY <1>10, TopIndexIs, ElementOfSeq DEF CanPush, NextPatch, Stack
<1>11. ASSUME NEW force \in BOOLEAN, Push(force)
       PROVE  OnlyAppliedInPc'
  BY <1>3, <1>8, <1>10, <1>11 DEF Push, Recorded
<1>12. CASE PushForced
  BY <1>3, <1>8, <1>10, <1>12 DEF PushForced, Recorded
<1>13. CASE PushFails
  BY <1>1, <1>3, <1>10, <1>13 DEF PushFails, OnlyAppliedInPc
<1>14. ASSUME applied # <<>>, TakenDown
       PROVE  OnlyAppliedInPc'
  <2> SUFFICES ASSUME NEW q \in Patches, ~IsIn(applied', q)
               PROVE  backup'[q] = NoBackups /\ q \notin needsRefresh'
    BY DEF OnlyAppliedInPc, IsIn
  <2>1. CASE q = Top
    BY <1>3, <1>14, <2>1 DEF TakenDown
  <2>2. CASE q # Top
    <3>1. ~IsIn(applied, q)
      BY <1>14, <2>2, AppliedAfter DEF TakenDown
    <3> QED
      BY <1>1, <1>3, <1>14, <2>2, <3>1 DEF TakenDown
  <2> QED
    BY <2>1, <2>2
<1>15. ASSUME NEW force \in BOOLEAN, NEW auto \in BOOLEAN, Pop(force, auto)
       PROVE  OnlyAppliedInPc'
  BY <1>14, <1>15 DEF Pop
<1>16. ASSUME NEW p \in Patches, NEW rm \in BOOLEAN, Delete(p, rm)
       PROVE  OnlyAppliedInPc'
  <2>1. CASE IsIn(applied, p) /\ TakenDown
    <3>1. applied # <<>>
      BY <2>1 DEF IsIn
    <3> QED
      BY <1>14, <2>1, <3>1
  <2>2. CASE UNCHANGED <<applied, backup, needsRefresh>>
    BY <1>4, <2>2
  <2> QED
    BY <1>16, <2>1, <2>2 DEF Delete
<1>17. ASSUME NEW old \in Patches, NEW new \in Patches,
              IsIn(applied, old), old # new,
              applied' = Renamed(applied, old, new),
              backup' = Moved(backup, old, new, NoBackups),
              needsRefresh' = MovedMember(needsRefresh, old, new)
       PROVE  OnlyAppliedInPc'
  <2> SUFFICES ASSUME NEW q \in Patches, ~IsIn(applied', q)
               PROVE  backup'[q] = NoBackups /\ q \notin needsRefresh'
    BY DEF OnlyAppliedInPc, IsIn
  <2>1. q # new
    BY <1>17, AppliedAfter
  <2>2. CASE q = old
    BY <1>3, <1>17, <2>1, <2>2 DEF Moved, MovedMember
  <2>3. CASE q # old
    <3>1. ~IsIn(applied, q)
      BY <1>17, <2>3, AppliedAfter
    <3> QED
      BY <1>1, <1>3, <1>17, <2>1, <2>3, <3>1 DEF Moved, MovedMember
  <2> QED
    BY <2>2, <2>3
<1>18. ASSUME NEW old \in Patches, NEW new \in Patches, Rename(old, new)
       PROVE  OnlyAppliedInPc'
  <2>1. old # new
    BY <1>18 DEF Rename
  <2>2. CASE IsIn(applied, old)
    BY <1>17, <1>18, <2>1, <2>2 DEF Rename
  <2>3. CASE ~IsIn(applied, old)
    BY <1>4, <1>18, <2>3 DEF Rename
  <2> QED
    BY <2>2, <2>3
<1>19. ASSUME NEW new \in Patches, Fork(new)
       PROVE  OnlyAppliedInPc'
  <2>1. Top # new
    BY <1>19 DEF Fork
  <2> QED
    BY <1>2, <1>17, <1>19, <2>1 DEF Fork
<1>20. ASSUME NEW p \in Patches, New(p)
       PROVE  OnlyAppliedInPc'
  BY <1>8, <1>20 DEF New
<1>21. ASSUME NEW p \in Patches, NEW P \in ImportFrom,
              NEW force \in BOOLEAN, NEW rev \in BOOLEAN, Import(p, P, force, rev)
       PROVE  OnlyAppliedInPc'
  BY <1>4, <1>21 DEF Import
<1>22. ASSUME NEW P \in FoldFrom, NEW rev \in BOOLEAN, NEW force \in BOOLEAN,
              Fold(P, rev, force)
       PROVE  OnlyAppliedInPc'
  BY <1>2, <1>3, <1>4, <1>22 DEF Fold
<1> QED
  BY <1>5, <1>6, <1>7, <1>9, <1>11, <1>12, <1>13, <1>15, <1>16, <1>18, <1>19, <1>20,
     <1>21, <1>22 DEF Next, Command, RefreshCommand, StackCommand, SeriesCommand

-----------------------------------------------------------------------------
(* The invariant.                                                           *)

(***************************************************************************)
(* The three invariants hold together: the position of a patch in the      *)
(* series is only defined because no patch is listed twice, and that push  *)
(* finds an empty .pc/<p> is what keeps the directories of .pc/ apart.     *)
(***************************************************************************)
IInv == TypeOK /\ AppliedIsSeriesPrefix /\ OnlyAppliedInPc

\* A fresh project satisfies the invariant.
LEMMA InitIInv == Init => IInv
<1> SUFFICES ASSUME Init PROVE IInv
  OBVIOUS
<1>1. <<>> \in Seq(Patches) /\ Len(<<>>) = 0
  BY EmptySeq
<1>2. TypeOK
  BY <1>1, InputsAreLegal DEF Init, TypeOK, NoBackups
<1>3. AppliedIsSeriesPrefix
  BY <1>1 DEF Init, AppliedIsSeriesPrefix
<1>4. OnlyAppliedInPc
  BY DEF Init, OnlyAppliedInPc
<1> QED
  BY <1>2, <1>3, <1>4 DEF IInv

\* Every step keeps it.
LEMMA NextIInv == IInv /\ [Next]_vars => IInv'
<1> SUFFICES ASSUME IInv, [Next]_vars PROVE IInv'
  OBVIOUS
<1>1. TypeOK /\ OnlyAppliedInPc /\ Stack(applied, series)
  BY StackIsPrefix DEF IInv
<1>2. CASE Next
  <2>1. TypeOK' /\ OnlyAppliedInPc'
    BY <1>1, <1>2, TypeStep, PcStep
  <2>2. Stack(applied, series)'
    BY <1>1, <1>2, StackStep
  <2>3. AppliedIsSeriesPrefix'
    BY <2>1, <2>2, LenProperties DEF AppliedIsSeriesPrefix, Stack, Distinct
  <2> QED
    BY <2>1, <2>3 DEF IInv
<1>3. CASE UNCHANGED vars
  BY <1>3 DEF vars, IInv, TypeOK, AppliedIsSeriesPrefix, OnlyAppliedInPc, IsIn
<1> QED
  BY <1>2, <1>3

(***************************************************************************)
(* The invariant holds in every reachable state.                           *)
(***************************************************************************)
THEOREM Invariant == Spec => []IInv
BY InitIInv, NextIInv, PTL DEF Spec

(***************************************************************************)
(* The files of the project always hold what their readers expect: the     *)
(* lists name patches, a patch file is a patch, a backup is file contents. *)
(***************************************************************************)
THEOREM TypeCorrect == Spec => []TypeOK
<1>1. IInv => TypeOK
  BY DEF IInv
<1> QED
  BY <1>1, Invariant, PTL

(***************************************************************************)
(* Whatever commands are run, in whatever order, the applied patches are   *)
(* the first ones of the series, and no patch is listed twice.             *)
(***************************************************************************)
THEOREM AppliedIsAlwaysSeriesPrefix == Spec => []AppliedIsSeriesPrefix
<1>1. IInv => AppliedIsSeriesPrefix
  BY DEF IInv
<1> QED
  BY <1>1, Invariant, PTL

(***************************************************************************)
(* No command leaves backups or markers of a patch that is not applied, so *)
(* a push never finds old ones.                                            *)
(***************************************************************************)
THEOREM PcHoldsOnlyApplied == Spec => []OnlyAppliedInPc
<1>1. IInv => OnlyAppliedInPc
  BY DEF IInv
<1> QED
  BY <1>1, Invariant, PTL

-----------------------------------------------------------------------------
(* push and pop.                                                            *)

\* What push saves, pop restores, unless the file exists and is empty.
LEMMA SavedIsRestored ==
  ASSUME NEW c \in FileState, c # {}
  PROVE  Saved(c) # Absent /\ Restored(Saved(c)) = c
BY ContentTypes, AbsentIsNoValue DEF Saved, Restored, Text, FileState, Content

(***************************************************************************)
(* After a push that recorded the patch, what lies underneath it is what   *)
(* the tree was: either the file was saved, or the patch left it alone.    *)
(***************************************************************************)
LEMMA RecordedPushUndone ==
  ASSUME IInv, CanPush, Recorded(NextPatch),
         NEW force \in BOOLEAN, tree' = AfterPush(NextPatch, force),
         NEW f \in Files \ (Hidden \cup UnsavedByPush), tree[f] # {},
         NEW i, i = Len(applied) + 1
  PROVE  Underneath(i, f)' = tree[f]
<1> DEFINE p == NextPatch
           P == patchFile[p]
<1>1. Stack(applied, series)
  BY StackIsPrefix DEF IInv
<1>2. /\ TopIndex = Len(applied)
      /\ Len(applied) \in Nat /\ Len(series) \in Nat
      /\ Len(applied) + 1 \in 1 .. Len(series)
      /\ p = series[Len(applied) + 1]
  BY <1>1, TopIndexIs DEF CanPush, NextPatch
<1>3. p \in Patches
  BY <1>1, <1>2, ElementOfSeq DEF Stack
<1>4. backup[p] = NoBackups
  <2>1. ~(Len(applied) + 1 <= Len(applied))
    BY <1>2
  <2>2. ~IsIn(applied, p)
    BY <1>1, <1>2, <2>1, AppliedByPosition
  <2> QED
    BY <1>3, <2>2 DEF IInv, OnlyAppliedInPc
<1> HIDE DEF p
<1>5. /\ Len(applied') = i
      /\ applied'[i] = p
  BY <1>1, <1>3, AppendProperties DEF Recorded, Stack, p
<1>6. backup'[p][f] = IF f \in Affected(P) THEN Saved(tree[f]) ELSE Absent
  <2>1. backup'[p] = SavedFor(p)
    BY <1>3 DEF Recorded, IInv, TypeOK, p
  <2>2. NoBackups[f] = Absent
    BY DEF NoBackups
  <2> QED
    BY <1>4, <2>1, <2>2 DEF SavedFor
<1>7. tree[f] \in FileState
  BY DEF IInv, TypeOK
<1>8. i \in Nat /\ i .. i = {i}
  BY <1>2
<1>9. CASE f \in Affected(P)
  <2>1. backup'[p][f] # Absent /\ Restored(backup'[p][f]) = tree[f]
    BY <1>6, <1>7, <1>9, SavedIsRestored
  <2>2. Holders(i, f)' = {i}
    BY <1>5, <1>8, <2>1 DEF Holders, Listed, Tracks
  <2>3. (CHOOSE j \in {i} : \A k \in {i} : j <= k) = i
    BY <1>8
  <2> QED
    BY <1>5, <2>1, <2>2, <2>3 DEF Underneath
<1>10. CASE f \notin Affected(P)
  <2>1. Holders(i, f)' = {}
    BY <1>5, <1>6, <1>8, <1>10 DEF Holders, Listed, Tracks
  <2>2. P[f] = Absent
    BY <1>10 DEF UnsavedByPush, Unlisted, Affected, p
  <2>3. tree'[f] = tree[f]
    BY <2>2 DEF AfterPush, PatchedTree, p
  <2> QED
    BY <2>1, <2>3 DEF Underneath
<1> QED
  BY <1>9, <1>10

\* A push that fails gives the tree back right away.
LEMMA FailedPushUndone ==
  ASSUME IInv, PushFails,
         NEW f \in Files \ (Hidden \cup UnsavedByPush), tree[f] # {},
         NEW i, i = Len(applied) + 1
  PROVE  Underneath(i, f)' = tree[f]
<1> DEFINE p == NextPatch
           P == patchFile[p]
<1>1. Len(applied) \in Nat
  BY LenProperties DEF IInv, TypeOK
<1>2. Holders(i, f)' = {}
  BY <1>1 DEF PushFails, Holders
<1>3. tree[f] \in FileState
  BY DEF IInv, TypeOK
<1>4. tree'[f] = tree[f]
  <2>1. CASE f \in Affected(P)
    BY <1>3, <2>1, SavedIsRestored DEF PushFails, SavedFor
  <2>2. CASE f \notin Affected(P)
    <3>1. P[f] = Absent
      BY <2>2 DEF UnsavedByPush, Unlisted, Affected, PushFails
    <3> QED
      BY <2>2, <3>1 DEF PushFails, AfterPush, PatchedTree
  <2> QED
    BY <2>1, <2>2
<1> QED
  BY <1>2, <1>4 DEF Underneath

(***************************************************************************)
(* For every project and every history: a push, forced, rejected or clean, *)
(* is undone by taking the patch down again, for all files but the empty   *)
(* ones, those the patch deletes and names that begin with a dot.          *)
(***************************************************************************)
THEOREM PushIsUndone == Spec => PushCanBeUndone
<1>1. ASSUME IInv
      PROVE  PushUndone
  <2> SUFFICES ASSUME NEW i \in {Len(applied) + 1}, NEW f \in Files \ (Hidden \cup UnsavedByPush),
                      tree[f] # {},
                      (\E force \in BOOLEAN : Push(force)) \/ PushForced \/ PushFails
               PROVE  Underneath(i, f)' = tree[f]
    BY DEF PushUndone
  <2>1. ASSUME NEW force \in BOOLEAN, Push(force)
        PROVE  Underneath(i, f)' = tree[f]
    BY <1>1, <2>1, RecordedPushUndone DEF Push
  <2>2. CASE PushForced
    BY <1>1, <2>2, RecordedPushUndone DEF PushForced
  <2>3. CASE PushFails
    BY <1>1, <2>3, FailedPushUndone
  <2> QED
    BY <2>1, <2>2, <2>3
<1> QED
  BY <1>1, Invariant, PTL DEF PushCanBeUndone


-----------------------------------------------------------------------------
(* The copies of a file, from the lowest patch to the top.                  *)

\* What the i-th applied patch has saved of f.
Copies(f) == [j \in 1 .. Len(applied) |-> backup[applied[j]][f]]

Held(c, n, i) == {j \in i .. n : c[j] # Absent}

\* Underneath, of any copies c of any number n of patches over the file t.
Lowest(c, n, t, i) ==
  IF Held(c, n, i) = {} THEN t
  ELSE Restored(c[CHOOSE j \in Held(c, n, i) : \A k \in Held(c, n, i) : j <= k])

\* Without copies it is the file itself.
LEMMA LowestOfNone ==
  ASSUME NEW c, NEW n \in Nat, NEW t, NEW i \in Nat,
         \A j \in i .. n : c[j] = Absent
  PROVE  Lowest(c, n, t, i) = t
BY DEF Lowest, Held

\* The first copy counts, whatever is above it.
LEMMA LowestIsFirst ==
  ASSUME NEW c, NEW n \in Nat, NEW t, NEW i \in Nat,
         NEW j \in i .. n, c[j] # Absent, \A k \in i .. j-1 : c[k] = Absent
  PROVE  Lowest(c, n, t, i) = Restored(c[j])
<1> DEFINE H == Held(c, n, i)
<1>1. H \subseteq Nat /\ j \in H
  BY DEF Held
<1>2. \A k \in H : j <= k
  BY DEF Held
<1>3. \A x \in H : (\A k \in H : x <= k) => x = j
  BY <1>1, <1>2
<1> HIDE DEF H
<1>4. (CHOOSE x \in H : \A k \in H : x <= k) = j
  BY <1>1, <1>2, <1>3
<1>5. H # {}
  BY <1>1
<1> QED
  BY <1>4, <1>5 DEF Lowest, H

\* The first of the copies is one of them.
LEMMA FirstHeld ==
  ASSUME NEW c, NEW n \in Nat, NEW i \in Nat, NEW H, H = Held(c, n, i), H # {}
  PROVE  (CHOOSE j \in H : \A k \in H : j <= k) \in i .. n
<1>1. H \subseteq i .. n /\ H \subseteq Nat
  BY DEF Held
<1>2. \E j \in H : \A k \in H : j <= k
  BY <1>1, LeastOf
<1> QED
  BY <1>1, <1>2

\* If there is a copy, there is a first one.
LEMMA FirstCopy ==
  ASSUME NEW c, NEW i \in Nat, NEW x \in Nat, i <= x, c[x] # Absent
  PROVE  \E j \in i .. x : c[j] # Absent /\ \A k \in i .. j-1 : c[k] = Absent
<1> DEFINE H == {j \in i .. x : c[j] # Absent}
<1>1. H \subseteq Nat /\ x \in H
  OBVIOUS
<1>2. PICK j \in H : \A k \in H : j <= k
  <2> HIDE DEF H
  <2> QED
    BY <1>1, LeastOf
<1>3. ASSUME NEW k \in i .. j-1, c[k] # Absent
      PROVE  FALSE
  <2>1. k \in H
    BY <1>3
  <2> QED
    BY <1>1, <1>2, <1>3, <2>1
<1> QED
  BY <1>2, <1>3

\* What happens above a patch that has a copy does not matter below it.
LEMMA LowestKept ==
  ASSUME NEW c, NEW n \in Nat, NEW t, NEW c2, NEW n2 \in Nat, NEW t2,
         NEW i \in Nat, NEW x \in i .. n, x <= n2, c[x] # Absent,
         \A j \in i .. x : c2[j] = c[j]
  PROVE  Lowest(c2, n2, t2, i) = Lowest(c, n, t, i)
<1>1. PICK j \in i .. x : c[j] # Absent /\ \A k \in i .. j-1 : c[k] = Absent
  <2>1. x \in Nat /\ i <= x
    OBVIOUS
  <2> QED
    BY <2>1, FirstCopy, SMTT(60)
<1>2. j \in i .. n /\ j \in i .. n2 /\ c2[j] = c[j]
  OBVIOUS
<1>3. \A k \in i .. j-1 : c2[k] = Absent
  BY <1>1
<1>4. Lowest(c, n, t, i) = Restored(c[j])
  BY <1>1, <1>2, LowestIsFirst
<1>5. Lowest(c2, n2, t2, i) = Restored(c2[j])
  BY <1>1, <1>2, <1>3, LowestIsFirst
<1> QED
  BY <1>2, <1>4, <1>5

(***************************************************************************)
(* The same copies over the same file give the same, also when patches     *)
(* without a copy come or go at the top.                                   *)
(***************************************************************************)
LEMMA LowestSame ==
  ASSUME NEW c, NEW n \in Nat, NEW c2, NEW n2 \in Nat, NEW t,
         NEW i \in Nat, n <= n2,
         \A j \in i .. n : c2[j] = c[j],
         \A j \in i .. n2 : j > n => c2[j] = Absent
  PROVE  Lowest(c2, n2, t, i) = Lowest(c, n, t, i)
<1>1. Held(c2, n2, i) = Held(c, n, i)
  BY DEF Held
<1>2. \A j \in Held(c, n, i) : c2[j] = c[j]
  BY DEF Held
<1>3. CASE Held(c, n, i) = {}
  BY <1>1, <1>3 DEF Lowest
<1>4. CASE Held(c, n, i) # {}
  <2>1. PICK x \in i .. n : c[x] # Absent
    BY <1>4 DEF Held
  <2>2. \A j \in i .. x : c2[j] = c[j]
    BY <2>1
  <2> QED
    BY <2>1, <2>2, LowestKept
<1> QED
  BY <1>3, <1>4

-----------------------------------------------------------------------------
(* Underneath, read off the copies.                                         *)

\* What the definition in QuiltStack finds is the lowest of the copies.
LEMMA UnderneathIsLowest ==
  ASSUME TypeOK, NEW i \in Nat \ {0}, NEW f \in Files \ Hidden
  PROVE  Underneath(i, f) = Lowest(Copies(f), Len(applied), tree[f], i)
<1>1. Len(applied) \in Nat
  BY LenProperties DEF TypeOK
<1>2. \A j \in i .. Len(applied) : Copies(f)[j] = backup[applied[j]][f]
  BY <1>1 DEF Copies
<1>3. Held(Copies(f), Len(applied), i) = Holders(i, f)
  BY <1>2 DEF Held, Holders, Listed, Tracks
<1>4. CASE Holders(i, f) = {}
  BY <1>3, <1>4 DEF Underneath, Lowest
<1>5. CASE Holders(i, f) # {}
  <2> DEFINE H == Holders(i, f)
             x == CHOOSE j \in H : \A k \in H : j <= k
  <2>1. x \in i .. Len(applied)
    BY <1>1, <1>3, <1>5, FirstHeld
  <2>2. Underneath(i, f) = Restored(backup[applied[x]][f])
    BY <1>5 DEF Underneath
  <2>3. Lowest(Copies(f), Len(applied), tree[f], i) = Restored(Copies(f)[x])
    BY <1>3, <1>5 DEF Lowest
  <2> QED
    BY <1>2, <2>1, <2>2, <2>3
<1> QED
  BY <1>4, <1>5

\* The same after a step.
LEMMA UnderneathIsLowestNext ==
  ASSUME TypeOK', NEW i \in Nat \ {0}, NEW f \in Files \ Hidden
  PROVE  Underneath(i, f)' = Lowest(Copies(f)', Len(applied'), tree'[f], i)
<1>1. Len(applied') \in Nat
  BY LenProperties DEF TypeOK
<1>2. \A j \in i .. Len(applied') : Copies(f)'[j] = backup'[applied'[j]][f]
  BY <1>1 DEF Copies
<1>3. Held(Copies(f)', Len(applied'), i) = Holders(i, f)'
  BY <1>2 DEF Held, Holders, Listed, Tracks
<1>4. CASE Holders(i, f)' = {}
  BY <1>3, <1>4 DEF Underneath, Lowest
<1>5. CASE Holders(i, f)' # {}
  <2> DEFINE H == Holders(i, f)'
             x == CHOOSE j \in H : \A k \in H : j <= k
  <2>1. x \in i .. Len(applied')
    BY <1>1, <1>3, <1>5, FirstHeld
  <2>2. Underneath(i, f)' = Restored(backup'[applied'[x]][f])
    BY <1>5 DEF Underneath
  <2>3. Lowest(Copies(f)', Len(applied'), tree'[f], i) = Restored(Copies(f)'[x])
    BY <1>3, <1>5 DEF Lowest
  <2> QED
    BY <1>2, <2>1, <2>2, <2>3
<1> QED
  BY <1>4, <1>5

\* What the invariant says about the applied patches and their copies.
LEMMA AppliedFacts ==
  ASSUME IInv
  PROVE  /\ Stack(applied, series)
         /\ Len(applied) \in Nat
         /\ DOMAIN applied = 1 .. Len(applied)
         /\ \A j \in 1 .. Len(applied) : applied[j] \in Patches
         /\ \A j, k \in 1 .. Len(applied) : applied[j] = applied[k] => j = k
         /\ \A p \in Patches, f \in Files :
              (\A j \in 1 .. Len(applied) : applied[j] # p) =>
                backup[p] = NoBackups /\ backup[p][f] = Absent
         /\ \A p \in Patches : ~IsIn(series, p) =>
              \A j \in 1 .. Len(applied) : applied[j] # p
         /\ \A f : \A j \in 1 .. Len(applied) : Copies(f)[j] = backup[applied[j]][f]
         /\ backup \in [Patches -> [Files -> {Absent} \cup Content]]
         /\ tree \in [Files -> FileState]
<1>1. Stack(applied, series)
  BY StackIsPrefix DEF IInv
<1>2. /\ Len(applied) \in Nat /\ DOMAIN applied = 1 .. Len(applied)
      /\ DOMAIN series = 1 .. Len(series) /\ Len(series) \in Nat
  BY <1>1, LenProperties DEF Stack
<1>3. \A j \in 1 .. Len(applied) : applied[j] \in Patches
  BY <1>1, ElementOfSeq DEF Stack
<1>4. \A j \in 1 .. Len(applied) : j \in DOMAIN series /\ applied[j] = series[j]
  BY <1>1, <1>2 DEF Stack
<1>5. \A j, k \in 1 .. Len(applied) : applied[j] = applied[k] => j = k
  BY <1>1, <1>4 DEF Stack, Distinct
<1>6. ASSUME NEW p \in Patches, NEW f \in Files,
             \A j \in 1 .. Len(applied) : applied[j] # p
      PROVE  backup[p] = NoBackups /\ backup[p][f] = Absent
  <2>1. ~IsIn(applied, p)
    BY <1>2, <1>6 DEF IsIn
  <2> QED
    BY <2>1 DEF IInv, OnlyAppliedInPc, NoBackups
<1>7. \A p \in Patches : ~IsIn(series, p) => \A j \in 1 .. Len(applied) : applied[j] # p
  BY <1>4 DEF IsIn
<1>8. \A f : \A j \in 1 .. Len(applied) : Copies(f)[j] = backup[applied[j]][f]
  BY DEF Copies
<1> QED
  BY <1>1, <1>2, <1>3, <1>5, <1>6, <1>7, <1>8 DEF IInv, TypeOK

-----------------------------------------------------------------------------
(* The ways in which a command keeps what lies underneath.                  *)

\* What CommandsKeepUnderneath says of the i-th patch and one file.
Keeps(i, f) ==
  \/ i > Len(applied') + 1
  \/ Underneath(i, f)' = Underneath(i, f)
  \/ i > 1 /\ Holders(i, f) = {}
  \/ Holders(i, f) = {} /\ \/ tree[f] = {}
                           \/ f \in UnsavedByPush \cup UnsavedByFold
  \/ RemovesShadowed(f)

\* No patch from the i-th on has a copy of f.
Bare(i, f) == \A j \in i .. Len(applied) : Copies(f)[j] = Absent

\* What lies underneath before and after a step, read off the copies.
LEMMA UnderneathBoth ==
  ASSUME IInv, TypeOK', NEW i \in 1 .. Len(applied), NEW f \in Files \ Hidden
  PROVE  /\ Len(applied) \in Nat /\ Len(applied') \in Nat /\ i \in Nat
         /\ Underneath(i, f) = Lowest(Copies(f), Len(applied), tree[f], i)
         /\ Underneath(i, f)' = Lowest(Copies(f)', Len(applied'), tree'[f], i)
<1>1. Len(applied) \in Nat /\ Len(applied') \in Nat /\ i \in Nat \ {0}
  BY LenProperties, AppliedFacts DEF TypeOK
<1> QED
  BY <1>1, UnderneathIsLowest, UnderneathIsLowestNext DEF IInv

\* The copies stay, but perhaps for patches without a copy at the top.
LEMMA KeepsSame ==
  ASSUME IInv, TypeOK', NEW i \in 1 .. Len(applied), NEW f \in Files \ Hidden,
         tree'[f] = tree[f], Len(applied) <= Len(applied'),
         \A j \in i .. Len(applied) : Copies(f)'[j] = Copies(f)[j],
         \A j \in i .. Len(applied') : j > Len(applied) => Copies(f)'[j] = Absent
  PROVE  Keeps(i, f)
<1>1. Lowest(Copies(f)', Len(applied'), tree[f], i) = Lowest(Copies(f), Len(applied), tree[f], i)
  <2> DEFINE c  == Copies(f)
             n  == Len(applied)
             c2 == Copies(f)'
             n2 == Len(applied')
             t  == tree[f]
  <2>1. /\ n \in Nat /\ n2 \in Nat /\ i \in Nat /\ n <= n2
        /\ \A j \in i .. n : c2[j] = c[j]
        /\ \A j \in i .. n2 : j > n => c2[j] = Absent
    BY UnderneathBoth
  <2> HIDE DEF c, n, c2, n2, t
  <2>2. Lowest(c2, n2, t, i) = Lowest(c, n, t, i)
    BY ONLY <2>1, LowestSame, SMTT(60)
  <2> QED
    BY <2>2 DEF c, n, c2, n2, t
<1> QED
  BY UnderneathBoth, <1>1 DEF Keeps

\* A copy stays, and whatever is below it.
LEMMA KeepsHeld ==
  ASSUME IInv, TypeOK', NEW i \in 1 .. Len(applied), NEW f \in Files \ Hidden,
         NEW x \in i .. Len(applied), x <= Len(applied'), Copies(f)[x] # Absent,
         \A j \in i .. x : Copies(f)'[j] = Copies(f)[j]
  PROVE  Keeps(i, f)
<1>1. Lowest(Copies(f)', Len(applied'), tree'[f], i) = Lowest(Copies(f), Len(applied), tree[f], i)
  BY UnderneathBoth, LowestKept
<1> QED
  BY UnderneathBoth, <1>1 DEF Keeps

(***************************************************************************)
(* Nothing is promised for a file that no patch from a second one on has,  *)
(* for an empty file, or for one that a push or a fold deletes.            *)
(***************************************************************************)
LEMMA KeepsBare ==
  ASSUME IInv, NEW i \in 1 .. Len(applied), NEW f \in Files \ Hidden, Bare(i, f),
         \/ i > 1
         \/ tree[f] = {}
         \/ f \in UnsavedByPush \cup UnsavedByFold
  PROVE  Keeps(i, f)
<1>1. Len(applied) \in Nat
  BY AppliedFacts
<1>2. \A j \in i .. Len(applied) : Copies(f)[j] = backup[applied[j]][f]
  BY <1>1 DEF Copies
<1>3. Holders(i, f) = {}
  BY <1>2 DEF Holders, Bare, Listed, Tracks
<1> QED
  BY <1>3 DEF Keeps

\* Where there was no copy, there is one of the file now.
LEMMA KeepsSaved ==
  ASSUME IInv, TypeOK', NEW i \in 1 .. Len(applied), NEW f \in Files \ Hidden, Bare(i, f),
         NEW x \in i .. Len(applied'), Copies(f)'[x] = Saved(tree[f]),
         \A j \in i .. x-1 : Copies(f)'[j] = Absent
  PROVE  Keeps(i, f)
<1>1. CASE tree[f] = {}
  BY <1>1, KeepsBare
<1>2. CASE tree[f] # {}
  <2>1. tree[f] \in FileState /\ i \in Nat
    BY UnderneathBoth, AppliedFacts
  <2>2. Lowest(Copies(f)', Len(applied'), tree'[f], i) = Lowest(Copies(f), Len(applied), tree[f], i)
    <3> DEFINE c  == Copies(f)
               n  == Len(applied)
               c2 == Copies(f)'
               n2 == Len(applied')
               t  == tree[f]
               t2 == tree'[f]
    <3>1. /\ n \in Nat /\ n2 \in Nat /\ x \in i .. n2 /\ c2[x] = Saved(t)
          /\ t \in FileState /\ t # {} /\ i \in Nat
          /\ \A j \in i .. n : c[j] = Absent
          /\ \A j \in i .. x-1 : c2[j] = Absent
      BY UnderneathBoth, <1>2, <2>1 DEF Bare
    <3> HIDE DEF c, n, c2, n2, t, t2
    <3>2. Lowest(c, n, t, i) = t
      BY <3>1, LowestOfNone
    <3>3. c2[x] # Absent /\ Restored(c2[x]) = t
      BY <3>1, SavedIsRestored
    <3>4. Lowest(c2, n2, t2, i) = Restored(c2[x])
      BY <3>1, <3>3, LowestIsFirst
    <3>5. Lowest(c2, n2, t2, i) = Lowest(c, n, t, i)
      BY <3>2, <3>3, <3>4
    <3> QED
      BY <3>5 DEF c, n, c2, n2, t, t2
  <2> QED
    BY UnderneathBoth, <2>2 DEF Keeps
<1> QED
  BY <1>1, <1>2

\* No copy is left, and the file is what was underneath.
LEMMA KeepsRestored ==
  ASSUME IInv, TypeOK', NEW i \in 1 .. Len(applied), NEW f \in Files \ Hidden,
         \A j \in i .. Len(applied') : Copies(f)'[j] = Absent,
         \/ Bare(i, f) /\ tree'[f] = tree[f]
         \/ \E x \in i .. Len(applied) :
              /\ Copies(f)[x] # Absent
              /\ \A k \in i .. x-1 : Copies(f)[k] = Absent
              /\ tree'[f] = Restored(Copies(f)[x])
  PROVE  Keeps(i, f)
<1>1. Lowest(Copies(f)', Len(applied'), tree'[f], i) = tree'[f]
  BY UnderneathBoth, LowestOfNone
<1>2. CASE Bare(i, f) /\ tree'[f] = tree[f]
  BY UnderneathBoth, <1>1, <1>2, LowestOfNone DEF Keeps, Bare
<1>3. ASSUME NEW x \in i .. Len(applied), Copies(f)[x] # Absent,
             \A k \in i .. x-1 : Copies(f)[k] = Absent,
             tree'[f] = Restored(Copies(f)[x])
      PROVE  Keeps(i, f)
  <2>1. Lowest(Copies(f), Len(applied), tree[f], i) = Restored(Copies(f)[x])
    <3> DEFINE c == Copies(f)
               n == Len(applied)
    <3>1. /\ n \in Nat /\ x \in i .. n /\ c[x] # Absent
          /\ \A k \in i .. x-1 : c[k] = Absent
      BY UnderneathBoth, <1>3
    <3> HIDE DEF c, n
    <3>2. Lowest(c, n, tree[f], i) = Restored(c[x])
      BY UnderneathBoth, <3>1, LowestIsFirst
    <3> QED
      BY <3>2 DEF c, n
  <2> QED
    BY UnderneathBoth, <1>1, <1>3, <2>1 DEF Keeps
<1> QED
  BY <1>2, <1>3

\* Either no patch from the i-th to the n-th has a copy of f, or one does.
LEMMA BareOrHeld ==
  ASSUME NEW i, NEW f
  PROVE  Bare(i, f) \/ \E x \in i .. Len(applied) : Copies(f)[x] # Absent
BY DEF Bare

-----------------------------------------------------------------------------
(* The commands on single files.                                            *)

\* The patches above an applied patch are those behind it in the list.
LEMMA AboveAreBehind ==
  ASSUME IInv, NEW k \in 1 .. Len(applied)
  PROVE  \A j \in k+1 .. Len(applied) : applied[j] \in Above(applied[k])
<1>1. Len(applied) \in Nat /\ DOMAIN applied = 1 .. Len(applied)
  BY AppliedFacts
<1> SUFFICES ASSUME NEW j \in k+1 .. Len(applied)
             PROVE  applied[j] \in Above(applied[k])
  OBVIOUS
<1>2. j \in DOMAIN applied /\ k \in 1 .. j-1
  BY <1>1
<1> QED
  BY <1>2 DEF Above

\* add: the copy is the file, and no patch above has one.
LEMMA AddKeeps ==
  ASSUME IInv, TypeOK', NEW p \in Patches, NEW g \in Files, AddFile(p, g),
         NEW i \in 1 .. Len(applied), NEW f \in Files \ Hidden
  PROVE  Keeps(i, f)
<1>1. PICK k \in 1 .. Len(applied) : applied[k] = p
  BY AppliedFacts DEF AddFile, IsIn
<1>2. /\ Len(applied) \in Nat
      /\ applied' = applied
      /\ tree' = tree
      /\ backup' = [backup EXCEPT ![p][g] = Saved(tree[g])]
      /\ \A q \in Above(p) : backup[q][g] = Absent
      /\ backup[p][g] = Absent
  BY AppliedFacts DEF AddFile, Tracks
<1>3. \A j \in 1 .. Len(applied) :
        Copies(f)'[j] = IF j = k /\ f = g THEN Saved(tree[f]) ELSE Copies(f)[j]
  BY <1>1, <1>2, AppliedFacts DEF Copies
<1>4. /\ \A j \in k+1 .. Len(applied) : Copies(g)[j] = Absent
      /\ Copies(g)[k] = Absent
  BY <1>1, <1>2, AppliedFacts, AboveAreBehind
<1>5. CASE f # g
  BY <1>2, <1>3, <1>5, KeepsSame
<1>6. CASE f = g /\ Bare(i, f) /\ i <= k
  <2>1. k \in i .. Len(applied') /\ Copies(f)'[k] = Saved(tree[f])
    BY <1>2, <1>3, <1>6
  <2>2. \A j \in i .. k-1 : Copies(f)'[j] = Absent
    BY <1>2, <1>3, <1>6 DEF Bare
  <2> QED
    BY <1>6, <2>1, <2>2, KeepsSaved
<1>7. CASE Bare(i, f) /\ i > k
  BY <1>2, <1>7, KeepsBare
<1>8. ASSUME f = g, NEW x \in i .. Len(applied), Copies(f)[x] # Absent
      PROVE  Keeps(i, f)
  <2>1. x < k
    BY <1>2, <1>4, <1>8
  <2>2. \A j \in i .. x : Copies(f)'[j] = Copies(f)[j]
    BY <1>2, <1>3, <2>1
  <2>3. x <= Len(applied')
    BY <1>2
  <2> QED
    BY <1>8, <2>2, <2>3, KeepsHeld
<1>9. i <= k \/ i > k
  BY <1>2
<1> QED
  BY <1>5, <1>6, <1>7, <1>8, <1>9, BareOrHeld

\* remove: the copy goes back into the tree, unless a patch above has one.
LEMMA RemoveKeeps ==
  ASSUME IInv, TypeOK', NEW p \in Patches, NEW g \in Files, RemoveFile(p, g),
         NEW i \in 1 .. Len(applied), NEW f \in Files \ Hidden
  PROVE  Keeps(i, f)
<1>1. PICK k \in 1 .. Len(applied) : applied[k] = p
  BY AppliedFacts DEF RemoveFile, IsIn
<1>2. /\ Len(applied) \in Nat
      /\ applied' = applied
      /\ tree' = [tree EXCEPT ![g] = Restored(backup[p][g])]
      /\ backup' = [backup EXCEPT ![p][g] = Absent]
      /\ backup[p][g] # Absent
  BY AppliedFacts DEF RemoveFile, Tracks
<1>3. \A j \in 1 .. Len(applied) :
        Copies(f)'[j] = IF j = k /\ f = g THEN Absent ELSE Copies(f)[j]
  BY <1>1, <1>2, AppliedFacts DEF Copies
<1>4. f \in Shadowed(p) /\ f = g => Keeps(i, f)
  BY DEF Keeps, RemovesShadowed
<1>5. f # g => tree'[f] = tree[f]
  BY <1>2, AppliedFacts
<1>6. CASE f # g
  BY <1>2, <1>3, <1>5, <1>6, KeepsSame
<1>7. CASE f = g /\ f \notin Shadowed(p)
  <2>1. \A j \in k+1 .. Len(applied) : Copies(f)[j] = Absent
    <3>1. \A j \in k+1 .. Len(applied) : applied[j] \in Above(p)
      BY <1>1, AboveAreBehind
    <3>2. \A q \in Above(p) : backup[q][f] = Absent
      BY <1>7 DEF Shadowed, Listed, Tracks
    <3> QED
      BY <1>2, <3>1, <3>2, AppliedFacts
  <2>2. CASE i > k
    BY <1>2, <2>1, <2>2, KeepsBare DEF Bare
  <2>3. CASE i <= k /\ \A j \in i .. k-1 : Copies(f)[j] = Absent
    <3>1. \A j \in i .. Len(applied') : Copies(f)'[j] = Absent
      BY <1>2, <1>3, <1>7, <2>1, <2>3
    <3>2. Copies(f)[k] = backup[p][g] /\ tree'[f] = Restored(Copies(f)[k])
      BY <1>1, <1>2, <1>7, AppliedFacts
    <3>3. k \in i .. Len(applied) /\ Copies(f)[k] # Absent
      BY <1>2, <2>3, <3>2
    <3> QED
      BY <2>3, <3>1, <3>2, <3>3, KeepsRestored
  <2>4. ASSUME NEW x \in i .. k-1, Copies(f)[x] # Absent
        PROVE  Keeps(i, f)
    <3>1. x \in i .. Len(applied) /\ x <= Len(applied')
      BY <1>2
    <3>2. \A j \in i .. x : Copies(f)'[j] = Copies(f)[j]
      BY <1>2, <1>3
    <3> QED
      BY <2>4, <3>1, <3>2, KeepsHeld
  <2>5. i <= k \/ i > k
    BY <1>2
  <2> QED
    BY <2>2, <2>3, <2>4, <2>5
<1> QED
  BY <1>4, <1>6, <1>7

\* edit: the top has a copy before the editor changes the file.
LEMMA EditKeeps ==
  ASSUME IInv, TypeOK', NEW g \in Files, NEW e \in EditTo, Edit(g, e),
         NEW i \in 1 .. Len(applied), NEW f \in Files \ Hidden
  PROVE  Keeps(i, f)
<1> DEFINE k == Len(applied)
<1>1. /\ k \in 1 .. Len(applied)
      /\ applied[k] = Top
      /\ Top \in Patches
      /\ Len(applied) \in Nat
  BY AppliedFacts, TopIndexIs DEF Edit, Top, Last
<1>2. /\ applied' = applied
      /\ tree' = [tree EXCEPT ![g] = e]
      /\ backup' = IF backup[Top][g] # Absent THEN backup
                   ELSE [backup EXCEPT ![Top][g] = Saved(tree[g])]
  BY DEF Edit, Tracks
<1> HIDE DEF k
<1>3. /\ Copies(f)[k] = backup[Top][f]
      /\ \A j \in 1 .. Len(applied) :
           Copies(f)'[j] = IF j = k /\ f = g /\ Copies(f)[k] = Absent
                           THEN Saved(tree[f]) ELSE Copies(f)[j]
  BY <1>1, <1>2, AppliedFacts DEF Copies
<1>4. f # g => tree'[f] = tree[f]
  BY <1>2, AppliedFacts
<1>5. CASE f # g
  BY <1>1, <1>2, <1>3, <1>4, <1>5, KeepsSame
<1>6. CASE f = g /\ Bare(i, f)
  <2>1. k \in i .. Len(applied') /\ Copies(f)[k] = Absent
    BY <1>1, <1>2, <1>6 DEF Bare, k
  <2>2. Copies(f)'[k] = Saved(tree[f])
    BY <1>1, <1>3, <1>6, <2>1
  <2>3. \A j \in i .. k-1 : Copies(f)'[j] = Absent
    BY <1>1, <1>2, <1>3, <1>6 DEF Bare
  <2> QED
    BY <1>6, <2>1, <2>2, <2>3, KeepsSaved
<1>7. ASSUME NEW x \in i .. Len(applied), Copies(f)[x] # Absent
      PROVE  Keeps(i, f)
  <2>1. \A j \in i .. x : Copies(f)'[j] = Copies(f)[j]
    BY <1>1, <1>3, <1>7 DEF k
  <2>2. x <= Len(applied')
    BY <1>1, <1>2
  <2> QED
    BY <1>7, <2>1, <2>2, KeepsHeld
<1> QED
  BY <1>5, <1>6, <1>7, BareOrHeld

\* revert: the patch has a copy, which stays.
LEMMA RevertKeeps ==
  ASSUME IInv, TypeOK', NEW p \in Patches, NEW g \in Files, RevertFile(p, g),
         NEW i \in 1 .. Len(applied), NEW f \in Files \ Hidden
  PROVE  Keeps(i, f)
<1>1. PICK k \in 1 .. Len(applied) : applied[k] = p
  BY AppliedFacts DEF RevertFile, IsIn
<1>2. /\ Len(applied) \in Nat
      /\ applied' = applied
      /\ backup' = backup
      /\ backup[p][g] # Absent
      /\ f = g => \A q \in Above(p) : backup[q][g] = Absent
  BY AppliedFacts DEF RevertFile, Listed, Tracks
<1>3. f # g => tree'[f] = tree[f]
  BY AppliedFacts DEF RevertFile
<1>4. \A j \in 1 .. Len(applied) : Copies(f)'[j] = Copies(f)[j]
  BY <1>2 DEF Copies
<1>5. CASE f # g
  BY <1>2, <1>3, <1>4, <1>5, KeepsSame
<1>6. CASE f = g /\ i > k
  <2>1. \A j \in i .. Len(applied) : Copies(f)[j] = Absent
    BY <1>1, <1>2, <1>6, AppliedFacts, AboveAreBehind
  <2> QED
    BY <1>2, <1>6, <2>1, KeepsBare DEF Bare
<1>7. CASE f = g /\ i <= k
  <2>1. k \in i .. Len(applied) /\ k <= Len(applied')
    BY <1>2, <1>7
  <2>2. Copies(f)[k] # Absent
    BY <1>1, <1>2, <1>7, AppliedFacts
  <2>3. \A j \in i .. k : Copies(f)'[j] = Copies(f)[j]
    BY <1>2, <1>4
  <2> QED
    BY <2>1, <2>2, <2>3, KeepsHeld
<1>8. i <= k \/ i > k
  BY <1>2
<1> QED
  BY <1>5, <1>6, <1>7, <1>8

-----------------------------------------------------------------------------
(* The commands that put a patch on the stack.                              *)

\* A patch that comes on top brings its own copies and leaves the others.
LEMMA CopiesOfPushed ==
  ASSUME IInv, NEW p \in Patches, \A j \in 1 .. Len(applied) : applied[j] # p,
         applied' = Append(applied, p),
         \A q \in Patches : q # p => backup'[q] = backup[q],
         NEW f \in Files \ Hidden
  PROVE  /\ Len(applied) \in Nat
         /\ Len(applied') = Len(applied) + 1
         /\ \A j \in 1 .. Len(applied) : Copies(f)'[j] = Copies(f)[j]
         /\ Copies(f)'[Len(applied) + 1] = backup'[p][f]
         /\ backup[p][f] = Absent
<1>1. /\ Len(applied) \in Nat
      /\ Len(applied') = Len(applied) + 1
      /\ \A j \in 1 .. Len(applied) : applied'[j] = applied[j]
      /\ applied'[Len(applied) + 1] = p
  BY AppendProperties, AppliedFacts DEF Stack
<1>2. \A j \in 1 .. Len(applied) : applied[j] \in Patches /\ applied[j] # p
  BY AppliedFacts
<1>3. \A j \in 1 .. Len(applied') : Copies(f)'[j] = backup'[applied'[j]][f]
  BY DEF Copies
<1>4. \A j \in 1 .. Len(applied) : Copies(f)[j] = backup[applied[j]][f]
  BY DEF Copies
<1>5. \A j \in 1 .. Len(applied) : Copies(f)'[j] = Copies(f)[j]
  BY <1>1, <1>2, <1>3, <1>4
<1>6. Copies(f)'[Len(applied) + 1] = backup'[p][f]
  BY <1>1, <1>3
<1> QED
  BY <1>1, <1>5, <1>6, AppliedFacts

\* So nothing changes underneath a file that is tracked already.
LEMMA PushedKeepsHeld ==
  ASSUME IInv, TypeOK', NEW p \in Patches, \A j \in 1 .. Len(applied) : applied[j] # p,
         applied' = Append(applied, p),
         \A q \in Patches : q # p => backup'[q] = backup[q],
         NEW i \in 1 .. Len(applied), NEW f \in Files \ Hidden, ~Bare(i, f)
  PROVE  Keeps(i, f)
<1>1. PICK x \in i .. Len(applied) : Copies(f)[x] # Absent
  BY DEF Bare
<1>2. /\ x <= Len(applied')
      /\ \A j \in i .. x : Copies(f)'[j] = Copies(f)[j]
  BY CopiesOfPushed
<1> QED
  BY <1>1, <1>2, KeepsHeld

\* new: the patch has no copies yet.
LEMMA NewKeeps ==
  ASSUME IInv, TypeOK', NEW p \in Patches, New(p),
         NEW i \in 1 .. Len(applied), NEW f \in Files \ Hidden
  PROVE  Keeps(i, f)
<1>1. \A j \in 1 .. Len(applied) : applied[j] # p
  BY AppliedFacts DEF New
<1>2. applied' = Append(applied, p) /\ backup' = backup /\ tree' = tree
  BY DEF New
<1>3. /\ Len(applied) \in Nat
      /\ Len(applied') = Len(applied) + 1
      /\ \A j \in 1 .. Len(applied) : Copies(f)'[j] = Copies(f)[j]
      /\ Copies(f)'[Len(applied) + 1] = Absent
  BY <1>1, <1>2, CopiesOfPushed
<1> QED
  BY <1>2, <1>3, KeepsSame

\* refresh -z: the fork has copies of the files that the top has.
LEMMA RefreshForkKeeps ==
  ASSUME IInv, TypeOK', NEW new \in Patches, RefreshFork(new),
         NEW i \in 1 .. Len(applied), NEW f \in Files \ Hidden
  PROVE  Keeps(i, f)
<1>1. \A j \in 1 .. Len(applied) : applied[j] # new
  BY AppliedFacts DEF RefreshFork
<1>2. /\ applied # <<>>
      /\ applied' = Append(applied, new)
      /\ \A q \in Patches : q # new => backup'[q] = backup[q]
      /\ backup[Top][f] = Absent => backup'[new][f] = backup[new][f]
      /\ tree' = tree
  BY AppliedFacts DEF RefreshFork, Listed, Tracks
<1>3. /\ Len(applied) \in Nat
      /\ Len(applied') = Len(applied) + 1
      /\ \A j \in 1 .. Len(applied) : Copies(f)'[j] = Copies(f)[j]
      /\ Copies(f)'[Len(applied) + 1] = backup'[new][f]
      /\ backup[new][f] = Absent
  BY <1>1, <1>2, CopiesOfPushed
<1>4. CASE Bare(i, f)
  <2>1. Copies(f)[Len(applied)] = backup[Top][f]
    BY <1>3, AppliedFacts DEF Top, Last
  <2>2. backup'[new][f] = Absent
    BY <1>2, <1>3, <1>4, <2>1 DEF Bare
  <2> QED
    BY <1>2, <1>3, <2>2, KeepsSame
<1>5. CASE ~Bare(i, f)
  BY <1>1, <1>2, <1>5, PushedKeepsHeld
<1> QED
  BY <1>4, <1>5

\* The next patch is one that is not applied.
LEMMA NextPatchFacts ==
  ASSUME IInv, CanPush
  PROVE  /\ NextPatch \in Patches
         /\ \A j \in 1 .. Len(applied) : applied[j] # NextPatch
<1>1. Stack(applied, series)
  BY AppliedFacts
<1>2. /\ TopIndex = Len(applied)
      /\ Len(applied) \in Nat /\ Len(series) \in Nat
      /\ Len(applied) + 1 \in 1 .. Len(series)
      /\ NextPatch = series[Len(applied) + 1]
  BY <1>1, TopIndexIs DEF CanPush, NextPatch
<1>3. ~(Len(applied) + 1 <= Len(applied))
  BY <1>2
<1>4. ~IsIn(applied, NextPatch)
  BY <1>1, <1>2, <1>3, AppliedByPosition
<1> QED
  BY <1>1, <1>2, <1>4, AppliedFacts, ElementOfSeq DEF Stack, IsIn

\* push: what is changed was copied before.
LEMMA PushKeeps ==
  ASSUME IInv, TypeOK', CanPush, Recorded(NextPatch),
         NEW force \in BOOLEAN, tree' = AfterPush(NextPatch, force),
         NEW i \in 1 .. Len(applied), NEW f \in Files \ Hidden
  PROVE  Keeps(i, f)
<1> DEFINE p == NextPatch
<1>1. p \in Patches /\ \A j \in 1 .. Len(applied) : applied[j] # p
  BY NextPatchFacts
<1>2. /\ applied' = Append(applied, p)
      /\ \A q \in Patches : q # p => backup'[q] = backup[q]
      /\ backup'[p][f] = IF f \in Affected(patchFile[p]) THEN Saved(tree[f]) ELSE backup[p][f]
  BY <1>1, AppliedFacts DEF Recorded, SavedFor
<1>3. tree'[f] = IF patchFile[p][f] = Absent THEN tree[f]
                 ELSE Patched(Oriented(patchFile[p][f], p \in reversed), tree[f], force, TRUE)
  BY DEF AfterPush, PatchedTree
<1>4. CanPush => UnsavedByPush = Unlisted(patchFile[p])
  BY DEF UnsavedByPush
<1> HIDE DEF p
<1>5. /\ Len(applied) \in Nat
      /\ Len(applied') = Len(applied) + 1
      /\ \A j \in 1 .. Len(applied) : Copies(f)'[j] = Copies(f)[j]
      /\ Copies(f)'[Len(applied) + 1] = backup'[p][f]
      /\ backup[p][f] = Absent
  BY <1>1, <1>2, CopiesOfPushed
<1>6. CASE ~Bare(i, f)
  BY <1>1, <1>2, <1>6, PushedKeepsHeld
<1>7. CASE Bare(i, f) /\ f \in Affected(patchFile[p])
  <2>1. Len(applied) + 1 \in i .. Len(applied')
    BY <1>5
  <2>2. Copies(f)'[Len(applied) + 1] = Saved(tree[f])
    BY <1>2, <1>5, <1>7
  <2>3. \A j \in i .. Len(applied) + 1 - 1 : Copies(f)'[j] = Absent
    BY <1>5, <1>7 DEF Bare
  <2> QED
    BY <1>7, <2>1, <2>2, <2>3, KeepsSaved
<1>8. CASE Bare(i, f) /\ f \in Unlisted(patchFile[p])
  BY <1>4, <1>8, KeepsBare
<1>9. CASE patchFile[p][f] = Absent
  <2>1. f \notin Affected(patchFile[p])
    BY <1>9 DEF Affected
  <2>2. tree'[f] = tree[f]
    BY <1>3, <1>9
  <2>3. backup'[p][f] = Absent
    BY <1>2, <1>5, <2>1
  <2>4. Len(applied) <= Len(applied')
    BY <1>5
  <2>5. \A j \in i .. Len(applied) : Copies(f)'[j] = Copies(f)[j]
    BY <1>5
  <2>6. \A j \in i .. Len(applied') : j > Len(applied) => Copies(f)'[j] = Absent
    <3>1. \A j \in i .. Len(applied') : j > Len(applied) => j = Len(applied) + 1
      BY <1>5
    <3> QED
      BY <1>5, <2>3, <3>1
  <2> QED
    BY <2>2, <2>4, <2>5, <2>6, KeepsSame
<1> QED
  BY <1>6, <1>7, <1>8, <1>9 DEF Affected, Unlisted

\* A push that fails puts back what it changed.
LEMMA PushFailsKeeps ==
  ASSUME IInv, TypeOK', PushFails,
         NEW i \in 1 .. Len(applied), NEW f \in Files \ Hidden
  PROVE  Keeps(i, f)
<1> DEFINE p == NextPatch
<1>1. p \in Patches /\ \A j \in 1 .. Len(applied) : applied[j] # p
  BY NextPatchFacts DEF PushFails
<1>2. /\ applied' = applied
      /\ backup' = [backup EXCEPT ![p] = NoBackups]
      /\ Len(applied) \in Nat
  BY AppliedFacts DEF PushFails
<1> HIDE DEF p
<1>3. \A j \in 1 .. Len(applied) : Copies(f)'[j] = Copies(f)[j]
  BY <1>1, <1>2, AppliedFacts DEF Copies
<1>4. CASE ~Bare(i, f)
  <2>1. PICK x \in i .. Len(applied) : Copies(f)[x] # Absent
    BY <1>4 DEF Bare
  <2>2. x <= Len(applied') /\ \A j \in i .. x : Copies(f)'[j] = Copies(f)[j]
    BY <1>2, <1>3
  <2> QED
    BY <2>1, <2>2, KeepsHeld
<1>5. CASE Bare(i, f) /\ (tree[f] = {} \/ f \in UnsavedByPush)
  BY <1>5, KeepsBare
<1>6. CASE tree[f] # {} /\ f \notin UnsavedByPush
  <2>1. tree'[f] = tree[f]
    <3>1. CASE f \in Affected(patchFile[NextPatch])
      BY <1>6, <3>1, AppliedFacts, SavedIsRestored DEF PushFails, SavedFor
    <3>2. CASE f \notin Affected(patchFile[NextPatch])
      <4>1. patchFile[NextPatch][f] = Absent
        BY <1>6, <3>2 DEF UnsavedByPush, Unlisted, Affected, PushFails
      <4> QED
        BY <3>2, <4>1 DEF PushFails, AfterPush, PatchedTree
    <3> QED
      BY <3>1, <3>2
  <2> QED
    BY <1>2, <1>3, <2>1, KeepsSame
<1> QED
  BY <1>4, <1>5, <1>6

-----------------------------------------------------------------------------
(* The commands that take a patch down, or give it another name.            *)

\* pop, delete: the copies of the top go back into the tree.
LEMMA TakenDownKeeps ==
  ASSUME IInv, TypeOK', applied # <<>>, TakenDown,
         NEW i \in 1 .. Len(applied), NEW f \in Files \ Hidden
  PROVE  Keeps(i, f)
<1> DEFINE n == Len(applied)
<1>1. /\ n \in Nat \ {0}
      /\ Len(applied') = n - 1
      /\ \A j \in 1 .. n-1 : applied'[j] = applied[j]
  BY FrontProperties, AppliedFacts DEF TakenDown, Stack
<1>2. applied[n] = Top /\ Top \in Patches /\ n \in 1 .. n
  BY <1>1, AppliedFacts DEF Top, Last
<1>3. /\ backup' = [backup EXCEPT ![Top] = NoBackups]
      /\ tree'[f] = IF Copies(f)[n] # Absent THEN Restored(Copies(f)[n]) ELSE tree[f]
  BY <1>1, <1>2, AppliedFacts DEF TakenDown, Listed, Tracks
<1>4. \A j \in 1 .. n-1 : applied[j] \in Patches /\ applied[j] # Top
  BY <1>1, <1>2, AppliedFacts
<1>5. \A j \in 1 .. Len(applied') : Copies(f)'[j] = backup'[applied'[j]][f]
  BY DEF Copies
<1>6. \A j \in 1 .. n-1 : Copies(f)'[j] = Copies(f)[j]
  BY <1>1, <1>3, <1>4, <1>5, AppliedFacts
<1>7. CASE \A j \in i .. n-1 : Copies(f)[j] = Absent
  <2>1. \A j \in i .. Len(applied') : Copies(f)'[j] = Absent
    BY <1>1, <1>6, <1>7
  <2>2. CASE Copies(f)[n] = Absent
    <3>1. Bare(i, f)
      BY <1>1, <1>7, <2>2 DEF Bare
    <3>2. tree'[f] = tree[f]
      BY <1>3, <2>2
    <3> QED
      BY <2>1, <3>1, <3>2, KeepsRestored
  <2>3. CASE Copies(f)[n] # Absent
    <3>1. /\ n \in i .. Len(applied)
          /\ tree'[f] = Restored(Copies(f)[n])
      BY <1>1, <1>3, <2>3
    <3> HIDE DEF n
    <3> QED
      BY <1>7, <2>1, <2>3, <3>1, KeepsRestored
  <2> QED
    BY <2>2, <2>3
<1>8. ASSUME NEW x \in i .. n-1, Copies(f)[x] # Absent
      PROVE  Keeps(i, f)
  <2>1. x \in i .. Len(applied) /\ x <= Len(applied')
    BY <1>1
  <2>2. \A j \in i .. x : Copies(f)'[j] = Copies(f)[j]
    BY <1>1, <1>6
  <2> QED
    BY <1>8, <2>1, <2>2, KeepsHeld
<1> QED
  BY <1>7, <1>8

\* rename, fork: the copies go with the name.
LEMMA RenamedKeeps ==
  ASSUME IInv, TypeOK', NEW old \in Patches, NEW new \in Patches,
         old # new, \A j \in 1 .. Len(applied) : applied[j] # new,
         applied' = Renamed(applied, old, new),
         backup' = Moved(backup, old, new, NoBackups), tree' = tree,
         NEW i \in 1 .. Len(applied), NEW f \in Files \ Hidden
  PROVE  Keeps(i, f)
<1>1. /\ Len(applied) \in Nat
      /\ DOMAIN applied = 1 .. Len(applied)
      /\ \A j \in 1 .. Len(applied) : applied[j] \in Patches
      /\ backup \in [Patches -> [Files -> {Absent} \cup Content]]
  BY AppliedFacts
<1>2. /\ DOMAIN applied' = 1 .. Len(applied)
      /\ \A j \in 1 .. Len(applied) :
           applied'[j] = IF applied[j] = old THEN new ELSE applied[j]
  BY <1>1 DEF Renamed
<1>3. Len(applied') = Len(applied)
  BY <1>1, <1>2, LenProperties DEF TypeOK
<1>4. /\ backup'[new] = backup[old]
      /\ \A q \in Patches : q # old /\ q # new => backup'[q] = backup[q]
  BY <1>1 DEF Moved
<1>5. \A j \in 1 .. Len(applied) : backup'[applied'[j]] = backup[applied[j]]
  BY <1>1, <1>2, <1>4
<1>6. \A j \in 1 .. Len(applied) : Copies(f)'[j] = Copies(f)[j]
  BY <1>3, <1>5 DEF Copies
<1> QED
  BY <1>1, <1>3, <1>6, KeepsSame

\* A command that leaves the stack alone.
LEMMA UnchangedKeeps ==
  ASSUME IInv, TypeOK', UNCHANGED <<applied, backup, tree>>,
         NEW i \in 1 .. Len(applied), NEW f \in Files \ Hidden
  PROVE  Keeps(i, f)
<1>1. \A j \in 1 .. Len(applied) : Copies(f)'[j] = Copies(f)[j]
  BY DEF Copies
<1> QED
  BY <1>1, AppliedFacts, KeepsSame

\* fold: what is changed has been copied, by the top or further down.
LEMMA FoldKeeps ==
  ASSUME IInv, TypeOK', NEW P \in FoldFrom, NEW rev \in BOOLEAN, NEW force \in BOOLEAN,
         Fold(P, rev, force),
         NEW i \in 1 .. Len(applied), NEW f \in Files \ Hidden
  PROVE  Keeps(i, f)
<1> DEFINE k == Len(applied)
<1>1. /\ k \in 1 .. Len(applied)
      /\ applied[k] = Top
      /\ Top \in Patches
      /\ Len(applied) \in Nat
  BY AppliedFacts, TopIndexIs DEF Fold, Top, Last
<1>2. /\ applied' = applied
      /\ \A q \in Patches : q # Top => backup'[q] = backup[q]
      /\ backup'[Top][f] = IF f \in Affected(P) /\ backup[Top][f] = Absent
                           THEN Saved(tree[f]) ELSE backup[Top][f]
      /\ tree'[f] = IF P[f] = Absent THEN tree[f]
                    ELSE Patched(Oriented(P[f], rev), tree[f], force, FALSE)
  BY <1>1, AppliedFacts DEF Fold, PatchedTree, Listed, Tracks
<1> HIDE DEF k
<1>3. /\ Copies(f)[k] = backup[Top][f]
      /\ \A j \in 1 .. Len(applied) :
           Copies(f)'[j] = IF j = k /\ f \in Affected(P) /\ Copies(f)[k] = Absent
                           THEN Saved(tree[f]) ELSE Copies(f)[j]
  BY <1>1, <1>2, AppliedFacts DEF Copies
<1>4. CASE Bare(i, f) /\ f \in Affected(P)
  <2>1. k \in i .. Len(applied') /\ Copies(f)[k] = Absent
    BY <1>1, <1>2, <1>4 DEF Bare, k
  <2>2. Copies(f)'[k] = Saved(tree[f])
    BY <1>1, <1>3, <1>4, <2>1
  <2>3. \A j \in i .. k-1 : Copies(f)'[j] = Absent
    BY <1>1, <1>2, <1>3, <1>4 DEF Bare
  <2> QED
    BY <1>4, <2>1, <2>2, <2>3, KeepsSaved
<1>5. CASE Bare(i, f) /\ f \in Unlisted(P)
  <2>1. f \in UnsavedByFold
    BY <1>5 DEF UnsavedByFold
  <2> QED
    BY <1>5, <2>1, KeepsBare
<1>6. CASE P[f] = Absent
  <2>1. f \notin Affected(P)
    BY <1>6 DEF Affected
  <2>2. \A j \in 1 .. Len(applied) : Copies(f)'[j] = Copies(f)[j]
    BY <1>3, <2>1
  <2> QED
    BY <1>1, <1>2, <1>6, <2>2, KeepsSame
<1>7. ASSUME NEW x \in i .. Len(applied), Copies(f)[x] # Absent
      PROVE  Keeps(i, f)
  <2>1. \A j \in i .. x : Copies(f)'[j] = Copies(f)[j]
    BY <1>1, <1>3, <1>7 DEF k
  <2>2. x <= Len(applied')
    BY <1>1, <1>2
  <2> QED
    BY <1>7, <2>1, <2>2, KeepsHeld
<1>8. P[f] = Absent \/ f \in Affected(P) \/ f \in Unlisted(P)
  BY DEF Affected, Unlisted
<1> QED
  BY <1>4, <1>5, <1>6, <1>7, <1>8, BareOrHeld

-----------------------------------------------------------------------------
(* All commands.                                                            *)

\* Every command keeps what lies underneath every patch.
LEMMA CommandKeeps ==
  ASSUME IInv, TypeOK', Command, NEW i \in 1 .. Len(applied), NEW f \in Files \ Hidden
  PROVE  Keeps(i, f)
<1>1. CASE FileCommand
  BY <1>1, AddKeeps, RemoveKeeps, RevertKeeps DEF FileCommand
<1>2. CASE EditCommand
  BY <1>2, EditKeeps DEF EditCommand
<1>3. CASE RefreshCommand
  BY <1>3, UnchangedKeeps, RefreshForkKeeps DEF RefreshCommand, Refresh
<1>4. CASE StackCommand
  <2>1. ASSUME NEW force \in BOOLEAN, Push(force)
        PROVE  Keeps(i, f)
    BY <2>1, PushKeeps DEF Push
  <2>2. CASE PushForced
    BY <2>2, PushKeeps DEF PushForced
  <2>3. CASE PushFails
    BY <2>3, PushFailsKeeps
  <2>4. ASSUME NEW force \in BOOLEAN, NEW auto \in BOOLEAN, Pop(force, auto)
        PROVE  Keeps(i, f)
    BY <2>4, TakenDownKeeps DEF Pop
  <2> QED
    BY <1>4, <2>1, <2>2, <2>3, <2>4 DEF StackCommand
<1>5. CASE SeriesCommand
  <2>1. ASSUME NEW p \in Patches, NEW rm \in BOOLEAN, Delete(p, rm)
        PROVE  Keeps(i, f)
    <3>1. CASE TakenDown
      <4>1. applied # <<>>
        BY AppliedFacts, EmptySeq
      <4> QED
        BY <3>1, <4>1, TakenDownKeeps
    <3>2. CASE UNCHANGED <<applied, backup, needsRefresh, tree>>
      BY <3>2, UnchangedKeeps
    <3> QED
      BY <2>1, <3>1, <3>2 DEF Delete
  <2>2. ASSUME NEW old \in Patches, NEW new \in Patches, Rename(old, new)
        PROVE  Keeps(i, f)
    <3>1. old # new /\ \A j \in 1 .. Len(applied) : applied[j] # new
      BY <2>2, AppliedFacts DEF Rename
    <3>2. CASE IsIn(applied, old)
      BY <2>2, <3>1, <3>2, RenamedKeeps DEF Rename
    <3>3. CASE ~IsIn(applied, old)
      BY <2>2, <3>3, UnchangedKeeps DEF Rename
    <3> QED
      BY <3>2, <3>3
  <2>3. ASSUME NEW new \in Patches, Fork(new)
        PROVE  Keeps(i, f)
    <3>1. Top \in Patches
      BY <2>3, AppliedFacts, TopIndexIs DEF Fork
    <3>2. Top # new /\ \A j \in 1 .. Len(applied) : applied[j] # new
      BY <2>3, AppliedFacts DEF Fork
    <3> QED
      BY <2>3, <3>1, <3>2, RenamedKeeps DEF Fork
  <2>4. ASSUME NEW p \in Patches, NEW P \in ImportFrom,
               NEW force \in BOOLEAN, NEW rev \in BOOLEAN, Import(p, P, force, rev)
        PROVE  Keeps(i, f)
    BY <2>4, UnchangedKeeps DEF Import
  <2> QED
    BY <1>5, <2>1, <2>2, <2>3, <2>4, NewKeeps, FoldKeeps DEF SeriesCommand
<1> QED
  BY <1>1, <1>2, <1>3, <1>4, <1>5 DEF Command

(***************************************************************************)
(* For every project and every history: no command loses a file, whether   *)
(* as it is without patches or as any of the patches has found it, outside *)
(* of the four exceptions that the property names.                         *)
(***************************************************************************)
THEOREM UnderneathIsKept == Spec => CommandsKeepUnderneath
<1>1. ASSUME IInv, IInv', [Next]_vars
      PROVE  [~UserStep =>
                \A i \in 1 .. Len(applied), f \in Files \ Hidden : Keeps(i, f)]_vars
  <2> SUFFICES ASSUME ~UserStep, Next, NEW i \in 1 .. Len(applied),
                      NEW f \in Files \ Hidden
               PROVE  Keeps(i, f)
    BY <1>1
  <2>1. Command
    BY DEF Next
  <2>2. TypeOK'
    BY <1>1 DEF IInv
  <2> QED
    BY <1>1, <2>1, <2>2, CommandKeeps
<1> QED
  BY <1>1, Invariant, PTL DEF Spec, CommandsKeepUnderneath, Keeps

-----------------------------------------------------------------------------
(* What revert and refresh write.                                           *)

\* A file that is put back reads as the copy it comes from.
LEMMA RestoredReads ==
  ASSUME NEW b \in Content
  PROVE  Text(Restored(b)) = b
BY AbsentIsNoValue DEF Text, Restored

\* Where a section applied, it can be taken out again.
LEMMA PatchedIsReversible ==
  ASSUME NEW s \in Section, NEW b \in Content, ~Rejects(s, b, FALSE)
  PROVE  ~Rejects(Oriented(s, TRUE), Restored(Patched(s, b, FALSE, FALSE)), TRUE)
<1> DEFINE out == (b \ Deletes(s)) \cup Inserts(s)
<1>1. Text(b) = b
  BY AbsentIsNoValue DEF Text
<1>2. Patched(s, b, FALSE, FALSE) = out
  BY <1>1, PatchedClean
<1>3. out \in Content
  BY ContentTypes DEF Content, Section, Inserts
<1>4. Text(Restored(out)) = out
  BY <1>3, RestoredReads
<1>5. Deletes(Oriented(s, TRUE)) = Inserts(s)
  BY DEF Deletes, Inserts, Oriented
<1> QED
  BY <1>2, <1>4, <1>5 DEF Rejects

(***************************************************************************)
(* For every project and every history: what revert leaves in a file is    *)
(* what pop looks for.                                                     *)
(***************************************************************************)
THEOREM RevertedPops == Spec => RevertedFilePops
<1>1. ASSUME IInv, [Next]_vars
      PROVE  [\A p \in Patches, f \in Files :
                /\ RevertFile(p, f)
                /\ patchFile[p] # Absent
                /\ patchFile[p][f] # Absent
                /\ ~Rejects(patchFile[p][f], backup[p][f], FALSE)
                => ~Rejects(Oriented(patchFile'[p][f], TRUE), tree'[f], TRUE)]_vars
  <2> SUFFICES ASSUME NEW p \in Patches, NEW f \in Files, RevertFile(p, f),
                      patchFile[p] # Absent, patchFile[p][f] # Absent,
                      ~Rejects(patchFile[p][f], backup[p][f], FALSE)
               PROVE  ~Rejects(Oriented(patchFile'[p][f], TRUE), tree'[f], TRUE)
    OBVIOUS
  <2>1. patchFile[p] \in Patch
    BY <1>1 DEF IInv, TypeOK
  <2>2. patchFile[p][f] \in Section
    BY <2>1 DEF Patch
  <2>3. backup[p][f] \in Content
    BY <1>1 DEF RevertFile, Tracks, IInv, TypeOK
  <2>4. patchFile' = patchFile
    BY DEF RevertFile
  <2>5. tree'[f] = Restored(Patched(patchFile[p][f], backup[p][f], FALSE, FALSE))
    BY <1>1 DEF RevertFile, IInv, TypeOK
  <2> QED
    BY <2>2, <2>3, <2>4, <2>5, PatchedIsReversible
<1> QED
  BY <1>1, Invariant, PTL DEF Spec, RevertedFilePops

(***************************************************************************)
(* The diff of two file states, applied to the first, gives the text of    *)
(* the second; no diff, and they read the same.                            *)
(***************************************************************************)
LEMMA DiffIsExact ==
  ASSUME NEW x \in FileState, NEW y \in FileState
  PROVE  /\ Diff(x, y) = Absent => Text(x) = Text(y)
         /\ Diff(x, y) # Absent => Text(Patched(Diff(x, y), x, FALSE, TRUE)) = Text(y)
<1>1. CASE Text(x) = Text(y)
  BY <1>1 DEF Diff
<1>2. CASE Text(x) # Text(y)
  <2> DEFINE s == [old |-> x, new |-> y]
  <2>1. Diff(x, y) = s
    BY <1>2 DEF Diff
  <2>2. s \in Section
    BY <1>2 DEF Section
  <2>3. s # Absent
    BY <2>2, AbsentIsNoValue
  <2>4. ~Rejects(s, x, FALSE)
    BY DEF Rejects, CannotFind, Deletes
  <2>5. (Text(x) \ Deletes(s)) \cup Inserts(s) = Text(y)
    BY DEF Deletes, Inserts
  <2>6. Text(Text(y)) = Text(y) /\ Text(Absent) = {}
    BY DEF Text
  <2>7. \/ Patched(s, x, FALSE, TRUE) = Text(y)
        \/ Patched(s, x, FALSE, TRUE) = Absent /\ Text(y) = {}
    BY <2>2, <2>4, <2>5, PatchedClean
  <2> QED
    BY <2>1, <2>3, <2>6, <2>7
<1> QED
  BY <1>1, <1>2

(***************************************************************************)
(* What refresh takes as the far side of a file of an applied patch is     *)
(* what the patches behind it are applied on top of.                       *)
(***************************************************************************)
LEMMA FarSideIsUnderneath ==
  ASSUME IInv, NEW i \in 1 .. Len(applied), NEW f \in Files \ Hidden
  PROVE  Underneath(i+1, f) = IF f \in Shadowed(applied[i])
                              THEN Restored(NextBackup(applied[i], f)) ELSE tree[f]
<1> DEFINE p == applied[i]
<1>1. /\ Len(applied) \in Nat /\ DOMAIN applied = 1 .. Len(applied)
      /\ i \in Nat /\ i+1 \in Nat \ {0}
      /\ \A j, k \in 1 .. Len(applied) : applied[j] = applied[k] => j = k
      /\ \A j \in 1 .. Len(applied) : Copies(f)[j] = backup[applied[j]][f]
  BY AppliedFacts
<1>2. \A j \in 1 .. Len(applied) : applied[j] \in Above(p) <=> j > i
  <2>1. \A j \in i+1 .. Len(applied) : applied[j] \in Above(p)
    BY AboveAreBehind
  <2>2. ASSUME NEW j \in 1 .. Len(applied), applied[j] \in Above(p)
        PROVE  j > i
    <3>1. PICK k \in DOMAIN applied : /\ applied[j] = applied[k]
                                      /\ \E h \in 1 .. k-1 : applied[h] = p
      BY <2>2 DEF Above
    <3>2. PICK h \in 1 .. k-1 : applied[h] = p
      BY <3>1
    <3>3. j = k /\ h = i
      BY <1>1, <3>1, <3>2
    <3> QED
      BY <1>1, <3>2, <3>3
  <2> QED
    BY <1>1, <2>1, <2>2
<1>3. Underneath(i+1, f) = Lowest(Copies(f), Len(applied), tree[f], i+1)
  BY <1>1, UnderneathIsLowest DEF IInv
<1>4. CASE f \notin Shadowed(p)
  <2>1. \A j \in i+1 .. Len(applied) : Copies(f)[j] = Absent
    BY <1>1, <1>2, <1>4 DEF Shadowed, Listed, Tracks
  <2> QED
    BY <1>1, <1>3, <1>4, <2>1, LowestOfNone
<1>5. CASE f \in Shadowed(p)
  <2>1. PICK q \in Above(p) : Listed(q, f)
    BY <1>5 DEF Shadowed
  <2>2. PICK x \in DOMAIN applied : applied[x] = q
    BY <2>1 DEF Above
  <2>3. x \in Nat /\ i+1 <= x /\ Copies(f)[x] # Absent
    BY <1>1, <1>2, <2>1, <2>2 DEF Listed, Tracks
  <2>4. PICK j \in i+1 .. x : /\ Copies(f)[j] # Absent
                              /\ \A k \in i+1 .. j-1 : Copies(f)[k] = Absent
    <3> DEFINE c == Copies(f)
               m == i+1
    <3>1. m \in Nat /\ x \in Nat /\ m <= x /\ c[x] # Absent
      BY <1>1, <2>3
    <3> HIDE DEF c, m
    <3>2. \E j \in m .. x : c[j] # Absent /\ \A k \in m .. j-1 : c[k] = Absent
      BY <3>1, FirstCopy
    <3> QED
      BY <3>2 DEF c, m
  <2>5. j \in i+1 .. Len(applied) /\ j \in 1 .. Len(applied)
    BY <1>1, <2>2, <2>3, <2>4
  <2>6. Underneath(i+1, f) = Restored(backup[applied[j]][f])
    BY <1>1, <1>3, <2>4, <2>5, LowestIsFirst
  <2> DEFINE First(k) == /\ applied[k] \in Above(p) /\ Listed(applied[k], f)
                         /\ \A h \in 1 .. k-1 :
                              ~(applied[h] \in Above(p) /\ Listed(applied[h], f))
  <2>7. \A k \in DOMAIN applied : First(k) <=> k = j
    <3>1. \A k \in DOMAIN applied : applied[k] \in Above(p) /\ Listed(applied[k], f)
                                      => k >= j
      BY <1>1, <1>2, <2>4, <2>5 DEF Listed, Tracks
    <3>2. applied[j] \in Above(p) /\ Listed(applied[j], f)
      BY <1>1, <1>2, <2>4, <2>5 DEF Listed, Tracks
    <3>3. First(j)
      BY <1>1, <2>5, <3>1, <3>2
    <3>4. ASSUME NEW k \in DOMAIN applied, First(k)
          PROVE  k = j
      BY <1>1, <2>5, <3>1, <3>2, <3>4
    <3> QED
      BY <1>1, <3>3, <3>4
  <2> HIDE DEF First
  <2>8. (CHOOSE k \in DOMAIN applied : First(k)) = j
    BY <1>1, <2>5, <2>7
  <2>9. NextBackup(p, f) = backup[applied[j]][f]
    BY <2>8 DEF NextBackup, First
  <2> QED
    BY <1>5, <2>6, <2>9
<1> QED
  BY <1>4, <1>5

(***************************************************************************)
(* For every project and every history: a push of what refresh records     *)
(* gives what the next patch up has found, for each file it writes about.  *)
(***************************************************************************)
THEOREM RefreshIsRecorded == Spec => RefreshRecordsPatch
<1>1. ASSUME IInv, [Next]_vars
      PROVE  [\A p \in Patches, force \in BOOLEAN :
                Refresh(p, force) /\ IsIn(applied, p) /\ p \notin reversed =>
                  LET i == Position(applied, p) IN
                  \A f \in Files : Listed(p, f) =>
                    Text(PatchedTree(patchFile'[p], [g \in Files |-> Underneath(i, g)],
                                     FALSE, FALSE, TRUE)[f])
                      = Text(Underneath(i + 1, f))]_vars
  <2> SUFFICES ASSUME NEW p \in Patches, NEW force \in BOOLEAN, NEW f \in Files \ Hidden,
                      Refresh(p, force), IsIn(applied, p), Listed(p, f)
               PROVE  Text(PatchedTree(patchFile'[p],
                                       [g \in Files |-> Underneath(Position(applied, p), g)],
                                       FALSE, FALSE, TRUE)[f])
                        = Text(Underneath(Position(applied, p) + 1, f))
    BY DEF Listed
  <2> DEFINE i == Position(applied, p)
             x == Restored(backup[p][f])
             y == IF f \in Shadowed(p) THEN Restored(NextBackup(p, f)) ELSE tree[f]
  <2>1. i \in 1 .. Len(applied) /\ applied[i] = p
    <3>1. applied \in Seq(Patches) /\ Distinct(applied)
      BY <1>1, AppliedFacts DEF Stack, Distinct
    <3> QED
      BY <3>1, PositionFound
  <2> HIDE DEF i
  <2>2. i \in Nat \ {0} /\ i \in Nat /\ Len(applied) \in Nat
    BY <1>1, <2>1, AppliedFacts
  <2>3. Underneath(i, f) = x
    <3>1. Underneath(i, f) = Lowest(Copies(f), Len(applied), tree[f], i)
      BY <1>1, <2>2, UnderneathIsLowest DEF IInv
    <3>2. Copies(f)[i] = backup[p][f] /\ Copies(f)[i] # Absent
      BY <1>1, <2>1, AppliedFacts DEF Listed, Tracks
    <3>3. i \in i .. Len(applied) /\ \A k \in i .. i-1 : Copies(f)[k] = Absent
      BY <2>1, <2>2
    <3>4. Lowest(Copies(f), Len(applied), tree[f], i) = Restored(Copies(f)[i])
      BY <2>2, <3>2, <3>3, LowestIsFirst
    <3> QED
      BY <3>1, <3>2, <3>4
  <2>4. Underneath(i+1, f) = y
    BY <1>1, <2>1, FarSideIsUnderneath
  <2>5. x \in FileState /\ y \in FileState
    BY <1>1, ContentTypes, NextBackupType DEF IInv, TypeOK, Listed, Tracks
  <2>6. patchFile'[p][f] = Diff(x, y)
    <3>1. patchFile'[p] = Regenerated(p)
      BY <1>1 DEF Refresh, IInv, TypeOK
    <3> QED
      BY <3>1 DEF Regenerated
  <2> HIDE DEF x, y
  <2>7. PatchedTree(patchFile'[p], [g \in Files |-> Underneath(i, g)], FALSE, FALSE, TRUE)[f]
          = IF Diff(x, y) = Absent THEN x ELSE Patched(Diff(x, y), x, FALSE, TRUE)
    BY <2>3, <2>6 DEF PatchedTree, Oriented
  <2>8. Text(IF Diff(x, y) = Absent THEN x ELSE Patched(Diff(x, y), x, FALSE, TRUE)) = Text(y)
    BY <2>5, DiffIsExact
  <2> QED
    BY <2>4, <2>7, <2>8 DEF i
<1> QED
  BY <1>1, Invariant, PTL DEF Spec, RefreshRecordsPatch

-----------------------------------------------------------------------------
(* Markers.                                                                 *)

\* What MarkerKeptUntilRefresh says of the i-th patch.
KeepsMarker(i) ==
  applied[i] \in needsRefresh /\ applied'[i] \notin needsRefresh' =>
    patchFile'[applied[i]] = Regenerated(applied[i])

\* Taking down the top removes no other marker.
LEMMA TakenDownKeepsMarkers ==
  ASSUME IInv, applied # <<>>, TakenDown, NEW i \in DOMAIN applied \cap DOMAIN applied'
  PROVE  KeepsMarker(i)
<1>1. /\ Len(applied) \in Nat \ {0}
      /\ DOMAIN applied' = 1 .. Len(applied) - 1
      /\ \A j \in 1 .. Len(applied) - 1 : applied'[j] = applied[j]
  BY AppliedFacts, FrontProperties, LenProperties DEF TakenDown, Stack
<1>2. Top = applied[Len(applied)]
  BY DEF Top, Last
<1>3. i \in 1 .. Len(applied) - 1 /\ applied[i] # Top
  BY <1>1, <1>2, AppliedFacts
<1> QED
  BY <1>1, <1>3 DEF TakenDown, KeepsMarker

\* A patch that gets another name takes its marker with it.
LEMMA RenamedKeepsMarkers ==
  ASSUME IInv, NEW old, NEW new, applied' = Renamed(applied, old, new),
         needsRefresh' = MovedMember(needsRefresh, old, new),
         NEW i \in DOMAIN applied
  PROVE  KeepsMarker(i)
<1>1. applied'[i] = IF applied[i] = old THEN new ELSE applied[i]
  BY DEF Renamed
<1> QED
  BY <1>1 DEF MovedMember, KeepsMarker

\* No command and no user removes a marker but as the property says.
LEMMA StepKeepsMarkers ==
  ASSUME IInv, Next, NEW i \in DOMAIN applied \cap DOMAIN applied'
  PROVE  KeepsMarker(i)
<1>1. /\ i \in 1 .. Len(applied) /\ Len(applied) \in Nat
      /\ DOMAIN applied = 1 .. Len(applied)
  BY AppliedFacts
<1>2. ASSUME NEW p, applied' = Append(applied, p), p \in Patches
      PROVE  applied'[i] = applied[i]
  BY <1>1, <1>2, AppliedFacts, AppendProperties DEF Stack
<1>3. CanPush => NextPatch \in Patches /\ applied[i] # NextPatch
  BY <1>1, NextPatchFacts
<1>4. \A p \in Patches : ~IsIn(series, p) => applied[i] # p
  BY <1>1, AppliedFacts
<1>5. CASE UNCHANGED <<applied, needsRefresh>>
  BY <1>5 DEF KeepsMarker
<1>6. CASE FileCommand \/ EditCommand \/ UserStep
  BY <1>5, <1>6 DEF FileCommand, AddFile, RemoveFile, RevertFile, EditCommand, Edit,
                    UserStep, UserEdit
<1>7. CASE RefreshCommand
  <2>1. ASSUME NEW p \in Patches, NEW force \in BOOLEAN, Refresh(p, force)
        PROVE  KeepsMarker(i)
    BY <2>1 DEF Refresh, KeepsMarker, IInv, TypeOK
  <2>2. ASSUME NEW new \in Patches, RefreshFork(new)
        PROVE  KeepsMarker(i)
    BY <1>2, <1>4, <2>2 DEF RefreshFork, KeepsMarker
  <2> QED
    BY <1>7, <2>1, <2>2 DEF RefreshCommand
<1>8. CASE StackCommand
  <2>1. ASSUME NEW force \in BOOLEAN, Push(force)
        PROVE  KeepsMarker(i)
    BY <1>2, <1>3, <2>1 DEF Push, Recorded, KeepsMarker
  <2>2. CASE PushForced
    BY <1>2, <1>3, <2>2 DEF PushForced, Recorded, KeepsMarker
  <2>3. CASE PushFails
    BY <1>3, <2>3 DEF PushFails, KeepsMarker
  <2>4. ASSUME NEW force \in BOOLEAN, NEW auto \in BOOLEAN, Pop(force, auto)
        PROVE  KeepsMarker(i)
    BY <2>4, TakenDownKeepsMarkers DEF Pop
  <2> QED
    BY <1>8, <2>1, <2>2, <2>3, <2>4 DEF StackCommand
<1>9. CASE SeriesCommand
  <2>1. ASSUME NEW p \in Patches, New(p)
        PROVE  KeepsMarker(i)
    BY <1>2, <2>1 DEF New, KeepsMarker
  <2>2. ASSUME NEW new \in Patches, Fork(new)
        PROVE  KeepsMarker(i)
    BY <2>2, RenamedKeepsMarkers DEF Fork
  <2>3. ASSUME NEW p \in Patches, NEW rm \in BOOLEAN, Delete(p, rm)
        PROVE  KeepsMarker(i)
    <3>1. applied # <<>>
      BY <1>1, EmptySeq
    <3> QED
      BY <1>5, <2>3, <3>1, TakenDownKeepsMarkers DEF Delete
  <2>4. ASSUME NEW old \in Patches, NEW new \in Patches, Rename(old, new)
        PROVE  KeepsMarker(i)
    BY <1>5, <2>4, RenamedKeepsMarkers DEF Rename
  <2>5. ASSUME NEW p \in Patches, NEW P \in ImportFrom,
               NEW force \in BOOLEAN, NEW rev \in BOOLEAN, Import(p, P, force, rev)
        PROVE  KeepsMarker(i)
    BY <1>5, <2>5 DEF Import
  <2>6. ASSUME NEW P \in FoldFrom, NEW rev \in BOOLEAN, NEW force \in BOOLEAN,
               Fold(P, rev, force)
        PROVE  KeepsMarker(i)
    BY <1>5, <2>6 DEF Fold
  <2> QED
    BY <1>9, <2>1, <2>2, <2>3, <2>4, <2>5, <2>6 DEF SeriesCommand
<1> QED
  BY <1>6, <1>7, <1>8, <1>9 DEF Next, Command

(***************************************************************************)
(* For every project and every history: a patch pushed with rejects is     *)
(* never passed off as clean.                                              *)
(***************************************************************************)
THEOREM MarkerIsKept == Spec => MarkerKeptUntilRefresh
<1>1. ASSUME IInv, [Next]_vars
      PROVE  [\A i \in DOMAIN applied \cap DOMAIN applied' :
                applied[i] \in needsRefresh /\ applied'[i] \notin needsRefresh' =>
                  patchFile'[applied[i]] = Regenerated(applied[i])]_vars
  BY <1>1, StepKeepsMarkers DEF KeepsMarker
<1> QED
  BY <1>1, Invariant, PTL DEF Spec, MarkerKeptUntilRefresh
=============================================================================
