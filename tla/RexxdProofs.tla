---------------------------- MODULE RexxdProofs ----------------------------
(***************************************************************************)
(* Proofs about Rexxd, for any input, any command lines, any size of the   *)
(* buffers, any reads that return less than was asked for, and any number  *)
(* of calls that fail.                                                     *)
(***************************************************************************)
EXTENDS RexxdInvariants, SequenceTheorems, TLAPS

-----------------------------------------------------------------------------
(* Sequences.                                                               *)

(* What is taken out of a sequence is as long as was asked for, and is     *)
(* what was there.                                                         *)
LEMMA Taken ==
  ASSUME NEW S, NEW s \in Seq(S), NEW at \in Nat, NEW n \in Nat, n = 0 \/ at + n <= Len(s)
  PROVE  /\ SubSeq(s, at + 1, at + n) \in Seq(S) /\ Len(SubSeq(s, at + 1, at + n)) = n
         /\ \A k \in 1 .. n : SubSeq(s, at + 1, at + n)[k] = s[at + k]
<1> DEFINE a == at + 1
           b == at + n
<1>1. a \in Int /\ b \in Int /\ Len(s) \in Nat
  BY LenProperties
<1>2. \A i \in a .. b : i \in 1 .. Len(s)
  BY <1>1
<1>3. \A i \in a .. b : s[i] \in S
  BY <1>2, ElementOfSeq
<1>4. Len(SubSeq(s, a, b)) = (IF a <= b THEN b - a + 1 ELSE 0) /\ SubSeq(s, a, b) \in Seq(S)
  <2> HIDE DEF a, b
  <2> QED
    BY <1>1, <1>3, SubSeqProperties
<1>5. \A i \in 1 .. b - a + 1 : SubSeq(s, a, b)[i] = s[a + i - 1]
  <2> HIDE DEF a, b
  <2> QED
    BY <1>1, <1>3, SubSeqProperties
<1>6. ASSUME NEW k \in 1 .. n
      PROVE  k \in 1 .. b - a + 1 /\ a + k - 1 = at + k
  BY <1>1
<1>7. SubSeq(s, a, b) = SubSeq(s, at + 1, at + n) /\ (IF a <= b THEN b - a + 1 ELSE 0) = n
  BY <1>1
<1> HIDE DEF a, b
<1> QED
  BY <1>4, <1>5, <1>6, <1>7

(* Writing over a file, without a gap or with zeros in it.                 *)
LEMMA Overlaid ==
  ASSUME NEW S, NEW file \in Seq(S), NEW items \in Seq(S), NEW at \in Nat,
         at = Len(file) \/ 0 \in S
  PROVE  LET n == IF Len(file) > at + Len(items) THEN Len(file) ELSE at + Len(items) IN
         /\ Overlay(file, at, items) \in Seq(S) /\ Len(Overlay(file, at, items)) = n
         /\ at = Len(file) => n = at + Len(items)
         /\ \A i \in 1 .. n :
              Overlay(file, at, items)[i] =
                IF i > at /\ i <= at + Len(items) THEN items[i - at]
                ELSE IF i <= Len(file) THEN file[i] ELSE 0
<1> DEFINE n == IF Len(file) > at + Len(items) THEN Len(file) ELSE at + Len(items)
           F == Overlay(file, at, items)
<1>1. Len(file) \in Nat /\ Len(items) \in Nat /\ n \in Nat
  BY LenProperties
<1>2. F = [i \in 1 .. n |-> IF i > at /\ i <= at + Len(items) THEN items[i - at]
                            ELSE IF i <= Len(file) THEN file[i] ELSE 0]
  BY DEF Overlay
<1>3. ASSUME NEW i \in 1 .. n
      PROVE  F[i] \in S
  <2>1. CASE i > at /\ i <= at + Len(items)
    <3>1. i - at \in 1 .. Len(items)
      BY <1>1, <2>1
    <3>2. items[i - at] \in S
      BY <3>1, ElementOfSeq
    <3> QED
      BY <1>2, <2>1, <3>2
  <2>2. CASE ~(i > at /\ i <= at + Len(items)) /\ i <= Len(file)
    <3>1. i \in 1 .. Len(file)
      BY <1>1, <2>2
    <3>2. file[i] \in S
      BY <3>1, ElementOfSeq
    <3> QED
      BY <1>2, <2>2, <3>2
  <2>3. CASE ~(i > at /\ i <= at + Len(items)) /\ ~(i <= Len(file))
    <3>1. at # Len(file)
      BY <1>1, <2>3
    <3> QED
      BY <1>2, <2>3, <3>1
  <2> QED
    BY <2>1, <2>2, <2>3
<1>4. F \in [1 .. n -> S]
  <2>1. F = [i \in 1 .. n |-> F[i]]
    BY <1>2
  <2> HIDE DEF F, n
  <2> QED
    BY <1>3, <2>1
<1>5. F \in Seq(S) /\ Len(F) = n
  <2> HIDE DEF F, n
  <2>1. F \in Seq(S)
    BY <1>1, <1>4, SeqDef
  <2>2. DOMAIN F = 1 .. Len(F) /\ DOMAIN F = 1 .. n /\ Len(F) \in Nat
    BY <1>4, <2>1, LenProperties
  <2>3. n \in 1 .. n \/ n = 0
    BY <1>1
  <2>4. Len(F) \in 1 .. Len(F) \/ Len(F) = 0
    BY <2>2
  <2>5. Len(F) <= n /\ n <= Len(F)
    BY <1>1, <2>2, <2>3, <2>4
  <2>6. \A x, y \in Nat : x <= y /\ y <= x => x = y
    OBVIOUS
  <2> QED
    BY <1>1, <2>1, <2>2, <2>5, <2>6, Zenon
<1>6. \A i \in 1 .. n : F[i] = IF i > at /\ i <= at + Len(items) THEN items[i - at]
                               ELSE IF i <= Len(file) THEN file[i] ELSE 0
  BY <1>2
<1>7. at = Len(file) => n = at + Len(items)
  BY <1>1
<1> QED
  BY <1>5, <1>6, <1>7

(* A write at the end of a file appends.                                   *)
LEMMA OverlayAtEnd ==
  ASSUME NEW S, NEW file \in Seq(S), NEW items \in Seq(S)
  PROVE  Overlay(file, Len(file), items) = file \o items
<1> DEFINE F == Overlay(file, Len(file), items)
           G == file \o items
<1>1. Len(file) \in Nat /\ Len(items) \in Nat
  BY LenProperties
<1>2. /\ F \in Seq(S) /\ Len(F) = Len(file) + Len(items)
      /\ \A i \in 1 .. Len(file) + Len(items) :
           F[i] = IF i > Len(file) THEN items[i - Len(file)] ELSE file[i]
  <2>1. LET n == IF Len(file) > Len(file) + Len(items) THEN Len(file) ELSE Len(file) + Len(items) IN
         /\ F \in Seq(S)
         /\ Len(F) = n
         /\ \A i \in 1 .. n :
              F[i] = IF i > Len(file) /\ i <= Len(file) + Len(items) THEN items[i - Len(file)]
                     ELSE IF i <= Len(file) THEN file[i] ELSE 0
    BY <1>1, Overlaid
  <2> HIDE DEF F
  <2> QED
    BY <1>1, <2>1
<1>3. /\ G \in Seq(S) /\ Len(G) = Len(file) + Len(items)
      /\ \A i \in 1 .. Len(file) + Len(items) :
           G[i] = IF i <= Len(file) THEN file[i] ELSE items[i - Len(file)]
  BY ConcatProperties
<1> HIDE DEF F, G
<1>4. \A i \in 1 .. Len(F) : F[i] = G[i]
  BY <1>1, <1>2, <1>3
<1>5. F = G
  BY <1>2, <1>3, <1>4, SeqEqual
<1> QED
  BY <1>5 DEF F, G

(* A line of zeros.                                                        *)
LEMMA ZerosType ==
  ASSUME NEW n \in Nat
  PROVE  Zeros(n) \in Seq(Byte)
<1>1. Zeros(n) \in [1 .. n -> Byte]
  BY DEF Zeros, Byte
<1> QED
  BY <1>1, SeqDef

(* Offsets that are not too large are shown as they are.                   *)
LEMMA WrapFacts ==
  ASSUME NEW x \in Int
  PROVE  /\ Wrap(x) \in Nat
         /\ x >= 0 /\ x < 2 * (MaxOff + 1) => Wrap(x) = x
<1> DEFINE m == 2 * (MaxOff + 1)
<1>1. m \in Nat \ {0}
  BY SizesArePositive
<1>2. x % m \in 0 .. m - 1 /\ (x \in 0 .. m - 1 => x % m = x)
  <2> HIDE DEF m
  <2>1. x % m \in 0 .. m - 1
    BY <1>1
  <2>2. x \in 0 .. m - 1 => x % m = x
    BY <1>1
  <2> QED
    BY <2>1, <2>2
<1>3. Wrap(x) = x % m
  BY DEF Wrap
<1> HIDE DEF m
<1>4. Wrap(x) \in Nat /\ (x >= 0 /\ x < m => Wrap(x) = x)
  BY <1>1, <1>2, <1>3
<1> QED
  BY <1>4 DEF m

-----------------------------------------------------------------------------
(* The output buffer.                                                       *)

(* A flush empties the buffer and moves the position behind what it wrote. *)
LEMMA FlushedFacts ==
  ASSUME NEW S, NEW o \in OutputOf(S), o.at = Len(o.file) \/ 0 \in S
  PROVE  /\ Flushed(o) \in OutputOf(S)
         /\ Flushed(o).buf = <<>> /\ Flushed(o).at = o.at + Len(o.buf)
         /\ Flushed(o).fpos = o.fpos /\ Flushed(o).err = o.err
         /\ Flushed(o).file = Overlay(o.file, o.at, o.buf)
         /\ Flushed(o).seekable = o.seekable /\ Flushed(o).noseek = o.noseek
         /\ o.at = Len(o.file) => Flushed(o).at = Len(Flushed(o).file)
<1>1. /\ o.file \in Seq(S) /\ o.buf \in Seq(S) /\ o.at \in Nat
      /\ Len(o.buf) \in Nat
  BY LenProperties DEF OutputOf
<1>2. /\ Overlay(o.file, o.at, o.buf) \in Seq(S)
      /\ o.at = Len(o.file) => Len(Overlay(o.file, o.at, o.buf)) = o.at + Len(o.buf)
  BY <1>1, Overlaid
<1>3. <<>> \in Seq(S)
  BY EmptySeq
<1> DEFINE F  == Overlay(o.file, o.at, o.buf)
           to == o.at + Len(o.buf)
           a  == [o EXCEPT !.file = F]
           b  == [a EXCEPT !.at = to]
           c  == [b EXCEPT !.buf = <<>>]
<1>4. Flushed(o) = c
  <2>1. a.at = o.at
    BY DEF OutputOf
  <2> QED
    BY <2>1 DEF Flushed
<1>5. to \in Nat
  BY <1>1
<1> HIDE DEF F, to
<1>6. /\ a \in OutputOf(S) /\ a.file = F /\ a.at = o.at
      /\ a.fpos = o.fpos /\ a.err = o.err
      /\ a.seekable = o.seekable /\ a.noseek = o.noseek
  BY <1>2 DEF F, OutputOf
<1> HIDE DEF a
<1>7. /\ b \in OutputOf(S) /\ b.file = F /\ b.at = to
      /\ b.fpos = o.fpos /\ b.err = o.err
      /\ b.seekable = o.seekable /\ b.noseek = o.noseek
  BY <1>5, <1>6 DEF OutputOf
<1> HIDE DEF b
<1>8. /\ c \in OutputOf(S) /\ c.file = F /\ c.at = to
      /\ c.fpos = o.fpos /\ c.err = o.err
      /\ c.seekable = o.seekable /\ c.noseek = o.noseek /\ c.buf = <<>>
  BY <1>3, <1>7 DEF OutputOf
<1> HIDE DEF c
<1> QED
  BY <1>2, <1>4, <1>8 DEF F, to

(* So does draining, which is a flush where there is something to write.   *)
LEMMA DrainedFacts ==
  ASSUME NEW S, NEW o \in OutputOf(S), o.at = Len(o.file) \/ 0 \in S
  PROVE  /\ Drained(o) \in OutputOf(S)
         /\ Drained(o).fpos = o.fpos /\ Drained(o).err = o.err
         /\ Drained(o).seekable = o.seekable /\ Drained(o).noseek = o.noseek
         /\ ~o.err => /\ Drained(o).buf = <<>> /\ Drained(o).at = o.at + Len(o.buf)
                      /\ Drained(o).file = IF o.buf = <<>> THEN o.file
                                           ELSE Overlay(o.file, o.at, o.buf)
         /\ Len(Drained(o).buf) = 0 \/ Drained(o) = o
         /\ o.at = Len(o.file) => Drained(o).at = Len(Drained(o).file)
<1>1. /\ Flushed(o) \in OutputOf(S)
      /\ Flushed(o).buf = <<>> /\ Flushed(o).at = o.at + Len(o.buf)
      /\ Flushed(o).fpos = o.fpos /\ Flushed(o).err = o.err
      /\ Flushed(o).file = Overlay(o.file, o.at, o.buf)
      /\ Flushed(o).seekable = o.seekable /\ Flushed(o).noseek = o.noseek
      /\ o.at = Len(o.file) => Flushed(o).at = Len(Flushed(o).file)
  BY FlushedFacts
<1>2. Len(<<>>) = 0 /\ o.at \in Nat
  BY EmptySeq DEF OutputOf
<1> QED
  BY <1>1, <1>2 DEF Drained

(* A flush that fails drops what was in the buffer.                        *)
LEMMA FlushFailedFacts ==
  ASSUME NEW S, NEW o \in OutputOf(S)
  PROVE  /\ FlushFailed(o) \in OutputOf(S)
         /\ FlushFailed(o).buf = <<>> /\ FlushFailed(o).err = TRUE
         /\ FlushFailed(o).at = o.at /\ FlushFailed(o).file = o.file
<1>1. <<>> \in Seq(S)
  BY EmptySeq
<1> DEFINE a == [o EXCEPT !.err = TRUE]
           b == [a EXCEPT !.buf = <<>>]
<1>2. FlushFailed(o) = b
  BY DEF FlushFailed
<1>3. a \in OutputOf(S) /\ a.err = TRUE /\ a.at = o.at /\ a.file = o.file
  BY DEF OutputOf
<1> HIDE DEF a
<1>4. b \in OutputOf(S) /\ b.err = TRUE /\ b.at = o.at /\ b.file = o.file /\ b.buf = <<>>
  BY <1>1, <1>3 DEF OutputOf
<1> HIDE DEF b
<1> QED
  BY <1>2, <1>4

-----------------------------------------------------------------------------
(* The steps.                                                               *)

(* What the buffers may hold changes only with the process.                *)
LEMMA SameItems ==
  ASSUME UNCHANGED <<job, turn>>
  PROVE  DumpItem' = DumpItem /\ InItem' = InItem /\ OutItem' = OutItem
<1>1. DumpItem' = DumpItem
  BY DEF DumpItem
<1> QED
  BY <1>1 DEF InItem, OutItem

(* The parts of the state, and the numbers of the command line.            *)
LEMMA Parts ==
  ASSUME IInv
  PROVE  /\ in \in InputOf(InItem) /\ out \in OutputOf(OutItem)
         /\ in.source \in Seq(InItem) /\ in.at \in Nat /\ in.limit \in Nat
         /\ in.buf \in Seq(InItem) /\ in.eof \in BOOLEAN /\ in.err \in BOOLEAN
         /\ Len(in.source) \in Nat /\ Len(in.buf) \in Nat /\ Len(line) \in Nat
         /\ out.buf \in Seq(OutItem) /\ Len(out.buf) \in Nat
         /\ out.at \in Nat /\ out.fpos \in Nat /\ out.file \in Seq(OutItem)
         /\ job.ncols \in Nat \ {0} /\ job.seek \in Int
         /\ Want \in Nat \ {0}
<1>1. in \in InputOf(InItem) /\ out \in OutputOf(OutItem) /\ line \in Seq(InItem) /\ job \in Jobs
  BY DEF IInv, Types
<1>2. /\ in.source \in Seq(InItem) /\ in.at \in Nat /\ in.limit \in Nat
      /\ in.buf \in Seq(InItem) /\ in.eof \in BOOLEAN /\ in.err \in BOOLEAN
  BY <1>1 DEF InputOf
<1>3. /\ out.buf \in Seq(OutItem) /\ out.at \in Nat /\ out.fpos \in Nat
      /\ out.file \in Seq(OutItem)
  BY <1>1 DEF OutputOf
<1>4. job.ncols \in Nat \ {0} /\ job.seek \in Int
  BY <1>1, JobsAreLegal
<1> QED
  BY <1>1, <1>2, <1>3, <1>4, LenProperties DEF Want

(* The input is positioned, or the seek fails.                             *)
LEMMA SeekKeeps ==
  ASSUME IInv, Seek
  PROVE  IInv'
<1> DEFINE to == SeekBase + job.seek
<1>1. DumpItem' = DumpItem /\ InItem' = InItem /\ OutItem' = OutItem
  BY SameItems DEF Seek
<1>2. to \in Int
  BY Parts DEF SeekBase
<1> HIDE DEF to
<1>3. /\ in' = in \/ (to >= 0 /\ in' = [in EXCEPT !.at = to])
      /\ dump' = dump \/ dump' = [dump EXCEPT !.offset = Wrap(@ + to)]
      /\ left' = left \/ (left' = job.seek /\ job.seek > 0)
      /\ stage' \in {"run", "skip", "end"} /\ stage = "seek"
      /\ UNCHANGED <<job, turn, out, line, todo, text>>
  BY DEF Seek, to
<1>4. in' \in InputOf(InItem) /\ in'.buf = in.buf /\ in'.limit = in.limit
  <2>1. in' = in \/ (to \in Nat /\ in' = [in EXCEPT !.at = to])
    BY <1>2, <1>3
  <2>2. in \in InputOf(InItem)
    BY Parts
  <2> QED
    BY <2>1, <2>2 DEF InputOf
<1>5. dump' \in [offset : Int, skipping : 0 .. 2, prevzero : BOOLEAN]
      /\ dump'.skipping = dump.skipping
  <2> DEFINE w == Wrap(dump.offset + to)
  <2>1. dump \in [offset : Int, skipping : 0 .. 2, prevzero : BOOLEAN]
    BY DEF IInv, Types
  <2>2. dump.offset \in Int /\ dump.offset + to \in Int
    BY <1>2, <2>1
  <2>3. w \in Int
    BY <2>2, WrapFacts
  <2>4. dump' = dump \/ dump' = [dump EXCEPT !.offset = w]
    BY <1>3
  <2> HIDE DEF w
  <2> QED
    BY <2>1, <2>3, <2>4
<1>6. left' \in Nat
  BY <1>3, Parts DEF IInv, Types
<1>7. Types'
  BY <1>1, <1>3, <1>4, <1>5, <1>6 DEF IInv, Types, InputOf, OutputOf
<1>8. Stages'
  BY <1>3, <1>5 DEF IInv, Stages
<1>9. BuffersInBounds'
  BY <1>3, <1>4 DEF IInv, BuffersInBounds
<1> QED
  BY <1>7, <1>8, <1>9 DEF IInv

(* Skipping by reading, its failures and its end.                          *)
LEMMA SkippingKeeps ==
  ASSUME IInv, SkipRead \/ SkipFails \/ Skipped
  PROVE  IInv'
<1>1. DumpItem' = DumpItem /\ InItem' = InItem /\ OutItem' = OutItem
  BY SameItems DEF SkipRead, SkipFails, Skipped
<1>2. left \in Nat /\ BufSize \in Nat /\ in.at \in Nat /\ Len(in.source) \in Nat
  BY Parts, SizesArePositive DEF IInv, Types
<1>3. /\ in' = in \/ (\E n \in Nat : in' = [in EXCEPT !.at = @ + n])
      /\ left' \in Nat
  BY <1>2 DEF SkipRead, SkipFails, Skipped, Least
<1>4. /\ stage' \in {"run", "skip", "end"} /\ stage = "skip"
      /\ UNCHANGED <<job, turn, out, line, todo, text>>
  BY DEF SkipRead, SkipFails, Skipped
<1>5. in' \in InputOf(InItem) /\ in'.buf = in.buf /\ in'.limit = in.limit
  <2>1. in \in InputOf(InItem)
    BY Parts
  <2>2. ASSUME NEW n \in Nat, in' = [in EXCEPT !.at = @ + n]
        PROVE  in' \in InputOf(InItem) /\ in'.buf = in.buf /\ in'.limit = in.limit
    <3> DEFINE at == in.at + n
    <3>1. at \in Nat
      BY <2>1 DEF InputOf
    <3>2. in' = [in EXCEPT !.at = at]
      BY <2>2
    <3> HIDE DEF at
    <3> QED
      BY <2>1, <3>1, <3>2 DEF InputOf
  <2> QED
    BY <1>3, <2>1, <2>2
<1>6. dump' \in [offset : Int, skipping : 0 .. 2, prevzero : BOOLEAN]
      /\ dump'.skipping = dump.skipping
  <2> DEFINE w == Wrap(dump.offset + job.seek)
  <2>1. dump \in [offset : Int, skipping : 0 .. 2, prevzero : BOOLEAN]
    BY DEF IInv, Types
  <2>2. dump.offset \in Int /\ dump.offset + job.seek \in Int
    BY <2>1, Parts
  <2>3. w \in Int
    BY <2>2, WrapFacts
  <2>4. dump' = dump \/ dump' = [dump EXCEPT !.offset = w]
    BY DEF SkipRead, SkipFails, Skipped
  <2> HIDE DEF w
  <2> QED
    BY <2>1, <2>3, <2>4
<1>7. Types'
  BY <1>1, <1>3, <1>4, <1>5, <1>6 DEF IInv, Types, InputOf, OutputOf
<1>8. Stages'
  BY <1>4, <1>6 DEF IInv, Stages
<1>9. BuffersInBounds'
  BY <1>4, <1>5 DEF IInv, BuffersInBounds
<1> QED
  BY <1>7, <1>8, <1>9 DEF IInv

(* A read fills the buffer with no more than it holds, than the limit and  *)
(* than the input has, and the limit is counted down.                      *)
LEMMA RefillKeeps ==
  ASSUME IInv, Refill
  PROVE  IInv'
<1> DEFINE want == Least(in.limit, BufSize)
           most == Least(want, IF in.at < Len(in.source) THEN Len(in.source) - in.at ELSE 0)
<1>1. DumpItem' = DumpItem /\ InItem' = InItem /\ OutItem' = OutItem
  BY SameItems DEF Refill
<1>2. PICK n \in (IF most = 0 THEN {0} ELSE 1 .. most) : in' = Filled(n)
  BY DEF Refill
<1>3. /\ n \in Nat /\ n <= in.limit /\ n <= BufSize
      /\ n = 0 \/ in.at + n <= Len(in.source)
  <2> DEFINE rem == IF in.at < Len(in.source) THEN Len(in.source) - in.at ELSE 0
  <2>1. /\ in.limit \in Nat /\ BufSize \in Nat
        /\ rem \in Nat /\ (rem = 0 \/ in.at + rem = Len(in.source))
    BY Parts, SizesArePositive
  <2> HIDE DEF rem
  <2>2. want \in Nat /\ want <= in.limit /\ want <= BufSize
    BY <2>1 DEF Least
  <2> HIDE DEF want
  <2>3. most \in Nat /\ most <= want /\ most <= rem
    <3>1. most = Least(want, rem)
      BY DEF rem
    <3> HIDE DEF most
    <3> QED
      BY <2>1, <2>2, <3>1 DEF Least
  <2> HIDE DEF most
  <2>4. n \in Nat /\ n <= most
    BY <1>2, <2>3
  <2>5. in.at \in Nat /\ Len(in.source) \in Nat
    BY Parts
  <2> QED
    BY <2>1, <2>2, <2>3, <2>4, <2>5
<1> HIDE DEF want, most
<1> DEFINE read == SubSeq(in.source, in.at + 1, in.at + n)
           at   == in.at + n
           rest == in.limit - n
<1>4. read \in Seq(InItem) /\ Len(read) = n /\ at \in Nat /\ rest \in Nat
  <2>1. read \in Seq(InItem) /\ Len(read) = n
    <3>1. in.source \in Seq(InItem) /\ in.at \in Nat
      BY Parts
    <3> QED
      BY <1>3, <3>1, Taken
  <2> HIDE DEF read
  <2> QED
    BY <1>3, <2>1, Parts
<1>5. in' = [in EXCEPT !.buf = read, !.at = at, !.limit = rest, !.eof = (n = 0)]
  <2>1. in \in InputOf(InItem)
    BY Parts
  <2> HIDE DEF read
  <2> QED
    BY <1>2, <2>1 DEF Filled, InputOf, read
<1> HIDE DEF read, at, rest
<1>6. in' \in InputOf(InItem) /\ in'.buf = read /\ in'.limit = rest
  <2>1. in \in InputOf(InItem)
    BY Parts
  <2> QED
    BY <1>4, <1>5, <2>1 DEF InputOf
<1>7. Types'
  BY <1>1, <1>6 DEF IInv, Types, InputOf, OutputOf, Refill
<1>8. Stages'
  BY DEF IInv, Stages, Refill
<1>9. BuffersInBounds'
  BY <1>3, <1>4, <1>6, SizesArePositive DEF IInv, BuffersInBounds, Refill
<1> QED
  BY <1>7, <1>8, <1>9 DEF IInv

(* A read that fails leaves the buffer alone.                              *)
LEMMA ReadFailsKeeps ==
  ASSUME IInv, ReadFails
  PROVE  IInv'
<1>1. DumpItem' = DumpItem /\ InItem' = InItem /\ OutItem' = OutItem
  BY SameItems DEF ReadFails
<1>2. in' \in InputOf(InItem) /\ in'.buf = in.buf /\ in'.limit = in.limit
  <2>1. in \in InputOf(InItem) /\ in' = [in EXCEPT !.err = TRUE, !.eof = TRUE]
    BY Parts DEF ReadFails
  <2> QED
    BY <2>1 DEF InputOf
<1>3. Types'
  BY <1>1, <1>2 DEF IInv, Types, InputOf, OutputOf, ReadFails
<1>4. Stages'
  BY DEF IInv, Stages, ReadFails
<1>5. BuffersInBounds'
  BY <1>2 DEF IInv, BuffersInBounds, ReadFails
<1> QED
  BY <1>3, <1>4, <1>5 DEF IInv

(* What a line takes from the buffer, the buffer loses.                    *)
LEMMA GatherKeeps ==
  ASSUME IInv, Gather
  PROVE  IInv'
<1> DEFINE n == Least(Want - Len(line), Len(in.buf))
           head == SubSeq(in.buf, 1, n)
           rest == SubSeq(in.buf, n + 1, Len(in.buf))
<1>1. DumpItem' = DumpItem /\ InItem' = InItem /\ OutItem' = OutItem
  BY SameItems DEF Gather
<1>2. n \in Nat /\ n <= Len(in.buf) /\ Want - Len(line) \in Nat
  <2>1. Want \in Nat /\ Len(line) \in Nat /\ Len(in.buf) \in Nat
    BY Parts
  <2>2. Len(line) < Want
    BY DEF Gather
  <2> QED
    BY <2>1, <2>2 DEF Least
<1>3. line' = line \o head /\ in' = [in EXCEPT !.buf = rest]
  BY DEF Gather
<1> HIDE DEF n
<1>4. head \in Seq(InItem)
  <2>1. SubSeq(in.buf, 0 + 1, 0 + n) \in Seq(InItem)
    BY <1>2, Parts, Taken
  <2> QED
    BY <1>2, <2>1
<1>5. rest \in Seq(InItem) /\ Len(rest) <= Len(in.buf)
  <2> DEFINE m == Len(in.buf) - n
  <2>1. m \in Nat /\ n + m = Len(in.buf) /\ n + m <= Len(in.buf)
    BY <1>2, Parts
  <2> HIDE DEF m
  <2>2. SubSeq(in.buf, n + 1, n + m) \in Seq(InItem) /\ Len(SubSeq(in.buf, n + 1, n + m)) = m
    BY <1>2, <2>1, Parts, Taken
  <2> QED
    BY <1>2, <2>1, <2>2, Parts
<1> HIDE DEF head, rest
<1>6. line' \in Seq(InItem)
  BY <1>3, <1>4, ConcatProperties DEF IInv, Types
<1>7. in' \in InputOf(InItem) /\ in'.buf = rest /\ in'.limit = in.limit
  <2>1. in \in InputOf(InItem)
    BY Parts
  <2> QED
    BY <1>3, <1>5, <2>1 DEF InputOf
<1>8. Types'
  BY <1>1, <1>6, <1>7 DEF IInv, Types, InputOf, OutputOf, Gather
<1>9. Stages'
  BY DEF IInv, Stages, Gather, Running
<1>10. BuffersInBounds'
  <2>1. Len(rest) <= BufSize
    <3>1. Len(rest) \in Nat /\ Len(in.buf) \in Nat /\ BufSize \in Nat /\ Len(in.buf) <= BufSize
      BY <1>5, LenProperties, Parts, SizesArePositive DEF IInv, BuffersInBounds
    <3> QED
      BY <1>5, <3>1
  <2> QED
    BY <1>7, <2>1 DEF IInv, BuffersInBounds, Gather
<1> QED
  BY <1>8, <1>9, <1>10 DEF IInv

(* What the dump writes has no gap, and what the reverse writes may have   *)
(* zeros in it.                                                            *)
LEMMA GapsMayBeFilled ==
  ASSUME IInv
  PROVE  out.at = Len(out.file) \/ 0 \in OutItem
BY DEF IInv, Types, Stages, OutItem, Byte

(* What a step has to keep that leaves the input alone.                    *)
LEMMA OutputKeeps ==
  ASSUME IInv, UNCHANGED <<job, turn, in, left>>,
         stage' \in {"run", "last", "end"},
         out' \in OutputOf(OutItem), Len(out'.buf) < BufSize,
         ~out'.err => out'.fpos = out'.at + Len(out'.buf),
         turn = "dump" => out'.at = Len(out'.file),
         line' \in Seq(InItem), todo' \in Seq(OutItem), text' \in Seq(DumpItem),
         dump' \in [offset : Int, skipping : 0 .. 2, prevzero : BOOLEAN],
         turn = "dump" /\ job.mode = "postscript" => dump'.skipping = 0,
         turn = "dump" /\ stage' # "run" => line' = <<>>,
         stage' = "end" => todo' = <<>>
  PROVE  IInv'
<1>1. DumpItem' = DumpItem /\ InItem' = InItem /\ OutItem' = OutItem
  BY SameItems
<1>2. Types'
  BY <1>1 DEF IInv, Types, InputOf, OutputOf
<1>3. Stages'
  BY DEF Stages
<1>4. BuffersInBounds'
  BY DEF IInv, BuffersInBounds
<1> QED
  BY <1>2, <1>3, <1>4 DEF IInv

(* An element goes into the buffer, and a buffer that is full is written,  *)
(* or lost if the write fails.                                             *)
LEMMA PutKeeps ==
  ASSUME IInv, Put
  PROVE  IInv'
<1> DEFINE e == Head(todo)
           B == Append(out.buf, e)
           f == out.fpos + 1
           o == [out EXCEPT !.buf = B, !.fpos = f]
<1>1. /\ out \in OutputOf(OutItem) /\ out.buf \in Seq(OutItem)
      /\ out.fpos \in Nat /\ out.at \in Nat /\ Len(out.buf) \in Nat /\ BufSize \in Nat \ {0}
  BY Parts, SizesArePositive
<1>2. todo \in Seq(OutItem) /\ todo # <<>>
  BY DEF IInv, Types, Put
<1>3. e \in OutItem /\ Tail(todo) \in Seq(OutItem)
  BY <1>2, HeadTailProperties
<1>4. \/ out' = (IF Len(o.buf) = BufSize THEN Flushed(o) ELSE o)
      \/ out' = FlushFailed(o)
  BY DEF Put
<1> HIDE DEF e
<1>5. B \in Seq(OutItem) /\ Len(B) = Len(out.buf) + 1 /\ f \in Nat
  BY <1>1, <1>3, AppendProperties
<1>6. Len(B) \in Nat /\ Len(B) <= BufSize
  BY <1>1, <1>5 DEF IInv, BuffersInBounds
<1>7. ~out.err => f = out.at + Len(B)
  BY <1>1, <1>5 DEF IInv, BuffersInBounds
<1> HIDE DEF B, f
<1>8. /\ o \in OutputOf(OutItem) /\ o.buf = B /\ o.fpos = f
      /\ o.at = out.at /\ o.file = out.file /\ o.err = out.err
  BY <1>1, <1>5 DEF OutputOf
<1> HIDE DEF o
<1>9. o.at = Len(o.file) \/ 0 \in OutItem
  BY <1>8, GapsMayBeFilled
<1>10. turn = "dump" => o.at = Len(o.file)
  BY <1>8 DEF IInv, Stages
<1>11. Len(<<>>) = 0
  BY EmptySeq
<1>12. /\ Flushed(o) \in OutputOf(OutItem) /\ Flushed(o).buf = <<>>
       /\ Flushed(o).at = o.at + Len(o.buf) /\ Flushed(o).fpos = o.fpos
       /\ Flushed(o).err = o.err
       /\ o.at = Len(o.file) => Flushed(o).at = Len(Flushed(o).file)
  BY <1>8, <1>9, FlushedFacts
<1>13. /\ FlushFailed(o) \in OutputOf(OutItem) /\ FlushFailed(o).buf = <<>>
       /\ FlushFailed(o).err = TRUE
       /\ FlushFailed(o).at = o.at /\ FlushFailed(o).file = o.file
  BY <1>8, FlushFailedFacts
<1>14. /\ out' \in OutputOf(OutItem) /\ Len(out'.buf) < BufSize
       /\ ~out'.err => out'.fpos = out'.at + Len(out'.buf)
       /\ turn = "dump" => out'.at = Len(out'.file)
  <2>1. CASE out' = Flushed(o)
    <3>1. o.at + Len(o.buf) \in Nat
      BY <1>1, <1>6, <1>8
    <3> QED
      BY <2>1, <3>1, <1>1, <1>7, <1>8, <1>10, <1>11, <1>12
  <2>2. CASE out' = o /\ Len(o.buf) # BufSize
    <3>1. Len(o.buf) < BufSize
      BY <2>2, <1>1, <1>6, <1>8
    <3> QED
      BY <2>2, <3>1, <1>7, <1>8, <1>10
  <2>3. CASE out' = FlushFailed(o)
    BY <2>3, <1>1, <1>10, <1>11, <1>13
  <2> QED
    BY <2>1, <2>2, <2>3, <1>4
<1>15. /\ UNCHANGED <<job, turn, in, left, stage, line, text, dump>>
       /\ stage \in {"run", "last"} /\ todo' = Tail(todo)
  BY DEF Put
<1>16. todo' \in Seq(OutItem)
  BY <1>3, <1>15
<1>17. /\ line' \in Seq(InItem) /\ text' \in Seq(DumpItem)
       /\ dump' \in [offset : Int, skipping : 0 .. 2, prevzero : BOOLEAN]
       /\ turn = "dump" /\ job.mode = "postscript" => dump'.skipping = 0
       /\ turn = "dump" /\ stage' # "run" => line' = <<>>
  BY <1>15 DEF IInv, Types, Stages
<1> HIDE DEF o
<1> QED
  BY <1>14, <1>15, <1>16, <1>17, OutputKeeps

(* After an error what is left to be written is dropped; a line that is    *)
(* not one is ignored; a loop of the reverse ends.                         *)
LEMMA DroppingKeeps ==
  ASSUME IInv, Dropped \/ IgnoreStar \/ LoopEnds
  PROVE  IInv'
<1>1. <<>> \in Seq(InItem) /\ <<>> \in Seq(OutItem)
  BY EmptySeq
<1>2. /\ UNCHANGED <<job, turn, in, left, out, text, dump>>
      /\ stage' \in {"run", "last"} /\ (stage' = stage \/ turn = "reverse")
      /\ line' \in {line, <<>>} /\ todo' \in {todo, <<>>}
  BY DEF Dropped, IgnoreStar, AtLine, Ready, Running, LoopEnds
<1>3. /\ line' \in Seq(InItem) /\ todo' \in Seq(OutItem) /\ text' \in Seq(DumpItem)
      /\ dump' \in [offset : Int, skipping : 0 .. 2, prevzero : BOOLEAN]
      /\ out' \in OutputOf(OutItem)
  BY <1>1, <1>2 DEF IInv, Types
<1>4. /\ Len(out'.buf) < BufSize
      /\ ~out'.err => out'.fpos = out'.at + Len(out'.buf)
      /\ turn = "dump" => out'.at = Len(out'.file)
      /\ turn = "dump" /\ job.mode = "postscript" => dump'.skipping = 0
      /\ turn = "dump" /\ stage' # "run" => line' = <<>>
  BY <1>2 DEF IInv, Stages, BuffersInBounds
<1> QED
  BY <1>2, <1>3, <1>4, OutputKeeps

(* A line is printed or left out, after a star if lines were left out.     *)
LEMMA PrintLineKeeps ==
  ASSUME IInv, PrintLine
  PROVE  IInv'
<1> DEFINE skip  == Skips /\ dump.prevzero
           star  == IF dump.skipping > 0 THEN <<Star>> ELSE <<>>
           shown == LineAt(dump.offset, line)
           w     == Wrap(dump.offset + Advance)
           k     == IF skip THEN Least(dump.skipping + 1, 2) ELSE 0
<1>1. /\ dump.offset \in Int /\ dump.skipping \in 0 .. 2
      /\ turn = "dump" /\ line \in Seq(Byte)
  BY DEF IInv, Types, PrintLine, InItem
<1>2. /\ UNCHANGED <<job, turn, in, left, stage, out, text>> /\ stage = "run" /\ line' = <<>>
      /\ dump' = [offset |-> w, prevzero |-> Skips, skipping |-> k]
      /\ todo' = IF skip THEN <<>> ELSE star \o <<shown>>
  BY DEF PrintLine, Ready, Running
<1>3. w \in Int
  <2>1. Advance \in Int /\ dump.offset + Advance \in Int
    BY <1>1, Parts DEF Advance
  <2> QED
    BY <2>1, WrapFacts
<1>4. k \in 0 .. 2
  BY <1>1 DEF Least
<1>5. Skips \in BOOLEAN
  BY DEF Skips
<1>6. turn = "dump" /\ job.mode = "postscript" => k = 0
  BY DEF Skips
<1>7. star \in Seq(OutItem)
  <2>1. dump.skipping > 0 => Star \in OutItem
    BY <1>1 DEF IInv, Stages, OutItem, DumpItem
  <2>2. \A x \in OutItem : <<x>> \in Seq(OutItem)
    OBVIOUS
  <2> QED
    BY <2>1, <2>2, EmptySeq
<1>8. shown \in OutItem
  BY <1>1 DEF LineAt, LineOf, OutItem, DumpItem
<1> HIDE DEF skip, star, shown, w, k
<1>9. todo' \in Seq(OutItem)
  <2>1. <<shown>> \in Seq(OutItem)
    BY <1>8
  <2>2. star \o <<shown>> \in Seq(OutItem)
    BY <1>7, <2>1, ConcatProperties
  <2> QED
    BY <1>2, <2>2, EmptySeq
<1>10. /\ dump' \in [offset : Int, skipping : 0 .. 2, prevzero : BOOLEAN]
       /\ dump'.skipping = k
  BY <1>2, <1>3, <1>4, <1>5
<1>11. /\ out' \in OutputOf(OutItem) /\ text' \in Seq(DumpItem) /\ line' \in Seq(InItem)
       /\ Len(out'.buf) < BufSize
       /\ ~out'.err => out'.fpos = out'.at + Len(out'.buf)
       /\ turn = "dump" => out'.at = Len(out'.file)
  BY <1>2, EmptySeq DEF IInv, Types, Stages, BuffersInBounds
<1> QED
  BY <1>2, <1>6, <1>9, <1>10, <1>11, OutputKeeps

(* At the end of the input the last line that was left out is printed.     *)
LEMMA EndOfInputKeeps ==
  ASSUME IInv, EndOfInput
  PROVE  IInv'
<1> DEFINE star  == IF dump.skipping = 2 THEN <<Star>> ELSE <<>>
           w     == Wrap(dump.offset - job.ncols)
           shown == LineAt(w, Zeros(job.ncols))
<1>1. /\ dump.offset \in Int /\ dump.skipping \in 0 .. 2 /\ turn = "dump"
  BY DEF IInv, Types, EndOfInput
<1>2. /\ UNCHANGED <<job, turn, in, left, out, line, text, dump>>
      /\ stage' = "last" /\ line = <<>>
      /\ \/ todo' = <<>>
         \/ dump.skipping # 0 /\ todo' = star \o <<shown>>
  BY DEF EndOfInput, LastSkipped
<1>3. CASE todo' = <<>>
  <2>1. /\ out' \in OutputOf(OutItem) /\ text' \in Seq(DumpItem) /\ line' \in Seq(InItem)
        /\ dump' \in [offset : Int, skipping : 0 .. 2, prevzero : BOOLEAN]
        /\ todo' \in Seq(OutItem)
    BY <1>2, <1>3, EmptySeq DEF IInv, Types
  <2>2. /\ Len(out'.buf) < BufSize
        /\ ~out'.err => out'.fpos = out'.at + Len(out'.buf)
        /\ turn = "dump" => out'.at = Len(out'.file)
        /\ turn = "dump" /\ job.mode = "postscript" => dump'.skipping = 0
    BY <1>2 DEF IInv, Stages, BuffersInBounds
  <2> QED
    BY <1>2, <1>3, <2>1, <2>2, OutputKeeps
<1>4. CASE dump.skipping # 0 /\ todo' = star \o <<shown>>
  <2>1. Star \in OutItem
    BY <1>1, <1>4 DEF IInv, Stages, OutItem, DumpItem
  <2>2. w \in Int
    <3>1. dump.offset - job.ncols \in Int
      BY <1>1, Parts
    <3> QED
      BY <3>1, WrapFacts
  <2>3. Zeros(job.ncols) \in Seq(Byte)
    <3>1. job.ncols \in Nat
      BY Parts
    <3> QED
      BY <3>1, ZerosType
  <2> HIDE DEF w
  <2>4. shown \in OutItem
    BY <1>1, <2>2, <2>3 DEF LineAt, LineOf, OutItem, DumpItem
  <2> HIDE DEF shown
  <2>5. star \in Seq(OutItem) /\ <<shown>> \in Seq(OutItem)
    <3>1. \A x \in OutItem : <<x>> \in Seq(OutItem)
      OBVIOUS
    <3> QED
      BY <2>1, <2>4, <3>1, EmptySeq
  <2> HIDE DEF star
  <2>6. todo' \in Seq(OutItem)
    BY <1>4, <2>5, ConcatProperties
  <2>7. /\ out' \in OutputOf(OutItem) /\ text' \in Seq(DumpItem) /\ line' \in Seq(InItem)
        /\ dump' \in [offset : Int, skipping : 0 .. 2, prevzero : BOOLEAN]
    BY <1>2 DEF IInv, Types
  <2>8. /\ Len(out'.buf) < BufSize
        /\ ~out'.err => out'.fpos = out'.at + Len(out'.buf)
        /\ turn = "dump" => out'.at = Len(out'.file)
        /\ turn = "dump" /\ job.mode = "postscript" => dump'.skipping = 0
    BY <1>2 DEF IInv, Stages, BuffersInBounds
  <2> QED
    BY <1>2, <2>6, <2>7, <2>8, OutputKeeps
<1> QED
  BY <1>2, <1>3, <1>4

(* The reverse begins with empty buffers, on the text of the dump.         *)
LEMMA ReverseStartsKeeps ==
  ASSUME IInv, ReverseStarts
  PROVE  IInv'
<1>1. /\ turn = "dump" /\ turn' = "reverse" /\ stage = "end" /\ stage' = "run"
      /\ UNCHANGED <<job, line, todo, dump, left, text>>
      /\ out' = NewOutput(job.old, job.outSeekable)
      /\ in' = NewInput(IF job.backwards THEN Reverse(text) ELSE text, 0, MaxOff)
  BY DEF ReverseStarts
<1>2. line = <<>> /\ todo = <<>>
  BY <1>1 DEF IInv, Stages
<1>3. DumpItem' = DumpItem /\ InItem' = DumpItem /\ OutItem' = Byte
  BY <1>1 DEF InItem, OutItem, DumpItem
<1> DEFINE source == IF job.backwards THEN Reverse(text) ELSE text
<1>4. source \in Seq(DumpItem)
  <2>1. text \in Seq(DumpItem)
    BY DEF IInv, Types
  <2>2. Len(text) \in Nat /\ \A i \in 1 .. Len(text) : text[i] \in DumpItem
    BY <2>1, ElementOfSeq, LenProperties
  <2>3. \A i \in 1 .. Len(text) : (Len(text) - i) + 1 \in 1 .. Len(text)
    BY <2>2
  <2>4. Reverse(text) \in [1 .. Len(text) -> DumpItem]
    BY <2>2, <2>3 DEF Reverse
  <2>5. Reverse(text) \in Seq(DumpItem)
    BY <2>2, <2>4, SeqDef
  <2> QED
    BY <2>1, <2>5
<1> HIDE DEF source
<1>5. in' \in InputOf(DumpItem) /\ in'.buf = <<>> /\ in'.limit = MaxOff
  <2>1. in' = NewInput(source, 0, MaxOff)
    BY <1>1 DEF source
  <2> QED
    BY <1>4, <2>1, EmptySeq, SizesArePositive DEF NewInput, InputOf
<1>6. /\ out' \in OutputOf(Byte) /\ out'.buf = <<>> /\ out'.fpos = 0 /\ out'.at = 0
  <2>1. job.old \in Seq(Byte) /\ job.outSeekable \in BOOLEAN
    BY JobsAreLegal DEF IInv, Types
  <2> QED
    BY <1>1, <2>1, EmptySeq DEF NewOutput, OutputOf
<1>7. Types'
  <2>1. line' \in Seq(InItem') /\ todo' \in Seq(OutItem') /\ text' \in Seq(DumpItem')
    BY <1>1, <1>2, <1>3, EmptySeq DEF IInv, Types
  <2> QED
    BY <1>1, <1>3, <1>5, <1>6, <2>1 DEF IInv, Types, InputOf, OutputOf
<1>8. Stages'
  BY <1>1 DEF Stages
<1>9. BuffersInBounds'
  BY <1>5, <1>6, EmptySeq, SizesArePositive DEF BuffersInBounds
<1> QED
  BY <1>7, <1>8, <1>9 DEF IInv

(* A line of a plain dump becomes its bytes.                               *)
LEMMA ReversePostscriptKeeps ==
  ASSUME IInv, ReversePostscript
  PROVE  IInv'
<1>1. /\ UNCHANGED <<job, turn, in, left, stage, out, text, dump>>
      /\ job.mode = "postscript" /\ turn = "reverse" /\ stage = "run"
      /\ line # <<>> /\ line' = <<>> /\ todo' = line[1].bytes
  BY DEF ReversePostscript, Ready, Running
<1>2. InItem = LineOf /\ OutItem = Byte
  BY <1>1 DEF InItem, OutItem, DumpItem
<1>3. line[1] \in LineOf
  <2>1. line \in Seq(LineOf) /\ line # <<>>
    BY <1>1, <1>2 DEF IInv, Types
  <2>2. 1 \in 1 .. Len(line)
    BY <2>1, EmptySeq, LenProperties
  <2> QED
    BY <2>1, <2>2, ElementOfSeq
<1>4. todo' \in Seq(OutItem)
  BY <1>1, <1>2, <1>3 DEF LineOf
<1>5. /\ out' \in OutputOf(OutItem) /\ text' \in Seq(DumpItem) /\ line' \in Seq(InItem)
      /\ dump' \in [offset : Int, skipping : 0 .. 2, prevzero : BOOLEAN]
  BY <1>1, EmptySeq DEF IInv, Types
<1>6. /\ Len(out'.buf) < BufSize
      /\ ~out'.err => out'.fpos = out'.at + Len(out'.buf)
      /\ turn = "dump" => out'.at = Len(out'.file)
  BY <1>1 DEF IInv, Stages, BuffersInBounds
<1> QED
  BY <1>1, <1>4, <1>5, <1>6, OutputKeeps

(* A line of a dump goes where its offset says: after a flush and a seek,  *)
(* or over zeros, or not at all.                                           *)
LEMMA ReverseLineKeeps ==
  ASSUME IInv, ReverseLine
  PROVE  IInv'
<1>1. PICK l \in ToSet(line) \ {Star} :
        /\ AtLine(l)
        /\ LET pos == l.offset + job.rseek
               bytes == l.bytes
           IN  \/ out' = [out EXCEPT !.err = TRUE] /\ todo' = <<>>
               \/ /\ pos = out.fpos
                  /\ out' = [out EXCEPT !.err = out.fpos > MaxOff - Len(bytes)]
                  /\ todo' = bytes
               \/ /\ pos >= 0
                  /\ out' = [Moved(out, pos) EXCEPT !.err = pos > MaxOff - Len(bytes)]
                  /\ todo' = bytes
               \/ Filling([Drained(out) EXCEPT !.noseek = TRUE], pos)
               \/ Filling(out, pos)
               \/ out' = FlushFailed(out) /\ todo' = bytes
  BY DEF ReverseLine
<1> DEFINE pos   == l.offset + job.rseek
           bytes == l.bytes
<1>2. /\ UNCHANGED <<job, turn, in, left, stage, text, dump>> /\ line' \in {line, <<>>}
      /\ turn = "reverse" /\ stage = "run" /\ line = <<l>> /\ ~out.err
  BY <1>1 DEF ReverseLine, AtLine, Running, Filling
<1>3. InItem = DumpItem /\ OutItem = Byte
  BY <1>2 DEF InItem, OutItem
<1>4. l \in LineOf
  <2>1. line \in Seq(DumpItem)
    BY <1>3 DEF IInv, Types
  <2>2. line[1] = l /\ Len(line) = 1
    BY <1>2
  <2>3. 1 \in 1 .. Len(line)
    BY <2>2
  <2>4. l \in DumpItem
    BY <2>1, <2>2, <2>3, ElementOfSeq
  <2> QED
    BY <1>1, <2>4 DEF DumpItem
<1>5. pos \in Int /\ bytes \in Seq(Byte) /\ Len(bytes) \in Nat /\ MaxOff \in Nat
  <2>1. job.rseek \in Int
    BY JobsAreLegal DEF IInv, Types
  <2>2. l.offset \in Int /\ bytes \in Seq(Byte)
    BY <1>4 DEF LineOf
  <2>3. pos \in Int
    BY <2>1, <2>2
  <2> QED
    BY <2>2, <2>3, LenProperties, SizesArePositive
<1>6. \/ out' = [out EXCEPT !.err = TRUE] /\ todo' = <<>>
      \/ /\ out' = [out EXCEPT !.err = out.fpos > MaxOff - Len(bytes)]
         /\ todo' = bytes
      \/ /\ pos >= 0
         /\ out' = [Moved(out, pos) EXCEPT !.err = pos > MaxOff - Len(bytes)]
         /\ todo' = bytes
      \/ Filling([Drained(out) EXCEPT !.noseek = TRUE], pos)
      \/ Filling(out, pos)
      \/ out' = FlushFailed(out) /\ todo' = bytes
  BY <1>1
<1> HIDE DEF pos, bytes
<1> DEFINE Fine(o) ==
      /\ o \in OutputOf(Byte) /\ Len(o.buf) < BufSize
      /\ ~o.err => o.fpos = o.at + Len(o.buf)
<1>7. Fine(out) /\ out.fpos \in Nat
  BY <1>3, Parts DEF IInv, Types, BuffersInBounds
<1>8. Len(<<>>) = 0 /\ <<>> \in Seq(Byte) /\ 0 < BufSize /\ 0 \in Byte
  BY EmptySeq, SizesArePositive DEF Byte
<1>9. ASSUME NEW o, Fine(o), NEW e \in BOOLEAN, ~o.err
      PROVE  Fine([o EXCEPT !.err = e])
  BY <1>9 DEF OutputOf
<1>10. /\ Drained(out) \in OutputOf(Byte) /\ Drained(out).buf = <<>>
       /\ Drained(out).fpos = out.fpos /\ Drained(out).err = out.err
       /\ Drained(out).at = out.at + Len(out.buf)
  BY <1>2, <1>7, <1>8, DrainedFacts
<1>11. /\ FlushFailed(out) \in OutputOf(Byte)
       /\ FlushFailed(out).buf = <<>> /\ FlushFailed(out).err = TRUE
  BY <1>7, FlushFailedFacts
<1> DEFINE d == Drained(out)
           n == [d EXCEPT !.noseek = TRUE]
<1>12. Fine(d) /\ ~d.err /\ d.fpos \in Nat
  <2>1. out.at + Len(out.buf) = d.at /\ d.at \in Nat
    BY <1>10 DEF OutputOf
  <2> QED
    BY <1>2, <1>7, <1>8, <1>10, <2>1
<1> HIDE DEF d
<1>13. Fine(n) /\ ~n.err /\ n.fpos \in Nat
  BY <1>12 DEF OutputOf
<1>14. ASSUME NEW o, Fine(o), ~o.err, o.fpos \in Nat, Filling(o, pos)
       PROVE  Fine(out') /\ todo' \in Seq(Byte)
  <2> DEFINE gap == IF pos > o.fpos THEN pos - o.fpos ELSE 0
             e   == pos < o.fpos
  <2>1. out' = [o EXCEPT !.err = e] /\ todo' = Zeros(gap)
    BY <1>14 DEF Filling
  <2>2. gap \in Nat /\ e \in BOOLEAN
    BY <1>5, <1>14
  <2>3. Zeros(gap) \in Seq(Byte)
    BY <2>2, ZerosType
  <2> HIDE DEF gap, e
  <2>4. todo' \in Seq(Byte)
    BY <2>1, <2>3
  <2> HIDE DEF Fine
  <2> QED
    BY <1>9, <1>14, <2>1, <2>2, <2>4
<1>15. Fine(out') /\ todo' \in Seq(Byte)
  <2>1. CASE out' = [out EXCEPT !.err = TRUE] /\ todo' = <<>>
    <3> HIDE DEF Fine
    <3> QED
      BY <1>2, <1>7, <1>8, <1>9, <2>1
  <2>2. CASE out' = [out EXCEPT !.err = out.fpos > MaxOff - Len(bytes)] /\ todo' = bytes
    <3> DEFINE e == out.fpos > MaxOff - Len(bytes)
    <3>1. e \in BOOLEAN
      BY <1>5, <1>7
    <3>2. out' = [out EXCEPT !.err = e] /\ todo' = bytes
      BY <2>2
    <3> HIDE DEF Fine, e
    <3> QED
      BY <1>2, <1>5, <1>7, <1>9, <3>1, <3>2
  <2>3. CASE /\ pos >= 0
             /\ out' = [Moved(out, pos) EXCEPT !.err = pos > MaxOff - Len(bytes)]
             /\ todo' = bytes
    <3> DEFINE e == pos > MaxOff - Len(bytes)
               a == [d EXCEPT !.at = pos]
               m == [a EXCEPT !.fpos = pos]
    <3>1. e \in BOOLEAN /\ pos \in Nat
      BY <1>5, <2>3
    <3>2. out' = [m EXCEPT !.err = e] /\ todo' = bytes
      BY <2>3 DEF Moved, d
    <3> HIDE DEF e
    <3>3. a \in OutputOf(Byte) /\ a.at = pos /\ a.buf = <<>> /\ ~a.err
      BY <1>2, <1>10, <1>12, <3>1 DEF OutputOf, d
    <3> HIDE DEF a
    <3>4. m \in OutputOf(Byte) /\ m.at = pos /\ m.fpos = pos /\ m.buf = <<>> /\ ~m.err
      BY <3>1, <3>3 DEF OutputOf
    <3>5. Fine(m)
      BY <1>8, <3>1, <3>4
    <3> HIDE DEF Fine, m
    <3> QED
      BY <1>5, <1>9, <3>1, <3>2, <3>4, <3>5
  <2>4. CASE Filling([Drained(out) EXCEPT !.noseek = TRUE], pos)
    <3>1. Filling(n, pos)
      BY <2>4 DEF d
    <3> HIDE DEF Fine, n
    <3> QED
      BY <1>13, <1>14, <3>1
  <2>5. CASE Filling(out, pos)
    <3> HIDE DEF Fine
    <3> QED
      BY <1>2, <1>7, <1>14, <2>5
  <2>6. CASE out' = FlushFailed(out) /\ todo' = bytes
    BY <1>5, <1>8, <1>11, <2>6
  <2> HIDE DEF Fine
  <2> QED
    BY <1>6, <2>1, <2>2, <2>3, <2>4, <2>5, <2>6
<1>16. /\ out' \in OutputOf(OutItem) /\ todo' \in Seq(OutItem) /\ Len(out'.buf) < BufSize
       /\ ~out'.err => out'.fpos = out'.at + Len(out'.buf)
  BY <1>3, <1>15
<1>17. /\ text' \in Seq(DumpItem) /\ line' \in Seq(InItem)
       /\ dump' \in [offset : Int, skipping : 0 .. 2, prevzero : BOOLEAN]
  BY <1>2, EmptySeq DEF IInv, Types
<1> HIDE DEF Fine
<1> QED
  BY <1>2, <1>16, <1>17, OutputKeeps

(* At the end the buffer is written, and what the dump wrote is its text.  *)
LEMMA FinishKeeps ==
  ASSUME IInv, Finish
  PROVE  IInv'
<1>1. /\ UNCHANGED <<job, turn, in, left, line, todo, dump>>
      /\ stage = "last" /\ stage' = "end" /\ todo = <<>>
      /\ out' = Drained(out) \/ out' = FlushFailed(out)
      /\ text' = IF turn = "dump" THEN out'.file ELSE text
  BY DEF Finish
<1>2. out \in OutputOf(OutItem) /\ Len(out.buf) \in Nat /\ out.at \in Nat
  BY Parts
<1>3. Len(<<>>) = 0 /\ 0 < BufSize
  BY EmptySeq, SizesArePositive
<1>4. out.at = Len(out.file) \/ 0 \in OutItem
  BY GapsMayBeFilled
<1>5. /\ Len(out.buf) < BufSize
      /\ ~out.err => out.fpos = out.at + Len(out.buf)
      /\ turn = "dump" => out.at = Len(out.file)
  BY DEF IInv, Stages, BuffersInBounds
<1>6. /\ out' \in OutputOf(OutItem) /\ Len(out'.buf) < BufSize
      /\ ~out'.err => out'.fpos = out'.at + Len(out'.buf)
      /\ turn = "dump" => out'.at = Len(out'.file)
  <2>1. CASE out' = Drained(out)
    <3>1. /\ Drained(out) \in OutputOf(OutItem)
          /\ Drained(out).fpos = out.fpos /\ Drained(out).err = out.err
          /\ ~out.err => /\ Drained(out).buf = <<>>
                         /\ Drained(out).at = out.at + Len(out.buf)
          /\ Len(Drained(out).buf) = 0 \/ Drained(out) = out
          /\ out.at = Len(out.file) => Drained(out).at = Len(Drained(out).file)
      BY <1>2, <1>4, DrainedFacts
    <3>2. Len(Drained(out).buf) < BufSize
      BY <1>3, <1>5, <3>1
    <3>3. ~out.err => Drained(out).fpos = Drained(out).at + Len(Drained(out).buf)
      BY <1>2, <1>3, <1>5, <3>1
    <3> QED
      BY <1>5, <2>1, <3>1, <3>2, <3>3
  <2>2. CASE out' = FlushFailed(out)
    <3>1. /\ FlushFailed(out) \in OutputOf(OutItem)
          /\ FlushFailed(out).buf = <<>> /\ FlushFailed(out).err = TRUE
          /\ FlushFailed(out).at = out.at /\ FlushFailed(out).file = out.file
      BY <1>2, FlushFailedFacts
    <3> QED
      BY <1>3, <1>5, <2>2, <3>1
  <2> QED
    BY <1>1, <2>1, <2>2
<1>7. text' \in Seq(DumpItem)
  <2>1. out'.file \in Seq(OutItem)
    BY <1>6 DEF OutputOf
  <2>2. turn = "dump" => OutItem = DumpItem
    BY DEF OutItem
  <2> QED
    BY <1>1, <2>1, <2>2 DEF IInv, Types
<1>8. /\ line' \in Seq(InItem) /\ todo' \in Seq(OutItem)
      /\ dump' \in [offset : Int, skipping : 0 .. 2, prevzero : BOOLEAN]
      /\ turn = "dump" /\ job.mode = "postscript" => dump'.skipping = 0
      /\ turn = "dump" => line' = <<>>
  BY <1>1 DEF IInv, Types, Stages
<1> QED
  BY <1>1, <1>6, <1>7, <1>8, OutputKeeps

-----------------------------------------------------------------------------
(* The dump starts with empty buffers.                                     *)
LEMMA InitIInv == Init => IInv
<1> SUFFICES ASSUME Init PROVE IInv
  OBVIOUS
<1>1. /\ job \in Jobs /\ job.data \in Seq(Byte)
      /\ job.start \in Nat /\ job.limit \in Nat /\ job.offset \in Nat
  BY JobsAreLegal DEF Init
<1>2. InItem = Byte /\ OutItem = DumpItem
  BY DEF Init, InItem, OutItem
<1>3. in \in InputOf(Byte) /\ in.buf = <<>> /\ in.limit \in Nat
  BY <1>1, EmptySeq DEF Init, NewInput, InputOf
<1>4. /\ out \in OutputOf(DumpItem) /\ out.buf = <<>> /\ out.file = <<>>
      /\ out.fpos = 0 /\ out.at = 0
  BY EmptySeq DEF Init, NewOutput, OutputOf
<1>5. Types
  <2>1. line \in Seq(InItem) /\ todo \in Seq(OutItem) /\ text \in Seq(DumpItem)
    BY EmptySeq DEF Init
  <2>2. dump \in [offset : Int, skipping : 0 .. 2, prevzero : BOOLEAN]
    <3>1. dump = [offset |-> job.offset, skipping |-> 0, prevzero |-> FALSE]
      BY DEF Init
    <3> QED
      BY <1>1, <3>1
  <2>3. turn = "dump" /\ stage = "seek" /\ left = 0
    BY DEF Init
  <2> QED
    BY <1>1, <1>2, <1>3, <1>4, <2>1, <2>2, <2>3 DEF Types
<1>6. Stages
  BY <1>4, EmptySeq DEF Init, Stages
<1>7. BuffersInBounds
  BY <1>3, <1>4, EmptySeq, SizesArePositive DEF BuffersInBounds
<1> QED
  BY <1>5, <1>6, <1>7 DEF IInv

(* Every step keeps the invariant.                                         *)
LEMMA NextIInv == IInv /\ [Next]_vars => IInv'
<1> SUFFICES ASSUME IInv, [Next]_vars PROVE IInv'
  OBVIOUS
<1>1. CASE UNCHANGED vars
  <2>1. UNCHANGED <<job, turn, stage, in, out, line, todo, dump, left, text>>
    BY <1>1 DEF vars
  <2>2. DumpItem' = DumpItem /\ InItem' = InItem /\ OutItem' = OutItem
    BY <2>1, SameItems
  <2>3. Types'
    BY <2>1, <2>2 DEF IInv, Types, InputOf, OutputOf
  <2>4. Stages' /\ BuffersInBounds'
    BY <2>1 DEF IInv, Stages, BuffersInBounds
  <2> QED
    BY <2>3, <2>4 DEF IInv
<1> QED
  BY <1>1, SeekKeeps, SkippingKeeps, RefillKeeps, ReadFailsKeeps, GatherKeeps, PutKeeps,
     DroppingKeeps, PrintLineKeeps, EndOfInputKeeps, ReverseStartsKeeps,
     ReversePostscriptKeeps, ReverseLineKeeps, FinishKeeps
  DEF Next

(***************************************************************************)
(* Whatever is read and written, in pieces of any size, sought, filled or  *)
(* lost to errors, no buffer runs over, no more is read than the limit     *)
(* allows, and the position that the program counts is where the next byte *)
(* will be written (output, seekout, refill).                              *)
(***************************************************************************)
THEOREM BuffersAlwaysInBounds == Spec => []BuffersInBounds
<1>1. IInv => BuffersInBounds
  BY DEF IInv
<1> QED
  BY <1>1, InitIInv, NextIInv, PTL DEF Spec

-----------------------------------------------------------------------------
(* The job, which stays the same.                                           *)

(* What is known of the job.                                               *)
LEMMA JobFacts ==
  ASSUME IInv
  PROVE  /\ job.data \in Seq(Byte) /\ Len(job.data) \in Nat
         /\ job.ncols \in Nat /\ job.ncols > 0
         /\ job.start \in Nat /\ job.limit \in Nat
         /\ job.offset \in Nat /\ job.offset <= MaxOff
         /\ job.seek \in Int /\ (IF job.minus THEN job.seek <= 0 ELSE job.seek >= 0)
         /\ (job.seekable \/ job.start = 0)
         /\ First \in Int /\ Base \in Nat /\ MaxOff \in Nat
<1>1. job \in Jobs /\ MaxOff \in Nat
  BY SizesArePositive DEF IInv, Types
<1>2. /\ job.data \in Seq(Byte) /\ job.ncols \in Nat \ {0}
      /\ job.start \in Nat /\ job.limit \in Nat /\ job.offset \in 0 .. MaxOff
      /\ job.seek \in Int /\ (IF job.minus THEN job.seek <= 0 ELSE job.seek >= 0)
      /\ (job.seekable \/ job.start = 0)
  BY <1>1, JobsAreLegal
<1>3. Len(job.data) \in Nat
  BY <1>2, LenProperties
<1>4. First \in Int
  BY <1>2, <1>3 DEF First
<1>5. Base \in Nat
  <2> DEFINE x == job.offset + (IF job.seek = 0 /\ ~FromEnd THEN 0 ELSE First)
  <2>1. x \in Int
    BY <1>2, <1>4
  <2>2. Base = Wrap(x)
    BY DEF Base
  <2> HIDE DEF x
  <2> QED
    BY <2>1, <2>2, WrapFacts
<1> QED
  BY <1>1, <1>2, <1>3, <1>4, <1>5

(* The data that is dumped.                                                *)
LEMMA DataFacts ==
  ASSUME IInv, First >= 0
  PROVE  LET last == Least(Len(job.data), First + job.limit) IN
         /\ Data \in Seq(Byte) /\ Len(Data) \in Nat
         /\ Len(Data) = IF First < last THEN last - First ELSE 0
         /\ \A k \in 1 .. Len(Data) : Data[k] = job.data[First + k]
<1> DEFINE last == Least(Len(job.data), First + job.limit)
           d == job.data
           a == First
           n == IF a < last THEN last - a ELSE 0
<1>1. d \in Seq(Byte) /\ Len(d) \in Nat /\ job.limit \in Nat /\ a \in Nat
  BY JobFacts
<1>2. last \in Nat /\ last <= Len(d)
  BY <1>1 DEF Least
<1>3. Data = SubSeq(d, a + 1, last)
  BY DEF Data
<1> HIDE DEF last, d, a
<1>4. CASE a < last
  <2>1. n \in Nat /\ a + n <= Len(d) /\ last = a + n
    BY <1>1, <1>2, <1>4
  <2> HIDE DEF n
  <2>2. SubSeq(d, a + 1, a + n) \in Seq(Byte) /\ Len(SubSeq(d, a + 1, a + n)) = n
    BY <1>1, <2>1, Taken
  <2>3. \A k \in 1 .. n : SubSeq(d, a + 1, a + n)[k] = d[a + k]
    BY <1>1, <2>1, Taken
  <2>4. Data \in Seq(Byte) /\ Len(Data) = n /\ \A k \in 1 .. Len(Data) : Data[k] = d[a + k]
    BY <1>3, <2>1, <2>2, <2>3
  <2> QED
    BY <2>1, <2>4 DEF n, d, a, last
<1>5. CASE ~(a < last)
  <2>1. last < a + 1 /\ a + 1 \in Int /\ last \in Int
    BY <1>1, <1>2, <1>5
  <2>2. Data = <<>>
    BY <1>3, <2>1, SubSeqEmpty
  <2>3. Data \in Seq(Byte) /\ Len(Data) = 0
    BY <2>2, EmptySeq
  <2>4. n = 0 /\ \A k \in 1 .. Len(Data) : Data[k] = d[a + k]
    BY <1>5, <2>3
  <2> QED
    BY <2>3, <2>4 DEF n, d, a, last
<1> QED
  BY <1>4, <1>5

(* What is the same while the job is.                                      *)
LEMMA JobKept ==
  ASSUME UNCHANGED job
  PROVE  /\ First' = First /\ Data' = Data /\ Base' = Base
         /\ Tells(Emitted, Passed)' <=> Tells(Emitted', Passed')
         /\ Tells(text, Len(Data))' <=> Tells(text', Len(Data))
         /\ Ends(Emitted, Len(Emitted))' = Ends(Emitted', Len(Emitted'))
         /\ Ends(text, Len(text))' = Ends(text', Len(text'))
<1>1. First' = First /\ Base' = Base
  BY DEF First, Base, FromEnd
<1>2. Data' = Data
  BY <1>1 DEF Data
<1>3. /\ Ends(Emitted, Len(Emitted))' = Ends(Emitted', Len(Emitted'))
      /\ Ends(text, Len(text))' = Ends(text', Len(text'))
  BY <1>1 DEF Ends, Starts
<1>4. Tells(Emitted, Passed)' <=> Tells(Emitted', Passed')
  BY <1>1, <1>2 DEF Tells, Joins, Shows, Covers, Ends, Starts, LinesOf
<1>5. Tells(text, Len(Data))' <=> Tells(text', Len(Data))
  BY <1>1, <1>2 DEF Tells, Joins, Shows, Covers, Ends, Starts, LinesOf
<1> QED
  BY <1>1, <1>2, <1>3, <1>4, <1>5

-----------------------------------------------------------------------------
(* Reading.                                                                 *)

LEMMA ReadFacts ==
  ASSUME IInv, First >= 0
  PROVE  /\ First \in Nat /\ job.limit \in Nat /\ Passed \in Int /\ job.ncols \in Nat
         /\ in.at \in Nat /\ in.limit \in Nat
         /\ Len(in.buf) \in Nat /\ Len(line) \in Nat /\ Want \in Nat /\ Want > 0
         /\ turn = "dump" => Want = job.ncols
<1>1. First \in Nat /\ job.limit \in Nat /\ job.ncols \in Nat
  BY JobFacts
<1> QED
  BY <1>1, Parts DEF Passed, Want

(* What a read puts into the buffer is what follows in the source.         *)
LEMMA RefillReads ==
  ASSUME IInv, ReadOK, turn = "dump", Refill
  PROVE  Reads' /\ Passed' = Passed
<1> DEFINE rem == IF in.at < Len(in.source) THEN Len(in.source) - in.at ELSE 0
           want == Least(in.limit, BufSize)
           most == Least(want, rem)
<1>1. /\ UNCHANGED <<job, turn, text, stage, line>> /\ stage = "run"
      /\ in.buf = <<>> /\ ~in.eof
  BY DEF Refill, Short, Running
<1>2. First >= 0 /\ Reads
  BY <1>1 DEF ReadOK
<1>3. /\ in.source \in Seq(InItem) /\ Len(in.source) \in Nat /\ BufSize \in Nat /\ BufSize > 0
  BY Parts, SizesArePositive
<1>4. /\ First \in Nat /\ job.limit \in Nat /\ Passed \in Int
      /\ in.at \in Nat /\ in.limit \in Nat /\ Len(line) \in Nat
  BY <1>2, ReadFacts
<1>5. PICK n \in (IF most = 0 THEN {0} ELSE 1 .. most) : in' = Filled(n)
  BY DEF Refill
<1>6. rem \in Nat /\ (rem = 0 <=> in.at >= Len(in.source)) /\ (rem = 0 \/ in.at + rem = Len(in.source))
  BY <1>3, <1>4
<1> HIDE DEF rem
<1>7. want \in Nat /\ (want = 0 <=> in.limit = 0)
  BY <1>3, <1>4 DEF Least
<1> HIDE DEF want
<1>8. most \in Nat /\ most <= rem /\ (most = 0 <=> in.limit = 0 \/ in.at >= Len(in.source))
  BY <1>6, <1>7 DEF Least
<1> HIDE DEF most
<1>9. /\ n \in Nat /\ (n = 0 \/ in.at + n <= Len(in.source))
      /\ n = 0 => in.limit = 0 \/ in.at >= Len(in.source)
  BY <1>3, <1>4, <1>5, <1>6, <1>8
<1> DEFINE read == SubSeq(in.source, in.at + 1, in.at + n)
<1>10. read \in Seq(InItem) /\ Len(read) = n /\ \A k \in 1 .. n : read[k] = in.source[in.at + k]
  BY <1>3, <1>4, <1>9, Taken, SMTT(30)
<1>11. /\ in'.source = in.source /\ in'.at = in.at + n /\ in'.limit = in.limit - n
       /\ in'.buf = read /\ in'.eof = (n = 0) /\ in'.err = in.err
  <2>1. in \in InputOf(InItem)
    BY Parts
  <2> HIDE DEF read
  <2>2. in' = [in EXCEPT !.buf = read, !.at = in.at + n, !.limit = in.limit - n, !.eof = (n = 0)]
    BY <1>5, <2>1 DEF Filled, InputOf, read
  <2> QED
    BY <2>1, <2>2 DEF InputOf
<1>12. DOMAIN read = 1 .. n /\ Len(in.buf) = 0
  BY <1>1, <1>10, LenProperties, EmptySeq
<1> HIDE DEF read
<1>13. First' = First
  BY <1>1, JobKept
<1>14. Passed' = Passed
  BY <1>1, <1>4, <1>9, <1>10, <1>11, <1>12, <1>13 DEF Passed
<1>15. /\ in.source = job.data /\ First <= in.at /\ in.limit = job.limit - (in.at - First)
       /\ in.at <= Len(job.data) \/ in.at = First
       /\ Passed >= 0 /\ Len(line) <= job.ncols
       /\ \A k \in DOMAIN line : line[k] = job.data[First + Passed + k]
  BY <1>2 DEF Reads
<1>16. /\ First <= in'.at /\ in'.limit = job.limit - (in'.at - First)
       /\ in'.at <= Len(job.data) \/ in'.at = First
  BY <1>3, <1>4, <1>9, <1>11, <1>15
<1>17. \A k \in DOMAIN in'.buf : in'.buf[k] = job.data[in'.at - Len(in'.buf) + k]
  <2>1. DOMAIN in'.buf = 1 .. n /\ Len(in'.buf) = n
    BY <1>10, <1>11, <1>12
  <2>2. ASSUME NEW k \in 1 .. n
        PROVE  in'.buf[k] = job.data[in'.at - n + k]
    <3>1. in'.at - n + k = in.at + k
      BY <1>4, <1>9, <1>11
    <3> QED
      BY <1>10, <1>11, <1>15, <3>1
  <2> QED
    BY <2>1, <2>2
<1>18. in'.eof /\ ~in'.err => in'.limit = 0 \/ in'.at >= Len(job.data)
  <2> SUFFICES ASSUME n = 0
               PROVE  in'.limit = 0 \/ in'.at >= Len(job.data)
    BY <1>11
  <2>1. in'.limit = in.limit /\ in'.at = in.at
    BY <1>4, <1>11
  <2> QED
    BY <1>9, <1>15, <2>1
<1> QED
  BY <1>1, <1>11, <1>13, <1>14, <1>15, <1>16, <1>17, <1>18 DEF Reads

(* A line grows by what the buffer loses.                                  *)
LEMMA GatherReads ==
  ASSUME IInv, ReadOK, turn = "dump", Gather
  PROVE  Reads' /\ Passed' = Passed
<1> DEFINE a == Len(line)
           b == Len(in.buf)
           n == Least(Want - a, b)
           head == SubSeq(in.buf, 0 + 1, 0 + n)
           m == b - n
           rest == SubSeq(in.buf, n + 1, n + m)
<1>1. /\ UNCHANGED <<job, turn, text, stage>> /\ stage = "run"
      /\ Len(line) < Want
  BY DEF Gather, Running
<1>2. First >= 0 /\ Reads
  BY <1>1 DEF ReadOK
<1>3. /\ First \in Nat /\ job.limit \in Nat /\ Passed \in Int
      /\ in.at \in Nat /\ in.limit \in Nat /\ a \in Nat /\ b \in Nat /\ Want \in Nat
  BY <1>2, ReadFacts
<1>4. in.buf \in Seq(InItem) /\ line \in Seq(InItem)
  BY Parts DEF IInv, Types
<1>5. n \in Nat /\ n <= b /\ n <= Want - a /\ m \in Nat /\ n + m = b
  BY <1>1, <1>3 DEF Least
<1>6. line' = line \o head /\ in' = [in EXCEPT !.buf = rest]
  <2>1. line' = line \o SubSeq(in.buf, 1, n) /\ in' = [in EXCEPT !.buf = SubSeq(in.buf, n + 1, b)]
    <3>1. in \in InputOf(InItem)
      BY Parts
    <3> QED
      BY <3>1 DEF Gather, InputOf
  <2>2. 0 + 1 = 1 /\ 0 + n = n
    BY <1>5
  <2> HIDE DEF n
  <2> QED
    BY <1>5, <2>1, <2>2
<1> HIDE DEF n, m
<1>7. head \in Seq(InItem) /\ Len(head) = n /\ \A k \in 1 .. n : head[k] = in.buf[k]
  <2>1. head \in Seq(InItem) /\ Len(head) = n
    BY <1>3, <1>4, <1>5, Taken
  <2>2. \A k \in 1 .. n : head[k] = in.buf[0 + k]
    BY <1>3, <1>4, <1>5, Taken
  <2>3. \A k \in 1 .. n : 0 + k = k
    BY <1>5
  <2> HIDE DEF head
  <2> QED
    BY <2>1, <2>2, <2>3
<1>8. rest \in Seq(InItem) /\ Len(rest) = m /\ \A k \in 1 .. m : rest[k] = in.buf[n + k]
  BY <1>3, <1>4, <1>5, Taken
<1> HIDE DEF head, rest
<1>9. /\ line' \in Seq(InItem) /\ Len(line') = a + n
      /\ \A k \in 1 .. a + n : line'[k] = IF k <= a THEN line[k] ELSE in.buf[k - a]
  <2>1. /\ line' \in Seq(InItem) /\ Len(line') = a + n
        /\ \A k \in 1 .. a + n : line'[k] = IF k <= a THEN line[k] ELSE head[k - a]
    <3>1. /\ line \o head \in Seq(InItem) /\ Len(line \o head) = Len(line) + Len(head)
          /\ \A k \in 1 .. Len(line) + Len(head) :
               (line \o head)[k] = IF k <= Len(line) THEN line[k] ELSE head[k - Len(line)]
      BY <1>4, <1>7, ConcatProperties
    <3> QED
      BY <1>6, <1>7, <3>1
  <2>2. ASSUME NEW k \in 1 .. a + n, ~(k <= a)
        PROVE  head[k - a] = in.buf[k - a]
    <3>1. k - a \in 1 .. n
      BY <1>3, <1>5, <2>2
    <3> QED
      BY <1>7, <3>1
  <2> QED
    BY <2>1, <2>2
<1>10. /\ in'.source = in.source /\ in'.at = in.at /\ in'.limit = in.limit
       /\ in'.buf = rest /\ in'.eof = in.eof /\ in'.err = in.err
  <2>1. in \in InputOf(InItem)
    BY Parts
  <2> QED
    BY <1>6, <2>1 DEF InputOf
<1>11. DOMAIN rest = 1 .. m /\ DOMAIN line' = 1 .. a + n /\ DOMAIN line = 1 .. a /\ DOMAIN in.buf = 1 .. b
  BY <1>4, <1>8, <1>9, LenProperties
<1>12. First' = First
  BY <1>1, JobKept
<1>13. Passed = in.at - First - b - a
  BY DEF Passed
<1>14. Passed' = Passed
  BY <1>3, <1>5, <1>8, <1>9, <1>10, <1>12 DEF Passed
<1>15. /\ in.source = job.data /\ First <= in.at /\ in.limit = job.limit - (in.at - First)
       /\ in.at <= Len(job.data) \/ in.at = First
       /\ Passed >= 0
       /\ \A k \in DOMAIN line : line[k] = job.data[First + Passed + k]
       /\ \A k \in DOMAIN in.buf : in.buf[k] = job.data[in.at - b + k]
       /\ in.eof /\ ~in.err => in.limit = 0 \/ in.at >= Len(job.data)
  BY <1>2 DEF Reads
<1> HIDE DEF a, b
<1>16. \A k \in 1 .. a + n : line'[k] = job.data[First + Passed + k]
  <2> SUFFICES ASSUME NEW k \in 1 .. a + n
               PROVE  line'[k] = job.data[First + Passed + k]
    OBVIOUS
  <2>1. CASE k <= a
    <3>1. k \in 1 .. a
      BY <1>3, <1>5, <2>1
    <3> QED
      BY <1>9, <1>11, <1>15, <2>1, <3>1
  <2>2. CASE ~(k <= a)
    <3>1. k - a \in 1 .. b /\ in.at - b + (k - a) = First + Passed + k
      BY <1>3, <1>5, <1>13, <2>2
    <3>2. in.buf[k - a] = job.data[in.at - b + (k - a)]
      BY <1>11, <1>15, <3>1
    <3> QED
      BY <1>9, <2>2, <3>1, <3>2
  <2> QED
    BY <2>1, <2>2
<1>17. \A k \in 1 .. m : rest[k] = job.data[in.at - m + k]
  <2> SUFFICES ASSUME NEW k \in 1 .. m
               PROVE  rest[k] = job.data[in.at - m + k]
    OBVIOUS
  <2>1. n + k \in 1 .. b /\ in.at - b + (n + k) = in.at - m + k
    BY <1>3, <1>5
  <2> QED
    BY <1>8, <1>11, <1>15, <2>1
<1>18. Len(line') <= job.ncols
  <2>1. Len(line') <= Want
    BY <1>3, <1>5, <1>9
  <2> QED
    BY <1>2, <2>1, ReadFacts
<1>19. /\ \A k \in DOMAIN line' : line'[k] = job.data[First + Passed + k]
       /\ \A k \in DOMAIN in'.buf : in'.buf[k] = job.data[in'.at - Len(in'.buf) + k]
  BY <1>8, <1>10, <1>11, <1>16, <1>17
<1> QED
  BY <1>1, <1>10, <1>12, <1>14, <1>15, <1>18, <1>19 DEF Reads

(* Every step of reading keeps what is read, and passes nothing on.        *)
LEMMA ReadingReads ==
  ASSUME IInv, ReadOK, turn = "dump", Refill \/ ReadFails \/ Gather
  PROVE  /\ Reads' /\ Passed' = Passed /\ ~Over /\ stage = "run" /\ First >= 0
         /\ UNCHANGED <<job, turn, stage, out, todo, dump, left, status, text>>
<1>1. /\ UNCHANGED <<job, turn, stage, out, todo, dump, left, status, text>>
      /\ stage = "run" /\ ~Over
  BY DEF Refill, ReadFails, Gather, Short, Running, Over
<1>2. First >= 0 /\ Reads
  BY <1>1 DEF ReadOK
<1>3. CASE ReadFails
  <2>1. /\ in'.source = in.source /\ in'.at = in.at /\ in'.limit = in.limit
        /\ in'.buf = in.buf /\ in'.err /\ line' = line
    <3>1. in \in InputOf(InItem)
      BY Parts
    <3> QED
      BY <1>3, <3>1 DEF ReadFails, InputOf
  <2>2. First' = First
    BY <1>1, JobKept
  <2>3. Passed' = Passed
    BY <2>1, <2>2 DEF Passed
  <2>4. Reads'
    BY <1>1, <1>2, <2>1, <2>2, <2>3 DEF Reads
  <2> QED
    BY <1>1, <1>2, <2>3, <2>4
<1> QED
  BY <1>1, <1>2, <1>3, RefillReads, GatherReads

(* A line that is used up is passed on.                                    *)
LEMMA LineUsed ==
  ASSUME IInv, First >= 0, Reads, UNCHANGED <<job, turn, text, in>>, line' = <<>>
  PROVE  Reads' /\ Passed' = Passed + Len(line)
<1>1. First' = First
  BY JobKept
<1>2. /\ First \in Nat /\ Passed \in Int /\ in.at \in Nat /\ Passed >= 0
      /\ Len(in.buf) \in Nat /\ Len(line) \in Nat /\ job.ncols \in Nat /\ Len(<<>>) = 0
  BY ReadFacts, EmptySeq DEF Reads
<1>3. Passed' = Passed + Len(line)
  BY <1>1, <1>2 DEF Passed
<1>4. DOMAIN line' = {}
  OBVIOUS
<1>5. Passed' >= 0 /\ Len(line') <= job.ncols
  BY <1>2, <1>3
<1> QED
  BY <1>1, <1>3, <1>4, <1>5 DEF Reads

LEMMA LineKept ==
  ASSUME Reads, UNCHANGED <<job, turn, text, in, line>>
  PROVE  Reads' /\ Passed' = Passed /\ Over' = Over
<1>1. First' = First
  BY JobKept
<1>2. Passed' = Passed /\ Over' = Over
  BY <1>1 DEF Passed, Over
<1> QED
  BY <1>1, <1>2 DEF Reads

(* A line that is ready is full, or the last; without one, all is read.    *)
LEMMA WhatIsReady ==
  ASSUME IInv, Reads, First >= 0, Ready
  PROVE  /\ stage = "run" /\ todo = <<>>
         /\ line = <<>> => Over
         /\ line # <<>> => ~Over /\ Len(line) >= 1
         /\ Len(line) = Want \/ (in.eof /\ in.buf = <<>>)
<1>1. Len(line) \in Nat /\ Want \in Nat /\ Want > 0 /\ line \in Seq(InItem)
  BY ReadFacts DEF IInv, Types
<1>2. line = <<>> => Len(line) = 0
  BY EmptySeq
<1>3. line # <<>> => Len(line) \in Nat \ {0}
  BY <1>1, EmptySeq
<1>4. line # <<>> => Len(line) >= 1
  BY <1>3
<1> QED
  BY <1>1, <1>2, <1>4 DEF Ready, Running, Over

(* The dump reads no more than the data, and all of it.                    *)
LEMMA ReadsData ==
  ASSUME IInv, Reads, First >= 0, turn = "dump"
  PROVE  /\ Passed \in Nat /\ Len(line) \in Nat
         /\ Passed + Len(line) <= Len(Data)
         /\ \A k \in 1 .. Len(line) : line[k] = Data[Passed + k]
         /\ Over /\ ~in.err => Passed = Len(Data)
<1> DEFINE last == Least(Len(job.data), First + job.limit)
           n == in.at - First
<1>1. /\ Len(job.data) \in Nat /\ job.limit \in Nat /\ job.data \in Seq(Byte) /\ First \in Nat
  BY JobFacts
<1>2. /\ Data \in Seq(Byte) /\ Len(Data) \in Nat
      /\ Len(Data) = IF First < last THEN last - First ELSE 0
      /\ \A k \in 1 .. Len(Data) : Data[k] = job.data[First + k]
  BY DataFacts
<1>4. /\ in.at \in Nat /\ in.limit \in Nat /\ Len(in.buf) \in Nat /\ Len(line) \in Nat /\ Passed \in Int
  BY ReadFacts
<1>5. /\ First <= in.at /\ in.limit = job.limit - (in.at - First)
      /\ in.at <= Len(job.data) \/ in.at = First
      /\ Passed >= 0 /\ \A k \in DOMAIN line : line[k] = job.data[First + Passed + k]
      /\ in.eof /\ ~in.err => in.limit = 0 \/ in.at >= Len(job.data)
  BY DEF Reads
<1>6. Passed = in.at - First - Len(in.buf) - Len(line)
  BY DEF Passed
<1>7. /\ in.at - First <= Len(Data)
      /\ in.eof /\ ~in.err => in.at - First = Len(Data)
  <2> DEFINE d == Len(job.data)
             f == First + job.limit
  <2>1. last = IF d < f THEN d ELSE f
    BY DEF Least
  <2>2. d \in Nat /\ f \in Int /\ f >= First /\ (in.limit = 0 <=> in.at = f) /\ in.at <= f
    BY <1>1, <1>4, <1>5
  <2>3. in.at <= d \/ in.at = First
    BY <1>5
  <2>4. in.eof /\ ~in.err => in.at = f \/ in.at >= d
    BY <1>5, <2>2
  <2> HIDE DEF d, f, last
  <2> QED
    BY <1>1, <1>2, <1>4, <1>5, <2>1, <2>2, <2>3, <2>4
<1>8. Passed \in Nat /\ Passed + Len(line) <= Len(Data)
  BY <1>1, <1>2, <1>4, <1>5, <1>6, <1>7
<1>9. ASSUME NEW k \in 1 .. Len(line)
      PROVE  line[k] = Data[Passed + k]
  <2>1. DOMAIN line = 1 .. Len(line)
    <3>1. line \in Seq(InItem)
      BY DEF IInv, Types
    <3> QED
      BY <3>1, LenProperties
  <2>2. Passed + k \in 1 .. Len(Data) /\ First + (Passed + k) = First + Passed + k
    BY <1>1, <1>2, <1>4, <1>8
  <2> QED
    BY <1>2, <1>5, <2>1, <2>2
<1>10. Over /\ ~in.err => Passed = Len(Data)
  <2>1. Over => in.eof /\ Len(in.buf) = 0 /\ Len(line) = 0
    BY EmptySeq DEF Over
  <2> QED
    BY <1>1, <1>2, <1>4, <1>6, <1>7, <2>1
<1> QED
  BY <1>4, <1>8, <1>9, <1>10

-----------------------------------------------------------------------------
(* The beginning of the dump.                                               *)

LEMMA WhileDumping ==
  ASSUME turn' = "dump", stage' \in {"run", "last"}, ReadOK', DumpOK'
  PROVE  DInv'
BY DEF DInv, SeekOK, TextOK

LEMMA Stopped ==
  ASSUME stage' = "end", status' # "ok"
  PROVE  DInv'
BY DEF DInv, SeekOK, ReadOK, DumpOK, TextOK

(* Before anything is read, nothing is put out.                            *)
LEMMA DumpBegins ==
  ASSUME IInv, UNCHANGED job, turn' = "dump", stage' = "run", First >= 0,
         in'.source = job.data, in'.limit = job.limit, in'.buf = <<>>, ~in'.eof, in'.at = First,
         line' = <<>>, todo' = <<>>, out'.buf = <<>>, out'.file = <<>>,
         dump'.offset = Base, dump'.skipping = 0, ~dump'.prevzero
  PROVE  DInv'
<1>1. First \in Int /\ job.limit \in Nat /\ job.ncols \in Nat /\ Base \in Nat /\ MaxOff \in Nat
  BY JobFacts
<1>2. /\ First' = First /\ Base' = Base
      /\ Tells(Emitted, Passed)' <=> Tells(Emitted', Passed')
  BY JobKept
<1>4. Len(<<>>) = 0
  BY EmptySeq
<1>5. Passed' = 0
  <2>1. Passed' = First - First - Len(in'.buf) - Len(line')
    BY <1>2 DEF Passed
  <2>2. Len(in'.buf) = 0 /\ Len(line') = 0
    BY <1>4
  <2>3. First - First - 0 - 0 = 0
    BY <1>1
  <2> QED
    BY <2>1, <2>2, <2>3
<1>6. Reads'
  <2>1. DOMAIN line' = {} /\ DOMAIN in'.buf = {}
    OBVIOUS
  <2>2. Len(line') <= job.ncols /\ First - First = 0 /\ job.limit - 0 = job.limit
    BY <1>1, <1>4
  <2> QED
    BY <1>1, <1>2, <1>5, <2>1, <2>2 DEF Reads
<1>7. ReadOK'
  BY <1>2, <1>6 DEF ReadOK
<1>8. Emitted' = <<>>
  <2>1. <<>> \o <<>> = <<>>
    BY ConcatEmptySeq, EmptySeq
  <2> QED
    BY <2>1 DEF Emitted
<1>9. Tells(<<>>, 0)
  BY DEF Tells, LinesOf
<1>10. DumpOK'
  <2>1. Counts'
    BY <1>1, <1>2, <1>5 DEF Counts
  <2>2. Pending' = 0 /\ Reaches'
    BY <1>8 DEF Pending, Reaches
  <2> QED
    BY <1>2, <1>5, <1>8, <1>9, <2>1, <2>2 DEF DumpOK
<1> QED
  BY <1>7, <1>10, WhileDumping

(* A seek goes to the first of the data, and its offset is shown.          *)
LEMMA SeekTells ==
  ASSUME IInv, DInv, Seek
  PROVE  DInv'
<1> DEFINE to == SeekBase + job.seek
<1>1. /\ UNCHANGED <<job, turn, out, line, todo, text>> /\ stage = "seek"
  BY DEF Seek
<1>2. /\ turn = "dump"
      /\ in.source = job.data /\ in.limit = job.limit /\ in.buf = <<>> /\ ~in.eof /\ ~in.err
      /\ in.at = job.start
      /\ out.buf = <<>> /\ out.file = <<>> /\ ~out.err
      /\ dump.offset = job.offset /\ dump.skipping = 0 /\ ~dump.prevzero
      /\ line = <<>> /\ todo = <<>>
  BY <1>1 DEF DInv, SeekOK, IInv, Stages
<1>3. /\ job.start \in Nat /\ job.offset \in Nat /\ job.offset <= MaxOff /\ MaxOff \in Nat
      /\ job.seek \in Int /\ (IF job.minus THEN job.seek <= 0 ELSE job.seek >= 0)
      /\ Len(job.data) \in Nat /\ First \in Int
      /\ (job.seekable \/ job.start = 0)
  BY JobFacts
<1>4. in \in InputOf(InItem) /\ dump \in [offset : Int, skipping : 0 .. 2, prevzero : BOOLEAN]
  BY Parts DEF IInv, Types
<1>5. to = First \/ (job.seek = 0 /\ ~FromEnd)
  BY <1>2, <1>3 DEF SeekBase, First
<1>6. to \in Int
  BY <1>2, <1>3 DEF SeekBase
<1> HIDE DEF to
<1>7. \/ job.seek = 0 /\ ~FromEnd /\ stage' = "run" /\ UNCHANGED <<in, dump>>
      \/ /\ (job.seek # 0 \/ FromEnd) /\ to >= 0 /\ stage' = "run"
         /\ in' = [in EXCEPT !.at = to]
         /\ dump' = [dump EXCEPT !.offset = Wrap(@ + to)]
      \/ job.seek > 0 /\ ~job.seekable /\ stage' = "skip" /\ left' = job.seek /\ UNCHANGED <<in, dump>>
      \/ stage' = "end" /\ status' = "input"
  BY DEF Seek, to
<1>8. CASE job.seek = 0 /\ ~FromEnd /\ stage' = "run" /\ UNCHANGED <<in, dump>>
  <2>1. First = job.start
    BY <1>3, <1>8 DEF First
  <2>2. Base = job.offset
    <3>1. Base = Wrap(job.offset)
      <4>1. job.offset + 0 = job.offset
        BY <1>3
      <4> QED
        BY <1>8, <4>1 DEF Base
    <3>2. job.offset >= 0 /\ job.offset < 2 * (MaxOff + 1) /\ job.offset \in Int
      BY <1>3
    <3> QED
      BY <3>1, <3>2, WrapFacts
  <2>3. First >= 0
    BY <1>3, <2>1
  <2> QED
    BY <1>1, <1>2, <1>8, <2>1, <2>2, <2>3, DumpBegins
<1>9. CASE /\ (job.seek # 0 \/ FromEnd) /\ to >= 0 /\ stage' = "run"
           /\ in' = [in EXCEPT !.at = to]
           /\ dump' = [dump EXCEPT !.offset = Wrap(@ + to)]
  <2>1. to = First
    BY <1>5, <1>9
  <2>2. /\ in'.source = in.source /\ in'.limit = in.limit /\ in'.buf = in.buf /\ in'.eof = in.eof
        /\ in'.at = First
    BY <1>4, <1>9, <2>1 DEF InputOf
  <2>3. dump'.offset = Base /\ dump'.skipping = dump.skipping /\ dump'.prevzero = dump.prevzero
    <3>1. Base = Wrap(job.offset + First)
      BY <1>9 DEF Base
    <3>2. dump' = [dump EXCEPT !.offset = Base]
      BY <1>2, <1>9, <2>1, <3>1
    <3> QED
      BY <1>4, <3>2
  <2>4. First >= 0
    BY <1>9, <2>1
  <2> QED
    BY <1>1, <1>2, <1>9, <2>2, <2>3, <2>4, DumpBegins
<1>10. CASE job.seek > 0 /\ ~job.seekable /\ stage' = "skip" /\ left' = job.seek /\ UNCHANGED <<in, dump>>
  <2>1. in'.at = job'.seek - left'
    BY <1>1, <1>2, <1>3, <1>10
  <2>2. SeekOK'
    BY <1>1, <1>2, <1>10, <2>1 DEF SeekOK
  <2> QED
    BY <1>10, <2>2 DEF DInv, ReadOK, DumpOK, TextOK
<1> QED
  BY <1>7, <1>8, <1>9, <1>10, Stopped

(* What cannot be sought is read and thrown away, up to the same place.    *)
LEMMA SkippingTells ==
  ASSUME IInv, DInv, SkipRead \/ SkipFails \/ Skipped
  PROVE  DInv'
<1>1. /\ UNCHANGED <<job, turn, out, line, todo, text>> /\ stage = "skip"
  BY DEF SkipRead, SkipFails, Skipped
<1>2. /\ turn = "dump"
      /\ in.source = job.data /\ in.limit = job.limit /\ in.buf = <<>> /\ ~in.eof /\ ~in.err
      /\ in.at = job.seek - left /\ ~job.seekable /\ job.seek > 0
      /\ out.buf = <<>> /\ out.file = <<>> /\ ~out.err
      /\ dump.offset = job.offset /\ dump.skipping = 0 /\ ~dump.prevzero
      /\ line = <<>> /\ todo = <<>>
  BY <1>1 DEF DInv, SeekOK, IInv, Stages
<1>3. in \in InputOf(InItem) /\ dump \in [offset : Int, skipping : 0 .. 2, prevzero : BOOLEAN] /\ left \in Nat
  BY Parts DEF IInv, Types
<1>4. /\ job.seek \in Int /\ (IF job.minus THEN job.seek <= 0 ELSE job.seek >= 0)
      /\ (job.seekable \/ job.start = 0) /\ in.at \in Nat
  BY JobFacts, Parts
<1>5. CASE SkipRead /\ stage' = stage
  <2>1. /\ in.at < Len(in.source) /\ UNCHANGED dump
        /\ \E n \in 1 .. Least(Least(left, BufSize), Len(in.source) - in.at) :
               in' = [in EXCEPT !.at = @ + n] /\ left' = left - n
    <3>1. Len(in.source) \in Nat
      BY Parts
    <3> QED
      BY <1>1, <1>4, <1>5, <3>1 DEF SkipRead
  <2>2. PICK n \in 1 .. Least(Least(left, BufSize), Len(in.source) - in.at) :
               in' = [in EXCEPT !.at = @ + n] /\ left' = left - n
    BY <2>1
  <2>3. n \in Int
    OBVIOUS
  <2>4. /\ in'.source = in.source /\ in'.limit = in.limit /\ in'.buf = in.buf
        /\ in'.eof = in.eof /\ in'.err = in.err /\ in'.at = in.at + n
    BY <1>3, <2>2 DEF InputOf
  <2>5. in'.at = job'.seek - left'
    BY <1>1, <1>2, <1>3, <1>4, <2>2, <2>3, <2>4
  <2>6. SeekOK'
    BY <1>1, <1>2, <1>5, <2>1, <2>4, <2>5 DEF SeekOK
  <2> QED
    BY <1>1, <1>5, <2>6 DEF DInv, ReadOK, DumpOK, TextOK
<1>6. CASE stage' = "end" /\ status' = "input"
  BY <1>6, Stopped
<1>7. CASE Skipped
  <2>1. left = 0 /\ stage' = "run" /\ UNCHANGED in /\ dump' = [dump EXCEPT !.offset = Wrap(@ + job.seek)]
    BY <1>7 DEF Skipped
  <2>2. ~FromEnd /\ job.start = 0
    BY <1>2, <1>4 DEF FromEnd
  <2>3. First = job.seek /\ in.at = First
    BY <1>2, <1>4, <2>1, <2>2 DEF First
  <2>4. Base = Wrap(job.offset + First)
    BY <1>2, <2>2 DEF Base
  <2>5. dump' = [dump EXCEPT !.offset = Base]
    BY <1>2, <2>1, <2>3, <2>4
  <2>6. dump'.offset = Base /\ dump'.skipping = dump.skipping /\ dump'.prevzero = dump.prevzero
    BY <1>3, <2>5
  <2>7. First >= 0
    BY <1>2, <1>4, <2>3
  <2> QED
    BY <1>1, <1>2, <2>1, <2>3, <2>6, <2>7, DumpBegins
<1>8. SkipRead => stage' = stage \/ (stage' = "end" /\ status' = "input")
  BY DEF SkipRead
<1>9. SkipFails => stage' = "end" /\ status' = "input"
  BY DEF SkipFails
<1> QED
  BY <1>5, <1>6, <1>7, <1>8, <1>9

-----------------------------------------------------------------------------
(* Steps that do not print.                                                 *)

LEMMA DumpStays ==
  ASSUME DumpOK, turn = "dump", stage \in {"run", "last"}, UNCHANGED <<job, turn, stage, dump>>,
         Passed' = Passed, Over' = Over \/ (stage = "run" /\ ~Over),
         out'.err \/ (~out.err /\ Emitted' = Emitted)
  PROVE  DumpOK'
<1>1. /\ First' = First /\ Data' = Data /\ Base' = Base
      /\ Tells(Emitted, Passed)' <=> Tells(Emitted', Passed')
      /\ Ends(Emitted, Len(Emitted))' = Ends(Emitted', Len(Emitted'))
  BY JobKept
<1>2. SUFFICES ASSUME Dumping
               PROVE  /\ IF stage = "run" THEN Counts' ELSE Over'
                      /\ ~out'.err => /\ Passed' = 0 <=> Emitted' = <<>>
                                      /\ Tells(Emitted, Passed)' /\ Reaches'
  BY <1>1 DEF DumpOK, Dumping
<1>3. IF stage = "run" THEN Counts' ELSE Over'
  BY <1>1, <1>2 DEF DumpOK, Counts
<1>4. ASSUME ~out'.err
      PROVE  (Passed' = 0 <=> Emitted' = <<>>) /\ Tells(Emitted, Passed)' /\ Reaches'
  <2>1. ~out.err /\ Emitted' = Emitted /\ Pending' = Pending
    BY <1>4 DEF Pending
  <2>2. (Passed = 0 <=> Emitted = <<>>) /\ Tells(Emitted, Passed) /\ Reaches
    BY <1>2, <2>1 DEF DumpOK
  <2>3. Reaches'
    BY <1>1, <2>1, <2>2 DEF Reaches
  <2> QED
    BY <1>1, <2>1, <2>2, <2>3
<1> QED
  BY <1>3, <1>4

(* Reading prints nothing.                                                 *)
LEMMA ReadingTells ==
  ASSUME IInv, DInv, turn = "dump", Refill \/ ReadFails \/ Gather
  PROVE  DInv'
<1>1. /\ Reads' /\ Passed' = Passed /\ ~Over /\ stage = "run" /\ First >= 0
      /\ UNCHANGED <<job, turn, stage, out, todo, dump, left, status, text>>
  BY ReadingReads DEF DInv
<1>2. ReadOK'
  BY <1>1, JobKept DEF ReadOK
<1>3. out'.err \/ (~out.err /\ Emitted' = Emitted)
  BY <1>1, Parts DEF OutputOf, Emitted
<1>4. DumpOK'
  BY <1>1, <1>3, DumpStays DEF DInv
<1> QED
  BY <1>1, <1>2, <1>4, WhileDumping

(* What goes from behind the buffer into it, and from there into the file, *)
(* stays where it was in what is put out, unless the write fails.          *)
LEMMA PutPlaces ==
  ASSUME IInv, turn = "dump", Put
  PROVE  \/ out'.err
         \/ ~out.err /\ Emitted' = Emitted
<1> DEFINE f == out.file
           b == out.buf
           E == <<Head(todo)>>
           t == Tail(todo)
           B == Append(b, Head(todo))
           n == out.fpos + 1
           o == [out EXCEPT !.buf = B, !.fpos = n]
<1>1. /\ out \in OutputOf(OutItem) /\ b \in Seq(OutItem) /\ f \in Seq(OutItem)
      /\ out.fpos \in Nat /\ out.at \in Nat
  BY Parts
<1>2. todo \in Seq(OutItem) /\ todo # <<>> /\ ~out.err /\ todo' = t
  BY DEF IInv, Types, Put
<1>3. /\ Head(todo) \in OutItem /\ t \in Seq(OutItem)
      /\ Len(t) = Len(todo) - 1 /\ Len(todo) \in Nat
  BY <1>2, HeadTailProperties, LenProperties
<1>4. todo = E \o t /\ B = b \o E /\ E \in Seq(OutItem) /\ B \in Seq(OutItem)
  <2>1. E \in Seq(OutItem)
    BY <1>3
  <2>2. B = b \o E /\ B \in Seq(OutItem)
    BY <1>1, <1>3, AppendIsConcat, AppendProperties
  <2>3. todo = E \o t
    BY <1>2
  <2> QED
    BY <2>1, <2>2, <2>3
<1>5. out' = Flushed(o) \/ out' = o \/ out' = FlushFailed(o)
  <2>1. o = [out EXCEPT !.buf = Append(@, Head(todo)), !.fpos = @ + 1]
    BY <1>1 DEF OutputOf
  <2> QED
    BY <2>1 DEF Put
<1>6. n \in Nat
  BY <1>1
<1>7. /\ o \in OutputOf(OutItem) /\ o.buf = B /\ o.fpos = n /\ o.at = out.at
      /\ o.file = f /\ o.err = out.err
      /\ o.noseek = out.noseek /\ o.seekable = out.seekable
  <2> HIDE DEF B, n
  <2> QED
    BY <1>1, <1>4, <1>6 DEF OutputOf
<1>8. Emitted = (f \o b) \o todo
  BY DEF Emitted
<1> HIDE DEF E, t, B, o, n, f, b
<1>9. (f \o b) \o todo = f \o (B \o t) /\ (f \o B) \o t = f \o (B \o t)
  <2>1. (b \o E) \o t = b \o (E \o t)
    <3>1. b \in Seq(OutItem) /\ E \in Seq(OutItem) /\ t \in Seq(OutItem)
      BY <1>1, <1>3, <1>4
    <3> QED
      BY <3>1, ConcatAssociative
  <2>2. (f \o b) \o todo = f \o (b \o todo)
    BY <1>1, <1>2, ConcatAssociative
  <2>3. (f \o B) \o t = f \o (B \o t)
    <3>1. f \in Seq(OutItem) /\ B \in Seq(OutItem) /\ t \in Seq(OutItem)
      BY <1>1, <1>3, <1>4
    <3> QED
      BY <3>1, ConcatAssociative
  <2> QED
    BY <1>4, <2>1, <2>2, <2>3
<1>10. o.at = Len(o.file)
  BY <1>7 DEF f, IInv, Stages
<1>13. CASE out' = o
  <2>1. Emitted' = (f \o B) \o t
    BY <1>2, <1>7, <1>13 DEF Emitted
  <2> QED
    BY <1>2, <1>8, <1>9, <2>1
<1>14. CASE out' = Flushed(o)
  <2>1. /\ out'.buf = <<>> /\ out'.err = out.err
        /\ out'.file = Overlay(f, Len(f), B)
    BY <1>7, <1>10, <1>14, FlushedFacts
  <2>2. out'.file = f \o B /\ f \o B \in Seq(OutItem)
    BY <1>1, <1>4, <2>1, OverlayAtEnd, ConcatProperties DEF f
  <2>3. (f \o B) \o <<>> = f \o B
    BY <2>2, ConcatEmptySeq
  <2>4. Emitted' = (f \o B) \o t
    BY <1>2, <2>1, <2>2, <2>3 DEF Emitted
  <2> QED
    BY <1>2, <1>8, <1>9, <2>4
<1>15. CASE out' = FlushFailed(o)
  BY <1>7, <1>15, FlushFailedFacts
<1> QED
  BY <1>5, <1>13, <1>14, <1>15

LEMMA PuttingTells ==
  ASSUME IInv, DInv, turn = "dump", Put \/ Dropped
  PROVE  DInv'
<1>1. UNCHANGED <<job, turn, stage, in, line, dump, text>> /\ stage \in {"run", "last"}
  BY DEF Put, Dropped
<1>2. First >= 0 /\ Reads /\ ReadOK
  BY <1>1 DEF DInv, ReadOK
<1>3. Reads' /\ Passed' = Passed /\ Over' = Over
  BY <1>1, <1>2, LineKept
<1>4. ReadOK'
  BY <1>1, <1>2, <1>3, JobKept DEF ReadOK
<1>5. out'.err \/ (~out.err /\ Emitted' = Emitted)
  BY PutPlaces DEF Dropped
<1>6. DumpOK'
  BY <1>1, <1>3, <1>5, DumpStays DEF DInv
<1> QED
  BY <1>1, <1>4, <1>6, WhileDumping

-----------------------------------------------------------------------------
(* Lines are printed.                                                       *)

(* The lines of a dump after one more, with a star before it or without.   *)
LEMMA Appended ==
  ASSUME job.mode # "postscript", NEW s \in Seq(DumpItem), NEW l \in LineOf,
         NEW star, star = <<>> \/ star = <<Star>>
  PROVE  LET t == star \o <<l>>
             z == s \o t
             a == Len(s)
             m == a + (IF star = <<>> THEN 1 ELSE 2)
         IN  /\ t \in Seq(DumpItem) /\ z \in Seq(DumpItem) /\ Len(z) = m /\ a \in Nat
             /\ z # <<>> /\ DOMAIN z = 1 .. m /\ DOMAIN s = 1 .. a
             /\ \A i \in 1 .. a : z[i] = s[i]
             /\ z[m] = l /\ l # Star
             /\ star # <<>> => z[a + 1] = Star
<1> DEFINE t == star \o <<l>>
           z == s \o t
           a == Len(s)
           b == IF star = <<>> THEN 1 ELSE 2
<1>1. l # Star /\ l \in DumpItem /\ Star \in DumpItem
  BY StarIsNoLine DEF LineOf, DumpItem
<1>2. CASE star = <<>>
  <2>1. t = <<l>>
    BY <1>2
  <2> QED
    BY <1>1, <1>2, <2>1, ConcatProperties, LenProperties
<1>3. CASE star = <<Star>>
  <2>1. <<Star>> \in Seq(DumpItem) /\ Len(<<Star>>) = 1 /\ <<l>> \in Seq(DumpItem) /\ Len(<<l>>) = 1
    BY <1>1, <1>3
  <2>2. t \in Seq(DumpItem) /\ Len(t) = 2 /\ t[1] = Star /\ t[2] = l
    <3> DEFINE x == <<Star>>
               y == <<l>>
    <3>1. x[1] = Star /\ y[1] = l /\ t = x \o y
      BY <1>3
    <3> HIDE DEF x, y, t
    <3>2. /\ x \o y \in Seq(DumpItem) /\ Len(x \o y) = Len(x) + Len(y)
          /\ \A i \in 1 .. Len(x) + Len(y) : (x \o y)[i] = IF i <= Len(x) THEN x[i] ELSE y[i - Len(x)]
      BY <2>1, ConcatProperties DEF x, y
    <3>3. Len(x) = 1 /\ Len(y) = 1
      BY <2>1 DEF x, y
    <3> QED
      BY <3>1, <3>2, <3>3
  <2>3. star # <<>> /\ b = 2
    <3>1. <<Star>> # <<>>
      OBVIOUS
    <3> QED
      BY <1>3, <3>1
  <2> HIDE DEF t
  <2>4. a \in Nat /\ DOMAIN s = 1 .. a
    BY LenProperties
  <2>5. /\ z \in Seq(DumpItem) /\ Len(z) = a + 2
        /\ \A i \in 1 .. a + 2 : z[i] = IF i <= a THEN s[i] ELSE t[i - a]
    <3>1. /\ s \o t \in Seq(DumpItem) /\ Len(s \o t) = Len(s) + Len(t)
          /\ \A i \in 1 .. Len(s) + Len(t) :
               (s \o t)[i] = IF i <= Len(s) THEN s[i] ELSE t[i - Len(s)]
      BY <2>2, ConcatProperties
    <3> QED
      BY <2>2, <3>1
  <2> HIDE DEF z, a
  <2>6. DOMAIN z = 1 .. a + 2 /\ z # <<>>
    BY <2>4, <2>5, LenProperties
  <2>7. z[a + 1] = Star /\ z[a + 2] = l /\ \A i \in 1 .. a : z[i] = s[i]
    BY <2>2, <2>4, <2>5
  <2> QED
    BY <1>1, <2>2, <2>3, <2>4, <2>5, <2>6, <2>7 DEF t, z, a
<1> QED
  BY <1>2, <1>3

(* Lines begin and end somewhere.                                          *)
LEMMA EndsType ==
  ASSUME IInv, NEW s \in Seq(DumpItem), NEW i \in LinesOf(s)
  PROVE  /\ s[i].offset \in Int /\ s[i].bytes \in Seq(Byte) /\ Len(s[i].bytes) \in Nat
         /\ Starts(s, i) \in Int /\ Ends(s, i) \in Int
<1>1. i \in 1 .. Len(s) /\ s[i] # Star
  BY LenProperties DEF LinesOf
<1>2. s[i] \in LineOf
  BY <1>1, ElementOfSeq DEF DumpItem
<1>3. s[i].offset \in Int /\ s[i].bytes \in Seq(Byte) /\ Len(s[i].bytes) \in Nat /\ Base \in Int
  BY <1>2, LenProperties, JobFacts DEF LineOf
<1> QED
  BY <1>3 DEF Ends, Starts

(* A line is printed for what follows, or for the last zeros.              *)
LEMMA LineTells ==
  ASSUME IInv, job.mode # "postscript", NEW s \in Seq(DumpItem), NEW n \in Nat, Tells(s, n),
         NEW l \in LineOf, NEW star, NEW first \in Nat, Follows(s, n, star, l, first)
  PROVE  /\ Tells(s \o (star \o <<l>>), first + Len(l.bytes))
         /\ Ends(s \o (star \o <<l>>), Len(s \o (star \o <<l>>))) = first + Len(l.bytes)
<1>0. /\ first <= n /\ n <= first + Len(l.bytes)
      /\ star = <<>> \/ star = <<Star>>
      /\ l.offset = Base + first /\ Len(l.bytes) \in 1 .. job.ncols
      /\ \A k \in 1 .. Len(l.bytes) : l.bytes[k] = Data[first + k]
      /\ s # <<>> => IF star = <<>> THEN Ends(s, Len(s)) >= first ELSE Ends(s, Len(s)) < first
      /\ s = <<>> => star = <<>>
  BY DEF Follows
<1> USE <1>0
<1> DEFINE z == s \o (star \o <<l>>)
           a == Len(s)
           b == IF star = <<>> THEN 1 ELSE 2
           m == a + b
           len == Len(l.bytes)
           end == first + len
<1>1. /\ z \in Seq(DumpItem) /\ Len(z) = m /\ a \in Nat
      /\ z # <<>> /\ DOMAIN z = 1 .. m /\ DOMAIN s = 1 .. a
      /\ \A i \in 1 .. a : z[i] = s[i]
      /\ z[m] = l /\ l # Star
      /\ star # <<>> => z[a + 1] = Star
  BY Appended
<1>2. /\ job.ncols \in Nat /\ Base \in Nat /\ len \in Nat /\ len >= 1 /\ len <= job.ncols
      /\ l.offset \in Int /\ l.bytes \in Seq(Byte) /\ b \in {1, 2} /\ m \in Nat /\ m > a
  <2>1. l.offset \in Int /\ l.bytes \in Seq(Byte)
    BY DEF LineOf
  <2>2. len \in Nat
    BY <2>1, LenProperties
  <2>3. job.ncols \in Nat /\ Base \in Nat
    BY JobFacts
  <2>4. b \in {1, 2}
    OBVIOUS
  <2>5. m \in Nat /\ m > a
    BY <1>1, <2>4
  <2> HIDE DEF b, m
  <2> QED
    BY <2>1, <2>2, <2>3, <2>4, <2>5
<1>3. DOMAIN l.bytes = 1 .. len
  BY <1>2, LenProperties
<1> HIDE DEF z
<1>4. Starts(z, m) = first
  BY <1>1, <1>2 DEF Starts
<1>5. Ends(z, m) = end
  BY <1>1, <1>4 DEF Ends
<1>6. \A i \in 1 .. a : Starts(z, i) = Starts(s, i) /\ Ends(z, i) = Ends(s, i) /\ Covers(z, i) = Covers(s, i)
  BY <1>1 DEF Starts, Ends, Covers
<1>7. /\ \A i \in LinesOf(s) : i \in 1 .. a /\ i \in LinesOf(z)
      /\ \A i \in LinesOf(z) : i \in LinesOf(s) \/ i = m
      /\ m \in LinesOf(z) /\ \A i \in DOMAIN z : i \in 1 .. a \/ i = m \/ (i = a + 1 /\ b = 2)
  <2>5. a \in Nat /\ b \in {1, 2}
    BY <1>1, <1>2
  <2>1. \A i \in 1 .. m : i \in 1 .. a \/ i = m \/ (i = a + 1 /\ b = 2)
    <3> HIDE DEF a, b
    <3> QED
      BY <2>5
  <2>2. (\A i \in 1 .. a : i \in 1 .. m) /\ m \in 1 .. m
    <3> HIDE DEF a, b
    <3> QED
      BY <2>5
  <2> HIDE DEF m, b
  <2>4. b = 2 => star # <<>>
    BY DEF b
  <2> QED
    BY <1>1, <2>1, <2>2, <2>4 DEF LinesOf
<1> HIDE DEF a, b, len
<1>8. ASSUME NEW i \in LinesOf(z)
      PROVE  Shows(z, i, end)
  <2>1. CASE i \in LinesOf(s)
    <3>1. Shows(s, i, n) /\ i \in 1 .. a /\ z[i] = s[i]
      BY <1>1, <1>7, <2>1 DEF Tells
    <3>2. n <= end /\ end \in Nat /\ first \in Int
      BY <1>2 DEF len
    <3>3. Ends(s, i) \in Int
      BY <2>1, EndsType
    <3>4. Ends(s, i) <= end
      <4>1. Ends(s, i) <= n
        BY <3>1 DEF Shows
      <4> HIDE DEF end
      <4> QED
        BY <3>2, <3>3, <4>1
    <3> QED
      BY <1>6, <3>1, <3>4 DEF Shows
  <2>2. CASE i = m
    <3>1. end <= end /\ first >= 0
      BY <1>2 DEF len
    <3> HIDE DEF m, end
    <3> QED
      BY <1>1, <1>2, <1>3, <1>4, <1>5, <2>2, <3>1 DEF Shows, len
  <2> QED
    BY <1>7, <2>1, <2>2
<1>9. ASSUME NEW q \in 1 .. end
      PROVE  (\E i \in LinesOf(z) : q \in Covers(z, i)) \/ Data[q] = 0
  <2>1. CASE q <= n
    <3>1. q \in 1 .. n
      BY <2>1
    <3>2. (\E i \in LinesOf(s) : q \in Covers(s, i)) \/ Data[q] = 0
      BY <3>1 DEF Tells
    <3> QED
      BY <1>6, <1>7, <3>2
  <2>2. CASE ~(q <= n)
    <3>1. q \in first + 1 .. end
      BY <1>2, <2>2 DEF len
    <3>2. q \in Covers(z, m)
      BY <1>4, <1>5, <3>1 DEF Covers
    <3> QED
      BY <1>7, <3>2
  <2> QED
    BY <2>1, <2>2
<1>10. ASSUME NEW i \in DOMAIN z
       PROVE  Joins(z, i)
  <2>1. CASE i \in 1 .. a
    <3>1. Joins(s, i) /\ z[i] = s[i]
      BY <1>1, <2>1 DEF Tells
    <3>2. i - 1 \in LinesOf(z) <=> i - 1 \in LinesOf(s)
      <4>1. i - 1 # m
        BY <1>1, <1>2, <2>1
      <4> QED
        BY <1>7, <4>1
    <3>3. i + 1 \in LinesOf(s) => i + 1 \in LinesOf(z)
      BY <1>7
    <3>4. /\ i - 1 \in LinesOf(s) => Ends(z, i - 1) = Ends(s, i - 1)
          /\ i + 1 \in LinesOf(s) => Starts(z, i + 1) = Starts(s, i + 1)
          /\ Starts(z, i) = Starts(s, i)
      BY <1>6, <1>7, <2>1
    <3> QED
      BY <3>1, <3>2, <3>3, <3>4 DEF Joins
  <2>2. CASE i = m /\ b = 1
    <3>1. i - 1 = a /\ star = <<>>
      BY <1>1, <2>2 DEF b
    <3>2. ASSUME a \in LinesOf(z)
          PROVE  Ends(z, a) >= Starts(z, m)
      <4>1. a # m
        BY <1>1, <1>2
      <4>2. a \in 1 .. a /\ s # <<>>
        BY <1>7, <3>2, <4>1 DEF LinesOf
      <4>3. Ends(s, a) >= first
        BY <3>1, <4>2 DEF a
      <4> QED
        BY <1>4, <1>6, <4>2, <4>3
    <3> QED
      BY <1>1, <2>2, <3>1, <3>2 DEF Joins
  <2>3. CASE i = a + 1 /\ b = 2
    <3>1. i - 1 = a /\ i + 1 = m /\ star # <<>> /\ s # <<>>
      BY <1>1, <2>3 DEF b
    <3>2. a \in LinesOf(s)
      <4>1. s[a] # Star
        BY <3>1 DEF Tells, a
      <4>2. a \in Nat \ {0}
        BY <3>1, EmptySeq DEF a
      <4>3. a \in 1 .. a
        BY <4>2
      <4> QED
        BY <1>1, <4>1, <4>3 DEF LinesOf
    <3>3. Ends(s, a) < first
      BY <3>1 DEF a
    <3>4. Ends(z, a) < Starts(z, m)
      BY <1>4, <1>6, <1>7, <3>2, <3>3
    <3> HIDE DEF m
    <3> QED
      BY <1>1, <1>7, <2>3, <3>1, <3>2, <3>4 DEF Joins
  <2>4. b = 1 \/ b = 2
    BY <1>2
  <2>5. b = 2 /\ i = m => z[i] # Star /\ i - 1 \notin LinesOf(z)
    <3> SUFFICES ASSUME b = 2, i = m
                 PROVE  z[i] # Star /\ i - 1 \notin LinesOf(z)
      OBVIOUS
    <3>1. i - 1 = a + 1 /\ star # <<>>
      BY <1>1 DEF b
    <3> QED
      BY <1>1, <3>1 DEF LinesOf
  <2>6. b = 2 /\ i = m => Joins(z, i)
    BY <2>5 DEF Joins
  <2> QED
    BY <1>7, <2>1, <2>2, <2>3, <2>4, <2>6
<1>11. Tells(z, end)
  <2>1. z[Len(z)] # Star
    BY <1>1
  <2> HIDE DEF end
  <2> QED
    BY <1>8, <1>9, <1>10, <2>1 DEF Tells
<1> QED
  BY <1>1, <1>5, <1>11 DEF z, a, len

(* Zeros may be left out.                                                  *)
LEMMA ZerosTold ==
  ASSUME IInv, NEW s \in Seq(DumpItem), NEW n \in Nat, NEW m \in Nat, n <= m, Tells(s, n),
         \A q \in n + 1 .. m : Data[q] = 0
  PROVE  Tells(s, m)
<1>1. ASSUME NEW i \in LinesOf(s)
      PROVE  Shows(s, i, m)
  <2>1. Shows(s, i, n)
    BY DEF Tells
  <2>4. Ends(s, i) \in Int
    BY EndsType
  <2>5. Ends(s, i) <= n
    BY <2>1 DEF Shows
  <2>6. Ends(s, i) <= m
    BY <2>4, <2>5
  <2> QED
    BY <2>1, <2>6 DEF Shows
<1>2. ASSUME NEW q \in 1 .. m
      PROVE  (\E i \in LinesOf(s) : q \in Covers(s, i)) \/ Data[q] = 0
  <2>1. q \in 1 .. n \/ q \in n + 1 .. m
    OBVIOUS
  <2> QED
    BY <2>1 DEF Tells
<1> QED
  BY <1>1, <1>2 DEF Tells

(* What is put out ends with a line.                                       *)
LEMMA LastEnds ==
  ASSUME IInv, NEW s \in Seq(DumpItem), s # <<>>, s[Len(s)] # Star
  PROVE  Ends(s, Len(s)) \in Int
<1>1. Len(s) \in Nat \ {0} /\ DOMAIN s = 1 .. Len(s)
  BY EmptySeq, LenProperties
<1>2. Len(s) \in LinesOf(s)
  BY <1>1 DEF LinesOf
<1> QED
  BY <1>2, EndsType

(* Where the end of the last line is, by what was left out behind it.      *)
LEMMA EndsSoFar ==
  ASSUME IInv, DInv, stage = "run", Dumping, ~out.err, todo = <<>>
  PROVE  LET s == Emitted
             E == Ends(s, Len(s))
         IN  /\ s \in Seq(DumpItem) /\ s = out.file \o out.buf
             /\ Tells(s, Passed) /\ (Passed = 0 <=> s = <<>>)
             /\ s # <<>> => /\ E \in Int
                            /\ dump.skipping = 0 => E = Passed
                            /\ dump.skipping = 1 => E = Passed - job.ncols
                            /\ dump.skipping = 2 => E < Passed - job.ncols
<1> DEFINE f == out.file
           b == out.buf
<1>1. f \in Seq(DumpItem) /\ b \in Seq(DumpItem)
  BY Parts DEF OutItem, Dumping
<1>2. Emitted = (f \o b) \o <<>>
  BY DEF Emitted
<1> HIDE DEF f, b
<1>3. f \o b \in Seq(DumpItem) /\ (f \o b) \o <<>> = f \o b
  BY <1>1, ConcatProperties, ConcatEmptySeq
<1>4. Emitted \in Seq(DumpItem) /\ Emitted = f \o b
  BY <1>2, <1>3
<1>5. Tells(Emitted, Passed) /\ Reaches /\ (Passed = 0 <=> Emitted = <<>>)
  BY DEF DInv, DumpOK
<1>6. Pending = dump.skipping
  BY DEF Pending
<1>7. Emitted # <<>> => Ends(Emitted, Len(Emitted)) \in Int
  BY <1>4, <1>5, LastEnds DEF Tells
<1> QED
  BY <1>4, <1>5, <1>6, <1>7 DEF Reaches, f, b

(* A line is printed where the last one ended, or left out if it is zeros  *)
(* behind zeros.                                                           *)
LEMMA PrintingTells ==
  ASSUME IInv, DInv, PrintLine
  PROVE  DInv'
<1> DEFINE n == Passed
           len == Len(line)
           skip == Skips /\ dump.prevzero
           star == IF dump.skipping > 0 THEN <<Star>> ELSE <<>>
           l == LineAt(dump.offset, line)
           s == Emitted
           E == Ends(s, Len(s))
<1>1. /\ UNCHANGED <<job, turn, stage, in, out, text>> /\ line' = <<>>
      /\ turn = "dump" /\ Ready /\ line # <<>>
      /\ dump'.offset = Wrap(dump.offset + Advance) /\ dump'.prevzero = Skips
      /\ dump'.skipping = IF skip THEN Least(dump.skipping + 1, 2) ELSE 0
      /\ todo' = IF skip THEN <<>> ELSE star \o <<l>>
  BY DEF PrintLine
<1>2. stage = "run"
  BY <1>1 DEF Ready, Running
<1>3. First >= 0 /\ Reads
  BY <1>1, <1>2 DEF DInv, ReadOK
<1>4. /\ todo = <<>> /\ ~Over /\ len >= 1 /\ (len = job.ncols \/ (in.eof /\ in.buf = <<>>))
      /\ len \in Nat /\ len <= job.ncols
  BY <1>1, <1>3, WhatIsReady, ReadFacts DEF Reads
<1>5. /\ n \in Nat /\ n + len <= Len(Data)
      /\ \A k \in 1 .. len : line[k] = Data[n + k]
  BY <1>1, <1>3, ReadsData
<1>6. /\ Len(Data) \in Nat
      /\ job.ncols \in Nat /\ Base \in Nat /\ MaxOff \in Nat /\ line \in Seq(Byte)
      /\ dump.skipping \in 0 .. 2 /\ dump.offset \in Int
  BY <1>1, <1>3, DataFacts, JobFacts DEF IInv, Types, InItem
<1>7. Reads' /\ Passed' = n + len
  BY <1>1, <1>3, LineUsed
<1>8. /\ First' = First /\ Data' = Data /\ Base' = Base
      /\ Tells(Emitted, Passed)' <=> Tells(Emitted', Passed')
      /\ Ends(Emitted, Len(Emitted))' = Ends(Emitted', Len(Emitted'))
  BY <1>1, JobKept
<1>9. ReadOK'
  BY <1>3, <1>7, <1>8 DEF ReadOK
<1>10. SUFFICES ASSUME Dumping
                PROVE  /\ Counts'
                       /\ ~out.err => /\ Passed' # 0 /\ Emitted' # <<>>
                                      /\ Tells(Emitted', Passed') /\ Reaches'
  <2>1. Dumping' <=> Dumping
    BY <1>1, <1>8 DEF Dumping
  <2>2. DumpOK'
    BY <1>1, <1>2, <1>8, <1>10, <2>1 DEF DumpOK
  <2> QED
    BY <1>1, <1>2, <1>9, <2>2, WhileDumping
<1>11. /\ dump.offset = Base + n /\ (dump.prevzero => n > 0) /\ (dump.skipping > 0 => n > job.ncols)
       /\ Base + Len(Data) <= MaxOff /\ job.mode # "postscript"
  BY <1>2, <1>4, <1>10 DEF DInv, DumpOK, Counts, Dumping
<1>12. ASSUME Skips
       PROVE  len = job.ncols /\ \A q \in n + 1 .. n + len : Data[q] = 0
  <2>1. len = job.ncols /\ line = Zeros(job.ncols)
    BY <1>12 DEF Skips, Empty
  <2>2. ASSUME NEW q \in n + 1 .. n + len
        PROVE  Data[q] = 0
    <3>1. q - n \in 1 .. len /\ n + (q - n) = q
      BY <1>4, <1>5
    <3>2. line[q - n] = 0
      BY <2>1, <3>1 DEF Zeros
    <3> QED
      BY <1>5, <3>1, <3>2
  <2> QED
    BY <2>1, <2>2
<1>13. Passed' > 0 /\ Passed' # 0
  BY <1>4, <1>5, <1>7
<1> HIDE DEF n, len
<1>14. Counts'
  <2>1. ASSUME len = job.ncols
        PROVE  dump'.offset = Base + Passed'
    <3>1. dump.offset + Advance = Base + Passed'
      <4>1. Advance = len
        BY <2>1 DEF Advance, len
      <4> QED
        BY <1>4, <1>5, <1>6, <1>7, <1>11, <4>1
    <3>2. Base + Passed' \in Int /\ Base + Passed' >= 0 /\ Base + Passed' < 2 * (MaxOff + 1)
      BY <1>4, <1>5, <1>6, <1>7, <1>11
    <3> QED
      BY <1>1, <3>1, <3>2, WrapFacts
  <2>2. len # job.ncols => Over' /\ dump'.skipping = 0
    BY <1>1, <1>4, <1>12 DEF Over
  <2>3. ASSUME dump'.skipping > 0
        PROVE  Passed' > job.ncols /\ \A q \in Passed' - job.ncols + 1 .. Passed' : Data[q] = 0
    <3>1. Skips /\ dump.prevzero
      BY <1>1, <2>3
    <3>2. Passed' > job.ncols /\ Passed' - job.ncols + 1 = n + 1
      BY <1>4, <1>5, <1>6, <1>7, <1>11, <1>12, <3>1
    <3> QED
      BY <1>7, <1>12, <3>1, <3>2
  <2> QED
    BY <1>1, <1>8, <1>13, <2>1, <2>2, <2>3 DEF Counts
<1>15. ASSUME ~out.err
       PROVE  Emitted' # <<>> /\ Tells(Emitted', Passed') /\ Reaches'
  <2>1. /\ s \in Seq(DumpItem) /\ s = out.file \o out.buf /\ Tells(s, n) /\ (n = 0 <=> s = <<>>)
        /\ s # <<>> => /\ E \in Int
                       /\ dump.skipping = 0 => E = n
                       /\ dump.skipping = 1 => E = n - job.ncols
                       /\ dump.skipping = 2 => E < n - job.ncols
    BY <1>2, <1>4, <1>10, <1>15, EndsSoFar DEF n
  <2>2. Emitted' = s \o todo'
    BY <1>1, <2>1 DEF Emitted
  <2>3. Pending' = dump'.skipping
    BY <1>1, <1>2 DEF Pending
  <2> HIDE DEF s, E
  <2>4. CASE skip
    <3>1. Emitted' = s
      BY <1>1, <2>1, <2>2, <2>4, ConcatEmptySeq
    <3>2. s # <<>> /\ len = job.ncols
      BY <1>5, <1>11, <1>12, <2>1, <2>4
    <3>3. dump'.skipping = IF dump.skipping = 0 THEN 1 ELSE 2
      BY <1>1, <1>6, <2>4 DEF Least
    <3>4. Tells(s, Passed')
      <4>1. n \in Nat /\ n + len \in Nat /\ n <= n + len
        BY <1>4, <1>5
      <4> QED
        BY <1>7, <1>12, <2>1, <2>4, <4>1, ZerosTold
    <3>5. /\ dump'.skipping = 1 => E = Passed' - job.ncols
          /\ dump'.skipping = 2 => E < Passed' - job.ncols
          /\ dump'.skipping # 0
      <4>1. E \in Int /\ n \in Nat /\ job.ncols \in Nat /\ job.ncols > 0 /\ Passed' = n + job.ncols
        BY <1>4, <1>5, <1>6, <1>7, <2>1, <3>2
      <4>2. Passed' - job.ncols = n /\ n - job.ncols < n
        BY <4>1
      <4>3. dump.skipping \in {0, 1, 2} /\ (dump.skipping = 2 => E < n)
        BY <1>6, <2>1, <3>2, <4>1
      <4> QED
        BY <2>1, <3>2, <3>3, <4>2, <4>3
    <3>6. Reaches'
      BY <1>1, <1>8, <2>3, <3>1, <3>5 DEF Reaches, E
    <3> QED
      BY <3>1, <3>2, <3>4, <3>6
  <2>5. CASE ~skip
    <3>1. todo' = star \o <<l>> /\ dump'.skipping = 0
      BY <1>1, <2>5
    <3>2. l \in LineOf /\ l.offset = Base + n /\ l.bytes = line
      BY <1>6, <1>11 DEF LineAt, LineOf
    <3>3. star = <<>> \/ star = <<Star>>
      OBVIOUS
    <3>4. star = <<>> <=> dump.skipping = 0
      <4>1. <<Star>> # <<>>
        OBVIOUS
      <4> QED
        BY <1>6, <4>1
    <3> HIDE DEF star, l
    <3> DEFINE z == s \o (star \o <<l>>)
    <3>5. z # <<>>
      BY <1>11, <2>1, <3>2, <3>3, Appended
    <3>6. Emitted' = z
      BY <2>2, <3>1
    <3>7. Tells(z, Passed') /\ Ends(z, Len(z)) = Passed'
      <4>1. s # <<>> => IF star = <<>> THEN Ends(s, Len(s)) >= n ELSE Ends(s, Len(s)) < n
        <5> SUFFICES ASSUME s # <<>>
                     PROVE  IF star = <<>> THEN Ends(s, Len(s)) >= n ELSE Ends(s, Len(s)) < n
          OBVIOUS
        <5>1. IF star = <<>> THEN E >= n ELSE E < n
          BY <1>4, <1>5, <1>6, <2>1, <3>4
        <5> QED
          BY <5>1 DEF E
      <4>2. s = <<>> => star = <<>>
        BY <1>6, <1>11, <2>1, <3>4
      <4>3. len = Len(l.bytes)
        BY <3>2 DEF len
      <4>4. /\ n \in Nat /\ n <= n /\ n <= n + Len(l.bytes) /\ Len(l.bytes) \in 1 .. job.ncols
            /\ \A k \in 1 .. Len(l.bytes) : l.bytes[k] = Data[n + k]
        BY <1>4, <1>5, <1>6, <3>2, <4>3
      <4>5. Tells(z, n + Len(l.bytes)) /\ Ends(z, Len(z)) = n + Len(l.bytes)
        <5>1. s \in Seq(DumpItem) /\ Tells(s, n) /\ job.mode # "postscript"
          BY <1>11, <2>1
        <5>2. Follows(s, n, star, l, n)
          BY <3>2, <3>3, <4>1, <4>2, <4>4 DEF Follows
        <5> QED
          BY <3>2, <4>4, <5>1, <5>2, LineTells DEF z
      <4> QED
        BY <1>7, <4>3, <4>5
    <3> HIDE DEF z
    <3>8. Reaches'
      BY <1>1, <1>8, <2>3, <3>1, <3>6, <3>7 DEF Reaches
    <3> QED
      BY <3>5, <3>6, <3>7, <3>8
  <2> QED
    BY <2>4, <2>5
<1> QED
  BY <1>13, <1>14, <1>15

(* At the end of the input the last of the lines that were left out is     *)
(* printed, and there was one only if zeros were left out.                 *)
LEMMA EndingTells ==
  ASSUME IInv, DInv, EndOfInput
  PROVE  DInv'
<1> DEFINE n == Passed
           nc == job.ncols
           first == n - nc
           star == IF dump.skipping = 2 THEN <<Star>> ELSE <<>>
           zeros == Zeros(nc)
           l == LineAt(Wrap(dump.offset - nc), zeros)
           s == Emitted
           E == Ends(s, Len(s))
<1>1. /\ UNCHANGED <<job, turn, in, out, line, dump, text>> /\ line = <<>>
      /\ turn = "dump" /\ Ready /\ stage' = "last"
      /\ ~out.err => todo' = IF dump.skipping = 0 THEN <<>> ELSE star \o <<l>>
  BY DEF EndOfInput, LastSkipped
<1>2. stage = "run"
  BY <1>1 DEF Ready, Running
<1>3. First >= 0 /\ Reads
  BY <1>1, <1>2 DEF DInv, ReadOK
<1>4. todo = <<>> /\ Over
  BY <1>1, <1>3, WhatIsReady
<1>5. Reads' /\ Passed' = n /\ Over'
  BY <1>1, <1>3, <1>4, LineKept
<1>6. n \in Nat /\ n <= Len(Data) /\ Len(Data) \in Nat
  <2>1. Passed \in Nat /\ Len(line) \in Nat /\ Passed + Len(line) <= Len(Data) /\ Len(Data) \in Nat
    BY <1>1, <1>3, ReadsData, DataFacts
  <2> HIDE DEF n
  <2> QED
    BY <2>1 DEF n
<1>7. nc \in Nat /\ nc > 0 /\ Base \in Nat /\ MaxOff \in Nat /\ dump.skipping \in {0, 1, 2}
  BY JobFacts DEF IInv, Types
<1>8. /\ First' = First /\ Data' = Data /\ Base' = Base
      /\ Tells(Emitted, Passed)' <=> Tells(Emitted', Passed')
      /\ Ends(Emitted, Len(Emitted))' = Ends(Emitted', Len(Emitted'))
  BY <1>1, JobKept
<1>9. ReadOK'
  BY <1>3, <1>5, <1>8 DEF ReadOK
<1>10. SUFFICES ASSUME Dumping, ~out.err
                PROVE  (Passed' = 0 <=> Emitted' = <<>>) /\ Tells(Emitted', Passed') /\ Reaches'
  <2>1. Dumping' <=> Dumping
    BY <1>1, <1>8 DEF Dumping
  <2>2. DumpOK'
    BY <1>1, <1>5, <1>8, <1>10, <2>1 DEF DumpOK
  <2> QED
    BY <1>1, <1>9, <2>2, WhileDumping
<1>11. Base + Len(Data) <= MaxOff /\ job.mode # "postscript"
  BY <1>10 DEF Dumping
<1>12. /\ s \in Seq(DumpItem) /\ s = out.file \o out.buf /\ Tells(s, n) /\ (n = 0 <=> s = <<>>)
       /\ s # <<>> => /\ E \in Int
                      /\ dump.skipping = 0 => E = n
                      /\ dump.skipping = 1 => E = n - nc
                      /\ dump.skipping = 2 => E < n - nc
  BY <1>2, <1>4, <1>10, EndsSoFar
<1>13. Emitted' = s \o todo' /\ Pending' = 0
  BY <1>1, <1>12 DEF Emitted, Pending
<1> HIDE DEF s, E
<1>14. CASE dump.skipping = 0
  <2>1. Emitted' = s
    BY <1>1, <1>10, <1>12, <1>13, <1>14, ConcatEmptySeq
  <2>2. s # <<>> => E = n
    BY <1>12, <1>14
  <2>3. Reaches'
    BY <1>5, <1>8, <1>13, <2>1, <2>2 DEF Reaches, E
  <2> QED
    BY <1>5, <1>12, <2>1, <2>3
<1>15. CASE dump.skipping # 0
  <2>1. /\ dump.offset = Base + n /\ n > nc
        /\ \A q \in n - nc + 1 .. n : Data[q] = 0
    <3>1. dump.skipping > 0
      BY <1>7, <1>15
    <3> QED
      BY <1>2, <1>10, <1>15, <3>1 DEF DInv, DumpOK, Counts
  <2> HIDE DEF n, nc
  <2>2. first \in Nat /\ first <= n /\ first + nc = n /\ n <= first + nc
    BY <1>6, <1>7, <2>1
  <2>3. zeros \in Seq(Byte) /\ Len(zeros) = nc /\ \A k \in 1 .. nc : zeros[k] = 0
    <3>1. zeros \in Seq(Byte)
      BY <1>7, ZerosType
    <3>2. \A k \in 1 .. nc : zeros[k] = 0
      BY DEF Zeros
    <3>3. DOMAIN zeros = 1 .. nc
      BY DEF Zeros
    <3> HIDE DEF zeros
    <3>4. DOMAIN zeros = 1 .. Len(zeros) /\ Len(zeros) \in Nat
      BY <3>1, LenProperties
    <3>5. nc \in 1 .. nc
      BY <1>7
    <3>6. nc \in 1 .. Len(zeros)
      BY <3>3, <3>4, <3>5
    <3>7. Len(zeros) \in 1 .. Len(zeros)
      BY <3>4, <3>6
    <3>8. Len(zeros) \in 1 .. nc
      BY <3>3, <3>4, <3>7
    <3>9. Len(zeros) = nc
      <4>1. nc <= Len(zeros) /\ Len(zeros) <= nc /\ nc \in Nat /\ Len(zeros) \in Nat
        BY <1>7, <3>4, <3>6, <3>8
      <4>2. \A x, y \in Nat : x <= y /\ y <= x => x = y
        OBVIOUS
      <4> QED
        BY <4>1, <4>2, Zenon
    <3> QED
      BY <3>1, <3>2, <3>9
  <2>4. l.offset = Base + first /\ l.bytes = zeros /\ l \in LineOf
    <3> DEFINE x == dump.offset - nc
    <3>1. x = Base + first /\ x \in Int /\ x >= 0 /\ x < 2 * (MaxOff + 1)
      <4>1. Base + first <= MaxOff
        BY <1>6, <1>7, <1>11, <2>2
      <4>2. x = Base + first
        BY <1>6, <1>7, <2>1, <2>2
      <4>3. \A b, f, m \in Nat : b + f <= m => b + f \in Int /\ b + f >= 0 /\ b + f < 2 * (m + 1)
        OBVIOUS
      <4> HIDE DEF x, first
      <4> QED
        BY <1>7, <2>2, <4>1, <4>2, <4>3
    <3> HIDE DEF x
    <3>2. Wrap(x) = Base + first /\ Wrap(x) \in Int
      <4>1. Wrap(x) = x
        BY <3>1, WrapFacts
      <4> QED
        BY <3>1, <4>1
    <3>3. l = LineAt(Wrap(x), zeros)
      BY DEF x
    <3> HIDE DEF l, zeros
    <3> QED
      BY <2>3, <3>2, <3>3 DEF LineAt, LineOf
  <2>5. (star = <<>> \/ star = <<Star>>) /\ (star = <<>> <=> dump.skipping # 2)
    <3>1. <<Star>> # <<>>
      OBVIOUS
    <3> QED
      BY <3>1
  <2> HIDE DEF star, l, zeros
  <2> DEFINE z == s \o (star \o <<l>>)
  <2>6. z # <<>>
    BY <1>11, <1>12, <2>4, <2>5, Appended
  <2>7. Emitted' = z
    BY <1>1, <1>10, <1>13, <1>15
  <2>8. Tells(z, n) /\ Ends(z, Len(z)) = n
    <3>1. s # <<>> => IF star = <<>> THEN Ends(s, Len(s)) >= first ELSE Ends(s, Len(s)) < first
      <4> SUFFICES ASSUME s # <<>>
                   PROVE  IF star = <<>> THEN E >= first ELSE E < first
        BY DEF E
      <4>1. CASE dump.skipping = 1
        BY <1>12, <2>2, <2>5, <4>1
      <4>2. CASE dump.skipping = 2
        BY <1>12, <2>5, <4>2
      <4> QED
        BY <1>7, <1>15, <4>1, <4>2
    <3>2. s # <<>>
      BY <1>7, <1>12, <2>1
    <3>3. Len(l.bytes) = nc /\ Len(l.bytes) \in 1 .. job.ncols
      BY <1>7, <2>3, <2>4 DEF nc
    <3>4. \A k \in 1 .. Len(l.bytes) : l.bytes[k] = Data[first + k]
      <4> SUFFICES ASSUME NEW k \in 1 .. nc
                   PROVE  l.bytes[k] = Data[first + k]
        BY <3>3
      <4>1. first + k \in n - nc + 1 .. n
        BY <1>6, <1>7
      <4> QED
        BY <2>1, <2>3, <2>4, <4>1
    <3>5. s \in Seq(DumpItem) /\ Tells(s, n) /\ job.mode # "postscript" /\ n \in Nat
      BY <1>6, <1>11, <1>12
    <3>6. n <= first + Len(l.bytes) /\ first + Len(l.bytes) = n
      BY <2>2, <3>3
    <3>7. first \in Nat /\ first <= n
      BY <2>2
    <3> HIDE DEF first
    <3>8. Tells(z, first + Len(l.bytes)) /\ Ends(z, Len(z)) = first + Len(l.bytes)
      <4>1. Follows(s, n, star, l, first)
        BY <2>4, <2>5, <3>1, <3>2, <3>3, <3>4, <3>6, <3>7 DEF Follows
      <4> QED
        BY <2>4, <3>5, <3>7, <4>1, LineTells DEF z
    <3> QED
      BY <3>6, <3>8
  <2> HIDE DEF z
  <2>9. Reaches'
    BY <1>5, <1>8, <1>13, <2>7, <2>8 DEF Reaches
  <2> QED
    BY <1>5, <1>6, <1>7, <2>1, <2>6, <2>7, <2>8, <2>9
<1> QED
  BY <1>14, <1>15

(* What was put out is in the file when the dump ends well.                *)
LEMMA FinishingTells ==
  ASSUME IInv, DInv, turn = "dump", Finish
  PROVE  DInv'
<1>1. /\ UNCHANGED <<job, turn, in, line, todo, dump>> /\ stage = "last" /\ stage' = "end"
      /\ todo = <<>> /\ text' = out'.file
      /\ out' = Drained(out) \/ out' = FlushFailed(out)
      /\ status' = StatusOf(out')
  BY DEF Finish
<1>2. /\ First' = First /\ Data' = Data /\ Base' = Base
      /\ Tells(text, Len(Data))' <=> Tells(text', Len(Data))
      /\ Ends(text, Len(text))' = Ends(text', Len(text'))
  BY <1>1, JobKept
<1>3. CASE status' # "ok"
  BY <1>1, <1>3, Stopped
<1>4. CASE status' = "ok"
  <2>1. ~out'.err /\ ~in.err
    BY <1>1, <1>4 DEF StatusOf
  <2> DEFINE f == out.file
             b == out.buf
  <2>2. /\ out \in OutputOf(OutItem) /\ f \in Seq(OutItem) /\ b \in Seq(OutItem)
        /\ out.at = Len(f)
    BY Parts DEF IInv, Stages
  <2>3. out' = Drained(out) /\ ~out.err
    <3>1. Drained(out).err = out.err /\ FlushFailed(out).err = TRUE
      BY <2>2, DrainedFacts, FlushFailedFacts
    <3> QED
      BY <1>1, <2>1, <3>1
  <2>4. out'.file = IF b = <<>> THEN f ELSE Overlay(f, Len(f), b)
    BY <2>2, <2>3, DrainedFacts
  <2>5. Emitted = (f \o b) \o <<>>
    BY <1>1 DEF Emitted
  <2>6. text' = out'.file
    BY <1>1
  <2> HIDE DEF f, b
  <2>7. text' = Emitted
    <3>1. f \o b \in Seq(OutItem) /\ (f \o b) \o <<>> = f \o b /\ f \o <<>> = f
      BY <2>2, ConcatProperties, ConcatEmptySeq
    <3>2. Overlay(f, Len(f), b) = f \o b
      BY <2>2, OverlayAtEnd
    <3> QED
      BY <2>4, <2>5, <2>6, <3>1, <3>2
  <2>8. First >= 0 /\ Reads
    BY <1>1 DEF DInv, ReadOK
  <2>9. SUFFICES ASSUME Dumping
                 PROVE  /\ Data = <<>> <=> text' = <<>>
                        /\ Tells(text', Len(Data))
                        /\ text' # <<>> => Ends(text', Len(text')) = Len(Data)
    <3>1. Dumping' <=> Dumping
      BY <1>1, <1>2 DEF Dumping
    <3>2. TextOK'
      BY <1>2, <2>8, <2>9, <3>1 DEF TextOK
    <3> QED
      BY <1>1, <3>2 DEF DInv, SeekOK, ReadOK, DumpOK
  <2>10. Over /\ (Passed = 0 <=> Emitted = <<>>) /\ Tells(Emitted, Passed) /\ Reaches
    BY <1>1, <2>3, <2>9 DEF DInv, DumpOK
  <2>11. Passed = Len(Data)
    BY <2>1, <2>8, <2>10, ReadsData
  <2>12. Pending = 0
    BY <1>1 DEF Pending
  <2>13. Data = <<>> <=> Len(Data) = 0
    BY <2>8, DataFacts, EmptySeq
  <2> QED
    BY <2>7, <2>10, <2>11, <2>12, <2>13 DEF Reaches
<1> QED
  BY <1>3, <1>4

-----------------------------------------------------------------------------
(* The reverse leaves the dump as it is.                                    *)

LEMMA Reversing ==
  ASSUME turn' = "reverse", stage' \notin {"seek", "skip"}
  PROVE  DInv'
BY DEF DInv, SeekOK, ReadOK, DumpOK, TextOK, Dumping

LEMMA ReverseTells ==
  ASSUME DInv, Next,
         \/ turn = "reverse"
         \/ ReverseStarts \/ IgnoreStar \/ ReversePostscript \/ ReverseLine \/ LoopEnds
  PROVE  DInv'
<1>1. stage \in {"seek", "skip"} => turn = "dump"
  BY DEF DInv, SeekOK
<1>2. CASE turn = "reverse"
  <2>1. stage \notin {"seek", "skip"}
    BY <1>1, <1>2
  <2>2. ~Seek /\ ~SkipRead /\ ~SkipFails /\ ~Skipped
    BY <2>1 DEF Seek, SkipRead, SkipFails, Skipped
  <2>3. ~PrintLine /\ ~EndOfInput /\ ~ReverseStarts
    BY <1>2 DEF PrintLine, EndOfInput, ReverseStarts
  <2>4. CASE Refill \/ ReadFails \/ Gather \/ Put \/ Dropped
    <3>1. UNCHANGED <<turn, stage>>
      BY <2>4 DEF Refill, ReadFails, Gather, Put, Dropped
    <3> QED
      BY <1>2, <2>1, <3>1, Reversing
  <2>5. CASE IgnoreStar \/ ReversePostscript \/ ReverseLine
    <3>1. UNCHANGED <<turn, stage>>
      BY <2>5 DEF IgnoreStar, ReversePostscript, ReverseLine
    <3> QED
      BY <1>2, <2>1, <3>1, Reversing
  <2>6. CASE LoopEnds \/ Finish
    BY <1>2, <2>6, Reversing DEF LoopEnds, Finish
  <2> QED
    BY <2>2, <2>3, <2>4, <2>5, <2>6 DEF Next
<1>3. IgnoreStar \/ ReversePostscript \/ ReverseLine \/ LoopEnds => turn = "reverse"
  BY DEF IgnoreStar, ReversePostscript, ReverseLine, LoopEnds, AtLine
<1>4. CASE ReverseStarts
  BY <1>4, Reversing DEF ReverseStarts
<1> QED
  BY <1>2, <1>3, <1>4

LEMMA Unmoved ==
  ASSUME DInv, UNCHANGED vars
  PROVE  DInv'
<1>1. UNCHANGED <<job, turn, stage, in, out, line, todo, dump, left, status, text>>
  BY DEF vars
<1>2. /\ First' = First /\ Data' = Data /\ Base' = Base
      /\ Tells(text, Len(Data))' <=> Tells(text', Len(Data))
      /\ Ends(text, Len(text))' = Ends(text', Len(text'))
  BY <1>1, JobKept
<1>3. SeekOK'
  BY <1>1 DEF DInv, SeekOK
<1>4. Reads => Reads' /\ Passed' = Passed /\ Over' = Over
  BY <1>1, LineKept
<1>5. ReadOK'
  BY <1>1, <1>2, <1>4 DEF DInv, ReadOK
<1>6. DumpOK'
  <2>1. CASE turn = "dump" /\ stage \in {"run", "last"}
    <3>1. Passed' = Passed /\ Over' = Over
      BY <1>4, <2>1 DEF DInv, ReadOK
    <3>2. out'.err = out.err /\ Emitted' = Emitted
      BY <1>1 DEF Emitted
    <3>3. CASE out.err
      BY <1>1, <2>1, <3>1, <3>2, <3>3, DumpStays DEF DInv
    <3>4. CASE ~out.err
      BY <1>1, <2>1, <3>1, <3>2, <3>4, DumpStays DEF DInv
    <3> QED
      BY <3>3, <3>4
  <2>2. CASE ~(turn = "dump" /\ stage \in {"run", "last"})
    BY <1>1, <2>2 DEF DumpOK, Dumping
  <2> QED
    BY <2>1, <2>2
<1>7. TextOK'
  BY <1>1, <1>2 DEF DInv, TextOK, Dumping
<1> QED
  BY <1>3, <1>5, <1>6, <1>7 DEF DInv

LEMMA InitDInv == Init => DInv
<1> SUFFICES ASSUME Init
             PROVE  DInv
  OBVIOUS
<1>1. /\ turn = "dump" /\ stage = "seek"
      /\ in = NewInput(job.data, job.start, job.limit) /\ out = NewOutput(<<>>, FALSE)
      /\ dump = [offset |-> job.offset, skipping |-> 0, prevzero |-> FALSE]
  BY DEF Init
<1>2. SeekOK
  BY <1>1 DEF SeekOK, NewInput, NewOutput
<1> QED
  BY <1>1, <1>2 DEF DInv, ReadOK, DumpOK, TextOK

(* Every step keeps what is true of the dump.                              *)
LEMMA NextDInv == IInv /\ DInv /\ [Next]_vars => DInv'
<1> SUFFICES ASSUME IInv, DInv, [Next]_vars
             PROVE  DInv'
  OBVIOUS
<1>1. CASE UNCHANGED vars
  BY <1>1, Unmoved
<1>2. CASE Next /\ turn = "dump"
  BY <1>2, SeekTells, SkippingTells, ReadingTells, PuttingTells, PrintingTells, EndingTells,
     ReverseTells, FinishingTells
  DEF Next
<1>3. CASE Next /\ turn = "reverse"
  BY <1>3, ReverseTells
<1> QED
  BY <1>1, <1>2, <1>3 DEF IInv, Types

(* What the lines show, and that they show it, is what was to be dumped.   *)
LEMMA TextIsExact ==
  ASSUME IInv, DInv
  PROVE  DumpIsExact
<1> DEFINE n == Len(Data)
<1>1. SUFFICES ASSUME turn = "dump", stage = "end", status = "ok", job.mode # "postscript",
                      Base + n <= MaxOff
               PROVE  /\ Shown \subseteq Base .. Base + n - 1
                      /\ \A i \in Lines : \A k \in DOMAIN text[i].bytes :
                           text[i].bytes[k] = Data[text[i].offset - Base + k]
                      /\ \A p \in (Base .. Base + n - 1) \ Shown : Data[p - Base + 1] = 0
                      /\ Data # <<>> => Base + n - 1 \in Shown
                      /\ \A i \in DOMAIN text :
                           IF text[i] = Star THEN {i - 1, i + 1} \subseteq Lines /\ Gap(text[i - 1], text[i + 1])
                           ELSE i - 1 \in Lines => ~Gap(text[i - 1], text[i])
  BY DEF DumpIsExact
<1>2. /\ First >= 0 /\ (Data = <<>> <=> text = <<>>) /\ Tells(text, n)
      /\ text # <<>> => Ends(text, Len(text)) = n
  BY <1>1 DEF DInv, TextOK, Dumping
<1>3. Base \in Nat /\ n \in Nat
  BY <1>2, JobFacts, DataFacts
<1>4. Lines = LinesOf(text)
  BY DEF Lines, LinesOf
<1>5. text \in Seq(DumpItem)
  BY DEF IInv, Types
<1> HIDE DEF n
<1>6. ASSUME NEW i \in Lines
      PROVE  /\ text[i].offset \in Int /\ Len(text[i].bytes) \in Nat /\ Len(text[i].bytes) >= 1
             /\ DOMAIN text[i].bytes = 1 .. Len(text[i].bytes)
             /\ Starts(text, i) = text[i].offset - Base /\ Starts(text, i) >= 0
             /\ Ends(text, i) = text[i].offset - Base + Len(text[i].bytes) /\ Ends(text, i) <= n
             /\ \A k \in DOMAIN text[i].bytes :
                  text[i].bytes[k] = Data[text[i].offset - Base + k]
  <2>1. Shows(text, i, n)
    BY <1>2, <1>4 DEF Tells
  <2>3. text[i].offset \in Int /\ text[i].bytes \in Seq(Byte)
    BY <1>4, <1>5, EndsType
  <2>4. Len(text[i].bytes) \in 1 .. job.ncols /\ Len(text[i].bytes) \in Nat
    BY <2>1, <2>3, LenProperties DEF Shows
  <2>5. Len(text[i].bytes) >= 1
    BY <2>4, JobFacts
  <2>6. DOMAIN text[i].bytes = 1 .. Len(text[i].bytes)
    BY <2>3, LenProperties
  <2> QED
    BY <2>1, <2>3, <2>4, <2>5, <2>6 DEF Shows, Starts, Ends
<1>13. ASSUME NEW i \in Lines
       PROVE  Starts(text, i) \in Int /\ Ends(text, i) \in Int
  BY <1>3, <1>6
<1>7. ASSUME NEW i \in Lines, NEW p \in Int
      PROVE  p \in ShownBy(text[i]) <=> p - Base + 1 \in Covers(text, i)
  <2> DEFINE o == text[i].offset
             m == Len(text[i].bytes)
  <2>1. o \in Int /\ m \in Nat /\ DOMAIN text[i].bytes = 1 .. m
    BY <1>6
  <2>2. ShownBy(text[i]) = {o + k - 1 : k \in 1 .. m}
    BY <2>1 DEF ShownBy
  <2>3. Covers(text, i) = (o - Base) + 1 .. (o - Base) + m
    BY <1>6 DEF Covers
  <2> HIDE DEF o, m
  <2>4. ASSUME p \in ShownBy(text[i])
        PROVE  p - Base + 1 \in Covers(text, i)
    <3>1. PICK k \in 1 .. m : p = o + k - 1
      BY <2>2, <2>4
    <3> QED
      BY <1>3, <2>1, <2>3, <3>1
  <2>5. ASSUME p - Base + 1 \in Covers(text, i)
        PROVE  p \in ShownBy(text[i])
    <3>1. p - o + 1 \in 1 .. m /\ p = o + (p - o + 1) - 1
      BY <1>3, <2>1, <2>3, <2>5
    <3> QED
      BY <2>2, <3>1
  <2> QED
    BY <2>4, <2>5
<1>8. ASSUME NEW p \in Shown
      PROVE  p \in Base .. Base + n - 1
  <2>1. PICK i \in Lines : p \in ShownBy(text[i])
    BY DEF Shown
  <2>2. p \in Int
    <3>1. PICK k \in DOMAIN text[i].bytes : p = text[i].offset + k - 1
      BY <2>1 DEF ShownBy
    <3>2. k \in Int /\ text[i].offset \in Int
      BY <1>6
    <3> QED
      BY <3>1, <3>2
  <2>3. p - Base + 1 \in Starts(text, i) + 1 .. Ends(text, i)
    BY <1>7, <2>1, <2>2 DEF Covers
  <2>4. Starts(text, i) \in Int /\ Ends(text, i) \in Int /\ Starts(text, i) >= 0 /\ Ends(text, i) <= n
    BY <1>3, <1>6
  <2> QED
    BY <1>3, <2>2, <2>3, <2>4
<1>9. ASSUME NEW p \in (Base .. Base + n - 1) \ Shown
      PROVE  Data[p - Base + 1] = 0
  <2>1. p - Base + 1 \in 1 .. n /\ p \in Int
    BY <1>3
  <2>2. ~ \E i \in LinesOf(text) : p - Base + 1 \in Covers(text, i)
    BY <1>4, <1>7, <2>1 DEF Shown
  <2> QED
    BY <1>2, <2>1, <2>2 DEF Tells
<1>10. ASSUME Data # <<>>
       PROVE  Base + n - 1 \in Shown
  <2>1. text # <<>> /\ Ends(text, Len(text)) = n
    BY <1>2, <1>10
  <2>2. Len(text) \in Lines
    <3>1. Len(text) \in Nat \ {0} /\ DOMAIN text = 1 .. Len(text)
      BY <1>5, <2>1, EmptySeq, LenProperties
    <3>2. Len(text) \in 1 .. Len(text)
      BY <3>1
    <3> QED
      BY <1>2, <2>1, <3>1, <3>2 DEF Lines, Tells
  <2>3. (Base + n - 1) - Base + 1 = n /\ Base + n - 1 \in Int
    BY <1>3
  <2>4. n \in Starts(text, Len(text)) + 1 .. Ends(text, Len(text))
    <3> DEFINE L == Len(text)
    <3>1. L \in Lines /\ Ends(text, L) = n
      BY <2>1, <2>2
    <3> HIDE DEF L
    <3>2. Starts(text, L) \in Int /\ Ends(text, L) >= Starts(text, L) + 1
      BY <1>3, <1>6, <3>1
    <3>3. n \in Starts(text, L) + 1 .. Ends(text, L)
      BY <1>3, <3>1, <3>2
    <3> QED
      BY <3>3 DEF L
  <2> QED
    BY <1>7, <2>2, <2>3, <2>4 DEF Covers, Shown
<1>11. ASSUME NEW i \in Lines, NEW j \in Lines
       PROVE  Gap(text[i], text[j]) <=> ~(Ends(text, i) >= Starts(text, j))
  <2> DEFINE a == text[i].offset
             b == Len(text[i].bytes)
             c == text[j].offset
  <2>1. a \in Int /\ b \in Nat /\ c \in Int
    BY <1>6
  <2>2. Ends(text, i) = a - Base + b /\ Starts(text, j) = c - Base
    BY <1>6
  <2>3. Gap(text[i], text[j]) <=> a + b < c
    BY DEF Gap
  <2> HIDE DEF a, b, c
  <2> QED
    BY <1>3, <2>1, <2>2, <2>3
<1>12. ASSUME NEW i \in DOMAIN text
       PROVE  IF text[i] = Star THEN {i - 1, i + 1} \subseteq Lines /\ Gap(text[i - 1], text[i + 1])
              ELSE i - 1 \in Lines => ~Gap(text[i - 1], text[i])
  <2>1. Joins(text, i)
    BY <1>2 DEF Tells
  <2>2. CASE text[i] = Star
    <3>1. {i - 1, i + 1} \subseteq Lines /\ Ends(text, i - 1) < Starts(text, i + 1)
      BY <1>4, <2>1, <2>2 DEF Joins
    <3>2. Ends(text, i - 1) \in Int /\ Starts(text, i + 1) \in Int
      BY <1>13, <3>1
    <3> QED
      BY <1>11, <2>2, <3>1, <3>2
  <2>3. CASE text[i] # Star /\ i - 1 \in Lines
    <3>1. i \in Lines
      BY <2>3 DEF Lines
    <3>2. Ends(text, i - 1) >= Starts(text, i)
      BY <1>4, <2>1, <2>3 DEF Joins
    <3> QED
      BY <1>11, <2>3, <3>1, <3>2
  <2> QED
    BY <2>2, <2>3
<1> QED
  BY <1>6, <1>8, <1>9, <1>10, <1>12

(***************************************************************************)
(* A dump that ended well says what the input holds, whatever the reads    *)
(* returned and the buffers held: every line shows the bytes at its        *)
(* offset, what no line shows is zeros, a star stands for them and only    *)
(* for them, and the last byte is shown (run_hexdump, nextbytes, refill).  *)
(***************************************************************************)
THEOREM DumpIsAlwaysExact == Spec => []DumpIsExact
<1>1. Init => IInv /\ DInv
  BY InitIInv, InitDInv
<1>2. IInv /\ DInv /\ [Next]_vars => IInv' /\ DInv'
  BY NextIInv, NextDInv
<1>3. IInv /\ DInv => DumpIsExact
  BY TextIsExact
<1> QED
  BY <1>1, <1>2, <1>3, PTL DEF Spec

=============================================================================
