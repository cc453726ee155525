-------------------------- MODULE RexxdInvariants --------------------------
(***************************************************************************)
(* What is true of Rexxd at every step: what the buffers hold, how far the *)
(* input is read, and what the lines that were put out tell of it.         *)
(***************************************************************************)
EXTENDS Rexxd

-----------------------------------------------------------------------------
(* What the buffers hold: the dump reads bytes and writes lines, the        *)
(* reverse reads lines and writes bytes.                                    *)

LineOf == [offset : Int, bytes : Seq(Byte)]

\* A plain dump has no offsets, and leaves no lines out.
DumpItem == IF job.mode = "postscript" THEN LineOf ELSE LineOf \cup {Star}

InItem  == IF turn = "dump" THEN Byte ELSE DumpItem
OutItem == IF turn = "dump" THEN DumpItem ELSE Byte

InputOf(S) ==
  [source : Seq(S), at : Nat, limit : Nat, buf : Seq(S), eof : BOOLEAN, err : BOOLEAN]

OutputOf(S) ==
  [file : Seq(S), seekable : BOOLEAN, at : Nat, fpos : Nat, buf : Seq(S),
   err : BOOLEAN, noseek : BOOLEAN]

Types ==
  /\ job \in Jobs
  /\ turn \in {"dump", "reverse"}
  /\ stage \in {"seek", "skip", "run", "last", "end"}
  /\ in \in InputOf(InItem)
  /\ out \in OutputOf(OutItem)
  /\ line \in Seq(InItem) /\ todo \in Seq(OutItem) /\ text \in Seq(DumpItem)
  /\ dump \in [offset : Int, skipping : 0 .. 2, prevzero : BOOLEAN]
  /\ left \in Nat

\* What is over when a stage begins; the dump is written without gaps.
Stages ==
  /\ turn = "dump" /\ stage # "run" => line = <<>>
  /\ stage \in {"seek", "skip", "end"} => todo = <<>>
  /\ turn = "dump" => out.at = Len(out.file)
  /\ turn = "dump" /\ job.mode = "postscript" => dump.skipping = 0

IInv == Types /\ Stages /\ BuffersInBounds

-----------------------------------------------------------------------------
(* Reading.  This much of the data was passed on, in whole lines.           *)

Passed == in.at - First - Len(in.buf) - Len(line)

\* Nothing more will come.
Over == in.eof /\ in.buf = <<>> /\ line = <<>>

\* Nothing is lost or doubled between the input, the buffer and the line.
Reads ==
  /\ in.source = job.data
  /\ First <= in.at /\ in.limit = job.limit - (in.at - First)
  /\ in.at <= Len(job.data) \/ in.at = First
  /\ Passed >= 0 /\ Len(line) <= job.ncols
  /\ \A k \in DOMAIN line : line[k] = job.data[First + Passed + k]
  /\ \A k \in DOMAIN in.buf : in.buf[k] = job.data[in.at - Len(in.buf) + k]
  /\ in.eof /\ ~in.err => in.limit = 0 \/ in.at >= Len(job.data)

ReadOK == turn = "dump" /\ stage \in {"run", "last"} => First >= 0 /\ Reads

SeekOK ==
  stage \in {"seek", "skip"} =>
    /\ turn = "dump"
    /\ in.source = job.data /\ in.limit = job.limit /\ in.buf = <<>> /\ ~in.eof /\ ~in.err
    /\ stage = "seek" => in.at = job.start
    /\ stage = "skip" => in.at = job.seek - left /\ ~job.seekable /\ job.seek > 0
    /\ out.buf = <<>> /\ out.file = <<>> /\ ~out.err
    /\ dump.offset = job.offset /\ dump.skipping = 0 /\ ~dump.prevzero

-----------------------------------------------------------------------------
(* Lines, and what they show of the data: from where, and to where.         *)

LinesOf(s) == {i \in DOMAIN s : s[i] # Star}
Starts(s, i) == s[i].offset - Base
Ends(s, i) == Starts(s, i) + Len(s[i].bytes)
Covers(s, i) == Starts(s, i) + 1 .. Ends(s, i)

Shows(s, i, n) ==
  /\ Starts(s, i) >= 0 /\ Ends(s, i) <= n
  /\ Len(s[i].bytes) \in 1 .. job.ncols
  /\ \A k \in DOMAIN s[i].bytes : s[i].bytes[k] = Data[Starts(s, i) + k]

\* A star stands between lines, for what they leave out; without it they meet.
Joins(s, i) ==
  IF s[i] = Star
  THEN i - 1 \in LinesOf(s) /\ i + 1 \in LinesOf(s) /\ Ends(s, i - 1) < Starts(s, i + 1)
  ELSE i - 1 \in LinesOf(s) => Ends(s, i - 1) >= Starts(s, i)

\* Lines that tell the first n bytes: what no line shows is zeros.
Tells(s, n) ==
  /\ \A i \in LinesOf(s) : Shows(s, i, n)
  /\ \A q \in 1 .. n : (\E i \in LinesOf(s) : q \in Covers(s, i)) \/ Data[q] = 0
  /\ \A i \in DOMAIN s : Joins(s, i)
  /\ s # <<>> => s[Len(s)] # Star

\* A line that shows the data from first on, behind lines that tell n bytes.
Follows(s, n, star, l, first) ==
  /\ first <= n /\ n <= first + Len(l.bytes)
  /\ star = <<>> \/ star = <<Star>>
  /\ l.offset = Base + first /\ Len(l.bytes) \in 1 .. job.ncols
  /\ \A k \in 1 .. Len(l.bytes) : l.bytes[k] = Data[first + k]
  /\ s # <<>> => IF star = <<>> THEN Ends(s, Len(s)) >= first ELSE Ends(s, Len(s)) < first
  /\ s = <<>> => star = <<>>

\* What was put out so far: in the file, the buffer and behind.
Emitted == (out.file \o out.buf) \o todo

\* How far the last line is behind, by the lines that were left out since.
Pending == IF stage = "run" THEN dump.skipping ELSE 0

Reaches ==
  Emitted # <<>> =>
    /\ Pending = 0 => Ends(Emitted, Len(Emitted)) = Passed
    /\ Pending = 1 => Ends(Emitted, Len(Emitted)) = Passed - job.ncols
    /\ Pending = 2 => Ends(Emitted, Len(Emitted)) < Passed - job.ncols

Counts ==
  /\ dump.offset = Base + Passed \/ (Over /\ dump.skipping = 0)
  /\ dump.prevzero => Passed > 0
  /\ dump.skipping > 0 => /\ Passed > job.ncols
                          /\ \A q \in Passed - job.ncols + 1 .. Passed : Data[q] = 0

\* A dump with offsets, none of which overflows.
Dumping == turn = "dump" /\ job.mode # "postscript" /\ Base + Len(Data) <= MaxOff

DumpOK ==
  stage \in {"run", "last"} /\ Dumping =>
    /\ IF stage = "run" THEN Counts ELSE Over
    /\ ~out.err => /\ Passed = 0 <=> Emitted = <<>>
                   /\ Tells(Emitted, Passed) /\ Reaches

\* What a dump says that ended well.
TextOK ==
  stage = "end" /\ status = "ok" /\ Dumping =>
    /\ First >= 0
    /\ Data = <<>> <=> text = <<>>
    /\ Tells(text, Len(Data))
    /\ text # <<>> => Ends(text, Len(text)) = Len(Data)

DInv == SeekOK /\ ReadOK /\ DumpOK /\ TextOK

=============================================================================
