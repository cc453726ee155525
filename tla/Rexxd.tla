------------------------------- MODULE Rexxd -------------------------------
(***************************************************************************)
(* rexxd.c: xxd dumps a file, and xxd -r makes a file of the dump.  The    *)
(* two processes run one after the other; both read and write through a    *)
(* buffer, and a read may return less than was asked for.                  *)
(*                                                                         *)
(* A line of a dump is its offset and its bytes, or the Star that stands   *)
(* for lines left out; in the buffers it is one element, as a byte is.     *)
(* Positions count from 0.  Columns, -e, -i and text that is not a dump    *)
(* are left out.                                                           *)
(***************************************************************************)
EXTENDS Integers, Sequences, SequencesExt

CONSTANTS
  Jobs,       \* what the two processes are asked to do
  BufSize,    \* elements in a buffer (4096)
  MaxOff,     \* the largest position (2^63 - 1); offsets have a bit more
  Star,       \* the line "*"
  MaxFaults   \* bound: calls of the system that fail

ASSUME SizesArePositive ==
  BufSize \in Nat \ {0} /\ MaxOff \in Nat /\ MaxFaults \in Nat

Byte == 0 .. 255

ASSUME StarIsNoLine == Star \notin [offset : Int, bytes : Seq(Byte)]

\* -c is at least 1, and no number but that of -s has a sign (parse64); a file
\* has positions, and a pipe is read from where it is.
ASSUME JobsAreLegal ==
  \A j \in Jobs :
    /\ j.data \in Seq(Byte) /\ j.old \in Seq(Byte) /\ j.ncols \in Nat \ {0}
    /\ j.start \in Nat /\ j.limit \in Nat /\ j.offset \in 0 .. MaxOff
    /\ j.seek \in Int /\ IF j.minus THEN j.seek <= 0 ELSE j.seek >= 0
    /\ j.rseek \in Int /\ j.outSeekable \in BOOLEAN
    /\ j.seekable \/ j.start = 0

VARIABLES
  job,     \* the two command lines, the input, and what the output file held
  turn,    \* the process that runs, "dump" or "reverse"
  stage,   \* where it is
  in,      \* its Input
  out,     \* its Output, and the file behind it
  line,    \* what has been read of the next line
  todo,    \* what is still to be put into the output buffer
  dump,    \* offset and the state of autoskip
  left,    \* how much is to be skipped by reading
  status,  \* the exit status of the process that ended last
  text,    \* the dump
  faults   \* calls that may still fail

vars == <<job, turn, stage, in, out, line, todo, dump, left, status, text, faults>>

Wrap(offset) == offset % (2 * (MaxOff + 1))
Least(x, y) == IF x < y THEN x ELSE y
Zeros(n) == [i \in 1 .. n |-> 0]

NewInput(source, at, limit) ==
  [source |-> source, at |-> at, limit |-> limit, buf |-> <<>>, eof |-> FALSE, err |-> FALSE]
NewOutput(file, seekable) ==
  [file |-> file, seekable |-> seekable, at |-> 0, fpos |-> 0, buf |-> <<>>,
   err |-> FALSE, noseek |-> FALSE]

\* What the system does with a write at a position: a gap is filled with zeros.
Overlay(file, at, items) ==
  [i \in 1 .. (IF Len(file) > at + Len(items) THEN Len(file) ELSE at + Len(items)) |->
     IF i > at /\ i <= at + Len(items) THEN items[i - at]
     ELSE IF i <= Len(file) THEN file[i] ELSE 0]

-----------------------------------------------------------------------------
(* Reading.  A call that fails is one of MaxFaults.                         *)

Faulty == faults > 0 /\ faults' = faults - 1

\* How many elements a line wants: -c of the dump, one line for -r.
Want == IF turn = "dump" THEN job.ncols ELSE 1

Running == stage = "run" /\ todo = <<>>
Short == Running /\ Len(line) < Want /\ in.buf = <<>> /\ ~in.eof
Ready == Running /\ (Len(line) = Want \/ (in.eof /\ in.buf = <<>>))

\* A slip in refill: the limit is not counted down.
FilledOnce(n) ==
  [in EXCEPT !.buf = SubSeq(in.source, in.at + 1, in.at + n),
             !.at = @ + n, !.eof = (n = 0)]

Filled(n) ==
  [in EXCEPT !.buf = SubSeq(in.source, in.at + 1, in.at + n),
             !.at = @ + n, !.limit = @ - n, !.eof = (n = 0)]

\* At the end of the input a read returns nothing.
Refill ==
  /\ Short
  /\ LET want == Least(in.limit, BufSize)
         most == Least(want, IF in.at < Len(in.source) THEN Len(in.source) - in.at ELSE 0)
     IN  \E n \in (IF most = 0 THEN {0} ELSE 1 .. most) : in' = Filled(n)
  /\ UNCHANGED <<job, turn, stage, out, line, todo, dump, left, status, text, faults>>

ReadFails ==
  /\ Short /\ in.limit > 0 /\ Faulty
  /\ in' = [in EXCEPT !.err = TRUE, !.eof = TRUE]
  /\ UNCHANGED <<job, turn, stage, out, line, todo, dump, left, status, text>>

\* nextbytes, nextline: a line that straddles two buffers is put together.
Gather ==
  /\ Running /\ Len(line) < Want /\ in.buf # <<>>
  /\ LET n == Least(Want - Len(line), Len(in.buf)) IN
     /\ line' = line \o SubSeq(in.buf, 1, n)
     /\ in' = [in EXCEPT !.buf = SubSeq(@, n + 1, Len(@))]
  /\ UNCHANGED <<job, turn, stage, out, todo, dump, left, status, text, faults>>

-----------------------------------------------------------------------------
(* Writing.                                                                 *)

Flushed(o) ==
  [o EXCEPT !.file = Overlay(@, o.at, o.buf), !.at = @ + Len(o.buf), !.buf = <<>>]
FlushFailed(o) == [o EXCEPT !.err = TRUE, !.buf = <<>>]
Drained(o) == IF o.err \/ o.buf = <<>> THEN o ELSE Flushed(o)

\* output(): one element at a time, and a full buffer is written.
Put ==
  /\ stage \in {"run", "last"} /\ todo # <<>> /\ ~out.err
  /\ todo' = Tail(todo)
  /\ LET o == [out EXCEPT !.buf = Append(@, Head(todo)), !.fpos = @ + 1]
     IN  \/ out' = (IF Len(o.buf) = BufSize THEN Flushed(o) ELSE o) /\ UNCHANGED faults
         \/ Len(o.buf) = BufSize /\ Faulty /\ out' = FlushFailed(o)
  /\ UNCHANGED <<job, turn, stage, in, line, dump, left, status, text>>

\* After an error nothing more is put into the buffer.
Dropped ==
  /\ stage \in {"run", "last"} /\ todo # <<>> /\ out.err
  /\ todo' = <<>>
  /\ UNCHANGED <<job, turn, stage, in, out, line, dump, left, status, text, faults>>

-----------------------------------------------------------------------------
(* -s of the dump.  Without a seek the input is read and thrown away.       *)

FromEnd == job.minus /\ (job.path \/ ~job.plus)
SeekBase ==
  CASE FromEnd -> Len(in.source)
    [] ~FromEnd /\ job.plus /\ ~job.path -> in.at
    [] OTHER -> 0

Seek ==
  /\ stage = "seek"
  /\ LET to == SeekBase + job.seek IN
     CASE job.seek = 0 /\ ~FromEnd ->
            stage' = "run" /\ UNCHANGED <<in, dump, left, status>>
       [] (job.seek # 0 \/ FromEnd) /\ job.seekable /\ to >= 0 ->
            /\ stage' = "run"
            /\ in' = [in EXCEPT !.at = to]
            /\ dump' = [dump EXCEPT !.offset = Wrap(@ + to)]
            /\ UNCHANGED <<left, status>>
       [] job.seek > 0 /\ ~job.seekable ->
            stage' = "skip" /\ left' = job.seek /\ UNCHANGED <<in, dump, status>>
       [] OTHER ->
            stage' = "end" /\ status' = "input" /\ UNCHANGED <<in, dump, left>>
  /\ UNCHANGED <<job, turn, out, line, todo, text, faults>>

SkipRead ==
  /\ stage = "skip" /\ left > 0
  /\ IF in.at >= Len(in.source)
     THEN stage' = "end" /\ status' = "input" /\ UNCHANGED <<in, left>>
     ELSE /\ \E n \in 1 .. Least(Least(left, BufSize), Len(in.source) - in.at) :
               in' = [in EXCEPT !.at = @ + n] /\ left' = left - n
          /\ UNCHANGED <<stage, status>>
  /\ UNCHANGED <<job, turn, out, line, todo, dump, text, faults>>

SkipFails ==
  /\ stage = "skip" /\ left > 0 /\ Faulty
  /\ stage' = "end" /\ status' = "input"
  /\ UNCHANGED <<job, turn, in, out, line, todo, dump, left, text>>

Skipped ==
  /\ stage = "skip" /\ left = 0
  /\ stage' = "run"
  /\ dump' = [dump EXCEPT !.offset = Wrap(@ + job.seek)]
  /\ UNCHANGED <<job, turn, in, out, line, todo, left, status, text, faults>>

-----------------------------------------------------------------------------
(* The dump: run_hexdump, run_bindump, run_postscript.                      *)

Empty == Len(line) = job.ncols /\ line = Zeros(job.ncols)
LineAt(offset, bytes) == [offset |-> offset, bytes |-> bytes]

\* A slip in run_hexdump: nothing marks the end of the last zeros.
EndUnmarked(skipping) == <<>>

\* After a run of skipped lines, the last of them is printed at the end.
LastSkipped(skipping) ==
  IF skipping = 0 THEN <<>>
  ELSE (IF skipping = 2 THEN <<Star>> ELSE <<>>)
         \o <<LineAt(Wrap(dump.offset - job.ncols), Zeros(job.ncols))>>

Skips == job.autoskip /\ job.mode # "postscript" /\ Empty

\* run_bindump counts a last line that is not full as full.
Advance == IF job.mode = "bindump" THEN job.ncols ELSE Len(line)

PrintLine ==
  /\ turn = "dump" /\ Ready /\ line # <<>>
  /\ LET skip == Skips /\ dump.prevzero IN
     /\ dump' = [offset |-> Wrap(dump.offset + Advance), prevzero |-> Skips,
                 skipping |-> IF skip THEN Least(dump.skipping + 1, 2) ELSE 0]
     /\ todo' = IF skip THEN <<>>
                ELSE (IF dump.skipping > 0 THEN <<Star>> ELSE <<>>) \o <<LineAt(dump.offset, line)>>
  /\ line' = <<>>
  /\ UNCHANGED <<job, turn, stage, in, out, left, status, text, faults>>

EndOfInput ==
  /\ turn = "dump" /\ Ready /\ line = <<>>
  /\ stage' = "last"
  /\ todo' = IF out.err THEN <<>> ELSE LastSkipped(dump.skipping)
  /\ UNCHANGED <<job, turn, in, out, line, dump, left, status, text, faults>>

-----------------------------------------------------------------------------
(* The reverse: run_rhexdump, run_rpostscript, seekout.                     *)

\* xxd_ refuses to reverse what -b made.
ReverseStarts ==
  /\ turn = "dump" /\ stage = "end" /\ status = "ok" /\ job.mode # "bindump"
  /\ turn' = "reverse" /\ stage' = "run" /\ status' = "none"
  /\ in' = NewInput(IF job.backwards THEN Reverse(text) ELSE text, 0, MaxOff)
  /\ out' = NewOutput(job.old, job.outSeekable)
  /\ UNCHANGED <<job, line, todo, dump, left, text, faults>>

AtLine(l) == turn = "reverse" /\ Ready /\ ~out.err /\ ~in.err /\ line = <<l>>

\* A line without a colon.
IgnoreStar ==
  /\ AtLine(Star)
  /\ line' = <<>>
  /\ UNCHANGED <<job, turn, stage, in, out, todo, dump, left, status, text, faults>>

ReversePostscript ==
  /\ job.mode = "postscript" /\ Ready /\ turn = "reverse" /\ line # <<>>
  /\ line' = <<>> /\ todo' = line[1].bytes
  /\ UNCHANGED <<job, turn, stage, in, out, dump, left, status, text, faults>>

TooFar(l) == l.offset > MaxOff \/ job.rseek > MaxOff - l.offset

\* A slip in seekout: the buffer is not flushed before the seek.
MovedUnflushed(o, pos) == [o EXCEPT !.at = pos, !.fpos = pos]

Moved(o, pos) == [Drained(o) EXCEPT !.at = pos, !.fpos = pos]

\* Where the output cannot go there, zeros fill the gap and the line comes after
\* them; it cannot go back.
Filling(o, pos) ==
  /\ out' = [o EXCEPT !.err = pos < o.fpos]
  /\ todo' = Zeros(IF pos > o.fpos THEN pos - o.fpos ELSE 0)
  /\ line' = IF pos > o.fpos THEN line ELSE <<>>

ReverseLine ==
  /\ job.mode # "postscript" /\ Running
  /\ \E l \in ToSet(line) \ {Star} :
       /\ AtLine(l)
       /\ LET pos == l.offset + job.rseek
              bytes == l.bytes
          IN
          \/ /\ TooFar(l)
             /\ out' = [out EXCEPT !.err = TRUE] /\ todo' = <<>> /\ line' = <<>>
             /\ UNCHANGED faults
          \/ /\ ~TooFar(l) /\ pos = out.fpos
             /\ out' = [out EXCEPT !.err = out.fpos > MaxOff - Len(bytes)]
             /\ todo' = bytes /\ line' = <<>> /\ UNCHANGED faults
          \/ /\ ~TooFar(l) /\ pos # out.fpos /\ ~out.noseek /\ out.seekable /\ pos >= 0
             /\ out' = [Moved(out, pos) EXCEPT !.err = pos > MaxOff - Len(bytes)]
             /\ todo' = bytes /\ line' = <<>> /\ UNCHANGED faults
          \/ /\ ~TooFar(l) /\ pos # out.fpos /\ ~out.noseek /\ ~(out.seekable /\ pos >= 0)
             /\ Filling([Drained(out) EXCEPT !.noseek = TRUE], pos)
             /\ UNCHANGED faults
          \/ /\ ~TooFar(l) /\ pos # out.fpos /\ out.noseek
             /\ Filling(out, pos) /\ UNCHANGED faults
          \/ /\ ~TooFar(l) /\ pos # out.fpos /\ ~out.noseek /\ out.buf # <<>> /\ Faulty
             /\ out' = FlushFailed(out) /\ todo' = bytes /\ line' = <<>>
  /\ UNCHANGED <<job, turn, stage, in, dump, left, status, text>>

LoopEnds ==
  /\ turn = "reverse" /\ Running
  /\ out.err \/ in.err \/ (Ready /\ line = <<>>)
  /\ stage' = "last"
  /\ UNCHANGED <<job, turn, in, out, line, todo, dump, left, status, text, faults>>

-----------------------------------------------------------------------------
(* The end of either: the buffer is flushed, and the status says what was   *)
(* not written or not read.                                                 *)

StatusOf(o) == IF o.err THEN "output" ELSE IF in.err THEN "input" ELSE "ok"

Finish ==
  /\ stage = "last" /\ todo = <<>>
  /\ stage' = "end"
  /\ \/ out' = Drained(out) /\ UNCHANGED faults
     \/ ~out.err /\ out.buf # <<>> /\ Faulty /\ out' = FlushFailed(out)
  /\ status' = StatusOf(out')
  /\ text' = IF turn = "dump" THEN out'.file ELSE text
  /\ UNCHANGED <<job, turn, in, line, todo, dump, left>>

-----------------------------------------------------------------------------
Init ==
  /\ job \in Jobs
  /\ turn = "dump" /\ stage = "seek" /\ status = "none"
  /\ in = NewInput(job.data, job.start, job.limit)
  /\ out = NewOutput(<<>>, FALSE)
  /\ line = <<>> /\ todo = <<>> /\ text = <<>> /\ left = 0
  /\ dump = [offset |-> job.offset, skipping |-> 0, prevzero |-> FALSE]
  /\ faults = MaxFaults

Next ==
  \/ Seek \/ SkipRead \/ SkipFails \/ Skipped
  \/ Refill \/ ReadFails \/ Gather \/ Put \/ Dropped
  \/ PrintLine \/ EndOfInput
  \/ ReverseStarts \/ IgnoreStar \/ ReversePostscript \/ ReverseLine \/ LoopEnds
  \/ Finish

Spec == Init /\ [][Next]_vars

-----------------------------------------------------------------------------
\* A buffer is flushed before it is full again, the position that the program
\* counts is the position where the next byte will be written, whatever was
\* written, sought and flushed, and no more is read than -l allows (output,
\* seekout, refill).
BuffersInBounds ==
  /\ Len(in.buf) <= BufSize /\ Len(out.buf) < BufSize
  /\ in.limit >= 0
  /\ ~out.err => out.fpos = out.at + Len(out.buf)

\* Where the dump begins, and what it holds (the table of -s in xxd_).
First ==
  IF FromEnd THEN Len(job.data) + job.seek
  ELSE IF job.plus /\ ~job.path THEN job.start + job.seek
  ELSE IF job.seek # 0 THEN job.seek ELSE job.start

Data == SubSeq(job.data, First + 1, Least(Len(job.data), First + job.limit))

\* The offset that is shown for it: nothing is added where no seek was asked for.
Base == Wrap(job.offset + (IF job.seek = 0 /\ ~FromEnd THEN 0 ELSE First))

Lines == {i \in DOMAIN text : text[i] # Star}
ShownBy(l) == {l.offset + k - 1 : k \in DOMAIN l.bytes}
Shown == UNION {ShownBy(text[i]) : i \in Lines}

\* Between the end of a line and the next something is left out.
Gap(l, next) == l.offset + Len(l.bytes) < next.offset

\* A dump that ended well says what the input holds: each line shows the bytes
\* at its offset, what is not shown is zeros, a star stands for them and only
\* for them, and the last byte is shown (run_hexdump, nextbytes, refill).
DumpIsExact ==
  turn = "dump" /\ stage = "end" /\ status = "ok" /\ job.mode # "postscript"
    /\ Base + Len(Data) <= MaxOff =>
    /\ Shown \subseteq Base .. Base + Len(Data) - 1
    /\ \A i \in Lines : \A k \in DOMAIN text[i].bytes :
         text[i].bytes[k] = Data[text[i].offset - Base + k]
    /\ \A p \in (Base .. Base + Len(Data) - 1) \ Shown : Data[p - Base + 1] = 0
    /\ Data # <<>> => Base + Len(Data) - 1 \in Shown
    /\ \A i \in DOMAIN text :
         IF text[i] = Star THEN {i - 1, i + 1} \subseteq Lines /\ Gap(text[i - 1], text[i + 1])
         ELSE i - 1 \in Lines => ~Gap(text[i - 1], text[i])

\* A reverse that ended well has restored the input, at the offset asked for: on
\* a new file or a pipe, exactly, after zeros; and an old file keeps its bytes
\* where the dump shows none (run_rhexdump, seekout, output).
From == IF job.mode = "postscript" THEN 0 ELSE Base + job.rseek
Old(p) == IF p <= Len(job.old) THEN job.old[p] ELSE 0

ReverseRestores ==
  turn = "reverse" /\ stage = "end" /\ status = "ok" =>
    /\ From >= 0 \/ Data = <<>>
    /\ Data # <<>> => Len(out.file) = IF Len(job.old) > From + Len(Data) THEN Len(job.old)
                                     ELSE From + Len(Data)
    /\ Data = <<>> => out.file = job.old
    /\ job.old = <<>> => \A k \in DOMAIN Data : out.file[From + k] = Data[k]
    /\ \A p \in DOMAIN out.file :
         out.file[p] = IF job.mode = "postscript" /\ p \in DOMAIN Data THEN Data[p]
                       ELSE IF job.mode # "postscript" /\ p - 1 - job.rseek \in Shown
                       THEN Data[p - From] ELSE Old(p)

=============================================================================
