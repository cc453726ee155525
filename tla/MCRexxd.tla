------------------------------ MODULE MCRexxd ------------------------------
(* Dumps of a few bytes in lines of one or two, and what they must say. *)
EXTENDS Rexxd, TLC

Bytes(n) == UNION {[1 .. k -> {0, 1}] : k \in 0 .. n}

Job == [data |-> <<1, 0>>, start |-> 0, ncols |-> 2, autoskip |-> FALSE, mode |-> "hexdump",
        seek |-> 0, plus |-> FALSE, minus |-> FALSE, path |-> TRUE, seekable |-> TRUE,
        limit |-> MaxOff, offset |-> 0, rseek |-> 0, backwards |-> FALSE, old |-> <<>>,
        outSeekable |-> TRUE]

\* Autoskip, over every input, onto a new file, an old one and a pipe.
SkipJobs ==
  {[Job EXCEPT !.data = data, !.ncols = ncols, !.autoskip = skip, !.old = o[1],
               !.outSeekable = o[2]] :
     data \in Bytes(6), ncols \in {1, 2, 3}, skip \in BOOLEAN,
     o \in {<<<<>>, TRUE>>, <<<<1, 1, 1, 1, 1, 1, 1>>, TRUE>>, <<<<>>, FALSE>>}}
  \cup {[Job EXCEPT !.data = data, !.autoskip = TRUE, !.old = o[1], !.outSeekable = o[2],
                    !.mode = mode] :
          data \in Bytes(4), mode \in {"postscript", "bindump"},
          o \in {<<<<1, 1, 1, 1, 1>>, TRUE>>, <<<<>>, FALSE>>}}

\* -s, -l, -o, and -r -s.
SeekJobs ==
  {[Job EXCEPT !.data = data, !.start = s[1], !.path = s[2], !.seekable = s[3], !.seek = k[1],
               !.plus = k[2], !.minus = k[3], !.limit = l] :
     data \in {<<1, 0, 0, 1>>}, s \in {<<0, TRUE, TRUE>>, <<1, FALSE, TRUE>>, <<0, FALSE, FALSE>>},
     k \in ({0, 1, 3, 5} \X BOOLEAN \X {FALSE}) \cup ({0, -1, -3, -5} \X BOOLEAN \X {TRUE}),
     l \in {0, 1, 3, MaxOff}}

OffsetJobs ==
  {[Job EXCEPT !.data = data, !.offset = o, !.rseek = r, !.autoskip = a, !.outSeekable = s,
               !.backwards = b, !.old = IF s THEN old ELSE <<>>] :
     data \in {<<1, 0, 0, 0, 0, 1>>, <<0, 0, 0>>, <<1>>, <<>>}, o \in {0, 2, MaxOff - 1, MaxOff},
     r \in {-3, -1, 0, 1, MaxOff}, a \in BOOLEAN, b \in BOOLEAN, s \in BOOLEAN,
     old \in {<<>>, <<1, 1, 1>>}}

MCJobs == SkipJobs \cup SeekJobs \cup OffsetJobs

=============================================================================
