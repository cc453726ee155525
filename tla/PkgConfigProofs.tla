--------------------------- MODULE PkgConfigProofs ---------------------------
(***************************************************************************)
(* Theorems about PkgConfig, for any files, any command line and stacks of *)
(* any size: the two stacks stay inside their arrays, the packages loaded  *)
(* are the ones that are needed, and the list has them in link order.      *)
(***************************************************************************)
EXTENDS PkgConfig, SequenceTheorems, WellFoundedInduction, TLAPS

-----------------------------------------------------------------------------
(* Sequences of anything.                                                   *)

LEMMA SeqFacts ==
  ASSUME NEW s, IsSeq(s)
  PROVE  /\ Len(s) \in Nat /\ DOMAIN s = 1 .. Len(s)
         /\ s \in Seq(ToSet(s)) /\ ToSet(s) = {s[i] : i \in 1 .. Len(s)}
         /\ s = <<>> <=> Len(s) = 0
BY DEF IsSeq, ToSet

LEMMA SeqIs == ASSUME NEW X, NEW s \in Seq(X) PROVE IsSeq(s)
BY DEF IsSeq

LEMMA EmptyIs == IsSeq(<<>>) /\ Len(<<>>) = 0 /\ DOMAIN <<>> = {} /\ ToSet(<<>>) = {}
BY DEF IsSeq, ToSet

LEMMA OneIs ==
  ASSUME NEW x
  PROVE  /\ IsSeq(<<x>>) /\ Len(<<x>>) = 1 /\ <<x>>[1] = x /\ DOMAIN <<x>> = {1}
         /\ ToSet(<<x>>) = {x} /\ <<x>> # <<>>
BY DEF IsSeq, ToSet

LEMMA ConcatIs ==
  ASSUME NEW s, IsSeq(s), NEW t, IsSeq(t)
  PROVE  /\ IsSeq(s \o t) /\ Len(s \o t) = Len(s) + Len(t)
         /\ \A i \in 1 .. Len(s) : (s \o t)[i] = s[i]
         /\ \A i \in 1 .. Len(t) : (s \o t)[Len(s) + i] = t[i]
         /\ ToSet(s \o t) = ToSet(s) \cup ToSet(t)
<1> DEFINE X == ToSet(s) \cup ToSet(t)
<1>1. s \in Seq(X) /\ t \in Seq(X)
  BY SeqFacts
<1>2. s \o t \in Seq(X) /\ Len(s \o t) = Len(s) + Len(t)
  BY <1>1
<1>5. IsSeq(s \o t)
  BY <1>2, SeqIs
<1>6. /\ ToSet(s \o t) = {(s \o t)[i] : i \in 1 .. Len(s \o t)}
      /\ ToSet(s) = {s[i] : i \in 1 .. Len(s)} /\ ToSet(t) = {t[i] : i \in 1 .. Len(t)}
      /\ Len(s) \in Nat /\ Len(t) \in Nat
  BY <1>5, SeqFacts
<1>3. /\ \A i \in 1 .. Len(s) : (s \o t)[i] = s[i]
      /\ \A i \in 1 .. Len(t) : (s \o t)[Len(s) + i] = t[i]
  BY <1>1
<1>4. ToSet(s \o t) = ToSet(s) \cup ToSet(t)
  <2>1. ASSUME NEW i \in 1 .. Len(s \o t)
        PROVE  (s \o t)[i] \in ToSet(s) \cup ToSet(t)
    BY <1>2
  <2>2. ASSUME NEW i \in 1 .. Len(s)
        PROVE  s[i] \in ToSet(s \o t)
    <3>1. i \in 1 .. Len(s \o t)
      BY <1>2, <1>6
    <3> QED
      BY <1>3, <1>6, <3>1
  <2>3. ASSUME NEW i \in 1 .. Len(t)
        PROVE  t[i] \in ToSet(s \o t)
    <3>1. Len(s) + i \in 1 .. Len(s \o t)
      BY <1>2, <1>6
    <3> QED
      BY <1>3, <1>6, <3>1
  <2> QED
    BY <1>6, <2>1, <2>2, <2>3
<1> QED
  BY <1>2, <1>3, <1>4, <1>5

LEMMA AppendIs ==
  ASSUME NEW s, IsSeq(s), NEW x
  PROVE  /\ IsSeq(Append(s, x)) /\ Len(Append(s, x)) = Len(s) + 1
         /\ \A i \in 1 .. Len(s) : Append(s, x)[i] = s[i]
         /\ Append(s, x)[Len(s) + 1] = x
<1> DEFINE X == ToSet(s) \cup {x}
<1>1. s \in Seq(X) /\ x \in X
  BY SeqFacts
<1>2. Append(s, x) \in Seq(X)
  BY <1>1
<1>3. IsSeq(Append(s, x))
  BY <1>2, SeqIs
<1>4. /\ Len(Append(s, x)) = Len(s) + 1
      /\ \A i \in 1 .. Len(s) : Append(s, x)[i] = s[i]
      /\ Append(s, x)[Len(s) + 1] = x
  BY <1>1
<1> QED
  BY <1>3, <1>4

LEMMA TailIs ==
  ASSUME NEW s, IsSeq(s), s # <<>>
  PROVE  /\ IsSeq(Tail(s)) /\ Len(Tail(s)) = Len(s) - 1
         /\ ToSet(s) = {s[1]} \cup ToSet(Tail(s))
<1>1. s \in Seq(ToSet(s)) /\ Len(s) \in Nat \ {0}
  BY SeqFacts
<1>2. /\ Tail(s) \in Seq(ToSet(s)) /\ Len(Tail(s)) = Len(s) - 1
      /\ \A i \in 1 .. Len(s) - 1 : Tail(s)[i] = s[i + 1]
  BY <1>1
<1>3. IsSeq(Tail(s))
  BY <1>2, SeqIs
<1>4. ToSet(s) = {s[1]} \cup ToSet(Tail(s))
  <2>1. ToSet(Tail(s)) = {s[i + 1] : i \in 1 .. Len(s) - 1}
    <3>1. ToSet(Tail(s)) = {Tail(s)[i] : i \in 1 .. Len(s) - 1}
      BY <1>2, <1>3, SeqFacts
    <3> QED
      BY <1>2, <3>1
  <2>2. ToSet(s) = {s[i] : i \in 1 .. Len(s)}
    BY SeqFacts
  <2>3. \A i \in 1 .. Len(s) - 1 : i + 1 \in 1 .. Len(s)
    BY <1>1
  <2>4. \A i \in 1 .. Len(s) : i = 1 \/ s[i] \in ToSet(Tail(s))
    <3>1. SUFFICES ASSUME NEW i \in 1 .. Len(s), i # 1 PROVE s[i] \in ToSet(Tail(s))
      OBVIOUS
    <3>2. i - 1 \in 1 .. Len(s) - 1 /\ (i - 1) + 1 = i
      BY <1>1, <3>1
    <3> QED
      BY <2>1, <3>2
  <2> QED
    BY <1>1, <2>1, <2>2, <2>3, <2>4
<1> QED
  BY <1>2, <1>3, <1>4

LEMMA FrontIs ==
  ASSUME NEW s, IsSeq(s), s # <<>>
  PROVE  /\ IsSeq(SubSeq(s, 1, Len(s) - 1)) /\ Len(SubSeq(s, 1, Len(s) - 1)) = Len(s) - 1
         /\ \A i \in 1 .. Len(s) - 1 : SubSeq(s, 1, Len(s) - 1)[i] = s[i]
<1> DEFINE m == Len(s) - 1
           t == SubSeq(s, 1, m)
<1>1. m \in Nat /\ \A i \in 1 .. m : s[i] \in ToSet(s)
  BY SeqFacts
<1>2. /\ t \in Seq(ToSet(s)) /\ Len(t) = (IF 1 <= m THEN m - 1 + 1 ELSE 0)
      /\ \A i \in 1 .. m - 1 + 1 : t[i] = s[1 + i - 1]
  <2> HIDE DEF m
  <2> QED
    BY <1>1, SubSeqProperties
<1>3. Len(t) = m /\ \A i \in 1 .. m : t[i] = s[i]
  <2>1. \A i \in 1 .. m : i \in 1 .. m - 1 + 1 /\ 1 + i - 1 = i
    BY <1>1
  <2> HIDE DEF m, t
  <2>2. Len(t) = m
    BY <1>1, <1>2
  <2>3. ASSUME NEW i \in 1 .. m PROVE t[i] = s[i]
    <3>1. i \in 1 .. m - 1 + 1 /\ 1 + i - 1 = i
      BY <2>1
    <3> QED
      BY <1>2, <3>1
  <2> QED
    BY <2>2, <2>3
<1>4. IsSeq(t)
  BY <1>2, SeqIs
<1> QED
  BY <1>3, <1>4

LEMMA SubIs ==
  ASSUME NEW s, IsSeq(s), NEW i \in DOMAIN s
  PROVE  IsSeq(SubSeq(s, 1, i - 1)) /\ IsSeq(SubSeq(s, i + 1, Len(s)))
<1>1. s \in Seq(ToSet(s)) /\ i \in 1 .. Len(s) /\ Len(s) \in Nat
  BY SeqFacts
<1>2. SubSeq(s, 1, i - 1) \in Seq(ToSet(s))
  BY <1>1
<1>3. SubSeq(s, i + 1, Len(s)) \in Seq(ToSet(s))
  BY <1>1
<1> QED
  BY <1>2, <1>3, SeqIs

\* Every set of numbers has a least element.
LEMMA Least ==
  ASSUME NEW T, T \subseteq Nat, T # {}
  PROVE  \E m \in T : \A k \in T : m <= k
<1>1. IsWellFoundedOn(OpToRel(<, Nat), Nat)
  BY NatLessThanWellFounded
<1>2. PICK m \in T : \A k \in T : <<k, m>> \notin OpToRel(<, Nat)
  BY <1>1, WFMin
<1>3. \A k \in T : ~(k < m)
  BY <1>2 DEF OpToRel
<1>4. \A k \in T : m <= k
  BY <1>3
<1> QED
  BY <1>4

LEMMA MinIs == ASSUME NEW T, T \subseteq Nat, T # {} PROVE Min(T) \in T
BY Least DEF Min

-----------------------------------------------------------------------------
(* Requirements.                                                            *)

Reading(acc) ==
  /\ acc = [specs |-> acc.specs, open |-> acc.open, wrong |-> acc.wrong]
  /\ IsSeq(acc.specs) /\ acc.open \in BOOLEAN /\ acc.wrong \in BOOLEAN

LEMMA TakeTokenIs ==
  ASSUME NEW acc, Reading(acc), NEW word
  PROVE  Reading(TakeToken(acc, word))
<1> DEFINE s == acc.specs
           new == <<[name |-> word, op |-> NoOp, version |-> <<>>]>>
<1>1. \A x : IsSeq([s EXCEPT ![1] = x])
  <2>1. SUFFICES ASSUME NEW x PROVE IsSeq([s EXCEPT ![1] = x])
    OBVIOUS
  <2> DEFINE n == Len(s)
             X == ToSet(s) \cup {x}
  <2>2. n \in Nat /\ s \in Seq(X)
    BY SeqFacts DEF Reading
  <2>3. s \in [1 .. n -> X]
    BY <2>2
  <2>4. [s EXCEPT ![1] = x] \in [1 .. n -> X]
    BY <2>3
  <2>5. [s EXCEPT ![1] = x] \in Seq(X)
    BY <2>2, <2>4, SeqDef
  <2> QED
    BY <2>5, SeqIs
<1>2. IsSeq(new \o s)
  BY OneIs, ConcatIs DEF Reading
<1> QED
  BY <1>1, <1>2 DEF Reading, TakeToken

\* The loop over the words, as the function that the definition means.
LEMMA TokensAreRead ==
  ASSUME NEW words, IsSeq(words)
  PROVE  \E read :
           /\ read = [i \in 0 .. Len(words) |->
                        IF i = 0 THEN [specs |-> <<>>, open |-> FALSE, wrong |-> FALSE]
                        ELSE TakeToken(read[i - 1], words[i])]
           /\ ParseTokens(words) = read[Len(words)]
<1> DEFINE n == Len(words)
           start == [specs |-> <<>>, open |-> FALSE, wrong |-> FALSE]
           Upto(r, k) == r = [i \in 0 .. k |-> IF i = 0 THEN start
                                               ELSE TakeToken(r[i - 1], words[i])]
           T == {k \in 0 .. n : ~ \E r : Upto(r, k)}
<1>0. n \in Nat
  BY SeqFacts
<1>1. \E r : Upto(r, 0)
  <2>1. Upto([i \in 0 .. 0 |-> start], 0)
    OBVIOUS
  <2> QED
    BY <2>1
<1>2. ASSUME NEW k \in Nat, NEW r, Upto(r, k)
      PROVE  \E q : Upto(q, k + 1)
  <2> DEFINE q == [i \in 0 .. k + 1 |-> IF i <= k THEN r[i] ELSE TakeToken(r[k], words[k + 1])]
  <2>1. \A i \in 0 .. k + 1 : q[i] = IF i = 0 THEN start ELSE TakeToken(q[i - 1], words[i])
    <3>1. SUFFICES ASSUME NEW i \in 0 .. k + 1
                   PROVE  q[i] = IF i = 0 THEN start ELSE TakeToken(q[i - 1], words[i])
      OBVIOUS
    <3>2. CASE i <= k
      <4>1. q[i] = r[i] /\ (i # 0 => q[i - 1] = r[i - 1]) /\ i \in 0 .. k
        BY <3>2
      <4>2. \A j \in 0 .. k : r[j] = IF j = 0 THEN start ELSE TakeToken(r[j - 1], words[j])
        BY <1>2, Zenon
      <4> QED
        BY <4>1, <4>2
    <3>3. CASE i = k + 1
      <4>1. q[i] = TakeToken(r[k], words[k + 1]) /\ q[k] = r[k] /\ i - 1 = k /\ i # 0
        BY <3>3
      <4> QED
        BY <3>3, <4>1
    <3> QED
      BY <3>2, <3>3
  <2>2. q = [i \in 0 .. k + 1 |-> q[i]]
    OBVIOUS
  <2>3. Upto(q, k + 1)
    BY <2>1, <2>2
  <2> QED
    BY <2>3
<1>3. T = {}
  <2>1. SUFFICES ASSUME T # {} PROVE FALSE
    OBVIOUS
  <2>2. PICK m \in T : \A k \in T : m <= k
    <3>1. T \subseteq Nat
      BY <1>0
    <3> HIDE DEF T
    <3> QED
      BY <2>1, <3>1, Least
  <2>3. m # 0
    BY <1>1, <2>2
  <2>4. m - 1 \in Nat /\ m - 1 \notin T /\ m - 1 \in 0 .. n /\ (m - 1) + 1 = m
    <3>1. m \in 0 .. n
      BY <2>2
    <3>2. m - 1 \in Nat /\ m - 1 \in 0 .. n /\ (m - 1) + 1 = m /\ ~(m <= m - 1)
      BY <1>0, <2>3, <3>1
    <3>3. m - 1 \notin T
      BY <2>2, <3>2
    <3> QED
      BY <3>2, <3>3
  <2>5. PICK r : Upto(r, m - 1)
    BY <2>4
  <2>6. \E q : Upto(q, (m - 1) + 1)
    BY <1>2, <2>4, <2>5
  <2> QED
    BY <2>2, <2>4, <2>6
<1>4. \E r : Upto(r, n)
  BY <1>0, <1>3
<1> DEFINE read == CHOOSE r : Upto(r, n)
<1>5. Upto(read, n)
  BY <1>4
<1>6. ParseTokens(words) = read[n]
  BY DEF ParseTokens
<1> QED
  BY <1>5, <1>6

LEMMA SpecsAre == ASSUME NEW words, IsSeq(words) PROVE IsSeq(ParseSpecs(words))
<1> DEFINE n == Len(words)
           start == [specs |-> <<>>, open |-> FALSE, wrong |-> FALSE]
<1>1. PICK read : /\ read = [i \in 0 .. n |-> IF i = 0 THEN start
                                              ELSE TakeToken(read[i - 1], words[i])]
                  /\ ParseTokens(words) = read[n]
  BY TokensAreRead
<1>2. n \in Nat
  BY SeqFacts
<1> DEFINE T == {k \in 0 .. n : ~Reading(read[k])}
<1>3. Reading(start)
  BY EmptyIs DEF Reading
<1>4. T = {}
  <2>1. SUFFICES ASSUME T # {} PROVE FALSE
    OBVIOUS
  <2>2. PICK m \in T : \A k \in T : m <= k
    <3>1. T \subseteq Nat
      BY <1>2
    <3> HIDE DEF T
    <3> QED
      BY <2>1, <3>1, Least
  <2>3. m # 0
    BY <1>1, <1>2, <1>3, <2>2
  <2>4. m - 1 \in 0 .. n /\ m \in 0 .. n /\ Reading(read[m - 1])
    BY <1>2, <2>2, <2>3
  <2>5. read[m] = TakeToken(read[m - 1], words[m])
    BY <1>1, <2>3, <2>4
  <2> QED
    BY <2>2, <2>4, <2>5, TakeTokenIs
<1>5. Reading(read[n])
  BY <1>2, <1>4
<1> QED
  BY <1>1, <1>5 DEF ParseSpecs, Reading

-----------------------------------------------------------------------------
\* The walk and the expansion keep to their own data.
FrameOK(f, i) ==
  /\ f = [specs |-> f.specs, newpkg |-> f.newpkg, depth |-> f.depth, flags |-> f.flags]
  /\ IsSeq(f.specs) /\ f.flags \subseteq Flags
  /\ f.depth \in Nat /\ f.depth < i
  /\ f.newpkg = <<>> \/ f.newpkg = <<f.newpkg[1]>>

FramesOK ==
  /\ IsSeq(stack) /\ Len(stack) <= Cap
  /\ \A i \in DOMAIN stack : FrameOK(stack[i], i)

WorkOK ==
  /\ work = [spec |-> work.spec, dir |-> work.dir, todo |-> work.todo,
             strings |-> work.strings, out |-> work.out, fields |-> work.fields]
  /\ IsSeq(work.strings) /\ Len(work.strings) <= Deep
  /\ \A i \in DOMAIN work.strings : IsSeq(work.strings[i])
  /\ IsSeq(work.out) /\ \A f \in DOMAIN work.fields : IsSeq(work.fields[f])

PkgOK(k) ==
  /\ k = [requires |-> k.requires, private |-> k.private, fields |-> k.fields,
          flags |-> k.flags]
  /\ IsSeq(k.requires) /\ IsSeq(k.private) /\ k.flags \subseteq Flags

PkgsOK ==
  /\ pkgs = [p \in DOMAIN pkgs |-> pkgs[p]]
  /\ \A p \in DOMAIN pkgs : PkgOK(pkgs[p])

ListOK == IsSeq(order) /\ ToSet(order) \subseteq DOMAIN pkgs

\* A file has lines, and each line words.
Legal(file) == IsSeq(file) /\ \A k \in DOMAIN file : IsSeq(file[k].value)

\* The package that is being expanded is the one that the top frame has met.
PhaseOK ==
  /\ status = "start" => stack = <<>> /\ DOMAIN pkgs = {}
  /\ status = "expanding" =>
       /\ stack # <<>> /\ Top.newpkg = <<work.spec.name>>
       /\ work.spec.name \notin DOMAIN pkgs /\ Legal(File)
  /\ status = "reported" => stack = <<>>

\* A package that has been met is on one frame until it is on the list.
Met(i) == ToSet(stack[i].newpkg)
Loading == IF status = "expanding" THEN {work.spec.name} ELSE {}

Placed ==
  /\ \A i, j \in DOMAIN order : order[i] = order[j] => i = j
  /\ \A i \in DOMAIN stack : Met(i) \subseteq DOMAIN pkgs \cup Loading
  /\ \A i \in DOMAIN stack : Met(i) \cap ToSet(order) = {}
  /\ \A i, j \in DOMAIN stack : i # j => Met(i) \cap Met(j) = {}
  /\ DOMAIN pkgs \subseteq ToSet(order) \cup UNION {Met(i) : i \in DOMAIN stack}

SInv == input \in Inputs /\ FramesOK /\ WorkOK /\ PkgsOK /\ ListOK /\ PhaseOK

\* What frame i has still to look at.
Coming(i) ==
  Names(stack[i].specs) \cup (IF i = Len(stack) THEN Loading ELSE {})

Running == status \in {"walking", "expanding", "reported"}

\* What was asked for, and what public packages publicly require, is public or
\* will be.
Promised ==
  /\ \A p \in Asked :
       \/ p \in Marked("DIRECT") \cap Marked("PUBLIC")
       \/ \E i \in DOMAIN stack : stack[i].flags = Flags /\ p \in Coming(i)
  /\ Unlimited => \A p \in Marked("PUBLIC") : \A q \in Public(p) :
       \/ q \in Marked("PUBLIC")
       \/ \E i \in DOMAIN stack : "PUBLIC" \in stack[i].flags /\ q \in Coming(i)

\* Nothing is loaded, public or direct without a reason.
Justified ==
  /\ Marked("DIRECT") \subseteq Asked
  /\ \A i \in DOMAIN stack : "DIRECT" \in stack[i].flags => Coming(i) \subseteq Asked
  /\ \A set : Asked \subseteq set /\ Complete(set) =>
       /\ DOMAIN pkgs \subseteq set
       /\ \A i \in DOMAIN stack : Coming(i) \subseteq set
  /\ \A set : Asked \subseteq set /\ CompletePublic(set) =>
       /\ Marked("PUBLIC") \subseteq set
       /\ \A i \in DOMAIN stack : "PUBLIC" \in stack[i].flags => Coming(i) \subseteq set

\* Every complete set with x has y: x requires y, perhaps through others.
Needs(x, y) == \A set : Complete(set) /\ x \in set => y \in set

\* The frames above the one that met a package are about what it needs.
Nested ==
  \A i, j \in DOMAIN stack : i < j =>
    \A p \in Met(i) : \A q \in Met(j) \cup Coming(j) : Needs(p, q)

\* What a package requires is loaded, or comes up before it is listed.
Awaited ==
  Unlimited => \A i \in DOMAIN stack : \A p \in Met(i) \cap DOMAIN pkgs :
    \A q \in Needed(p) :
      q \in DOMAIN pkgs \/ \E j \in DOMAIN stack : i < j /\ q \in Coming(j)

Sorted ==
  Unlimited => \A i \in DOMAIN order : \A q \in Needed(order[i]) :
    /\ q \in DOMAIN pkgs
    /\ Needs(q, order[i]) \/ \E j \in DOMAIN order : i < j /\ order[j] = q

WInv == Placed /\ Promised /\ Justified /\ Nested /\ Awaited /\ Sorted
IInv == SInv /\ (Running => WInv)

-----------------------------------------------------------------------------
(* Files and variables.                                                     *)

LEMMA ThreeAre ==
  ASSUME NEW x, NEW y, NEW z
  PROVE  /\ IsSeq(<<x, y, z>>) /\ DOMAIN <<x, y, z>> = 1 .. 3
         /\ <<x, y, z>>[1] = x /\ <<x, y, z>>[2] = y /\ <<x, y, z>>[3] = z
BY DEF IsSeq

LEMMA FilesAreLegal ==
  ASSUME input \in Inputs, NEW dir, NEW name,
         ReadPackage(dir, name) \notin {Absent, Unreadable}
  PROVE  Legal(ReadPackage(dir, name))
<1>1. CASE name = OwnName
  <2>1. ReadPackage(dir, name) = OwnFile
    BY <1>1 DEF ReadPackage
  <2>2. IsSeq(OwnFile) /\ DOMAIN OwnFile = 1 .. 3
    <3>1. PICK x, y, z : OwnFile = <<x, y, z>>
      BY Zenon DEF OwnFile
    <3> QED
      BY <3>1, ThreeAre
  <2>3. \A k \in 1 .. 3 : IsSeq(OwnFile[k].value)
    <3>1. /\ OwnFile[1].value = <<<<"", "u-config">>>> /\ OwnFile[3].value = <<>>
          /\ OwnFile[2].value = <<<<"version", <<48, 46, 51, 52, 46, 48>>>>>>
      BY DEF OwnFile
    <3>2. IsSeq(OwnFile[1].value) /\ IsSeq(OwnFile[2].value) /\ IsSeq(OwnFile[3].value)
      BY <3>1, OneIs, EmptyIs
    <3> QED
      BY <3>2
  <2> QED
    BY <2>1, <2>2, <2>3 DEF Legal
<1>2. CASE name # OwnName
  <2>1. /\ dir \in DOMAIN input.files /\ name \in DOMAIN input.files[dir]
        /\ ReadPackage(dir, name) = input.files[dir][name]
    BY <1>2 DEF ReadPackage
  <2> QED
    BY <2>1, InputsAreLegal DEF Legal
<1> QED
  BY <1>1, <1>2

LEMMA ValuesAre ==
  ASSUME NEW file, Legal(file), NEW sign, NEW name, name \in Defined(file, sign)
  PROVE  IsSeq(ValueOf(file, sign, name))
<1>1. \E i \in DOMAIN file : file[i].sign = sign /\ file[i].name = name
  BY DEF Defined
<1> QED
  BY <1>1 DEF ValueOf, Legal

LEMMA FieldsAre == ASSUME NEW file, Legal(file), NEW name PROVE IsSeq(FieldIn(file, name))
BY ValuesAre, EmptyIs DEF FieldIn

LEMMA VariablesAre ==
  ASSUME input \in Inputs, NEW dir, NEW file, Legal(file), NEW name,
         NEW value \in Lookup(dir, file, name)
  PROVE  IsSeq(value)
<1>1. \/ name \in DOMAIN input.defines /\ value = input.defines[name]
      \/ value = <<<<"", dir>>>> \/ value = <<<<"prefix", dir>>>>
      \/ name \in Defined(file, "=") /\ value = ValueOf(file, "=", name)
  BY DEF Lookup
<1>2. name \in DOMAIN input.defines => IsSeq(input.defines[name])
  BY InputsAreLegal
<1>3. IsSeq(<<<<"", dir>>>>) /\ IsSeq(<<<<"prefix", dir>>>>)
  BY OneIs
<1>4. name \in Defined(file, "=") => IsSeq(ValueOf(file, "=", name))
  BY ValuesAre
<1> QED
  BY <1>1, <1>2, <1>3, <1>4

LEMMA FoundFile ==
  ASSUME input \in Inputs, NEW p, Candidates(p) # {}
  PROVE  ReadPackage(DirOf(p), p) # Absent
<1>1. IsSeq(input.withPath) /\ IsSeq(input.path)
  BY InputsAreLegal
<1>2. DOMAIN SearchPath \subseteq Nat
  <2>1. IsSeq(SearchPath)
    BY <1>1, ConcatIs DEF SearchPath
  <2> QED
    BY <2>1, SeqFacts
<1>3. Candidates(p) \subseteq Nat
  BY <1>2 DEF Candidates
<1>4. Min(Candidates(p)) \in Candidates(p)
  BY <1>3, MinIs
<1> QED
  BY <1>4 DEF DirOf, Candidates

-----------------------------------------------------------------------------
(* The frames of the walk.                                                  *)

LEMMA TopFacts ==
  ASSUME FramesOK, stack # <<>>
  PROVE  /\ Len(stack) \in Nat \ {0} /\ DOMAIN stack = 1 .. Len(stack)
         /\ Len(stack) \in DOMAIN stack /\ Top = stack[Len(stack)]
         /\ FrameOK(Top, Len(stack)) /\ IsSeq(SubSeq(stack, 1, Len(stack) - 1))
BY SeqFacts, FrontIs DEF FramesOK, Top

LEMMA ChangedFrame ==
  ASSUME NEW f, NEW m,
         f = [specs |-> f.specs, newpkg |-> f.newpkg, depth |-> f.depth, flags |-> f.flags]
  PROVE  [f EXCEPT !.specs = Tail(@), !.newpkg = m] =
           [specs |-> Tail(f.specs), newpkg |-> m, depth |-> f.depth, flags |-> f.flags]
<1>1. f = [specs |-> f.specs, newpkg |-> f.newpkg, depth |-> f.depth, flags |-> f.flags]
  OBVIOUS
<1>2. f \in [specs : {f.specs}, newpkg : {f.newpkg}, depth : {f.depth}, flags : {f.flags}]
  BY <1>1
<1> DEFINE g == [f EXCEPT !.specs = Tail(@), !.newpkg = m]
<1>3. g \in [specs : {Tail(f.specs)}, newpkg : {m}, depth : {f.depth}, flags : {f.flags}]
  BY <1>2
<1>4. g.specs = Tail(f.specs) /\ g.newpkg = m /\ g.depth = f.depth /\ g.flags = f.flags
  BY <1>3
<1>5. g = [specs |-> g.specs, newpkg |-> g.newpkg, depth |-> g.depth, flags |-> g.flags]
  <2> HIDE DEF g
  <2> QED
    BY <1>3
<1> QED
  BY <1>4, <1>5, Zenon

\* The same frames, the top one of which has one requirement less.
LEMMA TakenIs ==
  ASSUME FramesOK, stack # <<>>, Top.specs # <<>>,
         NEW m, m = <<>> \/ m = <<m[1]>>
  PROVE  /\ IsSeq(Taken(m)) /\ Len(Taken(m)) = Len(stack) /\ Taken(m) # <<>>
         /\ DOMAIN Taken(m) = DOMAIN stack
         /\ \A i \in 1 .. Len(stack) - 1 : Taken(m)[i] = stack[i]
         /\ Taken(m)[Len(stack)] = [specs |-> Tail(Top.specs), newpkg |-> m,
                                    depth |-> Top.depth, flags |-> Top.flags]
         /\ \A i \in DOMAIN stack : FrameOK(Taken(m)[i], i)
<1> DEFINE n == Len(stack)
           front == SubSeq(stack, 1, n - 1)
           top == [Top EXCEPT !.specs = Tail(@), !.newpkg = m]
<1>1. /\ n \in Nat \ {0} /\ DOMAIN stack = 1 .. n /\ n \in DOMAIN stack
      /\ FrameOK(Top, n) /\ IsSeq(stack)
  BY TopFacts DEF FramesOK
<1>2. /\ IsSeq(front) /\ Len(front) = n - 1
      /\ \A i \in 1 .. n - 1 : front[i] = stack[i]
  BY FrontIs DEF FramesOK
<1>3. top = [specs |-> Tail(Top.specs), newpkg |-> m, depth |-> Top.depth, flags |-> Top.flags]
  BY <1>1, ChangedFrame DEF FrameOK
<1>4. Taken(m) = Append(front, top)
  BY DEF Taken
<1>5. /\ IsSeq(Taken(m)) /\ Len(Taken(m)) = n
      /\ \A i \in 1 .. n - 1 : Taken(m)[i] = stack[i]
      /\ Taken(m)[n] = top
  <2> HIDE DEF front, top
  <2>1. /\ IsSeq(Append(front, top)) /\ Len(Append(front, top)) = Len(front) + 1
        /\ \A i \in 1 .. Len(front) : Append(front, top)[i] = front[i]
        /\ Append(front, top)[Len(front) + 1] = top
    BY <1>2, AppendIs
  <2> QED
    BY <1>1, <1>2, <1>4, <2>1
<1>6. DOMAIN Taken(m) = 1 .. n /\ Taken(m) # <<>>
  BY <1>1, <1>5, SeqFacts
<1>7. FrameOK(Taken(m)[n], n)
  <2>1. IsSeq(Tail(Top.specs))
    BY <1>1, TailIs DEF FrameOK
  <2> QED
    BY <1>1, <1>3, <1>5, <2>1 DEF FrameOK
<1>8. \A i \in 1 .. n - 1 : i \in DOMAIN stack /\ FrameOK(Taken(m)[i], i)
  BY <1>1, <1>5 DEF FramesOK
<1>9. \A i \in DOMAIN stack : FrameOK(Taken(m)[i], i)
  <2>1. \A i \in 1 .. n : i = n \/ i \in 1 .. n - 1
    BY <1>1
  <2> QED
    BY <1>1, <1>7, <1>8, <2>1
<1> QED
  BY <1>1, <1>3, <1>5, <1>6, <1>9

LEMMA FrameIs ==
  ASSUME NEW specs, IsSeq(specs), NEW depth \in Nat, NEW i \in Nat, depth < i,
         NEW flags \in SUBSET Flags
  PROVE  /\ FrameOK(Frame(specs, depth, flags), i)
         /\ Frame(specs, depth, flags).specs = specs
         /\ Frame(specs, depth, flags).newpkg = <<>>
         /\ Frame(specs, depth, flags).depth = depth
         /\ Frame(specs, depth, flags).flags = flags
BY DEF FrameOK, Frame

LEMMA TwoIs ==
  ASSUME NEW x, NEW y
  PROVE  IsSeq(<<x, y>>) /\ Len(<<x, y>>) = 2 /\ <<x, y>>[1] = x /\ <<x, y>>[2] = y
BY DEF IsSeq

\* s with one or two frames more.
LEMMA OneMore ==
  ASSUME NEW s, IsSeq(s), NEW x
  PROVE  /\ IsSeq(s \o <<x>>) /\ Len(s \o <<x>>) = Len(s) + 1
         /\ DOMAIN (s \o <<x>>) = 1 .. Len(s) + 1
         /\ \A i \in 1 .. Len(s) : (s \o <<x>>)[i] = s[i]
         /\ (s \o <<x>>)[Len(s) + 1] = x
<1>1. IsSeq(<<x>>) /\ Len(<<x>>) = 1 /\ <<x>>[1] = x
  BY OneIs
<1> DEFINE t == <<x>>
<1>2. IsSeq(t) /\ Len(t) = 1 /\ t[1] = x
  BY <1>1
<1> HIDE DEF t
<1>3. /\ IsSeq(s \o t) /\ Len(s \o t) = Len(s) + 1
      /\ \A i \in 1 .. Len(s) : (s \o t)[i] = s[i]
      /\ (s \o t)[Len(s) + 1] = x
  <2>1. IsSeq(s \o t) /\ Len(s \o t) = Len(s) + Len(t)
    BY <1>2, ConcatIs
  <2>3. \A i \in 1 .. Len(s) : (s \o t)[i] = s[i]
    BY <1>2, ConcatIs
  <2>4. \A i \in 1 .. Len(t) : (s \o t)[Len(s) + i] = t[i]
    BY <1>2, ConcatIs
  <2> QED
    BY <1>2, <2>1, <2>3, <2>4
<1>4. DOMAIN (s \o t) = 1 .. Len(s) + 1
  BY <1>3, SeqFacts
<1> QED
  BY <1>3, <1>4 DEF t

LEMMA TwoMore ==
  ASSUME NEW s, IsSeq(s), NEW x, NEW y
  PROVE  /\ IsSeq(s \o <<x, y>>) /\ Len(s \o <<x, y>>) = Len(s) + 2
         /\ DOMAIN (s \o <<x, y>>) = 1 .. Len(s) + 2
         /\ \A i \in 1 .. Len(s) : (s \o <<x, y>>)[i] = s[i]
         /\ (s \o <<x, y>>)[Len(s) + 1] = x /\ (s \o <<x, y>>)[Len(s) + 2] = y
<1> DEFINE t == <<x, y>>
<1>2. IsSeq(t) /\ Len(t) = 2 /\ t[1] = x /\ t[2] = y
  BY TwoIs
<1> HIDE DEF t
<1>3. /\ IsSeq(s \o t) /\ Len(s \o t) = Len(s) + 2
      /\ \A i \in 1 .. Len(s) : (s \o t)[i] = s[i]
      /\ (s \o t)[Len(s) + 1] = x /\ (s \o t)[Len(s) + 2] = y
  <2>1. IsSeq(s \o t) /\ Len(s \o t) = Len(s) + Len(t)
    BY <1>2, ConcatIs
  <2>3. \A i \in 1 .. Len(s) : (s \o t)[i] = s[i]
    BY <1>2, ConcatIs
  <2>4. \A i \in 1 .. Len(t) : (s \o t)[Len(s) + i] = t[i]
    BY <1>2, ConcatIs
  <2>2. 1 \in 1 .. Len(t) /\ 2 \in 1 .. Len(t)
    BY <1>2
  <2> QED
    BY <1>2, <2>1, <2>2, <2>3, <2>4
<1>4. DOMAIN (s \o t) = 1 .. Len(s) + 2
  BY <1>3, SeqFacts
<1> QED
  BY <1>3, <1>4 DEF t

\* s with one element in front.
LEMMA OneBefore ==
  ASSUME NEW s, IsSeq(s), NEW x
  PROVE  /\ IsSeq(<<x>> \o s) /\ Len(<<x>> \o s) = Len(s) + 1
         /\ (<<x>> \o s)[1] = x
         /\ \A i \in 1 .. Len(s) : (<<x>> \o s)[i + 1] = s[i]
         /\ ToSet(<<x>> \o s) = {x} \cup ToSet(s)
<1> DEFINE t == <<x>>
<1>1. IsSeq(t) /\ Len(t) = 1 /\ t[1] = x /\ ToSet(t) = {x}
  BY OneIs
<1>2. Len(s) \in Nat
  BY SeqFacts
<1> HIDE DEF t
<1>3. IsSeq(t \o s) /\ Len(t \o s) = Len(t) + Len(s) /\ ToSet(t \o s) = ToSet(t) \cup ToSet(s)
  BY <1>1, ConcatIs
<1>4. \A i \in 1 .. Len(t) : (t \o s)[i] = t[i]
  BY <1>1, ConcatIs
<1>5. \A i \in 1 .. Len(s) : (t \o s)[Len(t) + i] = s[i]
  <2>1. IsSeq(t) /\ Len(t) \in Nat
    BY <1>1
  <2>2. SUFFICES ASSUME NEW i \in 1 .. Len(s) PROVE (t \o s)[Len(t) + i] = s[i]
    OBVIOUS
  <2> QED
    BY <2>1, ConcatIs
<1>6. \A i \in 1 .. Len(s) : (t \o s)[i + 1] = s[i]
  <2>1. SUFFICES ASSUME NEW i \in 1 .. Len(s) PROVE (t \o s)[i + 1] = s[i]
    OBVIOUS
  <2>2. (t \o s)[Len(t) + i] = s[i]
    BY <1>5
  <2>3. Len(t) + i = i + 1
    BY <1>1, <1>2
  <2> QED
    BY <2>2, <2>3
<1> QED
  BY <1>1, <1>2, <1>3, <1>4, <1>6 DEF t

-----------------------------------------------------------------------------
(* The actions, with what makes the program give up set apart.              *)

GivesUp ==
  /\ status' \notin {"start", "walking", "expanding", "reported"}
  /\ UNCHANGED <<input, stack, pkgs, order, work>>

StartWorks ==
  /\ status = "start" /\ status' = "walking"
  /\ stack' = <<Frame(ParseSpecs(input.args), 0, Flags)>>
  /\ UNCHANGED <<input, pkgs, order, work>>

VisitWorks ==
  /\ AtSpec /\ Spec1.name \in DOMAIN pkgs
  /\ Promotes(Spec1.name) => RoomFor(1)
  /\ order' = Listed
  /\ stack' = Taken(<<>>) \o
       IF Promotes(Spec1.name)
       THEN <<Frame(pkgs[Spec1.name].requires, Top.depth + 1, Top.flags \ {"DIRECT"})>>
       ELSE <<>>
  /\ pkgs' = [pkgs EXCEPT ![Spec1.name].flags = @ \cup Top.flags]
  /\ UNCHANGED <<input, work, status>>

FindWorks ==
  /\ AtSpec /\ Spec1.name \notin DOMAIN pkgs
  /\ Candidates(Spec1.name) # {}
  /\ ReadPackage(DirOf(Spec1.name), Spec1.name) # Unreadable
  /\ order' = Listed
  /\ stack' = Taken(<<Spec1.name>>)
  /\ work' = [spec |-> Spec1, dir |-> DirOf(Spec1.name), todo |-> Fields,
              strings |-> <<FieldIn(ReadPackage(DirOf(Spec1.name), Spec1.name), Fields[1])>>,
              out |-> <<>>, fields |-> <<>>]
  /\ status' = "expanding"
  /\ UNCHANGED <<input, pkgs>>

SubstituteWorks ==
  /\ Expanding /\ Specials # {} /\ Len(Below) < Deep - 1
  /\ \E value \in Lookup(work.dir, File, String[Stop][2]) :
       work' = [work EXCEPT !.strings = Pushed(value), !.out = @ \o SubSeq(String, 1, Stop - 1)]
  /\ UNCHANGED <<input, stack, pkgs, order, status>>

Fresh ==
  [requires |-> ParseSpecs(Field(work.fields, "Requires")),
   private  |-> ParseSpecs(Field(work.fields, "Requires.private")),
   fields   |-> work.fields, flags |-> Top.flags]

LoadWorks ==
  /\ status = "expanding" /\ status' = "walking"
  /\ Deeper => RoomFor(2)
  /\ pkgs' = [q \in DOMAIN pkgs \cup {work.spec.name} |->
                IF q \in DOMAIN pkgs THEN pkgs[q] ELSE Fresh]
  /\ stack' = stack \o
       IF Deeper
       THEN <<Frame(Fresh.requires, Top.depth + 1, Top.flags \ {"DIRECT"}),
              Frame(Fresh.private, Top.depth + 1, {})>>
       ELSE <<>>
  /\ work' = Idle
  /\ UNCHANGED <<input, order>>

ReportWorks ==
  /\ status = "walking" /\ stack = <<>>
  /\ status' = "reported" /\ UNCHANGED <<input, stack, pkgs, order, work>>

LEMMA GivingUp ==
  /\ Fail("bad requirement") => GivesUp
  /\ Fail("too deep") => GivesUp
  /\ Fail("not found") => GivesUp
  /\ Fail("unreadable") => GivesUp
  /\ Fail("duplicate") => GivesUp
  /\ Fail("missing field") => GivesUp
  /\ Fail("nested too deep") => GivesUp
  /\ Fail("undefined variable") => GivesUp
  /\ Fail("version") => GivesUp
  /\ Fail("no package") => GivesUp
BY Zenon DEF Fail, GivesUp

LEMMA StartCases == Start => GivesUp \/ StartWorks
BY GivingUp, Zenon DEF Start, StartWorks

LEMMA VisitCases == Visit => GivesUp \/ VisitWorks
BY GivingUp, Zenon DEF Visit, VisitWorks

LEMMA FindCases == Find => GivesUp \/ FindWorks
BY GivingUp, Zenon DEF Find, FindWorks

LEMMA SubstituteCases ==
  ASSUME WorkOK, Substitute
  PROVE  GivesUp \/ SubstituteWorks
<1>1. Expanding /\ Specials # {}
  BY Zenon DEF Substitute
<1>2. IsSeq(Below)
  BY <1>1, FrontIs DEF Expanding, Below, WorkOK
<1>3. Len(Below) \in Nat /\ Deep \in Nat
  BY <1>2, SeqFacts, StacksHaveRoom
<1>4. Len(Below) >= Deep - 1 \/ Len(Below) < Deep - 1
  BY <1>3
<1> QED
  BY <1>1, <1>4, GivingUp, Zenon DEF Substitute, SubstituteWorks

LEMMA LoadCases == Load => GivesUp \/ LoadWorks
<1> SUFFICES ASSUME Load PROVE GivesUp \/ LoadWorks
  OBVIOUS
<1>1. Fresh.requires = ParseSpecs(Field(work.fields, "Requires"))
  BY DEF Fresh
<1>2. Fresh.private = ParseSpecs(Field(work.fields, "Requires.private"))
  BY DEF Fresh
<1> QED
  BY <1>1, <1>2, GivingUp, Zenon DEF Load, LoadWorks, Fresh

LEMMA ReportCases == Report => GivesUp \/ ReportWorks
BY GivingUp, Zenon DEF Report, ReportWorks

LEMMA NextCases ==
  ASSUME WorkOK, Next
  PROVE  \/ GivesUp \/ StartWorks \/ Return \/ VisitWorks \/ FindWorks \/ LoadWorks
         \/ Copy \/ Unescape \/ SubstituteWorks \/ FieldEnds \/ ReportWorks
BY StartCases, VisitCases, FindCases, LoadCases, SubstituteCases, ReportCases, Zenon
   DEF Next, Walk, Expand

-----------------------------------------------------------------------------
(* What every action keeps of the structure.                                *)

LEMMA StructureStarts == Init => IInv
<1> SUFFICES ASSUME Init PROVE IInv
  OBVIOUS
<1>1. /\ input \in Inputs /\ stack = <<>> /\ pkgs = <<>> /\ order = <<>>
      /\ work = Idle /\ status = "start"
  BY DEF Init
<1>2. FramesOK
  BY <1>1, EmptyIs, StacksHaveRoom DEF FramesOK
<1>3. WorkOK
  <2>1. /\ work.strings = <<>> /\ work.out = <<>> /\ work.fields = <<>>
        /\ work = [spec |-> work.spec, dir |-> work.dir, todo |-> work.todo,
                   strings |-> work.strings, out |-> work.out, fields |-> work.fields]
    BY <1>1 DEF Idle
  <2> QED
    BY <2>1, EmptyIs, StacksHaveRoom DEF WorkOK
<1>4. DOMAIN pkgs = {} /\ pkgs = [p \in DOMAIN pkgs |-> pkgs[p]]
  BY <1>1
<1>5. PkgsOK
  BY <1>4 DEF PkgsOK
<1>6. ListOK /\ PhaseOK
  BY <1>1, <1>4, EmptyIs DEF ListOK, PhaseOK
<1>7. ~Running
  BY <1>1 DEF Running
<1> QED
  BY <1>1, <1>2, <1>3, <1>5, <1>6, <1>7 DEF IInv, SInv

LEMMA GivesUpKeeps == ASSUME SInv, GivesUp PROVE IInv'
<1>1. SInv'
  BY DEF SInv, GivesUp, FramesOK, WorkOK, PkgsOK, ListOK, PhaseOK
<1>2. ~Running'
  BY DEF GivesUp, Running
<1> QED
  BY <1>1, <1>2 DEF IInv

\* The list with the package of the top frame in front.
LEMMA ListedIs ==
  ASSUME SInv, Placed, status = "walking", stack # <<>>
  PROVE  /\ IsSeq(Listed) /\ DOMAIN Listed = 1 .. Len(Listed) /\ Len(Listed) \in Nat
         /\ ToSet(Listed) = Met(Len(stack)) \cup ToSet(order)
         /\ ToSet(Listed) \subseteq DOMAIN pkgs
         /\ \A i, j \in DOMAIN Listed : Listed[i] = Listed[j] => i = j
         /\ \/ Met(Len(stack)) = {} /\ Listed = order
            \/ \E p : /\ Met(Len(stack)) = {p} /\ Len(Listed) = Len(order) + 1
                      /\ Listed[1] = p
                      /\ \A i \in 1 .. Len(order) : Listed[i + 1] = order[i]
<1> DEFINE n == Len(stack)
<1>1. /\ n \in DOMAIN stack /\ Top = stack[n]
      /\ Top.newpkg = <<>> \/ Top.newpkg = <<Top.newpkg[1]>>
  BY TopFacts DEF SInv, FrameOK
<1>2. IsSeq(order) /\ ToSet(order) \subseteq DOMAIN pkgs /\ Len(order) \in Nat
      /\ DOMAIN order = 1 .. Len(order)
  BY SeqFacts DEF SInv, ListOK
<1>3. /\ Met(n) \subseteq DOMAIN pkgs /\ Met(n) \cap ToSet(order) = {}
      /\ \A i, j \in DOMAIN order : order[i] = order[j] => i = j
  BY <1>1 DEF Placed, Loading
<1>4. CASE Top.newpkg = <<>>
  <2>1. Listed = order
    BY <1>2, <1>4, SeqFacts DEF Listed
  <2>2. Met(n) = {}
    BY <1>1, <1>4, EmptyIs DEF Met
  <2> QED
    BY <1>2, <1>3, <2>1, <2>2
<1>5. CASE Top.newpkg = <<Top.newpkg[1]>>
  <2> DEFINE p == Top.newpkg[1]
  <2>1. Met(n) = {p}
    BY <1>1, <1>5, OneIs DEF Met
  <2>2. Listed = <<p>> \o order
    BY <1>5 DEF Listed
  <2> HIDE DEF p
  <2>4. IsSeq(Listed) /\ Len(Listed) = Len(order) + 1
    BY <1>2, <2>2, OneBefore
  <2>5. Listed[1] = p /\ ToSet(Listed) = {p} \cup ToSet(order)
    BY <1>2, <2>2, OneBefore
  <2>6. \A i \in 1 .. Len(order) : Listed[i + 1] = order[i]
    BY <1>2, <2>2, OneBefore
  <2>8. DOMAIN Listed = 1 .. Len(Listed)
    BY <2>4, SeqFacts
  <2>9. \A i \in DOMAIN Listed : i = 1 \/ (i - 1 \in DOMAIN order /\ Listed[i] = order[i - 1])
    <3>1. SUFFICES ASSUME NEW i \in DOMAIN Listed, i # 1
                   PROVE  i - 1 \in DOMAIN order /\ Listed[i] = order[i - 1]
      OBVIOUS
    <3>2. i - 1 \in 1 .. Len(order) /\ (i - 1) + 1 = i
      BY <1>2, <2>4, <2>8, <3>1
    <3> QED
      BY <1>2, <2>6, <3>2
  <2>10. \A i \in DOMAIN order : order[i] # p
    BY <1>2, <1>3, <2>1, SeqFacts
  <2>11. \A i, j \in DOMAIN Listed : Listed[i] = Listed[j] => i = j
    BY <1>2, <1>3, <2>5, <2>8, <2>9, <2>10
  <2> QED
    BY <1>2, <1>3, <2>1, <2>4, <2>5, <2>6, <2>8, <2>11
<1> QED
  BY <1>1, <1>4, <1>5

-----------------------------------------------------------------------------
(* Every action keeps the structure.                                        *)

LEMMA StartStructure == ASSUME SInv, StartWorks PROVE SInv'
<1> DEFINE f == Frame(ParseSpecs(input.args), 0, Flags)
<1>1. FrameOK(f, 1)
  <2>1. IsSeq(ParseSpecs(input.args))
    BY InputsAreLegal, SpecsAre DEF SInv
  <2> QED
    BY <2>1, FrameIs
<1>2. stack' = <<f>> /\ UNCHANGED <<input, pkgs, order, work>> /\ status' = "walking"
  BY DEF StartWorks
<1> HIDE DEF f
<1>3. FramesOK'
  BY <1>1, <1>2, OneIs, StacksHaveRoom DEF FramesOK
<1> QED
  BY <1>2, <1>3 DEF SInv, WorkOK, PkgsOK, ListOK, PhaseOK

LEMMA ReturnStructure == ASSUME SInv, Placed, Return PROVE SInv'
<1>1. /\ stack # <<>> /\ stack' = SubSeq(stack, 1, Len(stack) - 1) /\ order' = Listed
      /\ status = "walking" /\ status' = "walking" /\ UNCHANGED <<input, pkgs, work>>
  BY DEF Return
<1>2. FramesOK'
  <2>1. /\ IsSeq(stack') /\ Len(stack') = Len(stack) - 1
        /\ \A i \in 1 .. Len(stack) - 1 : stack'[i] = stack[i]
    BY <1>1, FrontIs DEF SInv, FramesOK
  <2>2. DOMAIN stack' = 1 .. Len(stack) - 1 /\ DOMAIN stack = 1 .. Len(stack)
        /\ Len(stack) \in Nat
    BY <2>1, SeqFacts DEF SInv, FramesOK
  <2>3. Len(stack') <= Cap /\ \A i \in DOMAIN stack' : i \in DOMAIN stack
    BY <2>1, <2>2, StacksHaveRoom DEF SInv, FramesOK
  <2> QED
    BY <2>1, <2>2, <2>3 DEF SInv, FramesOK
<1>3. ListOK'
  <2>1. IsSeq(Listed) /\ ToSet(Listed) \subseteq DOMAIN pkgs
    BY <1>1, ListedIs
  <2> QED
    BY <1>1, <2>1 DEF ListOK
<1> QED
  BY <1>1, <1>2, <1>3 DEF SInv, WorkOK, PkgsOK, PhaseOK

\* What becomes of the frames and of the packages when a package is visited.
LEMMA VisitFrames ==
  ASSUME SInv, VisitWorks
  PROVE  /\ FramesOK' /\ PkgsOK' /\ DOMAIN pkgs' = DOMAIN pkgs
         /\ \A p \in DOMAIN pkgs :
              /\ pkgs'[p].requires = pkgs[p].requires /\ pkgs'[p].private = pkgs[p].private
              /\ pkgs'[p].flags = pkgs[p].flags \cup (IF p = Spec1.name THEN Top.flags ELSE {})
         /\ \A i \in 1 .. Len(stack) - 1 : stack'[i] = stack[i]
         /\ stack'[Len(stack)] = [specs |-> Tail(Top.specs), newpkg |-> <<>>,
                                  depth |-> Top.depth, flags |-> Top.flags]
         /\ ~Promotes(Spec1.name) => DOMAIN stack' = 1 .. Len(stack)
         /\ Promotes(Spec1.name) =>
              /\ DOMAIN stack' = 1 .. Len(stack) + 1
              /\ stack'[Len(stack) + 1] =
                   Frame(pkgs[Spec1.name].requires, Top.depth + 1, Top.flags \ {"DIRECT"})
<1> DEFINE n == Len(stack)
           p == Spec1.name
           t == Taken(<<>>)
           f == Frame(pkgs[p].requires, Top.depth + 1, Top.flags \ {"DIRECT"})
<1>1. /\ FramesOK /\ PkgsOK /\ stack # <<>> /\ Top.specs # <<>> /\ p \in DOMAIN pkgs
      /\ Promotes(p) => RoomFor(1)
      /\ stack' = t \o IF Promotes(p) THEN <<f>> ELSE <<>>
      /\ pkgs' = [pkgs EXCEPT ![p].flags = @ \cup Top.flags]
  BY DEF SInv, VisitWorks, AtSpec
<1>2. /\ n \in Nat \ {0} /\ FrameOK(Top, n) /\ DOMAIN stack = 1 .. n /\ n <= Cap
  BY <1>1, TopFacts DEF FramesOK
<1>3. /\ IsSeq(t) /\ Len(t) = n /\ DOMAIN t = DOMAIN stack
      /\ \A i \in 1 .. n - 1 : t[i] = stack[i]
      /\ t[n] = [specs |-> Tail(Top.specs), newpkg |-> <<>>, depth |-> Top.depth,
                 flags |-> Top.flags]
      /\ \A i \in DOMAIN stack : FrameOK(t[i], i)
  BY <1>1, TakenIs
<1>4. FrameOK(f, n + 1)
  <2>1. /\ IsSeq(pkgs[p].requires) /\ Top.depth + 1 \in Nat /\ n + 1 \in Nat
        /\ Top.depth + 1 < n + 1 /\ Top.flags \ {"DIRECT"} \in SUBSET Flags
    BY <1>1, <1>2 DEF FrameOK, PkgsOK, PkgOK
  <2> QED
    BY <2>1, FrameIs
<1> HIDE DEF t, f
<1>5. ASSUME ~Promotes(p)
      PROVE  /\ FramesOK' /\ DOMAIN stack' = 1 .. n /\ stack'[n] = t[n]
             /\ \A i \in 1 .. n - 1 : stack'[i] = stack[i]
  <2>1. stack' = t
    <3>1. stack' = t \o <<>>
      BY <1>1, <1>5
    <3>2. t \in Seq(ToSet(t))
      BY <1>3, SeqFacts
    <3> QED
      BY <3>1, <3>2
  <2>2. FramesOK'
    BY <1>2, <1>3, <2>1 DEF FramesOK
  <2> QED
    BY <1>2, <1>3, <2>1, <2>2
<1>6. ASSUME Promotes(p)
      PROVE  /\ FramesOK' /\ DOMAIN stack' = 1 .. n + 1 /\ stack'[n] = t[n]
             /\ stack'[n + 1] = f /\ \A i \in 1 .. n - 1 : stack'[i] = stack[i]
  <2>1. stack' = t \o <<f>>
    BY <1>1, <1>6
  <2>2. /\ IsSeq(stack') /\ Len(stack') = n + 1 /\ DOMAIN stack' = 1 .. n + 1
        /\ \A i \in 1 .. n : stack'[i] = t[i]
        /\ stack'[n + 1] = f
    <3>1. IsSeq(t)
      BY <1>3
    <3>2. /\ IsSeq(stack') /\ Len(stack') = Len(t) + 1 /\ DOMAIN stack' = 1 .. Len(t) + 1
          /\ \A i \in 1 .. Len(t) : stack'[i] = t[i]
          /\ stack'[Len(t) + 1] = f
      BY <2>1, <3>1, OneMore
    <3> QED
      BY <1>3, <3>2
  <2>3. n + 1 <= Cap
    BY <1>1, <1>6 DEF RoomFor
  <2>4. \A i \in 1 .. n + 1 : FrameOK(stack'[i], i)
    <3>1. \A i \in 1 .. n + 1 : i = n + 1 \/ i \in 1 .. n
      BY <1>2
    <3> QED
      BY <1>2, <1>3, <1>4, <2>2, <3>1
  <2>5. FramesOK'
    BY <2>2, <2>3, <2>4 DEF FramesOK
  <2>6. \A i \in 1 .. n - 1 : i \in 1 .. n /\ stack'[i] = stack[i]
    BY <1>2, <1>3, <2>2
  <2>7. n \in 1 .. n /\ stack'[n] = t[n]
    BY <1>2, <2>2
  <2> QED
    BY <2>2, <2>5, <2>6, <2>7
<1>7. /\ DOMAIN pkgs' = DOMAIN pkgs /\ pkgs' = [q \in DOMAIN pkgs |-> pkgs'[q]]
      /\ \A q \in DOMAIN pkgs : q # p => pkgs'[q] = pkgs[q]
      /\ pkgs'[p] = [pkgs[p] EXCEPT !.flags = @ \cup Top.flags]
  BY <1>1 DEF PkgsOK
<1>8. /\ PkgOK(pkgs'[p])
      /\ pkgs'[p].requires = pkgs[p].requires /\ pkgs'[p].private = pkgs[p].private
      /\ pkgs'[p].flags = pkgs[p].flags \cup Top.flags
  <2>1. PkgOK(pkgs[p]) /\ Top.flags \subseteq Flags
    BY <1>1, <1>2 DEF PkgsOK, FrameOK
  <2> DEFINE k == pkgs[p]
             g == [k EXCEPT !.flags = @ \cup Top.flags]
             F == k.flags \cup Top.flags
  <2>2. k \in [requires : {k.requires}, private : {k.private}, fields : {k.fields},
               flags : {k.flags}]
    <3>1. k = [requires |-> k.requires, private |-> k.private, fields |-> k.fields,
               flags |-> k.flags]
      BY <2>1 DEF PkgOK
    <3> QED
      BY <3>1
  <2>3. g \in [requires : {k.requires}, private : {k.private}, fields : {k.fields},
               flags : {F}]
    BY <2>2
  <2>4. g.requires = k.requires /\ g.private = k.private /\ g.flags = F
    BY <2>3
  <2>5. g = [requires |-> g.requires, private |-> g.private, fields |-> g.fields,
             flags |-> g.flags]
    <3> HIDE DEF g, k, F
    <3> QED
      BY <2>3
  <2>6. pkgs'[p] = g
    BY <1>7
  <2>7. PkgOK(g)
    BY <2>1, <2>4, <2>5 DEF PkgOK
  <2> QED
    BY <2>4, <2>6, <2>7
<1>9. PkgsOK'
  BY <1>1, <1>7, <1>8 DEF PkgsOK
<1>10. \A q \in DOMAIN pkgs :
         /\ pkgs'[q].requires = pkgs[q].requires /\ pkgs'[q].private = pkgs[q].private
         /\ pkgs'[q].flags = pkgs[q].flags \cup (IF q = p THEN Top.flags ELSE {})
  BY <1>7, <1>8
<1> QED
  BY <1>3, <1>5, <1>6, <1>7, <1>9, <1>10 DEF f

LEMMA VisitStructure == ASSUME SInv, Placed, VisitWorks PROVE SInv'
<1>1. FramesOK' /\ PkgsOK' /\ DOMAIN pkgs' = DOMAIN pkgs
  BY VisitFrames
<1>2. /\ stack # <<>> /\ order' = Listed /\ status = "walking"
      /\ UNCHANGED <<input, work, status>>
  BY DEF VisitWorks, AtSpec
<1>3. ListOK'
  <2>1. IsSeq(Listed) /\ ToSet(Listed) \subseteq DOMAIN pkgs
    BY <1>2, ListedIs
  <2> QED
    BY <1>1, <1>2, <2>1 DEF ListOK
<1> QED
  BY <1>1, <1>2, <1>3 DEF SInv, WorkOK, PhaseOK

LEMMA FindFrames ==
  ASSUME SInv, FindWorks
  PROVE  /\ FramesOK' /\ DOMAIN stack' = DOMAIN stack /\ Len(stack') = Len(stack)
         /\ \A i \in 1 .. Len(stack) - 1 : stack'[i] = stack[i]
         /\ stack'[Len(stack)] = [specs |-> Tail(Top.specs), newpkg |-> <<Spec1.name>>,
                                  depth |-> Top.depth, flags |-> Top.flags]
<1> DEFINE m == <<Spec1.name>>
<1>1. /\ FramesOK /\ stack # <<>> /\ Top.specs # <<>> /\ stack' = Taken(m)
  BY DEF SInv, FindWorks, AtSpec
<1>2. m = <<m[1]>>
  OBVIOUS
<1> HIDE DEF m
<1>3. /\ IsSeq(Taken(m)) /\ Len(Taken(m)) = Len(stack) /\ DOMAIN Taken(m) = DOMAIN stack
      /\ \A i \in 1 .. Len(stack) - 1 : Taken(m)[i] = stack[i]
      /\ Taken(m)[Len(stack)] = [specs |-> Tail(Top.specs), newpkg |-> m,
                                 depth |-> Top.depth, flags |-> Top.flags]
      /\ \A i \in DOMAIN stack : FrameOK(Taken(m)[i], i)
  BY <1>1, <1>2, TakenIs
<1>4. FramesOK'
  BY <1>1, <1>3 DEF FramesOK
<1> QED
  BY <1>1, <1>3, <1>4 DEF m

LEMMA FindStructure == ASSUME SInv, Placed, FindWorks PROVE SInv'
<1> DEFINE p == Spec1.name
           file == ReadPackage(DirOf(p), p)
           n == Len(stack)
<1>1. /\ input \in Inputs /\ stack # <<>> /\ status = "walking" /\ p \notin DOMAIN pkgs
      /\ Candidates(p) # {} /\ file # Unreadable /\ order' = Listed /\ status' = "expanding"
      /\ UNCHANGED <<input, pkgs>>
  BY DEF SInv, FindWorks, AtSpec
<1>2. work' = [spec |-> Spec1, dir |-> DirOf(p), todo |-> Fields,
               strings |-> <<FieldIn(file, Fields[1])>>, out |-> <<>>, fields |-> <<>>]
  BY DEF FindWorks
<1>3. Legal(file)
  BY <1>1, FoundFile, FilesAreLegal
<1>4. WorkOK'
  <2> DEFINE s == FieldIn(file, Fields[1])
  <2>1. IsSeq(s)
    BY <1>3, FieldsAre
  <2> HIDE DEF s, file
  <2>2. /\ work'.strings = <<s>> /\ work'.out = <<>> /\ work'.fields = <<>>
        /\ work' = [spec |-> work'.spec, dir |-> work'.dir, todo |-> work'.todo,
                    strings |-> work'.strings, out |-> work'.out, fields |-> work'.fields]
    BY <1>2 DEF s
  <2>3. IsSeq(<<s>>) /\ Len(<<s>>) = 1 /\ DOMAIN <<s>> = {1} /\ <<s>>[1] = s
    BY OneIs
  <2>4. /\ IsSeq(work'.strings) /\ Len(work'.strings) <= Deep
        /\ \A i \in DOMAIN work'.strings : IsSeq(work'.strings[i])
    BY <2>1, <2>2, <2>3, StacksHaveRoom
  <2>5. IsSeq(work'.out) /\ \A f \in DOMAIN work'.fields : IsSeq(work'.fields[f])
    BY <2>2, EmptyIs
  <2> QED
    BY <2>2, <2>4, <2>5 DEF WorkOK
<1>5. ListOK'
  <2>1. IsSeq(Listed) /\ ToSet(Listed) \subseteq DOMAIN pkgs
    BY <1>1, ListedIs
  <2> QED
    BY <1>1, <2>1 DEF ListOK
<1>6. PhaseOK'
  <2>1. work'.spec.name = p /\ work'.dir = DirOf(p)
    BY <1>2
  <2>2. stack' # <<>> /\ Top'.newpkg = <<p>>
    <3>1. FramesOK' /\ DOMAIN stack' = DOMAIN stack /\ Len(stack') = n
      BY FindFrames
    <3>2. stack'[n].newpkg = <<p>>
      <4>1. stack'[n] = [specs |-> Tail(Top.specs), newpkg |-> <<p>>,
                         depth |-> Top.depth, flags |-> Top.flags]
        BY FindFrames
      <4> QED
        BY <4>1
    <3>3. n # 0
      BY <1>1, TopFacts DEF SInv
    <3>4. stack' # <<>>
      BY <3>1, <3>3, EmptyIs
    <3> QED
      BY <3>1, <3>2, <3>4 DEF Top
  <2>3. File' = file
    BY <1>1, <2>1 DEF File, ReadPackage
  <2> HIDE DEF file
  <2> QED
    BY <1>1, <1>3, <2>1, <2>2, <2>3 DEF PhaseOK, Legal
<1>7. FramesOK'
  BY FindFrames
<1> QED
  BY <1>1, <1>4, <1>5, <1>6, <1>7 DEF SInv, PkgsOK

\* An expansion: the package stays the same, and so does the walk.
Expands ==
  /\ status = "expanding" /\ WorkOK' /\ work'.spec = work.spec /\ work'.dir = work.dir
  /\ UNCHANGED <<input, stack, pkgs, order, status>>

LEMMA ExpandsStructure == ASSUME SInv, Expands PROVE SInv'
<1>1. File' = File /\ Top' = Top
  BY DEF Expands, File, ReadPackage, Top
<1> QED
  BY <1>1 DEF Expands, SInv, FramesOK, PkgsOK, ListOK, PhaseOK, Legal

LEMMA ChangedWork ==
  ASSUME NEW w, NEW a, NEW b,
         w = [spec |-> w.spec, dir |-> w.dir, todo |-> w.todo,
              strings |-> w.strings, out |-> w.out, fields |-> w.fields]
  PROVE  [w EXCEPT !.strings = a, !.out = b] =
           [spec |-> w.spec, dir |-> w.dir, todo |-> w.todo,
            strings |-> a, out |-> b, fields |-> w.fields]
<1> DEFINE g == [w EXCEPT !.strings = a, !.out = b]
<1>1. w \in [spec : {w.spec}, dir : {w.dir}, todo : {w.todo}, strings : {w.strings},
             out : {w.out}, fields : {w.fields}]
  <2>1. w = [spec |-> w.spec, dir |-> w.dir, todo |-> w.todo,
             strings |-> w.strings, out |-> w.out, fields |-> w.fields]
    OBVIOUS
  <2> QED
    BY <2>1
<1>2. g \in [spec : {w.spec}, dir : {w.dir}, todo : {w.todo}, strings : {a},
             out : {b}, fields : {w.fields}]
  BY <1>1
<1>3. /\ g.spec = w.spec /\ g.dir = w.dir /\ g.todo = w.todo /\ g.strings = a
      /\ g.out = b /\ g.fields = w.fields
  BY <1>2
<1>4. g = [spec |-> g.spec, dir |-> g.dir, todo |-> g.todo,
           strings |-> g.strings, out |-> g.out, fields |-> g.fields]
  <2> HIDE DEF g
  <2> QED
    BY <1>2
<1> QED
  BY <1>3, <1>4, Zenon

\* What one round of the loop in expand() does to the two buffers.
LEMMA RoundExpands ==
  ASSUME SInv, status = "expanding", NEW a, NEW b,
         work' = [work EXCEPT !.strings = a, !.out = b],
         IsSeq(a), Len(a) <= Deep, \A i \in 1 .. Len(a) : IsSeq(a[i]), IsSeq(b),
         UNCHANGED <<input, stack, pkgs, order, status>>
  PROVE  Expands
<1>1. work' = [spec |-> work.spec, dir |-> work.dir, todo |-> work.todo,
               strings |-> a, out |-> b, fields |-> work.fields]
  BY ChangedWork DEF SInv, WorkOK
<1>2. /\ work'.spec = work.spec /\ work'.dir = work.dir /\ work'.strings = a
      /\ work'.out = b /\ work'.fields = work.fields /\ work'.todo = work.todo
  BY <1>1
<1>3. DOMAIN a = 1 .. Len(a)
  BY SeqFacts
<1>4. WorkOK'
  BY <1>1, <1>2, <1>3 DEF SInv, WorkOK
<1> QED
  BY <1>2, <1>4 DEF Expands

\* The string on top, and what is below it.
LEMMA StringsAre ==
  ASSUME WorkOK, work.strings # <<>>
  PROVE  /\ IsSeq(String) /\ IsSeq(Below) /\ Len(Below) = Len(work.strings) - 1
         /\ Len(Below) \in Nat /\ Len(Below) < Deep
         /\ \A i \in 1 .. Len(Below) : IsSeq(Below[i])
<1>1. /\ IsSeq(work.strings) /\ Len(work.strings) <= Deep
      /\ \A i \in DOMAIN work.strings : IsSeq(work.strings[i])
  BY DEF WorkOK
<1>2. /\ Len(work.strings) \in Nat \ {0}
      /\ DOMAIN work.strings = 1 .. Len(work.strings)
  BY <1>1, SeqFacts
<1>3. /\ IsSeq(Below) /\ Len(Below) = Len(work.strings) - 1
      /\ \A i \in 1 .. Len(work.strings) - 1 : Below[i] = work.strings[i]
  BY <1>1, FrontIs DEF Below
<1>4. IsSeq(String)
  BY <1>1, <1>2 DEF String
<1> QED
  BY <1>1, <1>2, <1>3, <1>4, StacksHaveRoom

LEMMA StopIs ==
  ASSUME IsSeq(String), Specials # {}
  PROVE  /\ Stop \in DOMAIN String /\ IsSeq(SubSeq(String, 1, Stop - 1)) /\ IsSeq(Rest)
<1>1. Specials \subseteq DOMAIN String /\ DOMAIN String \subseteq Nat
  BY SeqFacts DEF Specials
<1>2. Stop \in DOMAIN String
  BY <1>1, MinIs DEF Stop
<1> QED
  BY <1>2, SubIs DEF Rest

LEMMA RestBelow ==
  ASSUME WorkOK, work.strings # <<>>, IsSeq(Rest)
  PROVE  /\ IsSeq(Append(Below, Rest)) /\ Len(Append(Below, Rest)) = Len(Below) + 1
         /\ \A i \in 1 .. Len(Below) + 1 : IsSeq(Append(Below, Rest)[i])
<1>1. IsSeq(Below) /\ Len(Below) \in Nat /\ \A i \in 1 .. Len(Below) : IsSeq(Below[i])
  BY StringsAre
<1>2. /\ IsSeq(Append(Below, Rest)) /\ Len(Append(Below, Rest)) = Len(Below) + 1
      /\ \A i \in 1 .. Len(Below) : Append(Below, Rest)[i] = Below[i]
      /\ Append(Below, Rest)[Len(Below) + 1] = Rest
  BY <1>1, AppendIs
<1>3. \A i \in 1 .. Len(Below) + 1 : i = Len(Below) + 1 \/ i \in 1 .. Len(Below)
  BY <1>1
<1> QED
  BY <1>1, <1>2, <1>3

LEMMA CopyExpands == ASSUME SInv, Copy PROVE Expands
<1>1. /\ WorkOK /\ work.strings # <<>> /\ status = "expanding"
      /\ work' = [work EXCEPT !.strings = Below, !.out = work.out \o String]
      /\ UNCHANGED <<input, stack, pkgs, order, status>>
  BY DEF SInv, Copy, Expanding
<1>2. /\ IsSeq(String) /\ IsSeq(Below) /\ Len(Below) \in Nat /\ Len(Below) < Deep
      /\ \A i \in 1 .. Len(Below) : IsSeq(Below[i])
  BY <1>1, StringsAre
<1>3. IsSeq(work.out \o String)
  <2>1. IsSeq(work.out)
    BY <1>1 DEF WorkOK
  <2> QED
    BY <1>2, <2>1, ConcatIs
<1>4. Len(Below) <= Deep
  BY <1>2, StacksHaveRoom
<1> QED
  BY <1>1, <1>2, <1>3, <1>4, RoundExpands

LEMMA UnescapeExpands == ASSUME SInv, Unescape PROVE Expands
<1> DEFINE d == <<<<"", "$">>>>
           out == work.out \o SubSeq(String, 1, Stop - 1) \o d
<1>1. /\ WorkOK /\ work.strings # <<>> /\ status = "expanding" /\ Specials # {}
      /\ work' = [work EXCEPT !.strings = Append(Below, Rest), !.out = out]
      /\ UNCHANGED <<input, stack, pkgs, order, status>>
  BY DEF SInv, Unescape, Expanding
<1>2. IsSeq(d)
  BY OneIs
<1> HIDE DEF d
<1>3. IsSeq(String) /\ Len(Below) \in Nat /\ Len(Below) < Deep
  BY <1>1, StringsAre
<1>4. IsSeq(SubSeq(String, 1, Stop - 1)) /\ IsSeq(Rest)
  BY <1>1, <1>3, StopIs
<1>5. IsSeq(out)
  <2>1. IsSeq(work.out)
    BY <1>1 DEF WorkOK
  <2>2. IsSeq(work.out \o SubSeq(String, 1, Stop - 1))
    BY <1>4, <2>1, ConcatIs
  <2> QED
    BY <1>2, <2>2, ConcatIs
<1>6. /\ IsSeq(Append(Below, Rest)) /\ Len(Append(Below, Rest)) = Len(Below) + 1
      /\ \A i \in 1 .. Len(Below) + 1 : IsSeq(Append(Below, Rest)[i])
  BY <1>1, <1>4, RestBelow
<1>7. Len(Append(Below, Rest)) <= Deep
  BY <1>3, <1>6, StacksHaveRoom
<1> HIDE DEF out
<1> QED
  BY <1>1, <1>5, <1>6, <1>7, RoundExpands

LEMMA SubstituteExpands == ASSUME SInv, SubstituteWorks PROVE Expands
<1> DEFINE out == work.out \o SubSeq(String, 1, Stop - 1)
<1>1. /\ WorkOK /\ work.strings # <<>> /\ status = "expanding" /\ Specials # {}
      /\ Len(Below) < Deep - 1 /\ input \in Inputs /\ PhaseOK
      /\ UNCHANGED <<input, stack, pkgs, order, status>>
  BY DEF SInv, SubstituteWorks, Expanding
<1>2. PICK value \in Lookup(work.dir, File, String[Stop][2]) :
        work' = [work EXCEPT !.strings = Pushed(value), !.out = out]
  BY DEF SubstituteWorks
<1>3. IsSeq(value)
  <2>1. Legal(File)
    BY <1>1 DEF PhaseOK
  <2> QED
    BY <1>1, <2>1, VariablesAre
<1>4. IsSeq(String) /\ Len(Below) \in Nat
  BY <1>1, StringsAre
<1>5. IsSeq(SubSeq(String, 1, Stop - 1)) /\ IsSeq(Rest)
  BY <1>1, <1>4, StopIs
<1>6. IsSeq(out)
  <2>1. IsSeq(work.out)
    BY <1>1 DEF WorkOK
  <2> QED
    BY <1>5, <2>1, ConcatIs
<1> DEFINE s == Append(Below, Rest)
<1>7. IsSeq(s) /\ Len(s) = Len(Below) + 1 /\ \A i \in 1 .. Len(Below) + 1 : IsSeq(s[i])
  BY <1>1, <1>5, RestBelow
<1>8. Pushed(value) = s \o <<value>>
  BY DEF Pushed
<1> HIDE DEF s, out
<1>9. /\ IsSeq(Pushed(value)) /\ Len(Pushed(value)) = Len(s) + 1
      /\ \A i \in 1 .. Len(s) : Pushed(value)[i] = s[i]
      /\ Pushed(value)[Len(s) + 1] = value
  <2>1. IsSeq(s)
    BY <1>7
  <2> QED
    BY <1>8, <2>1, OneMore
<1>10. \A i \in 1 .. Len(Pushed(value)) : IsSeq(Pushed(value)[i])
  <2>1. \A i \in 1 .. Len(Pushed(value)) : i = Len(s) + 1 \/ i \in 1 .. Len(s)
    BY <1>4, <1>7, <1>9
  <2> QED
    BY <1>3, <1>7, <1>9, <2>1
<1>11. Len(Pushed(value)) <= Deep
  BY <1>1, <1>4, <1>7, <1>9, StacksHaveRoom
<1> QED
  BY <1>1, <1>2, <1>6, <1>9, <1>10, <1>11, RoundExpands

LEMMA EndedField ==
  ASSUME NEW w, NEW t, NEW a, NEW b, NEW c,
         w = [spec |-> w.spec, dir |-> w.dir, todo |-> w.todo,
              strings |-> w.strings, out |-> w.out, fields |-> w.fields]
  PROVE  [w EXCEPT !.todo = t, !.out = b, !.strings = a, !.fields = c] =
           [spec |-> w.spec, dir |-> w.dir, todo |-> t, strings |-> a, out |-> b, fields |-> c]
<1> DEFINE g == [w EXCEPT !.todo = t, !.out = b, !.strings = a, !.fields = c]
<1>1. w \in [spec : {w.spec}, dir : {w.dir}, todo : {w.todo}, strings : {w.strings},
             out : {w.out}, fields : {w.fields}]
  <2>1. w = [spec |-> w.spec, dir |-> w.dir, todo |-> w.todo,
             strings |-> w.strings, out |-> w.out, fields |-> w.fields]
    OBVIOUS
  <2> QED
    BY <2>1
<1>2. g \in [spec : {w.spec}, dir : {w.dir}, todo : {t}, strings : {a}, out : {b},
             fields : {c}]
  BY <1>1
<1>3. /\ g.spec = w.spec /\ g.dir = w.dir /\ g.todo = t /\ g.strings = a
      /\ g.out = b /\ g.fields = c
  BY <1>2
<1>4. g = [spec |-> g.spec, dir |-> g.dir, todo |-> g.todo,
           strings |-> g.strings, out |-> g.out, fields |-> g.fields]
  <2> HIDE DEF g
  <2> QED
    BY <1>2
<1> QED
  BY <1>3, <1>4, Zenon

LEMMA FieldEndsExpands == ASSUME SInv, FieldEnds PROVE Expands
<1> DEFINE first == work.todo[1]
           todo == Tail(work.todo)
           strings == IF todo = <<>> THEN <<>> ELSE <<FieldIn(File, todo[1])>>
           fields == [f \in DOMAIN work.fields \cup {first} |->
                        IF f = first THEN work.out ELSE work.fields[f]]
<1>1. /\ WorkOK /\ status = "expanding" /\ input \in Inputs /\ PhaseOK
      /\ work' = [work EXCEPT !.todo = todo, !.out = <<>>, !.strings = strings,
                              !.fields = fields]
      /\ UNCHANGED <<input, stack, pkgs, order, status>>
  BY DEF SInv, FieldEnds
<1>2. /\ IsSeq(strings) /\ Len(strings) <= Deep
      /\ \A i \in DOMAIN strings : IsSeq(strings[i])
  <2> DEFINE s == FieldIn(File, todo[1])
  <2>1. IsSeq(s)
    BY <1>1, FieldsAre DEF PhaseOK
  <2> HIDE DEF s
  <2>2. strings = <<>> \/ strings = <<s>>
    BY DEF s
  <2> HIDE DEF strings
  <2>3. IsSeq(<<s>>) /\ Len(<<s>>) = 1 /\ DOMAIN <<s>> = {1} /\ <<s>>[1] = s
    BY OneIs
  <2> QED
    BY <2>1, <2>2, <2>3, EmptyIs, StacksHaveRoom
<1>3. \A f \in DOMAIN fields : IsSeq(fields[f])
  BY <1>1 DEF WorkOK
<1> HIDE DEF todo, strings, fields
<1>4. work' = [spec |-> work.spec, dir |-> work.dir, todo |-> todo, strings |-> strings,
               out |-> <<>>, fields |-> fields]
  BY <1>1, EndedField DEF WorkOK
<1>5. /\ work'.spec = work.spec /\ work'.dir = work.dir /\ work'.todo = todo
      /\ work'.strings = strings /\ work'.out = <<>> /\ work'.fields = fields
  BY <1>4
<1>6. WorkOK'
  BY <1>2, <1>3, <1>4, <1>5, EmptyIs DEF WorkOK
<1> QED
  BY <1>1, <1>5, <1>6 DEF Expands

\* What becomes of the frames and of the packages when one is loaded.
LEMMA LoadFrames ==
  ASSUME SInv, LoadWorks
  PROVE  /\ FramesOK' /\ PkgsOK' /\ PkgOK(Fresh)
         /\ DOMAIN pkgs' = DOMAIN pkgs \cup {work.spec.name}
         /\ work.spec.name \notin DOMAIN pkgs
         /\ \A p \in DOMAIN pkgs : pkgs'[p] = pkgs[p]
         /\ pkgs'[work.spec.name] = Fresh
         /\ \A i \in 1 .. Len(stack) : stack'[i] = stack[i]
         /\ ~Deeper => DOMAIN stack' = 1 .. Len(stack)
         /\ Deeper =>
              /\ DOMAIN stack' = 1 .. Len(stack) + 2
              /\ stack'[Len(stack) + 1] =
                   Frame(Fresh.requires, Top.depth + 1, Top.flags \ {"DIRECT"})
              /\ stack'[Len(stack) + 2] = Frame(Fresh.private, Top.depth + 1, {})
<1> DEFINE n == Len(stack)
           x == work.spec.name
           f == Frame(Fresh.requires, Top.depth + 1, Top.flags \ {"DIRECT"})
           g == Frame(Fresh.private, Top.depth + 1, {})
<1>1. /\ FramesOK /\ PkgsOK /\ WorkOK /\ stack # <<>> /\ x \notin DOMAIN pkgs
      /\ Deeper => RoomFor(2)
      /\ stack' = stack \o IF Deeper THEN <<f, g>> ELSE <<>>
      /\ pkgs' = [q \in DOMAIN pkgs \cup {x} |-> IF q \in DOMAIN pkgs THEN pkgs[q] ELSE Fresh]
  BY DEF SInv, LoadWorks, PhaseOK
<1>2. /\ n \in Nat \ {0} /\ FrameOK(Top, n) /\ DOMAIN stack = 1 .. n /\ n <= Cap
      /\ IsSeq(stack)
  BY <1>1, TopFacts DEF FramesOK
<1>3. PkgOK(Fresh)
  <2>1. \A name : IsSeq(Field(work.fields, name))
    BY <1>1, EmptyIs DEF Field, WorkOK
  <2>2. IsSeq(Fresh.requires) /\ IsSeq(Fresh.private)
    BY <2>1, SpecsAre DEF Fresh
  <2>3. Fresh.flags \subseteq Flags
    BY <1>2 DEF Fresh, FrameOK
  <2>4. Fresh = [requires |-> Fresh.requires, private |-> Fresh.private,
                 fields |-> Fresh.fields, flags |-> Fresh.flags]
    BY DEF Fresh
  <2> QED
    BY <2>2, <2>3, <2>4 DEF PkgOK
<1>4. /\ DOMAIN pkgs' = DOMAIN pkgs \cup {x} /\ \A q \in DOMAIN pkgs : pkgs'[q] = pkgs[q]
      /\ pkgs'[x] = Fresh /\ pkgs' = [q \in DOMAIN pkgs' |-> pkgs'[q]]
  BY <1>1
<1>5. PkgsOK'
  BY <1>1, <1>3, <1>4 DEF PkgsOK
<1>6. FrameOK(f, n + 1) /\ FrameOK(g, n + 2)
  <2>1. /\ Top.depth + 1 \in Nat /\ n + 1 \in Nat /\ n + 2 \in Nat
        /\ Top.depth + 1 < n + 1 /\ Top.depth + 1 < n + 2
        /\ Top.flags \ {"DIRECT"} \in SUBSET Flags /\ {} \in SUBSET Flags
    BY <1>2 DEF FrameOK
  <2>2. IsSeq(Fresh.requires) /\ IsSeq(Fresh.private)
    BY <1>3 DEF PkgOK
  <2>3. FrameOK(f, n + 1)
    BY <2>1, <2>2, FrameIs
  <2>4. FrameOK(g, n + 2)
    BY <2>1, <2>2, FrameIs
  <2> QED
    BY <2>3, <2>4
<1> HIDE DEF f, g
<1>7. ASSUME ~Deeper
      PROVE  FramesOK' /\ DOMAIN stack' = 1 .. n /\ \A i \in 1 .. n : stack'[i] = stack[i]
  <2>1. stack' = stack
    <3>1. stack' = stack \o <<>>
      BY <1>1, <1>7
    <3>2. stack \in Seq(ToSet(stack))
      BY <1>2, SeqFacts
    <3> QED
      BY <3>1, <3>2
  <2> QED
    BY <1>1, <1>2, <2>1 DEF FramesOK
<1>8. ASSUME Deeper
      PROVE  /\ FramesOK' /\ DOMAIN stack' = 1 .. n + 2
             /\ \A i \in 1 .. n : stack'[i] = stack[i]
             /\ stack'[n + 1] = f /\ stack'[n + 2] = g
  <2>1. stack' = stack \o <<f, g>>
    BY <1>1, <1>8
  <2>2. /\ IsSeq(stack') /\ Len(stack') = n + 2 /\ DOMAIN stack' = 1 .. n + 2
        /\ \A i \in 1 .. n : stack'[i] = stack[i]
        /\ stack'[n + 1] = f /\ stack'[n + 2] = g
    BY <1>2, <2>1, TwoMore
  <2>3. n + 2 <= Cap
    BY <1>1, <1>8 DEF RoomFor
  <2>4. \A i \in 1 .. n + 2 : FrameOK(stack'[i], i)
    <3>1. \A i \in 1 .. n + 2 : i = n + 2 \/ i = n + 1 \/ i \in 1 .. n
      BY <1>2
    <3>2. \A i \in 1 .. n : FrameOK(stack[i], i)
      BY <1>1, <1>2 DEF FramesOK
    <3> QED
      BY <1>6, <2>2, <3>1, <3>2
  <2>5. FramesOK'
    BY <2>2, <2>3, <2>4 DEF FramesOK
  <2> QED
    BY <2>2, <2>5
<1> QED
  BY <1>1, <1>3, <1>4, <1>5, <1>7, <1>8 DEF f, g

LEMMA LoadStructure == ASSUME SInv, LoadWorks PROVE SInv'
<1>1. FramesOK' /\ PkgsOK' /\ DOMAIN pkgs' = DOMAIN pkgs \cup {work.spec.name}
  BY LoadFrames
<1>2. status' = "walking" /\ work' = Idle /\ UNCHANGED <<input, order>>
  BY DEF LoadWorks
<1>3. WorkOK'
  <2>1. /\ work'.strings = <<>> /\ work'.out = <<>> /\ work'.fields = <<>>
        /\ work' = [spec |-> work'.spec, dir |-> work'.dir, todo |-> work'.todo,
                    strings |-> work'.strings, out |-> work'.out, fields |-> work'.fields]
    BY <1>2 DEF Idle
  <2> QED
    BY <2>1, EmptyIs, StacksHaveRoom DEF WorkOK
<1> QED
  BY <1>1, <1>2, <1>3 DEF SInv, ListOK, PhaseOK

LEMMA ReportStructure == ASSUME SInv, ReportWorks PROVE SInv'
BY DEF ReportWorks, SInv, FramesOK, WorkOK, PkgsOK, ListOK, PhaseOK

-----------------------------------------------------------------------------
(* What the walk has listed, marked and promised, when it starts and when   *)
(* only the expansion goes on.                                              *)

LEMMA WalkStarts == ASSUME SInv, StartWorks PROVE WInv'
<1> DEFINE specs == ParseSpecs(input.args)
           f == Frame(specs, 0, Flags)
<1>1. /\ stack' = <<f>> /\ DOMAIN pkgs = {} /\ status' = "walking"
      /\ IsSeq(order) /\ ToSet(order) \subseteq DOMAIN pkgs
      /\ UNCHANGED <<input, pkgs, order, work>>
  BY DEF SInv, StartWorks, PhaseOK, ListOK
<1>2. f.specs = specs /\ f.newpkg = <<>> /\ f.flags = Flags
  BY DEF Frame
<1> HIDE DEF f
<1>3. DOMAIN stack' = {1} /\ stack'[1] = f /\ Len(stack') = 1
  BY <1>1, OneIs
<1>4. DOMAIN order = {}
  BY <1>1, SeqFacts DEF ToSet
<1>5. Met(1)' = {}
  BY <1>2, <1>3, EmptyIs DEF Met
<1>6. Asked' = Asked /\ Coming(1)' = Asked
  <2>1. Loading' = {}
    BY <1>1 DEF Loading
  <2>2. Asked' = Asked /\ Asked = Names(specs)
    BY <1>1 DEF Asked
  <2> QED
    BY <1>2, <1>3, <2>1, <2>2 DEF Coming
<1>7. DOMAIN pkgs' = {} /\ DOMAIN order' = {} /\ ToSet(order') = {}
  BY <1>1, <1>4 DEF ToSet
<1>8. Marked("DIRECT")' = {} /\ Marked("PUBLIC")' = {}
  BY <1>7 DEF Marked
<1>9. Placed'
  BY <1>3, <1>5, <1>7 DEF Placed
<1>10. Promised'
  BY <1>2, <1>3, <1>6, <1>8 DEF Promised
<1>11. Justified'
  BY <1>3, <1>6, <1>7, <1>8 DEF Justified
<1>12. Nested' /\ Awaited' /\ Sorted'
  BY <1>3, <1>5, <1>7 DEF Nested, Awaited, Sorted
<1> QED
  BY <1>9, <1>10, <1>11, <1>12 DEF WInv

LEMMA SameWalk ==
  ASSUME WInv, UNCHANGED <<input, stack, pkgs, order>>, Loading' = Loading
  PROVE  WInv'
<1>1. Placed'
  BY DEF WInv, Placed, Met
<1>2. Promised'
  BY DEF WInv, Promised, Coming, Asked, Marked, Public, Unlimited, Recursive, Options
<1>3. Justified'
  BY DEF WInv, Justified, Coming, Asked, Marked, Public, Needed, Complete, CompletePublic
<1>4. Nested'
  BY DEF WInv, Nested, Coming, Met, Needs, Needed, Public, Complete
<1>5. Awaited'
  BY DEF WInv, Awaited, Coming, Met, Needed, Public, Unlimited, Recursive, Options
<1>6. Sorted'
  BY DEF WInv, Sorted, Needs, Needed, Public, Complete, Unlimited, Recursive, Options
<1> QED
  BY <1>1, <1>2, <1>3, <1>4, <1>5, <1>6 DEF WInv

\* A frame is never as deep as the stack is high.
LEMMA RoomToGoOn ==
  ASSUME SInv, stack # <<>>, Unlimited
  PROVE  Deeper
<1>1. /\ Len(stack) \in Nat \ {0} /\ Top.depth \in Nat /\ Top.depth < Len(stack)
      /\ Len(stack) <= Cap
  BY TopFacts DEF SInv, FrameOK, FramesOK
<1>2. input.maxDepth \in Int /\ Cap \in Nat
  BY InputsAreLegal, StacksHaveRoom DEF SInv
<1>3. Recursive /\ input.maxDepth > Cap
  BY DEF Unlimited
<1> QED
  BY <1>1, <1>2, <1>3 DEF Deeper

-----------------------------------------------------------------------------
(* The steps that take something off the top frame: its package goes on the *)
(* list.                                                                    *)

Moves(n) ==
  /\ n = Len(stack) /\ SInv /\ WInv /\ status = "walking" /\ stack # <<>>
  /\ order' = Listed /\ input' = input /\ DOMAIN pkgs' = DOMAIN pkgs
  /\ \A p \in DOMAIN pkgs :
       pkgs'[p].requires = pkgs[p].requires /\ pkgs'[p].private = pkgs[p].private
  /\ DOMAIN stack' \subseteq 1 .. n + 1
  /\ \A i \in 1 .. n - 1 :
       i \in DOMAIN stack' /\ stack'[i] = stack[i] /\ Coming(i)' = Coming(i)
  /\ Loading' \cap DOMAIN pkgs = {} /\ Loading' \subseteq Coming(n)
  \* what is left of the top frame
  /\ n \in DOMAIN stack' =>
       /\ Met(n)' \subseteq Loading' /\ stack'[n].flags = Top.flags
       /\ Coming(n)' \subseteq Coming(n)
  /\ \A p \in Coming(n) :
       \/ n \in DOMAIN stack' /\ p \in Coming(n)'
       \/ p \in DOMAIN pkgs /\ \A flag \in Top.flags : p \in Marked(flag)'
  \* and the one above it
  /\ n + 1 \in DOMAIN stack' =>
       /\ Met(n)' = {} /\ Met(n + 1)' = {}
       /\ stack'[n + 1].flags = Top.flags \ {"DIRECT"}
       /\ \E x \in Coming(n) \cap DOMAIN pkgs : Coming(n + 1)' = Public(x)
  /\ \A flag : /\ Marked(flag) \subseteq Marked(flag)'
               /\ flag \in Top.flags => Marked(flag)' \subseteq Marked(flag) \cup Coming(n)
               /\ flag \notin Top.flags => Marked(flag)' = Marked(flag)
  /\ Unlimited => \A p \in Marked("PUBLIC")' : \/ p \in Marked("PUBLIC")
                                               \/ /\ n + 1 \in DOMAIN stack'
                                                  /\ "PUBLIC" \in Top.flags
                                                  /\ Coming(n + 1)' = Public(p)

\* The frames: those below, the top one, and one that may come on it.
LEMMA MovedFrames ==
  ASSUME NEW n, Moves(n)
  PROVE  /\ n \in Nat \ {0} /\ DOMAIN stack = 1 .. n
         /\ \A i \in DOMAIN stack : i = n \/ i \in 1 .. n - 1
         /\ \A i \in DOMAIN stack' :
              \/ i \in 1 .. n - 1 \/ i = n \/ i = n + 1
         /\ \A i \in 1 .. n - 1 :
              /\ i \in DOMAIN stack /\ i \in DOMAIN stack' /\ Met(i)' = Met(i)
              /\ stack'[i] = stack[i] /\ Coming(i)' = Coming(i)
<1>1. n \in Nat \ {0} /\ DOMAIN stack = 1 .. n
  BY TopFacts DEF Moves, SInv
<1>2. \A i \in DOMAIN stack : i = n \/ i \in 1 .. n - 1
  BY <1>1
<1>3. DOMAIN stack' \subseteq 1 .. n + 1
  BY DEF Moves
<1>4. \A i \in DOMAIN stack' :
        i \in 1 .. n - 1 \/ i = n \/ i = n + 1
  BY <1>1, <1>3
<1>5. \A i \in 1 .. n - 1 :
        i \in DOMAIN stack' /\ stack'[i] = stack[i] /\ Coming(i)' = Coming(i)
  BY DEF Moves
<1>6. \A i \in 1 .. n - 1 : i \in DOMAIN stack /\ Met(i)' = Met(i)
  BY <1>1, <1>5 DEF Met
<1> QED
  BY <1>1, <1>2, <1>4, <1>5, <1>6

LEMMA MovedNeeds ==
  ASSUME NEW n, Moves(n)
  PROVE  /\ Unlimited' = Unlimited /\ Asked' = Asked
         /\ \A p \in DOMAIN pkgs : Public(p)' = Public(p) /\ Needed(p)' = Needed(p)
         /\ \A set : Complete(set)' = Complete(set)
         /\ \A set : CompletePublic(set)' = CompletePublic(set)
         /\ \A p, q : Needs(p, q)' = Needs(p, q)
<1>1. input' = input /\ DOMAIN pkgs' = DOMAIN pkgs
  BY DEF Moves
<1>2. Unlimited' = Unlimited /\ Asked' = Asked
  BY <1>1 DEF Unlimited, Recursive, Options, Asked
<1>3. \A p \in DOMAIN pkgs : Public(p)' = Public(p) /\ Needed(p)' = Needed(p)
  BY DEF Moves, Public, Needed
<1>4. \A set : Complete(set)' = Complete(set)
  BY <1>1, <1>3 DEF Complete
<1>5. \A set : CompletePublic(set)' = CompletePublic(set)
  BY <1>1, <1>3 DEF CompletePublic
<1>6. \A p, q : Needs(p, q)' = Needs(p, q)
  BY <1>4 DEF Needs
<1> QED
  BY <1>2, <1>3, <1>4, <1>5, <1>6

LEMMA MovedPlaced ==
  ASSUME NEW n, Moves(n)
  PROVE  Placed'
<1>1. /\ n = Len(stack) /\ SInv /\ Placed /\ status = "walking" /\ stack # <<>>
      /\ order' = Listed /\ DOMAIN pkgs' = DOMAIN pkgs
      /\ Loading' \cap DOMAIN pkgs = {} /\ Loading = {}
  BY DEF Moves, WInv, Loading
<1>2. /\ ToSet(order') = Met(n) \cup ToSet(order) /\ ToSet(order') \subseteq DOMAIN pkgs
      /\ \A i, j \in DOMAIN order' : order'[i] = order'[j] => i = j
  BY <1>1, ListedIs
<1>3. /\ n \in DOMAIN stack
      /\ \A i \in DOMAIN stack : i = n \/ i \in 1 .. n - 1
      /\ \A i \in 1 .. n - 1 : i \in DOMAIN stack /\ i \in DOMAIN stack' /\ Met(i)' = Met(i)
      /\ \A i \in 1 .. n - 1 : i # n
  BY MovedFrames
<1>4. \A i \in DOMAIN stack' :
        \/ i \in 1 .. n - 1
        \/ i = n /\ Met(i)' \subseteq Loading'
        \/ Met(i)' = {}
  BY MovedFrames DEF Moves
<1>5. /\ \A i \in DOMAIN stack : Met(i) \subseteq DOMAIN pkgs /\ Met(i) \cap ToSet(order) = {}
      /\ \A i, j \in DOMAIN stack : i # j => Met(i) \cap Met(j) = {}
      /\ \A p \in DOMAIN pkgs : p \in ToSet(order) \/ \E i \in DOMAIN stack : p \in Met(i)
  BY <1>1 DEF Placed
<1>6. \A i \in DOMAIN stack' : Met(i)' \subseteq DOMAIN pkgs' \cup Loading'
  BY <1>1, <1>3, <1>4, <1>5
<1>7. \A i \in DOMAIN stack' : Met(i)' \cap ToSet(order') = {}
  <2>1. ASSUME NEW i \in 1 .. n - 1
        PROVE  Met(i)' \cap ToSet(order') = {}
    <3>1. Met(i) \cap Met(n) = {} /\ Met(i) \cap ToSet(order) = {} /\ Met(i)' = Met(i)
      BY <1>3, <1>5
    <3> QED
      BY <1>2, <3>1
  <2> QED
    BY <1>1, <1>2, <1>4, <2>1
<1>8. \A i, j \in DOMAIN stack' : i # j => Met(i)' \cap Met(j)' = {}
  <2>1. \A i, j \in 1 .. n - 1 : i # j => Met(i)' \cap Met(j)' = {}
    BY <1>3, <1>5
  <2>2. \A i \in 1 .. n - 1 : Met(i)' \cap Loading' = {}
    BY <1>1, <1>3, <1>5
  <2> QED
    BY <1>4, <2>1, <2>2
<1>9. \A p \in DOMAIN pkgs' : p \in ToSet(order') \/ \E i \in DOMAIN stack' : p \in Met(i)'
  BY <1>1, <1>2, <1>3, <1>5
<1>10. DOMAIN pkgs' \subseteq ToSet(order') \cup UNION {Met(i)' : i \in DOMAIN stack'}
  BY <1>9
<1> QED
  BY <1>2, <1>6, <1>7, <1>8, <1>10 DEF Placed

LEMMA MovedPromised ==
  ASSUME NEW n, Moves(n)
  PROVE  Promised'
<1>1. /\ n = Len(stack) /\ Promised /\ Top = stack[n]
  BY DEF Moves, WInv, Top
<1>2. /\ \A i \in DOMAIN stack : i = n \/ i \in 1 .. n - 1
      /\ \A i \in 1 .. n - 1 :
           i \in DOMAIN stack' /\ stack'[i] = stack[i] /\ Coming(i)' = Coming(i)
  BY MovedFrames
<1>3. /\ n \in DOMAIN stack' => stack'[n].flags = Top.flags
      /\ \A p \in Coming(n) :
           \/ n \in DOMAIN stack' /\ p \in Coming(n)'
           \/ \A flag \in Top.flags : p \in Marked(flag)'
      /\ \A flag : Marked(flag) \subseteq Marked(flag)'
      /\ n + 1 \in DOMAIN stack' => stack'[n + 1].flags = Top.flags \ {"DIRECT"}
  BY DEF Moves
<1>4. \A p \in Asked' :
        \/ p \in Marked("DIRECT")' \cap Marked("PUBLIC")'
        \/ \E i \in DOMAIN stack' : stack'[i].flags = Flags /\ p \in Coming(i)'
  <2>1. SUFFICES ASSUME NEW p \in Asked, p \notin Marked("DIRECT") \cap Marked("PUBLIC")
                 PROVE  \/ p \in Marked("DIRECT")' \cap Marked("PUBLIC")'
                        \/ \E i \in DOMAIN stack' : stack'[i].flags = Flags /\ p \in Coming(i)'
    BY <1>3, MovedNeeds
  <2>2. PICK i \in DOMAIN stack : stack[i].flags = Flags /\ p \in Coming(i)
    BY <1>1, <2>1 DEF Promised
  <2>3. CASE i \in 1 .. n - 1
    BY <1>2, <2>2, <2>3
  <2>4. CASE i = n
    <3>1. Top.flags = Flags /\ "DIRECT" \in Flags /\ "PUBLIC" \in Flags
      BY <1>1, <2>2, <2>4 DEF Flags
    <3> QED
      BY <1>3, <2>2, <2>4, <3>1
  <2> QED
    BY <1>2, <2>3, <2>4
<1>5. ASSUME Unlimited, NEW p \in Marked("PUBLIC")', NEW q \in Public(p)'
      PROVE  \/ q \in Marked("PUBLIC")'
             \/ \E i \in DOMAIN stack' : "PUBLIC" \in stack'[i].flags /\ q \in Coming(i)'
  <2>0. p \in DOMAIN pkgs /\ Public(p)' = Public(p)
    <3>1. p \in DOMAIN pkgs
      BY <1>5 DEF Marked, Moves
    <3> QED
      BY <3>1, MovedNeeds
  <2>1. CASE p \in Marked("PUBLIC")
    <3>1. \/ q \in Marked("PUBLIC")
          \/ \E i \in DOMAIN stack : "PUBLIC" \in stack[i].flags /\ q \in Coming(i)
      BY <1>1, <1>5, <2>0, <2>1 DEF Promised
    <3>2. CASE q \in Marked("PUBLIC")
      BY <1>3, <3>2
    <3>3. ASSUME NEW i \in DOMAIN stack, "PUBLIC" \in stack[i].flags, q \in Coming(i)
          PROVE  \/ q \in Marked("PUBLIC")'
                 \/ \E j \in DOMAIN stack' : "PUBLIC" \in stack'[j].flags /\ q \in Coming(j)'
      <4>1. CASE i \in 1 .. n - 1
        BY <1>2, <3>3, <4>1
      <4>2. CASE i = n
        BY <1>1, <1>3, <3>3, <4>2
      <4> QED
        BY <1>2, <4>1, <4>2
    <3> QED
      BY <3>1, <3>2, <3>3
  <2>2. CASE p \notin Marked("PUBLIC")
    <3>1. /\ n + 1 \in DOMAIN stack' /\ "PUBLIC" \in Top.flags
          /\ Coming(n + 1)' = Public(p)
      BY <1>5, <2>2 DEF Moves
    <3>2. "PUBLIC" \in stack'[n + 1].flags
      BY <1>3, <3>1
    <3> QED
      BY <1>5, <2>0, <3>1, <3>2
  <2> QED
    BY <2>1, <2>2
<1>6. Unlimited' = Unlimited
  BY MovedNeeds
<1> QED
  BY <1>4, <1>5, <1>6 DEF Promised

LEMMA MovedJustified ==
  ASSUME NEW n, Moves(n)
  PROVE  Justified'
<1>1. /\ n = Len(stack) /\ Justified /\ Top = stack[n] /\ n \in DOMAIN stack
      /\ DOMAIN pkgs' = DOMAIN pkgs
  BY MovedFrames DEF Moves, WInv, Top
<1>2. /\ \A i \in DOMAIN stack' : i \in 1 .. n - 1 \/ i = n \/ i = n + 1
      /\ \A i \in 1 .. n - 1 :
           i \in DOMAIN stack /\ stack'[i] = stack[i] /\ Coming(i)' = Coming(i)
  BY MovedFrames
<1>3. /\ n \in DOMAIN stack' =>
           stack'[n].flags = Top.flags /\ Coming(n)' \subseteq Coming(n)
      /\ n + 1 \in DOMAIN stack' =>
           /\ stack'[n + 1].flags = Top.flags \ {"DIRECT"}
           /\ \E x \in Coming(n) \cap DOMAIN pkgs : Coming(n + 1)' = Public(x)
      /\ \A flag : /\ flag \in Top.flags => Marked(flag)' \subseteq Marked(flag) \cup Coming(n)
                   /\ flag \notin Top.flags => Marked(flag)' = Marked(flag)
  BY DEF Moves
<1>4. Marked("DIRECT")' \subseteq Asked
  BY <1>1, <1>3 DEF Justified
<1>5. \A i \in DOMAIN stack' : "DIRECT" \in stack'[i].flags => Coming(i)' \subseteq Asked
  <2>1. \A i \in 1 .. n - 1 : "DIRECT" \in stack'[i].flags => Coming(i)' \subseteq Asked
    BY <1>1, <1>2 DEF Justified
  <2>2. "DIRECT" \in Top.flags => Coming(n) \subseteq Asked
    BY <1>1 DEF Justified
  <2> QED
    BY <1>2, <1>3, <2>1, <2>2
<1>6. ASSUME NEW set, Asked \subseteq set, Complete(set)
      PROVE  DOMAIN pkgs' \subseteq set /\ \A i \in DOMAIN stack' : Coming(i)' \subseteq set
  <2>1. DOMAIN pkgs \subseteq set /\ \A i \in DOMAIN stack : Coming(i) \subseteq set
    BY <1>1, <1>6 DEF Justified
  <2>2. n + 1 \in DOMAIN stack' => Coming(n + 1)' \subseteq set
    <3>1. \A x \in DOMAIN pkgs : Public(x) \subseteq set
      BY <1>6, <2>1 DEF Complete, Needed
    <3> QED
      BY <1>3, <3>1
  <2>3. n \in DOMAIN stack' => Coming(n)' \subseteq set
    BY <1>1, <1>3, <2>1
  <2>4. \A i \in 1 .. n - 1 : Coming(i)' \subseteq set
    BY <1>2, <2>1
  <2> QED
    BY <1>1, <1>2, <2>1, <2>2, <2>3, <2>4
<1>7. ASSUME NEW set, Asked \subseteq set, CompletePublic(set)
      PROVE  /\ Marked("PUBLIC")' \subseteq set
             /\ \A i \in DOMAIN stack' : "PUBLIC" \in stack'[i].flags => Coming(i)' \subseteq set
  <2>1. /\ Marked("PUBLIC") \subseteq set
        /\ \A i \in DOMAIN stack : "PUBLIC" \in stack[i].flags => Coming(i) \subseteq set
    BY <1>1, <1>7 DEF Justified
  <2>2. "PUBLIC" \in Top.flags => Coming(n) \subseteq set
    BY <1>1, <2>1
  <2>3. Marked("PUBLIC")' \subseteq set
    BY <1>3, <2>1, <2>2
  <2>4. n + 1 \in DOMAIN stack' /\ "PUBLIC" \in stack'[n + 1].flags =>
          Coming(n + 1)' \subseteq set
    <3>1. SUFFICES ASSUME n + 1 \in DOMAIN stack', "PUBLIC" \in stack'[n + 1].flags
                   PROVE  Coming(n + 1)' \subseteq set
      OBVIOUS
    <3>2. "PUBLIC" \in Top.flags
      BY <1>3, <3>1
    <3>3. PICK x \in Coming(n) \cap DOMAIN pkgs : Coming(n + 1)' = Public(x)
      BY <1>3, <3>1
    <3>4. x \in set \cap DOMAIN pkgs
      BY <2>2, <3>2, <3>3
    <3> QED
      BY <1>7, <3>3, <3>4 DEF CompletePublic
  <2>5. n \in DOMAIN stack' /\ "PUBLIC" \in stack'[n].flags => Coming(n)' \subseteq set
    BY <1>3, <2>2
  <2>6. \A i \in 1 .. n - 1 : "PUBLIC" \in stack'[i].flags => Coming(i)' \subseteq set
    BY <1>2, <2>1
  <2> QED
    BY <1>2, <2>3, <2>4, <2>5, <2>6
<1>8. /\ Asked' = Asked /\ \A set : Complete(set)' = Complete(set)
      /\ \A set : CompletePublic(set)' = CompletePublic(set)
  BY MovedNeeds
<1> QED
  BY <1>4, <1>5, <1>6, <1>7, <1>8 DEF Justified

LEMMA NeedsItself == \A p : Needs(p, p)
BY DEF Needs

\* What a package that is needed needs is needed too.
LEMMA NeedsMore ==
  ASSUME NEW p, NEW x \in DOMAIN pkgs, Needs(p, x), NEW q \in Needed(x)
  PROVE  Needs(p, q)
BY DEF Needs, Complete

LEMMA MovedNested ==
  ASSUME NEW n, Moves(n)
  PROVE  Nested'
<1>1. /\ Nested /\ n \in DOMAIN stack
      /\ \A i \in DOMAIN stack' : i \in 1 .. n - 1 \/ i = n \/ i = n + 1
      /\ \A i \in 1 .. n - 1 :
           i \in DOMAIN stack /\ Met(i)' = Met(i) /\ Coming(i)' = Coming(i)
      /\ n \in Nat /\ \A i \in 1 .. n - 1 : i < n /\ i \in Nat
  BY MovedFrames DEF Moves, WInv
<1>2. /\ n \in DOMAIN stack' => /\ Met(n)' \subseteq Loading' /\ Coming(n)' \subseteq Coming(n)
      /\ n + 1 \in DOMAIN stack' =>
           /\ Met(n + 1)' = {}
           /\ \E x \in Coming(n) \cap DOMAIN pkgs : Coming(n + 1)' = Public(x)
      /\ Loading' \subseteq Coming(n) /\ Loading' \cap DOMAIN pkgs = {}
  BY DEF Moves
<1>3. SUFFICES ASSUME NEW i \in DOMAIN stack', NEW j \in DOMAIN stack', i < j,
                      NEW p \in Met(i)', NEW q \in Met(j)' \cup Coming(j)'
               PROVE  Needs(p, q)
  BY MovedNeeds DEF Nested
<1>4. CASE i \in 1 .. n - 1
  <2>1. \A r \in Coming(n) : Needs(p, r)
    BY <1>1, <1>3, <1>4 DEF Nested
  <2>2. CASE j \in 1 .. n - 1
    BY <1>1, <1>3, <1>4, <2>2 DEF Nested
  <2>3. CASE j = n
    BY <1>2, <1>3, <2>1, <2>3
  <2>4. CASE j = n + 1
    <3>1. PICK x \in Coming(n) \cap DOMAIN pkgs : Coming(n + 1)' = Public(x)
      BY <1>2, <1>3, <2>4
    <3>2. q \in Needed(x)
      BY <1>2, <1>3, <2>4, <3>1 DEF Needed
    <3> QED
      BY <2>1, <3>1, <3>2, NeedsMore
  <2> QED
    BY <1>1, <2>2, <2>3, <2>4
<1>5. CASE i = n
  <2>1. j = n + 1
    BY <1>1, <1>3, <1>5
  <2>2. Met(n)' = {}
    BY <1>3, <2>1 DEF Moves
  <2> QED
    BY <1>3, <1>5, <2>2
<1>6. CASE i = n + 1
  BY <1>2, <1>3, <1>6
<1> QED
  BY <1>1, <1>4, <1>5, <1>6

LEMMA MovedAwaited ==
  ASSUME NEW n, Moves(n)
  PROVE  Awaited'
<1>1. /\ Awaited /\ n \in Nat /\ DOMAIN pkgs' = DOMAIN pkgs
      /\ \A i \in DOMAIN stack : i = n \/ i \in 1 .. n - 1
      /\ \A i \in DOMAIN stack' : i \in 1 .. n - 1 \/ i = n \/ i = n + 1
      /\ \A i \in 1 .. n - 1 :
           /\ i \in DOMAIN stack /\ i \in DOMAIN stack'
           /\ Met(i)' = Met(i) /\ Coming(i)' = Coming(i)
  BY MovedFrames DEF Moves, WInv
<1>2. /\ n \in DOMAIN stack' => Met(n)' \subseteq Loading'
      /\ n + 1 \in DOMAIN stack' => Met(n + 1)' = {}
      /\ Loading' \cap DOMAIN pkgs = {}
      /\ \A p \in Coming(n) :
           (n \in DOMAIN stack' /\ p \in Coming(n)') \/ p \in DOMAIN pkgs
  BY DEF Moves
<1>3. /\ Unlimited' = Unlimited
      /\ \A p \in DOMAIN pkgs : Needed(p)' = Needed(p)
  BY MovedNeeds
<1>4. SUFFICES ASSUME Unlimited, NEW i \in DOMAIN stack', NEW p \in Met(i)' \cap DOMAIN pkgs,
                      NEW q \in Needed(p)
               PROVE  q \in DOMAIN pkgs \/ \E j \in DOMAIN stack' : i < j /\ q \in Coming(j)'
  BY <1>1, <1>3 DEF Awaited
<1>5. i \in 1 .. n - 1 /\ i < n
  BY <1>1, <1>2, <1>4
<1>6. q \in DOMAIN pkgs \/ \E j \in DOMAIN stack : i < j /\ q \in Coming(j)
  BY <1>1, <1>4, <1>5 DEF Awaited
<1>7. ASSUME NEW j \in DOMAIN stack, i < j, q \in Coming(j)
      PROVE  q \in DOMAIN pkgs \/ \E k \in DOMAIN stack' : i < k /\ q \in Coming(k)'
  <2>1. CASE j \in 1 .. n - 1
    BY <1>1, <1>7, <2>1
  <2>2. CASE j = n
    BY <1>2, <1>5, <1>7, <2>2
  <2> QED
    BY <1>1, <2>1, <2>2
<1> QED
  BY <1>6, <1>7

\* A package is listed when nothing above its frame is left: what it requires
\* is on the list already, or on a frame below, and requires it in turn.
LEMMA MovedSorted ==
  ASSUME NEW n, Moves(n)
  PROVE  Sorted'
<1>1. /\ n = Len(stack) /\ SInv /\ Placed /\ Nested /\ Awaited /\ Sorted
      /\ status = "walking" /\ stack # <<>>
      /\ order' = Listed /\ DOMAIN pkgs' = DOMAIN pkgs /\ Loading = {}
  BY DEF Moves, WInv, Loading
<1>2. /\ n \in Nat \ {0} /\ DOMAIN stack = 1 .. n /\ n \in DOMAIN stack
      /\ \A i \in DOMAIN stack : i = n \/ i < n
  <2>1. n \in Nat \ {0} /\ DOMAIN stack = 1 .. n
    BY MovedFrames
  <2> QED
    BY <2>1
<1>3. /\ DOMAIN Listed = 1 .. Len(Listed) /\ Len(Listed) \in Nat
      /\ \A i \in DOMAIN Listed : Listed[i] \in DOMAIN pkgs
  <2>1. /\ IsSeq(Listed) /\ DOMAIN Listed = 1 .. Len(Listed) /\ Len(Listed) \in Nat
        /\ ToSet(Listed) \subseteq DOMAIN pkgs
    BY <1>1, ListedIs
  <2> QED
    BY <2>1, SeqFacts
<1>4. /\ DOMAIN order = 1 .. Len(order) /\ Len(order) \in Nat
      /\ \A i \in DOMAIN order : order[i] \in DOMAIN pkgs
      /\ \A p \in ToSet(order) : \E i \in DOMAIN order : order[i] = p
  <2>1. IsSeq(order) /\ ToSet(order) \subseteq DOMAIN pkgs
    BY <1>1 DEF SInv, ListOK
  <2> QED
    BY <2>1, SeqFacts
<1>5. /\ Unlimited' = Unlimited /\ \A p \in DOMAIN pkgs : Needed(p)' = Needed(p)
      /\ \A p, q : Needs(p, q)' = Needs(p, q)
  BY MovedNeeds
<1>6. SUFFICES ASSUME Unlimited, NEW i \in DOMAIN Listed, NEW q \in Needed(Listed[i])
               PROVE  /\ q \in DOMAIN pkgs
                      /\ \/ Needs(q, Listed[i])
                         \/ \E j \in DOMAIN Listed : i < j /\ Listed[j] = q
  BY <1>1, <1>3, <1>5 DEF Sorted
<1>7. CASE Listed = order
  BY <1>1, <1>6, <1>7 DEF Sorted
<1>8. ASSUME NEW p, Met(n) = {p}, Len(Listed) = Len(order) + 1, Listed[1] = p,
             \A k \in 1 .. Len(order) : Listed[k + 1] = order[k]
      PROVE  /\ q \in DOMAIN pkgs
             /\ \/ Needs(q, Listed[i])
                \/ \E j \in DOMAIN Listed : i < j /\ Listed[j] = q
  <2>1. \A k \in DOMAIN order : k + 1 \in DOMAIN Listed /\ Listed[k + 1] = order[k]
    BY <1>3, <1>4, <1>8
  <2>2. CASE i = 1
    <3>1. p \in Met(n) \cap DOMAIN pkgs
      BY <1>1, <1>2, <1>8 DEF Placed
    <3>2. q \in DOMAIN pkgs
      <4>1. q \in DOMAIN pkgs \/ \E j \in DOMAIN stack : n < j /\ q \in Coming(j)
        BY <1>1, <1>2, <1>6, <1>8, <2>2, <3>1 DEF Awaited
      <4> QED
        BY <1>2, <4>1
    <3>3. q \in ToSet(order) \/ \E j \in DOMAIN stack : q \in Met(j)
      BY <1>1, <3>2 DEF Placed
    <3>4. CASE q \in ToSet(order)
      <4>1. PICK k \in DOMAIN order : order[k] = q
        BY <1>4, <3>4
      <4>2. k + 1 \in DOMAIN Listed /\ Listed[k + 1] = q /\ 1 < k + 1
        BY <1>4, <2>1, <4>1
      <4> QED
        BY <2>2, <3>2, <4>2
    <3>5. ASSUME NEW j \in DOMAIN stack, q \in Met(j)
          PROVE  Needs(q, p)
      <4>1. CASE j = n
        BY <1>8, <3>5, <4>1, NeedsItself
      <4>2. CASE j < n
        BY <1>1, <1>2, <1>8, <3>5, <4>2 DEF Nested
      <4> QED
        BY <1>2, <4>1, <4>2
    <3> QED
      BY <1>8, <2>2, <3>2, <3>3, <3>4, <3>5
  <2>3. CASE i # 1
    <3>1. i - 1 \in DOMAIN order /\ i = (i - 1) + 1
      BY <1>3, <1>4, <1>8, <2>3
    <3>2. Listed[i] = order[i - 1]
      BY <2>1, <3>1
    <3>3. /\ q \in DOMAIN pkgs
          /\ \/ Needs(q, order[i - 1])
             \/ \E j \in DOMAIN order : i - 1 < j /\ order[j] = q
      BY <1>1, <1>6, <3>1, <3>2 DEF Sorted
    <3>4. ASSUME NEW j \in DOMAIN order, i - 1 < j, order[j] = q
          PROVE  \E k \in DOMAIN Listed : i < k /\ Listed[k] = q
      <4>1. j + 1 \in DOMAIN Listed /\ Listed[j + 1] = q /\ i < j + 1
        BY <1>3, <1>4, <2>1, <3>4
      <4> QED
        BY <4>1
    <3> QED
      BY <3>2, <3>3, <3>4
  <2> QED
    BY <2>2, <2>3
<1> QED
  BY <1>1, <1>7, <1>8, ListedIs

LEMMA MovedWalk == ASSUME NEW n, Moves(n) PROVE WInv'
BY MovedPlaced, MovedPromised, MovedJustified, MovedNested, MovedAwaited, MovedSorted
   DEF WInv

\* The names among some requirements, the first of which is taken.
LEMMA NamesAre ==
  ASSUME NEW specs, IsSeq(specs), specs # <<>>
  PROVE  Names(specs) = {specs[1].name} \cup Names(Tail(specs))
<1>1. ToSet(specs) = {specs[1]} \cup ToSet(Tail(specs))
  BY TailIs
<1> QED
  BY <1>1 DEF Names

LEMMA NoNames == Names(<<>>) = {}
BY EmptyIs DEF Names

\* The frames below the top are the same, and nothing is expanded on them.
LEMMA BelowTop ==
  ASSUME SInv, stack # <<>>, NEW n, n = Len(stack), FramesOK', Len(stack') \in Nat,
         Len(stack') >= n \/ Loading' = {},
         \A i \in 1 .. n - 1 : i \in DOMAIN stack' /\ stack'[i] = stack[i]
  PROVE  \A i \in 1 .. n - 1 : Coming(i)' = Coming(i)
<1>1. SUFFICES ASSUME NEW i \in 1 .. n - 1 PROVE Coming(i)' = Coming(i)
  OBVIOUS
<1>2. i # n /\ (i # Len(stack') \/ Loading' = {})
  <2>1. n \in Nat
    BY TopFacts DEF SInv
  <2> QED
    BY <2>1
<1>3. Coming(i) = Names(stack[i].specs)
  BY <1>2 DEF Coming
<1>4. Coming(i)' = Names(stack'[i].specs)
  BY <1>2 DEF Coming
<1> QED
  BY <1>3, <1>4

LEMMA ReturnMoves == ASSUME SInv, WInv, Return, NEW n, n = Len(stack) PROVE Moves(n)
<1>1. /\ status = "walking" /\ stack # <<>> /\ Top.specs = <<>> /\ order' = Listed
      /\ stack' = SubSeq(stack, 1, n - 1) /\ UNCHANGED <<input, pkgs, work, status>>
  BY DEF Return
<1>2. Loading = {} /\ Loading' = {}
  BY <1>1 DEF Loading
<1>3. /\ Len(stack) \in Nat \ {0} /\ Top = stack[n] /\ FramesOK
  BY <1>1, TopFacts DEF SInv
<1>4. /\ FramesOK' /\ DOMAIN stack' = 1 .. n - 1 /\ Len(stack') \in Nat
      /\ \A i \in 1 .. n - 1 : stack'[i] = stack[i]
  <2>1. FramesOK'
    BY ReturnStructure DEF WInv, SInv
  <2>2. IsSeq(stack') /\ Len(stack') = n - 1 /\ \A i \in 1 .. n - 1 : stack'[i] = stack[i]
    BY <1>1, <1>3, FrontIs DEF FramesOK
  <2>3. DOMAIN stack' = 1 .. n - 1 /\ Len(stack') \in Nat
    BY <2>2, SeqFacts
  <2> QED
    BY <2>1, <2>2, <2>3
<1>5. \A i \in 1 .. n - 1 : Coming(i)' = Coming(i)
  BY <1>1, <1>2, <1>4, BelowTop
<1>6. Coming(n) = {}
  BY <1>1, <1>2, <1>3, NoNames DEF Coming
<1>7. n \notin DOMAIN stack' /\ n + 1 \notin DOMAIN stack' /\ DOMAIN stack' \subseteq 1 .. n + 1
  BY <1>3, <1>4
<1>8. \A flag : Marked(flag)' = Marked(flag)
  BY <1>1 DEF Marked
<1> QED
  BY <1>1, <1>2, <1>4, <1>5, <1>6, <1>7, <1>8 DEF Moves

LEMMA FindMoves == ASSUME SInv, WInv, FindWorks, NEW n, n = Len(stack) PROVE Moves(n)
<1> DEFINE x == Spec1.name
<1>1. /\ status = "walking" /\ stack # <<>> /\ Top.specs # <<>> /\ order' = Listed
      /\ x \notin DOMAIN pkgs /\ status' = "expanding" /\ UNCHANGED <<input, pkgs>>
  BY DEF FindWorks, AtSpec
<1>2. Loading = {} /\ Loading' = {x}
  <2>1. work'.spec = Spec1
    BY DEF FindWorks
  <2> QED
    BY <1>1, <2>1 DEF Loading
<1>3. /\ n \in Nat \ {0} /\ DOMAIN stack = 1 .. n /\ Top = stack[n] /\ IsSeq(Top.specs)
  BY <1>1, TopFacts DEF SInv, FrameOK
<1>4. /\ FramesOK' /\ DOMAIN stack' = 1 .. n /\ Len(stack') = n
      /\ \A i \in 1 .. n - 1 : i \in DOMAIN stack' /\ stack'[i] = stack[i]
      /\ stack'[n] = [specs |-> Tail(Top.specs), newpkg |-> <<x>>,
                      depth |-> Top.depth, flags |-> Top.flags]
  BY <1>3, FindFrames
<1>5. \A i \in 1 .. n - 1 : Coming(i)' = Coming(i)
  <2>1. Len(stack') \in Nat /\ Len(stack') >= n
    BY <1>3, <1>4
  <2> QED
    BY <1>1, <1>4, <2>1, BelowTop
<1>6. stack'[n].specs = Tail(Top.specs) /\ stack'[n].newpkg = <<x>> /\ stack'[n].flags = Top.flags
  BY <1>4
<1>7. Met(n)' = {x}
  BY <1>6, OneIs DEF Met
<1>8. Coming(n)' = Coming(n) /\ x \in Coming(n)
  <2>1. Coming(n) = Names(Top.specs)
    BY <1>2, <1>3 DEF Coming
  <2>2. Coming(n)' = Names(Tail(Top.specs)) \cup {x}
    BY <1>2, <1>4, <1>6 DEF Coming
  <2>3. Names(Top.specs) = {x} \cup Names(Tail(Top.specs))
    BY <1>1, <1>3, NamesAre DEF Spec1
  <2> QED
    BY <2>1, <2>2, <2>3
<1>9. n \in DOMAIN stack' /\ n + 1 \notin DOMAIN stack' /\ DOMAIN stack' \subseteq 1 .. n + 1
  BY <1>3, <1>4
<1>10. \A flag : Marked(flag)' = Marked(flag)
  BY <1>1 DEF Marked
<1> QED
  BY <1>1, <1>2, <1>4, <1>5, <1>6, <1>7, <1>8, <1>9, <1>10 DEF Moves

LEMMA VisitMoves == ASSUME SInv, WInv, VisitWorks, NEW n, n = Len(stack) PROVE Moves(n)
<1> DEFINE x == Spec1.name
<1>1. /\ status = "walking" /\ stack # <<>> /\ Top.specs # <<>> /\ order' = Listed
      /\ x \in DOMAIN pkgs /\ UNCHANGED <<input, work, status>>
  BY DEF VisitWorks, AtSpec
<1>2. Loading = {} /\ Loading' = {}
  BY <1>1 DEF Loading
<1>3. /\ n \in Nat \ {0} /\ Top = stack[n] /\ IsSeq(Top.specs) /\ FrameOK(Top, n)
  BY <1>1, TopFacts DEF SInv, FrameOK
<1>4. /\ FramesOK' /\ DOMAIN pkgs' = DOMAIN pkgs
      /\ \A p \in DOMAIN pkgs :
           /\ pkgs'[p].requires = pkgs[p].requires /\ pkgs'[p].private = pkgs[p].private
           /\ pkgs'[p].flags = pkgs[p].flags \cup (IF p = x THEN Top.flags ELSE {})
      /\ \A i \in 1 .. n - 1 : stack'[i] = stack[i]
      /\ stack'[n] = [specs |-> Tail(Top.specs), newpkg |-> <<>>,
                      depth |-> Top.depth, flags |-> Top.flags]
      /\ ~Promotes(x) => DOMAIN stack' = 1 .. n
      /\ Promotes(x) =>
           /\ DOMAIN stack' = 1 .. n + 1
           /\ stack'[n + 1] = Frame(pkgs[x].requires, Top.depth + 1, Top.flags \ {"DIRECT"})
  BY VisitFrames
<1>5. /\ n \in DOMAIN stack' /\ DOMAIN stack' \subseteq 1 .. n + 1
      /\ \A i \in 1 .. n - 1 : i \in DOMAIN stack' /\ stack'[i] = stack[i]
      /\ n + 1 \in DOMAIN stack' <=> Promotes(x)
  BY <1>3, <1>4
<1>6. \A i \in 1 .. n - 1 : Coming(i)' = Coming(i)
  <2>1. Len(stack') \in Nat
    BY <1>4, SeqFacts DEF FramesOK
  <2> QED
    BY <1>1, <1>2, <1>4, <1>5, <2>1, BelowTop
<1>7. stack'[n].specs = Tail(Top.specs) /\ stack'[n].newpkg = <<>> /\ stack'[n].flags = Top.flags
  BY <1>4
<1>8. Met(n)' = {}
  BY <1>7, EmptyIs DEF Met
<1>9. Coming(n) = {x} \cup Coming(n)'
  <2>1. Coming(n) = Names(Top.specs)
    BY <1>2, <1>3 DEF Coming
  <2>2. Coming(n)' = Names(Tail(Top.specs))
    BY <1>2, <1>7 DEF Coming
  <2>3. Names(Top.specs) = {x} \cup Names(Tail(Top.specs))
    BY <1>1, <1>3, NamesAre DEF Spec1
  <2> QED
    BY <2>1, <2>2, <2>3
<1>10. Promotes(x) =>
         /\ Met(n + 1)' = {} /\ Coming(n + 1)' = Public(x)
         /\ stack'[n + 1].flags = Top.flags \ {"DIRECT"}
  <2>1. SUFFICES ASSUME Promotes(x)
                 PROVE  /\ Met(n + 1)' = {} /\ Coming(n + 1)' = Public(x)
                        /\ stack'[n + 1].flags = Top.flags \ {"DIRECT"}
    OBVIOUS
  <2>2. /\ stack'[n + 1].specs = pkgs[x].requires /\ stack'[n + 1].newpkg = <<>>
        /\ stack'[n + 1].flags = Top.flags \ {"DIRECT"}
    BY <1>4, <2>1 DEF Frame
  <2> QED
    BY <1>2, <2>2, EmptyIs DEF Met, Coming, Public
<1>11. \A flag : Marked(flag)' = Marked(flag) \cup (IF flag \in Top.flags THEN {x} ELSE {})
  BY <1>1, <1>4 DEF Marked
<1>12. ASSUME Unlimited, NEW p \in Marked("PUBLIC")', p \notin Marked("PUBLIC")
       PROVE  Promotes(x) /\ "PUBLIC" \in Top.flags /\ p = x
  <2>1. p = x /\ "PUBLIC" \in Top.flags
    BY <1>11, <1>12
  <2>2. "PUBLIC" \notin pkgs[x].flags
    BY <1>1, <1>12, <2>1 DEF Marked
  <2>3. Deeper
    BY <1>1, <1>12, RoomToGoOn
  <2> QED
    BY <2>1, <2>2, <2>3 DEF Promotes, IsNews
<1>13. \A p \in DOMAIN pkgs :
         pkgs'[p].requires = pkgs[p].requires /\ pkgs'[p].private = pkgs[p].private
  BY <1>4
<1>14. \A p \in Coming(n) :
         \/ n \in DOMAIN stack' /\ p \in Coming(n)'
         \/ p \in DOMAIN pkgs /\ \A flag \in Top.flags : p \in Marked(flag)'
  BY <1>1, <1>5, <1>9, <1>11
<1>15. \A flag : /\ Marked(flag) \subseteq Marked(flag)'
                 /\ flag \in Top.flags => Marked(flag)' \subseteq Marked(flag) \cup Coming(n)
                 /\ flag \notin Top.flags => Marked(flag)' = Marked(flag)
  BY <1>9, <1>11
<1>16. Unlimited => \A p \in Marked("PUBLIC")' :
         \/ p \in Marked("PUBLIC")
         \/ n + 1 \in DOMAIN stack' /\ "PUBLIC" \in Top.flags /\ Coming(n + 1)' = Public(p)
  BY <1>5, <1>10, <1>12
<1>17. n + 1 \in DOMAIN stack' =>
         /\ Met(n)' = {} /\ Met(n + 1)' = {} /\ stack'[n + 1].flags = Top.flags \ {"DIRECT"}
         /\ \E p \in Coming(n) \cap DOMAIN pkgs : Coming(n + 1)' = Public(p)
  BY <1>1, <1>5, <1>8, <1>9, <1>10
<1> QED
  BY <1>1, <1>2, <1>4, <1>5, <1>6, <1>7, <1>8, <1>9, <1>13, <1>14, <1>15, <1>16, <1>17
     DEF Moves

-----------------------------------------------------------------------------
(* A package is loaded.                                                     *)

Loads(n, x) ==
  /\ n = Len(stack) /\ SInv /\ WInv /\ x = work.spec.name /\ x \notin DOMAIN pkgs
  /\ n \in Nat \ {0} /\ DOMAIN stack = 1 .. n /\ Top = stack[n]
  /\ Met(n) = {x} /\ Loading = {x} /\ Loading' = {} /\ x \in Coming(n)
  /\ order' = order /\ input' = input /\ DOMAIN pkgs' = DOMAIN pkgs \cup {x}
  /\ \A p \in DOMAIN pkgs : pkgs'[p] = pkgs[p]
  /\ \A flag : Marked(flag)' = Marked(flag) \cup (IF flag \in Top.flags THEN {x} ELSE {})
  /\ \A i \in 1 .. n :
       i \in DOMAIN stack' /\ stack'[i].flags = stack[i].flags /\ Met(i)' = Met(i)
  /\ \A i \in 1 .. n - 1 : Coming(i)' = Coming(i)
  /\ Coming(n)' \subseteq Coming(n) /\ Coming(n) \subseteq Coming(n)' \cup {x}
  /\ DOMAIN stack' \subseteq 1 .. n + 2
  \* the frames for what it requires
  /\ Unlimited => n + 1 \in DOMAIN stack' /\ n + 2 \in DOMAIN stack'
  /\ n + 1 \in DOMAIN stack' =>
       /\ Met(n + 1)' = {} /\ Coming(n + 1)' = Public(x)'
       /\ stack'[n + 1].flags = Top.flags \ {"DIRECT"}
  /\ n + 2 \in DOMAIN stack' =>
       /\ Met(n + 2)' = {} /\ Coming(n + 2)' \subseteq Needed(x)'
       /\ Needed(x)' \subseteq Public(x)' \cup Coming(n + 2)' /\ stack'[n + 2].flags = {}

LEMMA LoadLoads ==
  ASSUME SInv, WInv, LoadWorks, NEW n, n = Len(stack), NEW x, x = work.spec.name
  PROVE  Loads(n, x)
<1>1. /\ status = "expanding" /\ status' = "walking" /\ stack # <<>>
      /\ Top.newpkg = <<x>> /\ UNCHANGED <<input, order>>
  BY DEF LoadWorks, SInv, PhaseOK
<1>2. Loading = {x} /\ Loading' = {}
  BY <1>1 DEF Loading
<1>3. n \in Nat \ {0} /\ DOMAIN stack = 1 .. n /\ Top = stack[n]
  BY <1>1, TopFacts DEF SInv
<1>4. /\ FramesOK' /\ DOMAIN pkgs' = DOMAIN pkgs \cup {x} /\ x \notin DOMAIN pkgs
      /\ \A p \in DOMAIN pkgs : pkgs'[p] = pkgs[p]
      /\ pkgs'[x] = Fresh /\ \A i \in 1 .. n : stack'[i] = stack[i]
      /\ ~Deeper => DOMAIN stack' = 1 .. n
      /\ Deeper =>
           /\ DOMAIN stack' = 1 .. n + 2
           /\ stack'[n + 1] = Frame(Fresh.requires, Top.depth + 1, Top.flags \ {"DIRECT"})
           /\ stack'[n + 2] = Frame(Fresh.private, Top.depth + 1, {})
  BY LoadFrames
<1>5. /\ DOMAIN stack' \subseteq 1 .. n + 2 /\ \A i \in 1 .. n : i \in DOMAIN stack'
      /\ n + 1 \in DOMAIN stack' => Deeper
      /\ n + 2 \in DOMAIN stack' => Deeper
      /\ Deeper => n + 1 \in DOMAIN stack' /\ n + 2 \in DOMAIN stack'
  BY <1>3, <1>4
<1>6. Met(n) = {x}
  BY <1>1, <1>3, OneIs DEF Met
<1>7. \A i \in 1 .. n : stack'[i].flags = stack[i].flags /\ Met(i)' = Met(i)
  BY <1>4 DEF Met
<1>8. \A flag : Marked(flag)' = Marked(flag) \cup (IF flag \in Top.flags THEN {x} ELSE {})
  <2>1. pkgs'[x].flags = Top.flags
    BY <1>4 DEF Fresh
  <2> QED
    BY <1>4, <2>1 DEF Marked
<1>9. \A i \in 1 .. n - 1 : Coming(i)' = Coming(i)
  <2>1. \A i \in 1 .. n - 1 : i \in 1 .. n
    BY <1>3
  <2>2. Len(stack') \in Nat
    BY <1>4, SeqFacts DEF FramesOK
  <2> QED
    BY <1>1, <1>2, <1>4, <1>5, <2>1, <2>2, BelowTop
<1>10. /\ Coming(n) = Names(stack[n].specs) \cup {x}
       /\ Coming(n)' = Names(stack[n].specs)
  <2>1. n \in 1 .. n
    BY <1>3
  <2> QED
    BY <1>2, <1>4, <2>1 DEF Coming
<1>11. Unlimited => Deeper
  BY <1>1, RoomToGoOn
<1>12. ASSUME Deeper
       PROVE  /\ Met(n + 1)' = {} /\ Coming(n + 1)' = Public(x)'
              /\ stack'[n + 1].flags = Top.flags \ {"DIRECT"}
              /\ Met(n + 2)' = {} /\ Coming(n + 2)' \subseteq Needed(x)'
              /\ Needed(x)' \subseteq Public(x)' \cup Coming(n + 2)'
              /\ stack'[n + 2].flags = {}
  <2>1. /\ stack'[n + 1].specs = Fresh.requires /\ stack'[n + 1].newpkg = <<>>
        /\ stack'[n + 1].flags = Top.flags \ {"DIRECT"}
        /\ stack'[n + 2].specs = Fresh.private /\ stack'[n + 2].newpkg = <<>>
        /\ stack'[n + 2].flags = {}
    BY <1>4, <1>12 DEF Frame
  <2>2. Met(n + 1)' = {} /\ Met(n + 2)' = {}
    BY <2>1, EmptyIs DEF Met
  <2>3. Coming(n + 1)' = Names(Fresh.requires) /\ Coming(n + 2)' = Names(Fresh.private)
    BY <1>2, <2>1 DEF Coming
  <2>4. Public(x)' = Names(Fresh.requires)
    BY <1>4 DEF Public
  <2>5. Needed(x)' = Names(Fresh.requires) \cup Names(Fresh.private)
    BY <1>4, <2>4 DEF Needed
  <2> QED
    BY <2>1, <2>2, <2>3, <2>4, <2>5
<1>13. x \in Coming(n) /\ Coming(n)' \subseteq Coming(n) /\ Coming(n) \subseteq Coming(n)' \cup {x}
  BY <1>10
<1> QED
  BY <1>1, <1>2, <1>3, <1>4, <1>5, <1>6, <1>7, <1>8, <1>9, <1>11, <1>12, <1>13 DEF Loads

LEMMA LoadedFrames ==
  ASSUME NEW n, NEW x, Loads(n, x)
  PROVE  /\ n \in Nat \ {0} /\ n \in DOMAIN stack /\ DOMAIN stack = 1 .. n
         /\ \A i \in DOMAIN stack : i = n \/ i \in 1 .. n - 1
         /\ \A i \in DOMAIN stack' :
              \/ i \in 1 .. n - 1 \/ i = n \/ i = n + 1 \/ i = n + 2
         /\ \A i \in 1 .. n - 1 :
              /\ i \in DOMAIN stack /\ i \in DOMAIN stack' /\ i \in Nat /\ i < n
              /\ stack'[i].flags = stack[i].flags
              /\ Met(i)' = Met(i) /\ Coming(i)' = Coming(i)
         /\ n \in DOMAIN stack' /\ Met(n)' = {x} /\ stack'[n].flags = Top.flags
<1>1. n \in Nat \ {0} /\ DOMAIN stack = 1 .. n
  BY DEF Loads
<1>2. /\ n \in 1 .. n /\ n \in DOMAIN stack
      /\ \A i \in DOMAIN stack : i = n \/ i \in 1 .. n - 1
      /\ \A i \in 1 .. n - 1 : i \in 1 .. n /\ i \in DOMAIN stack /\ i \in Nat /\ i < n
      /\ \A i \in 1 .. n + 2 : i \in 1 .. n - 1 \/ i = n \/ i = n + 1 \/ i = n + 2
  BY <1>1
<1>3. /\ DOMAIN stack' \subseteq 1 .. n + 2
      /\ \A i \in 1 .. n :
           i \in DOMAIN stack' /\ stack'[i].flags = stack[i].flags /\ Met(i)' = Met(i)
      /\ \A i \in 1 .. n - 1 : Coming(i)' = Coming(i)
      /\ Met(n) = {x} /\ Top = stack[n]
  BY DEF Loads
<1> QED
  BY <1>1, <1>2, <1>3

LEMMA LoadedNeeds ==
  ASSUME NEW n, NEW x, Loads(n, x)
  PROVE  /\ Unlimited' = Unlimited /\ Asked' = Asked
         /\ \A p \in DOMAIN pkgs : Public(p)' = Public(p) /\ Needed(p)' = Needed(p)
         /\ Public(x)' \subseteq Needed(x)'
         /\ \A set : Complete(set)' => /\ Complete(set)
                                       /\ x \in set => Needed(x)' \subseteq set
         /\ \A set : CompletePublic(set)' => /\ CompletePublic(set)
                                             /\ x \in set => Public(x)' \subseteq set
         /\ \A p, q : Needs(p, q) => Needs(p, q)'
<1>1. input' = input /\ DOMAIN pkgs' = DOMAIN pkgs \cup {x} /\ \A p \in DOMAIN pkgs : pkgs'[p] = pkgs[p]
  BY DEF Loads
<1>2. Unlimited' = Unlimited /\ Asked' = Asked
  BY <1>1 DEF Unlimited, Recursive, Options, Asked
<1>3. \A p \in DOMAIN pkgs : Public(p)' = Public(p) /\ Needed(p)' = Needed(p)
  BY <1>1 DEF Public, Needed
<1>4. Public(x)' \subseteq Needed(x)'
  BY DEF Needed
<1>5. \A set : Complete(set)' => Complete(set) /\ (x \in set => Needed(x)' \subseteq set)
  BY <1>1, <1>3 DEF Complete
<1>6. \A set : CompletePublic(set)' =>
        CompletePublic(set) /\ (x \in set => Public(x)' \subseteq set)
  BY <1>1, <1>3 DEF CompletePublic
<1>7. \A p, q : Needs(p, q) => Needs(p, q)'
  BY <1>5 DEF Needs
<1> QED
  BY <1>2, <1>3, <1>4, <1>5, <1>6, <1>7

LEMMA LoadedPlaced == ASSUME NEW n, NEW x, Loads(n, x) PROVE Placed'
<1>1. /\ Placed /\ order' = order /\ Loading = {x} /\ DOMAIN pkgs' = DOMAIN pkgs \cup {x}
      /\ Met(n) = {x}
  BY DEF Loads, WInv
<1>2. /\ n \in DOMAIN stack /\ n \in DOMAIN stack'
      /\ \A i \in DOMAIN stack : i \in DOMAIN stack' /\ Met(i)' = Met(i)
  BY <1>1, LoadedFrames
<1>3. \A i \in DOMAIN stack' : (i \in DOMAIN stack /\ Met(i)' = Met(i)) \/ Met(i)' = {}
  BY <1>1, LoadedFrames DEF Loads
<1>4. /\ \A i, j \in DOMAIN order : order[i] = order[j] => i = j
      /\ \A i \in DOMAIN stack :
           Met(i) \subseteq DOMAIN pkgs \cup {x} /\ Met(i) \cap ToSet(order) = {}
      /\ \A i, j \in DOMAIN stack : i # j => Met(i) \cap Met(j) = {}
      /\ \A p \in DOMAIN pkgs : p \in ToSet(order) \/ \E i \in DOMAIN stack : p \in Met(i)
  BY <1>1 DEF Placed
<1>5. \A p \in DOMAIN pkgs' : p \in ToSet(order') \/ \E i \in DOMAIN stack' : p \in Met(i)'
  BY <1>1, <1>2, <1>4
<1>6. DOMAIN pkgs' \subseteq ToSet(order') \cup UNION {Met(i)' : i \in DOMAIN stack'}
  BY <1>5
<1>7. /\ \A i \in DOMAIN stack' :
           Met(i)' \subseteq DOMAIN pkgs' \cup Loading' /\ Met(i)' \cap ToSet(order') = {}
      /\ \A i, j \in DOMAIN stack' : i # j => Met(i)' \cap Met(j)' = {}
  BY <1>1, <1>3, <1>4
<1>8. \A i, j \in DOMAIN order' : order'[i] = order'[j] => i = j
  BY <1>1, <1>4
<1> QED
  BY <1>6, <1>7, <1>8 DEF Placed

LEMMA LoadedPromised == ASSUME NEW n, NEW x, Loads(n, x) PROVE Promised'
<1>1. /\ Promised /\ Top = stack[n]
      /\ \A flag : Marked(flag)' = Marked(flag) \cup (IF flag \in Top.flags THEN {x} ELSE {})
      /\ Coming(n) \subseteq Coming(n)' \cup {x}
  BY DEF Loads, WInv
<1>2. /\ \A i \in DOMAIN stack : i = n \/ i \in 1 .. n - 1
      /\ \A i \in 1 .. n - 1 : /\ i \in DOMAIN stack' /\ stack'[i].flags = stack[i].flags
                               /\ Coming(i)' = Coming(i)
      /\ n \in DOMAIN stack' /\ stack'[n].flags = Top.flags
  BY LoadedFrames
<1>3. \A p \in Asked' :
        \/ p \in Marked("DIRECT")' \cap Marked("PUBLIC")'
        \/ \E i \in DOMAIN stack' : stack'[i].flags = Flags /\ p \in Coming(i)'
  <2>1. SUFFICES ASSUME NEW p \in Asked, p \notin Marked("DIRECT") \cap Marked("PUBLIC")
                 PROVE  \/ p \in Marked("DIRECT")' \cap Marked("PUBLIC")'
                        \/ \E i \in DOMAIN stack' : stack'[i].flags = Flags /\ p \in Coming(i)'
    BY <1>1, LoadedNeeds
  <2>2. PICK i \in DOMAIN stack : stack[i].flags = Flags /\ p \in Coming(i)
    BY <1>1, <2>1 DEF Promised
  <2>3. CASE i \in 1 .. n - 1
    BY <1>2, <2>2, <2>3
  <2>4. CASE i = n
    <3>1. Top.flags = Flags /\ "DIRECT" \in Flags /\ "PUBLIC" \in Flags
      BY <1>1, <2>2, <2>4 DEF Flags
    <3>2. p = x => p \in Marked("DIRECT")' \cap Marked("PUBLIC")'
      BY <1>1, <3>1
    <3> QED
      BY <1>1, <1>2, <2>2, <2>4, <3>1, <3>2
  <2> QED
    BY <1>2, <2>3, <2>4
<1>4. ASSUME Unlimited, NEW p \in Marked("PUBLIC")', NEW q \in Public(p)'
      PROVE  \/ q \in Marked("PUBLIC")'
             \/ \E i \in DOMAIN stack' : "PUBLIC" \in stack'[i].flags /\ q \in Coming(i)'
  <2>1. CASE p \in Marked("PUBLIC")
    <3>1. p \in DOMAIN pkgs /\ Public(p)' = Public(p)
      BY <2>1, LoadedNeeds DEF Marked
    <3>2. \/ q \in Marked("PUBLIC")
          \/ \E i \in DOMAIN stack : "PUBLIC" \in stack[i].flags /\ q \in Coming(i)
      BY <1>1, <1>4, <2>1, <3>1 DEF Promised
    <3>3. CASE q \in Marked("PUBLIC")
      BY <1>1, <3>3
    <3>4. ASSUME NEW i \in DOMAIN stack, "PUBLIC" \in stack[i].flags, q \in Coming(i)
          PROVE  \/ q \in Marked("PUBLIC")'
                 \/ \E j \in DOMAIN stack' : "PUBLIC" \in stack'[j].flags /\ q \in Coming(j)'
      <4>1. CASE i \in 1 .. n - 1
        BY <1>2, <3>4, <4>1
      <4>2. CASE i = n
        <5>1. "PUBLIC" \in Top.flags /\ "PUBLIC" \in stack'[n].flags
          BY <1>1, <1>2, <3>4, <4>2
        <5>2. q = x => q \in Marked("PUBLIC")'
          BY <1>1, <5>1
        <5> QED
          BY <1>1, <1>2, <3>4, <4>2, <5>1, <5>2
      <4> QED
        BY <1>2, <4>1, <4>2
    <3> QED
      BY <3>2, <3>3, <3>4
  <2>2. CASE p \notin Marked("PUBLIC")
    <3>1. p = x /\ "PUBLIC" \in Top.flags
      BY <1>1, <1>4, <2>2
    <3>2. /\ n + 1 \in DOMAIN stack' /\ Coming(n + 1)' = Public(x)'
          /\ stack'[n + 1].flags = Top.flags \ {"DIRECT"}
      BY <1>4 DEF Loads
    <3>3. "PUBLIC" \in stack'[n + 1].flags
      BY <3>1, <3>2
    <3>4. q \in Coming(n + 1)'
      BY <1>4, <3>1, <3>2
    <3> QED
      BY <3>2, <3>3, <3>4
  <2> QED
    BY <2>1, <2>2
<1>5. Unlimited' = Unlimited
  BY LoadedNeeds
<1> QED
  BY <1>3, <1>4, <1>5 DEF Promised

LEMMA LoadedJustified == ASSUME NEW n, NEW x, Loads(n, x) PROVE Justified'
<1>1. /\ Justified /\ Top = stack[n] /\ n \in DOMAIN stack /\ x \in Coming(n)
      /\ Coming(n)' \subseteq Coming(n) /\ DOMAIN pkgs' = DOMAIN pkgs \cup {x}
      /\ \A flag : Marked(flag)' = Marked(flag) \cup (IF flag \in Top.flags THEN {x} ELSE {})
  BY LoadedFrames DEF Loads, WInv
<1>2. /\ \A i \in DOMAIN stack' : i \in 1 .. n - 1 \/ i = n \/ i = n + 1 \/ i = n + 2
      /\ \A i \in 1 .. n - 1 : /\ i \in DOMAIN stack /\ stack'[i].flags = stack[i].flags
                               /\ Coming(i)' = Coming(i)
      /\ stack'[n].flags = Top.flags
  BY LoadedFrames
<1>3. /\ n + 1 \in DOMAIN stack' =>
           Coming(n + 1)' = Public(x)' /\ stack'[n + 1].flags = Top.flags \ {"DIRECT"}
      /\ n + 2 \in DOMAIN stack' =>
           Coming(n + 2)' \subseteq Needed(x)' /\ stack'[n + 2].flags = {}
  BY DEF Loads
<1>4. Marked("DIRECT")' \subseteq Asked
  <2>1. Marked("DIRECT") \subseteq Asked /\ ("DIRECT" \in Top.flags => x \in Asked)
    BY <1>1 DEF Justified
  <2> QED
    BY <1>1, <2>1
<1>5. \A i \in DOMAIN stack' : "DIRECT" \in stack'[i].flags => Coming(i)' \subseteq Asked
  <2>1. \A i \in 1 .. n - 1 : "DIRECT" \in stack'[i].flags => Coming(i)' \subseteq Asked
    BY <1>1, <1>2 DEF Justified
  <2>2. "DIRECT" \in Top.flags => Coming(n)' \subseteq Asked
    BY <1>1 DEF Justified
  <2> QED
    BY <1>2, <1>3, <2>1, <2>2
<1>6. ASSUME NEW set, Asked \subseteq set, Complete(set)'
      PROVE  DOMAIN pkgs' \subseteq set /\ \A i \in DOMAIN stack' : Coming(i)' \subseteq set
  <2>1. Complete(set) /\ (x \in set => Needed(x)' \subseteq set)
    BY <1>6, LoadedNeeds
  <2>2. DOMAIN pkgs \subseteq set /\ \A i \in DOMAIN stack : Coming(i) \subseteq set
    BY <1>1, <1>6, <2>1 DEF Justified
  <2>3. x \in set /\ Coming(n)' \subseteq set /\ Needed(x)' \subseteq set /\ Public(x)' \subseteq set
    BY <1>1, <2>1, <2>2, LoadedNeeds
  <2>4. \A i \in 1 .. n - 1 : Coming(i)' \subseteq set
    BY <1>2, <2>2
  <2> QED
    BY <1>1, <1>2, <1>3, <2>2, <2>3, <2>4
<1>7. ASSUME NEW set, Asked \subseteq set, CompletePublic(set)'
      PROVE  /\ Marked("PUBLIC")' \subseteq set
             /\ \A i \in DOMAIN stack' : "PUBLIC" \in stack'[i].flags => Coming(i)' \subseteq set
  <2>1. CompletePublic(set) /\ (x \in set => Public(x)' \subseteq set)
    BY <1>7, LoadedNeeds
  <2>2. /\ Marked("PUBLIC") \subseteq set
        /\ \A i \in DOMAIN stack : "PUBLIC" \in stack[i].flags => Coming(i) \subseteq set
    BY <1>1, <1>7, <2>1 DEF Justified
  <2>3. "PUBLIC" \in Top.flags =>
          x \in set /\ Coming(n)' \subseteq set /\ Public(x)' \subseteq set
    BY <1>1, <2>1, <2>2
  <2>4. \A i \in 1 .. n - 1 : "PUBLIC" \in stack'[i].flags => Coming(i)' \subseteq set
    BY <1>2, <2>2
  <2>5. Marked("PUBLIC")' \subseteq set
    BY <1>1, <2>2, <2>3
  <2> QED
    BY <1>2, <1>3, <2>3, <2>4, <2>5
<1>8. Asked' = Asked
  BY LoadedNeeds
<1> QED
  BY <1>4, <1>5, <1>6, <1>7, <1>8 DEF Justified

LEMMA LoadedNested == ASSUME NEW n, NEW x, Loads(n, x) PROVE Nested'
<1>1. /\ Nested /\ n \in Nat \ {0} /\ n \in DOMAIN stack
      /\ \A i \in DOMAIN stack' : i \in 1 .. n - 1 \/ i = n \/ i = n + 1 \/ i = n + 2
      /\ \A i \in 1 .. n - 1 : /\ i \in DOMAIN stack /\ i \in Nat /\ i < n
                               /\ Met(i)' = Met(i) /\ Coming(i)' = Coming(i)
      /\ Met(n)' = {x}
  BY LoadedFrames DEF Loads, WInv
<1>2. /\ Met(n) = {x} /\ x \in Coming(n) /\ Coming(n)' \subseteq Coming(n)
      /\ n + 1 \in DOMAIN stack' => Met(n + 1)' = {} /\ Coming(n + 1)' = Public(x)'
      /\ n + 2 \in DOMAIN stack' => Met(n + 2)' = {} /\ Coming(n + 2)' \subseteq Needed(x)'
      /\ DOMAIN pkgs' = DOMAIN pkgs \cup {x}
  BY DEF Loads
<1>3. SUFFICES ASSUME NEW i \in DOMAIN stack', NEW j \in DOMAIN stack', i < j,
                      NEW p \in Met(i)', NEW q \in Met(j)' \cup Coming(j)'
               PROVE  Needs(p, q)'
  BY DEF Nested
<1>4. \A r \in Needed(x)' : Needs(x, r)'
  BY LoadedNeeds DEF Needs
<1>5. j = n + 1 \/ j = n + 2 => q \in Needed(x)'
  BY <1>2, <1>3, LoadedNeeds
<1>6. CASE i \in 1 .. n - 1
  <2>1. Needs(p, x)' /\ \A r \in Coming(n) : Needs(p, r)'
    <3>1. \A r \in Coming(n) : Needs(p, r)
      BY <1>1, <1>3, <1>6 DEF Nested
    <3> QED
      BY <1>2, <3>1, LoadedNeeds
  <2>2. CASE j \in 1 .. n - 1
    <3>1. Needs(p, q)
      BY <1>1, <1>3, <1>6, <2>2 DEF Nested
    <3> QED
      BY <3>1, LoadedNeeds
  <2>3. CASE j = n
    BY <1>1, <1>2, <1>3, <2>1, <2>3
  <2>4. CASE j = n + 1 \/ j = n + 2
    BY <1>4, <1>5, <2>1, <2>4 DEF Needs
  <2> QED
    BY <1>1, <2>2, <2>3, <2>4
<1>7. CASE i = n
  <2>1. j = n + 1 \/ j = n + 2
    BY <1>1, <1>3, <1>7
  <2> QED
    BY <1>1, <1>3, <1>4, <1>5, <1>7, <2>1
<1>8. CASE i = n + 1 \/ i = n + 2
  BY <1>2, <1>3, <1>8
<1> QED
  BY <1>1, <1>6, <1>7, <1>8

LEMMA LoadedAwaited == ASSUME NEW n, NEW x, Loads(n, x) PROVE Awaited'
<1>1. /\ Awaited /\ Placed /\ n \in Nat \ {0} /\ n \in DOMAIN stack /\ n \in DOMAIN stack'
      /\ \A i \in DOMAIN stack : i = n \/ i \in 1 .. n - 1
      /\ \A i \in DOMAIN stack' : i \in 1 .. n - 1 \/ i = n \/ i = n + 1 \/ i = n + 2
      /\ \A i \in 1 .. n - 1 : /\ i \in DOMAIN stack /\ i \in DOMAIN stack' /\ i < n
                               /\ Met(i)' = Met(i) /\ Coming(i)' = Coming(i)
      /\ Met(n)' = {x}
  BY LoadedFrames DEF Loads, WInv
<1>2. /\ Met(n) = {x} /\ Coming(n) \subseteq Coming(n)' \cup {x} /\ x \notin DOMAIN pkgs
      /\ DOMAIN pkgs' = DOMAIN pkgs \cup {x}
      /\ n + 1 \in DOMAIN stack' => Met(n + 1)' = {} /\ Coming(n + 1)' = Public(x)'
      /\ n + 2 \in DOMAIN stack' =>
           Met(n + 2)' = {} /\ Needed(x)' \subseteq Public(x)' \cup Coming(n + 2)'
      /\ Unlimited => n + 1 \in DOMAIN stack' /\ n + 2 \in DOMAIN stack'
  BY DEF Loads
<1>3. Unlimited' = Unlimited /\ \A p \in DOMAIN pkgs : Needed(p)' = Needed(p)
  BY LoadedNeeds
<1>4. SUFFICES ASSUME Unlimited, NEW i \in DOMAIN stack', NEW p \in Met(i)' \cap DOMAIN pkgs',
                      NEW q \in Needed(p)'
               PROVE  q \in DOMAIN pkgs' \/ \E j \in DOMAIN stack' : i < j /\ q \in Coming(j)'
  BY <1>3 DEF Awaited
<1>5. CASE i \in 1 .. n - 1
  <2>1. p \in Met(i) \cap DOMAIN pkgs /\ q \in Needed(p)
    <3>1. Met(i) \cap Met(n) = {}
      BY <1>1, <1>5 DEF Placed
    <3> QED
      BY <1>1, <1>2, <1>3, <1>4, <1>5, <3>1
  <2>2. q \in DOMAIN pkgs \/ \E j \in DOMAIN stack : i < j /\ q \in Coming(j)
    BY <1>1, <1>4, <1>5, <2>1 DEF Awaited
  <2>3. ASSUME NEW j \in DOMAIN stack, i < j, q \in Coming(j)
        PROVE  q \in DOMAIN pkgs' \/ \E k \in DOMAIN stack' : i < k /\ q \in Coming(k)'
    <3>1. CASE j \in 1 .. n - 1
      BY <1>1, <2>3, <3>1
    <3>2. CASE j = n
      BY <1>1, <1>2, <2>3, <3>2
    <3> QED
      BY <1>1, <3>1, <3>2
  <2> QED
    BY <1>2, <2>2, <2>3
<1>6. CASE i = n
  <2>1. p = x
    BY <1>1, <1>4, <1>6
  <2>2. q \in Coming(n + 1)' \/ q \in Coming(n + 2)'
    BY <1>2, <1>4, <2>1
  <2>3. n < n + 1 /\ n < n + 2
    BY <1>1
  <2> QED
    BY <1>2, <1>4, <1>6, <2>2, <2>3
<1>7. CASE i = n + 1 \/ i = n + 2
  BY <1>2, <1>4, <1>7
<1> QED
  BY <1>1, <1>5, <1>6, <1>7

LEMMA LoadedSorted == ASSUME NEW n, NEW x, Loads(n, x) PROVE Sorted'
<1>1. /\ Sorted /\ order' = order /\ DOMAIN pkgs \subseteq DOMAIN pkgs'
      /\ \A i \in DOMAIN order : order[i] \in DOMAIN pkgs
  <2>1. IsSeq(order) /\ ToSet(order) \subseteq DOMAIN pkgs
    BY DEF Loads, SInv, ListOK
  <2>2. \A i \in DOMAIN order : order[i] \in DOMAIN pkgs
    BY <2>1, SeqFacts
  <2> QED
    BY <2>2 DEF Loads, WInv
<1>2. /\ Unlimited' = Unlimited /\ \A p \in DOMAIN pkgs : Needed(p)' = Needed(p)
      /\ \A p, q : Needs(p, q) => Needs(p, q)'
  BY LoadedNeeds
<1>3. SUFFICES ASSUME Unlimited, NEW i \in DOMAIN order, NEW q \in Needed(order[i])
               PROVE  /\ q \in DOMAIN pkgs'
                      /\ \/ Needs(q, order[i])'
                         \/ \E j \in DOMAIN order : i < j /\ order[j] = q
  BY <1>1, <1>2 DEF Sorted
<1>4. /\ q \in DOMAIN pkgs
      /\ Needs(q, order[i]) \/ \E j \in DOMAIN order : i < j /\ order[j] = q
  BY <1>1, <1>3 DEF Sorted
<1>5. ASSUME NEW p, p = order[i], Needs(q, p)
      PROVE  Needs(q, order[i])'
  <2>1. Needs(q, p)'
    BY <1>2, <1>5
  <2>2. p = order'[i]
    BY <1>1, <1>5
  <2> QED
    BY <2>1, <2>2 DEF Needs
<1> QED
  BY <1>1, <1>4, <1>5

LEMMA LoadedWalk == ASSUME SInv, WInv, LoadWorks PROVE WInv'
<1>1. PICK n, x : n = Len(stack) /\ x = work.spec.name
  OBVIOUS
<1>2. Loads(n, x)
  BY <1>1, LoadLoads
<1> QED
  BY <1>2, LoadedPlaced, LoadedPromised, LoadedJustified, LoadedNested, LoadedAwaited,
     LoadedSorted DEF WInv

-----------------------------------------------------------------------------
(* The theorems.                                                            *)

LEMMA Stays == ASSUME IInv, UNCHANGED vars PROVE IInv'
<1>1. SInv'
  BY DEF IInv, vars, SInv, FramesOK, WorkOK, PkgsOK, ListOK, PhaseOK, File, ReadPackage, Top
<1>2. Running' => WInv'
  <2>1. Running' = Running /\ Loading' = Loading
    BY DEF vars, Running, Loading
  <2> QED
    BY <2>1, SameWalk DEF IInv, vars
<1> QED
  BY <1>1, <1>2 DEF IInv

\* One step per action of the program.
LEMMA InductiveStep == ASSUME IInv, [Next]_vars PROVE IInv'
<1>1. SInv /\ (Running => WInv)
  BY DEF IInv
<1>2. CASE GivesUp
  BY <1>1, <1>2, GivesUpKeeps
<1>3. CASE StartWorks
  BY <1>1, <1>3, StartStructure, WalkStarts DEF IInv
<1>4. CASE Return
  <2>1. WInv
    BY <1>1, <1>4 DEF Return, Running
  <2>2. PICK n : n = Len(stack)
    OBVIOUS
  <2>3. WInv'
    BY <1>1, <1>4, <2>1, <2>2, ReturnMoves, MovedWalk
  <2> QED
    BY <1>1, <1>4, <2>1, <2>3, ReturnStructure DEF IInv, WInv
<1>5. CASE VisitWorks
  <2>1. WInv
    BY <1>1, <1>5 DEF VisitWorks, AtSpec, Running
  <2>2. PICK n : n = Len(stack)
    OBVIOUS
  <2>3. WInv'
    BY <1>1, <1>5, <2>1, <2>2, VisitMoves, MovedWalk
  <2> QED
    BY <1>1, <1>5, <2>1, <2>3, VisitStructure DEF IInv, WInv
<1>6. CASE FindWorks
  <2>1. WInv
    BY <1>1, <1>6 DEF FindWorks, AtSpec, Running
  <2>2. PICK n : n = Len(stack)
    OBVIOUS
  <2>3. WInv'
    BY <1>1, <1>6, <2>1, <2>2, FindMoves, MovedWalk
  <2> QED
    BY <1>1, <1>6, <2>1, <2>3, FindStructure DEF IInv, WInv
<1>7. CASE LoadWorks
  <2>1. WInv
    BY <1>1, <1>7 DEF LoadWorks, Running
  <2> QED
    BY <1>1, <1>7, <2>1, LoadStructure, LoadedWalk DEF IInv
<1>8. CASE Copy \/ Unescape \/ SubstituteWorks \/ FieldEnds
  <2>1. Expands
    BY <1>1, <1>8, CopyExpands, UnescapeExpands, SubstituteExpands, FieldEndsExpands
  <2>2. /\ Running /\ Loading' = Loading /\ UNCHANGED <<input, stack, pkgs, order>>
    BY <2>1 DEF Expands, Running, Loading
  <2> QED
    BY <1>1, <2>1, <2>2, ExpandsStructure, SameWalk DEF IInv
<1>9. CASE ReportWorks
  <2>1. /\ Running /\ Loading' = Loading /\ UNCHANGED <<input, stack, pkgs, order>>
    BY <1>9 DEF ReportWorks, Running, Loading
  <2> QED
    BY <1>1, <1>9, <2>1, ReportStructure, SameWalk DEF IInv
<1>10. CASE UNCHANGED vars
  BY <1>10, Stays
<1>11. CASE Next
  <2>1. WorkOK
    BY <1>1 DEF SInv
  <2> QED
    BY <1>2, <1>3, <1>4, <1>5, <1>6, <1>7, <1>8, <1>9, <1>11, <2>1, NextCases
<1> QED
  BY <1>10, <1>11

LEMMA Inductive == Spec => []IInv
<1>1. Init => IInv
  BY StructureStarts
<1>2. IInv /\ [Next]_vars => IInv'
  BY InductiveStep
<1> QED
  BY <1>1, <1>2, PTL DEF Spec

\* The stack of the walk never outgrows its array of Cap frames, and neither does
\* the stack of an expansion the Deep strings of its own, whatever the files say
\* and however they refer to each other (process, expand).
THEOREM StacksStayInBounds == Spec => []TypeOK
<1>1. IInv => TypeOK
  <2> SUFFICES ASSUME IInv PROVE TypeOK
    OBVIOUS
  <2>1. FramesOK /\ WorkOK /\ ListOK
    BY DEF IInv, SInv
  <2>2. \A i \in DOMAIN stack : stack[i].depth \in Nat /\ stack[i].flags \subseteq Flags
    BY <2>1 DEF FramesOK, FrameOK
  <2> QED
    BY <2>1, <2>2 DEF TypeOK, FramesOK, WorkOK, ListOK
<1> QED
  BY <1>1, Inductive, PTL

LEMMA WhenOver ==
  ASSUME IInv, WalkIsOver
  PROVE  WInv /\ DOMAIN stack = {} /\ DOMAIN pkgs = ToSet(order)
<1>1. stack = <<>> /\ Running
  BY DEF WalkIsOver, Running
<1>2. WInv /\ ListOK /\ DOMAIN stack = {}
  BY <1>1, EmptyIs DEF IInv, SInv
<1>3. DOMAIN pkgs \subseteq ToSet(order)
  BY <1>2 DEF WInv, Placed
<1> QED
  BY <1>2, <1>3 DEF ListOK

\* The packages loaded are the fewest that have what was asked for and all that
\* one of them requires, and the public ones likewise (process).
THEOREM OnlyTheNeededAreLoaded == Spec => []LoadedAreTheNeeded
<1>1. IInv => LoadedAreTheNeeded
  <2> SUFFICES ASSUME IInv, WalkIsOver
               PROVE  /\ Marked("DIRECT") = Asked /\ Asked \subseteq Marked("PUBLIC")
                      /\ Unlimited => /\ Complete(DOMAIN pkgs)
                                      /\ CompletePublic(Marked("PUBLIC"))
                      /\ \A set \in SUBSET DOMAIN pkgs : Asked \subseteq set =>
                           /\ Complete(set) => set = DOMAIN pkgs
                           /\ CompletePublic(set) => Marked("PUBLIC") \subseteq set
    BY DEF LoadedAreTheNeeded
  <2>1. /\ Promised /\ Justified /\ Sorted /\ DOMAIN stack = {} /\ DOMAIN pkgs = ToSet(order)
    BY WhenOver DEF WInv
  <2>2. Marked("DIRECT") = Asked /\ Asked \subseteq Marked("PUBLIC")
    BY <2>1 DEF Promised, Justified
  <2>3. Unlimited => Complete(DOMAIN pkgs)
    <3>1. \A p \in DOMAIN pkgs : \E i \in DOMAIN order : order[i] = p
      BY <2>1 DEF ToSet
    <3> QED
      BY <2>1, <3>1 DEF Complete, Sorted
  <2>4. Unlimited => CompletePublic(Marked("PUBLIC"))
    BY <2>1 DEF Promised, CompletePublic
  <2>5. \A set \in SUBSET DOMAIN pkgs : Asked \subseteq set =>
          /\ Complete(set) => set = DOMAIN pkgs
          /\ CompletePublic(set) => Marked("PUBLIC") \subseteq set
    BY <2>1 DEF Justified
  <2> QED
    BY <2>2, <2>3, <2>4, <2>5
<1> QED
  BY <1>1, Inductive, PTL

\* When the walk is over, every package that was loaded is on the list, once, and
\* before every package it requires, unless that one requires it in turn (process).
THEOREM ListIsInLinkOrder == Spec => []ListedBeforeNeeded
<1>1. IInv => ListedBeforeNeeded
  <2>1. ASSUME IInv, WalkIsOver
        PROVE  ToSet(order) = DOMAIN pkgs /\ Placed /\ Sorted
    BY <2>1, WhenOver DEF WInv
  <2>2. ASSUME IInv, WalkIsOver, NEW i \in DOMAIN order, NEW j \in DOMAIN order,
               order[i] = order[j]
        PROVE  i = j
    BY <2>1, <2>2 DEF Placed
  <2>3. ASSUME IInv, WalkIsOver, Unlimited,
               NEW i \in DOMAIN order, NEW j \in DOMAIN order,
               order[j] \in Needed(order[i])
        PROVE  \/ i < j
               \/ \A set \in SUBSET DOMAIN pkgs :
                    Complete(set) /\ order[j] \in set => order[i] \in set
    <3>1. Placed /\ Sorted
      BY <2>1, <2>3
    <3>2. Needs(order[j], order[i]) \/ \E k \in DOMAIN order : i < k /\ order[k] = order[j]
      BY <3>1, <2>3 DEF Sorted
    <3>3. \A k \in DOMAIN order : order[k] = order[j] => k = j
      BY <2>2, <2>3
    <3> QED
      BY <3>2, <3>3 DEF Needs
  <2> QED
    BY <2>1, <2>2, <2>3 DEF ListedBeforeNeeded
<1> QED
  BY <1>1, Inductive, PTL
=============================================================================
