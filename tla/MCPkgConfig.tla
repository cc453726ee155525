---------------------------- MODULE MCPkgConfig ----------------------------
(* Small repositories of packages, and what their files say without stacks. *)
EXTENDS PkgConfig

NoLimit == 1000

A == <<"name", "a">>
B == <<"name", "b">>
C == <<"name", "c">>
D == <<"name", "d">>
All == {A, B, C, D}

Op(op) == <<"op", op>>
V(bytes) == <<"version", bytes>>
V2 == V(<<50>>)
V9 == V(<<57>>)
V10 == V(<<49, 48>>)
V1x2 == V(<<49, 46, 50>>)
V1x10 == V(<<49, 46, 49, 48>>)

\* 1.2 < 1.10 < 2 < 9 < 10
Rank(version) ==
  CHOOSE i \in 1 .. 5 : <<V1x2, V1x10, V2, V9, V10>>[i][2] = version

Line(sign, name, value) == [sign |-> sign, name |-> name, value |-> value]
Head3(version) == <<Line(":", "Name", <<>>), Line(":", "Description", <<>>),
                    Line(":", "Version", <<version>>)>>
Ref(name) == <<"$", name>>

\* A package with a library of its own, and a directory that all of them have.
Package(p, requires, private) ==
  Head3(V2) \o (IF requires = <<>> THEN <<>> ELSE <<Line(":", "Requires", requires)>>)
    \o (IF private = <<>> THEN <<>> ELSE <<Line(":", "Requires.private", private)>>)
    \o <<Line(":", "Libs", <<<<"-L", "lib">>, <<"-l", p[2]>>>>)>>

Input(files, args, options) ==
  [files |-> [dir \in {"d1", "d2"} |->
                [p \in All |-> IF dir = "d1" /\ p \in DOMAIN files THEN files[p] ELSE Absent]],
   withPath |-> <<>>, path |-> <<"d1">>, pkgconfigDirs |-> {"d1"}, defines |-> <<>>,
   args |-> args, options |-> options, maxDepth |-> NoLimit, version |-> V9[2],
   cflagsFilter |-> "any", libsFilter |-> "any", systemDirs |-> {<<"-L", "sys">>}]

InOrder(ps) == SelectSeq(<<A, B, C>>, LAMBDA p : p \in ps)

\* Every graph of two kinds of requirements over three packages.
Graphs3 ==
  LET edges(p) == {<<r, q>> \in (SUBSET ({A, B, C} \ {p})) \X (SUBSET ({A, B, C} \ {p})) :
                     r \cap q = {}}
      files(e) == [p \in {A, B, C} |-> Package(p, InOrder(e[p][1]), InOrder(e[p][2]))]
  IN  {files((A :> x) @@ (B :> y) @@ (C :> z)) : x \in edges(A), y \in edges(B), z \in edges(C)}

GraphInputs ==
  {[Input(files, args, options) EXCEPT !.maxDepth = depth] :
     files \in Graphs3, args \in {<<A>>, <<A, B>>}, options \in {{"libs"}, {"libs", "static"}},
     depth \in {NoLimit}}
  \cup {[Input(files, <<A>>, {"libs"}) EXCEPT !.maxDepth = 2] : files \in Graphs3}

\* More packages than the stack has room for; the first also names a library
\* of each of the others.
ChainInputs ==
  LET a(x, y) == Package(A, x, y) \o <<Line(":", "Libs.private", <<<<"-l", "d">>, <<"-l", "c">>>>)>>
      kinds(p) == {<<<<p>>, <<>>>>, <<<<>>, <<p>>>>, <<<<>>, <<>>>>}
  IN  {Input((A :> a(x[1] \o z[1], x[2] \o z[2])) @@ (B :> Package(B, y[1], y[2]))
               @@ (C :> Package(C, w[1], w[2])) @@ (D :> Package(D, <<>>, <<>>)), <<A>>, options) :
         x \in kinds(B), y \in kinds(C), z \in kinds(C), w \in kinds(D),
         options \in {{"libs"}, {"libs", "static"}}}

VersionInputs ==
  LET files(have, op, want) ==
        (A :> (Head3(V2) \o <<Line(":", "Requires", <<B, Op(op), want>>)>>)) @@ (B :> Head3(have))
  IN  {Input(files(have, op, want), args, options) :
         have \in {V2, V10, V1x10}, op \in Operators, want \in {V2, V9, V1x2},
         args \in {<<A>>, <<A, B, Op(">"), V9>>, <<B, Op("<="), V2>>, <<B, A>>},
         options \in {{}, {"atleast-version"}, {"max-version"}, {"exact-version"}, {"modversion"}}}

Faulty ==
  {Absent, Unreadable, Tail(Head3(V2)), Head3(V2) \o <<Line(":", "Name", <<>>)>>,
   Head3(V2) \o <<Line("=", "x", <<>>), Line("=", "x", <<>>)>>,
   Head3(V2) \o <<Line(":", "Unknown", <<>>), Line(":", "Unknown", <<>>)>>,
   Head3(V2) \o <<Line(":", "Requires", <<Op("<"), V2>>)>>,
   Head3(V2) \o <<Line(":", "Requires.private", <<C, Op("<")>>)>>}

FaultyInputs ==
  {Input((A :> Package(A, r, <<>>)) @@ (B :> f) @@ (C :> Package(C, <<>>, <<>>)), args, options) :
     f \in Faulty, r \in {<<>>, <<B>>, <<C, B>>}, options \in {{"libs"}, {"validate"}},
     args \in {<<A>>, <<>>, <<Op("=")>>, <<A, Op("=")>>, <<A, OwnName>>}}
  \cup {[Input(A :> f, <<A>>, {"libs"}) EXCEPT
           !.files["d2"][A] = Package(A, <<>>, <<>>), !.withPath = path, !.path = <<"d1">>] :
          f \in Faulty, path \in {<<>>, <<"d2">>, <<"d1", "d2">>}}

\* Variables that refer to each other, to themselves and to none.
VariableInputs ==
  LET values == {<<>>, <<Ref("x")>>, <<Ref("y")>>, <<<<"", "t">>, Ref("prefix")>>,
                 <<Ref("y"), <<"-l", "a">>, Ref("y")>>, <<<<"$$", "">>, Ref("pcfiledir")>>}
      file(x, y) ==
        Head3(V2) \o <<Line("=", "x", x), Line("=", "y", y), Line("=", "prefix", <<>>),
          Line(":", "Libs", <<<<"-L", "sys">>, <<"-l", "a">>, Ref("x"), <<"-L", "lib">>>>),
          Line(":", "Libs.private", <<<<"-l", "m">>, Ref("y")>>),
          Line(":", "Cflags", <<<<"-I", "i">>, <<"-D", "d">>, <<"-I", "i">>, Ref("z")>>)>>
  IN  {[Input(A :> file(x, y), <<A>>, options) EXCEPT !.defines = d, !.libsFilter = f,
                                                      !.cflagsFilter = g] :
         x \in values, y \in values, d \in {"z" :> <<>>, ("z" :> <<Ref("x")>>) @@ ("y" :> <<>>)},
         f \in {"any", "-l"}, g \in {"-I"},
         options \in {{"libs", "cflags", "static"}, {"libs", "dont-define-prefix"}}}
      \cup {[Input(A :> file(<<>>, <<>>), <<A>>, {"libs", "cflags"}) EXCEPT !.libsFilter = f,
                 !.cflagsFilter = g, !.defines = d] :
              f \in {"-L", "other libs"}, g \in {"other cflags", "any"}, d \in {<<>>, "z" :> <<>>}}

MCInputs == GraphInputs \cup ChainInputs \cup VersionInputs \cup FaultyInputs \cup VariableInputs

-----------------------------------------------------------------------------
\* A string with its variables replaced, in a set that is empty if there is none.
RECURSIVE Replaced(_, _, _, _)
Replaced(dir, file, string, n) ==
  IF string = <<>> THEN {<<>>}
  ELSE LET word  == string[1]
           first == CASE word[1] = "$" /\ n = 0 -> {}
                      [] word[1] = "$" /\ n > 0 ->
                           UNION {Replaced(dir, file, value, n - 1) :
                                    value \in Lookup(dir, file, word[2])}
                      [] word[1] = "$$" -> {<<<<"", "$">>>>}
                      [] OTHER -> {<<word>>}
       IN  {x \o y : x \in first, y \in Replaced(dir, file, Tail(string), n)}

FileOf(p) == IF Candidates(p) = {} THEN Absent ELSE ReadPackage(DirOf(p), p)
Sound(p) == /\ FileOf(p) \notin {Absent, Unreadable} /\ ~Duplicated(FileOf(p))
            /\ Required \subseteq Defined(FileOf(p), ":")
Expanded(p, field) ==
  IF field \notin Defined(FileOf(p), ":") THEN {<<>>}
  ELSE Replaced(DirOf(p), FileOf(p), ValueOf(FileOf(p), ":", field), Deep)

SpecsIn(p, field) ==
  IF ~Sound(p) THEN {} ELSE UNION {ToSet(ParseSpecs(s)) : s \in Expanded(p, field)}
Packages == All \cup {OwnName}
PublicNeeds == [p \in Packages |-> {s.name : s \in SpecsIn(p, "Requires")}] @@ <<>>
PrivateNeeds == [p \in Packages |-> {s.name : s \in SpecsIn(p, "Requires.private")}] @@ <<>>
Needs == LET f == PublicNeeds
             g == PrivateNeeds
         IN  [p \in Packages |-> f[p] \cup g[p]] @@ <<>>

\* The packages at most n requirements away.
RECURSIVE Reached(_, _, _)
Reached(ps, edges, n) ==
  LET more == ps \cup UNION {edges[p] : p \in ps}
  IN  IF more = ps \/ n = 0 THEN ps ELSE Reached(more, edges, n - 1)

Walked == Reached(Asked, Needs, IF ~Recursive THEN 0 ELSE Max({1, input.maxDepth}) - 1)
SpecsOf(ps) == ToSet(ParseSpecs(input.args)) \cup
  (IF ~Recursive THEN {} ELSE UNION {SpecsIn(p, "Requires") \cup SpecsIn(p, "Requires.private") : p \in ps})

\* The packages on the list are those that can be reached, each once, and public
\* are those that can be reached without a private requirement, whatever way the
\* walk met them first; a limited depth may leave some out.  Their fields are
\* the lines of the files with every variable replaced (process, expand).
WalkIsExact ==
  status = "reported" =>
    LET walked == Walked
        public == Reached(Asked, PublicNeeds, 9)
    IN
    /\ ToSet(order) \subseteq walked
    /\ Cardinality(ToSet(order)) = Len(order)
    /\ input.maxDepth = NoLimit \/ ~Recursive =>
         /\ ToSet(order) = walked
         /\ Len(Versions) = Cardinality(Asked)
         /\ \A p \in walked :
              /\ "DIRECT" \in pkgs[p].flags <=> p \in Asked
              /\ Recursive => ("PUBLIC" \in pkgs[p].flags <=> p \in public)
    /\ \A p \in ToSet(order) : \A f \in DOMAIN pkgs[p].fields :
         {pkgs[p].fields[f]} = Expanded(p, f)

\* The program succeeds only if every package it reached is sound and does for
\* someone who asks for it, and what it says when it fails is true (process,
\* findpackage, compareversions, expand).
Satisfied(spec) ==
  LET have == Rank(CHOOSE v \in {w[1][2] : w \in Expanded(spec.name, "Version")} : TRUE)
  IN  spec.op = NoOp \/ Holds(spec.op, have - Rank(spec.version))

VerdictIsRight ==
  /\ status = "reported" =>
       \A p \in ToSet(order) :
         /\ Sound(p)
         /\ p # OwnName /\ ~IgnoreVersions =>
              \E s \in SpecsOf(ToSet(order)) : s.name = p /\ Satisfied(s)
         /\ OverrideOp # NoOp /\ p # OwnName =>
              Holds(OverrideOp, Rank(VersionIn(pkgs[p].fields)) - Rank(input.version))
  /\ status = "version" =>
       \E s \in SpecsOf(Walked) :
         IF IgnoreVersions THEN ~Satisfied([s EXCEPT !.op = OverrideOp, !.version = input.version])
         ELSE ~Satisfied(s)
  /\ status = "not found" => \E p \in Walked : Candidates(p) = {}
  /\ status \in {"unreadable", "duplicate", "missing field"} =>
       \E p \in Walked : Candidates(p) # {} /\ ~Sound(p)
  /\ status = "too deep" => 2 * Cardinality(Walked) + 1 > Cap
  /\ status \in {"undefined variable", "nested too deep"} =>
       \E p \in Walked : Sound(p) /\ \E f \in Defined(FileOf(p), ":") : Expanded(p, f) = {}

\* Libraries are printed in an order that a linker accepts: each once, and a
\* package's own before those of the packages it requires, unless these require
\* it in turn.  No other flag is repeated either, and paths of the system are
\* not printed (process, appendarg, writeargs).
Once(words) == \A i, j \in DOMAIN words : words[i] = words[j] /\ Dedupable(words[i]) => i = j
Linked == "libs" \in Options /\ input.maxDepth = NoLimit /\ input.libsFilter = "any"

LinkOrder ==
  status = "reported" /\ Linked =>
    LET libs  == Libs
        needs == Needs
        at(word) == CHOOSE i \in DOMAIN libs : libs[i] = word
        below == [p \in Packages |-> Reached({p}, needs, 9)] @@ <<>>
    IN
    /\ Once(libs) /\ Once(Cflags)
    /\ input.systemDirs \cap (ToSet(libs) \cup ToSet(Cflags)) = {}
    /\ \A p \in ToSet(order) : \A q \in needs[p] :
         LET x == <<"-l", p[2]>>
             y == <<"-l", q[2]>>
         IN  {x, y} \subseteq ToSet(libs) /\ p \notin below[q] => at(x) < at(y)

\* Every command ends, though packages and variables may require themselves.
CommandEnds == <>(status \notin {"start", "walking", "expanding"})
=============================================================================
