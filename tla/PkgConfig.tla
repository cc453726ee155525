----------------------------- MODULE PkgConfig -----------------------------
(***************************************************************************)
(* pkg-config.c: from the command line to the flags that are printed.      *)
(* process() walks the packages with a stack of its own; a package that is *)
(* met for the first time is found, parsed and expanded, with another      *)
(* stack, before the walk goes on into what it requires.                   *)
(*                                                                         *)
(* A word is a pair: what sort of word it is and its text.  A reference to *)
(* a variable is a word of the sort "$", and the text of a version is the  *)
(* sequence of its bytes.  A file is the sequence of its lines.  Quotes    *)
(* and escapes, names that are paths, --variable and the listings are left *)
(* out.                                                                    *)
(***************************************************************************)
EXTENDS Integers, Sequences, SequencesExt

CONSTANTS
  Inputs,     \* what the program can be started with
  Cap,        \* frames on the stack of the walk (256)
  Deep,       \* strings on the stack of an expansion (128)
  Absent,     \* in place of a file: there is none
  Unreadable  \* in place of a file: it cannot be read

ASSUME StacksHaveRoom == Cap \in Nat \ {0} /\ Deep \in Nat \ {0}

IsSeq(s) == s \in Seq({s[i] : i \in DOMAIN s})

\* The command line, the paths, the values of variables and the files are read
\* from front to back; nothing else is known of them.
ASSUME InputsAreLegal ==
  \A i \in Inputs :
    /\ IsSeq(i.args) /\ IsSeq(i.withPath) /\ IsSeq(i.path) /\ i.maxDepth \in Int
    /\ \A name \in DOMAIN i.defines : IsSeq(i.defines[name])
    /\ \A dir \in DOMAIN i.files : \A p \in DOMAIN i.files[dir] :
         LET file == i.files[dir][p] IN
         \/ file \in {Absent, Unreadable}
         \/ IsSeq(file) /\ \A k \in DOMAIN file : IsSeq(file[k].value)

VARIABLES
  input,   \* the files, the search path and the command line
  stack,   \* the frames of the walk, the top last
  pkgs,    \* the packages loaded so far
  order,   \* the load order list, its head first
  work,    \* the package that is being expanded
  status   \* what the program is doing, or why it failed

vars == <<input, stack, pkgs, order, work, status>>

Fields == <<"Name", "Description", "URL", "Version", "Requires", "Requires.private",
            "Conflicts", "Libs", "Libs.private", "Cflags", "Cflags.private">>
Required == {"Name", "Version", "Description"}

Options == input.options
Recursive == Options \cap {"modversion", "validate", "atleast-version",
                           "exact-version", "max-version"} = {}
IgnoreVersions == Options \cap {"atleast-version", "exact-version", "max-version"} # {}

Fail(why) == status' = why /\ UNCHANGED <<input, stack, pkgs, order, work>>

-----------------------------------------------------------------------------
(* Versions.  Runs of digits are compared by their length first.            *)

Order(x, y) == IF x < y THEN -1 ELSE IF x > y THEN 1 ELSE 0
IsDigit(byte) == byte \in 48 .. 57

DigitsFrom(v, i) ==
  CHOOSE n \in 1 .. Len(v) - i + 1 :
    /\ \A k \in i .. i + n - 1 : IsDigit(v[k])
    /\ i + n > Len(v) \/ ~IsDigit(v[i + n])

\* A slip in compareversions: bytes only.
CompareBytes(a, b) ==
  LET from[i \in 1 .. Len(a) + 1] ==
        IF i > Len(a) \/ i > Len(b) THEN Order(Len(a), Len(b))
        ELSE IF a[i] # b[i] THEN Order(a[i], b[i]) ELSE from[i + 1]
  IN  from[1]

CompareVersions(a, b) ==
  LET from[i \in 1 .. Len(a) + 1] ==
        IF i > Len(a) \/ i > Len(b) THEN Order(Len(a), Len(b))
        ELSE IF IsDigit(a[i]) /\ IsDigit(b[i]) /\ DigitsFrom(a, i) # DigitsFrom(b, i)
        THEN Order(DigitsFrom(a, i), DigitsFrom(b, i))
        ELSE IF a[i] # b[i] THEN Order(a[i], b[i]) ELSE from[i + 1]
  IN  from[1]

Operators == {"<", "<=", "=", ">=", ">"}
NoOp == ""

Holds(op, result) ==
  \/ op \in {"<", "<="} /\ result < 0
  \/ op \in {"<=", "=", ">="} /\ result = 0
  \/ op \in {">", ">="} /\ result > 0

-----------------------------------------------------------------------------
(* Requirements: names, each with an optional operator and version.  The    *)
(* list that comes out is in reverse.                                       *)

IsOperator(word) == word[1] = "op"

\* open: the first of specs may still get an operator, or its version.
TakeToken(acc, word) ==
  IF acc.wrong \/ (~acc.open /\ IsOperator(word)) THEN [acc EXCEPT !.wrong = TRUE]
  ELSE IF acc.open /\ acc.specs[1].op # NoOp
  THEN [acc EXCEPT !.specs[1].version = word[2], !.open = FALSE]
  ELSE IF IsOperator(word) THEN [acc EXCEPT !.specs[1].op = word[2]]
  ELSE [specs |-> <<[name |-> word, op |-> NoOp, version |-> <<>>]>> \o acc.specs,
        open |-> TRUE, wrong |-> FALSE]

ParseTokens(words) ==
  LET read[i \in 0 .. Len(words)] ==
        IF i = 0 THEN [specs |-> <<>>, open |-> FALSE, wrong |-> FALSE]
        ELSE TakeToken(read[i - 1], words[i])
  IN  read[Len(words)]

ParseSpecs(words) == ParseTokens(words).specs
SpecsFail(words) ==
  LET r == ParseTokens(words) IN r.wrong \/ (r.open /\ r.specs[1].op # NoOp)

-----------------------------------------------------------------------------
(* Finding and parsing a file.  A line with "=" defines a variable, one     *)
(* with ":" a field; others are skipped.                                    *)

Known(line) == line.sign = "=" \/ (line.sign = ":" /\ line.name \in ToSet(Fields))

Duplicated(file) ==
  \E i, j \in DOMAIN file :
    i < j /\ Known(file[i]) /\ file[i].sign = file[j].sign /\ file[i].name = file[j].name

Defined(file, sign) == {file[i].name : i \in {i \in DOMAIN file : file[i].sign = sign}}
ValueOf(file, sign, name) ==
  file[CHOOSE i \in DOMAIN file : file[i].sign = sign /\ file[i].name = name].value
FieldIn(file, name) == IF name \in Defined(file, ":") THEN ValueOf(file, ":", name) ELSE <<>>

\* The program is a package itself: it is found before any file of its name.
OwnName == <<"name", "pkg-config">>
OwnFile == <<[sign |-> ":", name |-> "Name", value |-> <<<<"", "u-config">>>>],
             [sign |-> ":", name |-> "Version",
              value |-> <<<<"version", <<48, 46, 51, 52, 46, 48>>>>>>],
             [sign |-> ":", name |-> "Description", value |-> <<>>]>>

ReadPackage(dir, name) ==
  CASE name = OwnName -> OwnFile
    [] name # OwnName /\ dir \in DOMAIN input.files /\ name \in DOMAIN input.files[dir] ->
         input.files[dir][name]
    [] OTHER -> Absent

\* --with-path comes before the environment and the built-in path.
SearchPath == input.withPath \o input.path

Candidates(name) ==
  {i \in DOMAIN SearchPath : ReadPackage(SearchPath[i], name) # Absent}
DirOf(name) == SearchPath[Min(Candidates(name))]

\* Variables of the command line come first; pcfiledir and the prefix are set
\* for the package.
Lookup(dir, file, name) ==
  IF name \in DOMAIN input.defines THEN {input.defines[name]}
  ELSE IF name = "pcfiledir" THEN {<<<<"", dir>>>>}
  ELSE IF name = "prefix" /\ "dont-define-prefix" \notin Options /\ dir \in input.pkgconfigDirs
  THEN {<<<<"prefix", dir>>>>}
  ELSE IF name \in Defined(file, "=") THEN {ValueOf(file, "=", name)} ELSE {}

-----------------------------------------------------------------------------
(* The walk: process().                                                     *)

Top == stack[Len(stack)]
Spec1 == Top.specs[1]
Flags == {"DIRECT", "PUBLIC"}
Idle == [spec |-> <<>>, dir |-> <<>>, todo |-> <<>>, strings |-> <<>>,
         out |-> <<>>, fields |-> <<>>]

\* A slip in process: a package is appended to the list.
Appended == order \o Top.newpkg

\* When the walk is back at the frame that met a package, the package comes
\* before all that it requires.
Listed == Top.newpkg \o order

\* newpkg has the package that the frame has met, or nothing.
Frame(specs, depth, flags) ==
  [specs |-> specs, newpkg |-> <<>>, depth |-> depth, flags |-> flags]

\* The top frame after its first spec is taken.
Taken(newpkg) ==
  Append(SubSeq(stack, 1, Len(stack) - 1),
         [Top EXCEPT !.specs = Tail(@), !.newpkg = newpkg])

\* A slip in process: one frame left is taken for two.
RoomForOne(n) == Len(stack) < Cap
RoomFor(n) == Len(stack) + n <= Cap

Deeper == Recursive /\ Top.depth + 1 < input.maxDepth

Start ==
  /\ status = "start"
  /\ IF SpecsFail(input.args) THEN Fail("bad requirement")
     ELSE /\ status' = "walking"
          /\ stack' = <<Frame(ParseSpecs(input.args), 0, Flags)>>
          /\ UNCHANGED <<input, pkgs, order, work>>

Return ==
  /\ status = "walking" /\ stack # <<>> /\ Top.specs = <<>>
  /\ order' = Listed
  /\ stack' = SubSeq(stack, 1, Len(stack) - 1)
  /\ UNCHANGED <<input, pkgs, work, status>>

AtSpec == status = "walking" /\ stack # <<>> /\ Top.specs # <<>>
IsNews(p) == "PUBLIC" \in Top.flags /\ "PUBLIC" \notin pkgs[p].flags

\* A slip in process: a package that turns out to be public is marked, but
\* what it requires is not.
MarkOnly(p) == FALSE

\* A package loaded as private turns out to be public: so is what it requires.
Promotes(p) == IsNews(p) /\ Deeper

Visit ==
  /\ AtSpec /\ Spec1.name \in DOMAIN pkgs
  /\ LET p == Spec1.name IN
     IF Promotes(p) /\ ~RoomFor(1) THEN Fail("too deep")
     ELSE /\ order' = Listed
          /\ stack' = Taken(<<>>) \o
               IF Promotes(p)
               THEN <<Frame(pkgs[p].requires, Top.depth + 1, Top.flags \ {"DIRECT"})>>
               ELSE <<>>
          /\ pkgs' = [pkgs EXCEPT ![p].flags = @ \cup Top.flags]
          /\ UNCHANGED <<input, work, status>>

Find ==
  /\ AtSpec /\ Spec1.name \notin DOMAIN pkgs
  /\ LET p == Spec1.name IN
     IF Candidates(p) = {} THEN Fail("not found")
     ELSE LET dir  == DirOf(p)
              file == ReadPackage(dir, p)
          IN  IF file = Unreadable THEN Fail("unreadable")
              ELSE IF Duplicated(file) THEN Fail("duplicate")
              ELSE IF ~(Required \subseteq Defined(file, ":")) THEN Fail("missing field")
              ELSE /\ order' = Listed
                   /\ stack' = Taken(<<p>>)
                   /\ work' = [spec |-> Spec1, dir |-> dir, todo |-> Fields,
                               strings |-> <<FieldIn(file, Fields[1])>>,
                               out |-> <<>>, fields |-> <<>>]
                   /\ status' = "expanding"
                   /\ UNCHANGED <<input, pkgs>>

-----------------------------------------------------------------------------
(* Expanding the fields of the package: expand(), expandmerge().            *)

File == ReadPackage(work.dir, work.spec.name)
String == work.strings[Len(work.strings)]
Below == SubSeq(work.strings, 1, Len(work.strings) - 1)
Special(word) == word[1] \in {"$", "$$"}
Specials == {i \in DOMAIN String : Special(String[i])}
Stop == Min(Specials)
Rest == SubSeq(String, Stop + 1, Len(String))

Expanding == status = "expanding" /\ work.strings # <<>>

Copy ==
  /\ Expanding /\ Specials = {}
  /\ work' = [work EXCEPT !.strings = Below, !.out = @ \o String]
  /\ UNCHANGED <<input, stack, pkgs, order, status>>

Unescape ==
  /\ Expanding /\ Specials # {} /\ String[Stop][1] = "$$"
  /\ work' = [work EXCEPT !.strings = Append(Below, Rest),
                          !.out = @ \o SubSeq(String, 1, Stop - 1) \o <<<<"", "$">>>>]
  /\ UNCHANGED <<input, stack, pkgs, order, status>>

\* A slip in expand: an empty tail is not pushed.
TailElided(value) == (IF Rest = <<>> THEN Below ELSE Append(Below, Rest)) \o <<value>>

\* The tail waits below the value, even when it is empty: so a variable that
\* refers to itself runs out of stack.
Pushed(value) == Append(Below, Rest) \o <<value>>

Substitute ==
  /\ Expanding /\ Specials # {} /\ String[Stop][1] = "$"
  /\ LET values == Lookup(work.dir, File, String[Stop][2]) IN
     IF Len(Below) >= Deep - 1 THEN Fail("nested too deep")
     ELSE IF values = {} THEN Fail("undefined variable")
     ELSE /\ \E value \in values :
               work' = [work EXCEPT !.strings = Pushed(value),
                                    !.out = @ \o SubSeq(String, 1, Stop - 1)]
          /\ UNCHANGED <<input, stack, pkgs, order, status>>

FieldEnds ==
  /\ status = "expanding" /\ work.strings = <<>> /\ work.todo # <<>>
  /\ LET todo == Tail(work.todo) IN
     work' = [work EXCEPT
                !.todo = todo, !.out = <<>>,
                !.strings = IF todo = <<>> THEN <<>> ELSE <<FieldIn(File, todo[1])>>,
                !.fields = [f \in DOMAIN @ \cup {work.todo[1]} |->
                              IF f = work.todo[1] THEN work.out ELSE @[f]]]
  /\ UNCHANGED <<input, stack, pkgs, order, status>>

Field(fields, name) == IF name \in DOMAIN fields THEN fields[name] ELSE <<>>
VersionIn(fields) ==
  IF Field(fields, "Version") = <<>> THEN <<>> ELSE Field(fields, "Version")[1][2]

\* The package is loaded; the walk goes on into its private requirements, and
\* then into the others.
Load ==
  /\ status = "expanding" /\ work.todo = <<>>
  /\ LET spec    == work.spec
         public  == Field(work.fields, "Requires")
         private == Field(work.fields, "Requires.private")
     IN
     IF SpecsFail(public) \/ SpecsFail(private) THEN Fail("bad requirement")
     ELSE IF /\ spec.op # NoOp /\ ~IgnoreVersions
             /\ ~Holds(spec.op, CompareVersions(VersionIn(work.fields), spec.version))
     THEN Fail("version")
     ELSE IF Deeper /\ ~RoomFor(2) THEN Fail("too deep")
     ELSE /\ pkgs' = [q \in DOMAIN pkgs \cup {spec.name} |->
                        IF q \in DOMAIN pkgs THEN pkgs[q]
                        ELSE [requires |-> ParseSpecs(public), private |-> ParseSpecs(private),
                              fields |-> work.fields, flags |-> Top.flags]]
          /\ stack' = stack \o
               IF Deeper
               THEN <<Frame(ParseSpecs(public), Top.depth + 1, Top.flags \ {"DIRECT"}),
                      Frame(ParseSpecs(private), Top.depth + 1, {})>>
               ELSE <<>>
          /\ work' = Idle /\ status' = "walking"
          /\ UNCHANGED <<input, order>>

-----------------------------------------------------------------------------
(* What is printed for the packages on the list: appendfield(), appendarg(),*)
(* writeargs(), uconfig().                                                  *)

Passes(filter, word) ==
  CASE filter = "any" -> TRUE
    [] filter \in {"-I", "-L", "-l"} -> word[1] = filter
    [] filter = "other cflags" -> word[1] # "-I"
    [] filter = "other libs" -> word[1] \notin {"-L", "-l"}

Dedupable(word) == word[1] \in {"-D", "-I", "-L", "-l", "-f", "-m", "-pthread"}

\* A slip in appendarg: of a library, too, the first mention counts.
FirstCounts(word) == FALSE

\* Of a library the last mention counts, of other flags the first.
LastCounts(word) == word[1] = "-l"

\* Where words are printed from; system paths are not.
Kept(words, excluded) ==
  {i \in DOMAIN words :
     Dedupable(words[i]) =>
       /\ words[i] \notin excluded
       /\ LET same == {j \in DOMAIN words : words[j] = words[i]}
          IN  i = IF LastCounts(words[i]) THEN Max(same) ELSE Min(same)}

Written(words, excluded) ==
  LET kept == Kept(words, excluded) IN
  [k \in 1 .. Cardinality(kept) |->
     words[CHOOSE i \in kept : Cardinality({j \in kept : j <= i}) = k]]

FieldsOf(wanted, filter) ==
  LET add(words, p) == words \o FlattenSeq([i \in DOMAIN wanted[p] |->
                                              Field(pkgs[p].fields, wanted[p][i])])
  IN  SelectSeq(FoldLeft(add, <<>>, order), LAMBDA w : Passes(filter, w))

Cflags ==
  LET wanted == [p \in DOMAIN pkgs |->
                   IF "static" \in Options THEN <<"Cflags", "Cflags.private">> ELSE <<"Cflags">>]
  IN  Written(FieldsOf(wanted, input.cflagsFilter), input.systemDirs)

Libs ==
  LET wanted == [p \in DOMAIN pkgs |->
                   CASE "static" \in Options -> <<"Libs", "Libs.private">>
                     [] "static" \notin Options /\ "PUBLIC" \in pkgs[p].flags -> <<"Libs">>
                     [] OTHER -> <<>>]
  IN  Written(FieldsOf(wanted, input.libsFilter), input.systemDirs)

Versions ==
  LET direct == SelectSeq(order, LAMBDA p : "DIRECT" \in pkgs[p].flags)
  IN  [i \in DOMAIN direct |-> VersionIn(pkgs[direct[i]].fields)]

OverrideOp ==
  CASE "atleast-version" \in Options -> ">="
    [] "exact-version" \in Options -> "="
    [] "max-version" \in Options -> "<="
    [] OTHER -> NoOp

Report ==
  /\ status = "walking" /\ stack = <<>>
  /\ IF DOMAIN pkgs = {} THEN Fail("no package")
     ELSE IF /\ OverrideOp # NoOp
             /\ \E p \in ToSet(order) :
                  ~Holds(OverrideOp,
                         CompareVersions(VersionIn(pkgs[p].fields), input.version))
     THEN Fail("version")
     ELSE status' = "reported" /\ UNCHANGED <<input, stack, pkgs, order, work>>

-----------------------------------------------------------------------------
Init ==
  /\ input \in Inputs
  /\ stack = <<>> /\ pkgs = <<>> /\ order = <<>>
  /\ work = Idle /\ status = "start"

Walk   == Start \/ Return \/ Visit \/ Find \/ Load
Expand == Copy \/ Unescape \/ Substitute \/ FieldEnds

Next == Walk \/ Expand \/ Report

\* One process, which the system does not stop.
Spec == Init /\ [][Next]_vars /\ WF_vars(Next)

-----------------------------------------------------------------------------
\* Neither stack outgrows its array (process, expand).
TypeOK ==
  /\ IsSeq(stack) /\ Len(stack) <= Cap
  /\ \A i \in DOMAIN stack : stack[i].depth \in Nat /\ stack[i].flags \subseteq Flags
  /\ IsSeq(work.strings) /\ Len(work.strings) <= Deep
  /\ IsSeq(order) /\ ToSet(order) \subseteq DOMAIN pkgs

WalkIsOver == stack = <<>> /\ status \in {"walking", "reported"}

Names(specs) == {spec.name : spec \in ToSet(specs)}
Asked == Names(ParseSpecs(input.args))
Public(p) == Names(pkgs[p].requires)
Needed(p) == Public(p) \cup Names(pkgs[p].private)
Marked(flag) == {p \in DOMAIN pkgs : flag \in pkgs[p].flags}

\* The sets that, with a package, have what it requires.
Complete(set) == \A p \in set \cap DOMAIN pkgs : Needed(p) \subseteq set
CompletePublic(set) == \A p \in set \cap DOMAIN pkgs : Public(p) \subseteq set

\* Nothing but the stack limits the depth of the walk.
Unlimited == Recursive /\ input.maxDepth > Cap

\* The packages loaded are the fewest that have what was asked for and all that
\* is required by one of them; the public ones are the fewest that have what was
\* asked for and what these publicly require, however the walk met them first.
\* With a limited depth they may be fewer, but never more (process).
LoadedAreTheNeeded ==
  WalkIsOver =>
    /\ Marked("DIRECT") = Asked /\ Asked \subseteq Marked("PUBLIC")
    /\ Unlimited => Complete(DOMAIN pkgs) /\ CompletePublic(Marked("PUBLIC"))
    /\ \A set \in SUBSET DOMAIN pkgs : Asked \subseteq set =>
         /\ Complete(set) => set = DOMAIN pkgs
         /\ CompletePublic(set) => Marked("PUBLIC") \subseteq set

\* What is on the list when the walk is over is what was loaded, each once (the
\* assertion at the end of process); and a package is listed, and so linked,
\* before every package it requires, unless that one requires it in turn (prepend).
ListedBeforeNeeded ==
  WalkIsOver =>
    /\ ToSet(order) = DOMAIN pkgs
    /\ \A i, j \in DOMAIN order : order[i] = order[j] => i = j
    /\ Unlimited =>
         \A i, j \in DOMAIN order : order[j] \in Needed(order[i]) =>
           \/ i < j
           \/ \A set \in SUBSET DOMAIN pkgs : Complete(set) /\ order[j] \in set => order[i] \in set

=============================================================================
