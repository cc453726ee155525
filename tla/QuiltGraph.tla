----------------------------- MODULE QuiltGraph -----------------------------
(***************************************************************************)
(* quilt graph: which applied patches depend on which.  The patches are    *)
(* numbered from 1 in the order they are applied.  An edge <<i, j>> says   *)
(* that j depends on the earlier i.                                        *)
(*                                                                         *)
(* cmd_graph links each patch with the last earlier one that conflicts     *)
(* with it in a file; with --lines a sweep over the ranges of both diffs   *)
(* decides that.  For one patch it then leaves only what is related to it, *)
(* and --reduce leaves out each edge that has an alternate path.  Loops    *)
(* over a map or a stack take their members in any order here.             *)
(***************************************************************************)
EXTENDS QuiltRanges

CONSTANTS
  Files,    \* files that patches touch
  Queries   \* the histories and options looked at

\* touches[i] are the files that patch i keeps a backup of; left and right are
\* the ranges of its diff of a file, after and before it.  selected is 0 with
\* --all.
Query ==
  {q \in [touches  : Seq(SUBSET Files), selected : Nat, lines : BOOLEAN, reduce : BOOLEAN,
          left : Seq([Files -> Seq(Nat)]), right : Seq([Files -> Seq(Nat)])] :
     /\ q.selected <= Len(q.touches)
     /\ Len(q.left) = Len(q.touches) /\ Len(q.right) = Len(q.touches)
     /\ \A i \in DOMAIN q.touches : \A f \in Files :
          IsRanges(q.left[i][f]) /\ IsRanges(q.right[i][f])}

ASSUME QueriesAreLegal == Queries \subseteq Query

VARIABLES
  query,     \* the call
  stage,     \* the loop it is in
  edges,     \* the edges so far
  node,      \* link: the patch that is looked at
  todo,      \* link: its files that are not
  at,        \* sweep: the file, the earlier patch, and the bounds passed on both sides
  pending,   \* a walk over the edges: the stack
  seen,      \* and what was taken from it
  near,      \* what is related to the selected patch
  key,       \* reduce: the edge that is looked at
  tested,    \* the edges that were
  detours    \* those that have an alternate path

linkVars   == <<node, todo>>
walkVars   == <<pending, seen>>
reduceVars == <<key, tested, detours>>
graphVars  == <<query, stage, edges, linkVars, at, walkVars, near, reduceVars>>

Nodes == DOMAIN query.touches

\* The files of a patch, those of the selected patch only.
Shown(i) ==
  IF query.selected = 0 THEN query.touches[i]
  ELSE query.touches[i] \cap query.touches[query.selected]

Before(i, f) == {k \in 1 .. i - 1 : f \in Shown(k)}
IsLast(k, set) == k \in set /\ \A l \in set : l <= k

\* What a walk meets next.
Ahead(some, n) == {m \in Nodes : <<n, m>> \in some}
Backwards(some) == {<<e[2], e[1]>> : e \in some}

NoWalk == pending = {} /\ seen = {}
Restarted(from) == pending' = {from} /\ seen' = {}

GraphAtStart ==
  /\ stage = "link"
  /\ edges = {} /\ near = {}
  /\ node = 0 /\ todo = {}
  /\ at = [file |-> "", earlier |-> 0, a |-> 0, b |-> 0]
  /\ NoWalk
  /\ key = <<0, 0>> /\ tested = {} /\ detours = {}

GraphInit == query \in Queries /\ GraphAtStart

-----------------------------------------------------------------------------
(* Linking.                                                                 *)

NextNode ==
  /\ stage = "link" /\ todo = {} /\ node < Len(query.touches)
  /\ node' = node + 1 /\ todo' = Shown(node + 1)
  /\ UNCHANGED <<query, stage, edges, at, walkVars, near, reduceVars>>

\* The file was not seen before.
FirstSeen(f) ==
  /\ stage = "link" /\ f \in todo /\ Before(node, f) = {}
  /\ todo' = todo \ {f}
  /\ UNCHANGED <<query, stage, edges, node, at, walkVars, near, reduceVars>>

\* Without --lines the last patch with the file is the dependency.
Linked(f) ==
  /\ stage = "link" /\ f \in todo /\ ~query.lines
  /\ \E k \in Nodes : IsLast(k, Before(node, f)) /\ edges' = edges \cup {<<k, node>>}
  /\ todo' = todo \ {f}
  /\ UNCHANGED <<query, stage, node, at, walkVars, near, reduceVars>>

Compare(f, k) ==
  /\ stage' = "sweep"
  /\ at' = [file |-> f, earlier |-> k, a |-> 0, b |-> 0]

CompareLast(f) ==
  /\ stage = "link" /\ f \in todo /\ query.lines
  /\ \E k \in Nodes : IsLast(k, Before(node, f)) /\ Compare(f, k)
  /\ UNCHANGED <<query, edges, linkVars, walkVars, near, reduceVars>>

\* is_conflict: a sweep over the bounds of the old side of the later diff and
\* of the new side of the earlier.
SideA == query.right[node][at.file]
SideB == query.left[at.earlier][at.file]
BoundsLeft == at.a < Len(SideA) /\ at.b < Len(SideB)

\* An odd number of bounds left means that the sweep is inside a range.
InsideA == Odd(Len(SideA) - at.a)
InsideB == Odd(Len(SideB) - at.b)

\* A slip in is_conflict: bounds that are equal are passed together.
HitApart(x, y) == \/ x < y /\ InsideB
                  \/ x > y /\ InsideA

Hit(x, y) ==
  \/ x < y /\ InsideB
  \/ x > y /\ InsideA
  \/ x = y /\ (InsideA <=> InsideB)

Pass ==
  /\ stage = "sweep" /\ BoundsLeft
  /\ LET x == SideA[at.a + 1]
         y == SideB[at.b + 1]
     IN  /\ ~Hit(x, y)
         /\ at' = [at EXCEPT !.a = IF x <= y THEN @ + 1 ELSE @,
                             !.b = IF y <= x THEN @ + 1 ELSE @]
  /\ UNCHANGED <<query, stage, edges, linkVars, walkVars, near, reduceVars>>

Conflicts ==
  /\ stage = "sweep" /\ BoundsLeft
  /\ Hit(SideA[at.a + 1], SideB[at.b + 1])
  /\ edges' = edges \cup {<<at.earlier, node>>}
  /\ stage' = "link" /\ todo' = todo \ {at.file}
  /\ UNCHANGED <<query, node, at, walkVars, near, reduceVars>>

\* No conflict with this one: the patch before it that has the file, if any.
NoConflict ==
  /\ stage = "sweep" /\ ~BoundsLeft
  /\ \/ /\ \E k \in Nodes : IsLast(k, Before(at.earlier, at.file)) /\ Compare(at.file, k)
        /\ UNCHANGED todo
     \/ /\ Before(at.earlier, at.file) = {}
        /\ stage' = "link" /\ todo' = todo \ {at.file} /\ UNCHANGED at
  /\ UNCHANGED <<query, edges, node, walkVars, near, reduceVars>>

-----------------------------------------------------------------------------
(* The walks.                                                               *)

\* Every patch is linked: the graph of one patch is cut down to what it can
\* reach, and what can reach it.
AllLinked ==
  /\ stage = "link" /\ todo = {} /\ node = Len(query.touches)
  /\ IF query.selected # 0 THEN stage' = "forward" /\ Restarted(query.selected)
     ELSE stage' = "drawing" /\ UNCHANGED walkVars
  /\ UNCHANGED <<query, edges, linkVars, at, near, reduceVars>>

\* One turn of the loop of collect_reachable and has_alternate_path.
Visited(some, n) ==
  /\ pending' = (pending \ {n}) \cup (IF n \in seen THEN {} ELSE Ahead(some, n))
  /\ seen' = seen \cup {n}

CollectForward(n) ==
  /\ stage = "forward" /\ n \in pending /\ Visited(edges, n)
  /\ UNCHANGED <<query, stage, edges, linkVars, at, near, reduceVars>>

TurnBack ==
  /\ stage = "forward" /\ pending = {}
  /\ stage' = "backward" /\ near' = seen /\ Restarted(query.selected)
  /\ UNCHANGED <<query, edges, linkVars, at, reduceVars>>

CollectBackward(n) ==
  /\ stage = "backward" /\ n \in pending /\ Visited(Backwards(edges), n)
  /\ UNCHANGED <<query, stage, edges, linkVars, at, near, reduceVars>>

CutDown ==
  /\ stage = "backward" /\ pending = {}
  /\ stage' = "drawing" /\ near' = near \cup seen
  /\ edges' = {e \in edges : {e[1], e[2]} \subseteq near'}
  /\ UNCHANGED <<query, linkVars, at, walkVars, reduceVars>>

-----------------------------------------------------------------------------
(* Drawing: --reduce looks at each edge first.                              *)

Test(e) ==
  /\ stage = "drawing" /\ query.reduce /\ e \in edges \ tested
  /\ stage' = "detour" /\ key' = e /\ Restarted(e[1])
  /\ UNCHANGED <<query, edges, linkVars, at, near, tested, detours>>

Tested == stage' = "drawing" /\ tested' = tested \cup {key}

\* A slip in has_alternate_path: the edge itself is a way, too.
WaysWithKey == edges

Ways == edges \ {key}

DetourVisit(n) ==
  /\ stage = "detour" /\ n \in pending
  /\ n \in seen \/ key[2] \notin Ahead(Ways, n)
  /\ Visited(Ways, n)
  /\ UNCHANGED <<query, stage, edges, linkVars, at, near, reduceVars>>

DetourFound(n) ==
  /\ stage = "detour" /\ n \in pending \ seen /\ key[2] \in Ahead(Ways, n)
  /\ detours' = detours \cup {key} /\ Tested
  /\ UNCHANGED <<query, edges, linkVars, at, walkVars, near, key>>

NoDetour ==
  /\ stage = "detour" /\ pending = {}
  /\ Tested
  /\ UNCHANGED <<query, edges, linkVars, at, walkVars, near, key, detours>>

KeptEdges == edges \ detours
EndsOf(some) == {e[1] : e \in some} \cup {e[2] : e \in some}
Selected == {query.selected} \ {0}

\* render_dot: the patches that are drawn.
Drawn ==
  IF query.reduce THEN EndsOf(KeptEdges) \cup Selected
  ELSE IF query.selected = 0 THEN EndsOf(edges)
  ELSE near

Draw ==
  /\ stage = "drawing" /\ (query.reduce => edges \subseteq tested)
  /\ stage' = "drawn"
  /\ UNCHANGED <<query, edges, linkVars, at, walkVars, near, reduceVars>>

GraphNext ==
  \/ NextNode \/ AllLinked
  \/ \E f \in todo : FirstSeen(f) \/ Linked(f) \/ CompareLast(f)
  \/ Pass \/ Conflicts \/ NoConflict
  \/ \E n \in pending :
       CollectForward(n) \/ CollectBackward(n) \/ DetourVisit(n) \/ DetourFound(n)
  \/ TurnBack \/ CutDown
  \/ \E e \in edges : Test(e)
  \/ NoDetour \/ Draw
  \/ stage = "drawn" /\ UNCHANGED graphVars

GraphSpec == GraphInit /\ [][GraphNext]_graphVars

-----------------------------------------------------------------------------
\* What two patches conflict in.
Conflicting(i, j, f) ==
  query.lines => Overlap(query.right[j][f], query.left[i][f])

\* j depends on the last earlier patch that conflicts with it in a file.
Depends(i, j) ==
  \E f \in Shown(j) :
    LET conflicts == {k \in 1 .. j - 1 : f \in Shown(k) /\ Conflicting(k, j, f)}
    IN  i \in conflicts /\ \A k \in conflicts : k <= i

Dependencies == {e \in Nodes \X Nodes : Depends(e[1], e[2])}

\* What can be reached from a patch: what is in every set that has the patch
\* and is closed under the edges.
Closed(some, set) == \A e \in some : e[1] \in set => e[2] \in set
Reached(some, n) ==
  {m \in Nodes : \A set \in SUBSET Nodes : n \in set /\ Closed(some, set) => m \in set}

Related(n) == n \in Reached(Dependencies, query.selected)
              \/ query.selected \in Reached(Dependencies, n)

\* The graph has an edge to each patch from the last one before that it overlaps
\* with in a file, and no other; the graph of one patch has those between the
\* patches that depend on it or that it depends on (cmd_graph, is_conflict,
\* collect_reachable).
GraphIsExact ==
  stage \in {"drawing", "detour", "drawn"} =>
    edges = {e \in Dependencies :
               query.selected = 0 \/ (Related(e[1]) /\ Related(e[2]))}

\* --reduce loses no dependency and no patch, and leaves no edge that follows
\* from others (reduce_edges, has_alternate_path).
GraphIsReduced ==
  stage = "drawn" =>
    /\ Drawn = EndsOf(edges) \cup Selected
    /\ query.reduce =>
         /\ \A n \in Nodes : Reached(KeptEdges, n) = Reached(edges, n)
         /\ \A e \in KeptEdges : e[2] \notin Reached(KeptEdges \ {e}, e[1])

=============================================================================
