--------------------------- MODULE ScriptIsolation --------------------------
(***************************************************************************)
(* Isolation experiments of `perf` (perf/scripts.py, dependency_graph.py,  *)
(* experiments.py, measure.py): which requests a page made and what        *)
(* started them, which of them an experiment blocks, and what it compares. *)
(* A request is [url, type, by, group]: type of initiator, the URL that    *)
(* started it or None, and the group of the script or None.  A URL that    *)
(* was requested twice has two requests.                                   *)
(***************************************************************************)
EXTENDS Integers, Sequences, FiniteSets, SequencesExt

CONSTANTS None, Page

\* Anything a script did not start has the page as its parent.
Parent(r) == IF r.type = "script" /\ r.by # None THEN r.by ELSE Page

BuildDependencyGraph(inventory) == {<<Parent(r), r.url>> : r \in inventory}

Children(graph, url) == {e[2] : e \in {e \in graph : e[1] = url}}

\* Mutant of Visit: children of children are left out.
VisitChildren(graph, s) ==
  LET child == CHOOSE c \in s.frontier : TRUE
  IN [visited |-> s.visited \cup {child}, frontier |-> s.frontier \ {child}]

\* One pop of the frontier: a URL that was visited is not expanded again.
Visit(graph, s) ==
  LET child == CHOOSE c \in s.frontier : TRUE
  IN IF child \in s.visited THEN [s EXCEPT !.frontier = @ \ {child}]
     ELSE [visited |-> s.visited \cup {child},
           frontier |-> (s.frontier \ {child}) \cup (Children(graph, child) \ s.visited)]

\* downstream_of: as many pops as there can be URLs.
DownstreamOf(graph, url) ==
  LET start == [visited |-> {}, frontier |-> Children(graph, url)]
      Pop(s, i) == IF s.frontier = {} THEN s ELSE Visit(graph, s)
  IN FoldLeft(Pop, start, [i \in 1 .. Cardinality(graph) |-> i]).visited

Closure(urls, graph) == urls \cup UNION {DownstreamOf(graph, u) : u \in urls}

IsolateScript(inventory, url) == Closure({url}, BuildDependencyGraph(inventory))

IsolateGroup(inventory, group) ==
  Closure({r.url : r \in {r \in inventory : r.group = group}}, BuildDependencyGraph(inventory))

IsolateAllNonEssential(inventory) ==
  Closure({r.url : r \in {r \in inventory : r.group # None}}, BuildDependencyGraph(inventory))

AvailableGroups(inventory) == {r.group : r \in inventory} \ {None}

\* The median of the values that were measured.
Median(values) ==
  LET present == SelectSeq(values, LAMBDA v : v # None)
      sorted == SortSeq(present, <)
      n == Len(sorted)
  IN CASE n = 0 -> None
       [] n % 2 = 1 -> 2 * sorted[(n + 1) \div 2]
       [] OTHER -> sorted[n \div 2] + sorted[n \div 2 + 1]   \* twice the median

\* The observed impact, or None when one side measured nothing.
Delta(before, after) ==
  IF Median(before) = None \/ Median(after) = None THEN None ELSE Median(before) - Median(after)

-----------------------------------------------------------------------------
(* Properties *)

\* Requests that still load when some URLs are blocked: those of the page, and those
\* a loaded script starts, to any depth.
Loaded(inventory, blocked) ==
  LET Grow(s, i) == s \cup {r.url : r \in {r \in inventory : Parent(r) \in s /\ r.url \notin blocked}}
  IN FoldLeft(Grow, {Page}, [i \in 1 .. Cardinality(inventory) |-> i])

\* What follows from some URLs: the least set of URLs with them that no request of a
\* member leads out of.
FollowsFrom(inventory, urls) ==
  {u \in {r.url : r \in inventory} :
     \A S \in SUBSET {r.url : r \in inventory} :
       urls \subseteq S /\ (\A r \in inventory : Parent(r) \in S => r.url \in S) => u \in S}

OneParentEach(inventory) == \A r, q \in inventory : r.url = q.url => Parent(r) = Parent(q)

\* An experiment blocks its target and what follows from it, through scripts in between
\* and scripts that load each other, and nothing else.  It blocks all that "would stop
\* loading" without the target (docstring of downstream_of), and only that, when every
\* script has one parent; a script that others load too is blocked all the same.
BlocksWhatDepends(inventory) ==
  \A url \in {r.url : r \in inventory} \ {Page} :
    LET blocked == IsolateScript(inventory, url)
        stops == Loaded(inventory, {}) \ Loaded(inventory, {url})
    IN /\ blocked = FollowsFrom(inventory, {url})
       /\ stops \subseteq blocked
       /\ OneParentEach(inventory) => blocked \cap Loaded(inventory, {}) \subseteq stops

\* Blocking every group blocks what blocking any one of them does, and no script
\* that neither has a group nor follows from one that has.
GroupsCompose(inventory) ==
  LET grouped == {r.url : r \in {r \in inventory : r.group # None}}
  IN /\ IsolateAllNonEssential(inventory) = FollowsFrom(inventory, grouped)
     /\ IsolateAllNonEssential(inventory) = UNION {IsolateGroup(inventory, g) : g \in AvailableGroups(inventory)}

\* Half of the runs that measured something lie on each side of the median, and an
\* impact is claimed only when both sides measured something.
MedianIsMiddle(values) ==
  LET present == {i \in DOMAIN values : values[i] # None}
  IN /\ Median(values) = None <=> present = {}
     /\ present # {} =>
          /\ 2 * Cardinality({i \in present : 2 * values[i] <= Median(values)}) >= Cardinality(present)
          /\ 2 * Cardinality({i \in present : 2 * values[i] >= Median(values)}) >= Cardinality(present)
     /\ \A k \in 0 .. Len(values) :
          LET delta == Delta(SubSeq(values, 1, k), SubSeq(values, k + 1, Len(values)))
          IN delta # None <=> \E i, j \in present : i <= k /\ j > k
=============================================================================
