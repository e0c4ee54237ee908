---------------------------- MODULE TopologicalSort ----------------------------
(***************************************************************************)
(* How planning/graph.ts orders the nodes of a task graph: the depth-first *)
(* search of computeTopologicalOrder, which throws a CycleError when it    *)
(* meets a node it is still visiting, and the lanes of parallelLanes,      *)
(* which the agent team works through one after the other.                 *)
(*                                                                         *)
(* The call stack of the recursive visit is the variable stack, whose      *)
(* elements are the code's inStack and stack; a step is one call that does *)
(* not return at once, or the end of one.  Rank stands for the             *)
(* lexicographic order of the ids the code sorts by.                       *)
(***************************************************************************)
EXTENDS Naturals, Sequences, FiniteSets

CONSTANTS Ids,   \* the ids a task graph node can have
          Rank   \* their place in the order of sort()

ASSUME RankAssumption ==
    /\ Rank \in [Ids -> Nat]
    /\ \A m, n \in Ids : Rank[m] = Rank[n] => m = n

VARIABLES graph,    \* the nodes, each with the set of nodes it depends on
          stack,    \* the nodes being visited, outermost first
          visited,  \* the nodes whose visit has ended
          order,    \* result: the topological order so far
          cycle,    \* the path of the CycleError, empty without one
          depth     \* the lane of the nodes placed so far

vars == <<graph, stack, visited, order, cycle, depth>>

\* The constructor is called with the graph g.
Build(g) == /\ graph = g
            /\ stack = << >>
            /\ visited = {}
            /\ order = << >>
            /\ cycle = << >>
            /\ depth = << >>

\* Any graph: the other checks of the constructor passed.
Init == \E N \in SUBSET Ids : \E g \in [N -> SUBSET N] : Build(g)

-----------------------------------------------------------------------------
\* The search.

First(n, S) == \A m \in S : Rank[n] <= Rank[m]

Unvisited == DOMAIN graph \ visited

\* The innermost node being visited.
Top == stack[Len(stack)]

\* Mutant of Todo: nodes still being visited are skipped.
TodoOffStack == graph[Top] \ (visited \cup {stack[k] : k \in 1 .. Len(stack)})

\* The dependencies it still has to visit.
Todo == graph[Top] \ visited

\* Mutant of CyclePath: the path does not come back to where it started.
OpenPath(n) == stack

\* Mutant of CyclePath: the error is swallowed.
NoPath(n) == << >>

CyclePath(n) == Append(stack, n)

\* visit(n) for a node that is not visited yet.
Visit(n) ==
    /\ IF \E k \in 1 .. Len(stack) : stack[k] = n
         THEN cycle' = CyclePath(n) /\ UNCHANGED stack
         ELSE stack' = Append(stack, n) /\ UNCHANGED cycle
    /\ UNCHANGED <<graph, visited, order, depth>>

Searching == cycle = << >> /\ Unvisited # {}

VisitRoot == /\ Searching
             /\ stack = << >>
             /\ \E n \in Unvisited : First(n, Unvisited) /\ Visit(n)

VisitDependency == /\ Searching
                   /\ stack # << >>
                   /\ \E n \in Todo : First(n, Todo) /\ Visit(n)

\* Mutant of Ended: result.unshift, which puts a node before its dependencies.
EndedFirst(n) == visited' = visited \cup {n} /\ order' = <<n>> \o order

Ended(n) == visited' = visited \cup {n} /\ order' = Append(order, n)

\* Every dependency of the innermost node was visited: its own visit ends.
EndVisit == /\ Searching
            /\ stack # << >>
            /\ Todo = {}
            /\ Ended(Top)
            /\ stack' = SubSeq(stack, 1, Len(stack) - 1)
            /\ UNCHANGED <<graph, cycle, depth>>

-----------------------------------------------------------------------------
\* The lanes.

Sorted == cycle = << >> /\ Unvisited = {}

\* Mutant of LaneBelow: a node shares the lane of its last dependency.
SharedLane(n, d) == /\ d \in {depth[m] : m \in graph[n]}
                    /\ \A m \in graph[n] : depth[m] <= d

\* d is the lane right after those of the nodes n depends on.
LaneBelow(n, d) == /\ d \in {depth[m] + 1 : m \in graph[n]}
                   /\ \A m \in graph[n] : depth[m] < d

\* The next node of the order gets its lane.
Place == /\ Sorted
         /\ \E k \in 1 .. Len(order), d \in 0 .. Len(order) :
              LET n == order[k]
              IN  /\ n \notin DOMAIN depth
                  /\ \A j \in 1 .. k - 1 : order[j] \in DOMAIN depth
                  /\ IF graph[n] = {} THEN d = 0 ELSE LaneBelow(n, d)
                  /\ depth' = [m \in DOMAIN depth \cup {n} |-> IF m = n THEN d ELSE depth[m]]
         /\ UNCHANGED <<graph, stack, visited, order, cycle>>

\* The constructor threw, or the lanes are made.
Finished == \/ cycle # << >>
            \/ Sorted /\ DOMAIN depth = DOMAIN graph

Step == VisitRoot \/ VisitDependency \/ EndVisit \/ Place

Next == Step \/ (Finished /\ UNCHANGED vars)

Spec == Init /\ [][Next]_vars

\* Synchronous code: it runs on.
FairSpec == Spec /\ WF_vars(Step)

-----------------------------------------------------------------------------
\* Properties.

Elements(s) == {s[k] : k \in 1 .. Len(s)}

TypeOK == /\ DOMAIN graph \subseteq Ids
          /\ graph \in [DOMAIN graph -> SUBSET DOMAIN graph]
          /\ stack \in Seq(DOMAIN graph)
          /\ visited \subseteq DOMAIN graph
          /\ order \in Seq(DOMAIN graph)
          /\ cycle \in Seq(DOMAIN graph)
          /\ DOMAIN depth \subseteq DOMAIN graph
          /\ \A n \in DOMAIN depth : depth[n] \in Nat

\* Whatever the order the ids sort in, a node comes after all it depends on.
DependenciesFirst ==
    \A k \in 1 .. Len(order) : graph[order[k]] \subseteq {order[j] : j \in 1 .. k - 1}

\* No node is worked on twice, and none is left out when the search is over.
EachOnce ==
    /\ \A j, k \in 1 .. Len(order) : order[j] = order[k] => j = k
    /\ Sorted => Elements(order) = DOMAIN graph

\* The path of a CycleError is a path of the graph that comes back to a node it
\* went through: no acyclic graph is rejected.
CycleIsReal ==
    cycle # << >> =>
      /\ \A k \in 1 .. Len(cycle) - 1 : cycle[k + 1] \in graph[cycle[k]]
      /\ \E k \in 1 .. Len(cycle) - 1 : cycle[k] = cycle[Len(cycle)]

\* Nodes of one lane do not depend on each other, and those a node depends on
\* are in earlier lanes: the lanes can be worked through one after the other.
LanesOrdered ==
    \A n \in DOMAIN depth : \A m \in graph[n] : m \in DOMAIN depth /\ depth[m] < depth[n]

\* Some nodes of a graph each depend on one of them: for finite graphs, the same as
\* a path that comes back to its start (MCTopologicalSort compares the two).
Cyclic(g) == \E N \in (SUBSET DOMAIN g) \ {{}} : \A n \in N : g[n] \cap N # {}

\* The search rejects the graphs that have a cycle, wherever it is and whatever
\* order the ids sort in, and no other.
RejectsExactlyCycles ==
    Sorted \/ cycle # << >> => (cycle # << >> <=> Cyclic(graph))

\* Every search ends, with an order and its lanes or with a CycleError.
SearchEnds == <>Finished
=============================================================================
