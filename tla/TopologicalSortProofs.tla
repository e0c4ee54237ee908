------------------------- MODULE TopologicalSortProofs -------------------------
(***************************************************************************)
(* The search and the lanes of planning/graph.ts, for every set of ids,    *)
(* every graph over them and every order the ids sort in.                  *)
(***************************************************************************)
EXTENDS TopologicalSort, SequenceTheorems, WellFoundedInduction, TLAPS

\* The types, without what depends on them.
SearchTypes == /\ graph \in [DOMAIN graph -> SUBSET DOMAIN graph]
               /\ stack \in Seq(DOMAIN graph)
               /\ order \in Seq(DOMAIN graph)
               /\ cycle \in Seq(DOMAIN graph)
               /\ DOMAIN graph \subseteq Ids

\* The nodes being visited are a path of the graph.
StackIsPath == \A k \in 1 .. Len(stack) - 1 : stack[k + 1] \in graph[stack[k]]

\* None of them is finished and none is on the path twice.
StackOpen == /\ \A k \in 1 .. Len(stack) : stack[k] \notin visited
             /\ \A j, k \in 1 .. Len(stack) : stack[j] = stack[k] => j = k

\* The result is what was visited, each node once.
OrderIsVisited == /\ visited = Elements(order)
                  /\ \A j, k \in 1 .. Len(order) : order[j] = order[k] => j = k

\* Lanes are made of a finished order only.
PlacedWhenSorted == /\ DOMAIN depth # {} => Sorted
                    /\ DOMAIN depth \subseteq DOMAIN graph
                    /\ \A n \in DOMAIN depth : depth[n] \in Nat

\* A lane is no later than it must be: the first without dependencies, right
\* after one of them otherwise.
LanesTight == \A n \in DOMAIN depth : IF graph[n] = {} THEN depth[n] = 0
                                      ELSE \E m \in graph[n] : depth[n] = depth[m] + 1

Inv == /\ SearchTypes
       /\ StackIsPath
       /\ StackOpen
       /\ OrderIsVisited
       /\ DependenciesFirst
       /\ CycleIsReal
       /\ PlacedWhenSorted
       /\ LanesOrdered
       /\ LanesTight

\* The first state, for any graph the constructor is called with.
LEMMA InitInv == Init => Inv
<1> SUFFICES ASSUME Init PROVE Inv
  OBVIOUS
<1>1. PICK N \in SUBSET Ids : \E g \in [N -> SUBSET N] : Build(g)
  BY DEF Init
<1>2. PICK g \in [N -> SUBSET N] : Build(g)
  BY <1>1
<1>3. /\ graph = g /\ stack = << >> /\ visited = {}
      /\ order = << >> /\ cycle = << >> /\ depth = << >>
  BY <1>2 DEF Build
<1>4. SearchTypes
  BY <1>3, EmptySeq DEF SearchTypes
<1>5. Len(<< >>) = 0 /\ DOMAIN << >> = {}
  OBVIOUS
<1>6. StackIsPath /\ StackOpen /\ OrderIsVisited /\ DependenciesFirst /\ CycleIsReal
  BY <1>3, <1>5 DEF StackIsPath, StackOpen, OrderIsVisited, Elements, DependenciesFirst, CycleIsReal
<1>7. PlacedWhenSorted /\ LanesOrdered /\ LanesTight
  BY <1>3, <1>5 DEF PlacedWhenSorted, LanesOrdered, LanesTight
<1> QED
  BY <1>4, <1>6, <1>7 DEF Inv

\* A step of the search finds no lanes made yet and makes none.
LEMMA SearchMakesNoLanes ==
  ASSUME Inv, Searching, UNCHANGED <<graph, depth>>
  PROVE  PlacedWhenSorted' /\ LanesOrdered' /\ LanesTight'
<1>1. DOMAIN depth = {}
  BY DEF Inv, PlacedWhenSorted, Searching, Sorted
<1> QED
  BY <1>1 DEF PlacedWhenSorted, LanesOrdered, LanesTight

\* What a step that leaves the order alone keeps.
LEMMA OrderStays ==
  ASSUME Inv, UNCHANGED <<graph, visited, order>>
  PROVE  OrderIsVisited' /\ DependenciesFirst'
<1>1. OrderIsVisited'
  BY DEF Inv, OrderIsVisited, Elements
<1>2. DependenciesFirst'
  BY DEF Inv, DependenciesFirst
<1> QED
  BY <1>1, <1>2

\* visit(n), of a root with an empty stack or of a dependency of the innermost
\* node: it closes a real cycle or makes the path longer by one open node.
LEMMA VisitInv ==
  ASSUME Inv, Searching, NEW n \in Unvisited, Visit(n),
         stack # << >> => n \in graph[Top]
  PROVE  Inv'
<1> DEFINE L == Len(stack)
<1>0. /\ n \in DOMAIN graph /\ n \notin visited
      /\ stack \in Seq(DOMAIN graph) /\ L \in Nat
      /\ UNCHANGED <<graph, visited, order, depth>>
  BY DEF Inv, SearchTypes, Unvisited, Visit
<1>1. /\ Append(stack, n) \in Seq(DOMAIN graph)
      /\ Len(Append(stack, n)) = L + 1
      /\ \A k \in 1 .. L : Append(stack, n)[k] = stack[k]
      /\ Append(stack, n)[L + 1] = n
  BY <1>0, AppendProperties
<1>2. \A k \in 1 .. L : Append(stack, n)[k + 1] \in graph[Append(stack, n)[k]]
  <2> SUFFICES ASSUME NEW k \in 1 .. L
               PROVE  Append(stack, n)[k + 1] \in graph[Append(stack, n)[k]]
    OBVIOUS
  <2>1. CASE k = L
    <3>1. stack # << >> /\ Top = stack[L]
      BY <2>1, <1>0, EmptySeq DEF Top
    <3> QED
      BY <2>1, <3>1, <1>1
  <2>2. CASE k # L
    <3>1. k \in 1 .. L - 1 /\ k + 1 \in 1 .. L
      BY <2>2, <1>0
    <3> QED
      BY <3>1, <1>1 DEF Inv, StackIsPath
  <2> QED
    BY <2>1, <2>2
<1>3. CASE \E k \in 1 .. L : stack[k] = n
  <2>1. cycle' = Append(stack, n) /\ stack' = stack
    BY <1>3 DEF Visit, CyclePath
  <2>2. PICK k \in 1 .. L : stack[k] = n
    BY <1>3
  <2>3. CycleIsReal'
    <3> SUFFICES /\ \A j \in 1 .. Len(cycle') - 1 : cycle'[j + 1] \in graph[cycle'[j]]
                 /\ \E j \in 1 .. Len(cycle') - 1 : cycle'[j] = cycle'[Len(cycle')]
      BY <1>0 DEF CycleIsReal
    <3> HIDE DEF L
    <3>1. Len(cycle') - 1 = L /\ Len(cycle') = L + 1
      BY <1>0, <1>1, <2>1
    <3> QED
      BY <3>1, <1>1, <1>2, <2>1, <2>2
  <2>4. StackIsPath' /\ StackOpen'
    BY <1>0, <2>1 DEF Inv, StackIsPath, StackOpen
  <2>5. SearchTypes'
    BY <1>0, <1>1, <2>1 DEF Inv, SearchTypes
  <2> QED
    BY <1>0, <2>3, <2>4, <2>5, OrderStays, SearchMakesNoLanes DEF Inv
<1>4. CASE ~ \E k \in 1 .. L : stack[k] = n
  <2>1. stack' = Append(stack, n) /\ cycle' = cycle
    BY <1>4 DEF Visit
  <2>2. StackIsPath'
    <3> SUFFICES ASSUME NEW k \in 1 .. Len(stack') - 1
                 PROVE  stack'[k + 1] \in graph[stack'[k]]
      BY <1>0 DEF StackIsPath
    <3> QED
      BY <1>0, <1>1, <1>2, <2>1
  <2>3. StackOpen'
    <3> SUFFICES /\ \A k \in 1 .. L + 1 : stack'[k] \notin visited
                 /\ \A j, k \in 1 .. L + 1 : stack'[j] = stack'[k] => j = k
      BY <1>0, <1>1, <2>1 DEF StackOpen
    <3>1. \A k \in 1 .. L : stack[k] \notin visited /\ stack[k] # n
      BY <1>4 DEF Inv, StackOpen
    <3>2. \A k \in 1 .. L + 1 : k \in 1 .. L \/ k = L + 1
      BY <1>0
    <3>3. \A j, k \in 1 .. L : stack[j] = stack[k] => j = k
      BY DEF Inv, StackOpen
    <3> HIDE DEF L
    <3> QED
      BY <3>1, <3>2, <3>3, <1>0, <1>1, <2>1
  <2>4. CycleIsReal'
    BY <1>0, <2>1 DEF Inv, CycleIsReal
  <2>5. SearchTypes'
    BY <1>0, <1>1, <2>1 DEF Inv, SearchTypes
  <2> QED
    BY <1>0, <2>2, <2>3, <2>4, <2>5, OrderStays, SearchMakesNoLanes DEF Inv
<1> QED
  BY <1>3, <1>4

\* The end of a visit: the innermost node, all of whose dependencies were
\* visited, becomes the last of the order.
LEMMA EndVisitInv == ASSUME Inv, EndVisit PROVE Inv'
<1> DEFINE L == Len(stack)
           rest == SubSeq(stack, 1, L - 1)
           M == Len(order)
<1>1. /\ Searching /\ stack # << >> /\ graph[Top] \subseteq visited
      /\ visited' = visited \cup {Top} /\ order' = Append(order, Top)
      /\ stack' = rest
      /\ UNCHANGED <<graph, cycle, depth>>
  BY DEF EndVisit, Todo, Ended
<1>2. /\ stack \in Seq(DOMAIN graph) /\ L \in Nat \ {0}
      /\ order \in Seq(DOMAIN graph) /\ M \in Nat
      /\ Top = stack[L]
  BY <1>1, EmptySeq, LenProperties DEF Inv, SearchTypes, Top
<1>3. Top \in DOMAIN graph /\ Top \notin visited
  BY <1>2, ElementOfSeq DEF Inv, StackOpen
<1>4. /\ rest \in Seq(DOMAIN graph)
      /\ Len(rest) = L - 1
      /\ \A k \in 1 .. L - 1 : rest[k] = stack[k]
  <2>1. \A k \in 1 .. L - 1 : stack[k] \in DOMAIN graph
    BY <1>2, ElementOfSeq
  <2>2. /\ rest \in Seq(DOMAIN graph)
        /\ Len(rest) = IF 1 <= L - 1 THEN (L - 1) - 1 + 1 ELSE 0
        /\ \A k \in 1 .. (L - 1) - 1 + 1 : rest[k] = stack[1 + k - 1]
    BY <2>1, <1>2, SubSeqProperties
  <2>3. \A k \in 1 .. L - 1 : k \in 1 .. (L - 1) - 1 + 1 /\ 1 + k - 1 = k
    BY <1>2
  <2> HIDE DEF rest, L
  <2>4. Len(rest) = L - 1
    <3>1. L \in Nat \ {0}
      BY <1>2 DEF L
    <3>2. CASE L = 1
      BY <3>2, <2>2
    <3>3. CASE L # 1
      BY <3>1, <3>3, <2>2
    <3> QED
      BY <3>2, <3>3
  <2> QED
    BY <2>2, <2>3, <2>4
<1>5. /\ Append(order, Top) \in Seq(DOMAIN graph)
      /\ Len(order') = M + 1
      /\ \A k \in 1 .. M : order'[k] = order[k]
      /\ order'[M + 1] = Top
  BY <1>1, <1>2, <1>3, AppendProperties
<1>6. \A k \in 1 .. M + 1 : k \in 1 .. M \/ k = M + 1
  BY <1>2
<1>7. visited = Elements(order) /\ \A j, k \in 1 .. M : order[j] = order[k] => j = k
  BY DEF Inv, OrderIsVisited
<1>8. SearchTypes'
  BY <1>1, <1>4, <1>5 DEF Inv, SearchTypes
<1>9. StackIsPath' /\ StackOpen'
  <2>1. \A k \in 1 .. L - 1 : stack'[k] = stack[k] /\ k \in 1 .. L
    BY <1>1, <1>2, <1>4
  <2>2. Len(stack') = L - 1
    BY <1>1, <1>4
  <2>3. \A k \in 1 .. L - 1 : stack[k] # Top
    BY <1>2 DEF Inv, StackOpen
  <2>4. StackIsPath'
    <3> SUFFICES ASSUME NEW k \in 1 .. (L - 1) - 1
                 PROVE  stack'[k + 1] \in graph[stack'[k]]
      BY <1>1, <2>2 DEF StackIsPath
    <3>1. k \in 1 .. L - 1 /\ k + 1 \in 1 .. L - 1
      BY <1>2
    <3> QED
      BY <3>1, <2>1 DEF Inv, StackIsPath
  <2>5. StackOpen'
    BY <1>1, <2>1, <2>2, <2>3 DEF Inv, StackOpen
  <2> QED
    BY <2>4, <2>5
<1>10. OrderIsVisited'
  <2> HIDE DEF M, L
  <2>1. \A k \in 1 .. M : order[k] \in visited
    BY <1>7 DEF Elements, M
  <2>2. Elements(order)' = Elements(order) \cup {Top}
    <3>1. Elements(order)' = {order'[k] : k \in 1 .. M + 1}
      BY <1>5 DEF Elements
    <3>2. Elements(order) = {order[k] : k \in 1 .. M}
      BY DEF Elements, M
    <3>3. M + 1 \in 1 .. M + 1 /\ \A k \in 1 .. M : k \in 1 .. M + 1
      BY <1>2
    <3> QED
      BY <3>1, <3>2, <3>3, <1>5, <1>6
  <2>3. \A j, k \in 1 .. M + 1 : order'[j] = order'[k] => j = k
    BY <2>1, <1>3, <1>5, <1>6, <1>7
  <2> QED
    BY <2>2, <2>3, <1>1, <1>5, <1>7 DEF OrderIsVisited
<1>11. DependenciesFirst'
  <2> SUFFICES ASSUME NEW k \in 1 .. M + 1
               PROVE  graph[order'[k]] \subseteq {order'[j] : j \in 1 .. k - 1}
    BY <1>1, <1>5 DEF DependenciesFirst
  <2>1. CASE k = M + 1
    <3>1. visited = {order[j] : j \in 1 .. M} /\ k - 1 = M
      BY <2>1, <1>2, <1>7 DEF Elements
    <3>2. {order'[j] : j \in 1 .. M} = {order[j] : j \in 1 .. M}
      BY <1>5
    <3> QED
      BY <2>1, <3>1, <3>2, <1>1, <1>5
  <2>2. CASE k \in 1 .. M
    <3>1. graph[order[k]] \subseteq {order[j] : j \in 1 .. k - 1}
      BY <2>2 DEF Inv, DependenciesFirst
    <3>2. \A j \in 1 .. k - 1 : order'[j] = order[j]
      BY <2>2, <1>2, <1>5
    <3> QED
      BY <2>2, <3>1, <3>2, <1>5
  <2> QED
    BY <2>1, <2>2, <1>6
<1>12. CycleIsReal'
  BY <1>1 DEF Inv, CycleIsReal
<1> QED
  BY <1>1, <1>8, <1>9, <1>10, <1>11, <1>12, SearchMakesNoLanes DEF Inv

\* The next node of the order gets a lane: what it depends on comes before it in
\* the order and has one already.
LEMMA PlaceInv == ASSUME Inv, Place PROVE Inv'
<1>1. Sorted /\ UNCHANGED <<graph, stack, visited, order, cycle>>
  BY DEF Place
<1>2. PICK k \in 1 .. Len(order), d \in 0 .. Len(order) :
        /\ order[k] \notin DOMAIN depth
        /\ \A j \in 1 .. k - 1 : order[j] \in DOMAIN depth
        /\ IF graph[order[k]] = {} THEN d = 0 ELSE LaneBelow(order[k], d)
        /\ depth' = [m \in DOMAIN depth \cup {order[k]} |-> IF m = order[k] THEN d ELSE depth[m]]
  BY DEF Place
<1> DEFINE n == order[k]
<1>3. graph[n] \subseteq DOMAIN depth
  BY <1>2 DEF Inv, DependenciesFirst
<1>4. n \in DOMAIN graph /\ d \in Nat
  BY <1>2, ElementOfSeq, LenProperties DEF Inv, SearchTypes
<1>5. \A m \in graph[n] : depth[m] < d
  BY <1>2 DEF LaneBelow
<1>6. PlacedWhenSorted'
  <2>1. DOMAIN depth' = DOMAIN depth \cup {n}
    BY <1>2
  <2>2. \A m \in DOMAIN depth' : depth'[m] \in Nat
    BY <1>2, <1>4 DEF Inv, PlacedWhenSorted
  <2>3. Sorted'
    BY <1>1 DEF Sorted, Unvisited
  <2> QED
    BY <2>1, <2>2, <2>3, <1>1, <1>4 DEF Inv, PlacedWhenSorted
<1>7. LanesOrdered'
  <2> SUFFICES ASSUME NEW a \in DOMAIN depth \cup {n}, NEW m \in graph[a]
               PROVE  m \in DOMAIN depth \cup {n} /\ depth'[m] < depth'[a]
    BY <1>1, <1>2 DEF LanesOrdered
  <2>1. m \in DOMAIN depth
    BY <1>3 DEF Inv, LanesOrdered
  <2>2. depth'[m] = depth[m]
    BY <2>1, <1>2
  <2>3. CASE a = n
    BY <2>1, <2>2, <2>3, <1>2, <1>5
  <2>4. CASE a # n
    BY <2>1, <2>2, <2>4, <1>2 DEF Inv, LanesOrdered
  <2> QED
    BY <2>1, <2>3, <2>4
<1>8. SearchTypes' /\ StackIsPath' /\ StackOpen'
  BY <1>1 DEF Inv, SearchTypes, StackIsPath, StackOpen
<1>10. LanesTight'
  <2> SUFFICES ASSUME NEW a \in DOMAIN depth \cup {n}
               PROVE  IF graph[a] = {} THEN depth'[a] = 0
                      ELSE \E m \in graph[a] : depth'[a] = depth'[m] + 1
    BY <1>1, <1>2 DEF LanesTight
  <2>1. \A m \in DOMAIN depth : m # n /\ depth'[m] = depth[m]
    BY <1>2
  <2>2. depth'[n] = d
    BY <1>2
  <2>3. CASE a = n
    BY <2>1, <2>2, <2>3, <1>2, <1>3 DEF LaneBelow
  <2>4. CASE a # n
    <3>1. a \in DOMAIN depth /\ graph[a] \subseteq DOMAIN depth
      BY <2>4 DEF Inv, LanesOrdered
    <3> QED
      BY <3>1, <2>1 DEF Inv, LanesTight
  <2> QED
    BY <2>3, <2>4
<1>9. CycleIsReal'
  BY <1>1 DEF Inv, CycleIsReal
<1> QED
  BY <1>1, <1>6, <1>7, <1>8, <1>9, <1>10, OrderStays DEF Inv

LEMMA StepInv == ASSUME Inv, [Next]_vars PROVE Inv'
<1>1. CASE VisitRoot
  <2>1. PICK n \in Unvisited : Visit(n)
    BY <1>1 DEF VisitRoot
  <2> QED
    BY <1>1, <2>1, VisitInv DEF VisitRoot
<1>2. CASE VisitDependency
  <2>1. PICK n \in Todo : Visit(n)
    BY <1>2 DEF VisitDependency
  <2>2. Searching /\ stack # << >>
    BY <1>2 DEF VisitDependency
  <2>3. Top \in DOMAIN graph
    BY <2>2, EmptySeq, ElementOfSeq DEF Inv, SearchTypes, Top
  <2>4. n \in Unvisited /\ n \in graph[Top]
    BY <2>1, <2>3 DEF Inv, SearchTypes, Todo, Unvisited
  <2> QED
    BY <2>1, <2>2, <2>4, VisitInv
<1>3. CASE EndVisit
  BY <1>3, EndVisitInv
<1>4. CASE Place
  BY <1>4, PlaceInv
<1>5. CASE UNCHANGED vars
  <2>1. UNCHANGED <<graph, stack, visited, order, cycle, depth>>
    BY <1>5 DEF vars
  <2>2. SearchTypes' /\ StackIsPath' /\ StackOpen' /\ CycleIsReal'
    BY <2>1 DEF Inv, SearchTypes, StackIsPath, StackOpen, CycleIsReal
  <2>3. LanesOrdered' /\ LanesTight' /\ PlacedWhenSorted'
    BY <2>1 DEF Inv, LanesOrdered, LanesTight, PlacedWhenSorted, Sorted, Unvisited
  <2> QED
    BY <2>1, <2>2, <2>3, OrderStays DEF Inv
<1> QED
  BY <1>1, <1>2, <1>3, <1>4, <1>5 DEF Next, Step

LEMMA Invariance == Spec => []Inv
<1>1. Init => Inv
  BY InitInv
<1>2. Inv /\ [Next]_vars => Inv'
  BY StepInv
<1> QED
  BY <1>1, <1>2, PTL DEF Spec

-----------------------------------------------------------------------------
\* Theorems.

\* The maps and lists of the search hold nodes of the graph, and lanes are numbers.
THEOREM SortTypeCorrect == Spec => []TypeOK
<1>1. Inv => TypeOK
  <2> SUFFICES ASSUME Inv PROVE TypeOK
    OBVIOUS
  <2>1. visited \subseteq DOMAIN graph
    BY ElementOfSeq DEF Inv, SearchTypes, OrderIsVisited, Elements
  <2> QED
    BY <2>1 DEF Inv, SearchTypes, PlacedWhenSorted, TypeOK
<1> QED
  BY <1>1, Invariance, PTL

\* computeTopologicalOrder puts every node after all it depends on.
THEOREM OrderIsTopological == Spec => []DependenciesFirst
<1>1. Inv => DependenciesFirst
  BY DEF Inv
<1> QED
  BY <1>1, Invariance, PTL

\* Its result holds no node twice, and at the end every node.
THEOREM OrderIsComplete == Spec => []EachOnce
<1>1. Inv => EachOnce
  <2> SUFFICES ASSUME Inv PROVE EachOnce
    OBVIOUS
  <2>1. visited \subseteq DOMAIN graph
    BY ElementOfSeq DEF Inv, SearchTypes, OrderIsVisited, Elements
  <2>2. Sorted => Elements(order) = DOMAIN graph
    BY <2>1 DEF Inv, OrderIsVisited, Sorted, Unvisited
  <2> QED
    BY <2>2 DEF Inv, OrderIsVisited, EachOnce
<1> QED
  BY <1>1, Invariance, PTL

\* A CycleError names a cycle the graph has.
THEOREM CycleErrorIsTrue == Spec => []CycleIsReal
<1>1. Inv => CycleIsReal
  BY DEF Inv
<1> QED
  BY <1>1, Invariance, PTL

\* A set of natural numbers has a smallest one.
LEMMA Smallest ==
    ASSUME NEW T \in SUBSET Nat, T # {}
    PROVE  \E m \in T : \A n \in T : m <= n
<1> DEFINE less == {p \in Nat \X Nat : p[1] < p[2]}
<1>1. IsWellFoundedOn(less, Nat)
  BY NatLessThanWellFounded DEF OpToRel
<1>2. \A m, n \in T : n < m => <<n, m>> \in less
  OBVIOUS
<1> HIDE DEF less
<1>3. PICK m \in T : \A n \in T : <<n, m>> \notin less
  BY <1>1, WFMin
<1>4. \A n \in T : ~(n < m)
  BY <1>2, <1>3
<1> QED
  BY <1>4

\* Of some nodes of a graph in order, the first depends on none of them.
LEMMA SortedIsAcyclic == ASSUME Inv, Sorted PROVE ~Cyclic(graph)
<1> SUFFICES ASSUME NEW N \in (SUBSET DOMAIN graph) \ {{}}, \A n \in N : graph[n] \cap N # {}
             PROVE  FALSE
  BY DEF Cyclic
<1> DEFINE places == {k \in 1 .. Len(order) : order[k] \in N}
<1>1. \A n \in N : \E k \in places : order[k] = n
  BY DEF Inv, OrderIsVisited, Elements, Sorted, Unvisited
<1>2. places \in SUBSET Nat /\ places # {}
  BY <1>1
<1>3. PICK k \in places : \A j \in places : k <= j
  BY <1>2, Smallest
<1>4. PICK m \in graph[order[k]] : m \in N
  BY <1>3
<1>5. PICK j \in 1 .. k - 1 : order[j] = m
  BY <1>3, <1>4 DEF Inv, DependenciesFirst
<1>6. Len(order) \in Nat
  BY LenProperties DEF Inv, SearchTypes
<1>7. j \in places /\ j < k
  BY <1>3, <1>4, <1>5, <1>6
<1> QED
  BY <1>2, <1>3, <1>7

\* Each node of the path back to itself depends on the next.
LEMMA CyclePathIsCyclic == ASSUME Inv, cycle # << >> PROVE Cyclic(graph)
<1> DEFINE L == Len(cycle)
<1>1. /\ \A k \in 1 .. L - 1 : cycle[k + 1] \in graph[cycle[k]]
      /\ \E k \in 1 .. L - 1 : cycle[k] = cycle[L]
      /\ cycle \in Seq(DOMAIN graph) /\ L \in Nat
  BY LenProperties DEF Inv, CycleIsReal, SearchTypes
<1>2. \A k \in 1 .. L : cycle[k] \in DOMAIN graph
  BY <1>1, ElementOfSeq
<1> HIDE DEF L
<1>3. PICK i \in 1 .. L - 1 : cycle[i] = cycle[L]
  BY <1>1
<1> DEFINE N == {cycle[k] : k \in i .. L - 1}
<1>4. N \in (SUBSET DOMAIN graph) \ {{}}
  <2>1. \A k \in i .. L - 1 : k \in 1 .. L
    BY <1>1, <1>3
  <2>2. i \in i .. L - 1
    BY <1>1, <1>3
  <2> QED
    BY <1>2, <2>1, <2>2
<1>5. ASSUME NEW k \in i .. L - 1 PROVE cycle[k + 1] \in N
  <2>1. CASE k = L - 1
    <3>1. cycle[k + 1] = cycle[i] /\ i \in i .. L - 1
      BY <1>1, <1>3, <2>1
    <3> QED
      BY <3>1
  <2>2. CASE k # L - 1
    <3>1. k + 1 \in i .. L - 1
      BY <1>1, <1>3, <2>2
    <3> QED
      BY <3>1
  <2> QED
    BY <2>1, <2>2
<1>6. \A k \in i .. L - 1 : cycle[k + 1] \in graph[cycle[k]]
  BY <1>1, <1>3
<1>7. \A n \in N : graph[n] \cap N # {}
  BY <1>5, <1>6
<1> QED
  BY <1>4, <1>7 DEF Cyclic

\* computeTopologicalOrder throws for every graph with a cycle, and for no other.
THEOREM CyclesAreRejected == Spec => []RejectsExactlyCycles
<1>1. Inv => RejectsExactlyCycles
  BY SortedIsAcyclic, CyclePathIsCyclic DEF RejectsExactlyCycles, Sorted
<1> QED
  BY <1>1, Invariance, PTL

\* parallelLanes puts what a node depends on in earlier lanes.
THEOREM LanesRespectDependencies == Spec => []LanesOrdered
<1>1. Inv => LanesOrdered
  BY DEF Inv
<1> QED
  BY <1>1, Invariance, PTL

\* It puts no node later than it must: lanes follow each other without a gap.
THEOREM LanesAreEarliest == Spec => []LanesTight
<1>1. Inv => LanesTight
  BY DEF Inv
<1> QED
  BY <1>1, Invariance, PTL
=============================================================================
