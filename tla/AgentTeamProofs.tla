---------------------------- MODULE AgentTeamProofs ----------------------------
(***************************************************************************)
(* The agent team's first pass, for every plan, every set of files and     *)
(* whatever the agents answer.  What the graph's search guarantees comes   *)
(* from TopologicalSortProofs, whose invariant holds of the search inside  *)
(* the pass (SearchHolds).                                                 *)
(***************************************************************************)
EXTENDS AgentTeam, FiniteSetTheorems, SequenceTheorems, TLAPS

Search == INSTANCE TopologicalSortProofs WITH Ids <- NodeIds, Rank <- NodeRank

-----------------------------------------------------------------------------
\* The nodes of a plan and what they depend on.

ImplOf(f) == [kind |-> "impl", file |-> f]
TestOf(f) == [kind |-> "test", file |-> f]
DeleteOf(f) == [kind |-> "delete", file |-> f]

LEMMA NodesOfPlan ==
    ASSUME NEW p
    PROVE  /\ \A f \in Sources(p) : ImplOf(f) \in Nodes(p)
           /\ \A f \in PlannedTests(p) : TestOf(f) \in Nodes(p)
           /\ \A k \in 1 .. Len(p.delete) : DeleteOf(p.delete[k]) \in Nodes(p)
           /\ \A n \in Nodes(p) :
                 \/ \E f \in Sources(p) : n = ImplOf(f)
                 \/ \E f \in PlannedTests(p) : n = TestOf(f)
                 \/ \E k \in 1 .. Len(p.delete) : n = DeleteOf(p.delete[k])
                 \/ n = [kind |-> "noop"]
<1> DEFINE deletes == [kind : {"delete"}, file : {p.delete[k] : k \in 1 .. Len(p.delete)}]
           impls == [kind : {"impl"}, file : Sources(p)]
           tests == [kind : {"test"}, file : PlannedTests(p)]
<1>1. \A n : n \in deletes <=> \E k \in 1 .. Len(p.delete) : n = DeleteOf(p.delete[k])
  BY DEF DeleteOf
<1>2. \A n : n \in impls <=> \E f \in Sources(p) : n = ImplOf(f)
  BY DEF ImplOf
<1>3. \A n : n \in tests <=> \E f \in PlannedTests(p) : n = TestOf(f)
  BY DEF TestOf
<1>4. Nodes(p) = IF deletes \cup impls \cup tests = {} THEN {[kind |-> "noop"]}
                 ELSE deletes \cup impls \cup tests
  BY DEF Nodes
<1> HIDE DEF deletes, impls, tests
<1> QED
  BY <1>1, <1>2, <1>3, <1>4

LEMMA KindsApart ==
    ASSUME NEW f, NEW g
    PROVE  /\ ImplOf(f).kind = "impl" /\ TestOf(f).kind = "test" /\ DeleteOf(f).kind = "delete"
           /\ ImplOf(f).file = f /\ TestOf(f).file = f /\ DeleteOf(f).file = f
           /\ [kind |-> "noop"].kind = "noop"
  BY DEF ImplOf, TestOf, DeleteOf

\* The pass works on the graph of its plan.
GraphInv == plan \in Plan /\ graph \in TaskGraphs(plan)

\* A test with a source of its base name depends on one node, which has no
\* dependencies of its own; no other node depends on anything.
LEMMA GraphShape ==
    ASSUME GraphInv
    PROVE  /\ DOMAIN graph = Nodes(plan)
           /\ \A n \in DOMAIN graph : graph[n] # {} =>
                 n.kind = "test" /\ \E s \in Sources(plan) : graph[n] = {ImplOf(s)}
           /\ \A s \in Sources(plan) : ImplOf(s) \in DOMAIN graph /\ graph[ImplOf(s)] = {}
           /\ \A n \in DOMAIN graph : n.kind = "test" =>
                 \A s \in Sources(plan) : s.base = n.file.base => graph[n] # {}
<1>1. /\ graph \in [Nodes(plan) -> {{}} \cup {{ImplOf(f)} : f \in Sources(plan)}]
      /\ Dependencies(plan, graph)
  BY DEF GraphInv, TaskGraphs, ImplOf
<1>2. DOMAIN graph = Nodes(plan)
  BY <1>1
<1>3. \A n \in DOMAIN graph : n.kind # "test" => graph[n] = {}
  BY <1>1 DEF Dependencies
<1>4. ASSUME NEW n \in DOMAIN graph, graph[n] # {}
      PROVE  n.kind = "test" /\ \E s \in Sources(plan) : graph[n] = {ImplOf(s)}
  BY <1>1, <1>2, <1>3, <1>4
<1>5. ASSUME NEW s \in Sources(plan)
      PROVE  ImplOf(s) \in DOMAIN graph /\ graph[ImplOf(s)] = {}
  BY <1>2, <1>3, NodesOfPlan, KindsApart
<1>6. ASSUME NEW n \in DOMAIN graph, n.kind = "test",
             NEW s \in Sources(plan), s.base = n.file.base
      PROVE  graph[n] # {}
  <2>1. Matches(plan, n.file) # {}
    BY <1>6 DEF Matches
  <2> QED
    BY <1>1, <1>6, <2>1 DEF Dependencies
<1> QED
  BY <1>2, <1>4, <1>5, <1>6

-----------------------------------------------------------------------------
\* The search inside the pass.

\* What the pass calls its search is what the proofs about the search are of.
LEMMA SameSearch ==
    /\ Sort!Step => Search!Step
    /\ \A g : Sort!Build(g) => Search!Build(g)
    /\ Sort!Finished <=> Search!Finished
<1>1. Sort!Searching <=> Search!Searching
  BY DEF Sort!Searching, Search!Searching, Sort!Unvisited, Search!Unvisited
<1>2. ASSUME NEW n PROVE Sort!Visit(n) => Search!Visit(n)
  BY DEF Sort!Visit, Search!Visit, Sort!CyclePath, Search!CyclePath
<1>3. Sort!VisitRoot => Search!VisitRoot
  BY <1>1, <1>2
  DEF Sort!VisitRoot, Search!VisitRoot, Sort!First, Search!First, Sort!Unvisited, Search!Unvisited
<1>4. Sort!VisitDependency => Search!VisitDependency
  BY <1>1, <1>2
  DEF Sort!VisitDependency, Search!VisitDependency, Sort!First, Search!First,
      Sort!Todo, Search!Todo, Sort!Top, Search!Top
<1>5. Sort!EndVisit => Search!EndVisit
  BY <1>1
  DEF Sort!EndVisit, Search!EndVisit, Sort!Todo, Search!Todo, Sort!Top, Search!Top,
      Sort!Ended, Search!Ended
<1>6. Sort!Sorted <=> Search!Sorted
  BY DEF Sort!Sorted, Search!Sorted, Sort!Unvisited, Search!Unvisited
<1>7. Sort!Place => Search!Place
  BY <1>6 DEF Sort!Place, Search!Place, Sort!LaneBelow, Search!LaneBelow
<1>8. \A g : Sort!Build(g) => Search!Build(g)
  BY DEF Sort!Build, Search!Build
<1>9. Sort!Finished <=> Search!Finished
  BY <1>6 DEF Sort!Finished, Search!Finished
<1> QED
  BY <1>3, <1>4, <1>5, <1>7, <1>8, <1>9 DEF Sort!Step, Search!Step

\* The search is over and every node has its lane.
Placed == cycle = << >> /\ Search!Finished

\* Lanes 0 and 1 are all there are: the sources and what has no source in the
\* first, the tests of a source in the second.
LEMMA LanesOfPlan ==
    ASSUME Search!Inv, GraphInv, Placed
    PROVE  /\ order \in Seq(DOMAIN graph)
           /\ \A j, k \in 1 .. Len(order) : order[j] = order[k] => j = k
           /\ \A n \in DOMAIN graph : \E k \in 1 .. Len(order) : order[k] = n
           /\ \A n \in DOMAIN graph : depth[n] = IF graph[n] = {} THEN 0 ELSE 1
<1>1. /\ order \in Seq(DOMAIN graph)
      /\ \A j, k \in 1 .. Len(order) : order[j] = order[k] => j = k
  BY DEF Search!Inv, Search!SearchTypes, Search!OrderIsVisited
<1>2. \A n \in DOMAIN graph : \E k \in 1 .. Len(order) : order[k] = n
  BY DEF Search!Inv, Search!OrderIsVisited, Search!Elements, Placed, Search!Finished,
         Search!Sorted, Search!Unvisited
<1>3. DOMAIN depth = DOMAIN graph
  BY DEF Placed, Search!Finished
<1>4. \A n \in DOMAIN graph : IF graph[n] = {} THEN depth[n] = 0
                              ELSE \E m \in graph[n] : depth[n] = depth[m] + 1
  BY <1>3 DEF Search!Inv, Search!LanesTight
<1>5. ASSUME NEW n \in DOMAIN graph, graph[n] # {} PROVE depth[n] = 1
  <2>1. PICK s \in Sources(plan) : graph[n] = {ImplOf(s)}
    BY <1>5, GraphShape
  <2>2. depth[ImplOf(s)] = 0
    BY <1>4, GraphShape
  <2> QED
    BY <1>4, <1>5, <2>1, <2>2
<1> QED
  BY <1>1, <1>2, <1>4, <1>5

-----------------------------------------------------------------------------
\* Through the lanes.

\* The places of the order that were worked on: the lanes before this one, and of
\* this one those before the position, or all once the lane is done.
Past(k) == \/ depth[order[k]] < lane
           \/ depth[order[k]] = lane /\ (pc = "Node" => k < position)

\* Where the pass is.
PlaceInv == /\ lane \in Nat /\ position \in Nat
            /\ pc \in {"Sort", "Node", "Verify"} \cup Ends
            /\ pc \in {"Node", "Verify", "Done"} => Placed
            /\ pc = "Node" => position \in Lane(lane)
            /\ pc = "Done" => Lane(lane + 1) = {}

\* What was worked on is what the places passed hold, each once.
RanInv == /\ ran \in Seq(DOMAIN graph)
          /\ pc \in {"Sort", "Stuck"} => ran = << >> /\ lane = 0
          /\ pc \in {"Node", "Verify", "Done"} =>
                /\ \A j, k \in 1 .. Len(ran) : ran[j] = ran[k] => j = k
                /\ \A k \in 1 .. Len(order) :
                      Past(k) <=> \E j \in 1 .. Len(ran) : ran[j] = order[k]

Inv == GraphInv /\ Search!Inv /\ PlaceInv /\ RanInv /\ SourcesBeforeTests

\* Every place with a node has its lane as a number.
LEMMA DepthType ==
    ASSUME Search!Inv, GraphInv, Placed, NEW k \in 1 .. Len(order)
    PROVE  order[k] \in DOMAIN graph /\ depth[order[k]] \in {0, 1}
<1>1. order[k] \in DOMAIN graph
  BY LanesOfPlan, ElementOfSeq
<1> QED
  BY <1>1, LanesOfPlan

LEMMA LaneElements ==
    ASSUME NEW l, NEW k
    PROVE  k \in Lane(l) <=> k \in 1 .. Len(order) /\ depth[order[k]] = l
  BY DEF Lane

\* The next lane begins, or the pass is done: the places passed are those of the
\* lanes up to this one.
LEMMA NextLanePasses ==
    ASSUME Search!Inv, GraphInv, Placed, lane \in Nat, position \in Nat,
           NextLane, UNCHANGED <<order, depth>>
    PROVE  /\ lane' \in Nat /\ position' \in Nat /\ pc' \in {"Node", "Done"}
           /\ pc' = "Node" => position' \in Lane(lane')
           /\ pc' = "Done" => Lane(lane' + 1) = {}
           /\ \A k \in 1 .. Len(order) : Past(k)' <=> depth[order[k]] <= lane
<1>1. CASE Lane(lane + 1) # {}
  <2>1. lane' = lane + 1 /\ pc' = "Node"
    BY <1>1 DEF NextLane
  <2>2. position' \in Lane(lane + 1) /\ \A j \in Lane(lane + 1) : position' <= j
    BY <1>1 DEF NextLane, GoTo
  <2>3. position' \in Nat
    BY <2>2 DEF Lane
  <2>4. ASSUME NEW k \in 1 .. Len(order) PROVE Past(k)' <=> depth[order[k]] <= lane
    <3>1. depth[order[k]] \in Int
      BY DepthType
    <3>2. depth[order[k]] = lane + 1 => position' <= k
      BY <2>2, LaneElements
    <3>3. Past(k)' <=> \/ depth[order[k]] < lane + 1
                       \/ depth[order[k]] = lane + 1 /\ k < position'
      BY <2>1 DEF Past
    <3> QED
      BY <2>3, <3>1, <3>2, <3>3
  <2> QED
    BY <2>1, <2>2, <2>3, <2>4
<1>2. CASE Lane(lane + 1) = {}
  <2>1. lane' = lane /\ position' = position /\ pc' = "Done"
    BY <1>2 DEF NextLane
  <2>2. ASSUME NEW k \in 1 .. Len(order) PROVE Past(k)' <=> depth[order[k]] <= lane
    <3>1. depth[order[k]] \in Int
      BY DepthType
    <3> QED
      BY <2>1, <3>1 DEF Past
  <2> QED
    BY <1>2, <2>1, <2>2
<1> QED
  BY <1>1, <1>2

\* After a node its place is passed, and no other.
LEMMA NextNodePasses ==
    ASSUME Search!Inv, GraphInv, PlaceInv, pc = "Node", NextNode, UNCHANGED <<order, depth>>
    PROVE  /\ lane' \in Nat /\ position' \in Nat /\ pc' \in {"Node", "Verify", "Done"}
           /\ pc' = "Node" => position' \in Lane(lane')
           /\ pc' = "Done" => Lane(lane' + 1) = {}
           /\ \A k \in 1 .. Len(order) : Past(k)' <=> Past(k) \/ k = position
<1> DEFINE rest == {k \in Lane(lane) : k > position}
<1>1. Placed /\ lane \in Nat /\ position \in Nat
      /\ position \in 1 .. Len(order) /\ depth[order[position]] = lane
  BY LaneElements DEF PlaceInv
<1>2. \A k : k \in rest <=> k \in 1 .. Len(order) /\ depth[order[k]] = lane /\ k > position
  BY LaneElements
<1>3. \A k \in 1 .. Len(order) : Past(k) <=> \/ depth[order[k]] < lane
                                             \/ depth[order[k]] = lane /\ k < position
  BY DEF Past
<1>4. \A k \in 1 .. Len(order) : depth[order[k]] \in Int
  BY <1>1, DepthType
<1>5. CASE rest # {}
  <2>1. lane' = lane /\ pc' = "Node" /\ position' \in rest /\ \A j \in rest : position' <= j
    BY <1>5 DEF NextNode, GoTo
  <2> HIDE DEF rest
  <2>2. position' \in Nat /\ position' > position /\ position' \in Lane(lane)
    BY <1>2, <2>1, LaneElements
  <2>3. ASSUME NEW k \in 1 .. Len(order) PROVE Past(k)' <=> Past(k) \/ k = position
    <3>1. Past(k)' <=> \/ depth[order[k]] < lane
                       \/ depth[order[k]] = lane /\ k < position'
      BY <2>1 DEF Past
    <3>2. depth[order[k]] = lane => (k < position' <=> k <= position)
      BY <1>1, <1>2, <2>1, <2>2
    <3> QED
      BY <1>1, <1>3, <1>4, <3>1, <3>2
  <2> QED
    BY <1>1, <2>1, <2>2, <2>3
<1>6. ASSUME rest = {}, NEW k \in 1 .. Len(order)
      PROVE  depth[order[k]] <= lane <=> Past(k) \/ k = position
  <2> HIDE DEF rest
  <2>1. ~(depth[order[k]] = lane /\ k > position)
    BY <1>2, <1>6
  <2> QED
    BY <1>1, <1>3, <1>4, <2>1
<1>7. CASE rest = {} /\ ContinuousVerification
  <2>1. lane' = lane /\ position' = position /\ pc' = "Verify"
    BY <1>7 DEF NextNode
  <2>2. ASSUME NEW k \in 1 .. Len(order) PROVE Past(k)' <=> depth[order[k]] <= lane
    BY <1>1, <1>4, <2>1 DEF Past
  <2> QED
    BY <1>1, <1>6, <1>7, <2>1, <2>2
<1>8. CASE rest = {} /\ ~ContinuousVerification
  <2>1. NextLane
    BY <1>8 DEF NextNode
  <2> HIDE DEF rest
  <2> QED
    BY <1>1, <1>6, <1>8, <2>1, NextLanePasses
<1> QED
  BY <1>5, <1>7, <1>8

-----------------------------------------------------------------------------
\* The steps of the pass.

LEMMA SearchStays == ASSUME Search!Inv, UNCHANGED sort PROVE Search!Inv'
<1>1. UNCHANGED Search!vars
  BY DEF sort, Search!vars
<1> QED
  BY <1>1, NodeRankAssumption, Search!StepInv DEF NodeRankAssumption

LEMMA SearchHolds == ASSUME Search!Inv, Sort!Step PROVE Search!Inv'
<1>1. Search!Next
  BY SameSearch DEF Search!Next
<1> QED
  BY <1>1, NodeRankAssumption, Search!StepInv DEF NodeRankAssumption

LEMMA PlacedStays == ASSUME Placed, UNCHANGED sort PROVE Placed'
  BY DEF Placed, sort, Search!Finished, Search!Sorted, Search!Unvisited

LEMMA GraphStays == ASSUME GraphInv, UNCHANGED <<plan, graph>> PROVE GraphInv'
  BY DEF GraphInv

\* No step of the search changes what the graph is.
LEMMA StepKeepsGraph == ASSUME Sort!Step PROVE graph' = graph
  BY DEF Sort!Step, Sort!VisitRoot, Sort!VisitDependency, Sort!EndVisit, Sort!Place, Sort!Visit

LEMMA InitInv == ASSUME Init PROVE Inv
<1>1. PICK create \in SUBSET Files, modify \in SUBSET Files, tests \in SUBSET Files,
           delete \in Deletions :
        plan = [create |-> create, modify |-> modify, tests |-> tests, delete |-> delete]
  BY DEF Init
<1>2. plan \in Plan
  BY <1>1 DEF Plan
<1>3. PICK g \in TaskGraphs(plan) : Sort!Build(g)
  BY DEF Init
<1>4. Search!Build(g) /\ graph = g
  BY <1>3, SameSearch DEF Sort!Build
<1>5. GraphInv
  BY <1>2, <1>3, <1>4 DEF GraphInv
<1>6. Nodes(plan) \subseteq NodeIds
  <2>1. \A k \in 1 .. Len(delete) : delete[k] \in Files
    <3>1. PICK n \in 0 .. 2 : delete \in [1 .. n -> Files]
      BY DEF Deletions
    <3>2. delete \in Seq(Files) /\ Len(delete) = n
      BY <3>1, SeqDef, LenProperties
    <3> QED
      BY <3>2, ElementOfSeq
  <2>2. Sources(plan) \subseteq Files /\ PlannedTests(plan) \subseteq Files
    BY <1>1 DEF Sources, PlannedTests
  <2>3. \A f \in Files : ImplOf(f) \in NodeIds /\ TestOf(f) \in NodeIds /\ DeleteOf(f) \in NodeIds
    BY DEF NodeIds, ImplOf, TestOf, DeleteOf
  <2>4. plan.delete = delete /\ [kind |-> "noop"] \in NodeIds
    BY <1>1 DEF NodeIds
  <2> QED
    BY <2>1, <2>2, <2>3, <2>4, NodesOfPlan
<1>7. Search!Init
  <2>1. DOMAIN g = Nodes(plan) /\ g \in [DOMAIN g -> SUBSET (DOMAIN g)]
    <3>1. DOMAIN g = Nodes(plan)
      BY <1>3 DEF TaskGraphs
    <3>2. \A n \in DOMAIN g : g[n] = {} \/ \E f \in Sources(plan) : g[n] = {ImplOf(f)}
      BY <1>4, <1>5, GraphShape
    <3>3. \A f \in Sources(plan) : ImplOf(f) \in DOMAIN g
      BY <3>1, NodesOfPlan
    <3>4. g = [n \in DOMAIN g |-> g[n]]
      BY <1>3 DEF TaskGraphs
    <3> QED
      BY <3>1, <3>2, <3>3, <3>4
  <2>2. DOMAIN g \in SUBSET NodeIds
    BY <1>6, <2>1
  <2> QED
    BY <1>4, <2>1, <2>2 DEF Search!Init
<1>8. Search!Inv
  BY <1>7, NodeRankAssumption, Search!InitInv DEF NodeRankAssumption
<1>9. /\ pc \in {"Sort", "Stuck"} /\ lane = 0 /\ position = 0 /\ ran = << >>
  BY DEF Init
<1>10. PlaceInv /\ RanInv
  BY <1>9, EmptySeq DEF PlaceInv, RanInv, Ends
<1>11. SourcesBeforeTests
  BY <1>9, EmptySeq DEF SourcesBeforeTests
<1> QED
  BY <1>5, <1>8, <1>10, <1>11 DEF Inv

\* The search goes on, or the first lane begins: nothing was worked on yet.
LEMMA SortStep == ASSUME Inv, SortNodes PROVE Inv'
<1>1. /\ pc = "Sort" /\ ran = << >> /\ lane = 0 /\ position \in Nat
      /\ ran' = ran /\ lane' = lane /\ plan' = plan
  BY DEF SortNodes, Inv, RanInv, PlaceInv
<1>2. SourcesBeforeTests'
  BY <1>1, EmptySeq DEF SourcesBeforeTests
<1>3. CASE ~Sort!Finished
  <2>1. Sort!Step /\ pc' = pc /\ position' = position
    BY <1>3 DEF SortNodes
  <2>2. graph' = graph
    BY <2>1, StepKeepsGraph
  <2>3. Search!Inv' /\ GraphInv'
    BY <1>1, <2>1, <2>2, SearchHolds, GraphStays DEF Inv
  <2>4. PlaceInv' /\ RanInv'
    BY <1>1, <2>1, EmptySeq DEF PlaceInv, RanInv, Ends
  <2> QED
    BY <1>2, <2>3, <2>4 DEF Inv
<1>4. CASE Sort!Finished
  <2>1. /\ UNCHANGED sort
        /\ \/ cycle = << >> /\ pc' = "Node" /\ GoTo(Lane(0))
           \/ pc' = "Stuck" /\ position' = position
    BY <1>4 DEF SortNodes
  <2>2. UNCHANGED <<graph, order, depth>>
    BY <2>1 DEF sort
  <2>3. Search!Inv' /\ GraphInv'
    BY <1>1, <2>1, <2>2, SearchStays, GraphStays DEF Inv
  <2>4. CASE pc' = "Stuck" /\ position' = position
    <3>1. PlaceInv' /\ RanInv'
      BY <1>1, <2>4, EmptySeq DEF PlaceInv, RanInv, Ends
    <3> QED
      BY <1>2, <2>3, <3>1 DEF Inv
  <2>5. CASE cycle = << >> /\ pc' = "Node" /\ GoTo(Lane(0))
    <3>1. Placed /\ Placed'
      BY <1>4, <2>1, <2>5, SameSearch, PlacedStays DEF Placed
    <3>2. position' \in Lane(0) /\ \A k \in Lane(0) : position' <= k
      BY <2>5 DEF GoTo
    <3>3. position' \in Nat /\ Lane(0)' = Lane(0)
      BY <2>2, <3>2 DEF Lane
    <3>4. PlaceInv'
      <4>1. position' \in Lane(lane)'
        BY <1>1, <2>2, <3>2 DEF Lane
      <4>2. lane' \in Nat /\ pc' \in {"Sort", "Node", "Verify"} \cup Ends
        BY <1>1, <2>5
      <4> QED
        BY <2>5, <3>1, <3>3, <4>1, <4>2 DEF PlaceInv, Ends
    <3>5. \A k \in 1 .. Len(order) : ~Past(k)'
      <4> SUFFICES ASSUME NEW k \in 1 .. Len(order) PROVE ~Past(k)'
        OBVIOUS
      <4>1. depth[order[k]] \in {0, 1}
        BY <3>1, DepthType DEF Inv
      <4>2. depth[order[k]] = 0 => position' <= k
        BY <3>2, LaneElements
      <4> QED
        BY <1>1, <2>2, <2>5, <3>3, <4>1, <4>2 DEF Past
    <3>6. RanInv'
      BY <1>1, <2>2, <2>5, <3>5, EmptySeq DEF RanInv
    <3> QED
      BY <1>2, <2>3, <3>4, <3>6 DEF Inv
  <2> QED
    BY <2>1, <2>4, <2>5
<1> QED
  BY <1>3, <1>4

\* One more node was worked on, the one at the position: it is new, and a test
\* comes after the sources of its base name, which are all in the first lane.
LEMMA NodeStep ==
    ASSUME Inv, pc = "Node", ran' = Append(ran, order[position]), NextNode,
           UNCHANGED <<plan, sort>>
    PROVE  Inv'
<1> DEFINE node == order[position]
           L == Len(ran)
<1>1. /\ Placed /\ position \in 1 .. Len(order) /\ depth[node] = lane /\ lane \in Nat
      /\ Search!Inv /\ GraphInv /\ PlaceInv /\ RanInv
  BY LaneElements DEF Inv, PlaceInv
<1>2. node \in DOMAIN graph
  BY <1>1, DepthType
<1>3. UNCHANGED <<graph, order, depth>>
  BY DEF sort
<1>4. Search!Inv' /\ GraphInv' /\ Placed'
  BY <1>1, <1>3, SearchStays, GraphStays, PlacedStays
<1>5. /\ lane' \in Nat /\ position' \in Nat /\ pc' \in {"Node", "Verify", "Done"}
      /\ pc' = "Node" => position' \in Lane(lane')
      /\ pc' = "Done" => Lane(lane' + 1) = {}
      /\ \A k \in 1 .. Len(order) : Past(k)' <=> Past(k) \/ k = position
  BY <1>1, <1>3, NextNodePasses
<1>6. PlaceInv'
  BY <1>3, <1>4, <1>5 DEF PlaceInv, Lane, Ends
<1>7. /\ ran \in Seq(DOMAIN graph) /\ L \in Nat
      /\ ran' \in Seq(DOMAIN graph) /\ Len(ran') = L + 1
      /\ \A j \in 1 .. L : ran'[j] = ran[j]
      /\ ran'[L + 1] = node
  <2>1. ran \in Seq(DOMAIN graph) /\ L \in Nat
    BY <1>1, LenProperties DEF RanInv
  <2> QED
    BY <1>2, <2>1, AppendProperties
<1>8. \A k \in 1 .. Len(order) : Past(k) <=> \E j \in 1 .. L : ran[j] = order[k]
  BY <1>1 DEF RanInv
<1>9. ~Past(position)
  BY <1>1 DEF Past
<1>10. \A j, k \in 1 .. L : ran[j] = ran[k] => j = k
  BY <1>1 DEF RanInv
<1>11. \A k \in 1 .. Len(order) : order[k] = node => k = position
  BY <1>1, LanesOfPlan
<1> HIDE DEF L, node
<1>12. \A j \in 1 .. L + 1 : j \in 1 .. L \/ j = L + 1
  BY <1>7
<1>13. \A j \in 1 .. L : j \in 1 .. L + 1 /\ L + 1 \in 1 .. L + 1
  BY <1>7
<1>14. \A j \in 1 .. L : ran[j] # node
  BY <1>1, <1>8, <1>9 DEF node
<1>15. \A j, k \in 1 .. L + 1 : ran'[j] = ran'[k] => j = k
  BY <1>7, <1>10, <1>12, <1>14
<1>16. ASSUME NEW k \in 1 .. Len(order)
       PROVE  Past(k)' <=> \E j \in 1 .. L + 1 : ran'[j] = order[k]
  <2>1. CASE k = position
    <3>1. order[k] = node /\ L + 1 \in 1 .. L + 1
      BY <1>7, <2>1 DEF node
    <3> QED
      BY <1>5, <1>7, <2>1, <3>1
  <2>2. CASE k # position
    <3>1. order[k] # node
      BY <1>11, <2>2
    <3> QED
      BY <1>5, <1>7, <1>8, <1>12, <1>13, <2>2, <3>1
  <2> QED
    BY <2>1, <2>2
<1>17. RanInv'
  BY <1>3, <1>5, <1>7, <1>15, <1>16 DEF RanInv
<1>18. SourcesBeforeTests'
  <2> SUFFICES ASSUME NEW k \in 1 .. L + 1, ran'[k].kind = "test",
                      NEW f \in Sources(plan), f.base = ran'[k].file.base
               PROVE  \E j \in 1 .. k - 1 : ran'[j] = ImplOf(f)
    <3>1. Sources(plan)' = Sources(plan)
      BY DEF Sources, IsPlannedTest
    <3> QED
      BY <1>7, <3>1 DEF SourcesBeforeTests, RanBefore, ImplOf
  <2>1. CASE k \in 1 .. L
    <3>1. \E j \in 1 .. k - 1 : ran[j] = ImplOf(f)
      BY <1>7, <2>1 DEF Inv, SourcesBeforeTests, RanBefore, ImplOf, L
    <3> QED
      BY <1>7, <2>1, <3>1
  <2>2. CASE k = L + 1
    <3>1. node.kind = "test" /\ f.base = node.file.base
      BY <1>7, <2>2
    <3>2. graph[node] # {}
      BY <1>1, <1>2, <3>1, GraphShape
    <3>3. lane = 1
      BY <1>1, <1>2, <3>2, LanesOfPlan
    <3>4. ImplOf(f) \in DOMAIN graph /\ depth[ImplOf(f)] = 0
      BY <1>1, GraphShape, LanesOfPlan
    <3>5. PICK i \in 1 .. Len(order) : order[i] = ImplOf(f)
      BY <1>1, <3>4, LanesOfPlan
    <3>6. Past(i)
      BY <3>3, <3>4, <3>5 DEF Past
    <3>7. PICK j \in 1 .. L : ran[j] = ImplOf(f)
      BY <1>8, <3>5, <3>6
    <3> QED
      BY <1>7, <2>2, <3>7
  <2> QED
    BY <1>12, <2>1, <2>2
<1> QED
  BY <1>4, <1>6, <1>17, <1>18 DEF Inv

LEMMA OrderKept ==
    ASSUME SourcesBeforeTests, ran' = ran, plan' = plan
    PROVE  SourcesBeforeTests'
  BY DEF SourcesBeforeTests, RanBefore, Sources, IsPlannedTest

\* A lane was checked and the next begins, with nothing more worked on.
LEMMA VerifyStep == ASSUME Inv, Verify PROVE Inv'
<1>1. /\ pc = "Verify" /\ NextLane /\ ran' = ran /\ plan' = plan /\ UNCHANGED sort
      /\ UNCHANGED <<graph, order, depth>>
  BY DEF Verify, sort
<1>2. /\ Placed /\ lane \in Nat /\ position \in Nat
      /\ Search!Inv /\ GraphInv /\ RanInv /\ SourcesBeforeTests
  BY <1>1 DEF Inv, PlaceInv
<1>3. Search!Inv' /\ GraphInv' /\ Placed'
  BY <1>1, <1>2, SearchStays, GraphStays, PlacedStays
<1>4. /\ lane' \in Nat /\ position' \in Nat /\ pc' \in {"Node", "Done"}
      /\ pc' = "Node" => position' \in Lane(lane')
      /\ pc' = "Done" => Lane(lane' + 1) = {}
      /\ \A k \in 1 .. Len(order) : Past(k)' <=> depth[order[k]] <= lane
  BY <1>1, <1>2, NextLanePasses
<1>5. PlaceInv'
  BY <1>1, <1>3, <1>4 DEF PlaceInv, Lane, Ends
<1>6. \A k \in 1 .. Len(order) : Past(k)' <=> Past(k)
  <2> SUFFICES ASSUME NEW k \in 1 .. Len(order) PROVE Past(k)' <=> Past(k)
    OBVIOUS
  <2>1. depth[order[k]] \in Int
    BY <1>2, DepthType
  <2> QED
    BY <1>1, <1>2, <1>4, <2>1 DEF Past
<1>7. RanInv'
  BY <1>1, <1>2, <1>4, <1>6 DEF RanInv
<1>8. SourcesBeforeTests'
  BY <1>1, <1>2, OrderKept
<1> QED
  BY <1>3, <1>5, <1>7, <1>8 DEF Inv

\* A pass that fails, or has ended, keeps what it did.
LEMMA EndStep ==
    ASSUME Inv, UNCHANGED <<plan, lane, position, ran, sort>>, pc' = pc \/ pc' = "Thrown"
    PROVE  Inv'
<1>1. UNCHANGED <<graph, order, depth>>
  BY DEF sort
<1>2. Search!Inv' /\ GraphInv' /\ (Placed => Placed')
  BY <1>1, SearchStays, GraphStays, PlacedStays DEF Inv
<1>3. PlaceInv'
  BY <1>1, <1>2 DEF Inv, PlaceInv, Lane, Ends
<1>4. RanInv'
  BY <1>1 DEF Inv, RanInv, Past
<1>5. SourcesBeforeTests'
  BY OrderKept DEF Inv
<1> QED
  BY <1>2, <1>3, <1>4, <1>5 DEF Inv

LEMMA StepInv == ASSUME Inv, [Next]_vars PROVE Inv'
<1>1. CASE SortNodes
  BY <1>1, SortStep
<1>2. CASE TestWriter \/ Implementor
  BY <1>2, NodeStep DEF TestWriter, Implementor, RunNode
<1>3. CASE Verify
  BY <1>3, VerifyStep
<1>4. CASE Fail
  BY <1>4, EndStep DEF Fail
<1>5. CASE UNCHANGED vars
  BY <1>5, EndStep DEF vars, team
<1> QED
  BY <1>1, <1>2, <1>3, <1>4, <1>5 DEF Next, Work

LEMMA Invariance == Spec => []Inv
<1>1. Init => Inv
  BY InitInv
<1>2. Inv /\ [Next]_vars => Inv'
  BY StepInv
<1> QED
  BY <1>1, <1>2, PTL DEF Spec

-----------------------------------------------------------------------------
\* What the agents may have written.

DiffEntry == [file : Files, by : {"tdd_gate", "test_writer", "implementor"}]

\* The proposal, the notes and what the last check covered.
DiffsInv == /\ diffs \in Seq(DiffEntry)
            /\ notes \in Seq(Files)
            /\ checked \in 0 .. Len(diffs)
            /\ TestWriterRole
            /\ CleanMeansChecked

\* The proposal grows at its end, by what one agent was let add.
LEMMA MergeDiffs ==
    ASSUME DiffsInv, NEW files \in SUBSET Files, NEW by \in {"test_writer", "implementor"},
           Merge(files, by), by = "test_writer" => \A f \in files : IsTestFile(f)
    PROVE  diffs' \in Seq(DiffEntry) /\ Len(diffs) <= Len(diffs)' /\ TestWriterRole'
<1>1. diffs \in Seq(DiffEntry) /\ Len(diffs) \in Nat
  BY LenProperties DEF DiffsInv
<1>2. CASE files = {}
  BY <1>1, <1>2 DEF Merge, DiffsInv, TestWriterRole
<1>3. CASE files # {}
  <2> DEFINE f == CHOOSE g \in files : TRUE
             d == [file |-> f, by |-> by]
             L == Len(diffs)
  <2>1. f \in files
    BY <1>3
  <2>2. d \in DiffEntry
    BY <2>1 DEF DiffEntry
  <2>3. diffs' = Append(diffs, d)
    BY <1>3 DEF Merge
  <2>4. d.by = "test_writer" => IsTestFile(d.file)
    BY <2>1
  <2> HIDE DEF d, L
  <2>5. /\ diffs' \in Seq(DiffEntry) /\ Len(diffs') = L + 1 /\ L \in Nat
        /\ \A k \in 1 .. L : diffs'[k] = diffs[k]
        /\ diffs'[L + 1] = d
    BY <1>1, <2>2, <2>3, AppendProperties DEF L
  <2>6. ASSUME NEW k \in 1 .. L + 1, diffs'[k].by = "test_writer" PROVE IsTestFile(diffs'[k].file)
    <3>1. CASE k \in 1 .. L
      BY <2>5, <2>6, <3>1 DEF DiffsInv, TestWriterRole, L
    <3>2. CASE k = L + 1
      BY <2>4, <2>5, <2>6, <3>2
    <3> QED
      BY <2>5, <3>1, <3>2
  <2>7. TestWriterRole'
    BY <2>5, <2>6 DEF TestWriterRole, IsTestFile
  <2> QED
    BY <2>5, <2>7 DEF L
<1> QED
  BY <1>2, <1>3

\* With checks between the lanes, no pass is done with a node.
LEMMA NodeNotLast ==
    ASSUME NextNode, ContinuousVerification, pc = "Node"
    PROVE  pc' # "Done"
  BY DEF NextNode

LEMMA DiffsStep == ASSUME DiffsInv, [Next]_vars PROVE DiffsInv'
<1>1. diffs \in Seq(DiffEntry) /\ Len(diffs) \in Nat /\ notes \in Seq(Files)
      /\ checked \in 0 .. Len(diffs)
  BY LenProperties DEF DiffsInv
<1>2. \A files \in Outputs : files \subseteq Files /\ Kept(files) \subseteq Files
                             /\ \A f \in Kept(files) : IsTestFile(f)
  BY DEF Outputs, Kept
<1>3. CASE TestWriter \/ Implementor
  <2>1. /\ pc = "Node" /\ NextNode /\ UNCHANGED <<notes, checked>>
        /\ diffs' \in Seq(DiffEntry) /\ Len(diffs) <= Len(diffs)' /\ TestWriterRole'
    <3>1. CASE TestWriter
      <4>1. PICK files \in Outputs : Merge(Kept(files), "test_writer")
        BY <3>1 DEF TestWriter, RunNode
      <4>2. diffs' \in Seq(DiffEntry) /\ Len(diffs) <= Len(diffs)' /\ TestWriterRole'
        BY <1>2, <4>1, MergeDiffs
      <4> QED
        BY <3>1, <4>2 DEF TestWriter, RunNode
    <3>2. CASE Implementor
      <4>1. PICK files \in Outputs : Merge(files, "implementor")
        BY <3>2 DEF Implementor, RunNode
      <4>2. diffs' \in Seq(DiffEntry) /\ Len(diffs) <= Len(diffs)' /\ TestWriterRole'
        BY <1>2, <4>1, MergeDiffs
      <4> QED
        BY <3>2, <4>2 DEF Implementor, RunNode
    <3> QED
      BY <1>3, <3>1, <3>2
  <2>2. Len(diffs)' \in Nat
    BY <2>1, LenProperties
  <2>3. checked' \in 0 .. Len(diffs)'
    BY <1>1, <2>1, <2>2
  <2>4. CleanMeansChecked'
    BY <2>1, NodeNotLast DEF CleanMeansChecked
  <2> QED
    BY <1>1, <2>1, <2>3, <2>4 DEF DiffsInv
<1>4. CASE Verify
  <2>1. PICK n \in 0 .. Len(diffs) :
          /\ checked' = n
          /\ notes' = IF n = Len(diffs) THEN notes ELSE Append(notes, diffs[n + 1].file)
    BY <1>4 DEF Verify, Inspected
  <2>2. diffs' = diffs
    BY <1>4 DEF Verify
  <2>3. notes' \in Seq(Files) /\ (notes' = << >> => n = Len(diffs))
    <3>1. CASE n = Len(diffs)
      BY <1>1, <2>1, <3>1
    <3>2. CASE n # Len(diffs)
      <4>1. n + 1 \in 1 .. Len(diffs)
        BY <1>1, <2>1, <3>2
      <4>2. diffs[n + 1] \in DiffEntry
        BY <1>1, <4>1, ElementOfSeq
      <4>3. diffs[n + 1].file \in Files
        BY <4>2 DEF DiffEntry
      <4>4. notes' = Append(notes, diffs[n + 1].file)
        BY <2>1, <3>2
      <4> QED
        BY <1>1, <4>3, <4>4, AppendProperties, EmptySeq
    <3> QED
      BY <3>1, <3>2
  <2>4. TestWriterRole'
    BY <2>2 DEF DiffsInv, TestWriterRole, IsTestFile
  <2> QED
    BY <1>1, <2>1, <2>2, <2>3, <2>4 DEF DiffsInv, CleanMeansChecked
<1>5. CASE SortNodes \/ Fail \/ UNCHANGED vars
  <2>1. UNCHANGED <<diffs, notes, checked>> /\ (pc' = "Done" => pc = "Done")
    BY <1>5 DEF SortNodes, Fail, vars, team
  <2> QED
    BY <2>1 DEF DiffsInv, TestWriterRole, CleanMeansChecked, IsTestFile
<1> QED
  BY <1>3, <1>4, <1>5 DEF Next, Work

LEMMA DiffsInvariance == Spec => []DiffsInv
<1>1. Init => DiffsInv
  <2> SUFFICES ASSUME Init PROVE DiffsInv
    OBVIOUS
  <2>1. /\ diffs = << >> \/ \E f \in Scaffolds : diffs = <<[file |-> f, by |-> "tdd_gate"]>>
        /\ notes = << >> /\ checked = 0 /\ pc # "Done"
    BY DEF Init
  <2>2. CASE diffs = << >>
    BY <2>1, <2>2, EmptySeq DEF DiffsInv, TestWriterRole, CleanMeansChecked
  <2>3. CASE diffs # << >>
    <3>1. PICK f \in Scaffolds : diffs = <<[file |-> f, by |-> "tdd_gate"]>>
      BY <2>1, <2>3
    <3>2. [file |-> f, by |-> "tdd_gate"] \in DiffEntry
      BY ScaffoldsAssumption DEF DiffEntry
    <3> DEFINE d == [file |-> f, by |-> "tdd_gate"]
    <3>3. d.by # "test_writer"
      OBVIOUS
    <3> HIDE DEF d
    <3>4. diffs = <<d>> /\ d \in DiffEntry
      BY <3>1, <3>2 DEF d
    <3>5. diffs \in Seq(DiffEntry) /\ Len(diffs) = 1 /\ diffs[1] = d
      BY <3>4
    <3> QED
      BY <2>1, <3>3, <3>5, EmptySeq DEF DiffsInv, TestWriterRole, CleanMeansChecked
  <2> QED
    BY <2>2, <2>3
<1>2. DiffsInv /\ [Next]_vars => DiffsInv'
  BY DiffsStep
<1> QED
  BY <1>1, <1>2, PTL DEF Spec

-----------------------------------------------------------------------------
\* A pass that is done.

\* It has worked on every node, once.
LEMMA AllNodesRan ==
    ASSUME Inv, pc = "Done", NEW n \in DOMAIN graph
    PROVE  \E j \in 1 .. Len(ran) : ran[j] = n /\ \A k \in 1 .. Len(ran) : ran[k] = n => k = j
<1>1. /\ Placed /\ Search!Inv /\ GraphInv /\ lane \in Nat /\ Lane(lane + 1) = {}
      /\ \A j, k \in 1 .. Len(ran) : ran[j] = ran[k] => j = k
      /\ \A k \in 1 .. Len(order) : Past(k) <=> \E j \in 1 .. Len(ran) : ran[j] = order[k]
  BY DEF Inv, PlaceInv, RanInv
<1>2. PICK k \in 1 .. Len(order) : order[k] = n
  BY <1>1, LanesOfPlan
<1>3. depth[order[k]] \in {0, 1} /\ depth[order[k]] # lane + 1
  BY <1>1, DepthType, LaneElements
<1>4. Past(k)
  BY <1>1, <1>3 DEF Past
<1> QED
  BY <1>1, <1>2, <1>4

\* How often a file was worked on in some roles.
Times(kinds, f) == Cardinality({k \in 1 .. Len(ran) : ran[k].kind \in kinds /\ ran[k].file = f})

\* If one node of the graph alone is of these kinds and of this file, the file is
\* worked on once in these roles.
LEMMA WorkedOnce ==
    ASSUME Inv, pc = "Done", NEW kinds, NEW f, NEW n \in DOMAIN graph,
           n.kind \in kinds, n.file = f,
           \A m \in DOMAIN graph : m.kind \in kinds /\ m.file = f => m = n
    PROVE  Times(kinds, f) = 1
<1>1. PICK j \in 1 .. Len(ran) : ran[j] = n /\ \A k \in 1 .. Len(ran) : ran[k] = n => k = j
  BY AllNodesRan
<1>2. \A k \in 1 .. Len(ran) : ran[k] \in DOMAIN graph
  BY ElementOfSeq DEF Inv, RanInv
<1>3. {k \in 1 .. Len(ran) : ran[k].kind \in kinds /\ ran[k].file = f} = {j}
  BY <1>1, <1>2
<1> QED
  BY <1>3, FS_Singleton DEF Times

\* A file that is a source or a planned test has one node to write it; none is both.
LEMMA WriterNode ==
    ASSUME GraphInv, NEW f \in Sources(plan) \cup PlannedTests(plan)
    PROVE  \E n \in DOMAIN graph :
              /\ n.kind \in {"impl", "test"} /\ n.file = f
              /\ \A m \in DOMAIN graph : m.kind \in {"impl", "test"} /\ m.file = f => m = n
<1>1. f \in Sources(plan) => f \notin PlannedTests(plan)
  BY DEF Sources, PlannedTests
<1>2. \A m \in DOMAIN graph : m.kind \in {"impl", "test"} /\ m.file = f =>
         \/ m = ImplOf(f) /\ f \in Sources(plan)
         \/ m = TestOf(f) /\ f \in PlannedTests(plan)
  BY NodesOfPlan, GraphShape, KindsApart
<1>3. CASE f \in Sources(plan)
  <2>1. ImplOf(f) \in DOMAIN graph
    BY <1>3, GraphShape
  <2> QED
    BY <1>1, <1>2, <1>3, <2>1, KindsApart
<1>4. CASE f \in PlannedTests(plan)
  <2>1. TestOf(f) \in DOMAIN graph
    BY <1>4, GraphShape, NodesOfPlan
  <2> QED
    BY <1>1, <1>2, <1>4, <2>1, KindsApart
<1> QED
  BY <1>3, <1>4

-----------------------------------------------------------------------------
\* Theorems.

\* The pass keeps to its types; the position is one of the lane worked on.
THEOREM TeamTypeCorrect == Spec => []TypeOK
<1>1. Inv /\ DiffsInv => TypeOK
  BY DEF Inv, GraphInv, PlaceInv, RanInv, DiffsInv, DiffEntry, TypeOK
<1> QED
  BY <1>1, Invariance, DiffsInvariance, PTL

\* planning/graph.ts makes a test depend on one source; the lanes make it wait for
\* all sources with its base name, so that no plan is worked on test first.
THEOREM SourcesComeFirst == Spec => []SourcesBeforeTests
<1>1. Inv => SourcesBeforeTests
  BY DEF Inv
<1> QED
  BY <1>1, Invariance, PTL

\* The three filters of fromImplementationPlan leave no file of a plan without a
\* node, but for tests listed only to be modified, and give none two.
THEOREM EveryFileIsWorked == Spec => []EveryFileWorked
<1>1. ASSUME Inv, pc = "Done", NEW f \in Sources(plan) \cup PlannedTests(plan)
      PROVE  Times({"impl", "test"}, f) = 1
  <2>1. PICK n \in DOMAIN graph :
          /\ n.kind \in {"impl", "test"} /\ n.file = f
          /\ \A m \in DOMAIN graph : m.kind \in {"impl", "test"} /\ m.file = f => m = n
    BY <1>1, WriterNode DEF Inv
  <2> QED
    BY <1>1, <2>1, WorkedOnce
<1>2. ASSUME Inv, pc = "Done", NEW i \in 1 .. Len(plan.delete)
      PROVE  Times({"delete"}, plan.delete[i]) = 1
  <2> DEFINE f == plan.delete[i]
  <2>1. GraphInv
    BY <1>2 DEF Inv
  <2>2. DeleteOf(f) \in DOMAIN graph
    BY <2>1, GraphShape, NodesOfPlan
  <2>3. \A m \in DOMAIN graph : m.kind \in {"delete"} /\ m.file = f => m = DeleteOf(f)
    BY <2>1, GraphShape, NodesOfPlan, KindsApart
  <2> DEFINE n == DeleteOf(f)
             kinds == {"delete"}
  <2>4. n.kind \in kinds /\ n.file = f
    BY KindsApart
  <2> HIDE DEF f, n, kinds
  <2>5. n \in DOMAIN graph
    BY <2>2 DEF n
  <2>6. \A m \in DOMAIN graph : m.kind \in kinds /\ m.file = f => m = n
    BY <2>3 DEF n, kinds
  <2>7. Times(kinds, f) = 1
    BY <1>2, <2>4, <2>5, <2>6, WorkedOnce
  <2> QED
    BY <2>7 DEF f, kinds
<1>3. Inv => EveryFileWorked
  <2> SUFFICES ASSUME Inv, pc = "Done" PROVE EveryFileWorked
    BY DEF EveryFileWorked
  <2>1. \A f \in plan.create \cup plan.tests : f \in Sources(plan) \cup PlannedTests(plan)
    BY DEF Sources, PlannedTests, IsPlannedTest
  <2>2. \A f \in plan.modify : IsTestFile(f) \/ f \in Sources(plan) \cup PlannedTests(plan)
    BY DEF Sources, PlannedTests, IsPlannedTest, IsTestFile
  <2> QED
    BY <1>1, <1>2, <2>1, <2>2 DEF EveryFileWorked, Times
<1> QED
  BY <1>3, Invariance, PTL

\* enforceTestFileRole keeps implementation files out of what the Test Writer adds.
THEOREM TestWriterKeepsRole == Spec => []TestWriterRole
<1>1. DiffsInv => TestWriterRole
  BY DEF DiffsInv
<1> QED
  BY <1>1, DiffsInvariance, PTL

\* Without a note at the end, the last check found all files of the proposal sound.
THEOREM CleanIsChecked == Spec => []CleanMeansChecked
<1>1. DiffsInv => CleanMeansChecked
  BY DEF DiffsInv
<1> QED
  BY <1>1, DiffsInvariance, PTL

-----------------------------------------------------------------------------
\* The lanes as a pass over the graph.

\* What the pass has to know of its past to be done.
DoneIsComplete == pc = "Done" => Abstract!Worked = DOMAIN graph

LEMMA CompleteWhenDone == ASSUME Inv PROVE DoneIsComplete
<1> SUFFICES ASSUME pc = "Done" PROVE Abstract!Worked = DOMAIN graph
  BY DEF DoneIsComplete
<1>1. \A k \in 1 .. Len(ran) : ran[k] \in DOMAIN graph
  BY ElementOfSeq DEF Inv, RanInv
<1>2. \A n \in DOMAIN graph : \E k \in 1 .. Len(ran) : ran[k] = n
  BY AllNodesRan
<1> QED
  BY <1>1, <1>2 DEF Abstract!Worked

\* A node whose turn it is was not worked on yet, and what it depends on was: it
\* has no dependencies, or one, and this is in the lane before.
LEMMA TurnIsDue ==
    ASSUME Inv, pc = "Node"
    PROVE  LET n == order[position]
           IN  /\ n \in DOMAIN graph
               /\ n \notin Abstract!Worked
               /\ graph[n] \subseteq Abstract!Worked
<1> DEFINE n == order[position]
<1>1. /\ Placed /\ position \in 1 .. Len(order) /\ depth[n] = lane /\ lane \in Nat
      /\ Search!Inv /\ GraphInv
      /\ \A k \in 1 .. Len(order) : Past(k) <=> \E j \in 1 .. Len(ran) : ran[j] = order[k]
  BY LaneElements DEF Inv, PlaceInv, RanInv
<1>2. n \in DOMAIN graph
  BY <1>1, DepthType
<1>3. ~Past(position)
  BY <1>1 DEF Past
<1>4. n \notin Abstract!Worked
  BY <1>1, <1>3 DEF Abstract!Worked
<1>5. CASE graph[n] = {}
  BY <1>2, <1>4, <1>5
<1>6. CASE graph[n] # {}
  <2>1. PICK s \in Sources(plan) : graph[n] = {ImplOf(s)}
    BY <1>1, <1>2, <1>6, GraphShape
  <2>2. lane = 1 /\ ImplOf(s) \in DOMAIN graph /\ depth[ImplOf(s)] = 0
    BY <1>1, <1>2, <1>6, GraphShape, LanesOfPlan
  <2>3. PICK i \in 1 .. Len(order) : order[i] = ImplOf(s)
    BY <1>1, <2>2, LanesOfPlan
  <2>4. Past(i)
    BY <2>2, <2>3 DEF Past
  <2>5. ImplOf(s) \in Abstract!Worked
    BY <1>1, <2>3, <2>4 DEF Abstract!Worked
  <2> QED
    BY <1>2, <1>4, <2>1, <2>5
<1> QED
  BY <1>5, <1>6

\* Whoever has the node whose turn it is works on it as the pass promises.
LEMMA NodeIsWork ==
    ASSUME Inv, DoneIsComplete', pc = "Node", ran' = Append(ran, order[position]),
           NextNode, UNCHANGED <<plan, sort>>
    PROVE  Abstract!WorkOn(order[position]) /\ order[position] \in DOMAIN graph
<1> DEFINE n == order[position]
<1>1. n \in DOMAIN graph /\ n \notin Abstract!Worked /\ graph[n] \subseteq Abstract!Worked
  BY TurnIsDue
<1>2. graph' = graph
  BY DEF sort
<1>3. pc' \in {"Node", "Verify", "Done"}
  BY DEF NextNode, NextLane
<1>4. Phase = "working"
  BY DEF Phase
<1>5. Phase' = "working" \/ (Phase' = "done" /\ pc' = "Done")
  BY <1>3 DEF Phase
<1>6. Phase' = "working" \/ (Phase' = "done" /\ (Abstract!Worked)' = DOMAIN graph)
  BY <1>2, <1>5 DEF DoneIsComplete
<1> QED
  BY <1>1, <1>2, <1>4, <1>6 DEF Abstract!WorkOn

LEMMA InitIsPass == ASSUME Init PROVE Abstract!Init
<1>1. Inv
  BY InitInv
<1>2. \A n \in DOMAIN graph : graph[n] \subseteq DOMAIN graph
  <2> SUFFICES ASSUME NEW n \in DOMAIN graph PROVE graph[n] \subseteq DOMAIN graph
    OBVIOUS
  <2>1. GraphInv
    BY <1>1 DEF Inv
  <2>2. graph[n] = {} \/ \E s \in Sources(plan) : graph[n] = {ImplOf(s)}
    BY <2>1, GraphShape
  <2>3. \A s \in Sources(plan) : ImplOf(s) \in DOMAIN graph
    BY <2>1, GraphShape
  <2> QED
    BY <2>2, <2>3
<1>3. ran = << >> /\ Phase = "working"
  BY DEF Init, Phase
<1> QED
  BY <1>2, <1>3 DEF Abstract!Init

LEMMA StepIsPass ==
    ASSUME Inv, DoneIsComplete', [Next]_vars
    PROVE  [Abstract!Next]_(Abstract!pass)
<1>1. CASE SortNodes
  <2>1. ran' = ran /\ pc = "Sort" /\ pc' \in {"Sort", "Node", "Stuck"}
    BY <1>1 DEF SortNodes
  <2>2. graph' = graph
    BY <1>1, StepKeepsGraph DEF SortNodes, sort
  <2>3. Phase' = Phase
    BY <2>1 DEF Phase
  <2> QED
    BY <2>1, <2>2, <2>3 DEF Abstract!pass
<1>2. CASE TestWriter \/ Implementor
  <2>1. Abstract!WorkOn(order[position]) /\ order[position] \in DOMAIN graph
    BY <1>2, NodeIsWork DEF TestWriter, Implementor, RunNode
  <2> QED
    BY <2>1 DEF Abstract!Next
<1>3. CASE Verify
  <2>1. ran' = ran /\ graph' = graph /\ pc = "Verify" /\ pc' \in {"Node", "Done"}
    BY <1>3 DEF Verify, NextLane, sort
  <2>2. CASE pc' = "Done"
    <3>1. Phase = "working" /\ Phase' = "done"
      BY <2>1, <2>2 DEF Phase
    <3>2. Abstract!Worked = DOMAIN graph
      BY <2>1, <2>2 DEF DoneIsComplete, Abstract!Worked
    <3>3. Abstract!Finish
      BY <2>1, <3>1, <3>2 DEF Abstract!Finish
    <3> QED
      BY <3>3 DEF Abstract!Next
  <2>3. CASE pc' = "Node"
    <3>1. Phase' = Phase
      BY <2>1, <2>3 DEF Phase
    <3> QED
      BY <2>1, <3>1 DEF Abstract!pass
  <2> QED
    BY <2>1, <2>2, <2>3
<1>4. CASE Fail
  <2>1. ran' = ran /\ graph' = graph /\ pc \in {"Node", "Verify"} /\ pc' = "Thrown"
    BY <1>4 DEF Fail, sort
  <2>2. Phase = "working" /\ Phase' = "failed"
    BY <2>1 DEF Phase
  <2>3. Abstract!GiveUp
    BY <2>1, <2>2 DEF Abstract!GiveUp
  <2> QED
    BY <2>3 DEF Abstract!Next
<1>5. CASE UNCHANGED vars
  <2>1. ran' = ran /\ graph' = graph /\ pc' = pc
    BY <1>5 DEF vars, team, sort
  <2>2. Phase' = Phase
    BY <2>1 DEF Phase
  <2> QED
    BY <2>1, <2>2 DEF Abstract!pass
<1> QED
  BY <1>1, <1>2, <1>3, <1>4, <1>5 DEF Next, Work

\* The lanes of parallelLanes and the loop over them implement the pass over the
\* graph: each node once, after its dependencies, and done only with all, for every
\* plan and whatever the agents do.
THEOREM TeamIsAPass == Spec => ImplementsPass
<1>1. Init => Abstract!Init
  BY InitIsPass
<1>2. Inv => DoneIsComplete
  BY CompleteWhenDone
<1>3. Inv /\ DoneIsComplete' /\ [Next]_vars => [Abstract!Next]_(Abstract!pass)
  BY StepIsPass
<1> QED
  BY <1>1, <1>2, <1>3, Invariance, PTL DEF Spec, ImplementsPass, Abstract!Spec
=============================================================================
