------------------------------- MODULE CodeGraph -------------------------------
(***************************************************************************)
(* The code graph: CodeGraphService of code-graph/src/index.ts over an     *)
(* InMemoryGraph.  All activities of a worker share one graph.  A query    *)
(* reads its files one await at a time, while agents edit them and other   *)
(* queries add what they read; then it searches the graph without another  *)
(* await.  Edges are never removed.                                        *)
(***************************************************************************)
EXTENDS Integers, Sequences, FiniteSets, SequencesExt

CONSTANTS
    Files,      \* the files of the repository
    Tests,      \* those that are tests
    Trees,      \* the import relations to start from
    Named,      \* <<test, file>>: the test's stem and the file's name match
    Queries,    \* the queries of the run
    Requests,   \* what they may ask about, sequences of files
    Changes,    \* bound: the imports, <<from, to>>, that agents add or remove
    MaxDepth,   \* hops a search goes: 6 in analyze, 8 in buildSubgraph
    MaxEdits    \* bound: edits by agents

ASSUME FilesAssumption == IsFiniteSet(Files) /\ Tests \subseteq Files /\ Named \subseteq Tests \X Files
ASSUME QueryAssumption == Requests \subseteq Seq(Files) \ {<<>>} /\ Changes \subseteq Files \X Files
ASSUME TreesAssumption == Trees \subseteq [Files -> SUBSET Files]
ASSUME DepthAssumption == MaxDepth \in Nat \ {0} /\ MaxEdits \in Nat

VARIABLES
    imports,    \* what each file imports now
    edits,
    edges,      \* InMemoryGraph.edges
    kind,       \* what each query asks for
    files,      \* its changedFiles or fileHints
    at,         \* where it is
    next,       \* the file it reads or searches from
    pending,    \* the search's queue, or its stack of calls
    visited,
    result,     \* affectedFiles, or the nodes of the subgraph
    seen        \* not in the code: the imports the query read

tree  == <<imports, edits>>
query == <<kind, files>>
vars  == <<tree, edges, query, at, next, pending, visited, result, seen>>

Kinds == {"radius", "subgraph"}

TypeOK ==
    /\ imports \in [Files -> SUBSET Files] /\ edits \in 0 .. MaxEdits
    /\ edges \subseteq Files \X Files
    /\ kind \in [Queries -> Kinds] /\ files \in [Queries -> Requests \cup {<<>>}]
    /\ at \in [Queries -> {"idle", "read", "search", "done"}]
    /\ next \in [Queries -> Nat]
    /\ pending \in [Queries -> Seq([file : Files, depth : 0 .. MaxDepth + 1])]
    /\ visited \in [Queries -> SUBSET Files]
    /\ result \in [Queries -> SUBSET Files]
    /\ seen \in [Queries -> SUBSET (Files \X Files)]

Init ==
    /\ imports \in Trees /\ edits = 0
    /\ edges = {}
    /\ kind = [q \in Queries |-> "radius"] /\ files = [q \in Queries |-> <<>>]
    /\ at = [q \in Queries |-> "idle"]
    /\ next = [q \in Queries |-> 1]
    /\ pending = [q \in Queries |-> <<>>]
    /\ visited = [q \in Queries |-> {}]
    /\ result = [q \in Queries |-> {}]
    /\ seen = [q \in Queries |-> {}]

\* Nobody else runs while a query searches.
Free == \A q \in Queries : at[q] # "search"

-----------------------------------------------------------------------------
Start(q) ==
    /\ Free /\ at[q] = "idle"
    /\ at' = [at EXCEPT ![q] = "read"]
    /\ \E k \in Kinds : kind' = [kind EXCEPT ![q] = k]
    /\ \E fs \in Requests : files' = [files EXCEPT ![q] = fs]
    /\ UNCHANGED <<tree, edges, next, pending, visited, result, seen>>

\* An agent changes what a file imports.
Edit ==
    /\ Free /\ edits < MaxEdits
    /\ edits' = edits + 1
    /\ \E c \in Changes :
          imports' = [imports EXCEPT ![c[1]] = (@ \ {c[2]}) \cup ({c[2]} \ @)]
    /\ UNCHANGED <<edges, query, at, next, pending, visited, result, seen>>

From(q)  == files[q][next[q]]
After(q) == IF next[q] < Len(files[q]) THEN next[q] + 1 ELSE 1

\* The edges of one more file are added; one that cannot be read is passed over.
Read(q) ==
    /\ Free /\ at[q] = "read"
    /\ \/ LET read == {From(q)} \X imports[From(q)]
          IN edges' = edges \cup read /\ seen' = [seen EXCEPT ![q] = @ \cup read]
       \/ UNCHANGED <<edges, seen>>
    /\ next' = [next EXCEPT ![q] = After(q)]
    /\ at' = [at EXCEPT ![q] = IF next[q] < Len(files[q]) THEN "read" ELSE "search"]
    /\ pending' = [pending EXCEPT ![q] = IF at'[q] = "read" THEN <<>>
                                         ELSE <<[file |-> files[q][1], depth |-> 0]>>]
    /\ UNCHANGED <<tree, query, visited, result>>

Neighbours(f) == {e[2] : e \in {d \in edges : d[1] = f}}

\* A mutant of Joined: the newest first, as the subgraph's recursion does.
JoinedFirst(q, rest, found) == found \o rest

\* The radius is searched breadth first with a queue, the subgraph depth first by
\* recursion: its calls go before those still waiting.
Joined(q, rest, found) == IF kind[q] = "radius" THEN rest \o found ELSE found \o rest

TooDeep(depth) == depth > MaxDepth

\* The next of the queue or stack: dropped if it was visited or is too deep.
Visit(q) ==
    /\ at[q] = "search" /\ pending[q] # <<>>
    /\ LET item == Head(pending[q])
           skip == item.file \in visited[q] \/ TooDeep(item.depth)
           deps == SetToSeq({[file |-> f, depth |-> item.depth + 1] : f \in Neighbours(item.file)})
       IN /\ visited' = [visited EXCEPT ![q] = IF skip THEN @ ELSE @ \cup {item.file}]
          /\ pending' = [pending EXCEPT ![q] =
                 IF skip THEN Tail(@) ELSE Joined(q, Tail(@), deps)]
    /\ UNCHANGED <<tree, edges, query, at, next, result, seen>>

\* A mutant of Collected: only what was reached from the last file.
CollectedLast(q) == visited[q]

\* The changed files are affected, and what is reached from each of them.
Collected(q) == result[q] \cup visited[q] \cup (IF kind[q] = "radius" THEN {From(q)} ELSE {})

\* One file's search is over.  The radius begins the next with nothing visited,
\* the subgraph goes on with what it has.
Collect(q) ==
    /\ at[q] = "search" /\ pending[q] = <<>>
    /\ result' = [result EXCEPT ![q] = Collected(q)]
    /\ next' = [next EXCEPT ![q] = After(q)]
    /\ IF next[q] < Len(files[q])
       THEN /\ pending' = [pending EXCEPT ![q] = <<[file |-> files[q][next[q] + 1], depth |-> 0]>>]
            /\ visited' = [visited EXCEPT ![q] = IF kind[q] = "radius" THEN {} ELSE @]
            /\ at' = at
       ELSE at' = [at EXCEPT ![q] = "done"] /\ UNCHANGED <<pending, visited>>
    /\ UNCHANGED <<tree, edges, query, seen>>

Closed == (\A q \in Queries : at[q] = "done") /\ UNCHANGED vars

Next ==
    \/ \E q \in Queries : Start(q) \/ Read(q) \/ Visit(q) \/ Collect(q)
    \/ Edit \/ Closed

Spec == Init /\ [][Next]_vars

\* selectAffectedTests, of a finished radius.
SelectedTests(q) ==
    {t \in Tests : t \in result[q] \/ \E i \in DOMAIN files[q] : <<t, files[q][i]>> \in Named}

-----------------------------------------------------------------------------
\* The files at most n edges away from f.
Hops(f, n) ==
    LET within[k \in 0 .. n] ==
          IF k = 0 THEN {f}
          ELSE within[k - 1] \cup UNION {Neighbours(g) : g \in within[k - 1]}
    IN within[n]

\* The search for the radius finds exactly what is within the limit: the shortest
\* way to a file is tried first, so a long way never hides a short one.  The
\* recursion of the subgraph may miss some of it, and goes no further.
SearchWithinDepth ==
    \A q \in Queries : at[q] = "search" /\ pending[q] = <<>> =>
        IF kind[q] = "radius" THEN visited[q] = Hops(From(q), MaxDepth)
        ELSE visited[q] \subseteq UNION {Hops(files[q][i], MaxDepth) : i \in DOMAIN files[q]}

\* Whatever was edited and asked meanwhile, the radius holds what the changed files
\* imported when the query read them, and a changed test is among the selected.
RadiusCoversRead ==
    \A q \in Queries : at[q] = "done" /\ kind[q] = "radius" =>
        /\ {e[2] : e \in seen[q]} \subseteq result[q]
        /\ Tests \cap Range(files[q]) \subseteq SelectedTests(q)
=============================================================================
