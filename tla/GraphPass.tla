------------------------------- MODULE GraphPass -------------------------------
(***************************************************************************)
(* What the agent team promises of its first pass over a task graph        *)
(* (planning/graph.ts, CodingWorkflow.ts): however the graph is cut into   *)
(* lanes, it works on one node at a time, on none before all the node      *)
(* depends on and on none twice, and it is done only with all of them.     *)
(***************************************************************************)
EXTENDS Naturals, Sequences

VARIABLES graph,   \* the dependencies of every node
          ran,     \* the nodes worked on, in order
          phase    \* "working", "done", "failed"

pass == <<graph, ran, phase>>

Init == /\ \A n \in DOMAIN graph : graph[n] \subseteq DOMAIN graph
        /\ ran = << >>
        /\ phase = "working"

Worked == {ran[k] : k \in 1 .. Len(ran)}

\* One more node; the last one may end the pass.
WorkOn(n) == /\ phase = "working"
             /\ n \notin Worked
             /\ graph[n] \subseteq Worked
             /\ ran' = Append(ran, n)
             /\ \/ phase' = "working"
                \/ phase' = "done" /\ Worked' = DOMAIN graph
             /\ UNCHANGED graph

\* Nothing is left to work on.
Finish == /\ phase = "working"
          /\ Worked = DOMAIN graph
          /\ phase' = "done"
          /\ UNCHANGED <<graph, ran>>

\* Somebody failed: the pass ends where it is.
GiveUp == /\ phase = "working"
          /\ phase' = "failed"
          /\ UNCHANGED <<graph, ran>>

Next == (\E n \in DOMAIN graph : WorkOn(n)) \/ Finish \/ GiveUp

Spec == Init /\ [][Next]_pass
=============================================================================
