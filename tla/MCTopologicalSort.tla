--------------------------- MODULE MCTopologicalSort ---------------------------
(***************************************************************************)
(* Every task graph over the ids of the configuration; what the search is  *)
(* asked of cycles is compared with the definitions of graph theory.       *)
(***************************************************************************)
EXTENDS TopologicalSort

Digraphs == INSTANCE Graphs

MCRank == [n \in Ids |-> n]

Digraph(g) == [node |-> DOMAIN g,
               edge |-> {e \in (DOMAIN g) \X (DOMAIN g) : e[2] \in g[e[1]]}]

ASSUME CyclicAssumption ==
    \A g \in [Ids -> SUBSET Ids] : Cyclic(g) <=> ~Digraphs!IsDag(Digraph(g))
=============================================================================
