------------------------------ MODULE MCCodeGraph ------------------------------
(***************************************************************************)
(* Small instances of CodeGraph: a chain with a short cut, a cycle, a      *)
(* diamond, and a test that imports the file it tests.                     *)
(***************************************************************************)
EXTENDS CodeGraph

MCFiles == {"a", "b", "c", "d", "t"}
MCTests == {"t"}
MCRequests == {<<"a">>, <<"a", "b">>, <<"b", "a">>, <<"c", "b">>, <<"t", "a">>}
MCChanges  == {<<"a", "d">>, <<"b", "t">>, <<"c", "a">>}

MCNamed == {<<"t", "b">>}

Tree(a, b, c, d, t) ==
    [f \in MCFiles |-> CASE f = "a" -> a [] f = "b" -> b [] f = "c" -> c
                         [] f = "d" -> d [] f = "t" -> t]

MCTrees ==
    {Tree({"b", "d"}, {"c"}, {"d"}, {}, {"a"}),
     Tree({"b", "c"}, {"c"}, {"a", "d"}, {}, {"d"}),
     Tree({"b", "c"}, {"d"}, {"d"}, {"b"}, {})}
=============================================================================
