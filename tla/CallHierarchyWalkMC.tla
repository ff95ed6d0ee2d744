-------------------------- MODULE CallHierarchyWalkMC --------------------------
(* Small inputs for CallHierarchyWalk. *)
EXTENDS CallHierarchyWalk

(* Calls among three symbols, one of them of itself, and one call site whose
   range is not in its file. *)
MCCalls == {<<1, 2, 1>>, <<2, 3, 1>>, <<3, 1, 1>>, <<1, 3, 1>>, <<2, 1, 1>>, <<1, 1, 1>>,
            <<1, 2, 2>>}
MCGraphs == {g \in SUBSET MCCalls : Cardinality(g) <= 3}
MCFiles == (1 :> 1) @@ (2 :> 1) @@ (3 :> 2)

MCSeed(f, p, o) == [file |-> f, places |-> p, opaque |-> o]
MCRequested ==
    {<<MCSeed(1, {1}, FALSE)>>, <<MCSeed(2, {3}, TRUE)>>,
     <<MCSeed(1, {1}, FALSE), MCSeed(1, {1, 2}, FALSE)>>,
     <<MCSeed(1, {2}, FALSE), MCSeed(2, {3}, FALSE)>>}
MCNatures == {<<"plain", "plain", "plain">>, <<"plain", "plain", "unsupported">>,
              <<"plain", "outside", "plain">>}
MCBudgets == {[depth |-> 1, nodes |-> 3, edges |-> 3, requests |-> 9],
              [depth |-> 2, nodes |-> 3, edges |-> 3, requests |-> 9],
              [depth |-> 2, nodes |-> 2, edges |-> 2, requests |-> 9],
              [depth |-> 2, nodes |-> 3, edges |-> 1, requests |-> 4]}

(* Two seeds in one file, the second with a macro call in its function. *)
MCSecondSeed == {<<MCSeed(1, {1}, FALSE), MCSeed(1, {2}, TRUE)>>}
=============================================================================
