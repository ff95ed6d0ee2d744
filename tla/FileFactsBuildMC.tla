------------------------- MODULE FileFactsBuildMC -------------------------
(***************************************************************************)
(* FileFactsBuild on small instances: two files, alone, together and twice *)
(* the same content; what it takes for a budget to be ample.               *)
(***************************************************************************)
EXTENDS FileFactsHistory, TLC

CONSTANTS k1, k2

\* A two-node and a one-node file.
TwoFiles == (k1 :> 2 @@ k2 :> 1)

\* Both files, and two paths with the same content.
Projects == {<<k1, k2>>, <<k1, k1>>}
Project  == {<<k1, k2>>}

\* Runs are told apart by nothing.
Interchangeable == Permutations(Builders)

\* The nodes a parse of all the files would visit are within the budget.
Ample(b) == NodesOf(output[b]) <= limit[b]

\* A later build with a budget for its whole manifest gets a complete graph: it
\* does not inherit the omissions of an earlier build with a smaller one. False
\* of the code: see Divergences in the README.
AmpleRunIsWhole ==
  \A b \in Builders : pc[b] = "done" /\ Ample(b) => answer[b] = "complete"
=============================================================================
