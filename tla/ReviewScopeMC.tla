----------------------------- MODULE ReviewScopeMC -----------------------------
(***************************************************************************)
(* A small instance of ReviewScope: two files of one component, the second *)
(* of them generated.                                                      *)
(***************************************************************************)
EXTENDS ReviewScope
CONSTANTS written, generated

MCFiles == {written, generated}
MCComponent == [f \in MCFiles |-> "src"]
MCGenerated == {generated}
MCInit ==
    /\ Init
    /\ diffs["branch"] = [f \in Files |-> "none"]
    /\ diffs["staged"][generated] = "none" /\ diffs["unstaged"][generated] = "plain"
MCSpec == MCInit /\ [][Next]_vars
MCBudgets == {[target |-> 2, hard |-> 3], [target |-> 4, hard |-> 3]}
===============================================================================
