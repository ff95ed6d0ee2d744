------------------------- MODULE FileFactsHistory -------------------------
(***************************************************************************)
(* FileFactsBuild with the history its answers are judged by: the keys     *)
(* whose object was removed or damaged under a run that is at them.        *)
(***************************************************************************)
EXTENDS FileFactsBuild

VARIABLE disturbed

\* Some run has the file still to do, or its facts in hand.
InUse(k) ==
  \E b \in Builders :
    \/ \E i \in 1 .. Len(todo[b]) : todo[b][i] = k
    \/ \E i \in 1 .. Len(output[b]) : output[b][i][1] = k

HistoryInit == Init /\ disturbed = {}

HistoryNext ==
  /\ Next
  /\ disturbed' =
       {k \in Keys :
          /\ InUse(k)'
          /\ k \in disturbed \/ object[k] \notin {Absent, object'[k]}}

HistorySpec == HistoryInit /\ [][HistoryNext]_<<vars, disturbed>>

\* Runs go on as in FileFactsBuild; the history only watches.
FairHistorySpec == HistorySpec /\ Fairness

\* A budget decides what a run stores, and every run of the file gets that:
\* runs with differing budgets that race to publish one file answer from the
\* same facts, those in the store, as long as nothing removes or damages them
\* under a run; the others are refused. So a complete answer never stands beside
\* an object that a smaller budget cut short, in whatever order they came.
AnswersAgreeWithStore ==
  \A b \in Builders : \A i \in 1 .. Len(output[b]) :
    LET k == output[b][i][1] IN
    k \notin disturbed =>
      /\ object[k] \in {output[b][i][2], Damaged}
      /\ answer[b] = "complete" => object[k] \in {"whole", Damaged}
=============================================================================
