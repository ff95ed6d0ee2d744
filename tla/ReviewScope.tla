------------------------------ MODULE ReviewScope ------------------------------
(***************************************************************************)
(* collect_diff_context (app.rs, review_scope.rs): every invocation reads  *)
(* the repository by a sequence of git calls, each of which sees whatever  *)
(* state the repository is in by then, and answers for one review scope.   *)
(* A reviewer opens a scope with --control-plane, loads its groups and     *)
(* paths with --expect-scope, and ends with a second --control-plane or a  *)
(* revalidation, while the user goes on editing, staging and committing.   *)
(* A fingerprint (git hash-object over head, binary diff, budgets and risk *)
(* patterns) is modelled by the record of what it covers.                  *)
(***************************************************************************)
EXTENDS Integers, Sequences, FiniteSets, FiniteSetsExt, Functions

CONSTANTS
    Files,           \* the paths that may change
    Component,       \* [Files -> components]: group_component_for_path
    RiskyPaths, GeneratedPaths, LockPaths,  \* what the built-in patterns match
    Budgets,         \* the [target, hard] byte budgets of environments
    MaxEdits,        \* bound: edits of the repository,
    MaxFailures      \* bound: git calls that fail

ASSUME ReviewAssumption ==
    /\ RiskyPaths \cup GeneratedPaths \cup LockPaths \subseteq Files
    /\ Budgets \subseteq [target : Nat, hard : Nat]
    /\ MaxEdits \in Nat /\ MaxFailures \in Nat

(* A diff names so many files and no more. *)
ASSUME FiniteAssumption == IsFiniteSet(Files)

VARIABLES
    diffs,     \* [Sources -> [Files -> Versions]]: what each git diff shows
    patterns,  \* the files .pre-commit-review/risk-paths matches
    head,      \* HEAD
    run,       \* the invocation in progress
    review,    \* what the reviewer recorded
    strayed,   \* an edit restored the fingerprinted diff that another had left
    edits, failures

world == <<diffs, patterns, head>>
vars == <<world, run, review, strayed, edits, failures>>

Order == <<"staged", "unstaged", "branch">>
Sources == Range(Order)
Versions == {"none", "plain", "big", "risky"}
Bytes(v) == CASE v = "none" -> 0 [] v = "big" -> 3 [] OTHER -> 2
Changed(d) == {f \in Files : d[f] # "none"}
(* A line of the diff of f matches a content pattern, under a "+++ b/" header:
   a deleted file, whose header is "+++ /dev/null", is never flagged and is "plain". *)
Flagged(d) == {f \in Files : d[f] = "risky"}

Fingerprint(source, at, d, risk, budget) ==
    [source |-> source, head |-> at, diff |-> d, patterns |-> risk, budget |-> budget]
NoPrint == <<>>
DiffOf(source) == IF source \in Sources THEN diffs[source] ELSE [f \in Files |-> "none"]
Printed == Fingerprint(run.source, run.head, DiffOf(run.source), run.endPatterns, run.budget)

-----------------------------------------------------------------------------
(* What a collection derives from its reads. *)
Tag(f, risk, flagged) ==
    IF f \in RiskyPaths \cup risk \cup flagged THEN "high-risk"
    ELSE IF f \in GeneratedPaths THEN "generated-like"
    ELSE IF f \in LockPaths THEN "lockfile" ELSE "medium"

GroupId(f, tag) ==
    CASE tag = "high-risk" -> <<"high-risk", Component[f]>>
      [] tag = "generated-like" -> <<"consistency", Component[f]>>
      [] tag = "lockfile" -> <<"consistency", "lockfiles">>
      [] OTHER -> <<"module", Component[f]>>

GroupRisk(id) == CASE id[1] = "high-risk" -> "high" [] id[1] = "module" -> "medium" [] OTHER -> id[1]

UnitsOf(names, contents, risk, flagged) ==
    [f \in names |-> LET tag == Tag(f, risk, flagged) IN
        [tag |-> tag, group |-> GroupId(f, tag), content |-> contents[f]]]

BudgetStatus(bytes, budget) ==
    IF bytes > budget.hard THEN "split-required"
    ELSE IF bytes > budget.target THEN "over-target" ELSE "ok"

GroupsOf(units, budget) ==
    [id \in {units[f].group : f \in DOMAIN units} |->
        LET files == {f \in DOMAIN units : units[f].group = id}
            bytes == MapThenSumSet(LAMBDA f : Bytes(units[f].content), files)
        IN [files |-> files, bytes |-> bytes, risk |-> GroupRisk(id),
            status |-> BudgetStatus(bytes, budget)]]

(* Mutant: the work order puts only groups within their target first. *)
WorkOrder_OkFirst(groups) ==
    [id \in DOMAIN groups |->
        IF groups[id].status = "split-required" THEN <<1, "split">>
        ELSE IF groups[id].status = "over-target" THEN <<4, "review">>
        ELSE IF groups[id].risk = "high" THEN <<2, "review">>
        ELSE IF groups[id].risk = "consistency" THEN <<3, "review">> ELSE <<4, "review">>]

(* AuthoritativeScope::from_parts: the work order. *)
WorkOrder(groups) ==
    [id \in DOMAIN groups |->
        IF groups[id].status = "split-required" THEN <<1, "split">>
        ELSE IF groups[id].risk = "high" THEN <<2, "review">>
        ELSE IF groups[id].risk = "consistency" THEN <<3, "review">> ELSE <<4, "review">>]

(* build_review_plan, which run_app repeats for its long form. *)
PlanEntry(units, id, g) ==
    LET ranked == IF g.risk = "high" THEN 2 ELSE IF g.risk = "consistency" THEN 3 ELSE 4
    IN [work |-> IF g.status = "split-required" THEN <<1, "split">> ELSE <<ranked, "review">>,
        required |-> {f \in DOMAIN units : units[f].group = id}]
ReviewPlan(units, groups) == [id \in DOMAIN groups |-> PlanEntry(units, id, groups[id])]
SplitGroups(groups) == {id \in DOMAIN groups : groups[id].status = "split-required"}
HighRiskOfPlan(groups) ==
    MapThenSumSet(LAMBDA id : Cardinality(groups[id].files), {id \in DOMAIN groups : groups[id].risk = "high"})
HighRiskOfControlPlane(units) == Cardinality({f \in DOMAIN units : units[f].tag = "high-risk"})

(* The coverage ledger and the reducer state of the plan. *)
Ledger(units, groups) ==
    [f \in DOMAIN units |-> IF groups[units[f].group].status = "split-required" THEN "needs-split" ELSE "pending"]
SplitFiles(groups) == UNION {groups[id].files : id \in SplitGroups(groups)}

-----------------------------------------------------------------------------
NoScope == [print |-> NoPrint, units |-> <<>>, groups |-> <<>>]
NoRun == [kind |-> "none", step |-> "idle", want |-> "none", target |-> {}, expect |-> NoPrint,
          strict |-> FALSE, budget |-> CHOOSE b \in Budgets : TRUE, head |-> 0,
          seen |-> 0, available |-> {}, source |-> "none",
          patterns |-> {}, endPatterns |-> {}, start |-> NoPrint,
          names |-> {}, flagged |-> {}, contents |-> <<>>, previews |-> <<>>]
NoReview == [stage |-> "closed", scope |-> NoScope, covered |-> <<>>, previews |-> <<>>]

Init ==
    /\ diffs \in [Sources -> [Files -> {"none", "plain"}]] /\ patterns = {} /\ head = 1
    /\ run = NoRun /\ review = NoReview /\ strayed = FALSE /\ edits = 0 /\ failures = 0

(* CliArgs::parse accepts these requests: --control-plane with no --path and no
   --group, or one of --group, --path and neither (the plan) under --expect-scope. *)
Invoke(kind, want, target, expect, budget) ==
    /\ run.step = "idle"
    /\ run' = [NoRun EXCEPT !.kind = kind, !.want = want, !.target = target, !.expect = expect,
                   !.strict = kind \in {"open", "final", "revalidate"},
                   !.step = IF kind \in {"open", "final", "revalidate"} THEN "head" ELSE "patterns",
                   !.budget = [target |-> Min({budget.target, budget.hard}), hard |-> budget.hard]]

Quiet == UNCHANGED <<world, review, strayed, edits, failures>>
Step(s) == run.step = s
To(s, r) == run' = [r EXCEPT !.step = s]

(* The authoritative collection failed: run_app starts again with its own reads. *)
Fallback == [run EXCEPT !.strict = FALSE, !.step = "patterns", !.seen = 0, !.available = {},
                 !.names = {}, !.flagged = {}, !.contents = <<>>, !.start = NoPrint, !.source = "none"]

ReadHead ==
    /\ Step("head") /\ Quiet
    /\ IF run.kind # "revalidate" THEN To("available", [run EXCEPT !.head = head])
       ELSE IF head # review.scope.print.head THEN To("refused", run)
       ELSE To("end-patterns", [run EXCEPT !.head = head, !.source = review.scope.print.source,
                                           !.start = review.scope.print])

(* git diff --quiet for one source after the other, then the choice of the source. *)
Detected(r) ==
    IF r.want # "none" THEN r.want
    ELSE IF r.available = {} THEN "none"
    ELSE Order[Min({k \in 1..3 : Order[k] \in r.available})]

Selected(r) ==
    LET source == Detected(r)
    IN IF source \notin r.available /\ r.kind \in {"open", "final"} THEN "none" ELSE source

ReadAvailable ==
    /\ Step("available") /\ Quiet
    /\ LET source == Order[run.seen + 1]
           now == [run EXCEPT !.seen = @ + 1,
                              !.available = IF Changed(diffs[source]) = {} THEN @ ELSE @ \cup {source}]
       IN IF now.seen < 3 THEN To("available", now)
          ELSE IF Selected(now) # "none"
          THEN To(IF run.strict THEN "patterns" ELSE "start", 
                    [now EXCEPT !.source = Selected(now), !.seen = 0, !.available = {}])
          ELSE IF run.strict THEN run' = Fallback
          ELSE To("refused", now)      \* no_diff_available

(* load_scope_configuration: before everything else in run_app, after the choice of
   the source in open_authoritative_scope. *)
ReadPatterns ==
    /\ Step("patterns") /\ Quiet
    /\ To(IF run.strict THEN "start" ELSE "head", [run EXCEPT !.patterns = patterns, !.endPatterns = patterns])

(* Mutant: --expect-scope is not compared. *)
Expected_Ignored(print) == TRUE

Expected(print) == run.expect \in {NoPrint, print}

OpenFingerprint ==
    /\ Step("start") /\ Quiet
    /\ IF Expected(Printed) THEN To("names", [run EXCEPT !.start = Printed])
       ELSE To("refused", run)     \* expected_scope_mismatch_before_collection

ReadNames ==
    /\ Step("names") /\ Quiet
    /\ To("global", [run EXCEPT !.names = Changed(DiffOf(run.source))])

(* The whole diff, for the content patterns; then, for --path, its own diff. *)
ReadGlobal ==
    /\ Step("global") /\ Quiet
    /\ To(IF run.kind = "path" THEN "path" ELSE "units", [run EXCEPT !.flagged = Flagged(DiffOf(run.source))])

ReadPath ==
    /\ Step("path") /\ Quiet
    /\ To("units", [run EXCEPT !.contents = [f \in run.target |-> DiffOf(run.source)[f]]])

Unread == run.names \ DOMAIN run.contents

ReadUnit ==
    /\ Step("units") /\ Quiet
    /\ IF Unread = {} THEN To("end-patterns", run)
       ELSE LET f == CHOOSE f \in Unread : TRUE IN
            To("units", [run EXCEPT !.contents = [g \in DOMAIN @ \cup {f} |->
                             IF g = f THEN DiffOf(run.source)[f] ELSE @[g]]])

ReadEndPatterns ==
    /\ Step("end-patterns") /\ Quiet
    /\ To("end", [run EXCEPT !.endPatterns = patterns])

Units == UnitsOf(run.names, run.contents, run.patterns, run.flagged)
Groups == GroupsOf(Units, run.budget)

(* The closing fingerprint equals the opening one, and is the one expected.  The
   plan goes on to read the diffs it splits. *)
Close ==
    /\ Step("end") /\ Quiet
    /\ IF Printed = run.start /\ Expected(Printed)
       THEN To(IF run.kind = "plan" /\ SplitFiles(Groups) # {} THEN "split" ELSE "answer", run)
       ELSE IF run.strict /\ run.kind # "revalidate" THEN run' = Fallback
       ELSE To("refused", run)     \* scope_changed_during_collection

(* Split Suggestions and Split Unit Diff Preview: one more diff of each file. *)
ReadSplit ==
    /\ Step("split") /\ Quiet
    /\ LET split == SplitFiles(Groups) IN
       To("answer", [run EXCEPT !.previews = [f \in split |-> DiffOf(run.source)[f]]])

(* A git call fails.  The authoritative collection falls back to run_app, which
   takes an unknown HEAD for an answer and ends without output otherwise. *)
GitFails ==
    /\ failures < MaxFailures /\ failures' = failures + 1
    /\ run.step \in {"head", "available", "start", "names", "global", "path", "units", "end", "split"}
    /\ IF run.kind = "revalidate" THEN To("failed", run)
       ELSE IF run.strict THEN run' = Fallback
       ELSE IF Step("head") THEN To("available", [run EXCEPT !.head = 0])
       ELSE To("failed", run)
    /\ UNCHANGED <<world, review, strayed, edits>>

-----------------------------------------------------------------------------
(* The reviewer, who follows the coverage contract of the control plane. *)
Idle == run.step = "idle"
Untouched == UNCHANGED <<world, edits, failures>>

OpenScope ==
    /\ Idle /\ review.stage \in {"closed", "done"}
    /\ \E want \in Sources \cup {"none"}, budget \in Budgets : Invoke("open", want, {}, NoPrint, budget)
    /\ review' = NoReview /\ strayed' = FALSE /\ Untouched

Uncovered == DOMAIN review.scope.units \ DOMAIN review.covered

LoadGroup ==
    /\ Idle /\ review.stage = "open"
    /\ \E id \in DOMAIN review.scope.groups, budget \in Budgets :
        /\ review.scope.groups[id].files \cap Uncovered # {}
        /\ Invoke("group", review.scope.print.source, id, review.scope.print, budget)
    /\ UNCHANGED <<review, strayed>> /\ Untouched

LoadPath ==
    /\ Idle /\ review.stage = "open"
    /\ \E f \in Uncovered, budget \in Budgets :
        /\ review.scope.units[f].group \in SplitGroups(review.scope.groups)
        /\ Invoke("path", review.scope.print.source, {f}, review.scope.print, budget)
    /\ UNCHANGED <<review, strayed>> /\ Untouched

LoadPlan ==
    /\ Idle /\ review.stage = "open" /\ review.previews = <<>>
    /\ \E budget \in Budgets : Invoke("plan", review.scope.print.source, {}, review.scope.print, budget)
    /\ UNCHANGED <<review, strayed>> /\ Untouched

Finish ==
    /\ Idle /\ review.stage = "open" /\ Uncovered = {}
    /\ \/ \E budget \in Budgets : Invoke("final", review.scope.print.source, {}, NoPrint, budget)
       \/ Invoke("revalidate", review.scope.print.source, {}, NoPrint, review.scope.print.budget)
    /\ UNCHANGED <<review, strayed>> /\ Untouched

(* What run prints: the cached bytes of the units it was asked for. *)
Emitted ==
    LET asked == CASE run.kind = "group" -> {f \in run.names : Units[f].group = run.target}
                   [] run.kind = "path" -> run.target \cap run.names
                   [] OTHER -> {}
    IN [f \in asked |-> run.contents[f]]

(* A later answer of a file stands for an earlier one. *)
Along(later, earlier) ==
    [f \in DOMAIN later \cup DOMAIN earlier |-> IF f \in DOMAIN later THEN later[f] ELSE earlier[f]]

Scope == [print |-> run.start, units |-> Units, groups |-> Groups]

Answer ==
    /\ Step("answer") /\ run' = NoRun
    /\ review' = CASE run.kind = "open" -> [NoReview EXCEPT !.stage = "open", !.scope = Scope]
                   [] run.kind \in {"group", "path"} -> [review EXCEPT !.covered = Along(Emitted, @)]
                   [] run.kind = "plan" -> [review EXCEPT !.previews = run.previews]
                   [] run.kind = "final" /\ Scope # review.scope -> NoReview
                   [] OTHER -> [review EXCEPT !.stage = "done"]
    /\ UNCHANGED strayed /\ Untouched

(* authoritative: false, or a revalidation that fails: the coverage is discarded. *)
Refused ==
    /\ Step("refused") /\ run' = NoRun /\ review' = NoReview
    /\ UNCHANGED strayed /\ Untouched

(* A non-zero exit without structured output: the reviewer may ask again. *)
Failed ==
    /\ Step("failed") /\ run' = NoRun
    /\ UNCHANGED <<review, strayed>> /\ Untouched

-----------------------------------------------------------------------------
(* The user.  The fingerprinted diff of a collection whose closing fingerprint is
   still to come may be left and restored; the patterns are read once and cached. *)
Collecting == run.kind # "revalidate" /\ run.step \in {"names", "global", "path", "units", "end-patterns", "end"}
AtStart == diffs[run.source] = run.start.diff

Edited ==
    /\ edits < MaxEdits /\ edits' = edits + 1
    /\ UNCHANGED <<run, review, failures>>
    /\ strayed' = (strayed \/ (Collecting /\ ~AtStart /\ AtStart'))

EditFile ==
    /\ \E f \in Files, v \in Versions : diffs' = [diffs EXCEPT !["unstaged"][f] = v]
    /\ UNCHANGED <<patterns, head>> /\ Edited

StageFile ==
    /\ \E f \in Changed(diffs["unstaged"]) :
        diffs' = [diffs EXCEPT !["staged"][f] = diffs["unstaged"][f], !["unstaged"][f] = "none"]
    /\ UNCHANGED <<patterns, head>> /\ Edited

Commit ==
    /\ Changed(diffs["staged"]) # {} /\ head' = head + 1
    /\ diffs' = [diffs EXCEPT !["staged"] = [f \in Files |-> "none"],
                             !["branch"] = [f \in Files |-> IF diffs["staged"][f] = "none" THEN @[f] ELSE diffs["staged"][f]]]
    /\ UNCHANGED patterns /\ Edited

EditPatterns ==
    /\ \E risk \in SUBSET Files : patterns' = risk
    /\ UNCHANGED <<diffs, head>> /\ Edited

Next ==
    \/ OpenScope \/ LoadGroup \/ LoadPath \/ LoadPlan \/ Finish
    \/ ReadHead \/ ReadAvailable \/ ReadPatterns \/ OpenFingerprint \/ ReadNames \/ ReadGlobal
    \/ ReadPath \/ ReadUnit \/ ReadEndPatterns \/ Close \/ ReadSplit \/ GitFails
    \/ Answer \/ Refused \/ Failed
    \/ EditFile \/ StageFile \/ Commit \/ EditPatterns

Spec == Init /\ [][Next]_vars

-----------------------------------------------------------------------------
(* Every value has its type; a fingerprint's target is at most its hard budget. *)
TypeOK ==
    /\ diffs \in [Sources -> [Files -> Versions]] /\ patterns \subseteq Files /\ head \in 1..MaxEdits + 1
    /\ run.step \in {"idle", "head", "available", "patterns", "start", "names", "global", "path", "units",
                     "end-patterns", "end", "split", "answer", "refused", "failed"}
    /\ run.names \cup run.flagged \cup run.patterns \subseteq Files
    /\ review.stage \in {"closed", "open", "done"}
    /\ review.stage # "closed" => review.scope.print.source \in Sources
                                 /\ review.scope.print.budget.target <= review.scope.print.budget.hard
    /\ DOMAIN review.covered \cup DOMAIN review.previews \subseteq Files
    /\ strayed \in BOOLEAN /\ edits \in 0..MaxEdits /\ failures \in 0..MaxFailures

Opened == review.scope.print

(* An authoritative scope is a scope of one state: whatever was edited between the
   git calls that made it, its units, tags and groups are those of the state its
   fingerprint names, unless that diff was left and restored in between. *)
ScopeIsOfOneState ==
    review.stage # "closed" /\ ~strayed =>
        LET units == UnitsOf(Changed(Opened.diff), Opened.diff, Opened.patterns, Flagged(Opened.diff))
        IN review.scope.units = units /\ review.scope.groups = GroupsOf(units, Opened.budget)

(* A review that ends, by a second control plane or a revalidation, covered every
   unit with the bytes of the one state the opening fingerprint names: answers of
   several invocations are never combined over different states. *)
ReviewedIsOneState ==
    review.stage = "done" /\ ~strayed =>
        review.covered = [f \in Changed(Opened.diff) |-> Opened.diff[f]]

(* A review, from its opening to its end, is of the state its fingerprint names. *)
ReviewIsOfOneState == TypeOK /\ ScopeIsOfOneState /\ ReviewedIsOneState

(* The work order of the control plane, the review plan and the ledger say the same
   of a scope, although each is computed on its own: every unit is required by one
   group, a group that is split has all its units in the ledger as needs-split, and
   what is high-risk is never ranked behind what is not. *)
PlansOrderAlike ==
    LET units == review.scope.units
        groups == review.scope.groups
        plan == ReviewPlan(units, groups)
        order == WorkOrder(groups)
        ledger == Ledger(units, groups)
    IN /\ \A id \in DOMAIN plan : plan[id].work = order[id] /\ plan[id].required = groups[id].files
       /\ \A f \in DOMAIN units :
            /\ Cardinality({id \in DOMAIN plan : f \in plan[id].required}) = 1
            /\ (ledger[f] = "needs-split") <=> (order[units[f].group][2] = "split")
            /\ \A g \in DOMAIN units : units[f].tag = "high-risk" /\ units[g].tag # "high-risk" =>
                    \/ order[units[f].group][1] < order[units[g].group][1]
                    \/ order[units[g].group][2] = "split"

(* The plan, which sums its groups, and the control plane, which counts its units,
   name the same number of high-risk files. *)
CountsAgree == HighRiskOfPlan(review.scope.groups) = HighRiskOfControlPlane(review.scope.units)

(* What is computed apart of one scope agrees: work order, plan, ledger and counts. *)
PlansAgree == PlansOrderAlike /\ CountsAgree

(* What a plan asked for with --expect-scope shows of the files it splits is of the
   expected scope ("cache every Git-derived projection beforehand to avoid
   post-check snapshot mixing"). False of the code: see Divergences in the README. *)
PlanShowsItsScope ==
    ~strayed => \A f \in DOMAIN review.previews : review.previews[f] = Opened.diff[f]
===============================================================================
