----------------------------- MODULE AlgorithmsMC -----------------------------
(* Bounded inputs for what the program computes without waiting for anybody:  *)
(* the evidence of static analysis, the impact document, and the query of a   *)
(* graph laid over a base. An initial state is an input. The first two keep   *)
(* no state between two inputs: their steps compute what the code makes of    *)
(* one. The query is the state machine of GraphOverlay.                       *)
EXTENDS GraphOverlayMC, FiniteSetsExt, SequencesExt

VARIABLES
  task,     \* the input: a record whose kind names the algorithm
  done,     \* whether it has been computed
  outcome   \* what the algorithm returned; before, what it has so far

taskVars == <<task, done, outcome>>

--------------------------------------------------------------------------
(* Static-analysis evidence. The keys a and b are two findings of one place  *)
(* that differ only in their last line, c has no line, o is outside.         *)
Place == [a |-> "unit", b |-> "unit", c |-> "unit", o |-> "unknown"]
E == INSTANCE StaticEvidence WITH
       NoPlace <- "o",
       PathOf <- Place,
       LinesOf <- [a |-> <<2, 3>>, b |-> <<2, 0>>, c |-> <<0, 0>>, o |-> <<3, 3>>],
       RankOf <- [a |-> 2, b |-> 2, c |-> 1, o |-> 0],
       Units <- {"unit"},
       AddedIn <- [unit |-> {1, 3}]

Result(ks, s, c, t, b) ==
  [locations |-> ks, severity |-> s, confidence |-> c, category |-> t, baseline |-> b]
Results ==
  {Result(<<"a">>, s, 3, t, "existing") : s \in {3, 4}, t \in {"unknown", "material"}} \union
  {Result(<<"a">>, 4, 2, "other", "absent"), Result(<<"a">>, 3, 2, "material", "new"),
   Result(<<"b">>, 4, 3, "material", "unknown"), Result(<<"b", "c">>, 4, 4, "material", "new"),
   Result(<<"c">>, 4, 3, "material", "existing"), Result(<<>>, 4, 3, "material", "new")}
Run(is, e, rs) == [invocations |-> is, embedded |-> e, results |-> rs]
Runs == {Run(is, "none", rs) : is \in {<<>>, <<TRUE, FALSE>>},
                               rs \in TupleOf(Results, 1) \union TupleOf(Results, 2)}
ShortRuns == {r \in Runs : Len(r.results) = 1}
Given(b, f, rs) == [bytes |-> b, format |-> f, runs |-> rs]

\* What an execution that failed leaves as its result: a report without findings.
Failure == Given("failure", "normalized",
                <<Run(<<FALSE>>, "s", <<>>)>>)
Entry(p, x, f, ok) == [profile |-> p, execution |-> x, file |-> f, accepted |-> ok]
FirstEntries ==
  {Entry("p", "x", Given("out", "sarif", <<r, q>>), TRUE) : r \in Runs, q \in ShortRuns}
  \union {Entry("p", "x", Failure, FALSE)}
SecondEntries ==
  {Entry("q", "y", Failure, FALSE), Entry("q", "none", Failure, FALSE),
   Entry("q", "y", Given("out", "sarif",
     <<Run(<<TRUE>>, "s", <<Result(<<"a">>, 4, 3, "material", "new"),
                            Result(<<>>, 4, 3, "material", "new")>>)>>), TRUE)}
EvidenceTasks ==
  [kind : {"evidence"}, entries : {<<f, s>> : f \in FirstEntries, s \in SecondEntries},
   max : {1, 2}]
BindingTasks ==
  [kind : {"binding"}, asserted : {"none", "s", "t"},
   file : {Given("out", f, <<Run(<<>>, x, <<>>), Run(<<>>, y, <<>>)>>) :
             f \in {"sarif", "normalized"}, x \in {"none", "s", "t"}, y \in {"none", "s", "t"}}]

\* run_analysis and execute_with_clock: the evidence of each executed entry, then
\* their union and the artifact that links both.
Orchestrate ==
  /\ task.kind = "evidence"
  /\ LET Asserted(e) == IF e.file.format = "sarif" THEN "s" ELSE "none"
         Of(e) == E!Evidences(<<e.file>>, Asserted(e), "s", task.max)
     IN  \E x \in Of(task.entries[1]), y \in Of(task.entries[2]) :
           LET all == [i \in 1 .. 2 |->
                         [profile |-> task.entries[i].profile,
                          execution |-> task.entries[i].execution,
                          accepted |-> task.entries[i].accepted,
                          evidence |-> IF i = 1 THEN x ELSE y]]
               executed == SelectSeq(all, LAMBDA e : e.execution # "none")
           IN  outcome' = [runs |-> all, executed |-> executed,
                          union |-> E!Union(executed, task.max)]

Bind ==
  /\ task.kind = "binding"
  /\ outcome' = E!Evidences(<<task.file>>, task.asserted, "s", 1)

Evidence == done /\ task.kind = "evidence"

(* What blocks was earned: a finding offered as a blocking candidate lies on  *)
(* an added line of the change, and a report of a completed analysis gave     *)
(* that very finding, however many reports were merged into it.               *)
BlockingIsEarned ==
  Evidence =>
    \A i \in DOMAIN outcome.runs :
      \A j \in DOMAIN outcome.runs[i].evidence.findings :
        LET f == outcome.runs[i].evidence.findings[j]
            runs == task.entries[i].file.runs
        IN  f.disposition = 0 =>
              /\ f.key = "a"     \* the only key that touches an added line of a unit
              /\ \E r \in ToSet(runs) : /\ FALSE \notin ToSet(r.invocations)
                                        /\ \E q \in ToSet(r.results) :
                                             /\ f.key \in ToSet(q.locations)
                                             /\ q.baseline # "absent"

(* What a bounded listing leaves out is never worse than what it shows: when  *)
(* it shows a finding, it shows every finding of a more urgent disposition.   *)
CutDropsTheLeast ==
  Evidence =>
    \A i \in DOMAIN outcome.runs :
      LET e == outcome.runs[i].evidence
          shown == ToSet(e.findings)
      IN  /\ (\E f \in shown : f.disposition > 0) =>
               Cardinality({f \in shown : f.disposition = 0}) = e.counts.blocking
          /\ (\E f \in shown : f.disposition > 1) =>
               Cardinality({f \in shown : f.disposition = 1}) = e.counts.priority

(* The counts of a union are those of its parts, whatever the cuts dropped,   *)
(* and the union says it is truncated exactly when it lists fewer findings    *)
(* than it counts, be they lost in one execution or in the union.             *)
UnionCountsAddUp ==
  Evidence =>
    LET u == outcome.union
        Said(e) == {q \in UNION {ToSet(r.results) : r \in ToSet(e.file.runs)} :
                      q.baseline # "absent"}
        Keys(e) == UNION {IF q.locations = <<>> THEN {"o"} ELSE ToSet(q.locations) :
                            q \in Said(e)}
        keys == {<<i, k>> : i \in {n \in 1 .. 2 : task.entries[n].execution # "none"},
                            k \in Keys(task.entries[1]) \union Keys(task.entries[2])}
    IN  /\ u.counts.deduplicated = u.counts.blocking + u.counts.priority + u.counts.notes
                                     + u.counts.outside
        /\ u.counts.deduplicated =
             Cardinality({p \in keys : p[2] \in Keys(task.entries[p[1]])})
        /\ u.truncated <=> Len(u.findings) < u.counts.deduplicated

(* The reports of a result may be read in any order: severity, confidence,    *)
(* baseline, completion and the reports of a merged finding are the same, and *)
(* so is whether its category is known at all.                                *)
MergeIsOrderFree ==
  Evidence =>
    \A i \in DOMAIN task.entries :
      LET rs == E!ParseReport(task.entries[i].file, "s", "s")
          Plain(merged) == {[m EXCEPT !.category = @ = "unknown"] : m \in merged}
      IN  Plain(E!MergeFindings(rs)) = Plain(E!MergeFindings(Reverse(rs)))

(* The artifact the orchestrator builds passes the checks it makes before it  *)
(* releases it, also when two executions produced the same bytes.             *)
ArtifactIsAccepted ==
  Evidence => E!ArtifactIsValid(outcome.runs, E!Status(outcome.runs), outcome.union)

(* A caller cannot assert away the scope a result states: results that embed  *)
(* another scope are refused whatever is asserted, and results that embed     *)
(* none are only taken as SARIF and on the assertion of this very scope.      *)
AssertionNeverOverrides ==
  done /\ task.kind = "binding" /\ outcome # {} =>
    \A r \in ToSet(task.file.runs) :
      \/ r.embedded = "s"
      \/ r.embedded = "none" /\ task.asserted = "s" /\ task.file.format = "sarif"

--------------------------------------------------------------------------
(* The lines of a diff.                                                      *)
Marks == {"+", "-", " "}
Hunk(s, b) == [start |-> s, body |-> b]
NewCount(body) == Len(SelectSeq(body, LAMBDA x : x # "-"))
OldCount(body) == Len(SelectSeq(body, LAMBDA x : x # "+"))
Bodies == UNION {TupleOf(Marks, n) : n \in 1 .. 3}
DiffTasks ==
  [kind : {"diff"},
   hunks : {<<Hunk(s, b), Hunk(9, c)>> : s \in 1 .. 2, b \in Bodies, c \in Bodies},
   second : BOOLEAN]

\* What git prints: a header with both ranges (a count of 1 is left out), the
\* marked lines, a remark, and the headers of the second hunk's file if it is
\* in another file.
Written(hunk) ==
  LET Range0(count, start) == [start |-> start, count |-> count, elided |-> count = 1]
  IN  <<[mark |-> "@@", old |-> Range0(OldCount(hunk.body), hunk.start),
         new |-> Range0(NewCount(hunk.body), hunk.start)]>>
        \o [i \in DOMAIN hunk.body |-> [mark |-> hunk.body[i]]]
        \o <<[mark |-> "\\"]>>
Headers == <<[mark |-> "-"], [mark |-> "+"]>>
Diff == Headers \o Written(task.hunks[1])
                \o (IF task.second THEN Headers ELSE <<>>) \o Written(task.hunks[2])

ReadDiff ==
  /\ task.kind = "diff"
  /\ outcome' = [added |-> E!AddedLines(Diff), ranges |-> E!ChangedRanges(Diff)]

(* The added lines of a diff are the new-side numbers of its + lines: file    *)
(* headers, remarks and the end of a hunk never shift or add one. Without     *)
(* context lines the changed ranges that are no deletion anchors name the     *)
(* same lines.                                                                *)
AddedLinesAreMarked ==
  done /\ task.kind = "diff" =>
    LET Marked(h) == {h.start + NewCount(SubSeq(h.body, 1, i)) - 1 :
                        i \in {n \in DOMAIN h.body : h.body[n] = "+"}}
        marked == Marked(task.hunks[1]) \union Marked(task.hunks[2])
    IN  /\ outcome.added = marked
        /\ (\A h \in ToSet(task.hunks) : " " \notin ToSet(h.body)) =>
             marked = UNION {r.start .. r.end : r \in {q \in ToSet(outcome.ranges) : ~q.anchor}}

--------------------------------------------------------------------------
(* The impact document. F is a Rust file of two functions, which the base    *)
(* graph may know at other places.                                           *)
I == INSTANCE ImpactEngine

Def(name, end, pub) == [name |-> name, end |-> end, pub |-> pub]
Touched(d, affected) == [name |-> d.name, end |-> d.end, pub |-> d.pub, affected |-> affected]
F ==
  [presence |-> "present", read |-> "ok", binary |-> FALSE, generated |-> FALSE, rust |-> TRUE,
   ranges |-> TRUE, size |-> 4, parse |-> "clean", nodes |-> 2, test |-> FALSE,
   symbols |-> <<Touched(Def("f", 2, TRUE), FALSE), Touched(Def("g", 4, FALSE), TRUE)>>,
   captures |-> <<"import", "call">>, matches |-> 1, keys |-> 0, markers |-> 1, hinted |-> FALSE,
   after |-> {Def("f", 2, TRUE), Def("g", 4, FALSE)},
   base |-> {Def("f", 2, TRUE), Def("g", 4, FALSE)}]
Plain == [F EXCEPT !.rust = FALSE, !.symbols = <<>>, !.captures = <<>>, !.after = {}, !.base = {},
                   !.keys = 1, !.hinted = TRUE]
Moved == [F EXCEPT !.base = {Def("f", 1, TRUE), Def("g", 3, TRUE)}]
Shrunk == [F EXCEPT !.base = {Def("f", 2, TRUE), Def("g", 6, FALSE)}]
G == [F EXCEPT !.symbols = <<@[2]>>, !.captures = <<"call">>]
FirstFiles == {F, Moved, [F EXCEPT !.parse = "recovered", !.test = TRUE]}
OtherFiles ==
  {G, Plain} \union {[G EXCEPT !.parse = s] : s \in {"degraded", "failed", "late"}}
  \union {[G EXCEPT !.read = r] : r \in {"large", "failed"}}
  \union {[G EXCEPT !.presence = s, !.symbols = <<>>, !.captures = <<>>] : s \in {"deleted", "gitlink"}}
  \union {[G EXCEPT !.binary = TRUE], [Plain EXCEPT !.generated = TRUE], [G EXCEPT !.ranges = FALSE]}

Ample ==
  [files |-> 9, total |-> 99, nodes |-> 99, facts |-> 99, edges |-> 99, patterns |-> 9, matches |-> 9,
   output |-> 99, expires |-> 9]
ImpactBudgets ==
  {Ample, [Ample EXCEPT !.files = 1], [Ample EXCEPT !.total = 6], [Ample EXCEPT !.nodes = 3],
   [Ample EXCEPT !.patterns = 1], [Ample EXCEPT !.expires = 2], [Ample EXCEPT !.matches = 0]}
  \union {[Ample EXCEPT !.facts = n] : n \in {3, 6, 9}}
  \union {[Ample EXCEPT !.edges = n] : n \in {1, 4}}
  \union {[Ample EXCEPT !.output = n] : n \in {3, 5, 7, 12}}

Lines(read, lines) == [read |-> read, size |-> 1, binary |-> FALSE, lines |-> lines]
None == Lines("absent", <<>>)
Configurations ==
  {<<None, None>>, <<Lines("ok", <<"good", "good">>), Lines("ok", <<"good">>)>>,
   <<Lines("failed", <<>>), None>>,
   <<[Lines("ok", <<>>) EXCEPT !.binary = TRUE], Lines("ok", <<"bad">>)>>}

Answer(status, callers, laid, truncated) ==
  [kind |-> "answer", status |-> status, callers |-> callers, overlay |-> laid,
   truncated |-> truncated]
Repositories ==
  {[kind |-> k] : k \in {"absent", "failed", "drift"}}
  \union {Answer("unavailable", {}, FALSE, FALSE), Answer("completed", {2}, FALSE, FALSE),
          Answer("partial", {3}, TRUE, TRUE)}

Input(files, conf, limits, repository, mode) ==
  [kind |-> "impact", files |-> files, queries |-> conf[1], hints |-> conf[2], budget |-> limits,
   repository |-> repository, mode |-> mode]
ImpactTasks ==
  {Input(<<f, g>>, conf, b, r, m) : f \in FirstFiles, g \in OtherFiles, conf \in Configurations,
                                    b \in ImpactBudgets, r \in Repositories, m \in {"fast"}}
  \union {Input(<<Shrunk>>, <<None, None>>, Ample, Answer("partial", {}, o, FALSE), "fast") :
            o \in BOOLEAN}

Analyze ==
  /\ outcome.so_far = "nothing"
  /\ outcome' = [so_far |-> "analysis", analysis |-> I!Analyses(task)]

Assemble ==
  /\ outcome.so_far = "analysis"
  /\ outcome' = [so_far |-> "documents", documents |-> I!Documents(task, outcome.analysis)]

Present ==
  /\ outcome.so_far = "documents"
  /\ outcome' = UNION {I!Presentations(d, task.budget.output) : d \in outcome.documents}

\* The document is a matter of three steps.
Assess ==
  /\ ~done /\ task.kind = "impact"
  /\ \/ (Analyze \/ Assemble) /\ done' = done
     \/ Present /\ done' = TRUE
  /\ UNCHANGED <<task, queryVars>>

Released ==
  IF done /\ task.kind = "impact"
  THEN {d \in outcome : d.status # "output-budget-too-small"} ELSE {}
FileAt(p) == task.files[p]

(* A document that leaves the engine passes its own check, whatever was cut: *)
(* references resolve, counts add up and every cut is declared. Two inputs   *)
(* are known to break it: a file that the base graph knows longer than it is *)
(* now, and an unreadable file that loses a relationship to the edge budget. *)
ContextIsAccepted ==
  \A d \in Released :
    \/ I!Validate(d)
    \/ /\ task.repository.kind = "answer" /\ task.repository.overlay
       /\ \E p \in DOMAIN task.files : \E s \in FileAt(p).base : s.end > FileAt(p).size
    \/ \E p \in DOMAIN task.files :
         FileAt(p).read = "failed"
           /\ I!Limit("edge-budget-exhausted", "repository", p) \in d.limits

(* The changed-file layer stands whatever the repository graph answers        *)
(* ("changed-file context remains available", engine.rs:619): relationships   *)
(* laid over a base never make the engine reject the document. Not so: the    *)
(* symbols a shorter file lost come with their place in the base.             *)
GraphNeverSpoilsContext ==
  \A d \in Released :
    (\A p \in DOMAIN task.files : FileAt(p).read = "ok") => I!Validate(d)

(* A file that was not read, parsed and searched in full says why, and a     *)
(* file that a budget cut short is never reported as completed; so is a      *)
(* file whose relationships the document lost to the edge budget.            *)
GapsAreDeclared ==
  \A d \in Released :
    \A i \in DOMAIN d.units :
      LET u == d.units[i]
          budgets == {l \in u.limits : l.code \in I!Budgetary}
          defined == {e \in d.edges : e.kind = "defines" /\ e.path = u.path}
      IN  /\ u.syntax # "completed" \/ u.text # "completed" => u.limits # {}
          /\ budgets # {} => u.syntax = "budget" \/ u.text \in {"budget", "partial"}
          /\ ~d.coverage.truncated /\ Cardinality(defined) < Cardinality(u.symbols)
               => u.syntax = "budget" /\ budgets # {}

(* Completed means whole: every touched definition of every changed file is  *)
(* in the document with its edges, every configured query found what there   *)
(* is to find, the configuration was read and nothing was cut.               *)
CompletedIsWhole ==
  \A d \in {x \in Released : x.status = "completed"} :
    /\ ~d.coverage.truncated
    /\ \A file \in {task.queries, task.hints} :
         file.read = "absent" \/ (file.read = "ok" /\ ~file.binary /\ "bad" \notin ToSet(file.lines))
    /\ \A p \in DOMAIN task.files :
         LET f == FileAt(p)
             symbols == {I!SymbolOf(s, p) : s \in ToSet(f.symbols)}
             found == {s \in d.summaries : s.kind = "text query" /\ s.path = p}
         IN  /\ f.presence = "present" /\ f.read = "ok" /\ f.parse = "clean"
             /\ symbols \subseteq d.symbols
             /\ I!UnitEdges(symbols, f.captures, p) \subseteq d.edges
             /\ Cardinality(found) = Len(task.queries.lines) * f.matches

(* A document cut to its size loses what helps least first: a symbol only    *)
(* when no edge and no summary is left, the summary of an interface only     *)
(* when no summary of a text or a dependency is left, and never a unit.      *)
CutKeepsWhatHelps ==
  \A d \in Released :
    LET parsed == {p \in DOMAIN d.units : d.units[p].syntax = "completed"}
        all == UNION {{I!SymbolOf(s, p) : s \in ToSet(FileAt(p).symbols)} : p \in parsed}
        kinds == {s.kind : s \in d.summaries}
        told == {s.symbol : s \in {x \in d.summaries : x.kind = "interface"}}
    IN  /\ Len(d.units) = Len(task.files)
        /\ ~ all \subseteq d.symbols => d.edges = {} /\ d.summaries = {}
        /\ ~ {s \in all : s.pub} \subseteq told => kinds \subseteq {"interface", "test selection", "configuration"}

(* The ledger holds for the whole document, whatever the order of the files: *)
(* bytes searched, facts shown and edges kept stay within their budgets.     *)
BudgetsAreKept ==
  \A d \in Released :
    LET searched == {p \in DOMAIN d.units : d.units[p].text \in {"completed", "partial"}}
        facts == {s \in d.symbols : s.provider = "syntax"}
                   \union {s \in d.summaries : s.kind \in {"text query", "framework", "configuration"}}
    IN  /\ MapThenSumSet(LAMBDA p : FileAt(p).size, searched) <= task.budget.total
        /\ Cardinality(searched) <= task.budget.files
        /\ Cardinality(facts) <= task.budget.facts
        /\ Cardinality(d.edges) <= task.budget.edges
        /\ I!Size(d) <= task.budget.output

(* A budget is kept by leaving out what helps least. *)
BudgetsCutTheLeast == BudgetsAreKept /\ CutKeepsWhatHelps

(* An impact document that is released is accepted by its own check and says *)
(* what it lacks: no gap without a reason, no "completed" with a gap.        *)
ContextIsHonest == ContextIsAccepted /\ GapsAreDeclared /\ CompletedIsWhole

(* What may block a commit has been earned: it lies on a line the diff really *)
(* adds, its scope was not just asserted against what the report says, a      *)
(* completed report gave it, and in whatever order the reports were read.     *)
OnlyEarnedBlocks ==
  BlockingIsEarned /\ AddedLinesAreMarked /\ AssertionNeverOverrides /\ MergeIsOrderFree

(* The union of the evidence of all executions counts everything, hides what  *)
(* is least urgent, and is accepted by the checks before its release.         *)
UnionIsFaithful == UnionCountsAddUp /\ CutDropsTheLeast /\ ArtifactIsAccepted

--------------------------------------------------------------------------
\* While another input is computed the query stays where it starts.
Idle ==
  /\ candidate = CHOOSE c \in Candidates : TRUE
  /\ budget = CHOOSE b \in Budgets : TRUE
  /\ QueryInit

Unanswered == [so_far |-> "nothing"]
AnyInput ==
  \/ /\ Idle
     /\ task \in EvidenceTasks \union BindingTasks \union DiffTasks \union ImpactTasks
     /\ done = FALSE
     /\ outcome = Unanswered
  \/ QueryInit /\ task = [kind |-> "query"] /\ done = TRUE /\ outcome = Unanswered

Compute ==
  /\ ~done
  /\ done' = TRUE
  /\ UNCHANGED <<task, queryVars>>
  /\ \/ Orchestrate
     \/ Bind
     \/ ReadDiff

AnyStep ==
  \/ Compute
  \/ Assess
  \/ task.kind = "query" /\ QueryNext /\ UNCHANGED taskVars

AlgorithmsSpec == AnyInput /\ [][AnyStep]_<<queryVars, taskVars>>
===============================================================================
