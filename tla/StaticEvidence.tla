--------------------------- MODULE StaticEvidence ---------------------------
(* How static-analysis results become evidence (src/static_analysis:         *)
(* evidence.rs, evidence_union.rs and the artifact checks of contracts.rs)   *)
(* and how a diff says which lines are added (review_scope.rs).              *)
(*                                                                           *)
(* A result file is its identity (bytes), its format and its runs; a finding *)
(* is a key (tool, rule, message, path and lines together) with a severity,  *)
(* a confidence, a category and a baseline. What the properties do not tell  *)
(* apart of a key is the constants PathOf, LinesOf and RankOf. Severities    *)
(* and confidences are the numbers of severity_order and confidence_order.   *)
(* Identifiers that the code derives with SHA256 are the tuples it hashes.   *)
EXTENDS Naturals, SequencesExt

CONSTANTS
  NoPlace,    \* the key of a finding without a location
  PathOf,     \* PathOf[k]: the normalized path of a finding with key k
  LinesOf,    \* LinesOf[k]: the first and the last line stated for it, 0 for none
  RankOf,     \* RankOf[k]: its place by path, first line, tool, rule and message
  Units,      \* the paths the manifest of the review has a unit for
  AddedIn     \* AddedIn[p]: the added lines of the path p of a unit

None == "none"
Error == 4
High == 3

--------------------------------------------------------------------------
(* Reading the result files. A result has the keys of its locations.        *)

\* resolve_sarif_scope: an embedded fingerprint decides alone, an assertion of
\* the caller only speaks for a SARIF run that embeds none. A normalized input
\* has to embed one.
Binding(file, run, asserted, expected) ==
  LET claimed == IF run.embedded = None /\ file.format = "sarif"
                 THEN asserted ELSE run.embedded
  IN  IF claimed # expected THEN "refused"
      ELSE IF run.embedded = None THEN "explicit-assertion" ELSE "embedded"

\* parse_sarif: a run is completed unless one of its invocations says it failed
\* (a normalized input states its status, here as its only invocation).
RunStatus(run) == IF FALSE \in ToSet(run.invocations) THEN "failed" ELSE "completed"

\* parse_sarif: one finding for each location of a result, one without a place
\* for a result that has no location, none for a result whose baseline is absent.
Located(results) ==
  LET Findings(r) ==
        IF r.baseline = "absent" THEN <<>>
        ELSE LET keys == IF r.locations = <<>> THEN <<NoPlace>> ELSE r.locations
             IN  [i \in DOMAIN keys |->
                    [key |-> keys[i], severity |-> r.severity, confidence |-> r.confidence,
                     category |-> r.category, baseline |-> r.baseline]]
  IN  FlattenSeq([i \in DOMAIN results |-> Findings(results[i])])

\* parse_report_file: one report for each run of the file.
ParseReport(file, asserted, expected) ==
  [i \in DOMAIN file.runs |->
     LET run == file.runs[i]
     IN  [id |-> <<file.bytes, i>>, status |-> RunStatus(run),
          binding |-> Binding(file, run, asserted, expected),
          findings |-> Located(run.results)]]

\* collect_evidence_against_scope: the reports of all files, each identifier once.
DistinctReports(parsed) ==
  FoldLeft(LAMBDA kept, r : IF \E i \in DOMAIN kept : kept[i].id = r.id
                            THEN kept ELSE Append(kept, r),
           <<>>, parsed)

--------------------------------------------------------------------------
(* Merging: one finding for each key.                                       *)

Larger(a, b) == IF a > b THEN a ELSE b

\* merge_findings, for a finding whose key is known already.
Absorb(merged, said) ==
  [merged EXCEPT
     !.reports = @ \union said.reports,
     !.severity = Larger(@, said.severity),
     !.confidence = Larger(@, said.confidence),
     !.category = IF @ = "unknown" THEN said.category ELSE @,
     !.baseline = CASE said.baseline = "new" -> "new"
                    [] @ = "unknown" /\ said.baseline = "existing" -> "existing"
                    [] OTHER -> @,
     !.completed = @ \/ said.completed]

\* merge_findings: every finding with the report that gave it, in the order read.
Sayings(reports) ==
  FlattenSeq([i \in DOMAIN reports |->
    [j \in DOMAIN reports[i].findings |->
       LET f == reports[i].findings[j]
       IN  [key |-> f.key, severity |-> f.severity, confidence |-> f.confidence,
            category |-> f.category, baseline |-> f.baseline,
            reports |-> {reports[i].id},
            completed |-> reports[i].status = "completed"]]])

\* merge_findings: the findings, merged by key.
MergeFindings(reports) ==
  LET said == Sayings(reports)
      Of(k) == SelectSeq(said, LAMBDA s : s.key = k)
  IN  {FoldLeft(Absorb, Head(Of(k)), Tail(Of(k))) : k \in {said[i].key : i \in DOMAIN said}}

--------------------------------------------------------------------------
(* Classifying, ordering and cutting.                                       *)

\* sarif_finding: a last line that is missing or before the first is the first.
Region(key) == <<LinesOf[key][1], Larger(LinesOf[key][1], LinesOf[key][2])>>

\* build_preliminary_evidence: where a finding stands relative to the change.
LineScope(key) ==
  LET first == Region(key)[1]
      last == Region(key)[2]
  IN  IF PathOf[key] \notin Units THEN "outside-scope"
      ELSE IF first = 0 THEN "unknown"
      ELSE IF \E l \in first .. last : l \in AddedIn[PathOf[key]]
      THEN "added" ELSE "unchanged"

(* Mutant: a finding only failed reports gave can block. *)
Blocks_Unfinished(m, scope) ==
  /\ scope = "added"
  /\ m.category = "material"
  /\ m.severity >= Error
  /\ m.confidence >= High

\* build_preliminary_evidence: only a finding that a completed report gave, on
\* an added line, material, at least an error and of high confidence can block.
Blocks(m, scope) ==
  /\ m.completed
  /\ scope = "added"
  /\ m.category = "material"
  /\ m.severity >= Error
  /\ m.confidence >= High

\* build_preliminary_evidence: 0 blocking candidate, 1 priority candidate,
\* 2 note, 3 outside the scope (disposition_order).
Disposition(m, scope) ==
  IF scope = "outside-scope" THEN 3
  ELSE IF Blocks(m, scope) THEN 0
  ELSE IF /\ m.completed
          /\ m.category = "material"
          /\ m.severity >= Error - 1
          /\ scope \in {"added", "unknown"} \/ m.baseline = "new"
       THEN 1 ELSE 2

\* build_preliminary_evidence: a merged finding with its line scope and its
\* disposition; one on an added line is new whatever the analyzer said.
Classify(m) ==
  LET scope == LineScope(m.key)
      seen == IF scope = "added" THEN [m EXCEPT !.baseline = "new"] ELSE m
  IN  [id |-> m.key, key |-> m.key, reports |-> m.reports, severity |-> m.severity,
       confidence |-> m.confidence, category |-> m.category,
       baseline |-> seen.baseline, scope |-> scope,
       disposition |-> Disposition(seen, scope)]

\* The comparison of the final sort, which leaves keys of the same rank (they
\* differ only in their last line) in the order of a hash map.
NotAfter(a, b) ==
  LET Place(f) == <<f.disposition, 5 - f.severity, 4 - f.confidence, RankOf[f.key]>>
      differs == {i \in 1 .. 4 : Place(a)[i] # Place(b)[i]}
  IN  \/ differs = {}
      \/ \E i \in differs : /\ \A j \in differs : i <= j
                            /\ Place(a)[i] < Place(b)[i]

\* Every order the sort can leave the findings in.
Listings(findings) ==
  {s \in SetToSeqs(findings) : \A i, j \in DOMAIN s : i < j => NotAfter(s[i], s[j])}

Cut(s, max) == SubSeq(s, 1, IF Len(s) > max THEN max ELSE Len(s))

\* evidence_counts.
Counts(reports, given, findings) ==
  [reports |-> Len(reports), input |-> given, deduplicated |-> Cardinality(findings),
   blocking |-> Cardinality({f \in findings : f.disposition = 0}),
   priority |-> Cardinality({f \in findings : f.disposition = 1}),
   notes |-> Cardinality({f \in findings : f.disposition = 2}),
   outside |-> Cardinality({f \in findings : f.disposition = 3})]

\* collect_evidence (the order of the reports by identifier is left out): the
\* evidence that the files can become, none when a run of
\* one of them is bound to another scope or to no scope.
Evidences(files, asserted, expected, max) ==
  LET parsed == FlattenSeq([i \in DOMAIN files |->
                              ParseReport(files[i], asserted, expected)])
      reports == DistinctReports(parsed)
      found == {Classify(m) : m \in MergeFindings(reports)}
      given == Len(Sayings(reports))
  IN  IF \E i \in DOMAIN parsed : parsed[i].binding = "refused" THEN {}
      ELSE {[reports |-> [i \in DOMAIN reports |->
                            [id |-> reports[i].id, status |-> reports[i].status]],
             counts |-> Counts(reports, given, found),
             findings |-> Cut(s, max),
             truncated |-> Len(s) > max] : s \in Listings(found)}

--------------------------------------------------------------------------
(* The union of the evidence of several executions.                         *)

\* union_evidence: an identifier is made one of its execution.
Combined(execution, id) == <<execution, id>>

\* add_counts.
AddCounts(a, b) == [c \in DOMAIN a |-> a[c] + b[c]]

(* Mutant: only a cut of the union itself is reported. *)
Union_OwnCut(runs, max) ==
  LET Ids(run, ids) == {Combined(run.execution, id) : id \in ids}
      reports == FlattenSeq([i \in DOMAIN runs |->
        [j \in DOMAIN runs[i].evidence.reports |->
          [runs[i].evidence.reports[j] EXCEPT !.id = Combined(runs[i].execution, @)]]])
      findings == FlattenSeq([i \in DOMAIN runs |->
        [j \in DOMAIN runs[i].evidence.findings |->
          [runs[i].evidence.findings[j] EXCEPT !.id = Combined(runs[i].execution, @),
                                               !.reports = Ids(runs[i], @)]]])
  IN  [reports |-> reports,
       counts |-> FoldLeft(AddCounts, Counts(<<>>, 0, {}),
                           [i \in DOMAIN runs |-> runs[i].evidence.counts]),
       findings |-> Cut(findings, max),
       truncated |-> Len(findings) > max]

\* union_evidence: the reports and findings of the executions in their order,
\* cut to max findings. runs is a sequence of executions with their evidence.
Union(runs, max) ==
  LET Ids(run, ids) == {Combined(run.execution, id) : id \in ids}
      reports == FlattenSeq([i \in DOMAIN runs |->
        [j \in DOMAIN runs[i].evidence.reports |->
          [runs[i].evidence.reports[j] EXCEPT !.id = Combined(runs[i].execution, @)]]])
      findings == FlattenSeq([i \in DOMAIN runs |->
        [j \in DOMAIN runs[i].evidence.findings |->
          [runs[i].evidence.findings[j] EXCEPT !.id = Combined(runs[i].execution, @),
                                               !.reports = Ids(runs[i], @)]]])
  IN  [reports |-> reports,
       counts |-> FoldLeft(AddCounts, Counts(<<>>, 0, {}),
                           [i \in DOMAIN runs |-> runs[i].evidence.counts]),
       findings |-> Cut(findings, max),
       truncated |-> \/ Len(findings) > max
                     \/ \E i \in DOMAIN runs : runs[i].evidence.truncated]

\* orchestration_status: accepted results decide.
Status(runs) ==
  LET accepted == {i \in DOMAIN runs : runs[i].accepted}
  IN  IF accepted = DOMAIN runs THEN "completed"
      ELSE IF accepted # {} THEN "partial" ELSE "failed"

\* OrchestrationArtifact::validate: unique runs, the status the runs imply,
\* reports exactly when a run was executed, unique identifiers and executions
\* that link exactly the reports. runs: every run of the orchestration; one
\* that was not executed has the execution none.
ArtifactIsValid(runs, status, evidence) ==
  LET executed == {i \in DOMAIN runs : runs[i].execution # None}
      linked == UNION {{Combined(runs[i].execution, runs[i].evidence.reports[j].id) :
                          j \in DOMAIN runs[i].evidence.reports} : i \in executed}
  IN  /\ Len(runs) \in 1 .. 16
      /\ \A i, j \in DOMAIN runs : runs[i].profile = runs[j].profile => i = j
      /\ status = Status(runs)
      /\ executed = {} <=> evidence.reports = <<>>
      /\ evidence.counts.reports = Len(evidence.reports)
      /\ \A i, j \in DOMAIN evidence.reports :
           evidence.reports[i].id = evidence.reports[j].id => i = j
      /\ \A i, j \in DOMAIN evidence.findings :
           evidence.findings[i].id = evidence.findings[j].id => i = j
      /\ linked = {evidence.reports[i].id : i \in DOMAIN evidence.reports}

--------------------------------------------------------------------------
(* Which lines a diff adds. A line of a diff is its mark; a hunk header      *)
(* carries its new range, where a count of 1 is left out (0 - 1 here).       *)

\* parse_hunk_range: the count of a range, which is 1 when git leaves it out.
RangeCount(range) == IF range.elided THEN 1 ELSE range.count

\* parse_hunk_header: where a hunk starts and what is left of it.
Cursor(header) == [next |-> header.new.start, old |-> RangeCount(header.old),
                   new |-> RangeCount(header.new), added |-> {}]

\* parse_added_lines, one line: a line counts only while the hunk has lines of
\* its side left, so that the file headers of a diff are never content.
AddedStep(c, line) ==
  CASE line.mark = "@@" -> [Cursor(line) EXCEPT !.added = c.added]
    [] line.mark = "+" /\ c.new > 0 ->
         [c EXCEPT !.added = @ \union {c.next}, !.next = @ + 1, !.new = @ - 1]
    [] line.mark = "-" /\ c.old > 0 -> [c EXCEPT !.old = @ - 1]
    [] line.mark = " " /\ c.old > 0 /\ c.new > 0 ->
         [c EXCEPT !.next = @ + 1, !.new = @ - 1, !.old = @ - 1]
    [] OTHER -> c

\* parse_added_lines.
AddedLines(diff) ==
  FoldLeft(AddedStep, [next |-> 0, old |-> 0, new |-> 0, added |-> {}], diff).added

\* parse_changed_ranges: the new range of every hunk; a hunk that only deletes
\* leaves the line it is anchored at, at least 1.
ChangedRanges(diff) ==
  LET headers == SelectSeq(diff, LAMBDA line : line.mark = "@@")
  IN  [i \in DOMAIN headers |->
         LET start == headers[i].new.start
             count == RangeCount(headers[i].new)
         IN  [start |-> IF count = 0 THEN Larger(start, 1) ELSE start,
              end |-> IF count = 0 THEN Larger(start, 1) ELSE start + count - 1,
              anchor |-> count = 0]]
=============================================================================
