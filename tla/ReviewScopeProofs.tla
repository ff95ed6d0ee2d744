--------------------------- MODULE ReviewScopeProofs ---------------------------
(***************************************************************************)
(* What ReviewScope guarantees for any files, risk patterns and budgets,   *)
(* and any number of edits and failures: an authoritative scope is of one  *)
(* state, a review that ends covered that state, and what is computed      *)
(* apart of one scope agrees.                                              *)
(*                                                                         *)
(* A git call is answered from whatever the sources are by then.  What a   *)
(* collection read is of the fingerprinted diff D only as long as the      *)
(* source still shows D or, having left it, has not returned; so the       *)
(* invariant says of a collection under way that IF its source shows D,    *)
(* what was read is of D, and the closing fingerprint discharges the IF.   *)
(***************************************************************************)
EXTENDS ReviewScope, SequenceFolds, FiniteSetTheorems, TLAPS

Steps == {"idle", "head", "available", "patterns", "start", "names", "global", "path", "units",
          "end-patterns", "end", "split", "answer", "refused", "failed"}
Collections == {"open", "group", "path", "plan", "final"}
Kinds == Collections \cup {"none", "revalidate"}
Within(b) == b \in [target : Nat, hard : Nat] /\ b.target <= b.hard

(* The repository, the bounds and the shape of the records. *)
World ==
  /\ diffs \in [Sources -> [Files -> Versions]] /\ patterns \subseteq Files
  /\ edits \in 0..MaxEdits /\ failures \in 0..MaxFailures /\ strayed \in BOOLEAN
  /\ head \in 1..edits + 1

Typed ==
  /\ DOMAIN run = DOMAIN NoRun
  /\ run.kind \in Kinds /\ run.step \in Steps /\ (run.kind = "none" <=> run.step = "idle")
  /\ run.want \in Sources \cup {"none"} /\ run.strict \in BOOLEAN
  /\ run.seen \in 0..3 /\ run.available \subseteq Sources
  /\ run.step # "refused" => run.seen \in 0..2
  /\ run.patterns \subseteq Files /\ run.endPatterns \subseteq Files
  /\ run.names \subseteq Files /\ run.flagged \subseteq Files /\ DOMAIN run.previews \subseteq Files
  /\ run.kind # "none" => Within(run.budget)
  /\ DOMAIN review = DOMAIN NoReview
  /\ review.stage \in {"closed", "open", "done"}
  /\ DOMAIN review.covered \subseteq Files /\ DOMAIN review.previews \subseteq Files

(* The review an invocation belongs to: the one it opens is not yet open, and the
   one it serves stays as it was when the reviewer asked. *)
Serving ==
  /\ run.kind = "open" => review = NoReview
  /\ run.kind \in {"group", "path", "plan", "final", "revalidate"} => review.stage = "open"
  /\ run.kind \in {"group", "path", "plan"} => run.expect = Opened
  /\ run.kind \in {"final", "revalidate"} => Uncovered = {}

Printing == {"names", "global", "path", "units", "end-patterns", "end", "split", "answer"}
Before == {"head", "available", "patterns", "start"}

(* The opening fingerprint is of what the invocation read until then. *)
Fingerprinted ==
  /\ run.step \in Before => run.contents = <<>>
  /\ run.step \in {"head", "available", "start"} => run.endPatterns = run.patterns
  /\ run.step = "start" \/ (run.step = "patterns" /\ run.strict) => run.source \in Sources
  /\ run.kind # "revalidate" /\ run.step \in Printing =>
       /\ run.source \in Sources
       /\ run.start.diff \in [Files -> Versions]
       /\ run.start = Fingerprint(run.source, run.head, run.start.diff, run.patterns, run.budget)
       /\ run.expect \in {NoPrint, run.start}

(* What was read until this step is of the diff d. *)
ReadOf(d) ==
  /\ run.step # "names" => run.names = Changed(d)
  /\ run.step \notin {"names", "global"} => run.flagged = Flagged(d)
  /\ \A f \in DOMAIN run.contents : run.contents[f] = d[f]

(* A collection has read its fingerprinted diff, if that is what its source shows; once
   the closing fingerprint was compared, whatever the source shows. *)
Collected ==
  /\ run.step \in {"end-patterns", "end", "split", "answer"} /\ run.kind # "revalidate"
       => run.names \subseteq DOMAIN run.contents
  /\ ~strayed /\ Collecting /\ AtStart => ReadOf(run.start.diff)
  /\ ~strayed /\ run.kind # "revalidate" /\ run.step \in {"split", "answer"} => ReadOf(run.start.diff)

ScopeOf(p) ==
  LET units == UnitsOf(Changed(p.diff), p.diff, p.patterns, Flagged(p.diff))
  IN [print |-> p, units |-> units, groups |-> GroupsOf(units, p.budget)]

(* The scope of a review is the scope of its fingerprint; what is covered is of it. *)
Reviewed ==
  review.stage # "closed" =>
    /\ Opened # NoPrint /\ Opened.source \in Sources /\ Opened.diff \in [Files -> Versions]
    /\ Within(Opened.budget)
    /\ ~strayed =>
         /\ review.scope.units = ScopeOf(Opened).units
         /\ review.scope.groups = ScopeOf(Opened).groups
         /\ DOMAIN review.covered \subseteq Changed(Opened.diff)
         /\ \A f \in DOMAIN review.covered : review.covered[f] = Opened.diff[f]
         /\ review.covered = [f \in DOMAIN review.covered |-> review.covered[f]]
         /\ review.stage = "done" => Changed(Opened.diff) \subseteq DOMAIN review.covered

Inv == World /\ Typed /\ Serving /\ Fingerprinted /\ Collected /\ Reviewed

\* The three sources are in this order.
LEMMA SourceFacts ==
  /\ Sources = {"staged", "unstaged", "branch"}
  /\ Order[1] = "staged" /\ Order[2] = "unstaged" /\ Order[3] = "branch"
  /\ "none" \notin Sources
  BY DEF Sources, Order, Range

\* A fingerprint is not the lack of one.
LEMMA PrintIsSomething ==
  ASSUME NEW s, NEW h, NEW d, NEW p, NEW b
  PROVE  Fingerprint(s, h, d, p, b) # NoPrint
<1>1. DOMAIN Fingerprint(s, h, d, p, b) # {}
  BY DEF Fingerprint
<1>2. DOMAIN NoPrint = {}
  BY DEF NoPrint
<1> QED BY <1>1, <1>2

\* The first source that shows a change is a source.
LEMMA DetectedIsASource ==
  ASSUME NEW r, r.want \in Sources \cup {"none"}, r.available \subseteq Sources, Detected(r) # "none"
  PROVE  Detected(r) \in Sources
<1>1. CASE r.want # "none"
  BY <1>1 DEF Detected
<1>2. CASE r.want = "none"
  <2>1. r.available # {}
    BY <1>2 DEF Detected
  <2> DEFINE K == {k \in 1..3 : Order[k] \in r.available}
  <2>2. \E k \in K : \A y \in K : k <= y
    <3>1. K \subseteq {1, 2, 3} /\ K # {}
      BY <2>1, SourceFacts
    <3> QED BY <3>1
  <2>3. Min(K) \in K
    BY <2>2 DEF Min
  <2> QED BY <1>2, <2>1, <2>3 DEF Detected
<1> QED BY <1>1, <1>2

\* The target the code works with is at most the hard budget.
LEMMA BudgetIsWithin ==
  ASSUME NEW b, b.target \in Nat, b.hard \in Nat
  PROVE  Within([target |-> Min({b.target, b.hard}), hard |-> b.hard])
<1>1. \E x \in {b.target, b.hard} : \A y \in {b.target, b.hard} : x <= y
  OBVIOUS
<1>2. Min({b.target, b.hard}) \in {b.target, b.hard} /\ Min({b.target, b.hard}) <= b.hard
  BY <1>1 DEF Min
<1> QED BY <1>2 DEF Within

\* What is read of a diff is of the files.
LEMMA DiffFacts ==
  ASSUME NEW d
  PROVE  Changed(d) \subseteq Files /\ Flagged(d) \subseteq Files
  BY DEF Changed, Flagged

\* The sources are known by name.
LEMMA DiffOfASource ==
  ASSUME World, NEW s \in Sources
  PROVE  DiffOf(s) = diffs[s] /\ diffs[s] \in [Files -> Versions]
  BY DEF DiffOf, World

-----------------------------------------------------------------------------
(* The initial states. *)

\* No invocation is under way and no review is open.
LEMMA InitInv == Init => Inv
<1> SUFFICES ASSUME Init PROVE Inv OBVIOUS
<1>1. World
  <2>1. diffs \in [Sources -> [Files -> Versions]]
    BY DEF Init, Versions
  <2>2. strayed \in BOOLEAN
    BY DEF Init
  <2>3. edits \in 0..MaxEdits /\ failures \in 0..MaxFailures /\ head \in 1..edits + 1 /\ patterns \subseteq Files
    BY ReviewAssumption DEF Init
  <2> QED BY <2>1, <2>2, <2>3 DEF World
<1> USE DEF Init, NoRun, NoReview, NoScope, NoPrint
<1>2. Typed
  BY SourceFacts DEF Typed, Kinds, Collections, Steps
<1>3. Serving /\ Fingerprinted /\ Collected /\ Reviewed
  BY DEF Serving, Fingerprinted, Collected, Reviewed, Printing, Before, Collecting
<1> QED BY <1>1, <1>2, <1>3 DEF Inv

-----------------------------------------------------------------------------
RunFields == {"kind", "step", "want", "target", "expect", "strict", "budget", "head", "seen", "available",
              "source", "patterns", "endPatterns", "start", "names", "flagged", "contents", "previews"}

\* What EXCEPT changes of an invocation is one of its fields.
LEMMA RunIsARecord ==
  ASSUME Inv
  PROVE  DOMAIN run = RunFields /\ DOMAIN NoRun = RunFields
  BY DEF Inv, Typed, NoRun, RunFields

(* The steps of an invocation, which change neither the repository nor the review. *)

\* Such a step leaves what is said of the repository and of the review.
LEMMA Quietly ==
  ASSUME Inv, UNCHANGED <<world, review, strayed, edits>>, failures' \in 0..MaxFailures,
         run'.kind = run.kind, run'.expect = run.expect, Typed', Fingerprinted', Collected'
  PROVE  Inv'
<1>1. World'
  BY DEF Inv, World, world
<1>2. Serving'
  BY DEF Inv, Serving, Opened, Uncovered
<1>3. Reviewed'
  BY DEF Inv, Reviewed, Opened
<1> QED BY <1>1, <1>2, <1>3 DEF Inv

\* An invocation that starts again, is refused or fails has read nothing.
LEMMA GivingUp ==
  ASSUME Inv, run.step \notin {"idle", "refused"}, UNCHANGED <<world, review, strayed, edits>>, failures' \in 0..MaxFailures,
         run' = Fallback \/ To("refused", run) \/ To("failed", run)
  PROVE  Inv'
<1>0. /\ DOMAIN run = RunFields /\ DOMAIN run' = RunFields
      /\ run'.step \in {"patterns", "refused", "failed"}
      /\ run'.kind = run.kind /\ run'.expect = run.expect /\ run'.want = run.want
      /\ run'.patterns = run.patterns /\ run'.endPatterns = run.endPatterns
      /\ run'.previews = run.previews /\ run'.budget = run.budget
      /\ run'.seen \in {run.seen, 0} /\ run'.available \in {run.available, {}}
      /\ run'.names \in {run.names, {}} /\ run'.flagged \in {run.flagged, {}}
      /\ run'.step = "patterns" => ~run'.strict /\ run'.contents = <<>> /\ run'.seen = 0
      /\ run'.strict \in {run.strict, FALSE}
  BY RunIsARecord DEF Fallback, To, RunFields
<1>1. Typed'
  <2>1. run'.strict \in BOOLEAN
    BY <1>0 DEF Inv, Typed
  <2> QED BY <1>0, <2>1, RunIsARecord DEF Inv, Typed, Steps
<1>3. Fingerprinted' /\ Collected'
  BY <1>0 DEF Fingerprinted, Collected, Collecting, Printing, Before
<1> QED BY <1>0, <1>1, <1>3, Quietly


\* A read of HEAD: a revalidation goes on only if it is the one of the review.
LEMMA ReadHeadStep == Inv /\ ReadHead => Inv'
<1> SUFFICES ASSUME Inv, ReadHead PROVE Inv' OBVIOUS
<1>0. run.step = "head" /\ UNCHANGED <<world, review, strayed, edits, failures>> /\ failures' \in 0..MaxFailures
  BY DEF ReadHead, Step, Quiet, Inv, World
<1>1. CASE run.kind # "revalidate"
  <2>1. run' = [[run EXCEPT !.head = head] EXCEPT !.step = "available"]
    BY <1>1 DEF ReadHead, To
  <2>2. Typed'
    BY <1>0, <2>1, RunIsARecord DEF Inv, Typed, Steps, RunFields
  <2>3. Fingerprinted' /\ Collected'
    BY <1>0, <2>1, RunIsARecord DEF RunFields, Inv, Fingerprinted, Collected, Collecting, Printing, Before
  <2>4. run'.kind = run.kind /\ run'.expect = run.expect
    BY <2>1, RunIsARecord DEF RunFields
  <2> QED BY <1>0, <2>2, <2>3, <2>4, Quietly
<1>2. CASE run.kind = "revalidate" /\ head # review.scope.print.head
  BY <1>0, <1>2, GivingUp DEF ReadHead
<1>3. CASE run.kind = "revalidate" /\ head = review.scope.print.head
  <2>1. run' = [[run EXCEPT !.head = head, !.source = review.scope.print.source, !.start = review.scope.print]
                  EXCEPT !.step = "end-patterns"]
    BY <1>3 DEF ReadHead, To
  <2>2. Typed'
    BY <1>0, <2>1, RunIsARecord DEF Inv, Typed, Steps, RunFields
  <2>3. run'.kind = run.kind /\ run'.expect = run.expect /\ run'.step = "end-patterns"
    BY <2>1, RunIsARecord DEF RunFields
  <2>4. Fingerprinted' /\ Collected'
    BY <1>3, <2>3 DEF Fingerprinted, Collected, Collecting, Before
  <2> QED BY <1>0, <2>2, <2>3, <2>4, Quietly
<1> QED BY <1>1, <1>2, <1>3

\* One source after the other, then the choice of the source.
LEMMA ReadAvailableStep == Inv /\ ReadAvailable => Inv'
<1> SUFFICES ASSUME Inv, ReadAvailable PROVE Inv' OBVIOUS
<1> DEFINE source == Order[run.seen + 1]
           now == [run EXCEPT !.seen = @ + 1,
                              !.available = IF Changed(diffs[source]) = {} THEN @ ELSE @ \cup {source}]
<1>0. run.step = "available" /\ UNCHANGED <<world, review, strayed, edits, failures>> /\ failures' \in 0..MaxFailures
  BY DEF ReadAvailable, Step, Quiet, Inv, World
<1>a. /\ run.seen \in 0..2 /\ run.available \subseteq Sources /\ run.want \in Sources \cup {"none"}
      /\ run.contents = <<>> /\ run.endPatterns = run.patterns /\ source \in Sources
      /\ run.kind # "none"
  BY <1>0, SourceFacts DEF Inv, Typed, Fingerprinted, Before
<1>b. /\ DOMAIN now = RunFields /\ now.seen = run.seen + 1 /\ now.available \subseteq Sources
      /\ \A x \in RunFields \ {"seen", "available"} : now[x] = run[x]
  BY <1>a, RunIsARecord DEF RunFields
<1>c. /\ now.want = run.want /\ now.kind = run.kind /\ now.expect = run.expect /\ now.strict = run.strict
      /\ now.contents = run.contents /\ now.patterns = run.patterns /\ now.endPatterns = run.endPatterns
      /\ now.names = run.names /\ now.flagged = run.flagged /\ now.previews = run.previews
      /\ now.budget = run.budget
  BY <1>b DEF RunFields
<1> HIDE DEF now, source
<1>1. CASE now.seen < 3
  <2>1. run' = [now EXCEPT !.step = "available"]
    BY <1>1 DEF ReadAvailable, To, now, source
  <2>2. run'.kind = run.kind /\ run'.expect = run.expect
    BY <1>b, <1>c, <2>1 DEF RunFields
  <2>3. Typed'
    BY <1>0, <1>1, <1>a, <1>b, <1>c, <2>1, RunIsARecord DEF Inv, Typed, Steps, RunFields
  <2>4. Fingerprinted' /\ Collected'
    BY <1>a, <1>b, <1>c, <2>1 DEF RunFields, Fingerprinted, Collected, Collecting, Printing, Before
  <2> QED BY <1>0, <2>2, <2>3, <2>4, Quietly
<1>2. CASE ~(now.seen < 3) /\ Selected(now) # "none"
  <2>1. run' = [[now EXCEPT !.source = Selected(now), !.seen = 0, !.available = {}]
                   EXCEPT !.step = IF run.strict THEN "patterns" ELSE "start"]
    BY <1>2 DEF ReadAvailable, To, now, source
  <2>2. Selected(now) \in Sources
    BY <1>2, <1>a, <1>b, <1>c, DetectedIsASource DEF Selected
  <2>3. run'.kind = run.kind /\ run'.expect = run.expect
    BY <1>b, <1>c, <2>1 DEF RunFields
  <2>4. Typed'
    BY <1>0, <1>a, <1>b, <1>c, <2>1, RunIsARecord DEF Inv, Typed, Steps, RunFields
  <2>5. Fingerprinted' /\ Collected'
    BY <1>a, <1>b, <1>c, <2>1, <2>2 DEF RunFields, Fingerprinted, Collected, Collecting, Printing, Before
  <2> QED BY <1>0, <2>3, <2>4, <2>5, Quietly
<1>3. CASE ~(now.seen < 3) /\ Selected(now) = "none" /\ run.strict
  <2>1. run' = Fallback
    BY <1>3 DEF ReadAvailable, now, source
  <2> QED BY <1>0, <2>1, GivingUp
<1>4. CASE ~(now.seen < 3) /\ Selected(now) = "none" /\ ~run.strict
  <2>1. run' = [now EXCEPT !.step = "refused"]
    BY <1>4 DEF ReadAvailable, To, now, source
  <2>2. run'.kind = run.kind /\ run'.expect = run.expect /\ run'.step = "refused"
    BY <1>b, <1>c, <2>1 DEF RunFields
  <2>3. Typed'
    BY <1>0, <1>a, <1>b, <1>c, <2>1, RunIsARecord DEF Inv, Typed, Steps, RunFields
  <2>4. Fingerprinted' /\ Collected'
    BY <2>2 DEF Fingerprinted, Collected, Collecting, Printing, Before
  <2> QED BY <1>0, <2>2, <2>3, <2>4, Quietly
<1> QED BY <1>1, <1>2, <1>3, <1>4

\* The risk patterns are read, and cached.
LEMMA ReadPatternsStep == Inv /\ ReadPatterns => Inv'
<1> SUFFICES ASSUME Inv, ReadPatterns PROVE Inv' OBVIOUS
<1>0. run.step = "patterns" /\ UNCHANGED <<world, review, strayed, edits, failures>> /\ failures' \in 0..MaxFailures
  BY DEF ReadPatterns, Step, Quiet, Inv, World
<1>1. run' = [[run EXCEPT !.patterns = patterns, !.endPatterns = patterns]
                 EXCEPT !.step = IF run.strict THEN "start" ELSE "head"]
  BY DEF ReadPatterns, To
<1>2. run'.kind = run.kind /\ run'.expect = run.expect
  BY <1>1, RunIsARecord DEF RunFields
<1>3. Typed'
  BY <1>0, <1>1, RunIsARecord DEF Inv, World, Typed, Steps, RunFields
<1>4. Fingerprinted' /\ Collected'
  BY <1>0, <1>1, RunIsARecord DEF RunFields, Inv, Fingerprinted, Collected, Collecting, Printing, Before
<1> QED BY <1>0, <1>2, <1>3, <1>4, Quietly

\* The opening fingerprint.
LEMMA OpenFingerprintStep == Inv /\ OpenFingerprint => Inv'
<1> SUFFICES ASSUME Inv, OpenFingerprint PROVE Inv' OBVIOUS
<1>0. run.step = "start" /\ UNCHANGED <<world, review, strayed, edits, failures>> /\ failures' \in 0..MaxFailures
  BY DEF OpenFingerprint, Step, Quiet, Inv, World
<1>1. CASE Expected(Printed)
  <2>1. run' = [[run EXCEPT !.start = Printed] EXCEPT !.step = "names"]
    BY <1>1 DEF OpenFingerprint, To
  <2>2. /\ run'.kind = run.kind /\ run'.expect = run.expect /\ run'.step = "names" /\ run'.start = Printed
        /\ run'.source = run.source /\ run'.head = run.head /\ run'.patterns = run.patterns
        /\ run'.budget = run.budget /\ run'.contents = run.contents
    BY <2>1, RunIsARecord DEF RunFields
  <2>3. Typed'
    BY <1>0, <2>1, RunIsARecord DEF Inv, Typed, Steps, RunFields
  <2>4. run.source \in Sources /\ run.endPatterns = run.patterns /\ run.contents = <<>>
    BY <1>0 DEF Inv, Fingerprinted, Before
  <2>5. /\ Printed.diff = diffs[run.source] /\ diffs[run.source] \in [Files -> Versions]
        /\ Printed = Fingerprint(run.source, run.head, Printed.diff, run.patterns, run.budget)
    BY <2>4, DiffOfASource DEF Inv, Printed, Fingerprint
  <2>6. run.expect \in {NoPrint, Printed}
    BY <1>1 DEF Expected
  <2>7. Fingerprinted'
    <3> HIDE DEF Printed
    <3> QED BY <2>2, <2>4, <2>5, <2>6 DEF Fingerprinted, Before, Printing
  <2>8. Collected'
    BY <2>2, <2>4 DEF Collected, ReadOf
  <2> QED BY <1>0, <2>2, <2>3, <2>7, <2>8, Quietly
<1>2. CASE ~Expected(Printed)
  BY <1>0, <1>2, GivingUp DEF OpenFingerprint
<1> QED BY <1>1, <1>2

\* What a read changes of a collection does not touch its fingerprint.
LEMMA Reading ==
  ASSUME Inv, run.step \in Printing, run'.step \in Printing,
         UNCHANGED <<world, strayed>>,
         run'.kind = run.kind, run'.expect = run.expect, run'.start = run.start, run'.source = run.source,
         run'.head = run.head, run'.patterns = run.patterns, run'.budget = run.budget
  PROVE  Fingerprinted' /\ (AtStart' <=> AtStart)
  BY DEF Inv, Fingerprinted, Printing, Before, AtStart, world

\* The names of the files that changed.
LEMMA ReadNamesStep == Inv /\ ReadNames => Inv'
<1> SUFFICES ASSUME Inv, ReadNames PROVE Inv' OBVIOUS
<1>0. run.step = "names" /\ UNCHANGED <<world, review, strayed, edits, failures>> /\ failures' \in 0..MaxFailures
  BY DEF ReadNames, Step, Quiet, Inv, World
<1>1. run' = [[run EXCEPT !.names = Changed(DiffOf(run.source))] EXCEPT !.step = "global"]
  BY DEF ReadNames, To
<1>2. /\ run'.kind = run.kind /\ run'.expect = run.expect /\ run'.step = "global" /\ run'.start = run.start
      /\ run'.source = run.source /\ run'.head = run.head /\ run'.patterns = run.patterns
      /\ run'.budget = run.budget /\ run'.contents = run.contents /\ run'.names = Changed(DiffOf(run.source))
  BY <1>1, RunIsARecord DEF RunFields
<1>3. Typed'
  BY <1>0, <1>1, DiffFacts, RunIsARecord DEF Inv, Typed, Steps, RunFields
<1>4. Fingerprinted' /\ (AtStart' <=> AtStart)
  BY <1>0, <1>2, Reading DEF Printing
<1>5. Collected'
  <2>1. CASE run.kind # "revalidate"
    <3>1. DiffOf(run.source) = diffs[run.source]
      BY <1>0, <2>1, DiffOfASource DEF Inv, Fingerprinted, Printing
    <3> QED BY <1>0, <1>2, <1>4, <2>1, <3>1 DEF Inv, Collected, ReadOf, Collecting, AtStart
  <2>2. CASE run.kind = "revalidate"
    BY <1>2, <2>2 DEF Collected, Collecting
  <2> QED BY <2>1, <2>2
<1> QED BY <1>0, <1>2, <1>3, <1>4, <1>5, Quietly

\* The whole diff, for the content patterns.
LEMMA ReadGlobalStep == Inv /\ ReadGlobal => Inv'
<1> SUFFICES ASSUME Inv, ReadGlobal PROVE Inv' OBVIOUS
<1>0. run.step = "global" /\ UNCHANGED <<world, review, strayed, edits, failures>> /\ failures' \in 0..MaxFailures
  BY DEF ReadGlobal, Step, Quiet, Inv, World
<1>1. run' = [[run EXCEPT !.flagged = Flagged(DiffOf(run.source))]
                 EXCEPT !.step = IF run.kind = "path" THEN "path" ELSE "units"]
  BY DEF ReadGlobal, To
<1>2. /\ run'.kind = run.kind /\ run'.expect = run.expect /\ run'.step \in {"path", "units"}
      /\ run'.start = run.start /\ run'.source = run.source /\ run'.head = run.head
      /\ run'.patterns = run.patterns /\ run'.budget = run.budget /\ run'.contents = run.contents
      /\ run'.names = run.names /\ run'.flagged = Flagged(DiffOf(run.source))
  BY <1>1, RunIsARecord DEF RunFields
<1>3. Typed'
  BY <1>0, <1>1, DiffFacts, RunIsARecord DEF Inv, Typed, Steps, RunFields
<1>4. Fingerprinted' /\ (AtStart' <=> AtStart)
  BY <1>0, <1>2, Reading DEF Printing
<1>5. Collected'
  <2>1. CASE run.kind # "revalidate"
    <3>1. DiffOf(run.source) = diffs[run.source]
      BY <1>0, <2>1, DiffOfASource DEF Inv, Fingerprinted, Printing
    <3> QED BY <1>0, <1>2, <1>4, <2>1, <3>1 DEF Inv, Collected, ReadOf, Collecting, AtStart
  <2>2. CASE run.kind = "revalidate"
    BY <1>2, <2>2 DEF Collected, Collecting
  <2> QED BY <2>1, <2>2
<1> QED BY <1>0, <1>2, <1>3, <1>4, <1>5, Quietly

\* The diff of the path that was asked for.
LEMMA ReadPathStep == Inv /\ ReadPath => Inv'
<1> SUFFICES ASSUME Inv, ReadPath PROVE Inv' OBVIOUS
<1>0. run.step = "path" /\ UNCHANGED <<world, review, strayed, edits, failures>> /\ failures' \in 0..MaxFailures
  BY DEF ReadPath, Step, Quiet, Inv, World
<1>1. run' = [[run EXCEPT !.contents = [f \in run.target |-> DiffOf(run.source)[f]]] EXCEPT !.step = "units"]
  BY DEF ReadPath, To
<1>2. /\ run'.kind = run.kind /\ run'.expect = run.expect /\ run'.step = "units"
      /\ run'.start = run.start /\ run'.source = run.source /\ run'.head = run.head
      /\ run'.patterns = run.patterns /\ run'.budget = run.budget
      /\ run'.names = run.names /\ run'.flagged = run.flagged
      /\ run'.contents = [f \in run.target |-> DiffOf(run.source)[f]]
  BY <1>1, RunIsARecord DEF RunFields
<1>3. Typed'
  BY <1>0, <1>1, RunIsARecord DEF Inv, Typed, Steps, RunFields
<1>4. Fingerprinted' /\ (AtStart' <=> AtStart)
  BY <1>0, <1>2, Reading DEF Printing
<1>5. Collected'
  <2>1. CASE run.kind # "revalidate"
    <3>1. DiffOf(run.source) = diffs[run.source]
      BY <1>0, <2>1, DiffOfASource DEF Inv, Fingerprinted, Printing
    <3> QED BY <1>0, <1>2, <1>4, <2>1, <3>1 DEF Inv, Collected, ReadOf, Collecting, AtStart
  <2>2. CASE run.kind = "revalidate"
    BY <1>2, <2>2 DEF Collected, Collecting
  <2> QED BY <2>1, <2>2
<1> QED BY <1>0, <1>2, <1>3, <1>4, <1>5, Quietly

\* The diff of one more file, until every name has its own.
LEMMA ReadUnitStep == Inv /\ ReadUnit => Inv'
<1> SUFFICES ASSUME Inv, ReadUnit PROVE Inv' OBVIOUS
<1>0. run.step = "units" /\ UNCHANGED <<world, review, strayed, edits, failures>> /\ failures' \in 0..MaxFailures
  BY DEF ReadUnit, Step, Quiet, Inv, World
<1>1. CASE Unread = {}
  <2>1. run' = [run EXCEPT !.step = "end-patterns"]
    BY <1>1 DEF ReadUnit, To
  <2>2. /\ run'.kind = run.kind /\ run'.expect = run.expect /\ run'.step = "end-patterns"
        /\ run'.start = run.start /\ run'.source = run.source /\ run'.head = run.head
        /\ run'.patterns = run.patterns /\ run'.budget = run.budget
        /\ run'.names = run.names /\ run'.flagged = run.flagged /\ run'.contents = run.contents
    BY <2>1, RunIsARecord DEF RunFields
  <2>3. Typed'
    BY <1>0, <2>1, RunIsARecord DEF Inv, Typed, Steps, RunFields
  <2>4. Fingerprinted' /\ (AtStart' <=> AtStart)
    BY <1>0, <2>2, Reading DEF Printing
  <2>5. Collected'
    BY <1>0, <1>1, <2>2, <2>4 DEF Inv, Collected, ReadOf, Collecting, Unread
  <2> QED BY <1>0, <2>2, <2>3, <2>4, <2>5, Quietly
<1>2. CASE Unread # {}
  <2> DEFINE f == CHOOSE f \in Unread : TRUE
             more == [g \in DOMAIN run.contents \cup {f} |-> IF g = f THEN DiffOf(run.source)[f] ELSE run.contents[g]]
  <2>1. run' = [[run EXCEPT !.contents = more] EXCEPT !.step = "units"]
    BY <1>2, RunIsARecord DEF ReadUnit, To, RunFields
  <2>2. /\ run'.kind = run.kind /\ run'.expect = run.expect /\ run'.step = "units"
        /\ run'.start = run.start /\ run'.source = run.source /\ run'.head = run.head
        /\ run'.patterns = run.patterns /\ run'.budget = run.budget
        /\ run'.names = run.names /\ run'.flagged = run.flagged /\ run'.contents = more
    <3> HIDE DEF more
    <3> QED BY <2>1, RunIsARecord DEF RunFields
  <2>3. Typed'
    <3> HIDE DEF more
    <3> QED BY <1>0, <2>1, RunIsARecord DEF Inv, Typed, Steps, RunFields
  <2>4. Fingerprinted' /\ (AtStart' <=> AtStart)
    <3> HIDE DEF more
    <3> QED BY <1>0, <2>2, Reading DEF Printing
  <2>5. Collected'
    <3>1. CASE run.kind # "revalidate"
      <4>1. DiffOf(run.source) = diffs[run.source]
        BY <1>0, <3>1, DiffOfASource DEF Inv, Fingerprinted, Printing
      <4> HIDE DEF f
      <4> QED BY <1>0, <2>2, <2>4, <3>1, <4>1 DEF Inv, Collected, ReadOf, Collecting, AtStart
    <3>2. CASE run.kind = "revalidate"
      BY <2>2, <3>2 DEF Collected, Collecting
    <3> QED BY <3>1, <3>2
  <2> HIDE DEF more
  <2> QED BY <1>0, <2>2, <2>3, <2>4, <2>5, Quietly
<1> QED BY <1>1, <1>2

\* The patterns are read again, for the closing fingerprint only.
LEMMA ReadEndPatternsStep == Inv /\ ReadEndPatterns => Inv'
<1> SUFFICES ASSUME Inv, ReadEndPatterns PROVE Inv' OBVIOUS
<1>0. run.step = "end-patterns" /\ UNCHANGED <<world, review, strayed, edits, failures>> /\ failures' \in 0..MaxFailures
  BY DEF ReadEndPatterns, Step, Quiet, Inv, World
<1>1. run' = [[run EXCEPT !.endPatterns = patterns] EXCEPT !.step = "end"]
  BY DEF ReadEndPatterns, To
<1>2. /\ run'.kind = run.kind /\ run'.expect = run.expect /\ run'.step = "end"
      /\ run'.start = run.start /\ run'.source = run.source /\ run'.head = run.head
      /\ run'.patterns = run.patterns /\ run'.budget = run.budget
      /\ run'.names = run.names /\ run'.flagged = run.flagged /\ run'.contents = run.contents
  BY <1>1, RunIsARecord DEF RunFields
<1>3. Typed'
  BY <1>0, <1>1, RunIsARecord DEF Inv, World, Typed, Steps, RunFields
<1>4. Fingerprinted' /\ (AtStart' <=> AtStart)
  BY <1>0, <1>2, Reading DEF Printing
<1>5. Collected'
  BY <1>0, <1>2, <1>4 DEF Inv, Collected, ReadOf, Collecting
<1> QED BY <1>0, <1>2, <1>3, <1>4, <1>5, Quietly

\* The closing fingerprint shows that the source shows what was fingerprinted.
LEMMA CloseStep == Inv /\ Close => Inv'
<1> SUFFICES ASSUME Inv, Close PROVE Inv' OBVIOUS
<1>0. run.step = "end" /\ UNCHANGED <<world, review, strayed, edits, failures>> /\ failures' \in 0..MaxFailures
  BY DEF Close, Step, Quiet, Inv, World
<1>1. CASE Printed = run.start /\ Expected(Printed)
  <2> DEFINE next == IF run.kind = "plan" /\ SplitFiles(Groups) # {} THEN "split" ELSE "answer"
  <2>1. run' = [run EXCEPT !.step = next]
    BY <1>1 DEF Close, To
  <2>a. next \in {"split", "answer"}
    OBVIOUS
  <2> HIDE DEF next
  <2>2. /\ run'.kind = run.kind /\ run'.expect = run.expect /\ run'.step = next
        /\ run'.start = run.start /\ run'.source = run.source /\ run'.head = run.head
        /\ run'.patterns = run.patterns /\ run'.budget = run.budget
        /\ run'.names = run.names /\ run'.flagged = run.flagged /\ run'.contents = run.contents
    BY <2>1, RunIsARecord DEF RunFields
  <2>3. Typed'
    BY <1>0, <2>1, <2>a, RunIsARecord DEF Inv, Typed, Steps, RunFields
  <2>4. Fingerprinted' /\ (AtStart' <=> AtStart)
    BY <1>0, <2>2, <2>a, Reading DEF Printing
  <2>5. Collected'
    <3>1. CASE run.kind # "revalidate"
      <4>1. run.source \in Sources /\ DiffOf(run.source) = diffs[run.source]
        BY <1>0, <3>1, DiffOfASource DEF Inv, Fingerprinted, Printing
      <4>2. AtStart
        BY <1>1, <4>1 DEF AtStart, Printed, Fingerprint
      <4> QED BY <1>0, <2>2, <2>a, <3>1, <4>2 DEF Inv, Collected, ReadOf, Collecting
    <3>2. CASE run.kind = "revalidate"
      BY <2>2, <3>2 DEF Collected, Collecting
    <3> QED BY <3>1, <3>2
  <2> QED BY <1>0, <2>2, <2>3, <2>4, <2>5, Quietly
<1>2. CASE ~(Printed = run.start /\ Expected(Printed))
  <2>1. run' = Fallback \/ To("refused", run)
    BY <1>2 DEF Close
  <2> QED BY <1>0, <2>1, GivingUp
<1> QED BY <1>1, <1>2

\* The files of split groups are units of the scope.
LEMMA SplitFilesAreUnits ==
  ASSUME NEW units, NEW b
  PROVE  SplitFiles(GroupsOf(units, b)) \subseteq DOMAIN units
  BY DEF SplitFiles, SplitGroups, GroupsOf

\* The plan reads the files it splits once more.
LEMMA ReadSplitStep == Inv /\ ReadSplit => Inv'
<1> SUFFICES ASSUME Inv, ReadSplit PROVE Inv' OBVIOUS
<1>0. run.step = "split" /\ UNCHANGED <<world, review, strayed, edits, failures>> /\ failures' \in 0..MaxFailures
  BY DEF ReadSplit, Step, Quiet, Inv, World
<1> DEFINE split == SplitFiles(Groups)
           shown == [f \in split |-> DiffOf(run.source)[f]]
<1>1. run' = [[run EXCEPT !.previews = shown] EXCEPT !.step = "answer"]
  BY DEF ReadSplit, To
<1>a. DOMAIN shown \subseteq Files
  <2>1. split \subseteq DOMAIN Units
    BY SplitFilesAreUnits DEF Groups
  <2>2. DOMAIN Units = run.names
    BY DEF Units, UnitsOf
  <2> QED BY <2>1, <2>2 DEF Inv, Typed
<1> HIDE DEF shown
<1>2. /\ run'.kind = run.kind /\ run'.expect = run.expect /\ run'.step = "answer"
      /\ run'.start = run.start /\ run'.source = run.source /\ run'.head = run.head
      /\ run'.patterns = run.patterns /\ run'.budget = run.budget
      /\ run'.names = run.names /\ run'.flagged = run.flagged /\ run'.contents = run.contents
  BY <1>1, RunIsARecord DEF RunFields
<1>3. Typed'
  BY <1>0, <1>1, <1>a, RunIsARecord DEF Inv, Typed, Steps, RunFields
<1>4. Fingerprinted' /\ (AtStart' <=> AtStart)
  BY <1>0, <1>2, Reading DEF Printing
<1>5. Collected'
  BY <1>0, <1>2, <1>4 DEF Inv, Collected, ReadOf, Collecting
<1> QED BY <1>0, <1>2, <1>3, <1>4, <1>5, Quietly

\* A git call that fails: the invocation starts again, ends, or goes on without HEAD.
LEMMA GitFailsStep == Inv /\ GitFails => Inv'
<1> SUFFICES ASSUME Inv, GitFails PROVE Inv' OBVIOUS
<1>0. /\ run.step \notin {"idle", "refused"} /\ UNCHANGED <<world, review, strayed, edits>>
      /\ failures' \in 0..MaxFailures
  <2>1. failures' \in 0..MaxFailures
    BY ReviewAssumption DEF GitFails, Inv, World
  <2> QED BY <2>1 DEF GitFails
<1>1. CASE run' = Fallback \/ To("refused", run) \/ To("failed", run)
  BY <1>0, <1>1, GivingUp
<1>2. CASE run.step = "head" /\ To("available", [run EXCEPT !.head = 0])
  <2>1. run' = [[run EXCEPT !.head = 0] EXCEPT !.step = "available"]
    BY <1>2 DEF To
  <2>2. Typed'
    BY <1>0, <1>2, <2>1, RunIsARecord DEF Inv, Typed, Steps, RunFields
  <2>3. Fingerprinted' /\ Collected'
    BY <1>2, <2>1, RunIsARecord DEF RunFields, Inv, Fingerprinted, Collected, Collecting, Printing, Before
  <2>4. run'.kind = run.kind /\ run'.expect = run.expect
    BY <2>1, RunIsARecord DEF RunFields
  <2> QED BY <1>0, <2>2, <2>3, <2>4, Quietly
<1> QED BY <1>1, <1>2 DEF GitFails, Step

-----------------------------------------------------------------------------
(* The steps of the reviewer. *)

\* An invocation begins having read nothing, with a target within its hard budget.
LEMMA Invoking ==
  ASSUME Inv, NEW kind \in Kinds \ {"none"}, NEW want \in Sources \cup {"none"}, NEW target, NEW expect,
         NEW budget, budget.target \in Nat, budget.hard \in Nat,
         Invoke(kind, want, target, expect, budget), review' \in {review, NoReview}
  PROVE  Typed' /\ Fingerprinted' /\ Collected' /\ run'.kind = kind /\ run'.expect = expect
<1> DEFINE b == [target |-> Min({budget.target, budget.hard}), hard |-> budget.hard]
<1>1. Within(b)
  BY BudgetIsWithin
<1> HIDE DEF b
<1>2. run' = [NoRun EXCEPT !.kind = kind, !.want = want, !.target = target, !.expect = expect,
                   !.strict = kind \in {"open", "final", "revalidate"},
                   !.step = IF kind \in {"open", "final", "revalidate"} THEN "head" ELSE "patterns",
                   !.budget = b]
  BY DEF Invoke, b
<1>3. /\ DOMAIN run' = RunFields /\ run'.kind = kind /\ run'.expect = expect /\ run'.want = want
      /\ run'.step \in {"head", "patterns"} /\ run'.budget = b /\ run'.contents = <<>>
      /\ run'.seen = 0 /\ run'.available = {} /\ run'.patterns = {} /\ run'.endPatterns = {}
      /\ run'.names = {} /\ run'.flagged = {} /\ run'.previews = <<>>
  BY <1>2 DEF NoRun, RunFields
<1>4. run'.strict \in BOOLEAN /\ (run'.step = "patterns" => ~run'.strict)
  <2> DEFINE strict == kind \in {"open", "final", "revalidate"}
  <2>1. strict \in BOOLEAN
    <3>1. CASE kind \in {"open", "final", "revalidate"}
      BY <3>1
    <3>2. CASE kind \notin {"open", "final", "revalidate"}
      BY <3>2
    <3> QED BY <3>1, <3>2
  <2>2. run'.step = "patterns" => ~strict
    BY <1>2 DEF NoRun
  <2> HIDE DEF strict
  <2>3. run'.strict = strict
    <3>1. run' = [NoRun EXCEPT !.kind = kind, !.want = want, !.target = target, !.expect = expect,
                   !.strict = strict,
                   !.step = IF kind \in {"open", "final", "revalidate"} THEN "head" ELSE "patterns",
                   !.budget = b]
      BY <1>2 DEF strict
    <3> QED BY <3>1 DEF NoRun
  <2> QED BY <2>1, <2>2, <2>3
<1>5. /\ DOMAIN review' = DOMAIN NoReview /\ review'.stage \in {"closed", "open", "done"}
      /\ DOMAIN review'.covered \subseteq Files /\ DOMAIN review'.previews \subseteq Files
  BY DEF Inv, Typed, NoReview
<1>6. Typed'
  BY <1>1, <1>3, <1>4, <1>5, RunIsARecord DEF Typed, Steps, Kinds, Collections
<1>7. Fingerprinted' /\ Collected'
  BY <1>3, <1>4 DEF Fingerprinted, Collected, Collecting, Printing
<1> QED BY <1>3, <1>6, <1>7

\* A review is opened: what was recorded before is discarded.
LEMMA OpenScopeStep == Inv /\ OpenScope => Inv'
<1> SUFFICES ASSUME Inv, OpenScope PROVE Inv' OBVIOUS
<1>1. review' = NoReview /\ strayed' = FALSE /\ UNCHANGED <<world, edits, failures>>
  BY DEF OpenScope, Untouched
<1>2. PICK want \in Sources \cup {"none"}, budget \in Budgets : Invoke("open", want, {}, NoPrint, budget)
  BY DEF OpenScope
<1>3. budget.target \in Nat /\ budget.hard \in Nat
  BY ReviewAssumption
<1>4. Typed' /\ Fingerprinted' /\ Collected' /\ run'.kind = "open"
  BY <1>1, <1>2, <1>3, Invoking DEF Kinds, Collections
<1>5. World'
  <2>1. strayed' \in BOOLEAN
    BY <1>1
  <2> QED BY <1>1, <2>1 DEF Inv, World, world
<1>6. Serving' /\ Reviewed'
  BY <1>1, <1>4 DEF Serving, Reviewed, NoReview
<1> QED BY <1>4, <1>5, <1>6 DEF Inv

\* A load, a plan or a last look serves the review that is open.
LEMMA AskingStep ==
  ASSUME Inv, review.stage = "open", UNCHANGED <<world, review, strayed, edits, failures>>,
         NEW kind \in {"group", "path", "plan", "final", "revalidate"}, NEW target, NEW expect, NEW budget,
         budget.target \in Nat, budget.hard \in Nat,
         Invoke(kind, Opened.source, target, expect, budget),
         kind \in {"group", "path", "plan"} => expect = Opened,
         kind \in {"final", "revalidate"} => Uncovered = {}
  PROVE  Inv'
<1>1. Opened.source \in Sources
  BY DEF Inv, Reviewed
<1>2. Typed' /\ Fingerprinted' /\ Collected' /\ run'.kind = kind /\ run'.expect = expect
  BY <1>1, Invoking DEF Kinds, Collections
<1>3. World' /\ Reviewed'
  BY DEF Inv, World, world, Reviewed, Opened
<1>4. Serving'
  BY <1>2 DEF Serving, Opened, Uncovered
<1> QED BY <1>2, <1>3, <1>4 DEF Inv

\* The reviewer loads a group, a path or the plan, and ends with a last look.
LEMMA ReviewerSteps == Inv /\ (LoadGroup \/ LoadPath \/ LoadPlan \/ Finish) => Inv'
<1> SUFFICES ASSUME Inv, LoadGroup \/ LoadPath \/ LoadPlan \/ Finish PROVE Inv' OBVIOUS
<1>1. review.stage = "open" /\ UNCHANGED <<world, review, strayed, edits, failures>>
  BY DEF LoadGroup, LoadPath, LoadPlan, Finish, Untouched
<1>2. \A budget \in Budgets : budget.target \in Nat /\ budget.hard \in Nat
  BY ReviewAssumption
<1>3. CASE LoadGroup
  <2>1. PICK id \in DOMAIN review.scope.groups, budget \in Budgets : Invoke("group", Opened.source, id, Opened, budget)
    BY <1>3 DEF LoadGroup, Opened
  <2> QED BY <1>1, <1>2, <2>1, AskingStep
<1>4. CASE LoadPath
  <2>1. PICK f \in Uncovered, budget \in Budgets : Invoke("path", Opened.source, {f}, Opened, budget)
    BY <1>4 DEF LoadPath, Opened
  <2> QED BY <1>1, <1>2, <2>1, AskingStep
<1>5. CASE LoadPlan
  <2>1. PICK budget \in Budgets : Invoke("plan", Opened.source, {}, Opened, budget)
    BY <1>5 DEF LoadPlan, Opened
  <2> QED BY <1>1, <1>2, <2>1, AskingStep
<1>6. CASE Finish
  <2>1. Uncovered = {}
    BY <1>6 DEF Finish
  <2>2. CASE \E budget \in Budgets : Invoke("final", Opened.source, {}, NoPrint, budget)
    BY <1>1, <1>2, <2>1, <2>2, AskingStep
  <2>3. CASE Invoke("revalidate", Opened.source, {}, NoPrint, Opened.budget)
    <3>1. Opened.budget.target \in Nat /\ Opened.budget.hard \in Nat
      BY <1>1 DEF Inv, Reviewed, Within
    <3> QED BY <1>1, <2>1, <2>3, <3>1, AskingStep
  <2> QED BY <1>6, <2>2, <2>3 DEF Finish, Opened
<1> QED BY <1>3, <1>4, <1>5, <1>6

-----------------------------------------------------------------------------
(* The answers. *)

\* Once an invocation has ended, only the review is left to speak of.
LEMMA Ending ==
  ASSUME Inv, run' = NoRun, UNCHANGED <<world, strayed, edits, failures>>, Reviewed',
         DOMAIN review' = DOMAIN NoReview, review'.stage \in {"closed", "open", "done"},
         DOMAIN review'.covered \subseteq Files, DOMAIN review'.previews \subseteq Files
  PROVE  Inv'
<1>1. World'
  BY DEF Inv, World, world
<1>2. /\ DOMAIN run' = RunFields /\ run'.kind = "none" /\ run'.step = "idle" /\ run'.want = "none"
      /\ run'.seen = 0 /\ run'.available = {} /\ run'.patterns = {} /\ run'.endPatterns = {}
      /\ run'.names = {} /\ run'.flagged = {} /\ run'.previews = <<>> /\ run'.strict = FALSE
  BY DEF NoRun, RunFields
<1>3. run'.strict \in BOOLEAN
  BY <1>2
<1>4. Typed'
  BY <1>2, <1>3, RunIsARecord DEF Typed, Kinds, Steps
<1>5. Serving' /\ Fingerprinted' /\ Collected'
  BY <1>2 DEF Serving, Fingerprinted, Collected, Collecting, Printing, Before
<1> QED BY <1>1, <1>4, <1>5 DEF Inv

\* What a collection derived when its closing fingerprint was compared is the scope of it.
LEMMA CollectedScope ==
  ASSUME Inv, run.kind # "revalidate", run.step = "answer", ~strayed
  PROVE  Units = ScopeOf(run.start).units /\ Groups = ScopeOf(run.start).groups
<1> DEFINE d == run.start.diff
<1>1. /\ run.names = Changed(d) /\ run.flagged = Flagged(d) /\ run.names \subseteq DOMAIN run.contents
      /\ \A f \in DOMAIN run.contents : run.contents[f] = d[f]
  BY DEF Inv, Collected, ReadOf
<1>2. run.patterns = run.start.patterns /\ run.budget = run.start.budget
  BY DEF Inv, Fingerprinted, Printing, Fingerprint
<1>3. Units = UnitsOf(Changed(d), d, run.start.patterns, Flagged(d))
  BY <1>1, <1>2 DEF Units, UnitsOf
<1> QED BY <1>2, <1>3 DEF Groups, ScopeOf

\* What an invocation prints of the units it was asked for is of the diff it fingerprinted.
LEMMA EmittedFacts ==
  ASSUME Inv, run.kind # "revalidate", run.step = "answer"
  PROVE  /\ DOMAIN Emitted \subseteq run.names
         /\ ~strayed => \A f \in DOMAIN Emitted : Emitted[f] = run.start.diff[f]
<1> DEFINE asked == CASE run.kind = "group" -> {f \in run.names : Units[f].group = run.target}
                      [] run.kind = "path" -> run.target \cap run.names
                      [] OTHER -> {}
<1>1. Emitted = [f \in asked |-> run.contents[f]]
  BY DEF Emitted
<1>2. asked \subseteq run.names
  BY Zenon
<1> HIDE DEF asked
<1> QED BY <1>1, <1>2 DEF Inv, Collected, ReadOf

\* The answer opens, extends or ends the review.
LEMMA AnswerStep == Inv /\ Answer => Inv'
<1> SUFFICES ASSUME Inv, Answer PROVE Inv' OBVIOUS
<1>0. run.step = "answer" /\ run' = NoRun /\ UNCHANGED <<world, strayed, edits, failures>>
  BY DEF Answer, Step, Untouched
<1>r. DOMAIN review = {"stage", "scope", "covered", "previews"} /\ DOMAIN NoReview = {"stage", "scope", "covered", "previews"}
  BY DEF Inv, Typed, NoReview
<1>n. run.kind \in {"open", "group", "path", "plan", "final", "revalidate"}
  BY <1>0 DEF Inv, Typed, Kinds, Collections
<1>1. CASE run.kind = "open"
  <2>1. review' = [NoReview EXCEPT !.stage = "open", !.scope = Scope]
    BY <1>1 DEF Answer
  <2>2. /\ review'.stage = "open" /\ review'.scope = Scope /\ review'.covered = <<>> /\ review'.previews = <<>>
        /\ DOMAIN review' = DOMAIN NoReview
    BY <2>1 DEF NoReview
  <2>3. Opened' = run.start /\ review'.scope.units = Units /\ review'.scope.groups = Groups
    BY <2>2 DEF Opened, Scope
  <2>4. /\ run.start # NoPrint /\ run.start.source \in Sources /\ run.start.diff \in [Files -> Versions]
        /\ Within(run.start.budget)
    <3>1. /\ run.start = Fingerprint(run.source, run.head, run.start.diff, run.patterns, run.budget)
          /\ run.source \in Sources /\ run.start.diff \in [Files -> Versions] /\ Within(run.budget)
      BY <1>0, <1>1 DEF Inv, Fingerprinted, Printing, Typed
    <3>2. run.start.source = run.source /\ run.start.budget = run.budget
      BY <3>1 DEF Fingerprint
    <3> QED BY <3>1, <3>2, PrintIsSomething
  <2>5. DOMAIN <<>> = {} /\ <<>> = [f \in DOMAIN <<>> |-> <<>>[f]]
    OBVIOUS
  <2>6. Reviewed'
    <3>1. ~strayed' => Units = ScopeOf(run.start).units /\ Groups = ScopeOf(run.start).groups
      BY <1>0, <1>1, CollectedScope
    <3>2. ScopeOf(Opened)' = ScopeOf(run.start)
      BY <2>3 DEF ScopeOf
    <3> QED BY <2>2, <2>3, <2>4, <2>5, <3>1, <3>2 DEF Reviewed
  <2> QED BY <1>0, <2>2, <2>5, <2>6, Ending
<1>2. CASE run.kind \in {"group", "path"}
  <2>1. review' = [review EXCEPT !.covered = Along(Emitted, review.covered)]
    BY <1>2, <1>r DEF Answer
  <2> DEFINE all == [f \in DOMAIN Emitted \cup DOMAIN review.covered |->
                        IF f \in DOMAIN Emitted THEN Emitted[f] ELSE review.covered[f]]
  <2>2. Along(Emitted, review.covered) = all
    BY DEF Along
  <2>3. /\ review'.covered = all /\ review'.stage = review.stage /\ review'.scope = review.scope
        /\ review'.previews = review.previews /\ DOMAIN review' = DOMAIN review
    BY <1>r, <2>1, <2>2
  <2>4. review.stage = "open" /\ run.expect = Opened
    BY <1>2 DEF Inv, Serving
  <2>5. DOMAIN Emitted \subseteq run.names /\ DOMAIN Emitted \subseteq Files
    BY <1>0, <1>2, EmittedFacts DEF Inv, Typed
  <2>6. Reviewed'
    <3>1. run.start = Opened
      BY <1>0, <1>2, <2>4 DEF Inv, Fingerprinted, Printing, Reviewed
    <3>2. ~strayed => run.names = Changed(Opened.diff) /\ \A f \in DOMAIN Emitted : Emitted[f] = Opened.diff[f]
      BY <1>0, <1>2, <3>1, EmittedFacts DEF Inv, Collected, ReadOf
    <3>3. Opened' = Opened /\ ScopeOf(Opened)' = ScopeOf(Opened) /\ strayed' = strayed
      BY <1>0, <2>3 DEF Opened, ScopeOf
    <3> HIDE DEF all
    <3>4. DOMAIN all = DOMAIN Emitted \cup DOMAIN review.covered /\ all = [f \in DOMAIN all |-> all[f]]
      BY DEF all
    <3>5. \A f \in DOMAIN all : all[f] = IF f \in DOMAIN Emitted THEN Emitted[f] ELSE review.covered[f]
      BY DEF all
    <3>6. ~strayed => DOMAIN all \subseteq Changed(Opened.diff) /\ \A f \in DOMAIN all : all[f] = Opened.diff[f]
      BY <2>4, <2>5, <3>2, <3>4, <3>5 DEF Inv, Reviewed
    <3> QED BY <2>3, <2>4, <3>3, <3>4, <3>6 DEF Inv, Reviewed
  <2> QED BY <1>0, <2>3, <2>5, <2>6, <1>r, Ending DEF Inv, Typed
<1>3. CASE run.kind = "plan"
  <2>1. review' = [review EXCEPT !.previews = run.previews]
    BY <1>3 DEF Answer
  <2>2. /\ review'.covered = review.covered /\ review'.stage = review.stage /\ review'.scope = review.scope
        /\ review'.previews = run.previews /\ DOMAIN review' = DOMAIN review
    BY <1>r, <2>1
  <2>3. Reviewed'
    BY <1>0, <2>2 DEF Inv, Reviewed, Opened
  <2> QED BY <1>0, <2>2, <2>3, Ending DEF Inv, Typed
<1>4. CASE run.kind = "final" /\ Scope # review.scope
  <2>1. review' = NoReview
    BY <1>4 DEF Answer
  <2>2. Reviewed' /\ review'.stage = "closed" /\ DOMAIN review'.covered = {} /\ DOMAIN review'.previews = {}
    BY <2>1 DEF Reviewed, NoReview
  <2> QED BY <1>0, <2>1, <2>2, Ending
<1>5. CASE run.kind = "revalidate" \/ (run.kind = "final" /\ ~(Scope # review.scope))
  <2>1. review' = [review EXCEPT !.stage = "done"]
    BY <1>5 DEF Answer
  <2>2. /\ review'.covered = review.covered /\ review'.stage = "done" /\ review'.scope = review.scope
        /\ review'.previews = review.previews /\ DOMAIN review' = DOMAIN review
    BY <1>r, <2>1
  <2>3. review.stage = "open" /\ DOMAIN review.scope.units \subseteq DOMAIN review.covered
    BY <1>5 DEF Inv, Serving, Uncovered
  <2>4. DOMAIN ScopeOf(Opened).units = Changed(Opened.diff)
    BY DEF ScopeOf, UnitsOf
  <2>5. Reviewed'
    <3>3. Opened' = Opened /\ ScopeOf(Opened)' = ScopeOf(Opened) /\ strayed' = strayed
      BY <1>0, <2>2 DEF Opened, ScopeOf
    <3> QED BY <2>2, <2>3, <2>4, <3>3 DEF Inv, Reviewed
  <2> QED BY <1>0, <2>2, <2>5, Ending DEF Inv, Typed
<1> QED BY <1>n, <1>1, <1>2, <1>3, <1>4, <1>5

\* A refusal discards the review; a failure leaves it.
LEMMA RefusedStep == Inv /\ (Refused \/ Failed) => Inv'
<1> SUFFICES ASSUME Inv, Refused \/ Failed PROVE Inv' OBVIOUS
<1>1. run' = NoRun /\ UNCHANGED <<world, strayed, edits, failures>> /\ review' \in {review, NoReview}
  BY DEF Refused, Failed, Untouched
<1>2. CASE review' = review
  <2>1. Reviewed'
    BY <1>1, <1>2 DEF Inv, Reviewed, Opened
  <2> QED BY <1>1, <1>2, <2>1, Ending DEF Inv, Typed
<1>3. CASE review' = NoReview
  <2>1. Reviewed' /\ review'.stage = "closed" /\ DOMAIN review'.covered = {} /\ DOMAIN review'.previews = {}
    BY <1>3 DEF Reviewed, NoReview
  <2> QED BY <1>1, <1>3, <2>1, Ending
<1> QED BY <1>1, <1>2, <1>3

-----------------------------------------------------------------------------
(* The edits. *)

\* An edit leaves what was read, and marks a fingerprinted diff that is restored.
LEMMA Editing ==
  ASSUME Inv, Edited, diffs' \in [Sources -> [Files -> Versions]], patterns' \subseteq Files,
         head' \in {head, head + 1}
  PROVE  Inv'
<1>1. UNCHANGED <<run, review, failures>> /\ edits < MaxEdits /\ edits' = edits + 1
  BY DEF Edited
<1>2. strayed' = (strayed \/ (Collecting /\ ~AtStart /\ AtStart'))
  BY DEF Edited
<1>3. strayed' \in BOOLEAN
  BY <1>2 DEF Inv, World
<1>4. World'
  BY <1>1, <1>3, ReviewAssumption DEF Inv, World
<1>5. Typed' /\ Serving' /\ Fingerprinted'
  BY <1>1 DEF Inv, Typed, Serving, Fingerprinted, Opened, Uncovered
<1>6. ~strayed' => ~strayed /\ ~(Collecting /\ ~AtStart /\ AtStart')
  BY <1>2
<1>7. (Collecting' <=> Collecting) /\ run'.start = run.start
  BY <1>1 DEF Collecting
<1>8. (ReadOf(run.start.diff))' <=> ReadOf(run.start.diff)
  BY <1>1 DEF ReadOf
<1>9. Collected'
  BY <1>1, <1>6, <1>7, <1>8 DEF Inv, Collected
<1>10. Reviewed'
  BY <1>1, <1>6 DEF Inv, Reviewed, Opened
<1> QED BY <1>4, <1>5, <1>9, <1>10 DEF Inv

\* What the user does keeps the shape of the repository.
LEMMA EditSteps == Inv /\ (EditFile \/ StageFile \/ Commit \/ EditPatterns) => Inv'
<1> SUFFICES ASSUME Inv, EditFile \/ StageFile \/ Commit \/ EditPatterns PROVE Inv' OBVIOUS
<1>0. diffs \in [Sources -> [Files -> Versions]] /\ patterns \subseteq Files
  BY DEF Inv, World
<1>v. "none" \in Versions
  BY DEF Versions
<1>1. CASE EditFile
  <2>1. diffs' \in [Sources -> [Files -> Versions]]
    BY <1>0, <1>1, SourceFacts DEF EditFile
  <2> QED BY <1>0, <1>1, <2>1, Editing DEF EditFile
<1>2. CASE StageFile
  <2>1. diffs' \in [Sources -> [Files -> Versions]]
    BY <1>0, <1>2, <1>v, SourceFacts DEF StageFile, Changed
  <2> QED BY <1>0, <1>2, <2>1, Editing DEF StageFile
<1>3. CASE Commit
  <2>1. diffs' \in [Sources -> [Files -> Versions]]
    BY <1>0, <1>3, <1>v, SourceFacts DEF Commit
  <2> QED BY <1>0, <1>3, <2>1, Editing DEF Commit
<1>4. CASE EditPatterns
  BY <1>0, <1>4, Editing DEF EditPatterns
<1> QED BY <1>1, <1>2, <1>3, <1>4

-----------------------------------------------------------------------------
(* The theorems. *)

\* The invariant holds throughout.
THEOREM Invariance == Spec => []Inv
<1>1. Inv /\ [Next]_vars => Inv'
  <2> SUFFICES ASSUME Inv, [Next]_vars PROVE Inv' OBVIOUS
  <2>1. CASE UNCHANGED vars
    BY <2>1 DEF vars, world, Inv, World, Typed, Serving, Fingerprinted, Collected, Collecting, AtStart,
                ReadOf, Reviewed, Opened, Uncovered, ScopeOf
  <2>2. CASE Next
    BY <2>2, OpenScopeStep, ReviewerSteps, ReadHeadStep, ReadAvailableStep, ReadPatternsStep,
       OpenFingerprintStep, ReadNamesStep, ReadGlobalStep, ReadPathStep, ReadUnitStep, ReadEndPatternsStep,
       CloseStep, ReadSplitStep, GitFailsStep, AnswerStep, RefusedStep, EditSteps DEF Next
  <2> QED BY <2>1, <2>2
<1> QED BY InitInv, <1>1, PTL DEF Spec

\* An authoritative scope is of the one state its fingerprint names, and a review
\* that ends covered every unit of it with its bytes, whatever was edited and
\* whichever git calls failed in between.
THEOREM ReviewsAreOfOneState == Spec => []ReviewIsOfOneState
<1>1. Inv => TypeOK
  <2> SUFFICES ASSUME Inv PROVE TypeOK OBVIOUS
  <2>1. head \in 1..MaxEdits + 1
    BY ReviewAssumption DEF Inv, World
  <2>2. review.stage # "closed" => Opened.budget.target <= Opened.budget.hard
    BY DEF Inv, Reviewed, Within
  <2> QED BY <2>1, <2>2 DEF Inv, World, Typed, Steps, Reviewed, TypeOK, Opened
<1>2. Inv => ScopeIsOfOneState
  BY DEF Inv, Reviewed, ScopeIsOfOneState, ScopeOf
<1>3. Inv => ReviewedIsOneState
  BY DEF Inv, Reviewed, ReviewedIsOneState
<1> QED BY <1>1, <1>2, <1>3, Invariance, PTL DEF ReviewIsOfOneState

-----------------------------------------------------------------------------
(* What is computed apart of one scope. *)

(* The scope of a review was derived from what some collection read, even one that
   mixed two states of the repository. *)
Derived ==
  \/ DOMAIN review.scope.units = {} /\ DOMAIN review.scope.groups = {}
  \/ \E names, contents, risk, flagged, budget :
       /\ names \subseteq Files
       /\ review.scope.units = UnitsOf(names, contents, risk, flagged)
       /\ review.scope.groups = GroupsOf(review.scope.units, budget)

\* A review has no scope, the scope of an answer, or the scope it had.
LEMMA AlwaysDerived == Spec => []Derived
<1>1. Init => Derived
  BY DEF Init, NoReview, NoScope, Derived
<1>2. Inv /\ Derived /\ [Next]_vars => Derived'
  <2> SUFFICES ASSUME Inv, Derived, [Next]_vars PROVE Derived' OBVIOUS
  <2>1. CASE review'.scope = review.scope
    BY <2>1 DEF Derived
  <2>2. CASE review' = NoReview
    BY <2>2 DEF Derived, NoReview, NoScope
  <2>3. CASE review'.scope = Scope
    <3>1. /\ review'.scope.units = UnitsOf(run.names, run.contents, run.patterns, run.flagged)
          /\ review'.scope.groups = GroupsOf(review'.scope.units, run.budget)
      BY <2>3 DEF Scope, Units, Groups
    <3>2. run.names \subseteq Files
      BY DEF Inv, Typed
    <3> QED BY <3>1, <3>2 DEF Derived
  <2>4. review'.scope = review.scope \/ review' = NoReview \/ review'.scope = Scope
    <3>1. DOMAIN review = {"stage", "scope", "covered", "previews"}
          /\ DOMAIN NoReview = {"stage", "scope", "covered", "previews"}
      BY DEF Inv, Typed, NoReview
    <3>2. CASE Answer
      <4>1. CASE run.kind = "open"
        BY <3>1, <3>2, <4>1 DEF Answer
      <4>2. CASE run.kind # "open"
        <5>1. \/ \E c : review' = [review EXCEPT !.covered = c]
              \/ \E p : review' = [review EXCEPT !.previews = p]
              \/ review' = NoReview
              \/ review' = [review EXCEPT !.stage = "done"]
          BY <3>2, <4>2 DEF Answer
        <5> QED BY <3>1, <5>1
      <4> QED BY <4>1, <4>2
    <3>3. CASE ~Answer
      <4>1. review' \in {review, NoReview}
        BY <3>3 DEF Next, vars, OpenScope, LoadGroup, LoadPath, LoadPlan, Finish, ReadHead, ReadAvailable,
           ReadPatterns, OpenFingerprint, ReadNames, ReadGlobal, ReadPath, ReadUnit, ReadEndPatterns, Close,
           ReadSplit, GitFails, Refused, Failed, EditFile, StageFile, Commit, EditPatterns, Edited, Quiet
      <4> QED BY <4>1
    <3> QED BY <3>2, <3>3
  <2> QED BY <2>1, <2>2, <2>3, <2>4
<1> QED BY Invariance, <1>1, <1>2, PTL DEF Spec

\* A unit's tag decides the kind of its group, and so how the group is ranked.
LEMMA TagsRank ==
  ASSUME NEW f, NEW risk, NEW flagged
  PROVE  LET tag == Tag(f, risk, flagged)
         IN /\ tag = "high-risk" => GroupRisk(GroupId(f, tag)) = "high"
            /\ tag # "high-risk" => GroupRisk(GroupId(f, tag)) \in {"consistency", "medium"}
<1> DEFINE tag == Tag(f, risk, flagged)
<1>1. tag \in {"high-risk", "generated-like", "lockfile", "medium"}
  BY DEF Tag
<1> HIDE DEF tag
<1>2. CASE tag = "high-risk"
  BY <1>2 DEF GroupId, GroupRisk
<1>3. CASE tag = "generated-like"
  BY <1>3 DEF GroupId, GroupRisk
<1>4. CASE tag = "lockfile"
  BY <1>4 DEF GroupId, GroupRisk
<1>5. CASE tag = "medium"
  BY <1>5 DEF GroupId, GroupRisk
<1> QED BY <1>1, <1>2, <1>3, <1>4, <1>5 DEF tag

\* The files of disjoint groups, counted group by group, whatever the order.
LEMMA GroupSum ==
  ASSUME NEW groups, NEW S, IsFiniteSet(S),
         \A id \in S : IsFiniteSet(groups[id].files),
         \A id, other \in S : id # other => groups[id].files \cap groups[other].files = {}
  PROVE  MapThenSumSet(LAMBDA id : Cardinality(groups[id].files), S)
           = Cardinality(UNION {groups[id].files : id \in S})
<1> DEFINE Pick(s) == CHOOSE x \in s : TRUE
           Of(s) == UNION {groups[id].files : id \in s}
           Sums(g) == g = [s \in SUBSET S |-> IF s = {} THEN 0
                              ELSE Cardinality(groups[Pick(s)].files) + g[s \ {Pick(s)}]]
           iter == CHOOSE g : Sums(g)
<1>1. MapThenSumSet(LAMBDA id : Cardinality(groups[id].files), S) = iter[S]
  BY DEF MapThenSumSet, MapThenFoldSet
<1>2. ASSUME NEW s \in SUBSET S
      PROVE  IsFiniteSet(Of(s)) /\ Cardinality(Of(s)) \in Nat
  <2>0. IsFiniteSet(s)
    BY FS_Subset
  <2>1. IsFiniteSet({groups[id].files : id \in s})
    <3> DEFINE F == [id \in s |-> groups[id].files]
    <3>1. F \in Surjection(s, {groups[id].files : id \in s})
      BY DEF Surjection
    <3> QED BY <2>0, <3>1, FS_Surjection
  <2>2. IsFiniteSet(Of(s))
    BY <2>1, FS_UNION
  <2> QED BY <2>2, FS_CardinalityType
<1>3. ASSUME NEW s \in SUBSET S, s # {}
      PROVE  /\ Pick(s) \in s /\ s \ {Pick(s)} \in SUBSET S
             /\ Cardinality(Of(s)) = Cardinality(groups[Pick(s)].files) + Cardinality(Of(s \ {Pick(s)}))
  <2>1. Pick(s) \in s
    BY <1>3
  <2> DEFINE p == Pick(s)  a == groups[p].files  b == Of(s \ {p})
  <2> HIDE DEF p
  <2>2. p \in s
    BY <2>1 DEF p
  <2>3. Of(s) = a \cup b /\ a \cap b = {}
    BY <2>2
  <2>4. IsFiniteSet(a) /\ IsFiniteSet(b) /\ Cardinality(a) \in Nat /\ Cardinality(b) \in Nat
    BY <1>2, <2>2, FS_CardinalityType
  <2>5. Cardinality(a \cup b) = Cardinality(a) + Cardinality(b) - Cardinality(a \cap b)
    BY <2>4, FS_Union
  <2>6. Cardinality(a \cap b) = 0
    BY <2>3, FS_EmptySet
  <2>7. Cardinality(Of(s)) = Cardinality(a \cup b)
    BY <2>3
  <2> HIDE DEF a, b, Of
  <2>8. Cardinality(Of(s)) = Cardinality(a) + Cardinality(b)
    BY <2>4, <2>5, <2>6, <2>7
  <2> QED BY <2>1, <2>8 DEF p, a, b
<1>4. Of({}) = {} /\ Cardinality({}) = 0
  BY FS_EmptySet
<1> HIDE DEF Pick, Of
<1>5. Sums(iter)
  <2> DEFINE g == [s \in SUBSET S |-> Cardinality(Of(s))]
  <2>1. Sums(g)
    <3>1. ASSUME NEW s \in SUBSET S
          PROVE  g[s] = IF s = {} THEN 0 ELSE Cardinality(groups[Pick(s)].files) + g[s \ {Pick(s)}]
      BY <1>3, <1>4
    <3> QED BY <3>1
  <2> HIDE DEF g, Sums
  <2> QED BY <2>1
<1> DEFINE Known == {n \in Nat : \A s \in SUBSET S : Cardinality(s) = n => iter[s] = Cardinality(Of(s))}
<1> HIDE DEF iter
<1>6. \A s \in SUBSET S : iter[s] = IF s = {} THEN 0 ELSE Cardinality(groups[Pick(s)].files) + iter[s \ {Pick(s)}]
  BY <1>5
<1>7. \A s \in SUBSET S : IsFiniteSet(s) /\ Cardinality(s) \in Nat
  BY FS_Subset, FS_CardinalityType
<1>8. 0 \in Known
  BY <1>4, <1>6, <1>7, FS_EmptySet
<1>9. ASSUME NEW n \in Nat, n \in Known
      PROVE  n + 1 \in Known
  <2> SUFFICES ASSUME NEW s \in SUBSET S, Cardinality(s) = n + 1
               PROVE  iter[s] = Cardinality(Of(s))
    OBVIOUS
  <2>1. s # {}
    BY FS_EmptySet
  <2>2. Cardinality(s \ {Pick(s)}) = n
    <3>1. Pick(s) \in s /\ IsFiniteSet(s)
      BY <1>3, <1>7, <2>1
    <3>2. Cardinality(s \ {Pick(s)}) = Cardinality(s) - 1
      BY <3>1, FS_RemoveElement
    <3> QED BY <3>2
  <2>3. iter[s \ {Pick(s)}] = Cardinality(Of(s \ {Pick(s)}))
    BY <1>3, <1>9, <2>1, <2>2
  <2> QED BY <1>3, <1>6, <2>1, <2>3
<1>10. Nat \subseteq Known
  <2> HIDE DEF Known
  <2> QED BY <1>8, <1>9, SetInduction
<1>11. iter[S] = Cardinality(Of(S))
  BY <1>7, <1>10
<1> QED BY <1>1, <1>11 DEF Of

\* Of every scope a review had, the work order, the plan and the ledger agree: each
\* unit is required by exactly one group, the ledger marks the units of split groups,
\* and no high-risk unit is ranked behind one that is not.
LEMMA DerivedOrders == Derived => PlansOrderAlike
<1> SUFFICES ASSUME Derived PROVE PlansOrderAlike OBVIOUS
<1> DEFINE units == review.scope.units
           groups == review.scope.groups
           plan == ReviewPlan(units, groups)
           order == WorkOrder(groups)
           ledger == Ledger(units, groups)
<1>0. CASE DOMAIN units = {} /\ DOMAIN groups = {}
  <2>1. DOMAIN plan = {}
    BY <1>0 DEF ReviewPlan
  <2> QED BY <1>0, <2>1 DEF PlansOrderAlike
<1>e. CASE \E names, contents, risk, flagged, budget :
              units = UnitsOf(names, contents, risk, flagged) /\ groups = GroupsOf(units, budget)
  <2>1. PICK names, contents, risk, flagged, budget :
              units = UnitsOf(names, contents, risk, flagged) /\ groups = GroupsOf(units, budget)
    BY <1>e
  <2> HIDE DEF units, groups
  <2>2. /\ DOMAIN groups = {units[f].group : f \in DOMAIN units}
        /\ \A id \in DOMAIN groups : /\ groups[id].files = {f \in DOMAIN units : units[f].group = id}
                                     /\ groups[id].risk = GroupRisk(id)
    BY <2>1 DEF GroupsOf
  <2>3. /\ DOMAIN plan = DOMAIN groups /\ DOMAIN order = DOMAIN groups
        /\ \A id \in DOMAIN groups : plan[id] = PlanEntry(units, id, groups[id])
    BY DEF ReviewPlan, WorkOrder
  <2>4. \A id \in DOMAIN groups :
           order[id] = IF groups[id].status = "split-required" THEN <<1, "split">>
                       ELSE IF groups[id].risk = "high" THEN <<2, "review">>
                       ELSE IF groups[id].risk = "consistency" THEN <<3, "review">> ELSE <<4, "review">>
    BY DEF WorkOrder
  <2>5. \A f \in DOMAIN units : ledger[f] =
           IF groups[units[f].group].status = "split-required" THEN "needs-split" ELSE "pending"
    BY DEF Ledger
  <2> HIDE DEF plan, order, ledger
  <2>6. ASSUME NEW id \in DOMAIN plan
        PROVE  plan[id].work = order[id] /\ plan[id].required = groups[id].files
    <3>1. plan[id] = PlanEntry(units, id, groups[id]) /\ id \in DOMAIN groups
      BY <2>3
    <3>2. plan[id].required = groups[id].files
      BY <2>2, <3>1 DEF PlanEntry
    <3>3. CASE groups[id].status = "split-required"
      BY <2>4, <3>1, <3>2, <3>3 DEF PlanEntry
    <3>4. CASE groups[id].status # "split-required" /\ groups[id].risk = "high"
      BY <2>4, <3>1, <3>2, <3>4 DEF PlanEntry
    <3>5. CASE groups[id].status # "split-required" /\ groups[id].risk = "consistency"
      BY <2>4, <3>1, <3>2, <3>5 DEF PlanEntry
    <3>6. CASE groups[id].status # "split-required" /\ groups[id].risk \notin {"high", "consistency"}
      BY <2>4, <3>1, <3>2, <3>6 DEF PlanEntry
    <3> QED BY <3>3, <3>4, <3>5, <3>6
  <2>7. ASSUME NEW f \in DOMAIN units
        PROVE  Cardinality({id \in DOMAIN plan : f \in plan[id].required}) = 1
    <3>1. {id \in DOMAIN plan : f \in plan[id].required} = {units[f].group}
      BY <2>2, <2>3, <2>6
    <3> QED BY <3>1, FS_Singleton
  <2>8. ASSUME NEW f \in DOMAIN units
        PROVE  (ledger[f] = "needs-split") <=> (order[units[f].group][2] = "split")
    BY <2>2, <2>4, <2>5
  <2>9. ASSUME NEW f \in DOMAIN units, NEW g \in DOMAIN units,
               units[f].tag = "high-risk", units[g].tag # "high-risk"
        PROVE  \/ order[units[f].group][1] < order[units[g].group][1]
               \/ order[units[g].group][2] = "split"
    <3>1. \A h \in DOMAIN units : /\ units[h].tag = Tag(h, risk, flagged)
                                  /\ units[h].group = GroupId(h, units[h].tag)
      BY <2>1 DEF UnitsOf
    <3>2. groups[units[f].group].risk = "high"
      BY <2>2, <2>9, <3>1, TagsRank
    <3>3. groups[units[g].group].risk \in {"consistency", "medium"}
      BY <2>2, <2>9, <3>1, TagsRank
    <3>4. units[f].group \in DOMAIN groups /\ units[g].group \in DOMAIN groups
      BY <2>2
    <3> QED BY <2>4, <3>2, <3>3, <3>4
  <2> QED BY <2>6, <2>7, <2>8, <2>9 DEF PlansOrderAlike, plan, order, ledger, units, groups
<1> QED BY <1>0, <1>e DEF Derived

\* The plan, which sums its high-risk groups, and the control plane, which counts its
\* high-risk units, name the same number of files.
LEMMA DerivedCounts == Derived => CountsAgree
<1> SUFFICES ASSUME Derived PROVE CountsAgree OBVIOUS
<1> DEFINE units == review.scope.units
           groups == review.scope.groups
           high == {id \in DOMAIN groups : groups[id].risk = "high"}
           risky == {f \in DOMAIN units : units[f].tag = "high-risk"}
<1>1. ASSUME IsFiniteSet(high), \A id \in high : IsFiniteSet(groups[id].files),
             \A id, other \in high : id # other => groups[id].files \cap groups[other].files = {},
             UNION {groups[id].files : id \in high} = risky
      PROVE  CountsAgree
  <2>1. MapThenSumSet(LAMBDA id : Cardinality(groups[id].files), high)
          = Cardinality(UNION {groups[id].files : id \in high})
    <3> HIDE DEF groups, high
    <3> QED BY <1>1, GroupSum
  <2>2. HighRiskOfPlan(groups) = MapThenSumSet(LAMBDA id : Cardinality(groups[id].files), high)
    BY DEF HighRiskOfPlan
  <2>3. HighRiskOfControlPlane(units) = Cardinality(risky)
    BY DEF HighRiskOfControlPlane
  <2>4. Cardinality(UNION {groups[id].files : id \in high}) = Cardinality(risky)
    BY <1>1
  <2> QED BY <2>1, <2>2, <2>3, <2>4 DEF CountsAgree
<1>2. CASE DOMAIN units = {} /\ DOMAIN groups = {}
  <2>1. high = {} /\ risky = {} /\ UNION {groups[id].files : id \in high} = risky
    BY <1>2
  <2> QED BY <1>1, <2>1, FS_EmptySet
<1>3. CASE \E names, contents, risk, flagged, budget :
              names \subseteq Files /\ units = UnitsOf(names, contents, risk, flagged) /\ groups = GroupsOf(units, budget)
  <2>1. PICK names, contents, risk, flagged, budget :
              names \subseteq Files /\ units = UnitsOf(names, contents, risk, flagged) /\ groups = GroupsOf(units, budget)
    BY <1>3
  <2> HIDE DEF units, groups
  <2>2. DOMAIN units = names /\ \A f \in names : /\ units[f].tag = Tag(f, risk, flagged)
                                                 /\ units[f].group = GroupId(f, units[f].tag)
    BY <2>1 DEF UnitsOf
  <2>3. /\ DOMAIN groups = {units[f].group : f \in names}
        /\ \A id \in DOMAIN groups : /\ groups[id].files = {f \in names : units[f].group = id}
                                     /\ groups[id].risk = GroupRisk(id)
    BY <2>1, <2>2 DEF GroupsOf
  <2>4. IsFiniteSet(names)
    BY <2>1, FiniteAssumption, FS_Subset
  <2>5. IsFiniteSet(DOMAIN groups)
    <3> DEFINE F == [f \in names |-> units[f].group]
    <3>1. F \in Surjection(names, DOMAIN groups)
      BY <2>3 DEF Surjection
    <3> QED BY <2>4, <3>1, FS_Surjection
  <2>6. IsFiniteSet(high) /\ \A id \in high : IsFiniteSet(groups[id].files)
    BY <2>3, <2>4, <2>5, FS_Subset
  <2>7. \A id, other \in high : id # other => groups[id].files \cap groups[other].files = {}
    BY <2>3
  <2>8. \A f \in names : units[f].tag = "high-risk" <=> GroupRisk(units[f].group) = "high"
    BY <2>2, TagsRank
  <2>9. UNION {groups[id].files : id \in high} = risky
    BY <2>2, <2>3, <2>8
  <2> HIDE DEF high, risky
  <2> QED BY <1>1, <2>6, <2>7, <2>9
<1> QED BY <1>2, <1>3 DEF Derived

\* What is computed apart of one scope agrees: the work order of the control plane, the
\* plan, the ledger and the two counts of high-risk files, of every scope a review had.
THEOREM PlansAlwaysAgree == Spec => []PlansAgree
<1>1. Derived => PlansAgree
  BY DerivedOrders, DerivedCounts DEF PlansAgree
<1> QED BY <1>1, AlwaysDerived, PTL


===============================================================================
