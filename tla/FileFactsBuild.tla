--------------------------- MODULE FileFactsBuild ---------------------------
(***************************************************************************)
(* The FileFacts store and the part of a Deep build that fills it.  Each   *)
(* run walks the files of its manifest in order: it looks the content key  *)
(* up, or parses the file within what is left of its node budget and       *)
(* publishes what the parse gave.  Runs of several processes share one     *)
(* directory without a lock; a run whose scope drifts takes back what it   *)
(* published, any run may die between two steps, nothing else removes an   *)
(* object (`index clean` never looks at them).                             *)
(*                                                                         *)
(* The key of an object binds the content and the tools, never a budget:   *)
(* what a run stores depends on the budget it had left.                    *)
(***************************************************************************)
EXTENDS Naturals, FiniteSets, SequencesExt

CONSTANTS
  Builders,     \* runs that may be active at once
  Keys,         \* FileFacts keys: one per file content
  Cost,         \* [Keys -> {1, 2}]: nodes of the file, in units of a half
  Manifests,    \* the manifests a run may have: sequences of keys
  Limits,       \* the node budgets a run may have
  Damageable    \* bound: keys whose object the medium may damage

Absent  == "absent"
Damaged == "damaged"
Facts   == {"whole", "cut", "empty"}

ASSUME CostAssumption == Cost \in [Keys -> {1, 2}]
ASSUME ManifestAssumption ==
  /\ Manifests \subseteq Seq(Keys)
  /\ <<>> \notin Manifests
ASSUME LimitAssumption == Limits \subseteq Nat
ASSUME DamageableAssumption == Damageable \subseteq Keys

VARIABLES
  object,    \* the file <fact-key>.facts
  pc,
  why,       \* what the pending store lookup is for
  todo,      \* files of the manifest still to do
  limit, spent,  \* IndexBudgetTracker: the limit and what was consumed
  fact,      \* what the last parse gave
  output,    \* the facts of the files done, in manifest order
  tracked,   \* published_artifacts
  own,       \* history: objects there now that the current run published
  answer     \* completeness of the graph resolved from the output

runVars == <<pc, why, todo, limit, spent, fact, output, tracked,
                 own, answer>>
vars == <<object, runVars>>

-----------------------------------------------------------------------------
Ends      == {"done", "drift", "dirty", "conflict", "vanished", "failed"}
FileSteps == {"inspect", "open", "parse", "parseOnly", "link"}
Steps     == FileSteps \cup {"resolve", "removing"}

\* IndexBudgetTracker::amount: what is left of the nodes.
Left(b) == limit[b] - spent[b]

\* Mutant: consume refuses the node that reaches the limit.
FactsWithin_OffByOne(k, n) ==
  IF n > Cost[k] THEN "whole" ELSE IF n > 0 THEN "cut" ELSE "empty"

\* analyze_index within n nodes: the traversal stops where the budget does.
FactsWithin(k, n) ==
  IF n >= Cost[k] THEN "whole" ELSE IF n > 0 THEN "cut" ELSE "empty"

\* IndexBudgetTracker::consume charges what it grants.
Consumed(k, n) == IF n < Cost[k] THEN n ELSE Cost[k]

\* A scope validation lets the run go on, or makes it take everything back.
AfterScopeCheck(next) == {next, "removing"}

\* The step after the facts of the current file are known.
NextFile(b) == IF Len(todo[b]) = 1 THEN "resolve" ELSE "inspect"

\* The facts of the current file go to the output.
Take(b, f) ==
  /\ output' = [output EXCEPT ![b] =
       Append(@, <<Head(todo[b]), f>>)]
  /\ todo' = [todo EXCEPT ![b] = Tail(@)]
  /\ why' = [why EXCEPT ![b] = "use"]

-----------------------------------------------------------------------------
(* One run *)

Init ==
  /\ object = [k \in Keys |-> Absent]
  /\ pc = [b \in Builders |-> "idle"]
  /\ why = [b \in Builders |-> "use"]
  /\ todo = [b \in Builders |-> <<>>]
  /\ limit = [b \in Builders |-> 0]
  /\ spent = [b \in Builders |-> 0]
  /\ fact = [b \in Builders |-> "empty"]
  /\ output = [b \in Builders |-> <<>>]
  /\ tracked = [b \in Builders |-> <<>>]
  /\ own = [b \in Builders |-> {}]
  /\ answer = [b \in Builders |-> "none"]

\* A run starts: its manifest is collected and its scope validated.
Analyze(b) ==
  /\ pc[b] = "idle"
  /\ \E m \in Manifests, n \in Limits :
       /\ todo' = [todo EXCEPT ![b] = m]
       /\ limit' = [limit EXCEPT ![b] = n]
  /\ \E s \in AfterScopeCheck("inspect") : pc' = [pc EXCEPT ![b] = s]
  /\ UNCHANGED <<object, why, spent, fact, output, tracked, own, answer>>

\* lookup finds no file: a miss for whoever asked.
InspectMisses(b) ==
  /\ pc[b] = "inspect"
  /\ object[Head(todo[b])] = Absent
  /\ pc' = [pc EXCEPT ![b] =
       CASE why[b] = "use"     -> "parse"
         [] why[b] = "publish" -> "link"
         [] why[b] = "compare" -> "conflict"]
  /\ UNCHANGED <<object, why, todo, limit, spent, fact, output, tracked,
                 own, answer>>

\* lookup saw the metadata of a file; it opens it next.
InspectFinds(b) ==
  /\ pc[b] = "inspect"
  /\ object[Head(todo[b])] # Absent
  /\ pc' = [pc EXCEPT ![b] = "open"]
  /\ UNCHANGED <<object, why, todo, limit, spent, fact, output, tracked,
                 own, answer>>

\* The file went away between the metadata and the open: a hard error.
OpenVanished(b) ==
  /\ pc[b] = "open"
  /\ object[Head(todo[b])] = Absent
  /\ pc' = [pc EXCEPT ![b] = "vanished"]
  /\ UNCHANGED <<object, why, todo, limit, spent, fact, output, tracked,
                 own, answer>>

\* The lookup of build_file_facts hits: the stored facts are used.
UseStored(b) ==
  LET f == object[Head(todo[b])] IN
  /\ pc[b] = "open"
  /\ why[b] = "use"
  /\ f \in Facts
  /\ Take(b, f)
  /\ pc' = [pc EXCEPT ![b] = NextFile(b)]
  /\ UNCHANGED <<object, limit, spent, fact, tracked, own, answer>>

\* The lookup finds a damaged object: the file is parsed, not published.
UseDamaged(b) ==
  /\ pc[b] = "open"
  /\ why[b] = "use"
  /\ object[Head(todo[b])] = Damaged
  /\ pc' = [pc EXCEPT ![b] = "parseOnly"]
  /\ UNCHANGED <<object, why, todo, limit, spent, fact, output, tracked, own,
                 answer>>

\* Mutant: a path that was reused is tracked as if it had been published.
ReuseEqual_Tracks(b) ==
  /\ pc[b] = "open"
  /\ why[b] # "use"
  /\ object[Head(todo[b])] = fact[b]
  /\ Take(b, fact[b])
  /\ tracked' = [tracked EXCEPT ![b] = Append(@, Head(todo[b]))]
  /\ \E s \in AfterScopeCheck(NextFile(b)) : pc' = [pc EXCEPT ![b] = s]
  /\ UNCHANGED <<object, limit, spent, fact, own, answer>>

\* Mutant: whatever valid facts are stored under the key are taken for these.
ReuseEqual_ByKey(b) ==
  /\ pc[b] = "open"
  /\ why[b] # "use"
  /\ object[Head(todo[b])] \in Facts
  /\ Take(b, fact[b])
  /\ \E s \in AfterScopeCheck(NextFile(b)) : pc' = [pc EXCEPT ![b] = s]
  /\ UNCHANGED <<object, limit, spent, fact, tracked, own, answer>>

\* publish finds the same facts stored: they are reused.
ReuseEqual(b) ==
  /\ pc[b] = "open"
  /\ why[b] # "use"
  /\ object[Head(todo[b])] = fact[b]
  /\ Take(b, fact[b])
  /\ \E s \in AfterScopeCheck(NextFile(b)) : pc' = [pc EXCEPT ![b] = s]
  /\ UNCHANGED <<object, limit, spent, fact, tracked, own, answer>>

\* publish finds other facts or a damaged object: file-facts-object-conflict.
Conflict(b) ==
  /\ pc[b] = "open"
  /\ why[b] # "use"
  /\ object[Head(todo[b])] \in (Facts \cup {Damaged}) \ {fact[b]}
  /\ pc' = [pc EXCEPT ![b] = "conflict"]
  /\ UNCHANGED <<object, why, todo, limit, spent, fact, output, tracked,
                 own, answer>>

\* analyze_index of a file whose key was a miss; publish looks up again.
ParseFacts(b) ==
  LET k == Head(todo[b]) IN
  /\ pc[b] = "parse"
  /\ fact' = [fact EXCEPT ![b] = FactsWithin(k, Left(b))]
  /\ spent' = [spent EXCEPT ![b] = @ + Consumed(k, Left(b))]
  /\ why' = [why EXCEPT ![b] = "publish"]
  /\ \E s \in AfterScopeCheck("inspect") : pc' = [pc EXCEPT ![b] = s]
  /\ UNCHANGED <<object, todo, limit, output, tracked, own, answer>>

\* parse_without_publish: the damaged object stays where it is.
ParseWithoutPublish(b) ==
  LET k == Head(todo[b])
      f == FactsWithin(k, Left(b)) IN
  /\ pc[b] = "parseOnly"
  /\ fact' = [fact EXCEPT ![b] = f]
  /\ spent' = [spent EXCEPT ![b] = @ + Consumed(k, Left(b))]
  /\ Take(b, f)
  /\ \E s \in AfterScopeCheck(NextFile(b)) : pc' = [pc EXCEPT ![b] = s]
  /\ UNCHANGED <<object, limit, tracked, own, answer>>

\* Mutant: the synced temporary is renamed over whatever is there.
LinkFacts_Clobbers(b) ==
  /\ pc[b] = "link"
  /\ object' = [object EXCEPT ![Head(todo[b])] = fact[b]]
  /\ own' = [own EXCEPT ![b] = @ \cup {Head(todo[b])}]
  /\ Take(b, fact[b])
  /\ tracked' = [tracked EXCEPT ![b] = Append(@, Head(todo[b]))]
  /\ \E s \in AfterScopeCheck(NextFile(b)) : pc' = [pc EXCEPT ![b] = s]
  /\ UNCHANGED <<limit, spent, fact, answer>>

\* persist_noclobber puts the synced object at its final path; then the
\* directory is synced, the path is tracked and the scope validated.
LinkFacts(b) ==
  LET k == Head(todo[b]) IN
  /\ pc[b] = "link"
  /\ object[k] = Absent
  /\ object' = [object EXCEPT ![k] = fact[b]]
  /\ own' = [own EXCEPT ![b] = @ \cup {k}]
  /\ Take(b, fact[b])
  /\ tracked' = [tracked EXCEPT ![b] = Append(@, k)]
  /\ \E s \in AfterScopeCheck(NextFile(b)) : pc' = [pc EXCEPT ![b] = s]
  /\ UNCHANGED <<limit, spent, fact, answer>>

\* The directory sync fails after the object is in place: the run ends, and
\* the object is not tracked.
LinkUnsynced(b) ==
  LET k == Head(todo[b]) IN
  /\ pc[b] = "link"
  /\ object[k] = Absent
  /\ object' = [object EXCEPT ![k] = fact[b]]
  /\ own' = [own EXCEPT ![b] = @ \cup {k}]
  /\ pc' = [pc EXCEPT ![b] = "failed"]
  /\ UNCHANGED <<why, todo, limit, spent, fact, output, tracked, answer>>

\* Mutant: the publication starts over instead of comparing.
LinkTaken_Retries(b) ==
  /\ pc[b] = "link"
  /\ object[Head(todo[b])] # Absent
  /\ pc' = [pc EXCEPT ![b] = "inspect"]
  /\ UNCHANGED <<object, why, todo, limit, spent, fact, output, tracked, own,
                 answer>>

\* AlreadyExists: another run was first; its object is looked up.
LinkTaken(b) ==
  /\ pc[b] = "link"
  /\ object[Head(todo[b])] # Absent
  /\ why' = [why EXCEPT ![b] = "compare"]
  /\ pc' = [pc EXCEPT ![b] = "inspect"]
  /\ UNCHANGED <<object, todo, limit, spent, fact, output, tracked,
                 own, answer>>

-----------------------------------------------------------------------------
(* The end of a run *)

\* resolve_rust_repository: facts with a limitation make the graph partial.
Completeness(b) ==
  IF \A i \in 1 .. Len(output[b]) : output[b][i][2] = "whole"
  THEN "complete" ELSE "partial"

\* The graph is resolved; the rest of the analysis, which publishes it, is the
\* subject of RepositoryCache and may still find that the scope drifted.
ResolveGraph(b) ==
  /\ pc[b] = "resolve"
  /\ answer' = [answer EXCEPT ![b] = Completeness(b)]
  /\ \E s \in AfterScopeCheck("done") : pc' = [pc EXCEPT ![b] = s]
  /\ UNCHANGED <<object, why, todo, limit, spent, fact, output, tracked, own>>

\* Any other error ends the run with what it published still in place.
RunFails(b) ==
  /\ pc[b] \in Steps \ {"removing"}
  /\ pc' = [pc EXCEPT ![b] = "failed"]
  /\ UNCHANGED <<object, why, todo, limit, spent, fact, output, tracked, own,
                 answer>>

\* remove_published_artifacts walks the list backwards; a file that is gone
\* is passed over.
RemoveTracked(b) ==
  LET k == tracked[b][Len(tracked[b])] IN
  /\ pc[b] = "removing"
  /\ tracked[b] # <<>>
  /\ object' = [object EXCEPT ![k] = Absent]
  /\ own' = [c \in Builders |-> own[c] \ {k}]
  /\ tracked' = [tracked EXCEPT ![b] = SubSeq(@, 1, Len(@) - 1)]
  /\ UNCHANGED <<pc, why, todo, limit, spent, fact, output, answer>>

\* Everything tracked is gone: the run answers repository-index-scope-drift.
ReportDrift(b) ==
  /\ pc[b] = "removing"
  /\ tracked[b] = <<>>
  /\ pc' = [pc EXCEPT ![b] = "drift"]
  /\ UNCHANGED <<object, why, todo, limit, spent, fact, output, tracked, own,
                 answer>>

\* A removal that fails ends the run with the rest in place, and says so.
RemovalFails(b) ==
  /\ pc[b] = "removing"
  /\ tracked[b] # <<>>
  /\ pc' = [pc EXCEPT ![b] = "dirty"]
  /\ UNCHANGED <<object, why, todo, limit, spent, fact, output, tracked, own,
                 answer>>

\* The process of a run is gone, after its answer or between two steps, and
\* its locals with it.
Leave(b) ==
  /\ pc' = [pc EXCEPT ![b] = "idle"]
  /\ why' = [why EXCEPT ![b] = "use"]
  /\ todo' = [todo EXCEPT ![b] = <<>>]
  /\ limit' = [limit EXCEPT ![b] = 0]
  /\ spent' = [spent EXCEPT ![b] = 0]
  /\ fact' = [fact EXCEPT ![b] = "empty"]
  /\ output' = [output EXCEPT ![b] = <<>>]
  /\ tracked' = [tracked EXCEPT ![b] = <<>>]
  /\ own' = [own EXCEPT ![b] = {}]
  /\ answer' = [answer EXCEPT ![b] = "none"]

EndRun(b)       == pc[b] \in Ends  /\ Leave(b) /\ UNCHANGED object
CrashBuilder(b) == pc[b] \in Steps /\ Leave(b) /\ UNCHANGED object

\* The medium damages an object: the case lookup answers Corrupt for.
DamageFacts(k) ==
  /\ k \in Damageable
  /\ object[k] \in Facts
  /\ object' = [object EXCEPT ![k] = Damaged]
  /\ UNCHANGED runVars

BuilderStep(b) ==
  \/ InspectMisses(b) \/ InspectFinds(b) \/ OpenVanished(b)
  \/ UseStored(b) \/ UseDamaged(b) \/ ReuseEqual(b) \/ Conflict(b)
  \/ ParseFacts(b) \/ ParseWithoutPublish(b)
  \/ LinkFacts(b) \/ LinkTaken(b)
  \/ ResolveGraph(b)
  \/ RemoveTracked(b) \/ ReportDrift(b)

BuilderNext ==
  \E b \in Builders :
    \/ Analyze(b)
    \/ BuilderStep(b)
    \/ LinkUnsynced(b) \/ RunFails(b) \/ RemovalFails(b) \/ CrashBuilder(b)
    \/ EndRun(b)

MediumNext == \E k \in Keys : DamageFacts(k)

Next == BuilderNext \/ MediumNext

Spec == Init /\ [][Next]_vars

\* A run goes on as long as it lives; no step of it waits for another run.
\* New runs, errors, deaths and damage are never owed.
Fairness == \A b \in Builders : WF_vars(BuilderStep(b))

FairSpec == Spec /\ Fairness

-----------------------------------------------------------------------------
(* Properties *)

\* Every variable keeps its type, a run never spends more than its budget and
\* starts with nothing spent, and a run about to work on a file has one.
TypeOK ==
  /\ object \in [Keys -> Facts \cup {Absent, Damaged}]
  /\ pc \in [Builders -> {"idle"} \cup Steps \cup Ends]
  /\ why \in [Builders -> {"use", "publish", "compare"}]
  /\ todo \in [Builders -> Seq(Keys)]
  /\ limit \in [Builders -> Nat]
  /\ spent \in [Builders -> Nat]
  /\ fact \in [Builders -> Facts]
  /\ output \in [Builders -> Seq(Keys \X Facts)]
  /\ tracked \in [Builders -> Seq(Keys)]
  /\ own \in [Builders -> SUBSET Keys]
  /\ answer \in [Builders -> {"none", "complete", "partial"}]
  /\ \A b \in Builders :
       /\ spent[b] <= limit[b]
       /\ pc[b] = "idle" => spent[b] = 0
       /\ pc[b] \in FileSteps => todo[b] # <<>>

\* FileFacts objects keep the promise of an immutable object store: they appear
\* whole and are never replaced while they are there, although nothing but
\* persist_noclobber keeps two runs apart.
Store == INSTANCE ImmutableObjectStore
           WITH Names <- Keys, Values <- Facts, store <- object

FactsAreImmutable == Store!Spec

\* A run that answers repository-index-scope-drift has left none of the objects
\* it published.
DriftLeavesNoFacts ==
  \A b \in Builders : pc[b] = "drift" => own[b] = {}

\* The drift of one run takes nothing from another: an object published by a
\* run that is over, or by one that is still going on, is never removed.
OthersFactsStay ==
  [][\A k \in Keys :
       object[k] # Absent /\ object'[k] = Absent
         => \E b \in Builders : pc[b] = "removing" /\ k \in own[b]]_vars

\* Drift takes back everything the run published, and nothing else.
DriftIsExact == []DriftLeavesNoFacts /\ OthersFactsStay

\* A run refused with file-facts-object-conflict met an object that is not what
\* it has to store: "a concurrent writer published an incompatible file facts
\* object". False of the code: see Divergences in the README.
ConflictMeansIncompatible ==
  [][\A b \in Builders :
       pc[b] # "conflict" /\ pc'[b] = "conflict"
         => object[Head(todo[b])] \notin {Absent, fact[b]}]_vars

\* The nodes a parse of all the files done would visit.
NodesOf(done) == FoldLeft(LAMBDA n, used : n + Cost[used[1]], 0, done)

\* A run cuts the facts of a file short only when this file and those it has done
\* are beyond its budget: it is charged for no node twice, in whatever ways its
\* publications were refused, compared, damaged or met those of other runs.
CutsOnlyBeyondBudget ==
  [][\A b \in Builders :
       /\ pc[b] \in {"parse", "parseOnly"}
       /\ pc'[b] \notin {pc[b], "failed", "idle"}
       /\ fact'[b] # "whole"
       => NodesOf(output[b]) + Cost[Head(todo[b])] > limit[b]]_vars

\* A run that lives reaches an answer, whatever other runs publish or remove
\* between its steps.
FactsRunsEnd ==
  \A b \in Builders : pc[b] \in Steps ~> pc[b] \notin Steps
=============================================================================
