--------------------------- MODULE CallHierarchyWalk ---------------------------
(***************************************************************************)
(* The walk over a language server's call hierarchy (rust_analyzer.rs,     *)
(* traverse_call_hierarchy) and the report the provider makes of it        *)
(* (mod.rs, report_from_traversal; contract.rs, the validation): seeds are *)
(* opened and resolved one after the other, then callers and callees are   *)
(* asked level by level, each request one step, under budgets of requests, *)
(* nodes and edges.  A symbol is known by the order of its identifier.     *)
(*                                                                         *)
(* The server answers calls from one graph but may refuse any request or   *)
(* answer nonsense; an answer to "prepare" is any small set of items.      *)
(***************************************************************************)
EXTENDS Integers, SequencesExt

CONSTANTS
    Symbols,        \* a set of numbers: symbols in the order of their identifiers
    FileOf,         \* the file of each symbol
    Ranges,         \* call ranges, numbered as they are sorted ...
    BadRanges,      \* ... and those that are not in the caller's file
    Graphs,         \* the sets of calls <<caller, callee, range>> to explore
    Requested,      \* the sequences of seeds to explore
    Natures,        \* what the items of the symbols are like, to explore
    Budgets,        \* the limits to explore
    Attempts,       \* prepare requests for one seed, the retries included
    MaxLimitations  \* limitations a report may carry

ASSUME WalkAssumption ==
    /\ Symbols \subseteq Nat /\ FileOf \in [Symbols -> Nat]
    /\ Ranges \subseteq Nat /\ BadRanges \subseteq Ranges
    /\ \A g \in Graphs : g \subseteq Symbols \X Symbols \X Ranges
    /\ \A s \in Requested : s \in Seq([file : Nat, places : SUBSET Symbols,
                                       opaque : BOOLEAN]) /\ s # <<>>
    /\ Natures \subseteq [Symbols -> {"plain", "unsupported", "outside"}]
    /\ Budgets \subseteq [depth : 1..2, nodes : Nat, edges : Nat, requests : Nat]
    /\ Attempts \in Nat \ {0} /\ MaxLimitations \in Nat

(* A candidate has so many symbols and call sites and no more. *)
ASSUME FiniteAssumption == IsFiniteSet(Symbols) /\ IsFiniteSet(Ranges)

Directions == {"incoming", "outgoing"}

(* What a walk may note and go on. *)
Notes == {"macro-invocation-partial", "provider-call-kind-invalid", "seed-unresolved",
          "seed-ambiguous", "seed-symbol-duplicate", "edge-budget-exhausted",
          "node-budget-exhausted", "call-range-invalid", "call-hierarchy-request-failed"}

VARIABLES
    graph, seeds, nature, limits, asked,   \* the input: asked are the directions
    phase, at, attempt, requests,             \* the seed in hand, its attempts
    nodes, seedOf, related, edges, limitations,
    frontier, next, visited, depth,
    report

input == <<graph, seeds, nature, limits, asked>>
found == <<nodes, seedOf, related, edges, limitations>>
level == <<frontier, next, visited, depth>>
walkVars == <<input, phase, at, attempt, requests, found, level, report>>

NoReport == [status |-> "none", seeds |-> {}, related |-> {}, edges |-> {},
             limitations |-> {}, complete |-> FALSE]

WalkTypeOK ==
    /\ phase \in {"open", "prepare", "walk", "done"}
    /\ at \in 1..(Len(seeds) + 1) /\ attempt \in 0..Attempts
    /\ requests \in 0..limits.requests
    /\ nodes \subseteq Symbols /\ related \subseteq nodes
    /\ seedOf \in [DOMAIN seedOf -> nodes] /\ DOMAIN seedOf \subseteq DOMAIN seeds
    /\ edges \subseteq Symbols \X Symbols \X Ranges
    /\ limitations \subseteq Notes \X Nat
    /\ frontier \subseteq nodes /\ next \subseteq nodes
    /\ visited \subseteq Directions \X Symbols /\ depth \in 0..2
    /\ report.status \in {"none", "completed", "partial", "failed", "invalid-output",
                          "ReportInvalid"}

WalkInit ==
    /\ graph \in Graphs /\ seeds \in Requested /\ nature \in Natures /\ limits \in Budgets
    /\ asked \in (SUBSET Directions) \ {{}}
    /\ phase = "open" /\ at = 1 /\ attempt = 0 /\ requests = 0
    /\ nodes = {} /\ seedOf = <<>> /\ related = {} /\ edges = {} /\ limitations = {}
    /\ frontier = {} /\ next = {} /\ visited = {} /\ depth = 0
    /\ report = NoReport

-----------------------------------------------------------------------------
(* RepositoryContextProviderReport::validate, as far as it relates the facts of
   a report to each other and to its status. *)
HasFacts == {"completed", "partial"}

Valid(r) ==
    /\ r.complete <=> r.status = "completed"
    /\ r.status \notin HasFacts => r.seeds \cup r.related \cup r.edges = {}
    /\ Cardinality(r.limitations) <= MaxLimitations
    /\ r.seeds \cap r.related = {}
    /\ \A e \in r.edges : {e[1], e[2]} \subseteq r.seeds \cup r.related

(* empty_report: the status of an error of the walk; no fact is kept. *)
Fails(code) ==
    /\ report' = [NoReport EXCEPT
                    !.status = IF code = "provider-call-hierarchy-invalid"
                               THEN "invalid-output" ELSE "failed",
                    !.limitations = {<<code, 0>>}]
    /\ phase' = "done"

(* report_from_traversal: any limitation makes the report partial, also that the
   server was ready with a warning only; a report that does not validate is an
   error of the call. *)
Made(warned) ==
    LET all == IF warned THEN limitations \cup {<<"rust-analyzer-readiness-warning", 0>>}
               ELSE limitations
        r == [status      |-> IF all = {} THEN "completed" ELSE "partial",
              seeds       |-> Range(seedOf),
              related     |-> related,
              edges       |-> edges,
              limitations |-> all,
              complete    |-> all = {}]
    IN IF Valid(r) THEN r ELSE [NoReport EXCEPT !.status = "ReportInvalid"]

(* One request of the session; the limit on requests ends the walk. *)
Asks == requests < limits.requests /\ requests' = requests + 1

OutOfRequests ==
    /\ phase = "prepare" \/ (phase = "walk" /\ \E d \in asked, s \in frontier : <<d, s>> \notin visited)
    /\ requests = limits.requests
    /\ Fails("provider-request-limit")
    /\ UNCHANGED <<input, at, attempt, requests, found, level>>

-----------------------------------------------------------------------------
(* The first loop: each file of a seed is opened once, and its text searched
   for calls the server cannot see, below the seed that opened it. *)
Open ==
    /\ phase = "open"
    /\ LET first == \A k \in 1..(at - 1) : seeds[k].file # seeds[at].file
       IN limitations' = IF first /\ seeds[at].opaque
                         THEN limitations \cup {<<"macro-invocation-partial", seeds[at].file>>}
                         ELSE limitations
    /\ IF at = Len(seeds) THEN phase' = "prepare" /\ at' = 1
                          ELSE at' = at + 1 /\ UNCHANGED phase
    /\ UNCHANGED <<input, attempt, requests, nodes, seedOf, related, edges, level, report>>

(* A seed's file is too large, or is no text. *)
OpenFails ==
    /\ phase = "open"
    /\ Fails("provider-snapshot-boundary")
    /\ UNCHANGED <<input, at, attempt, requests, found, level>>

(* normalize_item: an item of an unsupported kind is left out with a
   limitation; one that is not in the snapshot is an error of the walk. *)
Outside(items) == \E s \in items : nature[s] = "outside"
Plain(items) == {s \in items : nature[s] = "plain"}
LeftOut(items, file) ==
    {<<"provider-call-kind-invalid", file>> : s \in {i \in items : nature[i] = "unsupported"}}

(* kind_compatible, range_contains, range_contains_byte *)
Matches(seed, items) == {s \in items : FileOf[s] = seed.file /\ s \in seed.places}

NextSeed ==
    /\ attempt' = 0
    /\ IF at = Len(seeds) THEN phase' = "walk" /\ at' = at ELSE at' = at + 1 /\ phase' = "prepare"

(* The walk starts from the seeds that were resolved. *)
Resolved(items) ==
    LET seed    == seeds[at]
        matches == Matches(seed, Plain(items))
        s       == CHOOSE m \in matches : TRUE
        Note(code) == limitations' = limitations \cup LeftOut(items, seed.file)
                                        \cup {<<code, seed.file>>}
    IN \/ /\ Cardinality(matches) = 1 /\ s \notin Range(seedOf)
          /\ seedOf' = [k \in DOMAIN seedOf \cup {at} |-> IF k = at THEN s ELSE seedOf[k]]
          /\ nodes' = nodes \cup {s}
          /\ frontier' = frontier \cup {s}
          /\ limitations' = limitations \cup LeftOut(items, seed.file)
       \/ /\ matches = {} /\ Note("seed-unresolved")
          /\ UNCHANGED <<seedOf, nodes, frontier>>
       \/ /\ Cardinality(matches) > 1 /\ Note("seed-ambiguous")
          /\ UNCHANGED <<seedOf, nodes, frontier>>
       \/ /\ Cardinality(matches) = 1 /\ s \in Range(seedOf) /\ Note("seed-symbol-duplicate")
          /\ UNCHANGED <<seedOf, nodes, frontier>>

(* prepare_call_hierarchy: an empty answer is asked for again after a pause. *)
PrepareAgain ==
    /\ phase = "prepare" /\ Asks /\ attempt + 1 < Attempts
    /\ attempt' = attempt + 1
    /\ UNCHANGED <<input, phase, at, found, level, report>>

Prepare ==
    /\ phase = "prepare" /\ Asks
    /\ \E items \in SUBSET Symbols :
          /\ items = {} => attempt + 1 = Attempts
          /\ IF Outside(items)
             THEN Fails("provider-snapshot-boundary")
                  /\ UNCHANGED <<at, attempt, nodes, seedOf, limitations, frontier>>
             ELSE Resolved(items) /\ NextSeed /\ UNCHANGED report
    /\ UNCHANGED <<input, related, edges, next, visited, depth>>

(* An error response or a malformed answer to "prepare" ends the walk. *)
PrepareFails ==
    /\ phase = "prepare" /\ Asks
    /\ \E code \in {"provider-server-error", "provider-call-hierarchy-invalid"} : Fails(code)
    /\ UNCHANGED <<input, at, attempt, found, level>>

-----------------------------------------------------------------------------
(* The calls the server answers with: the other end and the range of each. An
   item without ranges is dropped, as if the server had not named it. *)
Calls(d, s) == {c \in graph : (IF d = "incoming" THEN c[2] ELSE c[1]) = s}
OtherEnd(d, c) == IF d = "incoming" THEN c[1] ELSE c[2]

(* The request in hand: frontier in order of the identifiers, then directions. *)
IsNext(d, s) ==
    /\ d \in asked /\ s \in frontier /\ <<d, s>> \notin visited
    /\ \A t \in frontier, e \in asked :
          <<e, t>> \notin visited => s < t \/ (s = t /\ (d = "incoming" \/ e = d))

(* The targets in the order they are taken, each with its usable calls. *)
Usable(d, s) == {c \in Calls(d, s) : c[3] \notin BadRanges /\ nature[OtherEnd(d, c)] = "plain"}
(* The sequence of a set of numbers in increasing order. *)
InOrder(set) ==
    CHOOSE q \in [1..Cardinality(set) -> set] :
        /\ \A x \in set : \E i \in DOMAIN q : q[i] = x
        /\ \A i, j \in DOMAIN q : i < j => q[i] < q[j]

Edge(d, s, t, r) == IF d = "incoming" THEN <<t, s, r>> ELSE <<s, t, r>>

(* Mutant: an exhausted budget leaves no limitation. *)
AddEdge_Silent(d, s, acc, t, r) ==
    IF Cardinality(acc.edges) >= limits.edges
    THEN acc ELSE [acc EXCEPT !.edges = @ \cup {Edge(d, s, t, r)}]

(* One call range of a target: the budget is looked at before the duplicate, and
   ends the ranges of this target. *)
AddEdge(d, s, acc, t, r) ==
    IF acc.full THEN acc
    ELSE IF Cardinality(acc.edges) >= limits.edges
         THEN [acc EXCEPT !.full = TRUE,
                          !.notes = @ \cup {<<"edge-budget-exhausted", FileOf[s]>>}]
         ELSE [acc EXCEPT !.edges = @ \cup {Edge(d, s, t, r)}]

(* The call ranges of a target, in their order. *)
AddEdges(d, s, acc, t) ==
    FoldLeft(LAMBDA a, r : AddEdge(d, s, a, t, r), acc,
             InOrder({c[3] : c \in {u \in Usable(d, s) : OtherEnd(d, u) = t}}))

(* Mutant: a target beyond the node budget is passed over, its edges are not. *)
AddTarget_KeepsEdges(d, s, acc, t) ==
    LET new  == t \notin acc.nodes /\ Cardinality(acc.nodes) < limits.nodes
        with == [acc EXCEPT !.nodes = IF new THEN @ \cup {t} ELSE @, !.full = FALSE,
                            !.related = IF new THEN @ \cup {t} ELSE @]
    IN AddEdges(d, s, with, t)

(* One target: a new one takes a node of the budget, or is passed over. *)
AddTarget(d, s, acc, t) ==
    LET with == [acc EXCEPT !.nodes = @ \cup {t}, !.full = FALSE,
                            !.related = IF t \in acc.nodes THEN @ ELSE @ \cup {t},
                            !.next = IF depth + 1 < limits.depth /\ t # s
                                     THEN @ \cup {t} ELSE @]
    IN IF t \notin acc.nodes /\ Cardinality(acc.nodes) >= limits.nodes
       THEN [acc EXCEPT !.notes = @ \cup {<<"node-budget-exhausted", FileOf[t]>>}]
       ELSE AddEdges(d, s, with, t)

Taken(d, s) ==
    FoldLeft(LAMBDA a, t : AddTarget(d, s, a, t),
             [nodes |-> nodes, related |-> related, edges |-> edges, next |-> next,
              notes |-> {}, full |-> FALSE],
             InOrder({OtherEnd(d, c) : c \in Usable(d, s)}))

(* The requests of one level. *)
Query ==
    /\ phase = "walk" /\ Asks
    /\ \E d \in asked, s \in frontier :
          /\ IsNext(d, s)
          /\ visited' = visited \cup {<<d, s>>}
          /\ LET items == {OtherEnd(d, c) : c \in Calls(d, s)}
                 bad   == {c \in Calls(d, s) : c[3] \in BadRanges
                                                /\ nature[OtherEnd(d, c)] = "plain"}
                 taken == Taken(d, s)
             IN IF Outside(items)
                THEN /\ Fails("provider-snapshot-boundary")
                     /\ UNCHANGED <<nodes, related, edges, limitations, next>>
                ELSE /\ nodes' = taken.nodes /\ related' = taken.related
                     /\ edges' = taken.edges /\ next' = taken.next
                     /\ limitations' = limitations
                           \cup LeftOut(items, FileOf[s])
                           \cup {<<"call-range-invalid", FileOf[c[1]]>> : c \in bad}
                           \cup taken.notes
                     /\ UNCHANGED <<phase, report>>
    /\ UNCHANGED <<input, at, attempt, seedOf, frontier, depth>>

(* Mutant: a refused request is sent again. *)
QueryRefused_Retried ==
    /\ phase = "walk" /\ Asks
    /\ \E d \in asked, s \in frontier :
          /\ IsNext(d, s)
          /\ limitations' = limitations \cup {<<"call-hierarchy-request-failed", FileOf[s]>>}
    /\ UNCHANGED <<input, phase, at, attempt, nodes, seedOf, related, edges, level, report>>

(* An error response to a call request is a limitation; the request is not
   repeated. *)
QueryRefused ==
    /\ phase = "walk" /\ Asks
    /\ \E d \in asked, s \in frontier :
          /\ IsNext(d, s)
          /\ visited' = visited \cup {<<d, s>>}
          /\ limitations' = limitations \cup {<<"call-hierarchy-request-failed", FileOf[s]>>}
    /\ UNCHANGED <<input, phase, at, attempt, nodes, seedOf, related, edges, frontier, next,
                   depth, report>>

QueryMalformed ==
    /\ phase = "walk" /\ Asks
    /\ \E d \in asked, s \in frontier : IsNext(d, s)
    /\ Fails("provider-call-hierarchy-invalid")
    /\ UNCHANGED <<input, at, attempt, found, level>>

(* The level is done: the next one begins, or the report is made. *)
Advance ==
    /\ phase = "walk" /\ \A d \in asked, s \in frontier : <<d, s>> \in visited
    /\ IF depth + 1 < limits.depth /\ next # {}
       THEN /\ frontier' = next /\ next' = {} /\ depth' = depth + 1
            /\ UNCHANGED <<phase, report>>
       ELSE /\ phase' = "done" /\ \E warned \in BOOLEAN : report' = Made(warned)
            /\ UNCHANGED <<frontier, next, depth>>
    /\ UNCHANGED <<input, at, attempt, requests, found, visited>>

WalkNext == \/ Open \/ OpenFails \/ PrepareAgain \/ Prepare \/ PrepareFails
        \/ OutOfRequests
        \/ Query \/ QueryRefused \/ QueryMalformed \/ Advance

WalkSpec == WalkInit /\ [][WalkNext]_walkVars

-----------------------------------------------------------------------------
(* What the walk is to find, said without the walk: the symbols at most k
   requests away from the resolved seeds along the asked directions, and the
   calls at those a request is sent for. *)
Ends(d, set) == UNION {{OtherEnd(d, c) : c \in Usable(d, s)} : s \in set}
Within[k \in 0..2] ==
    IF k = 0 THEN Range(seedOf)
    ELSE Within[k - 1] \cup UNION {Ends(d, Within[k - 1]) : d \in asked}
Neighbourhood == UNION {Usable(d, s) : d \in asked, s \in Within[limits.depth - 1]}

(* Every report that holds facts can be published: the walk never builds a
   report that its own validation refuses, short of too many limitations, of
   which the warning of the server may be one (contract.rs, validate;
   rust_analyzer.rs, the node budget). *)
AlwaysReportable ==
    report.status = "ReportInvalid" => Cardinality(limitations) + 1 > MaxLimitations

(* "completed" is said only when every seed was resolved and every call within
   the asked depth is in the report, whatever the budgets are (mod.rs,
   report_from_traversal: no limitation means nothing was left out). *)
CompletedMeansAll ==
    report.status = "completed" =>
        /\ DOMAIN seedOf = DOMAIN seeds
        /\ report.edges = Neighbourhood
        /\ report.related = (Within[limits.depth] \ Range(seedOf))

(* A partial report says nothing that a complete one would not say: budgets and
   failures take facts away and never let the walk go further (rust_analyzer.rs:
   visited, next_frontier, the node budget). *)
PartialIsSound ==
    report.status = "partial" =>
        /\ report.edges \subseteq Neighbourhood
        /\ report.related \subseteq Within[limits.depth]

(* What a report says of its own completeness is true, in both directions. *)
VerdictIsTrue == CompletedMeansAll /\ PartialIsSound

(* No walk asks one thing twice: a direction of a symbol costs one request,
   however many ways lead to the symbol (rust_analyzer.rs, visited), so that
   the retries and two requests a node bound every walk, within its limits. *)
RequestsAreBounded ==
    /\ WalkTypeOK
    /\ requests <= Attempts * Len(seeds) + Cardinality(asked) * Cardinality(nodes) + 1

(* repository_context_provider_real.rs:783 "dynamic/macro fixture must not claim
   complete traversal": no completed report holds a seed whose function has
   calls that the server cannot see. False of the code with two seeds: see
   Divergences in the README. *)
OpaqueSeedsArePartial ==
    report.status = "completed" => \A k \in DOMAIN seeds : ~seeds[k].opaque
=============================================================================
