---------------------------- MODULE GraphOverlay ----------------------------
(* The Fast query of a repository graph that is not of the candidate itself  *)
(* (adapters/repository_index.rs, index/overlay.rs, index/traversal.rs): the *)
(* changed files and their known callers are resolved against an immutable   *)
(* base graph, the outcome is laid over the base, and a breadth-first search *)
(* from the changed symbols reads both, all under shared budgets.            *)
(*                                                                           *)
(* A symbol is its path, its name and its range (place), so that any edit    *)
(* of it or before it makes it another symbol. A use is a call, another      *)
(* reference, an import or a public import (kind "exports") of a name at a   *)
(* place in the body of a symbol. An edge is identified by everything the    *)
(* code hashes into its identifier; confidence, providers, modules, aliases  *)
(* and byte budgets are left out. Rows come by their hashed identifiers, an  *)
(* order that means nothing: any is possible here.                           *)
EXTENDS Integers, FiniteSets, Sequences

CONSTANTS
  Paths,        \* the files, numbers in the order of their names
  Base,         \* Base[p]: the text of p that the base graph was built from
  Candidates,   \* the texts [Paths -> text] of the candidates to review
  Builtins,     \* the names of macros and functions of the language
  Budgets       \* the budgets: paths, rows, symbols, nodes, edges, depth

ASSUME GraphAssumption ==
  /\ Paths \subseteq Nat \ {0} /\ IsFiniteSet(Paths)
  /\ \A text \in Candidates \union {Base} : \A p \in Paths :
       /\ IsFiniteSet(text[p].symbols) /\ IsFiniteSet(text[p].uses)
       /\ \A s \in text[p].symbols : s[2] \in Nat
       /\ \A u \in text[p].uses :
            u.by \in text[p].symbols /\ u.kind \in {"calls", "references", "imports", "exports"}
  /\ \A b \in Budgets :
       \A r \in {"paths", "rows", "symbols", "nodes", "edges", "depth"} : b[r] \in Nat
  /\ \A b \in Budgets : b.symbols > 0     \* parse_limit accepts no limit of 0

NoFile == [symbols |-> {}, uses |-> {}]
NoSymbol == <<0, "", 0>>

VARIABLES
  candidate,    \* the text under review
  budget,       \* its limits
  used,         \* what is consumed of paths, rows, symbols, nodes and edges
  phase,        \* "delta", "overlay", "seeds", "traverse", "done"
  toResolve,    \* the changed files not resolved yet
  dependents,   \* the unchanged files that use a symbol of a changed one
  replaced,     \* base symbols and the candidate symbols that replace them
  delta,        \* what was resolved: files, symbols, edges
  overlay,      \* tombs, symbols, out, inc (symbol, edge), suppressed
  queue,        \* the paths the overlay still has to process
  queued,       \* every path it ever queued
  pending,      \* symbols whose rows are not read yet
  queried,      \* base symbols whose incoming rows the overlay has read
  search,       \* seen, frontier, next, depth, output, known, halted
  partial,      \* where a budget ran out: "index" (the overlay), "query", "output"
  result        \* the relationships reported

queryVars == <<candidate, budget, used, phase, toResolve, dependents, replaced, delta, overlay,
          queue, queued, pending, queried, search, partial, result>>

Least(S) == CHOOSE x \in S : \A y \in S : x <= y
Smaller(a, b) == IF a < b THEN a ELSE b
Changed == {p \in Paths : candidate[p] # Base[p]}
SymbolsOf(text, p) == {<<p, s[1], s[2]>> : s \in text[p].symbols}
AllSymbols(text) == UNION {SymbolsOf(text, p) : p \in Paths}

Imports == {"imports", "exports"}

Edge(kind, from, to, name, path, place) ==
  [kind |-> kind, from |-> from, to |-> to, name |-> name, path |-> path,
   place |-> place, lost |-> NoSymbol]

\* build_import_bindings, build_call_edges and build_reference_edges: what the
\* resolver of a whole build makes of a use, with a module told by its names. A
\* resolved call is a reference too; a call of several symbols, or of none but
\* the language's own, is unresolved; so is a reference to several. An import
\* has an edge to every symbol it can mean, and no other.
EdgesOf(p, u) ==
  LET by == <<p, u.by[1], u.by[2]>>
      targets == {s \in AllSymbols(Base) : s[2] = u.name}
      To(kind, t) == Edge(kind, by, t, "", p, u.place)
      open == {Edge(u.kind, by, NoSymbol, u.name, p, u.place)}
      only == CHOOSE t \in targets : TRUE
  IN  CASE u.kind \in Imports -> {To(kind, t) : kind \in {"imports", u.kind}, t \in targets}
        [] u.kind = "calls" ->
             IF Cardinality(targets) = 1 THEN {To("calls", only), To("references", only)}
             ELSE IF targets = {} /\ u.name \in Builtins THEN {} ELSE open
        [] OTHER ->
             IF Cardinality(targets) = 1 THEN {To("references", only)}
             ELSE IF targets = {} THEN {} ELSE open

\* The edges of the base graph.
BaseEdges == UNION {UNION {EdgesOf(p, u) : u \in Base[p].uses} : p \in Paths}
Incoming(s) == {e \in BaseEdges : e.to = s}
Outgoing(s) == {e \in BaseEdges : e.from = s}

\* An indexed query: as many rows as the budget has left; the reader's own
\* limit is the whole budget.
RowLimit(spent) == budget.rows - spent
Rows(all, spent) ==
  {some \in SUBSET all : Cardinality(some) = Smaller(Cardinality(all), RowLimit(spent))}

\* IndexBudgetTracker::consume, for values taken one by one until it refuses.
Affordable(all, resource) ==
  {some \in SUBSET all :
     Cardinality(some) = Smaller(Cardinality(all), budget[resource] - used[resource])}

QueryInit ==
  /\ candidate \in Candidates
  /\ budget \in Budgets
  /\ used = [paths |-> 0, rows |-> 0, symbols |-> 0, nodes |-> 0, edges |-> 0]
  /\ phase = "delta"
  /\ toResolve = Changed
  /\ dependents = {} /\ replaced = {} /\ pending = {} /\ queried = {}
  /\ delta = [files |-> {}, symbols |-> {}, edges |-> {}]
  /\ overlay = [tombs |-> {}, symbols |-> {}, out |-> {}, inc |-> {}, suppressed |-> {}]
  /\ queue = Changed /\ queued = Changed
  /\ search = [roots |-> {}, seen |-> {}, frontier |-> {}, next |-> {}, depth |-> 0,
               output |-> {}, known |-> {}, halted |-> FALSE]
  /\ partial = {} /\ result = {}

--------------------------------------------------------------------------
(* Resolving the changed files and their dependents.                        *)

CallsOf(text) == {u \in text.uses : u.kind = "calls"}

\* overlay_edge_still_present: a call or a reference is still written there and
\* still says the name of the target; an import is, whatever it imports now.
StillPresent(e, name, text) ==
  \E u \in text.uses :
    /\ u.place = e.place
    /\ \/ e.kind \notin Imports /\ u.kind = e.kind /\ u.name = name
       \/ e.kind \in Imports /\ u.kind \in Imports

\* resolve_overlay_path: the calls that no kept base edge stands for.
TargetName(e) == IF e.to = NoSymbol THEN e.name ELSE e.to[2]

(* Mutant: a kept edge stands for every call of the same name. *)
UnretainedCalls_Name(text, kept) ==
  {u \in CallsOf(text) : ~\E e \in kept : e.kind = "calls" /\ TargetName(e) = u.name}

UnretainedCalls(text, kept) ==
  {u \in CallsOf(text) : ~\E e \in kept :
     e.kind = "calls" /\ e.place = u.place /\ TargetName(e) = u.name}

\* resolve_overlay_path, the edges: base edges whose caller and use are still
\* there keep their target or follow its replacement; the other calls of the
\* text are unresolved, at the first symbol when they have no caller.
ResolvedEdges(p, text, own, rows) ==
  LET kept == {e \in rows : e.from \in own /\
                 StillPresent(e, TargetName(e), text)}
      Follow(t) == IF t \in own \/ t = NoSymbol \/ ~\E r \in replaced : r[1] = t THEN t
                   ELSE (CHOOSE r \in replaced : r[1] = t)[2]
      first == CHOOSE s \in own : \A t \in own : s[3] <= t[3]
      Caller(u) == LET by == <<p, u.by[1], u.by[2]>> IN IF by \in own THEN by ELSE first
  IN  {[e EXCEPT !.to = Follow(@)] : e \in kept} \union
      (IF own = {} THEN {}
       ELSE {Edge("calls", Caller(u), NoSymbol, u.name, p, u.place) :
               u \in UnretainedCalls(text, kept)})

\* record_symbol_replacements: the same symbol, else the only one of its name.
Replacements(old, new) ==
  {r \in old \X new :
     \/ r[1] = r[2]
     \/ /\ r[1] \notin new /\ r[1][2] = r[2][2]
        /\ Cardinality({s \in new : s[2] = r[1][2]}) = 1}

\* read_base_path_context and resolve_overlay_path for one file.  The module of
\* a file is always known, from the base or from its path: the code passes over
\* a file for which it can infer none.
Resolve(p, text) ==
  \E symbols \in Rows(SymbolsOf(Base, p), used.rows) :
    LET spent == used.rows + Cardinality(symbols)
    IN  \E edges \in Rows({e \in BaseEdges : e.path = p}, spent),
           own \in Affordable({<<p, s[1], s[2]>> : s \in text.symbols}, "symbols") :
          /\ delta' = [files |-> delta.files \union {p},
                       symbols |-> delta.symbols \union own,
                       edges |-> delta.edges \union
              ResolvedEdges(p, text, own, {e \in edges : e.from \in symbols})]
          /\ used' = [used EXCEPT !.rows = spent + Cardinality(edges),
                                  !.symbols = @ + Cardinality(own)]
          /\ IF p \in Changed
             THEN /\ replaced' = replaced \union Replacements(symbols, own)
                  /\ pending' = symbols
             ELSE UNCHANGED <<replaced, pending>>

\* build_fast_candidate_graph: a changed file that is still there is resolved.
ResolveChanged ==
  /\ phase = "delta" /\ toResolve # {} /\ pending = {}
  /\ candidate[Least(toResolve)] # NoFile
  /\ Resolve(Least(toResolve), candidate[Least(toResolve)])
  /\ toResolve' = toResolve \ {Least(toResolve)}
  /\ UNCHANGED <<candidate, budget, phase, dependents, overlay, queue, queued, queried,
                 search, partial, result>>

\* build_fast_candidate_graph: a removed file is passed over.
PassRemoved ==
  /\ phase = "delta" /\ toResolve # {} /\ pending = {}
  /\ candidate[Least(toResolve)] = NoFile
  /\ toResolve' = toResolve \ {Least(toResolve)}
  /\ UNCHANGED <<candidate, budget, used, phase, dependents, replaced, delta, overlay,
                 queue, queued, pending, queried, search, partial, result>>

\* collect_reverse_dependents, one symbol: the unchanged files that use it; no
\* rows left ends it.
CollectDependents ==
  /\ phase = "delta" /\ pending # {}
  /\ \E s \in pending : \E rows \in Rows(Incoming(s), used.rows) :
       /\ used' = [used EXCEPT !.rows = @ + Cardinality(rows)]
       /\ dependents' = dependents \union
            {e.path : e \in {r \in rows : r.path \notin Changed}}
       /\ pending' = IF RowLimit(used.rows) = 0 THEN {} ELSE pending \ {s}
  /\ UNCHANGED <<candidate, budget, phase, toResolve, replaced, delta, overlay, queue, queued,
                 queried, search, partial, result>>

\* build_fast_candidate_graph: a dependent is resolved from its unchanged text.
ResolveDependent ==
  /\ phase = "delta" /\ toResolve = {} /\ pending = {} /\ dependents # {}
  /\ Resolve(Least(dependents), Base[Least(dependents)])
  /\ dependents' = dependents \ {Least(dependents)}
  /\ UNCHANGED <<candidate, budget, phase, toResolve, overlay, queue, queued, queried, search,
                 partial, result>>

\* rewrite_replaced_edge_targets, and the overlay starts.
StartOverlay ==
  /\ phase = "delta" /\ toResolve = {} /\ pending = {} /\ dependents = {}
  /\ phase' = "overlay"
  /\ delta' = [delta EXCEPT !.edges =
       {[e EXCEPT !.to = IF \E r \in replaced : r[1] = e.to
                         THEN (CHOOSE r \in replaced : r[1] = e.to)[2] ELSE @] : e \in @}]
  /\ UNCHANGED <<candidate, budget, used, toResolve, dependents, replaced, overlay, queue,
                 queued, pending, queried, search, partial, result>>

--------------------------------------------------------------------------
(* Building the overlay.                                                    *)

\* The symbols a review asks about: those of the changed files.
ChangedSymbols == UNION {SymbolsOf(candidate, p) : p \in Changed}

\* OverlayBuilder::build: no path or no time is left.
StopOverlay ==
  /\ phase = "overlay" /\ pending = {} /\ queue # {}
  /\ phase' = "seeds" /\ pending' = ChangedSymbols
  /\ partial' = partial \union {"index"}
  /\ UNCHANGED <<candidate, budget, used, toResolve, dependents, replaced, delta, overlay,
                 queue, queued, queried, search, result>>

\* OverlayBuilder::process_path: a dependent the candidate has no facts of keeps
\* its base edges.
SkipPath ==
  /\ phase = "overlay" /\ pending = {} /\ queue # {} /\ used.paths < budget.paths
  /\ Least(queue) \notin Changed \union delta.files
  /\ queue' = queue \ {Least(queue)}
  /\ used' = [used EXCEPT !.paths = @ + 1]
  /\ partial' = partial \union {"index"}
  /\ UNCHANGED <<candidate, budget, phase, toResolve, dependents, replaced, delta, overlay,
                 queued, pending, queried, search, result>>

\* insert_candidate_path, the symbols: each is charged as a symbol, then as a node.
Insertable(own, room) ==
  {some \in SUBSET own :
     Cardinality(some) = Smaller(Cardinality(own), Smaller(budget.symbols - used.symbols, room))}
Charged(own, taken) ==
  Cardinality(taken)
    + (IF taken # own /\ Cardinality(taken) < budget.symbols - used.symbols THEN 1 ELSE 0)

\* OverlayBuilder::process_path: the path is tombstoned and what the candidate
\* has of it inserted, each kind of value until its budget refuses.
ProcessPath ==
  /\ phase = "overlay" /\ pending = {} /\ queue # {} /\ used.paths < budget.paths
  /\ LET p == Least(queue)
         edges == {e \in delta.edges : e.path = p}
         own == {s \in delta.symbols : s[1] = p}
         file == Cardinality({p} \intersect delta.files)
         room == budget.nodes - used.nodes - file
     IN  /\ p \in Changed \union delta.files
         /\ queue' = queue \ {p}
         /\ \E symbols \in Rows(SymbolsOf(Base, p), used.rows),
               taken \in IF room < 0 THEN {{}} ELSE Insertable(own, room),
               put \in IF room < 0 THEN {{}} ELSE Affordable(edges, "edges") :
              LET spent == used.rows + Cardinality(symbols)
              IN \E rows \in Rows({e \in BaseEdges : e.path = p}, spent) :
                   /\ overlay' =
                        [tombs |-> overlay.tombs \union {p},
                         symbols |-> overlay.symbols \union taken,
                         out |-> overlay.out \union put,
                         inc |-> overlay.inc \union
                                   {<<e.to, e>> : e \in {f \in put : f.to # NoSymbol}},
                         suppressed |-> overlay.suppressed \union rows]
                   /\ used' = [used EXCEPT !.paths = @ + 1,
                                           !.rows = spent + Cardinality(rows),
                                           !.nodes = @ + (IF room < 0 THEN 0 ELSE Cardinality(taken) + file),
                                           !.symbols = @ + (IF room < 0 THEN 0 ELSE Charged(own, taken)),
                                           !.edges = @ + Cardinality(put)]
                   /\ pending' = symbols \ queried
                   /\ partial' = IF \/ room < 0 \/ taken # own \/ put # edges
                                    \/ Cardinality(symbols) = RowLimit(used.rows)
                                    \/ Cardinality(rows) = RowLimit(spent)
                                 THEN partial \union {"index"} ELSE partial
  /\ UNCHANGED <<candidate, budget, phase, toResolve, dependents, replaced, delta, queued,
                 queried, search, result>>

\* candidate_retargets_edge.
Retargets(e, s) ==
  \E c \in delta.edges : /\ c.path = e.path /\ c.kind = e.kind /\ c.place = e.place
                         /\ c.to \notin {NoSymbol, s}

\* process_path, one base symbol of the path: the files that use it are queued;
\* if it is gone, their base edges to it become unresolved.
VisitSymbol ==
  /\ phase = "overlay" /\ pending # {}
  /\ \E s \in pending : \E rows \in Rows(Incoming(s), used.rows) :
       LET users == {e.path : e \in rows} \ queued
           orphans == IF s \in overlay.symbols THEN {}
                      ELSE {e \in rows : e.path \notin overlay.tombs /\ ~Retargets(e, s)}
           Unresolved(e) == [e EXCEPT !.to = NoSymbol, !.lost = s]
       IN  \E put \in Affordable({Unresolved(e) : e \in orphans}, "edges") :
             /\ overlay' = [overlay EXCEPT
                              !.suppressed = @ \union orphans,
                              !.out = @ \union put,
                              !.inc = @ \union {<<s, e>> : e \in put}]
             /\ used' = [used EXCEPT !.rows = @ + Cardinality(rows),
                                     !.edges = @ + Cardinality(put)]
             /\ queue' = queue \union users
             /\ queued' = queued \union users
             /\ pending' = pending \ {s}
             /\ queried' = queried \union {s}
             /\ partial' = IF \/ Cardinality(rows) = RowLimit(used.rows)
                              \/ Cardinality(put) < Cardinality(orphans)
                           THEN partial \union {"index"} ELSE partial
  /\ UNCHANGED <<candidate, budget, phase, toResolve, dependents, replaced, delta, search,
                 result>>

FinishOverlay ==
  /\ phase = "overlay" /\ pending = {} /\ queue = {}
  /\ phase' = "seeds" /\ pending' = ChangedSymbols
  /\ UNCHANGED <<candidate, budget, used, toResolve, dependents, replaced, delta, overlay,
                 queue, queued, queried, search, partial, result>>

--------------------------------------------------------------------------
(* The query.                                                               *)

\* query_graph, one changed symbol: it is a root if the overlay, or the base
\* where the overlay did not come, knows it; so are the symbols of its file that
\* are gone. No rows left ends it.
SeedSymbol ==
  /\ phase = "seeds" /\ pending # {}
  /\ \E s \in pending : \E rows \in Rows(SymbolsOf(Base, s[1]), used.rows) :
       LET gone == IF s[1] \in overlay.tombs THEN rows \ overlay.symbols ELSE {}
           roots == gone \union ({s} \intersect (overlay.symbols \union (rows \ gone)))
       IN  /\ search' = [search EXCEPT !.roots = @ \union roots]
           /\ used' = [used EXCEPT !.rows = @ + Cardinality(rows)]
           /\ pending' = IF used.rows = budget.rows THEN {} ELSE pending \ {s}
           /\ partial' = IF Cardinality(rows) = RowLimit(used.rows)
                         THEN partial \union {"query"} ELSE partial
  /\ UNCHANGED <<candidate, budget, phase, toResolve, dependents, replaced, delta, overlay, queue,
                 queued, queried, result>>

\* TraversalBuilder::run, the first frontier.
StartSearch ==
  /\ phase = "seeds" /\ pending = {}
  /\ \E seen \in {some \in SUBSET search.roots : Cardinality(some) =
                     Smaller(Cardinality(search.roots), budget.nodes)} :
       /\ search' = [search EXCEPT !.seen = seen, !.frontier = seen, !.known = search.roots]
       /\ partial' = IF seen # search.roots \/ seen = {}
                     THEN partial \union {"query"} ELSE partial
  /\ phase' = "traverse"
  /\ UNCHANGED <<candidate, budget, used, toResolve, dependents, replaced, delta, overlay, queue,
                 queued, pending, queried, result>>

\* base_edge_is_suppressed.
Suppressed(e) ==
  e \in overlay.suppressed \/ e.path \in overlay.tombs \/ e \in overlay.out

\* base_lookup_is_fully_replaced.
FullyReplaced(s) == s \in overlay.symbols /\ s[1] \in overlay.tombs

\* TraversalBuilder::read_base: the base rows of a symbol in one direction; none
\* left, or exactly as many as asked for, halts the query.
HaltsAt(rows, limit) == Cardinality(rows) = limit

\* lookup, consider_output and consider_neighbor for one symbol: the incoming
\* relationships, then the outgoing ones unless the query was halted.
LookUp ==
  /\ phase = "traverse" /\ ~search.halted /\ search.depth < budget.depth
  /\ \E s \in search.frontier : \E up \in Rows(Incoming(s), used.rows) :
       LET spent == used.rows + Cardinality(up)
           halt1 == HaltsAt(up, RowLimit(used.rows))
           replacedOut == FullyReplaced(s)
           skip == halt1 \/ replacedOut
       IN  \E down \in IF skip THEN {{}} ELSE Rows(Outgoing(s), spent) :
             LET incoming == {e \in up : ~Suppressed(e)} \union
                             {x[2] : x \in {y \in overlay.inc : y[1] = s}}
                 outgoing == IF halt1 THEN {}
                             ELSE {e \in down : ~Suppressed(e)} \union
                                  {e \in overlay.out : e.from = s}
                 found == (incoming \union outgoing) \ search.output
                 near == ({e.from : e \in incoming} \union
                          ({e.to : e \in outgoing} \ {NoSymbol})) \ search.seen
             IN  \E listed \in {some \in SUBSET found : Cardinality(some) =
                      Smaller(Cardinality(found), budget.edges - Cardinality(search.output))},
                    visited \in {some \in SUBSET near : Cardinality(some) =
                      Smaller(Cardinality(near), budget.nodes - Cardinality(search.seen))} :
                   LET halt == halt1 \/ (~skip /\ HaltsAt(down, RowLimit(spent)))
                   IN  /\ search' = [search EXCEPT
                            !.output = @ \union listed,
                            !.seen = @ \union visited,
                            !.next = @ \union visited,
                            !.frontier = @ \ {s},
                            !.halted = halt]
                       /\ used' = [used EXCEPT !.rows = spent + Cardinality(down)]
                       /\ partial' = partial
                            \union (IF halt \/ visited # near THEN {"query"} ELSE {})
                            \union (IF listed # found THEN {"output"} ELSE {})
  /\ UNCHANGED <<candidate, budget, phase, toResolve, dependents, replaced, delta, overlay,
                 queue, queued, pending, queried, result>>

\* TraversalBuilder::run: the next depth.
Deeper ==
  /\ phase = "traverse" /\ ~search.halted /\ search.frontier = {} /\ search.next # {}
  /\ search' = [search EXCEPT !.frontier = search.next, !.next = {}, !.depth = @ + 1]
  /\ UNCHANGED <<candidate, budget, used, phase, toResolve, dependents, replaced, delta,
                 overlay, queue, queued, pending, queried, partial, result>>

\* check_deadline: time is up between two lookups.
Late ==
  /\ phase = "traverse" /\ ~search.halted /\ search.frontier # {}
  /\ search' = [search EXCEPT !.halted = TRUE]
  /\ partial' = partial \union {"query"}
  /\ UNCHANGED <<candidate, budget, used, phase, toResolve, dependents, replaced, delta,
                 overlay, queue, queued, pending, queried, result>>

\* TraversalBuilder::run: the depth is out before the frontier is.
CutByDepth == ~search.halted /\ search.frontier # {}

\* query_graph, the end: an edge is reported when both its symbols can be read,
\* from the overlay or else from the base, with the rows that are left.
Report ==
  /\ phase = "traverse"
  /\ \/ search.halted
     \/ search.frontier \union search.next = {}
     \/ search.depth >= budget.depth
  /\ LET ends == UNION {{e.from, e.to} : e \in search.output} \ {NoSymbol}
         readable == (ends \ search.known) \intersect
                       (overlay.symbols \union AllSymbols(Base))
     IN  \E read \in {some \in SUBSET readable : Cardinality(some) =
                        Smaller(Cardinality(readable), budget.rows - used.rows)} :
           LET known == search.known \union read
           IN  /\ used' = [used EXCEPT !.rows = @ + Cardinality(read)]
               /\ result' = {e \in search.output :
                               e.from \in known /\ e.to \in known \union {NoSymbol}}
               /\ partial' = IF \/ result' # search.output
                                \/ CutByDepth
                             THEN partial \union {"query"} ELSE partial
  /\ phase' = "done"
  /\ UNCHANGED <<candidate, budget, toResolve, dependents, replaced, delta, overlay, queue,
                 queued, pending, queried, search>>

QueryNext ==
  \/ ResolveChanged \/ PassRemoved \/ CollectDependents \/ ResolveDependent
  \/ StartOverlay \/ StopOverlay \/ SkipPath \/ ProcessPath \/ VisitSymbol
  \/ FinishOverlay \/ SeedSymbol \/ StartSearch \/ LookUp \/ Deeper \/ Late \/ Report

QuerySpec == QueryInit /\ [][QueryNext]_queryVars
--------------------------------------------------------------------------
(* Properties.                                                              *)

QueryTypeOK ==
  /\ phase \in {"delta", "overlay", "seeds", "traverse", "done"}
  /\ \A r \in DOMAIN used : used[r] \in 0 .. budget[r]
  /\ queue \subseteq queued /\ result \subseteq search.output
  /\ Cardinality(search.seen) <= budget.nodes /\ search.frontier \subseteq search.seen
  /\ Cardinality(search.output) <= budget.edges /\ search.depth <= budget.depth
  /\ partial \subseteq {"index", "query", "output"}

\* The edges a lookup can return: the overlay's, and the base's it leaves.
View == overlay.out \union {e \in BaseEdges : ~Suppressed(e)}

\* A relationship that is reported, other than as a lost one, starts in the
\* candidate and is written there at the place it gives, by the name of its
\* target: none is left over from the base text of a changed file, unless the
\* overlay ran out of a budget. Of an import only the place is compared by the
\* code, not what it imports: see Divergences in the README.
StandsInText(e) ==
  \E u \in candidate[e.path].uses :
    /\ u.place = e.place
    /\ IF e.kind \in Imports THEN u.kind \in Imports
       ELSE u.kind \in {"calls", e.kind} /\ u.name = TargetName(e)
OutputIsOfTheCandidate ==
  phase = "done" =>
    \A e \in result :
      \/ e.lost # NoSymbol
      \/ e.from \in AllSymbols(candidate) /\ StandsInText(e)
      \/ e.path \notin overlay.tombs /\ "index" \in partial

\* No call is lost between the base, the changed files and their dependents:
\* every call the candidate makes inside a symbol can be looked up at its place
\* and by the name it says, unless the overlay ran out of a budget or the name
\* is the language's own.
Named(e) == IF e.lost = NoSymbol THEN TargetName(e) ELSE e.lost[2]
NoCallIsLost ==
  phase \in {"seeds", "traverse", "done"} /\ "index" \notin partial =>
    \A p \in Paths : \A u \in candidate[p].uses :
      u.kind = "calls" /\ u.name \notin Builtins =>
        \E e \in View : e.path = p /\ e.kind = "calls" /\ e.place = u.place /\ Named(e) = u.name

\* A relationship is left out only where the answer says so: an answer that is
\* not partial holds every edge of the merged graph at a changed symbol, at a
\* symbol that is gone, and at any symbol reached from those.
OmissionsAreDeclared ==
  phase = "done" /\ partial \subseteq {"index"} =>
    \A e \in View :
      {e.from, e.to, e.lost} \intersect search.seen # {} =>
        e \in result /\ {e.from, e.to} \subseteq search.seen \union {NoSymbol}

\* The query of a graph laid over a base misses no call of the candidate, shows
\* none that is no longer written, and declares what its limits leave out.
QueryIsFaithful ==
  QueryTypeOK /\ NoCallIsLost /\ OutputIsOfTheCandidate /\ OmissionsAreDeclared

\* A relationship to a symbol that is gone is unresolved, as the test
\* incoming_edges_to_deleted_symbols_remain_visible_as_unresolved_impact has it:
\* no edge of the overlay leads to a symbol the candidate does not have. False
\* of the code: see Divergences in the README.
DeletedTargetIsUnresolved ==
  phase = "done" =>
    \A e \in overlay.out : e.to \in AllSymbols(candidate) \union {NoSymbol}
=============================================================================
