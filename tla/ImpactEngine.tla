---------------------------- MODULE ImpactEngine ----------------------------
(* The impact document of a review (impact_context/engine.rs, with text.rs,  *)
(* budget.rs, normalizer.rs, summarizer.rs and contracts.rs): every changed  *)
(* file is read, parsed and searched under one ledger of budgets, the graph  *)
(* of the repository is asked about the changed symbols, and the document is *)
(* cut to its size and checked before it is handed out.                      *)
(*                                                                           *)
(* A file is a record of what its bytes hold: the definitions touched by the *)
(* change and the other captures of the grammar in the order of the text,    *)
(* how often a configured query, a key, a marker and a test hint match, and  *)
(* the definitions of its version in the base graph. Its path is its place   *)
(* in the sorted list of changed files. An identifier hashed from fields is  *)
(* the record of those fields; what is hashed has no order, so any order of  *)
(* edges and symbols is possible. Ranges keep their end only; confidences,   *)
(* messages and elapsed times are left out. A record costs one unit of the   *)
(* size of the document.                                                     *)
EXTENDS Integers, FiniteSets, FiniteSetsExt, SequencesExt

Symbol(name, end, pub, path, provider) ==
  [name |-> name, end |-> end, pub |-> pub, path |-> path, provider |-> provider]
NoSymbol == Symbol("none", 0, FALSE, 0, "none")
Nowhere == 0               \* the path of a limitation of the whole document
NoContent == -1

\* The limitations that name a budget: their codes end in budget-exhausted.
Budgetary ==
  {"changed-file-budget-exhausted", "file-byte-budget-exhausted", "total-byte-budget-exhausted",
   "node-budget-exhausted", "fact-budget-exhausted", "edge-budget-exhausted",
   "query-match-budget-exhausted", "query-pattern-budget-exhausted"}

Limit(code, provider, path) == [code |-> code, provider |-> provider, path |-> path]

--------------------------------------------------------------------------
(* The ledger: what was consumed of each resource.                           *)
Fits(used, r, n, budget) == used[r] + n <= budget[r]
Consume(used, r, n, budget) == IF Fits(used, r, n, budget) THEN [used EXCEPT ![r] = @ + n] ELSE used
Room(used, r, budget) == budget[r] - used[r]
Smaller(m, n) == IF m < n THEN m ELSE n

\* What may be left of a set in an order nothing is known of.
Left(S, n) ==
  IF n >= Cardinality(S) THEN {S} ELSE IF n <= 0 THEN {{}} ELSE kSubset(n, S)

(* Queries and test hints configured in the candidate. A line that is no     *)
(* good is its own code; blank lines are left out.                           *)
ReadConfiguration(file, budget, used) ==
  LET Nothing(codes) == [usable |-> 0, codes |-> codes, used |-> used, interpreted |-> FALSE]
      lines == SubSeq(file.lines, 1, Smaller(Len(file.lines), Room(used, "patterns", budget)))
  IN  IF file.read = "absent" THEN Nothing({})
      ELSE IF file.read = "failed" THEN Nothing({"config-unavailable"})
      ELSE IF file.read = "large" THEN Nothing({"file-byte-budget-exhausted"})
      ELSE IF ~Fits(used, "total", file.size, budget) THEN Nothing({"total-byte-budget-exhausted"})
      ELSE   LET paid == Consume(used, "total", file.size, budget)
             IN  IF file.binary
                 THEN [Nothing({"binary-config"}) EXCEPT !.used = paid]
                 ELSE [usable |-> Len(SelectSeq(lines, LAMBDA x : x = "good")),
                       codes |-> ToSet(SelectSeq(lines, LAMBDA x : x # "good"))
                                   \union (IF Len(lines) < Len(file.lines)
                                           THEN {"query-pattern-budget-exhausted"} ELSE {}),
                       used |-> [paid EXCEPT !.patterns = @ + Len(lines)],
                       interpreted |-> TRUE]

Configuration(queries, hints, budget, used) ==
  LET q == ReadConfiguration(queries, budget, used)
      h == ReadConfiguration(hints, budget, q.used)
  IN  [queries |-> q.usable, hints |-> h.usable, used |-> h.used,
       codes |-> q.codes \union h.codes
                   \union (IF q.interpreted THEN {"text-query-scope-changed-files"} ELSE {})]

--------------------------------------------------------------------------
(* One step of the text search: n facts of a kind, as far as the ledger goes.*)
Push(scan, kind, n, budget) ==
  LET taken == Smaller(n, Room(scan.used, "facts", budget))
  IN  [used |-> [scan.used EXCEPT !.facts = @ + taken],
       facts |-> scan.facts \o [i \in 1 .. taken |-> [kind |-> kind, at |-> i]],
       codes |-> scan.codes \union (IF taken < n THEN {"fact-budget-exhausted"} ELSE {}),
       status |-> IF taken < n THEN "budget" ELSE scan.status]

\* One configured query: the match after the last one allowed only cuts the
\* list, unless the facts ran out before it.
SearchQuery(scan, f, i, budget) ==
  LET n == Smaller(f.matches, budget.matches)
      pushed == Push(scan, <<"query", i>>, n, budget)
  IN  IF f.matches > n /\ n <= Room(scan.used, "facts", budget)
      THEN [pushed EXCEPT !.codes = @ \union {"query-match-budget-exhausted"}, !.status = "partial"]
      ELSE pushed

TextScan(f, conf, budget, used) ==
  LET start == [used |-> used, facts |-> <<>>, codes |-> {}, status |-> "completed"]
      queried == FoldLeft(LAMBDA scan, i : SearchQuery(scan, f, i, budget), start,
                          [i \in 1 .. conf.queries |-> i])
      keyed == Push(queried, <<"configuration">>, f.keys, budget)
      marked == Push(keyed, <<"marker">>, f.markers, budget)
  IN  Push(marked, <<"hint">>, IF f.hinted /\ conf.hints > 0 THEN 1 ELSE 0, budget)

--------------------------------------------------------------------------
(* The grammar: a tree too large gives no captures at all; otherwise the     *)
(* touched definitions come first, then the other captures up to the first   *)
(* that does not fit.                                                        *)
Captured(captures, room, maxCalls) ==
  LET Calls(i) == Len(SelectSeq(SubSeq(captures, 1, i), LAMBDA c : c = "call"))
      stops == {i \in DOMAIN captures : i > room \/ (captures[i] = "call" /\ Calls(i) > maxCalls)}
      stop == IF stops = {} THEN Len(captures) + 1 ELSE Min(stops)
  IN  [kept |-> SubSeq(captures, 1, stop - 1),
       facts |-> Smaller(stop, Smaller(room, Len(captures))),
       codes |-> IF stops = {} THEN {} ELSE IF stop > room THEN {"fact-budget-exhausted"}
                 ELSE {"edge-budget-exhausted"}]

Analyze(f, budget, used) ==
  LET whole == Fits(used, "nodes", f.nodes, budget)
      room == Room(used, "facts", budget)
      symbols == IF whole THEN SubSeq(f.symbols, 1, Smaller(Len(f.symbols), room)) ELSE <<>>
      rest == Captured(IF whole THEN f.captures ELSE <<>>, room - Len(symbols), budget.edges)
      codes == rest.codes
                 \union (IF whole THEN {} ELSE {"node-budget-exhausted"})
                 \union (IF whole /\ Len(symbols) < Len(f.symbols) THEN {"fact-budget-exhausted"} ELSE {})
  IN  [symbols |-> symbols, captures |-> rest.kept,
       codes |-> codes \union (IF f.parse = "clean" THEN {} ELSE {"syntax-recovery"}),
       status |-> IF codes \intersect Budgetary # {} THEN "budget"
                  ELSE IF f.parse = "clean" THEN "completed" ELSE "partial",
       used |-> [used EXCEPT !.facts = @ + Len(symbols) + rest.facts,
                             !.nodes = IF whole THEN @ + f.nodes ELSE budget.nodes]]

--------------------------------------------------------------------------
(* What facts of a file become.                                              *)
SymbolOf(s, path) == Symbol(s.name, s.end, s.pub, path, "syntax")
Edge(kind, from, to, path, at, provider) ==
  [kind |-> kind, from |-> from, to |-> to, path |-> path, at |-> at, provider |-> provider]
Summary(kind, path, symbol, at) == [kind |-> kind, path |-> path, symbol |-> symbol, at |-> at]

UnitEdges(symbols, captures, path) ==
  {Edge(k, NoSymbol, s, path, s.end, "syntax") : k \in {"defines"}, s \in symbols}
  \union {Edge("exports", NoSymbol, s, path, s.end, "syntax") : s \in {t \in symbols : t.pub}}
  \union {Edge(captures[i], NoSymbol, NoSymbol, path, i, "syntax") :
            i \in {j \in DOMAIN captures : captures[j] \in {"import", "call", "macro"}}}

FactKind == [import |-> "dependency", query |-> "text query", configuration |-> "configuration",
             marker |-> "framework", hint |-> "test selection"]
UnitSummaries(f, symbols, captures, facts, path) ==
  {Summary("interface", path, s, <<"public">>) : s \in {t \in symbols : t.pub}}
  \union {Summary("dependency", path, NoSymbol, <<"import", i>>) :
            i \in {j \in DOMAIN captures : captures[j] = "import"}}
  \union {Summary(FactKind[x.kind[1]], path, NoSymbol, Append(x.kind, x.at)) : x \in ToSet(facts)}
  \union (IF f.test /\ f.read = "ok" /\ f.presence = "present"
          THEN {Summary("test selection", path, NoSymbol, <<"path">>)} ELSE {})

--------------------------------------------------------------------------
(* One changed file. Either it is read through, or the reason why not is the *)
(* code of its limitation.                                                   *)
Verdict(f, budget, used, late) ==
  IF ~Fits(used, "files", 1, budget) THEN "changed-file-budget-exhausted"
  ELSE IF late THEN "deadline-exhausted"
  ELSE IF f.presence = "present" /\ f.read = "large" THEN "file-byte-budget-exhausted"
  ELSE IF f.presence = "deleted" THEN "removed-structure-unavailable-in-fast-mvp"
  ELSE IF f.presence = "gitlink" THEN "gitlink-structure-unavailable"
  ELSE IF f.read = "failed" THEN "candidate-read-unavailable"
  ELSE IF f.binary THEN "binary-structure-unavailable"
  ELSE IF f.generated THEN "generated-structure-not-claimed"
  ELSE IF ~f.ranges THEN "mode-only-no-structural-range"
  ELSE IF ~Fits(used, "total", f.size, budget) THEN "total-byte-budget-exhausted"
  ELSE "read"

StatusOf(verdict) ==
  CASE verdict \in Budgetary \union {"deadline-exhausted"} -> "budget"
    [] verdict \in {"removed-structure-unavailable-in-fast-mvp", "candidate-read-unavailable"} ->
         "unavailable"
    [] OTHER -> "unsupported"
TextStatusOf(verdict) ==
  IF verdict \in {"generated-structure-not-claimed", "mode-only-no-structural-range"}
  THEN "unavailable" ELSE StatusOf(verdict)

\* A file that could not be read says so whatever else limits it.
ReadLimits(f) ==
  IF f.presence # "present" \/ f.read = "ok" THEN {}
  ELSE IF f.read = "large" THEN {"file-byte-budget-exhausted"}
  ELSE {"candidate-read-unavailable"}

Eligible(f, verdict) ==
  /\ f.rust /\ f.presence = "present" /\ f.read = "ok" /\ ~f.binary /\ ~f.generated /\ f.ranges
  /\ verdict \in {"read", "total-byte-budget-exhausted"}

Syntax(f, budget, used) ==
  LET Nothing(code, status) ==
        [symbols |-> <<>>, captures |-> <<>>, codes |-> {code}, status |-> status, used |-> used]
  IN  IF ~Eligible(f, "read") THEN Nothing("unsupported-language", "unsupported")
      ELSE IF f.parse = "late" THEN Nothing("deadline-exhausted", "budget")
      ELSE IF f.parse = "failed" THEN Nothing("tree-sitter-rust-unavailable", "unavailable")
      ELSE Analyze(f, budget, used)

\* The unit and what it adds to the document.
Unit(f, path, conf, budget, used, late) ==
  LET verdict == Verdict(f, budget, used, late)
      counted == Consume(used, "files", 1, budget)
      read == verdict = "read"
      none == [symbols |-> <<>>, captures |-> <<>>, codes |-> {}, facts |-> <<>>,
               status |-> StatusOf(verdict), used |-> counted]
      syntax == IF read THEN Syntax(f, budget, Consume(counted, "total", f.size, budget)) ELSE none
      text == IF read THEN TextScan(f, conf, budget, syntax.used)
              ELSE [none EXCEPT !.status = TextStatusOf(verdict)]
      symbols == {SymbolOf(s, path) : s \in ToSet(syntax.symbols)}
      own == ReadLimits(f) \union
             (IF verdict \in {"read", "file-byte-budget-exhausted", "candidate-read-unavailable"}
              THEN {} ELSE {verdict})
      limits == {Limit(c, "none", path) : c \in own}
                  \union {Limit(c, "syntax", path) : c \in syntax.codes}
                  \union {Limit(c, "text", path) : c \in text.codes}
      touched == {s \in ToSet(syntax.symbols) : s.affected}
  IN  [unit |-> [path |-> path, presence |-> f.presence,
                 content |-> IF f.presence = "present" /\ f.read = "ok" THEN f.size ELSE NoContent,
                 eligible |-> Eligible(f, verdict), syntax |-> syntax.status, text |-> text.status,
                 quality |-> IF read /\ f.parse \in {"clean", "recovered", "degraded"}
                             THEN f.parse ELSE "none",
                 symbols |-> symbols, affected |-> {SymbolOf(s, path) : s \in touched},
                 limits |-> limits],
       edges |-> UnitEdges(symbols, syntax.captures, path),
       summaries |-> UnitSummaries(f, symbols, syntax.captures, text.facts, path),
       facts |-> Len(SelectSeq(syntax.captures, LAMBDA c : c # "call")) + Len(text.facts),
       used |-> text.used,
       late |-> late \/ (read /\ Eligible(f, verdict) /\ f.parse = "late")]

--------------------------------------------------------------------------
(* The graph of the repository. Every changed symbol seeds the search with   *)
(* its counterpart; over an overlay, so does every definition its file had   *)
(* in the base graph and no longer has at the same place. callers are the    *)
(* files that hold a caller of each of them.                                 *)
Indexed(s, path) == Symbol(s.name, s.end, s.pub, path, "repository")
Seeds(files, changed, overlay) ==
  {[s EXCEPT !.provider = "repository"] : s \in changed}
  \union (IF overlay
          THEN UNION {{Indexed(s, p) : s \in files[p].base \ files[p].after} :
                        p \in {q \in DOMAIN files : \E s \in changed : s.path = q}}
          ELSE {})
Caller(p) == Symbol("caller", 1, FALSE, p, "repository")

GraphSummaries(roots, edges) ==
  {Summary("interface", r.path, r, <<"graph">>) : r \in {s \in roots : s.pub}}
  \union {Summary("dependency", e.to.path, e.to, <<"caller", e.path>>) : e \in edges}

Query(repository, files, changed) ==
  LET roots == Seeds(files, changed, repository.overlay)
      edges == {Edge("calls", Caller(p), r, p, 0, "repository") : p \in repository.callers, r \in roots}
  IN  IF repository.status = "unavailable"
      THEN [symbols |-> {}, edges |-> {}, summaries |-> {}]
      ELSE [symbols |-> roots \union {e.from : e \in edges}, edges |-> edges,
            summaries |-> GraphSummaries(roots, edges)]

--------------------------------------------------------------------------
(* Assembly.                                                                 *)
\* What the files and other limitations of a provider amount to.
Tally(units, field, codes) ==
  LET Of(s) == Cardinality({i \in DOMAIN units : units[i][field] = s})
      limited == codes \ {"text-query-scope-changed-files"}
  IN  [completed |-> Of("completed"), unsupported |-> Of("unsupported"),
       partial |-> Of("partial") + Of("unavailable") + Cardinality(limited \ Budgetary),
       budget |-> Of("budget") + Cardinality(limited \intersect Budgetary)]

ProviderStatus(tally) ==
  IF tally.budget > 0 THEN "budget"
  ELSE IF tally.partial > 0 THEN "partial"
  ELSE IF tally.completed > 0 THEN "completed"
  ELSE IF tally.unsupported > 0 THEN "unsupported"
  ELSE "unavailable"

Coverage(units, truncated) ==
  LET Of(P(_)) == Cardinality({i \in DOMAIN units : P(units[i])})
      Parsed(u) == u.syntax \in {"completed", "partial"}
  IN  [total |-> Len(units), eligible |-> Of(LAMBDA u : u.eligible), parsed |-> Of(Parsed),
       clean |-> Of(LAMBDA u : Parsed(u) /\ u.quality = "clean"),
       recovered |-> Of(LAMBDA u : Parsed(u) /\ u.quality = "recovered"),
       degraded |-> Of(LAMBDA u : Parsed(u) /\ u.quality = "degraded"),
       unsupported |-> Of(LAMBDA u : u.syntax = "unsupported"),
       limited |-> Of(LAMBDA u : u.syntax = "budget"),
       unavailable |-> Of(LAMBDA u : u.syntax = "unavailable"),
       truncated |-> truncated]

(* Mutant: only the document says that edges were dropped. *)
DropEdges_Quiet(units, dropped) == units
\* Edges beyond the budget are dropped, and the file each belonged to says so.
DropEdges(units, dropped) ==
  [i \in DOMAIN units |->
     LET lost == {e \in dropped : e.path = units[i].path}
     IN  IF lost = {} THEN units[i]
         ELSE [units[i] EXCEPT
                 !.syntax = "budget",
                 !.limits = @ \union {Limit("edge-budget-exhausted", e.provider, e.path) : e \in lost}]]

EdgeLimits(units, dropped) ==
  {Limit("edge-budget-exhausted", e.provider,
         IF e.path \in DOMAIN units THEN e.path ELSE Nowhere) : e \in dropped}

ImpactStatus(drift, usable, units, providers, mode) ==
  LET complete ==
        /\ \A i \in DOMAIN units : units[i].syntax = "completed" /\ units[i].text = "completed"
        /\ \A p \in DOMAIN providers :
             \/ providers[p] = "completed"
             \/ mode = "fast" /\ p = "repository" /\ providers[p] = "unavailable"
  IN  IF drift THEN "invalidated"
      ELSE IF ~usable THEN "unavailable" ELSE IF complete THEN "completed" ELSE "partial"

\* The files in order, each with the ledger the earlier ones left.
Units(files, conf, budget) ==
  LET Next1(acc, p) ==
        LET u == Unit(files[p], p, conf, budget, acc.used, acc.late \/ p >= budget.expires)
        IN  [used |-> u.used, late |-> u.late, outputs |-> Append(acc.outputs, u)]
  IN  FoldLeft(Next1, [used |-> conf.used, late |-> FALSE, outputs |-> <<>>],
               [p \in DOMAIN files |-> p]).outputs

\* A fresh ledger pays for the configuration first, then for the files.
Analyses(input) ==
  LET zero == [files |-> 0, total |-> 0, nodes |-> 0, facts |-> 0, edges |-> 0, patterns |-> 0]
      conf == Configuration(input.queries, input.hints, input.budget, zero)
  IN  [conf |-> conf, outs |-> Units(input.files, conf, input.budget)]

\* The documents the engine may assemble of what it analysed, before they are cut.
Documents(input, analysed) ==
  LET conf == analysed.conf
      outs == analysed.outs
      Gather(field) == UNION {outs[i][field] : i \in DOMAIN outs}
      changed == UNION {outs[i].unit.symbols : i \in DOMAIN outs}
      asked == input.repository.kind = "answer"
      found == IF asked THEN Query(input.repository, input.files, changed)
               ELSE [symbols |-> {}, edges |-> {}, summaries |-> {}]
      edges == Gather("edges") \union found.edges
      symbols == changed \union found.symbols
      summaries == Gather("summaries") \union found.summaries
      truncated == asked /\ input.repository.truncated
      before == [i \in DOMAIN outs |-> outs[i].unit]
  IN  {LET dropped == edges \ kept
           units == DropEdges(before, dropped)
           lost == IF \E e \in dropped : e.provider = "syntax" THEN {"edge-budget-exhausted"} ELSE {}
           graph == IF asked THEN [repository |-> input.repository.status] ELSE <<>>
           providers == [syntax |-> ProviderStatus(Tally(before, "syntax", lost)),
                         text |-> ProviderStatus(Tally(before, "text", conf.codes))] @@ graph
           usable == \/ symbols # {} \/ kept # {} \/ summaries # {}
                     \/ \E i \in DOMAIN outs : outs[i].facts > 0
       IN  [status |-> ImpactStatus(input.repository.kind = "drift", usable, units, providers,
                                    input.mode),
            providers |-> providers, units |-> units, symbols |-> symbols, edges |-> kept,
            summaries |-> summaries, coverage |-> Coverage(units, truncated),
            limits |->
              UNION {units[i].limits : i \in DOMAIN units}
                \union {Limit(c, "text", Nowhere) : c \in conf.codes}
                \union EdgeLimits(units, dropped)
                \union (IF input.repository.kind \in {"drift", "failed"}
                        THEN {Limit(input.repository.kind, "none", Nowhere)} ELSE {})
                \union (IF asked /\ input.repository.status # "completed"
                        THEN {Limit("graph-limited", "repository", Nowhere)} ELSE {})
                \union (IF truncated THEN {Limit("output-truncated", "repository", Nowhere)} ELSE {}),
            emitted |-> <<Cardinality(kept), Cardinality(summaries)>>]
       : kept \in Left(edges, input.budget.edges)}

--------------------------------------------------------------------------
(* The size of the document. Edges go first, then the summaries of the least *)
(* use, then symbols with every reference to them; what must stay and does   *)
(* not fit fails.                                                            *)
Size(d) ==
  Len(d.units) + Cardinality(d.limits) + Cardinality(d.edges) + Cardinality(d.summaries)
    + Cardinality(d.symbols)
(* Mutant: what others see of the change is dropped before the texts found. *)
Priority_Reversed(kind) == IF kind = "interface" THEN 2 ELSE 0
Priority(kind) ==
  CASE kind \in {"interface", "test selection", "configuration"} -> 0
    [] kind \in {"dependency", "text query"} -> 1
    [] OTHER -> 2

WithoutReferences(units, kept) ==
  [i \in DOMAIN units |-> [units[i] EXCEPT !.symbols = @ \intersect kept,
                                           !.affected = @ \intersect kept]]

Declared(d) ==
  [d EXCEPT !.coverage.truncated = TRUE,
            !.status = IF @ = "completed" THEN "partial" ELSE @,
            !.limits = IF \E l \in @ : l.code = "output-truncated" THEN @
                       ELSE @ \union {Limit("output-truncated", "none", Nowhere)}]

Presentations(document, maximum) ==
  IF Size(document) <= maximum THEN {document}
  ELSE LET d == Declared(document)
           e == Cardinality(d.edges)
           s == Cardinality(d.summaries)
           y == Cardinality(d.symbols)
           excess == Size(d) - maximum
           Ranked(K) == \A k \in K, o \in d.summaries \ K : Priority(k.kind) <= Priority(o.kind)
       IN  IF excess > e + s + y THEN {[status |-> "output-budget-too-small"]}
           ELSE {[d EXCEPT !.edges = E, !.summaries = S, !.symbols = Y,
                           !.units = WithoutReferences(@, Y),
                           !.emitted = <<Cardinality(E), Cardinality(S)>>] :
                   E \in Left(d.edges, e - excess),
                   S \in {K \in Left(d.summaries, s - (excess - e)) : Ranked(K)},
                   Y \in Left(d.symbols, y - (excess - e - s))}

--------------------------------------------------------------------------
(* The check of a document before it is released.                            *)
ContentIsExplained(d, u) ==
  IF u.presence # "present" THEN u.content = NoContent
  ELSE \/ u.content # NoContent
       \/ \E l \in u.limits \intersect d.limits :
            \/ /\ u.syntax = "unavailable" /\ u.text = "unavailable"
               /\ l.code = "candidate-read-unavailable"
            \/ /\ u.syntax = "budget" /\ u.text = "budget"
               /\ l.code \in {"file-byte-budget-exhausted", "total-byte-budget-exhausted",
                              "changed-file-budget-exhausted", "deadline-exhausted"}

ReferencesResolve(d) ==
  /\ \A i \in DOMAIN d.units :
       LET u == d.units[i]
       IN  /\ u.symbols \union u.affected \subseteq d.symbols
           /\ u.limits \subseteq d.limits
           /\ \A s \in u.symbols : s.path = u.path
  /\ \A s \in d.symbols : s.path \in DOMAIN d.units \/ s.provider = "repository"
  /\ \A e \in d.edges :
       /\ e.path \in DOMAIN d.units \/ e.provider = "repository"
       /\ e.to \in d.symbols \union {NoSymbol}
  /\ \A s \in d.summaries :
       s.path \in DOMAIN d.units /\ s.symbol \in d.symbols \union {NoSymbol}
  /\ \A l \in d.limits :
       /\ l.provider \in DOMAIN d.providers \union {"none"}
       /\ l.path \in DOMAIN d.units \union {Nowhere} \/ l.provider = "repository"

\* Of the ranges, those of symbols: edges (contracts.rs:557-558) and the changed
\* and unparsed ranges of units (506-512) have none here.
RangesFit(d) ==
  \A s \in d.symbols :
    s.path \in DOMAIN d.units /\ d.units[s.path].content # NoContent =>
      s.end <= d.units[s.path].content

CoverageAddsUp(d) ==
  LET c == d.coverage
  IN  /\ c.total = Len(d.units)
      /\ c.parsed <= c.eligible /\ c.eligible <= c.total
      /\ c.clean + c.recovered + c.degraded = c.parsed
      /\ c.parsed + c.unsupported + c.limited + c.unavailable = c.total

Validate(d) ==
  /\ \A i \in DOMAIN d.units : ContentIsExplained(d, d.units[i])
  /\ ReferencesResolve(d)
  /\ RangesFit(d)
  /\ CoverageAddsUp(d)
  /\ d.coverage.truncated <=> \E l \in d.limits : l.code = "output-truncated"
  /\ ~d.coverage.truncated => d.emitted = <<Cardinality(d.edges), Cardinality(d.summaries)>>

=============================================================================
