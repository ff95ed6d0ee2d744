--------------------------- MODULE GraphOverlayMC ---------------------------
(* Three files: f of the first calls g of the second, exports it too and is  *)
(* called back; h of the third imports and calls g, refers to f and calls    *)
(* what the language gives. The first two files change.                      *)
EXTENDS GraphOverlay

Use(by, name, place, kind) == [by |-> by, name |-> name, place |-> place, kind |-> kind]
File(symbols, uses) == [symbols |-> symbols, uses |-> uses]
f1 == <<"f", 1>>
g1 == <<"g", 1>>
h1 == <<"h", 1>>

MCPaths == 1 .. 3
MCBase ==
  << File({f1}, {Use(f1, "g", 2, "calls"), Use(f1, "g", 3, "exports")}),
     File({g1}, {Use(g1, "f", 2, "calls")}),
     File({h1}, {Use(h1, "g", 2, "imports"), Use(h1, "g", 3, "calls"),
                 Use(h1, "f", 4, "references"), Use(h1, "assert", 5, "calls")}) >>
MCBuiltins == {"assert"}

\* The texts of the first file: as it was, further down, renamed with another
\* import, with a second symbol and no export, gone; of the second: as it was,
\* with another call, further down.
MCCandidates ==
  LET moved == File({<<"f", 5>>}, {Use(<<"f", 5>>, "g", 6, "calls"),
                                   Use(<<"f", 5>>, "g", 7, "exports")})
      renamed == File({<<"k", 1>>}, {Use(<<"k", 1>>, "h", 3, "imports")})
      beside == File({f1, <<"k", 3>>}, {Use(f1, "g", 2, "calls"), Use(f1, "h", 3, "imports"),
                                         Use(<<"k", 3>>, "f", 4, "references"),
                                         Use(<<"k", 3>>, "g", 5, "calls")})
      reworded == File({g1}, {Use(g1, "k", 2, "calls")})
      shifted == File({<<"g", 5>>}, {Use(<<"g", 5>>, "f", 6, "calls")})
  IN  { <<a, b, MCBase[3]>> : a \in {MCBase[1], moved, renamed, beside, NoFile},
                              b \in {MCBase[2], reworded, shifted} } \ {MCBase}

Limits(paths, rows, symbols, nodes, edges, depth) ==
  [paths |-> paths, rows |-> rows, symbols |-> symbols, nodes |-> nodes, edges |-> edges,
   depth |-> depth]
MCRows == {6, 14, 18, 22, 26, 30, 34}
MCBudgets ==
  { Limits(9, 99, 99, 99, 99, 9), Limits(1, 99, 99, 99, 99, 9), Limits(9, 99, 2, 99, 99, 9), Limits(9, 99, 99, 3, 99, 9), Limits(9, 99, 99, 99, 2, 9),
    Limits(9, 99, 99, 99, 99, 1) } \union { Limits(9, rows, 99, 99, 99, 9) : rows \in MCRows }
=============================================================================
