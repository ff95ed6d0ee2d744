----------------------------- MODULE SequenceFolds -----------------------------
(***************************************************************************)
(* Lemmas about the folds over sequences that the modules are built from,  *)
(* and the induction they need.  FoldLeft recurs over the sets of indices  *)
(* of the sequence, from the last; what it computes is the value of the    *)
(* recursive function on 1..Len(v), once there is such a function.         *)
(*                                                                         *)
(* A module that folds cites FoldExists for the function, and then walks   *)
(* through the prefixes 1..k with Prefix and SetInduction.                 *)
(* A module that sums the numbers of a finite function cites the last      *)
(* lemmas, about SumOf.                                                    *)
(***************************************************************************)
EXTENDS Integers, Sequences, SequencesExt, FiniteSetTheorems, WellFoundedInduction, TLAPS

\* Every natural number is in a set that has 0 and, with a number, the next: induction
\* over a set, from the least number outside it.
LEMMA SetInduction ==
  ASSUME NEW T, 0 \in T, \A n \in Nat : n \in T => n + 1 \in T
  PROVE  Nat \subseteq T
<1> SUFFICES ASSUME Nat \ T # {} PROVE FALSE OBVIOUS
<1>1. \E m \in Nat \ T : \A k \in Nat \ T : ~(<<k, m>> \in OpToRel(<, Nat))
  <2> DEFINE U == Nat \ T
  <2>1. U \subseteq Nat /\ U # {}
    OBVIOUS
  <2> HIDE DEF U
  <2>2. \E m \in U : \A k \in U : ~(<<k, m>> \in OpToRel(<, Nat))
    BY <2>1, NatLessThanWellFounded, WFMin
  <2> QED BY <2>2 DEF U
<1>2. PICK m \in Nat \ T : \A k \in Nat \ T : ~(k < m)
  BY <1>1 DEF OpToRel
<1>3. m - 1 \in Nat /\ m - 1 < m
  BY <1>2
<1> QED BY <1>2, <1>3

\* The last of a prefix of the indices, and what is before it.
LEMMA Prefix ==
  ASSUME NEW n \in Nat
  PROVE  /\ 1..0 = {}
         /\ 1..n + 1 = (1..n) \cup {n + 1} /\ n + 1 \notin 1..n
         /\ 1..n + 1 # {} /\ (1..n + 1) \ {n + 1} = 1..n /\ Max(1..n + 1) = n + 1
         /\ \A s \in SUBSET (1..n + 1) : n + 1 \in s => Max(s) = n + 1
<1>1. ASSUME NEW s \in SUBSET (1..n + 1), n + 1 \in s PROVE Max(s) = n + 1
  <2>1. \A y \in s : n + 1 >= y /\ (y >= n + 1 => y = n + 1)
    BY <1>1
  <2> QED BY <1>1, <2>1 DEF Max
<1>2. Max(1..n + 1) = n + 1
  <2>1. 1..n + 1 \in SUBSET (1..n + 1) /\ n + 1 \in 1..n + 1
    OBVIOUS
  <2> QED BY <1>1, <2>1
<1> QED BY <1>1, <1>2

\* A prefix is its predecessor and one more index: its subsets, with and without it.
LEMMA PrefixSubsets ==
  ASSUME NEW m \in Nat
  PROVE  /\ \A s \in SUBSET (1..m + 1) : s \ {m + 1} \in SUBSET (1..m)
         /\ \A s \in SUBSET (1..m + 1) : m + 1 \notin s => s \in SUBSET (1..m)
         /\ \A s \in SUBSET (1..m) : m + 1 \notin s /\ s \in SUBSET (1..m + 1)
<1> DEFINE A == 1..m  B == 1..m + 1  p == m + 1
<1>1. B = A \cup {p} /\ p \notin A
  BY Prefix
<1> HIDE DEF A, B, p
<1>2. /\ \A s \in SUBSET B : s \ {p} \in SUBSET A
      /\ \A s \in SUBSET B : p \notin s => s \in SUBSET A
      /\ \A s \in SUBSET A : p \notin s /\ s \in SUBSET B
  BY <1>1
<1> QED BY <1>2 DEF A, B, p

\* A set of indices that is not empty has a last one.
LEMMA LastIndex ==
  ASSUME NEW n \in Nat, NEW s \in SUBSET (1..n), s # {}
  PROVE  Max(s) \in s
<1> DEFINE T == {m \in Nat : \A u \in SUBSET (1..m) : u # {} => Max(u) \in u}
<1>1. 0 \in T
  BY Prefix
<1>2. ASSUME NEW m \in Nat, m \in T PROVE m + 1 \in T
  <2> SUFFICES ASSUME NEW u \in SUBSET (1..m + 1), u # {} PROVE Max(u) \in u
    OBVIOUS
  <2>1. CASE m + 1 \in u
    BY <2>1, Prefix
  <2>2. CASE m + 1 \notin u
    BY <1>2, <2>2, PrefixSubsets
  <2> QED BY <2>1, <2>2
<1>3. Nat \subseteq T
  <2> HIDE DEF T
  <2> QED BY <1>1, <1>2, SetInduction
<1> QED BY <1>3

\* The recursive function of a fold over v[1] .. v[n] by the function step.
Folding(step, base, v, n, g) ==
  g = [s \in SUBSET (1..n) |->
         IF s = {} THEN base ELSE step[<<g[s \ {Max(s)}], v[Max(s)]>>]]

\* There is one, with values in A, when step stays in A.
LEMMA FoldExists ==
  ASSUME NEW A, NEW B, NEW base \in A, NEW step \in [A \X B -> A],
         NEW n \in Nat, NEW v, \A i \in 1..n : v[i] \in B
  PROVE  \E g \in [SUBSET (1..n) -> A] : Folding(step, base, v, n, g)
<1> DEFINE Some(m) == \E g \in [SUBSET (1..m) -> A] : Folding(step, base, v, m, g)
           T == {m \in Nat : m <= n => Some(m)}
<1>1. Some(0)
  <2> DEFINE g == [s \in SUBSET (1..0) |-> base]
  <2>1. \A s \in SUBSET (1..0) : s = {}
    OBVIOUS
  <2>2. Folding(step, base, v, 0, g)
    BY <2>1 DEF Folding
  <2> QED BY <2>2
<1>2. ASSUME NEW m \in Nat, m + 1 <= n, Some(m) PROVE Some(m + 1)
  <2>1. PICK g \in [SUBSET (1..m) -> A] : Folding(step, base, v, m, g)
    BY <1>2
  <2>2. v[m + 1] \in B
    BY <1>2
  <2> DEFINE h == [s \in SUBSET (1..m + 1) |->
                     IF m + 1 \in s THEN step[<<g[s \ {m + 1}], v[m + 1]>>] ELSE g[s]]
  <2>3. h \in [SUBSET (1..m + 1) -> A]
    <3>1. ASSUME NEW s \in SUBSET (1..m + 1)
          PROVE  (IF m + 1 \in s THEN step[<<g[s \ {m + 1}], v[m + 1]>>] ELSE g[s]) \in A
      BY <2>2, PrefixSubsets
    <3> QED BY <3>1
  <2>4. \A s \in SUBSET (1..m) : h[s] = g[s]
    BY PrefixSubsets
  <2>5. ASSUME NEW s \in SUBSET (1..m + 1)
        PROVE  h[s] = IF s = {} THEN base ELSE step[<<h[s \ {Max(s)}], v[Max(s)]>>]
    <3>1. CASE m + 1 \in s
      <4>1. Max(s) = m + 1
        BY <3>1, Prefix
      <4>2. h[s \ {m + 1}] = g[s \ {m + 1}] /\ h[s] = step[<<g[s \ {m + 1}], v[m + 1]>>]
        BY <2>4, <3>1, PrefixSubsets
      <4> HIDE DEF h
      <4> QED BY <3>1, <4>1, <4>2
    <3>2. CASE m + 1 \notin s
      <4>1. s \in SUBSET (1..m) /\ s \ {Max(s)} \in SUBSET (1..m)
        BY <3>2, PrefixSubsets
      <4>2. h[s] = g[s] /\ h[s \ {Max(s)}] = g[s \ {Max(s)}]
        BY <2>4, <4>1
      <4>3. g[s] = IF s = {} THEN base ELSE step[<<g[s \ {Max(s)}], v[Max(s)]>>]
        BY <2>1, <4>1 DEF Folding
      <4> HIDE DEF h
      <4> QED BY <4>2, <4>3
    <3> QED BY <3>1, <3>2
  <2>6. Folding(step, base, v, m + 1, h)
    <3>1. h = [s \in SUBSET (1..m + 1) |-> h[s]]
      OBVIOUS
    <3> DEFINE k == h
    <3>2. k = [s \in SUBSET (1..m + 1) |-> k[s]]
      BY <3>1
    <3>3. \A s \in SUBSET (1..m + 1) :
            k[s] = IF s = {} THEN base ELSE step[<<k[s \ {Max(s)}], v[Max(s)]>>]
      BY <2>5
    <3> HIDE DEF k
    <3>4. Folding(step, base, v, m + 1, k)
      BY <3>2, <3>3 DEF Folding
    <3> QED BY <3>4 DEF k
  <2> QED BY <2>3, <2>6
<1> HIDE DEF Some
<1>3. 0 \in T /\ \A m \in Nat : m \in T => m + 1 \in T
  BY <1>1, <1>2
<1>4. Nat \subseteq T
  <2> HIDE DEF T
  <2> QED BY <1>3, SetInduction
<1>5. Some(n)
  BY <1>4
<1> QED BY <1>5 DEF Some

-----------------------------------------------------------------------------
(* Sums *)

\* The recursive function of a fold that adds the numbers w[1] .. w[n].
Adding(w, n, g) ==
  g = [s \in SUBSET (1..n) |-> IF s = {} THEN 0 ELSE g[s \ {Max(s)}] + w[Max(s)]]

\* There is one.
LEMMA SumExists ==
  ASSUME NEW n \in Nat, NEW w, \A i \in 1..n : w[i] \in Nat
  PROVE  \E g : Adding(w, n, g)
<1> DEFINE step == [p \in Nat \X Nat |-> p[1] + p[2]]
<1>1. PICK g \in [SUBSET (1..n) -> Nat] : Folding(step, 0, w, n, g)
  <2>1. step \in [Nat \X Nat -> Nat]
    OBVIOUS
  <2> HIDE DEF step
  <2> QED BY <2>1, FoldExists
<1>2. ASSUME NEW s \in SUBSET (1..n), s # {}
      PROVE  g[s] = g[s \ {Max(s)}] + w[Max(s)]
  <2>1. g[s \ {Max(s)}] \in Nat /\ w[Max(s)] \in Nat
    BY <1>2, LastIndex
  <2>2. g[s] = step[<<g[s \ {Max(s)}], w[Max(s)]>>]
    <3> HIDE DEF step
    <3> QED BY <1>1, <1>2 DEF Folding
  <2> QED BY <2>1, <2>2
<1>3. g[{}] = 0
  <2> HIDE DEF step
  <2> QED BY <1>1 DEF Folding
<1>4. Adding(w, n, g)
  <2>1. g = [s \in SUBSET (1..n) |-> g[s]]
    OBVIOUS
  <2>2. \A s \in SUBSET (1..n) : g[s] = IF s = {} THEN 0 ELSE g[s \ {Max(s)}] + w[Max(s)]
    BY <1>2, <1>3
  <2> QED BY <2>1, <2>2 DEF Adding
<1> QED BY <1>4

\* G holds the running totals of the numbers w[1] .. w[n].
Totals(G, w, n) ==
  /\ G[0] = 0
  /\ \A k \in Nat : k + 1 <= n => G[k + 1] = G[k] + w[k + 1]

\* The recursive function of such a fold holds them, on the prefixes of the indices.
LEMMA SumTotals ==
  ASSUME NEW n \in Nat, NEW w, NEW g, Adding(w, n, g)
  PROVE  Totals([k \in 0..n |-> g[1..k]], w, n)
<1> DEFINE F(s) == IF s = {} THEN 0 ELSE g[s \ {Max(s)}] + w[Max(s)]
           G == [k \in 0..n |-> g[1..k]]
<1>1. g = [s \in SUBSET (1..n) |-> F(s)]
  BY DEF Adding
<1>2. G[0] = 0
  <2>1. F({}) = 0
    OBVIOUS
  <2>2. 1..0 = {} /\ G[0] = g[1..0]
    OBVIOUS
  <2> HIDE DEF F, G
  <2> QED BY <1>1, <2>1, <2>2
<1>3. ASSUME NEW k \in Nat, k + 1 <= n PROVE G[k + 1] = G[k] + w[k + 1]
  <2> DEFINE B == 1..k + 1
  <2>1. B \in SUBSET (1..n) /\ B # {} /\ Max(B) = k + 1 /\ B \ {k + 1} = 1..k
    <3>1. B \in SUBSET (1..n)
      BY <1>3
    <3>2. B # {} /\ Max(B) = k + 1 /\ B \ {k + 1} = 1..k
      BY Prefix
    <3> QED BY <3>1, <3>2
  <2>2. G[k + 1] = g[B] /\ G[k] = g[1..k]
    BY <1>3
  <2> HIDE DEF B, F, G
  <2>3. g[B] = F(B)
    BY <1>1, <2>1
  <2>4. g[B] = g[B \ {Max(B)}] + w[Max(B)]
    BY <2>1, <2>3 DEF F
  <2> QED BY <2>1, <2>2, <2>4
<1> HIDE DEF G
<1>4. Totals(G, w, n)
  BY <1>2, <1>3 DEF Totals
<1> QED BY <1>4 DEF G

\* Totals of natural numbers are natural numbers.
LEMMA TotalsTyped ==
  ASSUME NEW n \in Nat, NEW w, NEW G, Totals(G, w, n), \A k \in 1..n : w[k] \in Nat
  PROVE  \A m \in 0..n : G[m] \in Nat
<1> DEFINE T == {m \in Nat : m <= n => G[m] \in Nat}
<1>1. 0 \in T
  BY DEF Totals
<1>2. ASSUME NEW m \in Nat, m \in T PROVE m + 1 \in T
  BY <1>2 DEF Totals
<1>3. Nat \subseteq T
  <2> HIDE DEF T
  <2> QED BY <1>1, <1>2, SetInduction
<1> QED BY <1>3

\* Totals of numbers that agree up to n agree at n.
LEMMA TotalsAgree ==
  ASSUME NEW n \in Nat, NEW v, NEW w, NEW G, NEW H, Totals(G, v, n), Totals(H, w, n),
         \A k \in 1..n : v[k] = w[k]
  PROVE  G[n] = H[n]
<1> DEFINE T == {m \in Nat : m <= n => G[m] = H[m]}
<1>1. 0 \in T
  BY DEF Totals
<1>2. ASSUME NEW m \in Nat, m \in T PROVE m + 1 \in T
  BY <1>2 DEF Totals
<1>3. Nat \subseteq T
  <2> HIDE DEF T
  <2> QED BY <1>1, <1>2, SetInduction
<1> QED BY <1>3

-----------------------------------------------------------------------------
(* Sums over sets: MapThenSumSet takes the elements in an order of its own *)

\* The recursive function of a sum of the numbers size[x] over the subsets of S.
OneOf(s) == CHOOSE x \in s : TRUE
Summing(size, S, g) ==
  g = [s \in SUBSET S |-> IF s = {} THEN 0 ELSE size[OneOf(s)] + g[s \ {OneOf(s)}]]

\* A finite set that is not empty, without one of its elements.
LEMMA Without ==
  ASSUME NEW s, IsFiniteSet(s), NEW x \in s
  PROVE  /\ IsFiniteSet(s \ {x}) /\ Cardinality(s) \in Nat /\ Cardinality(s \ {x}) \in Nat
         /\ Cardinality(s) = Cardinality(s \ {x}) + 1
<1>1. IsFiniteSet(s \ {x}) /\ Cardinality(s \ {x}) = Cardinality(s) - 1
  BY FS_RemoveElement
<1>2. Cardinality(s) \in Nat /\ Cardinality(s \ {x}) \in Nat
  BY <1>1, FS_CardinalityType
<1> QED BY <1>1, <1>2

\* One number after the other: what holds of the subsets of a finite set that have
\* 0 elements, and with n of those with n + 1, holds of all of them.
LEMMA SizeInduction ==
  ASSUME NEW S, IsFiniteSet(S), NEW H,
         {} \in H,
         \A s \in SUBSET S : s # {} /\ (\A x \in s : s \ {x} \in H) => s \in H
  PROVE  SUBSET S \subseteq H
<1> DEFINE T == {n \in Nat : \A s \in SUBSET S : Cardinality(s) = n => s \in H}
<1>1. 0 \in T
  <2> SUFFICES ASSUME NEW s \in SUBSET S, Cardinality(s) = 0 PROVE s \in H
    OBVIOUS
  <2>1. IsFiniteSet(s)
    BY FS_Subset
  <2> QED BY <2>1, FS_EmptySet
<1>2. ASSUME NEW n \in Nat, n \in T PROVE n + 1 \in T
  <2> SUFFICES ASSUME NEW s \in SUBSET S, Cardinality(s) = n + 1 PROVE s \in H
    OBVIOUS
  <2>1. IsFiniteSet(s)
    BY FS_Subset
  <2>2. s # {}
    BY <2>1, FS_EmptySet
  <2>3. ASSUME NEW x \in s PROVE s \ {x} \in H
    <3>1. Cardinality(s \ {x}) = n
      <4> DEFINE c == Cardinality(s)  d == Cardinality(s \ {x})
      <4>1. c = n + 1 /\ d \in Nat /\ c = d + 1
        BY <2>1, <2>3, Without
      <4> HIDE DEF c, d
      <4>2. d = n
        BY <4>1
      <4> QED BY <4>2 DEF d
    <3> QED BY <1>2, <3>1
  <2> QED BY <2>2, <2>3
<1>3. Nat \subseteq T
  <2> HIDE DEF T
  <2> QED BY <1>1, <1>2, SetInduction
<1> SUFFICES ASSUME NEW s \in SUBSET S PROVE s \in H
  OBVIOUS
<1>4. IsFiniteSet(s)
  BY FS_Subset
<1>5. Cardinality(s) \in Nat
  BY <1>4, FS_CardinalityType
<1> QED BY <1>3, <1>5

\* The numbers that such a function gives: of nothing, of a set and one of its elements ...
LEMMA SummingFacts ==
  ASSUME NEW S, IsFiniteSet(S), NEW size, \A x \in S : size[x] \in Nat, NEW g, Summing(size, S, g)
  PROVE  /\ g[{}] = 0
         /\ \A s \in SUBSET S : g[s] \in Nat
         /\ \A s \in SUBSET S : \A x \in s : g[s] = size[x] + g[s \ {x}]
<1> DEFINE F(s) == IF s = {} THEN 0 ELSE size[OneOf(s)] + g[s \ {OneOf(s)}]
<1>1. \A s \in SUBSET S : g[s] = F(s)
  <2>1. g = [s \in SUBSET S |-> F(s)]
    BY DEF Summing
  <2> HIDE DEF F
  <2> QED BY <2>1
<1>2. g[{}] = 0
  BY <1>1
<1>3. \A s \in SUBSET S : s # {} => OneOf(s) \in s /\ g[s] = size[OneOf(s)] + g[s \ {OneOf(s)}]
  BY <1>1 DEF OneOf
<1> HIDE DEF F
<1> DEFINE N == {s \in SUBSET S : g[s] \in Nat}
           H == {s \in SUBSET S : \A x \in s : g[s] = size[x] + g[s \ {x}]}
<1>7. SUBSET S \subseteq N
  <2>1. {} \in N
    BY <1>2
  <2>2. \A s \in SUBSET S : s # {} /\ (\A x \in s : s \ {x} \in N) => s \in N
    <3> SUFFICES ASSUME NEW s \in SUBSET S, s # {}, \A x \in s : s \ {x} \in N PROVE g[s] \in Nat
      OBVIOUS
    <3> DEFINE a == size[OneOf(s)]  b == g[s \ {OneOf(s)}]
    <3>1. a \in Nat /\ b \in Nat /\ g[s] = a + b
      BY <1>3
    <3> HIDE DEF a, b
    <3> QED BY <3>1
  <2> HIDE DEF N
  <2> QED BY <2>1, <2>2, SizeInduction
<1>4. {} \in H
  OBVIOUS
<1>5. ASSUME NEW s \in SUBSET S, s # {}, \A x \in s : s \ {x} \in H PROVE s \in H
  <2> DEFINE a == OneOf(s)
  <2>1. a \in s /\ g[s] = size[a] + g[s \ {a}] /\ g[s \ {a}] \in Nat /\ size[a] \in Nat
    BY <1>3, <1>5, <1>7
  <2> HIDE DEF a
  <2>2. ASSUME NEW x \in s PROVE g[s] = size[x] + g[s \ {x}]
    <3>1. CASE x = a
      BY <2>1, <3>1
    <3>2. CASE x # a
      <4>1. x \in s \ {a} /\ a \in s \ {x} /\ (s \ {a}) \ {x} = (s \ {x}) \ {a}
        BY <2>1, <3>2
      <4>2. g[s \ {a}] = size[x] + g[(s \ {a}) \ {x}]
        BY <1>5, <2>1, <4>1
      <4>3. g[s \ {x}] = size[a] + g[(s \ {x}) \ {a}] /\ g[s \ {x}] \in Nat
        BY <1>5, <1>7, <4>1
      <4>4. g[(s \ {x}) \ {a}] \in Nat /\ size[x] \in Nat
        BY <1>7
      <4> DEFINE u == g[s \ {x}]  v == g[s \ {a}]  w == g[(s \ {x}) \ {a}]  m == size[a]  n == size[x]  t == g[s]
      <4>5. t = m + v /\ v = n + w /\ u = m + w /\ m \in Nat /\ n \in Nat /\ w \in Nat
        BY <2>1, <4>1, <4>2, <4>3, <4>4
      <4> HIDE DEF u, v, w, m, n, t
      <4>6. t = n + u
        BY <4>5
      <4> QED BY <4>6 DEF t, n, u
    <3> QED BY <3>1, <3>2
  <2> QED BY <2>1, <2>2
<1>6. SUBSET S \subseteq H
  <2> HIDE DEF H
  <2> QED BY <1>4, <1>5, SizeInduction
<1> QED BY <1>2, <1>6, <1>7

\* Two such functions agree where the numbers do.
LEMMA SumsAgree ==
  ASSUME NEW S, IsFiniteSet(S), NEW R, NEW size, NEW other, NEW g, NEW h,
         Summing(size, S, g), Summing(other, R, h), \A x \in S \cap R : size[x] = other[x]
  PROVE  \A s \in SUBSET (S \cap R) : g[s] = h[s]
<1> DEFINE F(s) == IF s = {} THEN 0 ELSE size[OneOf(s)] + g[s \ {OneOf(s)}]
           G(s) == IF s = {} THEN 0 ELSE other[OneOf(s)] + h[s \ {OneOf(s)}]
           H == {s \in SUBSET (S \cap R) : g[s] = h[s]}
<1>1. g = [s \in SUBSET S |-> F(s)] /\ h = [s \in SUBSET R |-> G(s)]
  BY DEF Summing
<1>2. \A s \in SUBSET (S \cap R) : g[s] = F(s) /\ h[s] = G(s)
  <2> HIDE DEF F, G
  <2> QED BY <1>1
<1>3. {} \in H
  BY <1>2
<1>4. ASSUME NEW s \in SUBSET (S \cap R), s # {}, \A x \in s : s \ {x} \in H PROVE s \in H
  <2>1. OneOf(s) \in s
    BY <1>4 DEF OneOf
  <2>2. g[s \ {OneOf(s)}] = h[s \ {OneOf(s)}] /\ size[OneOf(s)] = other[OneOf(s)]
    BY <1>4, <2>1
  <2> QED BY <1>2, <1>4, <2>2
<1>5. IsFiniteSet(S \cap R)
  BY FS_Subset
<1>6. SUBSET (S \cap R) \subseteq H
  <2> HIDE DEF H, F, G
  <2> QED BY <1>3, <1>4, <1>5, SizeInduction
<1> QED BY <1>6

\* There is such a function.
LEMMA SummingExists ==
  ASSUME NEW S, IsFiniteSet(S), NEW size
  PROVE  \E g : Summing(size, S, g)
<1> DEFINE F(g, s) == IF s = {} THEN 0 ELSE size[OneOf(s)] + g[s \ {OneOf(s)}]
           T == {n \in Nat : \E g : \A s \in SUBSET S : Cardinality(s) <= n => g[s] = F(g, s)}
<1>1. 0 \in T
  <2> DEFINE g == [s \in SUBSET S |-> 0]
  <2>1. ASSUME NEW s \in SUBSET S, Cardinality(s) <= 0 PROVE g[s] = F(g, s)
    <3>1. IsFiniteSet(s)
      BY FS_Subset
    <3>2. s = {}
      BY <2>1, <3>1, FS_EmptySet, FS_CardinalityType
    <3> QED BY <3>2
  <2> QED BY <2>1
<1>2. ASSUME NEW n \in Nat, n \in T PROVE n + 1 \in T
  <2>1. PICK g : \A s \in SUBSET S : Cardinality(s) <= n => g[s] = F(g, s)
    BY <1>2
  <2> DEFINE h == [s \in SUBSET S |-> IF Cardinality(s) <= n THEN g[s] ELSE F(g, s)]
  <2>2. ASSUME NEW s \in SUBSET S, Cardinality(s) <= n + 1 PROVE h[s] = F(h, s)
    <3>1. h[s] = F(g, s)
      BY <2>1
    <3>2. CASE s = {}
      BY <3>1, <3>2
    <3>3. CASE s # {}
      <4> DEFINE a == OneOf(s)  r == s \ {a}
      <4>1. IsFiniteSet(s) /\ a \in s
        BY <3>3, FS_Subset DEF OneOf
      <4>2. r \in SUBSET S /\ Cardinality(r) <= n
        <5> DEFINE c == Cardinality(s)  d == Cardinality(r)
        <5> HIDE DEF a
        <5>1. c <= n + 1 /\ c \in Nat /\ d \in Nat /\ c = d + 1
          BY <2>2, <4>1, Without
        <5> HIDE DEF c, d
        <5>2. d <= n
          BY <5>1
        <5> QED BY <5>2 DEF d
      <4>3. h[r] = g[r]
        <5> HIDE DEF r
        <5> QED BY <4>2
      <4> QED BY <3>1, <3>3, <4>3
    <3> QED BY <3>2, <3>3
  <2> HIDE DEF h, F
  <2>3. \A s \in SUBSET S : Cardinality(s) <= n + 1 => h[s] = F(h, s)
    BY <2>2
  <2>4. \E k : \A s \in SUBSET S : Cardinality(s) <= n + 1 => k[s] = F(k, s)
    BY <2>3
  <2> QED BY <2>4
<1>3. Nat \subseteq T
  <2> HIDE DEF T
  <2> QED BY <1>1, <1>2, SetInduction
<1>4. Cardinality(S) \in Nat
  BY FS_CardinalityType
<1>5. PICK g : \A s \in SUBSET S : Cardinality(s) <= Cardinality(S) => g[s] = F(g, s)
  BY <1>3, <1>4
<1>6. \A s \in SUBSET S : Cardinality(s) <= Cardinality(S)
  BY FS_Subset
<1> DEFINE h == [s \in SUBSET S |-> g[s]]
<1>7. h = [s \in SUBSET S |-> F(h, s)]
  <2>1. ASSUME NEW s \in SUBSET S PROVE g[s] = F(h, s)
    <3>1. g[s] = F(g, s)
      BY <1>5, <1>6
    <3>2. s # {} => s \ {OneOf(s)} \in SUBSET S
      OBVIOUS
    <3> QED BY <3>1, <3>2
  <2> HIDE DEF F
  <2> QED BY <2>1
<1> QED BY <1>7 DEF Summing

\* The sum of the numbers of a finite function: of none, of one more, of fewer.
SumOf(size) == MapThenSumSet(LAMBDA p : size[p], DOMAIN size)

LEMMA SumIsSumming ==
  ASSUME NEW size, IsFiniteSet(DOMAIN size)
  PROVE  \E g : Summing(size, DOMAIN size, g) /\ SumOf(size) = g[DOMAIN size]
<1> DEFINE S == DOMAIN size
           g == CHOOSE g : Summing(size, S, g)
<1>1. Summing(size, S, g)
  BY SummingExists
<1>2. SumOf(size) = g[S]
  BY DEF SumOf, MapThenSumSet, MapThenFoldSet, Summing, OneOf
<1> QED BY <1>1, <1>2

\* Nothing sums to 0, and one number is added at a time.
LEMMA SumOfNone ==
  ASSUME NEW size, DOMAIN size = {}
  PROVE  SumOf(size) = 0
<1>1. IsFiniteSet(DOMAIN size)
  BY FS_EmptySet
<1>2. PICK g : Summing(size, DOMAIN size, g) /\ SumOf(size) = g[DOMAIN size]
  BY <1>1, SumIsSumming
<1>3. g[{}] = 0
  BY <1>1, <1>2, SummingFacts
<1> QED BY <1>2, <1>3

LEMMA SumSplits ==
  ASSUME NEW size, IsFiniteSet(DOMAIN size), \A y \in DOMAIN size : size[y] \in Nat,
         NEW x \in DOMAIN size,
         NEW rest, DOMAIN rest = DOMAIN size \ {x}, \A y \in DOMAIN rest : rest[y] = size[y]
  PROVE  SumOf(size) = size[x] + SumOf(rest) /\ SumOf(rest) \in Nat
<1> DEFINE S == DOMAIN size  R == DOMAIN rest
<1>1. IsFiniteSet(R)
  BY FS_Subset
<1>2. PICK g : Summing(size, S, g) /\ SumOf(size) = g[S]
  BY SumIsSumming
<1>3. PICK h : Summing(rest, R, h) /\ SumOf(rest) = h[R]
  BY <1>1, SumIsSumming
<1>4. g[S] = size[x] + g[S \ {x}] /\ g[S \ {x}] \in Nat
  <2>1. S \in SUBSET S /\ S \ {x} \in SUBSET S /\ x \in S
    OBVIOUS
  <2>2. g[{}] = 0 /\ (\A s \in SUBSET S : g[s] \in Nat) /\ \A s \in SUBSET S : \A y \in s : g[s] = size[y] + g[s \ {y}]
    BY <1>2, SummingFacts
  <2> HIDE DEF S
  <2> QED BY <2>1, <2>2
<1>5. \A s \in SUBSET (S \cap R) : g[s] = h[s]
  <2>1. \A y \in S \cap R : size[y] = rest[y]
    OBVIOUS
  <2> HIDE DEF S, R
  <2> QED BY <1>2, <1>3, <2>1, SumsAgree DEF S, R
<1>6. g[R] = h[R]
  <2>1. R \in SUBSET (S \cap R)
    OBVIOUS
  <2> QED BY <1>5, <2>1
<1> QED BY <1>2, <1>3, <1>4, <1>6

LEMMA SumIsNat ==
  ASSUME NEW size, IsFiniteSet(DOMAIN size), \A y \in DOMAIN size : size[y] \in Nat
  PROVE  SumOf(size) \in Nat
<1> DEFINE S == DOMAIN size
<1>1. PICK g : Summing(size, S, g) /\ SumOf(size) = g[S]
  BY SumIsSumming
<1>2. S \in SUBSET S
  OBVIOUS
<1> QED BY <1>1, <1>2, SummingFacts

\* What counts nothing may be left out of a sum.
LEMMA SumOfPart ==
  ASSUME NEW size, IsFiniteSet(DOMAIN size), \A y \in DOMAIN size : size[y] \in Nat,
         NEW part, DOMAIN part \subseteq DOMAIN size,
         \A y \in DOMAIN part : part[y] = size[y],
         \A y \in DOMAIN size \ DOMAIN part : size[y] = 0
  PROVE  SumOf(size) = SumOf(part)
<1> DEFINE S == DOMAIN size  R == DOMAIN part
<1>1. IsFiniteSet(R)
  BY FS_Subset
<1>2. PICK g : Summing(size, S, g) /\ SumOf(size) = g[S]
  BY SumIsSumming
<1>3. PICK h : Summing(part, R, h) /\ SumOf(part) = h[R]
  BY <1>1, SumIsSumming
<1>4. g[{}] = 0 /\ (\A s \in SUBSET S : g[s] \in Nat) /\ \A s \in SUBSET S : \A x \in s : g[s] = size[x] + g[s \ {x}]
  BY <1>2, SummingFacts
<1> DEFINE H == {s \in SUBSET S : g[s] = g[s \cap R]}
<1>5. {} \in H
  <2>1. {} \cap R = {}
    OBVIOUS
  <2> HIDE DEF R
  <2> QED BY <2>1
<1>6. ASSUME NEW s \in SUBSET S, s # {}, \A x \in s : s \ {x} \in H PROVE s \in H
  <2>1. PICK x \in s : TRUE
    BY <1>6
  <2>2. g[s \ {x}] = g[(s \ {x}) \cap R]
    BY <1>6, <2>1
  <2>3. g[s] = size[x] + g[s \ {x}]
    BY <1>4, <2>1
  <2>4. CASE x \in R
    <3>1. x \in s \cap R /\ s \cap R \in SUBSET S /\ (s \cap R) \ {x} = (s \ {x}) \cap R
      BY <2>4
    <3>2. g[s \cap R] = size[x] + g[(s \cap R) \ {x}]
      <4> DEFINE t == s \cap R
      <4>1. t \in SUBSET S /\ x \in t
        BY <3>1
      <4> HIDE DEF t
      <4>2. g[t] = size[x] + g[t \ {x}]
        BY <1>4, <4>1
      <4> QED BY <4>2 DEF t
    <3>3. g[s] = g[s \cap R]
      BY <2>2, <2>3, <3>1, <3>2
    <3> QED BY <3>3
  <2>5. CASE x \notin R
    <3>1. size[x] = 0 /\ (s \ {x}) \cap R = s \cap R /\ g[s \ {x}] \in Nat
      BY <1>4, <2>5
    <3>2. g[s] = g[s \cap R]
      BY <2>2, <2>3, <3>1
    <3> QED BY <3>2
  <2> QED BY <2>4, <2>5
<1>7. SUBSET S \subseteq H
  <2>1. IsFiniteSet(S)
    OBVIOUS
  <2> HIDE DEF H, S
  <2> QED BY <2>1, <1>5, <1>6, SizeInduction
<1>8. g[S] = g[R]
  <2>1. S \in H /\ S \cap R = R
    BY <1>7
  <2> QED BY <2>1
<1>9. g[R] = h[R]
  <2>1. \A y \in S \cap R : size[y] = part[y]
    OBVIOUS
  <2>2. R \in SUBSET (S \cap R)
    OBVIOUS
  <2> HIDE DEF S, R
  <2> QED BY <1>2, <1>3, <2>1, <2>2, SumsAgree DEF S
<1> QED BY <1>2, <1>3, <1>8, <1>9

\* A set of numbers has a least one, and a finite one has a greatest one.
LEMMA HasLeast ==
  ASSUME NEW S, S \subseteq Nat, S # {}
  PROVE  Min(S) \in S /\ \A y \in S : Min(S) <= y
<1> DEFINE T == {n \in Nat : \A m \in S : m > n}
<1>1. ASSUME ~\E x \in S : \A y \in S : x =< y PROVE FALSE
  <2>1. 0 \in T
    BY <1>1
  <2>2. ASSUME NEW n \in Nat, n \in T PROVE n + 1 \in T
    <3>1. n + 1 \notin S
      <4>1. ASSUME n + 1 \in S PROVE FALSE
        <5>1. \A y \in S : n + 1 =< y
          BY <2>2
        <5> QED BY <1>1, <4>1, <5>1
      <4> QED BY <4>1
    <3> QED BY <2>2, <3>1
  <2>3. Nat \subseteq T
    <3> HIDE DEF T
    <3> QED BY <2>1, <2>2, SetInduction
  <2>4. PICK y \in S : y \in Nat
    OBVIOUS
  <2>5. y > y
    BY <2>3, <2>4
  <2> QED BY <2>4, <2>5
<1>2. \E x \in S : \A y \in S : x =< y
  BY <1>1
<1> QED BY <1>2 DEF Min

LEMMA HasGreatest ==
  ASSUME NEW S, IsFiniteSet(S), S \subseteq Nat, S # {}
  PROVE  \E x \in S : \A y \in S : y <= x
<1> DEFINE H == {s \in SUBSET S : s # {} => \E x \in s : \A y \in s : y <= x}
<1>1. {} \in H
  OBVIOUS
<1>2. ASSUME NEW s \in SUBSET S, s # {}, \A x \in s : s \ {x} \in H PROVE s \in H
  <2>1. PICK x \in s : TRUE
    BY <1>2
  <2>2. CASE s \ {x} = {}
    <3>1. \A y \in s : y = x
      BY <2>2
    <3>2. x \in Nat /\ x <= x
      BY <2>1
    <3> QED BY <2>1, <3>1, <3>2
  <2>3. CASE s \ {x} # {}
    <3>1. PICK m \in s \ {x} : \A y \in s \ {x} : y <= m
      BY <1>2, <2>3
    <3>2. x \in Nat /\ m \in Nat /\ s \subseteq Nat
      BY <2>1, <3>1
    <3>3. CASE x <= m
      <4>1. \A y \in s : y <= m
        BY <3>1, <3>3
      <4> QED BY <3>1, <4>1
    <3>4. CASE m <= x
      <4>1. \A y \in s : y <= x
        BY <3>1, <3>2, <3>4
      <4> QED BY <4>1
    <3> QED BY <3>2, <3>3, <3>4
  <2> QED BY <2>2, <2>3
<1>3. SUBSET S \subseteq H
  <2> HIDE DEF H
  <2> QED BY <1>1, <1>2, SizeInduction
<1>4. S \in H
  BY <1>3
<1> QED BY <1>4
================================================================================
