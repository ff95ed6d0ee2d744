------------------------- MODULE RepositoryCacheMC -------------------------
(***************************************************************************)
(* RepositoryCache on small instances: the keys, buckets and scopes of the *)
(* runs, and what TLC may take for the same.                               *)
(***************************************************************************)
EXTENDS RepositoryCache, TLC

CONSTANTS k1, k2, exact1, exact2, base1

\* One branch or staged scope: its references go to the bucket of the scope and
\* to the one other scopes look in for a base.
OneScope == (k1 :> [exact |-> exact1, base |-> base1])

\* An unstaged scope publishes no base reference.
Unstaged == (k1 :> [exact |-> exact1, base |-> None])

\* One unstaged scope indexed under two manifest budgets: the manifests differ,
\* so the keys do, but the locator and with it the bucket are the same.
TwoManifests == Unstaged @@ (k2 :> [exact |-> exact1, base |-> None])

\* A staged scope, and an unstaged one that may use it as its base.
TwoScopes == OneScope @@ (k2 :> [exact |-> exact2, base |-> None])

\* Builders, and keys of one bucket, are told apart by nothing.
Interchangeable == Permutations(Builders)
TwinKeys == Permutations(Keys)

NoReader == {}
OverlayReader == {<<exact2, base1>>}
UnstagedReader == {<<exact1, None>>}
=============================================================================
