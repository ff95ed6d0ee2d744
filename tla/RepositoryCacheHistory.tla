----------------------- MODULE RepositoryCacheHistory -----------------------
(***************************************************************************)
(* The histories some properties of RepositoryCache need: what stayed      *)
(* intact under the eyes of a reader or a cleaner, and which generations   *)
(* were ever removed.                                                      *)
(***************************************************************************)
EXTENDS RepositoryCacheMC

CONSTANT Recorded   \* the histories a run records; the others stay empty

VARIABLES
  steady,   \* <<bk, k, q>> bucket bk referred to rightly all along a lookup
  spared,   \* keys intact all along a clean that must not remove them
  removed   \* keys whose generation file was removed and is not forgotten yet

historyVars == <<steady, spared, removed>>

\* What the buckets of a lookup refer to rightly, as <<bucket, key, quality>>;
\* one with too many names in it refers to nothing.
Offered(s) ==
  {o \in ({s[1], s[2]} \ {None}) \X Keys \X Qualities :
     /\ DirectorySize(o[1]) <= MaxReferences
     /\ gen[o[2]] = o[3]
     /\ \E f \in Slots : BucketOf[o[2]][f] = o[1] /\ refs[o[2]][f] = o[3]}

\* What a clean that starts must spare: every intact file when it looks for
\* invalid ones, else the newest ones it is told to retain.
MustSpare(step) ==
  {k \in Keys : /\ Readable(k)
                /\ step = "examine" \/ NewerThan(k) < RetainGenerations}

\* Nothing is left of the generation of k, and no run is at it.
Forgotten(k) ==
  /\ gen[k] = Absent
  /\ \A s \in Slots : refs[k][s] = Absent
  /\ \A b \in Builders : key[b] # k

HistoryInit ==
  /\ Init
  /\ steady = [r \in Readers |-> {}]
  /\ spared = [c \in Cleaners |-> {}]
  /\ removed = {}

HistoryNext ==
  /\ Next
  /\ steady' =
       [r \in Readers |->
          IF scope'[r] = None \/ "steady" \notin Recorded THEN {}
          ELSE IF scope[r] = None THEN Offered(scope[r])'
          ELSE steady[r] \cap Offered(scope[r])']
  /\ spared' =
       [c \in Cleaners |->
          IF cpc'[c] = "idle" \/ "spared" \notin Recorded THEN {}
          ELSE IF cpc[c] = "idle" THEN MustSpare(cpc'[c])
          ELSE spared[c] \cap {k \in Keys : gen'[k] \in Qualities}]
  /\ removed' =
       {k \in Keys : /\ "removed" \in Recorded
                     /\ ~Forgotten(k)'
                     /\ k \in removed \/ (gen[k] # Absent /\ gen'[k] = Absent)}

HistorySpec == HistoryInit /\ [][HistoryNext]_<<vars, historyVars>>

\* Whoever lives goes on, as in RepositoryCache; the histories only watch.
FairHistorySpec == HistorySpec /\ Fairness

\* A Fast analysis that answers "no compatible generation is available" has
\* not overlooked one that a bucket of its scope referred to and that was
\* intact all the while, whatever came and went around it.
SteadyGenerationIsFound ==
  \A r \in Readers : rpc[r] = "unavailable" => steady[r] = {}

\* A lookup answers at least as well as the best its bucket offered all the
\* while: one that answers with a partial generation has not passed over a
\* complete one, and one that finds nothing has passed over none.
BestSteadyWins ==
  /\ SteadyGenerationIsFound
  /\ \A r \in Readers : \A k \in Keys :
       rpc[r] = "hit" /\ hit[r][2] = "partial"
         => <<bucket[r], k, "complete">> \notin steady[r]

\* A clean removes nothing it must spare: not a file that was intact from its
\* start on when it looks for invalid ones, and not one of the newest ones.
CleanSparesWhatItMust ==
  \A c \in Cleaners : cpc[c] = "unlink" => target[c] \notin spared[c]

\* The runs at k that answer, or are about to, from a file they opened.
Answering(k) ==
  {b \in Builders :
     /\ key[b] = k
     /\ pc[b] \in {"reopen", "reference", "link", "compare", "query", "ok"}}

\* Budgets may give two runs of one key differing graphs.  Until the file of
\* the first to publish is removed, every run at its key that is not refused
\* answers from that file, and no reference says anything else of it: neither
\* an answer nor the cache mixes the two, even when the file is damaged later.
SameKeyAnswersAgree ==
  \A k \in Keys \ removed : \A a \in Answering(k) :
    /\ gen[k] \in {mine[a], Damaged}
    /\ \A b \in Answering(k) : mine[b] = mine[a]
    /\ \A s \in Slots : refs[k][s] \in {mine[a], Absent}

\* Until its file is removed a generation and its references agree on its
\* completeness, whichever run published which: a reader can rank by the
\* reference without opening the file.
ReferencesAgreeUntilRemoval ==
  \A k \in Keys \ removed : \A s \in Slots :
    refs[k][s] # Absent => gen[k] \in {refs[k][s], Damaged}
=============================================================================
