-------------------------- MODULE RepositoryCache --------------------------
(***************************************************************************)
(* The repository graph cache of impact_context: one directory shared by   *)
(* independent processes.  Builders run a Deep analysis (open or build the *)
(* generation of their key, publish it, publish its locator references,    *)
(* take everything back when their scope drifts).  Readers run a Fast      *)
(* analysis (locator lookup, exact then base, no lock).  Cleaners run      *)
(* `index clean --execute`.  Any builder or cleaner may die between two    *)
(* steps; the operating system then frees its writer lock.                 *)
(*                                                                         *)
(* A generation key already digests the locator, so the references of a    *)
(* key are named by the key and a slot: the exact bucket of its locator    *)
(* and, when the source has one, the bucket other scopes use as a base.    *)
(***************************************************************************)
EXTENDS Naturals, FiniteSets

CONSTANTS
  Builders, Cleaners, Readers,   \* processes
  Keys,                          \* generation keys
  Buckets,                       \* locator directories
  BucketOf,                      \* [Keys -> [Slots -> Buckets \cup {None}]]
  FastScopes,                    \* <<exact, base>> buckets a Fast reader asks
  Qualities,                     \* completeness the builders' budgets allow
  MaxReferences,                 \* MAXIMUM_REFERENCES_PER_LOCATOR
  RetainGenerations,             \* --retain-generations
  MaxGenerations,                \* --max-bytes, in generations of one size
  MaxLeaks,                      \* bound: temporaries a crash leaves per bucket
  Damageable,                    \* bound: keys whose file the medium may damage
  None

Slots == {"exact", "base"}

Absent  == "absent"
Damaged == "damaged"

ASSUME QualitiesAssumption == Qualities \subseteq {"complete", "partial"}

ASSUME BucketAssumption ==
  /\ BucketOf \in [Keys -> [Slots -> Buckets \cup {None}]]
  /\ None \notin Buckets
  /\ \A k \in Keys :
       /\ BucketOf[k]["exact"] \in Buckets
       /\ BucketOf[k]["base"] # BucketOf[k]["exact"]

ASSUME ProcessAssumption ==
  /\ Builders \cap Cleaners = {}
  /\ None \notin Builders \cup Cleaners \cup Keys

\* A key is a digest, and only so many processes run.
ASSUME FiniteAssumption == IsFiniteSet(Keys) /\ IsFiniteSet(Builders)

ASSUME BoundAssumption ==
  /\ {MaxReferences, RetainGenerations, MaxGenerations, MaxLeaks} \subseteq Nat
  /\ Damageable \subseteq Keys
  /\ FastScopes \subseteq Buckets \X (Buckets \cup {None})

VARIABLES
  (* the directory *)
  gen,        \* the file <key>.sqlite
  older,      \* <<a, b>>: the file of a has the older modification time
  refs,       \* the file <bucket>/<key>.json: the completeness it records
  leaked,     \* temporaries left in a bucket by dead builders
  lock,       \* the process that holds <key>.lock
  (* builders *)
  pc, key,
  mine,       \* completeness of the graph the run built or opened
  slot,       \* reference being published
  pending,    \* published_paths of publish_exact_tracked
  tracked,    \* published_artifacts
  own,        \* history: files there now that the current run published
  (* cleaners *)
  cpc,
  unscanned,  \* candidates still to examine
  selected,   \* keys selected for removal
  target, unlinking,   \* key being removed and its references found
  (* readers *)
  rpc, scope,
  bucket,     \* bucket being looked up
  entries,    \* directory entries still to read
  candidates, \* references decoded
  hit         \* the reference the lookup returned

storeVars   == <<gen, older, refs, leaked, lock>>
builderVars == <<pc, key, mine, slot, pending, tracked, own>>
cleanerVars == <<cpc, unscanned, selected, target, unlinking>>
readerVars  == <<rpc, scope, bucket, entries, candidates, hit>>
vars == <<storeVars, builderVars, cleanerVars, readerVars>>

-----------------------------------------------------------------------------
(* The directory *)

Present == {k \in Keys : gen[k] # Absent}

\* open_immutable answers Hit: the file is there and its metadata is intact.
Readable(k) == gen[k] \in Qualities

\* Mutant: whatever is stored under the key is taken for these rows.
SameRows_ByKey(k, q) == gen[k] # Absent

\* validate_generation: the stored rows equal the rows of the caller's graph.
SameRows(k, q) == gen[k] = q

\* Mutant: the locator is published as complete whatever was opened.
ReaderCompleteness_Assumed(k) == "complete"

\* reader.completeness() of a generation that was opened.
ReaderCompleteness(k) == gen[k]

\* A new file is younger than every other one.
Newest(k) ==
  {p \in older : p[1] # k /\ p[2] # k} \cup ((Present \ {k}) \X {k})

WithoutAge(k) == {p \in older : p[1] # k /\ p[2] # k}

\* Whoever removes a file takes it from the run that published it.
Disowned(k, a) ==
  [b \in Builders |-> IF key[b] = k THEN own[b] \ {a} ELSE own[b]]

\* The builders whose reference temporary is in bucket bk.
InFlight(bk) ==
  {b \in Builders :
     pc[b] \in {"link", "compare"} /\ BucketOf[key[b]][slot[b]] = bk}

SlotIn(k, bk) == IF BucketOf[k]["exact"] = bk THEN "exact" ELSE "base"

Referenced(bk) ==
  {k \in Keys : \E s \in Slots : BucketOf[k][s] = bk /\ refs[k][s] # Absent}

-----------------------------------------------------------------------------
(* Builders: one Deep analysis *)

BuilderEnds ==
  {"ok", "drift", "dirty", "busy", "invalidExisting", "unavailable",
   "conflict", "failed"}

BuilderSteps ==
  {"open", "build", "publish", "reuse", "lock", "recheck", "reuseLocked",
   "persist", "reopen", "reference", "link", "compare", "query", "removing"}

\* The writer lock guard is alive.
Locked == {"recheck", "reuseLocked", "persist"}

BuilderStates == {"idle"} \cup BuilderSteps \cup BuilderEnds

\* The run has a graph whose completeness it is about to record.
Publishing ==
  Locked \cup
  {"publish", "reuse", "lock", "reopen", "reference", "link", "compare"}

Artifacts == Slots \cup {"generation"}

\* validate_scope: the scope still stands and the run goes on to p, or it
\* drifted and the run takes its artifacts back.
AfterScopeCheck(p) == {p, "removing"}

Init ==
  /\ gen = [k \in Keys |-> Absent]
  /\ older = {}
  /\ refs = [k \in Keys |-> [s \in Slots |-> Absent]]
  /\ leaked = [bk \in Buckets |-> 0]
  /\ lock = [k \in Keys |-> None]
  /\ pc = [b \in Builders |-> "idle"]
  /\ key = [b \in Builders |-> None]
  /\ mine = [b \in Builders |-> Absent]
  /\ slot = [b \in Builders |-> "exact"]
  /\ pending = [b \in Builders |-> {}]
  /\ tracked = [b \in Builders |-> {}]
  /\ own = [b \in Builders |-> {}]
  /\ cpc = [c \in Cleaners |-> "idle"]
  /\ unscanned = [c \in Cleaners |-> {}]
  /\ selected = [c \in Cleaners |-> {}]
  /\ target = [c \in Cleaners |-> None]
  /\ unlinking = [c \in Cleaners |-> {}]
  /\ rpc = [r \in Readers |-> "idle"]
  /\ scope = [r \in Readers |-> None]
  /\ bucket = [r \in Readers |-> None]
  /\ entries = [r \in Readers |-> {}]
  /\ candidates = [r \in Readers |-> {}]
  /\ hit = [r \in Readers |-> None]

\* Mutant: the list of published artifacts is set, not extended.
Track_Last(b, as) == tracked' = [tracked EXCEPT ![b] = as]

\* published_artifacts is extended.
Track(b, as) == tracked' = [tracked EXCEPT ![b] = @ \cup as]

\* A Deep analysis starts: the scope holds and the manifest gives the key.
Analyze(b, k) ==
  /\ pc[b] = "idle"
  /\ pc' = [pc EXCEPT ![b] = "open"]
  /\ key' = [key EXCEPT ![b] = k]
  /\ UNCHANGED <<mine, slot, pending, tracked, own>>
  /\ UNCHANGED <<storeVars, cleanerVars, readerVars>>

\* open_reader: a Hit skips the build; Miss, Stale and Corrupt all build.
OpenGeneration(b) ==
  /\ pc[b] = "open"
  /\ \/ /\ Readable(key[b])
        /\ mine' = [mine EXCEPT ![b] = ReaderCompleteness(key[b])]
        /\ \E p \in AfterScopeCheck("reference") : pc' = [pc EXCEPT ![b] = p]
     \/ /\ ~Readable(key[b])
        /\ pc' = [pc EXCEPT ![b] = "build"]
        /\ UNCHANGED mine
  /\ UNCHANGED <<key, slot, pending, tracked, own>>
  /\ UNCHANGED <<storeVars, cleanerVars, readerVars>>

\* build_file_facts and resolve_rust_repository: what the budgets let the
\* run see decides the rows of its graph.
ResolveGraph(b) ==
  /\ pc[b] = "build"
  /\ \E q \in Qualities : mine' = [mine EXCEPT ![b] = q]
  /\ \E p \in AfterScopeCheck("publish") : pc' = [pc EXCEPT ![b] = p]
  /\ UNCHANGED <<key, slot, pending, tracked, own>>
  /\ UNCHANGED <<storeVars, cleanerVars, readerVars>>

\* publish, before the lock: is there a file?
PublishUnlocked(b) ==
  /\ pc[b] = "publish"
  /\ pc' = [pc EXCEPT ![b] = IF gen[key[b]] # Absent THEN "reuse" ELSE "lock"]
  /\ UNCHANGED <<key, mine, slot, pending, tracked, own>>
  /\ UNCHANGED <<storeVars, cleanerVars, readerVars>>

\* Mutant: the file is not looked for again under the lock.
AcquireWriterLock_NoRecheck(b) ==
  /\ pc[b] = "lock"
  /\ lock[key[b]] = None
  /\ lock' = [lock EXCEPT ![key[b]] = b]
  /\ pc' = [pc EXCEPT ![b] = "persist"]
  /\ UNCHANGED <<key, mine, slot, pending, tracked, own>>
  /\ UNCHANGED <<gen, older, refs, leaked, cleanerVars, readerVars>>

\* acquire_writer_lock: try_lock succeeds.
AcquireWriterLock(b) ==
  /\ pc[b] = "lock"
  /\ lock[key[b]] = None
  /\ lock' = [lock EXCEPT ![key[b]] = b]
  /\ pc' = [pc EXCEPT ![b] = "recheck"]
  /\ UNCHANGED <<key, mine, slot, pending, tracked, own>>
  /\ UNCHANGED <<gen, older, refs, leaked, cleanerVars, readerVars>>

\* Mutant: the lock is waited for without a deadline.
WriterBusy_Waits(b) == FALSE

\* acquire_writer_lock: the deadline passes while another process holds it.
WriterBusy(b) ==
  /\ pc[b] = "lock"
  /\ lock[key[b]] # None
  /\ pc' = [pc EXCEPT ![b] = "busy"]
  /\ UNCHANGED <<key, mine, slot, pending, tracked, own>>
  /\ UNCHANGED <<storeVars, cleanerVars, readerVars>>

\* Mutant: the guard outlives the call that took it.
Unlock_Leaked(k) == UNCHANGED lock

\* The writer lock guard of generation k is dropped.
Unlock(k) == lock' = [lock EXCEPT ![k] = None]

\* publish, under the lock: is there a file now?  If not, one is written,
\* synced and validated in the staging directory, which no reader looks at.
RecheckUnderLock(b) ==
  /\ pc[b] = "recheck"
  /\ pc' = [pc EXCEPT ![b] =
       IF gen[key[b]] # Absent THEN "reuseLocked" ELSE "persist"]
  /\ UNCHANGED <<key, mine, slot, pending, tracked, own>>
  /\ UNCHANGED <<storeVars, cleanerVars, readerVars>>

\* reuse_existing opens the file that was seen, which may have gone by now,
\* and accepts only these rows; the guard, if any, goes as publish returns.
ReuseExisting(b) ==
  /\ pc[b] \in {"reuse", "reuseLocked"}
  /\ \/ /\ SameRows(key[b], mine[b])
        /\ \E p \in AfterScopeCheck("reopen") : pc' = [pc EXCEPT ![b] = p]
     \/ /\ ~SameRows(key[b], mine[b])
        /\ pc' = [pc EXCEPT ![b] = "invalidExisting"]
  /\ IF pc[b] = "reuseLocked" THEN Unlock(key[b]) ELSE UNCHANGED lock
  /\ UNCHANGED <<key, mine, slot, pending, tracked, own>>
  /\ UNCHANGED <<gen, older, refs, leaked, cleanerVars, readerVars>>

\* Mutant: the file is linked before it is synced and validated.
Staged_Unsynced(b) == Damaged

\* What the staging file holds once it is written, synced and validated.
Staged(b) == mine[b]

\* persist_noclobber links the staged file to the final path; the lock is
\* dropped as publish returns, and only then is the path tracked.
PersistGeneration(b) ==
  /\ pc[b] = "persist"
  /\ IF gen[key[b]] # Absent
     THEN /\ pc' = [pc EXCEPT ![b] = "reuseLocked"]
          /\ UNCHANGED <<gen, older, own, tracked, lock>>
     ELSE /\ Unlock(key[b])
          /\ gen' = [gen EXCEPT ![key[b]] = Staged(b)]
          /\ older' = Newest(key[b])
          /\ own' = [own EXCEPT ![b] = @ \cup {"generation"}]
          /\ \/ /\ Track(b, {"generation"})
                /\ \E p \in AfterScopeCheck("reopen") :
                     pc' = [pc EXCEPT ![b] = p]
             \/ \* sync_directory fails: the file is there, nobody tracks it
                /\ pc' = [pc EXCEPT ![b] = "failed"]
                /\ UNCHANGED tracked
  /\ UNCHANGED <<key, mine, slot, pending>>
  /\ UNCHANGED <<refs, leaked, cleanerVars, readerVars>>

\* The published path is opened again; anything but a Hit is an error.
ReopenGeneration(b) ==
  /\ pc[b] = "reopen"
  /\ \/ /\ Readable(key[b])
        /\ mine' = [mine EXCEPT ![b] = ReaderCompleteness(key[b])]
        /\ \E p \in AfterScopeCheck("reference") : pc' = [pc EXCEPT ![b] = p]
     \/ /\ ~Readable(key[b])
        /\ pc' = [pc EXCEPT ![b] = "unavailable"]
        /\ UNCHANGED mine
  /\ UNCHANGED <<key, slot, pending, tracked, own>>
  /\ UNCHANGED <<storeVars, cleanerVars, readerVars>>

\* publish_exact_tracked: the base reference follows the exact one; only when
\* both are done do the published paths reach published_artifacts.
NextReference(b, published) ==
  \/ /\ slot[b] = "exact" /\ BucketOf[key[b]]["base"] # None
     /\ slot' = [slot EXCEPT ![b] = "base"]
     /\ pc' = [pc EXCEPT ![b] = "reference"]
     /\ pending' = [pending EXCEPT ![b] = published]
     /\ UNCHANGED tracked
  \/ /\ slot[b] = "base" \/ BucketOf[key[b]]["base"] = None
     /\ Track(b, published)
     /\ pending' = [pending EXCEPT ![b] = {}]
     /\ \E p \in AfterScopeCheck("query") : pc' = [pc EXCEPT ![b] = p]
     /\ UNCHANGED slot

\* publish_lookup reads the final path: an equal reference is reused, none
\* starts a temporary in the bucket, any other one is a conflict.
ReadReference(b) ==
  LET found == refs[key[b]][slot[b]] IN
  /\ pc[b] = "reference"
  /\ \/ found = mine[b] /\ NextReference(b, pending[b])
     \/ /\ found = Absent
        /\ pc' = [pc EXCEPT ![b] = "link"]
        /\ UNCHANGED <<slot, pending, tracked>>
     \/ /\ found \notin {Absent, mine[b]}
        /\ pc' = [pc EXCEPT ![b] = "conflict"]
        /\ UNCHANGED <<slot, pending, tracked>>
  /\ UNCHANGED <<key, mine, own>>
  /\ UNCHANGED <<storeVars, cleanerVars, readerVars>>

\* publish_lookup persists the temporary, but never over a reference that
\* appeared meanwhile.
LinkReference(b) ==
  LET found == refs[key[b]][slot[b]] IN
  /\ pc[b] = "link"
  /\ \/ /\ found = Absent
        /\ refs' = [refs EXCEPT ![key[b]][slot[b]] = mine[b]]
        /\ own' = [own EXCEPT ![b] = @ \cup {slot[b]}]
        /\ \/ NextReference(b, pending[b] \cup {slot[b]})
           \/ \* sync_directory fails: the paths published so far are lost
              /\ pc' = [pc EXCEPT ![b] = "failed"]
              /\ UNCHANGED <<slot, pending, tracked>>
     \/ /\ found # Absent
        /\ pc' = [pc EXCEPT ![b] = "compare"]
        /\ UNCHANGED <<refs, own, slot, pending, tracked>>
  /\ UNCHANGED <<key, mine>>
  /\ UNCHANGED <<gen, older, leaked, lock, cleanerVars, readerVars>>

\* AlreadyExists: the reference that was first is read.  Unless it is there
\* and the same one, it counts as an incompatible one.
CompareReference(b) ==
  /\ pc[b] = "compare"
  /\ \/ /\ refs[key[b]][slot[b]] = mine[b]
        /\ NextReference(b, pending[b])
     \/ /\ refs[key[b]][slot[b]] # mine[b]
        /\ pc' = [pc EXCEPT ![b] = "conflict"]
        /\ UNCHANGED <<slot, pending, tracked>>
  /\ UNCHANGED <<key, mine, own>>
  /\ UNCHANGED <<storeVars, cleanerVars, readerVars>>

\* query_graph, and the last validate_scope before the output is released.
QueryGraph(b) ==
  /\ pc[b] = "query"
  /\ \E p \in AfterScopeCheck("ok") : pc' = [pc EXCEPT ![b] = p]
  /\ UNCHANGED <<key, mine, slot, pending, tracked, own>>
  /\ UNCHANGED <<storeVars, cleanerVars, readerVars>>

\* Any other error is returned as it is: nothing published is taken back.
RunFails(b) ==
  /\ pc[b] \in BuilderSteps \ {"removing"}
  /\ pc' = [pc EXCEPT ![b] = "failed"]
  /\ IF lock[key[b]] = b THEN Unlock(key[b]) ELSE UNCHANGED lock
  /\ UNCHANGED <<key, mine, slot, pending, tracked, own>>
  /\ UNCHANGED <<gen, older, refs, leaked, cleanerVars, readerVars>>

\* remove_published_artifacts walks the list backwards: base reference, exact
\* reference, generation.  It takes no lock and removes whatever is there.
LastTracked(b) ==
  IF "base" \in tracked[b] THEN "base"
  ELSE IF "exact" \in tracked[b] THEN "exact" ELSE "generation"

RemoveTracked(b) ==
  LET a == LastTracked(b) IN
  /\ pc[b] = "removing"
  /\ tracked[b] # {}
  /\ tracked' = [tracked EXCEPT ![b] = @ \ {a}]
  /\ own' = Disowned(key[b], a)
  /\ \/ /\ a = "generation"
        /\ gen' = [gen EXCEPT ![key[b]] = Absent]
        /\ older' = WithoutAge(key[b])
        /\ UNCHANGED refs
     \/ /\ a # "generation"
        /\ refs' = [refs EXCEPT ![key[b]][a] = Absent]
        /\ UNCHANGED <<gen, older>>
  /\ UNCHANGED <<pc, key, mine, slot, pending>>
  /\ UNCHANGED <<leaked, lock, cleanerVars, readerVars>>

\* Everything tracked is gone: the run answers repository-index-scope-drift.
ReportDrift(b) ==
  /\ pc[b] = "removing"
  /\ tracked[b] = {}
  /\ pc' = [pc EXCEPT ![b] = "drift"]
  /\ UNCHANGED <<key, mine, slot, pending, tracked, own>>
  /\ UNCHANGED <<storeVars, cleanerVars, readerVars>>

\* A removal fails: the rest stays and the drift error says so.
RemovalFails(b) ==
  /\ pc[b] = "removing"
  /\ tracked[b] # {}
  /\ pc' = [pc EXCEPT ![b] = "dirty"]
  /\ UNCHANGED <<key, mine, slot, pending, tracked, own>>
  /\ UNCHANGED <<storeVars, cleanerVars, readerVars>>

Forget(b) ==
  /\ pc' = [pc EXCEPT ![b] = "idle"]
  /\ key' = [key EXCEPT ![b] = None]
  /\ mine' = [mine EXCEPT ![b] = Absent]
  /\ slot' = [slot EXCEPT ![b] = "exact"]
  /\ pending' = [pending EXCEPT ![b] = {}]
  /\ tracked' = [tracked EXCEPT ![b] = {}]
  /\ own' = [own EXCEPT ![b] = {}]

\* The process has answered and exits; it may be run again.
EndRun(b) ==
  /\ pc[b] \in BuilderEnds
  /\ Forget(b)
  /\ UNCHANGED <<storeVars, cleanerVars, readerVars>>

\* The process dies: its lock is freed, a reference temporary stays behind.
CrashBuilder(b) ==
  LET bk == BucketOf[key[b]][slot[b]] IN
  /\ pc[b] \in BuilderSteps
  /\ IF lock[key[b]] = b THEN Unlock(key[b]) ELSE UNCHANGED lock
  /\ \/ /\ pc[b] \in {"link", "compare"}
        /\ leaked[bk] < MaxLeaks
        /\ leaked' = [leaked EXCEPT ![bk] = @ + 1]
     \/ pc[b] \notin {"link", "compare"} /\ UNCHANGED leaked
  /\ Forget(b)
  /\ UNCHANGED <<gen, older, refs, cleanerVars, readerVars>>

BuilderStep(b) ==
  \/ OpenGeneration(b) \/ ResolveGraph(b) \/ PublishUnlocked(b)
  \/ AcquireWriterLock(b) \/ WriterBusy(b) \/ RecheckUnderLock(b)
  \/ ReuseExisting(b) \/ PersistGeneration(b) \/ ReopenGeneration(b)
  \/ ReadReference(b) \/ LinkReference(b) \/ CompareReference(b)
  \/ QueryGraph(b)
  \/ RemoveTracked(b) \/ ReportDrift(b)

BuilderNext ==
  \E b \in Builders :
    \/ \E k \in Keys : Analyze(b, k)
    \/ BuilderStep(b)
    \/ RunFails(b) \/ RemovalFails(b) \/ CrashBuilder(b)
    \/ EndRun(b)

-----------------------------------------------------------------------------
(* Cleaners: index clean --execute *)

\* generation_candidates and, under the byte target, the selection: from the
\* oldest on, while the rest is too big and the newest ones are retained.
NewerThan(k) == Cardinality({j \in Present : <<k, j>> \in older})

\* Mutant: the retained ones are counted from the oldest.
OverTarget_Oldest ==
  {k \in Present :
     /\ Cardinality(Present) > NewerThan(k) + RetainGenerations
     /\ NewerThan(k) >= MaxGenerations}

OverTarget ==
  {k \in Present :
     NewerThan(k) >= RetainGenerations /\ NewerThan(k) >= MaxGenerations}

Enumerate(c) ==
  /\ cpc[c] = "idle"
  /\ \/ /\ cpc' = [cpc EXCEPT ![c] = "examine"]      \* --invalid
        /\ unscanned' = [unscanned EXCEPT ![c] = Present]
        /\ UNCHANGED selected
     \/ /\ cpc' = [cpc EXCEPT ![c] = "execute"]
        /\ selected' = [selected EXCEPT ![c] = OverTarget]
        /\ UNCHANGED unscanned
  /\ UNCHANGED <<target, unlinking, storeVars, builderVars, readerVars>>

\* generation_is_invalid: a file that has gone by now counts as invalid too.
Examine(c, k) ==
  /\ cpc[c] = "examine"
  /\ k \in unscanned[c]
  /\ unscanned' = [unscanned EXCEPT ![c] = @ \ {k}]
  /\ selected' =
       [selected EXCEPT ![c] = IF Readable(k) THEN @ ELSE @ \cup {k}]
  /\ UNCHANGED <<cpc, target, unlinking, storeVars, builderVars, readerVars>>

\* The scan is over, or its deadline or byte budget is.
EndScan(c) ==
  /\ cpc[c] = "examine"
  /\ cpc' = [cpc EXCEPT ![c] = "execute"]
  /\ unscanned' = [unscanned EXCEPT ![c] = {}]
  /\ UNCHANGED <<selected, target, unlinking>>
  /\ UNCHANGED <<storeVars, builderVars, readerVars>>

\* acquire_writer_lock with no patience: a busy generation is deferred.
TakeCandidate(c, k) ==
  /\ cpc[c] = "execute"
  /\ k \in selected[c]
  /\ selected' = [selected EXCEPT ![c] = @ \ {k}]
  /\ \/ /\ lock[k] = None
        /\ lock' = [lock EXCEPT ![k] = c]
        /\ target' = [target EXCEPT ![c] = k]
        /\ cpc' = [cpc EXCEPT ![c] = "unlink"]
     \/ /\ lock[k] # None
        /\ UNCHANGED <<lock, target, cpc>>
  /\ UNCHANGED <<unscanned, unlinking, gen, older, refs, leaked>>
  /\ UNCHANGED <<builderVars, readerVars>>

\* The file is removed, whatever it holds now, and its references are listed.
UnlinkGeneration(c) ==
  LET k == target[c] IN
  /\ cpc[c] = "unlink"
  /\ gen[k] # Absent
  /\ gen' = [gen EXCEPT ![k] = Absent]
  /\ older' = WithoutAge(k)
  /\ own' = Disowned(k, "generation")
  /\ unlinking' = [unlinking EXCEPT ![c] = {s \in Slots : refs[k][s] # Absent}]
  /\ cpc' = [cpc EXCEPT ![c] = "unreference"]
  /\ UNCHANGED <<refs, leaked, lock, target, unscanned, selected, readerVars>>
  /\ UNCHANGED <<pc, key, mine, slot, pending, tracked>>

\* The file is gone already (NotFound), or the platform refuses to remove it:
\* nothing more is done for this key, and its references stay.
SkipGeneration(c) ==
  /\ cpc[c] = "unlink"
  /\ Unlock(target[c])
  /\ target' = [target EXCEPT ![c] = None]
  /\ cpc' = [cpc EXCEPT ![c] = "execute"]
  /\ UNCHANGED <<gen, older, refs, leaked, unscanned, selected, unlinking>>
  /\ UNCHANGED <<builderVars, readerVars>>

\* remove_generation_references, one file at a time.
UnlinkReference(c, s) ==
  /\ cpc[c] = "unreference"
  /\ s \in unlinking[c]
  /\ unlinking' = [unlinking EXCEPT ![c] = @ \ {s}]
  /\ refs' = [refs EXCEPT ![target[c]][s] = Absent]
  /\ own' = Disowned(target[c], s)
  /\ UNCHANGED <<gen, older, leaked, lock, cpc, unscanned, selected, target>>
  /\ UNCHANGED <<pc, key, mine, slot, pending, tracked, readerVars>>

\* No reference is left, or an unsafe path or a failed sync ends the walk with
\* a limitation; the lock is dropped and the next candidate is taken.
ReleaseCandidate(c) ==
  /\ cpc[c] = "unreference"
  /\ Unlock(target[c])
  /\ target' = [target EXCEPT ![c] = None]
  /\ unlinking' = [unlinking EXCEPT ![c] = {}]
  /\ cpc' = [cpc EXCEPT ![c] = "execute"]
  /\ UNCHANGED <<gen, older, refs, leaked, unscanned, selected>>
  /\ UNCHANGED <<builderVars, readerVars>>

\* Nothing is left to remove, or the deadline defers the rest.
EndClean(c) ==
  /\ cpc[c] = "execute"
  /\ cpc' = [cpc EXCEPT ![c] = "idle"]
  /\ selected' = [selected EXCEPT ![c] = {}]
  /\ UNCHANGED <<unscanned, target, unlinking>>
  /\ UNCHANGED <<storeVars, builderVars, readerVars>>

\* The cleaner dies between two files.
CrashCleaner(c) ==
  /\ cpc[c] \in {"unlink", "unreference"}
  /\ Unlock(target[c])
  /\ cpc' = [cpc EXCEPT ![c] = "idle"]
  /\ selected' = [selected EXCEPT ![c] = {}]
  /\ target' = [target EXCEPT ![c] = None]
  /\ unlinking' = [unlinking EXCEPT ![c] = {}]
  /\ UNCHANGED <<gen, older, refs, leaked, unscanned, builderVars, readerVars>>

CleanerStep(c) ==
  \/ \E k \in Keys : Examine(c, k) \/ TakeCandidate(c, k)
  \/ \E s \in Slots : UnlinkReference(c, s)
  \/ EndScan(c) \/ UnlinkGeneration(c) \/ SkipGeneration(c)
  \/ ReleaseCandidate(c) \/ EndClean(c)

CleanerNext ==
  \E c \in Cleaners : Enumerate(c) \/ CleanerStep(c) \/ CrashCleaner(c)

-----------------------------------------------------------------------------
(* Readers: the lookups of one Fast analysis.  They take no lock. *)

\* Mutant: candidates are sorted by ascending completeness.
Rank_Ascending(q) == IF q = "complete" THEN 1 ELSE 2

\* completeness_rank.
Rank(q) == IF q = "complete" THEN 2 ELSE 1

StartLookup(r, s) ==
  /\ rpc[r] = "idle"
  /\ rpc' = [rpc EXCEPT ![r] = "dir"]
  /\ scope' = [scope EXCEPT ![r] = s]
  /\ bucket' = [bucket EXCEPT ![r] = s[1]]
  /\ UNCHANGED <<entries, candidates, hit, storeVars, builderVars, cleanerVars>>

\* Mutant: nothing in the exact bucket ends the lookup.
FoundNothing_NoBase(r) ==
  rpc' = [rpc EXCEPT ![r] = "unavailable"] /\ UNCHANGED bucket

\* lookup_exact, and when it found nothing lookup_base: the next bucket, or
\* the answer that no generation is available.
FoundNothing(r) ==
  \/ /\ bucket[r] = scope[r][1] /\ scope[r][2] # None
     /\ bucket' = [bucket EXCEPT ![r] = scope[r][2]]
     /\ rpc' = [rpc EXCEPT ![r] = "dir"]
  \/ /\ bucket[r] # scope[r][1] \/ scope[r][2] = None
     /\ rpc' = [rpc EXCEPT ![r] = "unavailable"]
     /\ UNCHANGED bucket

\* The names in the bucket, temporaries included; too many of them make the
\* whole lookup Corrupt.
DirectorySize(bk) ==
  Cardinality(Referenced(bk)) + Cardinality(InFlight(bk)) + leaked[bk]

ReadDirectory(r) ==
  /\ rpc[r] = "dir"
  /\ \/ /\ DirectorySize(bucket[r]) > MaxReferences
        /\ FoundNothing(r)
        /\ UNCHANGED entries
     \/ /\ DirectorySize(bucket[r]) <= MaxReferences
        /\ rpc' = [rpc EXCEPT ![r] = "read"]
        /\ entries' = [entries EXCEPT ![r] = Referenced(bucket[r])]
        /\ UNCHANGED bucket
  /\ UNCHANGED <<scope, candidates, hit, storeVars, builderVars, cleanerVars>>

\* decode_reference: the reference becomes a candidate, or it has gone (Miss).
\* A file that goes between its symlink_metadata and its open is an error of
\* the lookup.  Temporaries never become candidates and are left out.
ReadEntry(r, k) ==
  LET found == refs[k][SlotIn(k, bucket[r])] IN
  /\ rpc[r] = "read"
  /\ k \in entries[r]
  /\ entries' = [entries EXCEPT ![r] = @ \ {k}]
  /\ \/ /\ found # Absent
        /\ candidates' = [candidates EXCEPT ![r] = @ \cup {<<k, found>>}]
        /\ UNCHANGED rpc
     \/ /\ found = Absent
        /\ rpc' = [rpc EXCEPT ![r] = "read"]
        /\ UNCHANGED candidates
     \/ /\ found = Absent
        /\ rpc' = [rpc EXCEPT ![r] = "error"]
        /\ UNCHANGED candidates
  /\ UNCHANGED <<scope, bucket, hit, storeVars, builderVars, cleanerVars>>

\* Mutant: a candidate that fails is tried again.
PassOver_Retry(r, k, q) == candidates[r]

\* The candidates that are left when one could not be used.
PassOver(r, k, q) == candidates[r] \ {<<k, q>>}

\* The candidates are opened by descending completeness; one that is not
\* there, not intact or of another completeness is passed over.
OpenBest(r, k, q) ==
  /\ rpc[r] = "read"
  /\ entries[r] = {}
  /\ <<k, q>> \in candidates[r]
  /\ \A o \in candidates[r] : Rank(o[2]) <= Rank(q)
  /\ \/ /\ gen[k] = q
        /\ rpc' = [rpc EXCEPT ![r] = "hit"]
        /\ hit' = [hit EXCEPT ![r] = <<k, q>>]
        /\ UNCHANGED candidates
     \/ /\ gen[k] # q
        /\ candidates' = [candidates EXCEPT ![r] = PassOver(r, k, q)]
        /\ UNCHANGED <<rpc, hit>>
  /\ UNCHANGED <<scope, bucket, entries, storeVars, builderVars, cleanerVars>>

\* No candidate is left in this bucket.
Exhausted(r) == rpc[r] = "read" /\ entries[r] = {} /\ candidates[r] = {}

LeaveBucket(r) ==
  /\ Exhausted(r)
  /\ FoundNothing(r)
  /\ UNCHANGED <<scope, entries, candidates, hit>>
  /\ UNCHANGED <<storeVars, builderVars, cleanerVars>>

ReaderEnds == {"hit", "unavailable", "error"}
ReaderStates == {"idle", "dir", "read"} \cup ReaderEnds

EndLookup(r) ==
  /\ rpc[r] \in ReaderEnds
  /\ rpc' = [rpc EXCEPT ![r] = "idle"]
  /\ scope' = [scope EXCEPT ![r] = None]
  /\ bucket' = [bucket EXCEPT ![r] = None]
  /\ entries' = [entries EXCEPT ![r] = {}]
  /\ candidates' = [candidates EXCEPT ![r] = {}]
  /\ hit' = [hit EXCEPT ![r] = None]
  /\ UNCHANGED <<storeVars, builderVars, cleanerVars>>

ReaderStep(r) ==
  \/ ReadDirectory(r)
  \/ \E k \in Keys : ReadEntry(r, k)
  \/ \E k \in Keys, q \in Qualities : OpenBest(r, k, q)
  \/ LeaveBucket(r)

ReaderNext ==
  \E r \in Readers :
    \/ \E s \in FastScopes : StartLookup(r, s)
    \/ ReaderStep(r)
    \/ EndLookup(r)

-----------------------------------------------------------------------------
(* The medium damages a published file: the case open_immutable and         *)
(* `clean --invalid` are written for.                                       *)
DamageGeneration(k) ==
  /\ k \in Damageable
  /\ Readable(k)
  /\ gen' = [gen EXCEPT ![k] = Damaged]
  /\ UNCHANGED <<older, refs, leaked, lock>>
  /\ UNCHANGED <<builderVars, cleanerVars, readerVars>>

MediumNext == \E k \in Keys : DamageGeneration(k)

Next == BuilderNext \/ CleanerNext \/ ReaderNext \/ MediumNext

Spec == Init /\ [][Next]_vars

\* Each process goes on as long as it lives: every wait has a deadline.  New
\* runs, errors, deaths and damage are never owed.
Fairness ==
  /\ \A b \in Builders : WF_vars(BuilderStep(b))
  /\ \A c \in Cleaners : WF_vars(CleanerStep(c))
  /\ \A r \in Readers : WF_vars(ReaderStep(r))

FairSpec == Spec /\ Fairness

-----------------------------------------------------------------------------
(* Properties *)

StoreTypeOK ==
  /\ gen \in [Keys -> Qualities \cup {Absent, Damaged}]
  /\ older \subseteq Keys \X Keys
  /\ refs \in [Keys -> [Slots -> Qualities \cup {Absent}]]
  /\ leaked \in [Buckets -> 0 .. MaxLeaks]
  /\ lock \in [Keys -> Builders \cup Cleaners \cup {None}]

BuilderTypeOK ==
  /\ pc \in [Builders -> BuilderStates]
  /\ key \in [Builders -> Keys \cup {None}]
  /\ mine \in [Builders -> Qualities \cup {Absent}]
  /\ slot \in [Builders -> Slots]
  /\ pending \in [Builders -> SUBSET Slots]
  /\ tracked \in [Builders -> SUBSET Artifacts]
  /\ own \in [Builders -> SUBSET Artifacts]
  /\ \A b \in Builders :
       /\ (pc[b] = "idle") <=> (key[b] = None)
       /\ pc[b] \in Publishing => mine[b] \in Qualities

CleanerTypeOK ==
  /\ cpc \in [Cleaners -> {"idle", "examine", "execute", "unlink", "unreference"}]
  /\ unscanned \in [Cleaners -> SUBSET Keys]
  /\ selected \in [Cleaners -> SUBSET Keys]
  /\ target \in [Cleaners -> Keys \cup {None}]
  /\ unlinking \in [Cleaners -> SUBSET Slots]
  /\ \A c \in Cleaners :
       cpc[c] \in {"unlink", "unreference"} <=> target[c] # None

ReaderTypeOK ==
  /\ rpc \in [Readers -> ReaderStates]
  /\ scope \in [Readers -> FastScopes \cup {None}]
  /\ bucket \in [Readers -> Buckets \cup {None}]
  /\ entries \in [Readers -> SUBSET Keys]
  /\ candidates \in [Readers -> SUBSET (Keys \X Qualities)]
  /\ hit \in [Readers -> (Keys \X Qualities) \cup {None}]
  /\ \A r \in Readers : rpc[r] # "idle" => scope[r] \in FastScopes

\* Every variable keeps its type, a run has a key exactly while it lasts and a
\* completeness when it records one, and a cleaner has a target exactly while
\* it removes one: no path forgets to set or to reset them.
TypeOK == StoreTypeOK /\ BuilderTypeOK /\ CleanerTypeOK /\ ReaderTypeOK

\* A writer lock is held by exactly the run that is between its second look
\* and its publication, or by the cleaner that is removing that generation:
\* no error path, death or early return leaves it behind or drops it early.
LockDiscipline ==
  \A k \in Keys :
    /\ \A b \in Builders :
         lock[k] = b <=> (pc[b] \in Locked /\ key[b] = k)
    /\ \A c \in Cleaners :
         lock[k] = c <=> (cpc[c] \in {"unlink", "unreference"} /\ target[c] = k)

\* The file a run found missing under the lock is still missing when the run
\* links its own: persist_noclobber never meets another writer's file.
NoCollision ==
  \A b \in Builders : pc[b] = "persist" => gen[key[b]] = Absent

\* A run that answers repository-index-scope-drift has left none of the files
\* it published: every file it linked was tracked by the time it could drift.
DriftLeavesNothing ==
  \A b \in Builders : pc[b] = "drift" => own[b] = {}

\* Files of generations keep the promise of an immutable object store: they
\* appear whole and are never replaced while they are there.
Store == INSTANCE ImmutableObjectStore
           WITH Names <- Keys, Values <- Qualities, store <- gen

GenerationsAreImmutable == Store!Spec

\* Two builders of one generation converge on one validated file: no run is
\* refused because of an intact file another run published under its key.
\* False of the code where budgets differ: the key binds none.
SameKeyBuildersConverge ==
  [][\A b \in Builders :
       pc[b] # "invalidExisting" /\ pc'[b] = "invalidExisting"
         => gen[key[b]] \notin Qualities]_vars

\* A run that lives reaches an answer: the deadline on the writer lock keeps
\* it from waiting for ever on others that keep taking the lock.
RunsEnd ==
  \A b \in Builders : pc[b] \in BuilderSteps ~> pc[b] \notin BuilderSteps

\* A cleaner that lives ends, so no generation stays locked by one.
CleansEnd ==
  \A c \in Cleaners : cpc[c] # "idle" ~> cpc[c] = "idle"

\* Whoever lives comes to an end, although builders and cleaners contend for one
\* lock for ever.
EveryoneEnds == RunsEnd /\ CleansEnd

\* A Fast lookup that lives ends, whatever writers do to the bucket it reads.
LookupsEnd ==
  \A r \in Readers : rpc[r] \in {"dir", "read"} ~> rpc[r] \in ReaderEnds \cup {"idle"}
=============================================================================
