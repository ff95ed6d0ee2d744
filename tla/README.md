# A formal model of pre-commit-review

This directory holds TLA+ modules, TLC configurations and TLAPS proofs for the
Rust program under `collect-diff-context-cli/` and for `install.sh`. Unless they
start with `docs/` or `install.sh`, source paths below are relative to
`collect-diff-context-cli/src/`.

The program reviews a change of a Git repository before it is committed. It is
short-lived processes, one per command, around state that others change at the
same time: the repository the user keeps editing, caches that several reviews
fill and clean, analyzers and a language server that are not trusted, and an
installed tree that is swapped while it is used. The models are about those
meetings, and about the sequential algorithms whose output everything rests on.

Contents:

1. Inventory of the system
2. Modules and how they correspond to the code
3. Runs, bounds, and what they show
4. Fairness
5. Proofs
6. Findings
7. Divergences
8. Abstractions, and what is not modelled
9. What could come next

## 1. Inventory of the system

### 1.1 Repository index (`impact_context/cache/`, `adapters/repository_index.rs`)

| Part | State | Operations |
|---|---|---|
| Graph generation store, `cache/sqlite_generation.rs` | `graphs/<key>.sqlite`, immutable SQLite files | `RepositoryGraphWriter::publish`, `reuse_existing`, `RepositoryGraphReader::open_immutable`, `integrity_check_bounded` |
| Writer lock, `cache/locking.rs` | `locks/<key>.lock`, an advisory file lock | `acquire_writer_lock` (poll until a deadline), drop |
| Generation locators, `cache/generation_locator.rs` | one directory ("bucket") per locator digest, one JSON reference per generation in it | `publish_exact_tracked`, `lookup_exact`, `lookup_base` |
| FileFacts store, `cache/file_facts.rs` | `facts/sha256/xx/<key>.facts`, immutable objects | `lookup`, `publish` (no lock: `persist_noclobber`) |
| Maintenance, `cache/cleanup.rs` | reads all of the above, removes generations and references | `clean_repository_cache` (`--invalid` or down to `--max-bytes` while retaining the newest) |
| Provider, `adapters/repository_index.rs` | per run: the manifest, the list `published_artifacts`, cache statistics | `analyze` (Deep: builds and publishes), `analyze_fast_exact` (Fast: reads only, overlays the changed files on a base) |
| Index algorithms, `index/` | per run: budgets, manifest, project model, graph, overlay | manifest, resolve, traverse, overlay, budget |

*Interaction.* A Deep run opens the generation of its key; when it is not
there, it walks the manifest (FileFacts looked up, or parsed and published),
resolves a graph, publishes it under the writer lock, reopens it and publishes
one or two references to it. After nearly every step it validates its scope
again; when that fails it removes everything it has published
(`remove_published_artifacts`) and answers `repository-index-scope-drift`. A Fast
run only follows references to generations, and lays the changed files over a
generation of the base. `index clean` removes generations under the writer lock,
and then the references to them.

*Hard:* builders, readers and cleaners of different processes interleave at
every file system call; existence is checked, the lock taken, existence checked
again; selections and directory listings are stale when they are used; drift
removes files without a lock; processes die between two steps; budgets differ
between runs, but the keys of what they share do not bind budgets.

*Correct means:* a writer lock is held exactly during the critical section; a
published file appears whole and is never replaced; a run that reports drift has
left nothing and taken nothing of another; builders of one key never mix the rows
of two budgets; a reader never misses, nor ranks below something worse, what was intact the whole time; a
clean spares what it must; an answer rests on the facts that are stored, whichever
budget cut them; an overlay shows no relationship that is no longer written in the
candidate; everybody ends.

### 1.2 Impact engine (`impact_context/engine.rs`, `normalizer.rs`, `summarizer.rs`, `budget.rs`, `contracts.rs`, `adapters/`)

Reads, parses and searches the changed files under one ledger, asks the index
about the changed symbols, assembles one document, cuts it to its size and
validates it. *Hard:* a dozen budgets each with its own way to cut; which cut
changes which status; a cut in one layer that makes another layer's record
dangle. *Correct means:* a released document validates; no gap without a reason;
"completed" has no gap; what helps least is cut first.

### 1.3 Repository context provider (`repository_context_provider/`)

A rust-analyzer child process spoken to over LSP. `session.rs` keeps the child,
a bounded queue filled by a stdout reader thread, overflow flags, a resource
monitor and a deadline; `json_rpc.rs` decodes frames and correlates responses;
`rust_analyzer.rs` drives the readiness gate and the call hierarchy walk; `mod.rs`
makes the report. *Hard:* a reader thread that blocks while the caller blocks;
limits checked in a fixed order; late, duplicate and unknown responses; shutdown
and reaping of a child that does not answer and of descendants that escape.
*Correct means:* the child and the threads do not outlive the call; facts rest on a session that went
well to its end; the report says exactly as much as the walk found; the call ends.

### 1.4 Trusted runtime (`trusted_runtime.rs`, `process_group.rs`, `provider_resources.rs`)

`ManagedChild` owns a child and its process group and terminates both when it is
dropped; a monitor samples the memory of the tree. Modelled as a session uses it.

### 1.5 Artifacts and installation (`artifacts/`, `install.sh`)

Packs of third-party tools: `publish_cache` stages a cache entry and renames it
into place, `provision_from_cache` copies it into a target root with the receipt
last, `provision_provider_authorization` adds a profile and a registry, `doctor`
reads it all again. `install.sh` stages a whole tree beside the target,
provisions into it and swaps it in by two renames. *Hard:* kills midway, two
installers, a provision by hand in a tree that is being swapped, a damaged cache
entry. *Correct means:* a receipt implies complete content; a required provider
is never left out; an installed target does not vanish; an artifact that a doctor
passes is of one tree.

### 1.6 Static analysis (`static_analysis/`)

`orchestration.rs` runs authorised tools one after the other on one materialised
snapshot under a shared ledger, `executor.rs` runs one tool with two capture
threads and limits, `evidence.rs` and `evidence_union.rs` turn the reports into
findings with a disposition. *Hard:* threads racing the caller, a stray that
keeps the pipes or the snapshot, a repository edited in between. *Correct means:*
no run counts after integrity is lost; accepted output is whole; budgets add up;
what is released is of one state; only what was earned blocks.

### 1.7 Candidates and review scope (`candidate/`, `review_scope.rs`, `index/manifest.rs`)

The staged, unstaged or branch content under review, captured within limits, and
its fingerprint, against which everything above validates. *Hard:* identity,
mode, size, ranges and bytes are read by separate calls while the user edits.
*Correct means:* what is released is of one scope; bytes read are the bytes
recorded; bounds hold though files grow; no change is left out silently.

### 1.8 Diff collection and secret scan (`app.rs`, `secret_scan.rs`)

Opens a scope, groups its files under byte budgets, answers for groups and paths
under `--expect-scope`. *Hard:* each invocation is a sequence of git calls, a
review a sequence of invocations. *Correct means:* a finished review covered one
state; work order, plan and ledger agree.

`PROJECT.json` lists every component with its status and every hazard with its
line and the properties that cover it, or the reason why none does.

## 2. Modules and how they correspond to the code

| Module | Role |
|---|---|
| `ImmutableObjectStore` | abstract specification: an object appears whole, is never replaced, may be removed or be damaged |
| `RepositoryCache`, `RepositoryCacheMC` | generations, locks, references; Deep runs, Fast lookups, cleans; instances |
| `RepositoryCacheHistory` | the histories that the properties of readers and cleaners need, and those properties |
| `RepositoryCacheProofs` | theorems about `RepositoryCache` and its histories |
| `FileFactsBuild`, `FileFactsBuildMC` | the FileFacts store and the part of a Deep run that fills it; instances |
| `FileFactsHistory` | the history that answers are judged by, and what they owe the store |
| `RepositoryIndexProofs` | theorems about `FileFactsBuild` and about `GraphOverlay`, the two ends of an index: how it is filled and how it is asked |
| `LspSession` | one provider call: caller, threads, channel, pipes, server, teardown |
| `CallHierarchyWalk`, `CallHierarchyWalkMC` | the walk over the server's answers and the report; instances |
| `ContextProviderProofs` | theorems about `LspSession` and about `CallHierarchyWalk`, which stand side by side |
| `ArtifactInstall`, `ArtifactInstallMC` | cache, provisioning, swap and doctor; instances |
| `ArtifactInstallProofs` | theorems about `ArtifactInstall` |
| `StaticOrchestration` | orchestration of analyzers, with their capture threads |
| `StaticOrchestrationProofs` | theorems about `StaticOrchestration` |
| `SequenceFolds` | lemmas about folds over sequences and sums over finite sets, which the proofs about budgets rest on |
| `StaticEvidence` | findings: parsing outcome, merge, disposition, union, cut, added lines (operators) |
| `ReviewScope`, `ReviewScopeMC` | `collect_diff_context` under edits: fingerprints, groups, a whole review; instances |
| `ReviewScopeProofs` | theorems about `ReviewScope` |
| `CandidateCapture`, `CandidateCaptureMC` | candidate content, manifest and snapshot under edits; instances |
| `CandidateCaptureProofs` | theorems about `CandidateCapture` |
| `GraphOverlay`, `GraphOverlayMC` | the Fast query of a base graph with an overlay; instances |
| `ImpactEngine` | the impact document (operators) |
| `AlgorithmsMC` | bounded inputs of `StaticEvidence`, `ImpactEngine` and `GraphOverlay`, and their properties |

Each module stands for a part that shares no mutable state with the others but
through what is abstracted at their border: the caches meet the repository only
through scope checks that may fail at any time (`AfterScopeCheck`), the session
through `drifted`, the orchestration through `repo` and `plan`. `GraphOverlay`
reads a generation that `RepositoryCache` keeps immutable, which is what lets it
take `Base` as a constant; `FileFactsBuild` is the step `ResolveGraph` of
`RepositoryCache` seen from near.

### 2.1 `RepositoryCache`

*The directory.* `gen[k]` is the file of generation `k`: absent, damaged, or
intact with the completeness of its graph. The rows of a graph are represented
by that completeness, which is all that reuse, references and readers tell
apart. `refs[k][s]` is the reference of `k` in its exact or base bucket and the
completeness it records; `leaked` counts temporaries that dead builders left in a
bucket; `lock[k]` is the holder of the writer lock; `older` orders the files by
modification time.

*A Deep run* is a program counter over the steps of `analyze`:

| Action | Code |
|---|---|
| `Analyze` | request and scope validated, manifest and key computed |
| `OpenGeneration` | `open_reader`: a hit goes on to the references, all else builds |
| `ResolveGraph` | facts built, graph resolved; budgets decide the completeness |
| `PublishUnlocked` | `publish` looks for the final path before it takes the lock |
| `AcquireWriterLock`, `WriterBusy` | `try_lock` succeeds, or the deadline passes |
| `RecheckUnderLock` | the final path is looked for again; else a file is staged |
| `ReuseExisting` | `reuse_existing` opens the file seen a moment ago and compares the rows |
| `PersistGeneration` | `persist_noclobber`, directory sync, lock dropped, path tracked |
| `ReopenGeneration` | the published path is opened; its completeness is what gets recorded |
| `ReadReference`, `LinkReference`, `CompareReference` | `publish_lookup` for the exact and then the base reference: read, link, and when the link meets a file, compare |
| `QueryGraph` | traversal and output, the last validation |
| `RemoveTracked`, `ReportDrift`, `RemovalFails` | `remove_published_artifacts`, last path first |
| `RunFails`, `CrashBuilder`, `EndRun` | any other error, the death of the process, its exit |

`AfterScopeCheck` is the validation that follows a step in the code: the run
goes on, or begins to remove. `tracked` is `published_artifacts`; `pending` is
`published_paths`, which the caller only learns when `publish_exact_tracked`
succeeds. `own` is a history variable: the files there now that this run put
there. No guard reads it.

*A clean* enumerates and selects (`Enumerate`, for `--invalid` also `Examine`
and `EndScan`), takes a candidate with its lock or defers it (`TakeCandidate`),
removes the file (`UnlinkGeneration`, `SkipGeneration`) and then its references
(`UnlinkReference`), and releases the lock (`ReleaseCandidate`). It may die in
between (`CrashCleaner`).

*A Fast lookup* lists a bucket (`ReadDirectory`, with the reference limit),
decodes the entries one by one (`ReadEntry`), opens the best candidate and passes
over those that fail (`OpenBest`), and falls back from the exact to the base
bucket (`LeaveBucket`, `FoundNothing`).

`DamageGeneration` is the medium: the case `open_immutable` and `--invalid` exist
for. It touches only the keys in `Damageable`.

### 2.2 `FileFactsBuild`

`object[k]` is the file of a FileFacts key: absent, damaged, or facts that are
`whole`, `cut` by a budget, or `empty`. A run walks `todo`, the manifest. For
each file `lookup` looks at the metadata (`InspectMisses`, `InspectFinds`) and
then opens (`UseStored`, `UseDamaged`, `ReuseEqual`, `Conflict`, or
`OpenVanished` when the file went away between the two calls). The same lookup is
called for three reasons, recorded in `why`: to use stored facts, by `publish`
before it links, and by `publish` after `AlreadyExists` to compare. `ParseFacts`
is `analyze_index` within what is left of the budget; `LinkFacts`,
`LinkUnsynced` and `LinkTaken` are the outcomes of `persist_noclobber`.
`ResolveGraph` derives the completeness from the facts; the rest of the run is
the subject of `RepositoryCache`. `FileFactsHistory` adds `disturbed`, the keys whose
object was removed or damaged under a run that is at them, and reads it nowhere.

### 2.3 `LspSession` and `CallHierarchyWalk`

`LspSession` is one call of `run_repository_context_provider`. The caller is `pc` within `stage`
(the handshake, the readiness gate, the open notifications, the calls, the
shutdown): `SendRequest`, `SendNotification`, `WriteUnit` and `WriteFails` are
`write_frame`; `Receive`, `Deliver`, `Refuse` and `TakeEvent` are
`next_message` with its first and second check of the limits (`LimitError`, in
the code's order) around the receive, so that an event may be held while a limit
trips; `Readiness` is the gate; `FinishCalls`, `Reap`, `StopAfterExit`,
`JoinAfterExit` are the clean shutdown, `Stop`, `Kill` and `Join` the `Drop` of the session;
`RunsOut` is the last look at the deadline; `Verify` and `Publish` are the
postflight of `mod.rs`. The readers (`ReadFrame`, `ReadBroken`, `StdoutEnds`,
`StderrEnds`) put events in the bounded channel and return on overflow; the
monitor (`Sample`, `SampleDead`, `KillTree`) counts the processes it has seen. The
server may write, read or exit at any time (`ServerWrites`, ...); `Disturb` is its
stderr output, a descendant that escapes, and a change of the candidate by anybody until
it is looked at for the last time; `Tick` is the deadline, `Cancel` the caller's flag. What a frame says is chosen when it is
delivered: the server may have written anything.

`CallHierarchyWalk` is what the adapter does with the answers, one request a
step: `Open` (with the search for macro calls), `Prepare`, `PrepareAgain`,
`PrepareFails` per seed, `Query`, `QueryRefused`, `QueryMalformed` per symbol and
direction, `Advance` per level. `Taken` folds the targets of an answer in order
through `AddTarget`, and the call ranges of each through `AddEdges` and `AddEdge`,
each with its budget. Entries without call ranges are dropped by the code and are not
in the graph. `Made` is `report_from_traversal`, which a warning of the readiness gate
makes partial, `Valid` the contract's validation.

### 2.4 `ArtifactInstall`

`tree[place]` is a directory tree: the target, the staging directory of an
installer, its backup. Its parts appear one by one, in the order of
`provision_from_cache`: `Check` (with the distribution manifest), `Begin`, `Copy`,
`Profile`, `Registry`, `Receipt`, `Verify`, each with its failure; a process may be
`Killed` after any of them. `Prepare`, `Publish` and `Rename` are the shared
cache. `LookAtTarget`, `MoveAside`, `MoveIn`, `MoveInFails` and `DropBackup` are
`commit_staged_target`, with the look at the target and the rename apart; `Trapped` is
the exit trap.

A doctor opens one file after another, each below the target that is there by then
(`Reads`): `ReadManifest`, `ReadInventory`, `ReadRevocations`, `ReadMembers`,
`ReadProviders`, `ReadEntries`, `ListReceipts`, and per artifact `ReadReceipt`,
`ReadExecutable`, `ReadReceiptAgain`, `ReadPack`, `ReadPayload`. `seen[p]` is what it
carries from one to the next: the release of the manifest, the registry, the artifacts
to report and those to do. What it carries binds by digest (`Binds`), so a file is
either of that release or refused; only the core's members (`ReadMembers`) and the
revocation index may be shared by two releases.

`asked`, `begun` and `torn` of a tree and `held` of `seen` are for the properties alone:
whether the provider was asked for; who began to provision in the tree; whether the
tree was moved aside under one of them or written by one who had begun in another; and
which artifacts stood whole in one tree when their receipt was accepted.

### 2.5 `StaticOrchestration` and `StaticEvidence`

`StaticOrchestration` is the caller (`Prepare`, `Open`, `Materialize`, then per
profile `Select`, `Start`, `Poll`, `Join` for each stream, `Check`, `Collect` or
`CollectFailure`, and finally `Revalidate` and `Compare`), the two capture threads
(`Capture`, `CaptureEnds`) with the room they share, the analyzer and what it
leaves behind (`Writes`, `Exits`, `Strays`, `Disturbs`), the user (`Edits`,
`Replaces`) and the clock (`Tick`). `Dropped` is the end of a run's scope.
`Charge` is `BudgetLedger::consume`, `EffectiveLimits` its `effective_limits`.

`StaticEvidence` holds the functions: `ParseReport`, `MergeFindings`, `Disposition`,
`Cut`, `Evidences`, `Union`, `Status`, `ArtifactIsValid`, and `AddedLines` of
`review_scope.rs`. A finding is a key with what the code compares of it; a digest
is the tuple it hashes.

### 2.6 `ReviewScope` and `CandidateCapture`

`ReviewScope`: `diffs`, `patterns` and `head` are the repository; `run` is one
invocation, whose git calls are its steps (`ReadHead`, `ReadAvailable`,
`ReadPatterns`, `OpenFingerprint`, `ReadNames`, `ReadGlobal`, `ReadPath`, `ReadUnit`,
`ReadEndPatterns`, `Close`, `ReadSplit`), each of which sees the repository as it is
then and may fail (`GitFails`); `review` is what the reviewer has: `OpenScope`,
`LoadGroup`, `LoadPath`, `LoadPlan`, `Finish`. `GroupsOf`, `WorkOrder`, `ReviewPlan` and
`Ledger` are the functions of `app.rs`. A fingerprint is the record of what it
covers.

`CandidateCapture`: `head`, `index` and `disk` are trees the user changes
(`WriteFile`, `StagePath`, `CheckoutPath`, `MergeConflict`, `CommitIndex`); `job` is
one capture. A review goes through `OpenScope`, `ListContent`, `InspectMode`,
`MeasureGit` or `MeasurePath`, `HashPath`, `MapRanges`, `AddMissing`,
`ReadCandidate`, then the manifest (`ReadLocator`, `ListManifest`, `InspectEntry`,
`MeasureEntry`, `HashEntry`, `SealManifest`) and `Revalidate`. A file of a manifest is
read in five steps: the scope is validated (`StartFact`), the path listed again
(`ListFact`), its mode looked at (`InspectFact`), its bytes read and compared
(`ReadFact`), the scope validated again (`AcceptFact`). A snapshot goes through
`ListSnapshot`, `InspectTracked`, `CopyTracked` and `Protect`, and is verified by two
walks, entry by entry: `StartVerify` and `InspectWritable`, then `StartDigest`,
`HashSnapshot` and `CompareDigest`. A tool, or what it left behind, may `Loosen`,
`Alter` and `AddDirectory` before the verification and during it. `misled`, `left` and
`mended` are histories of the properties. Paths are numbers
in Git's order; what is listed and still to be looked at (`job.queue`) is a function
from paths to records, whose least path comes next. A path in conflict is listed once
for each side, so a snapshot takes it twice (`NextTracked`). `Fitting` is the set of
blobs that still fit when all are taken in order: what the loop over a Git tree keeps.

### 2.7 `GraphOverlay`, `ImpactEngine`, `AlgorithmsMC`

`GraphOverlay` starts from the base graph as the resolver makes it of the base's texts
(`EdgesOf`): a call resolved to its only target is also a reference; a call of several or
of none is unresolved, and without an edge if its name is the language's own
(`Builtins`); a reference has an edge if it can mean something; an import has one to each
symbol it can mean, and a public one exports it too. `StillPresent` decides by kind what
of this a changed text keeps: of a call or reference its place and name are compared, of
an import the place. `GraphOverlay` is a state machine because its budgets are consumed in an order
that is not determined: `ResolveChanged`, `PassRemoved`, `CollectDependents` and
`ResolveDependent` make the delta, `StartOverlay`, `ProcessPath`, `SkipPath`,
`VisitSymbol` and `FinishOverlay` lay it over the base, `SeedSymbol`, `StartSearch`,
`LookUp`, `Deeper`, `CutByDepth` and `Report` are the bounded search. A file of the
candidate is laid by `ProcessPath` as `insert_candidate_path` does it: its record is a
node, and without one nothing of the file is laid; then each symbol is charged as a
symbol and as a node (`Insertable`, `Charged`: the symbol at which the nodes run out is
charged and not laid), then each edge. The changed files are resolved in the order of
their paths (`Least`). `ImpactEngine`
is three functions: an input gives `Analyses` of its files, these the set of
`Documents` that may be assembled of them, and a document its `Presentations`;
they are built from `Unit`, `Query`, `Tally` and `Coverage`, and `Validate` is the
program's own check. In `AlgorithmsMC` an initial state is an input; reference
definitions say what the answer should be.

### 2.8 Properties, mutants, and definitions that are not checked

The properties stand at the end of each module. Some are conjunctions of named
parts, so that a run states one sentence and a reader finds each clause by its
name: `TreesAreWhole`, `FactsAreSound`, `VerdictIsTrue`, `ReviewIsOfOneState`,
`OnlyEarnedBlocks`, `UnionIsFaithful`, `QueryIsFaithful`, `ContextIsHonest`,
`BudgetsCutTheLeast`, `BytesAreAsCaptured`, `NothingIsCutSilently`, `DriftIsExact`,
`EveryoneEnds`. A definition named `<Definition>_<Word>` is a mutant: the
definition as a plausible bug would have it. For every property of every passing
run `PROJECT.json` names a mutant under which TLC finds the property violated.

A property whose comment says "False of the code" states what a document, a
comment or a test says and the model refutes; section 7 tells each story, and
how to see it.

## 3. Runs, bounds, and what they show

| Run | Instance | Checked |
|---|---|---|
| `Writers` | `RepositoryCacheHistory`: 2 builders, 1 cleaner, 1 key, 1 bucket, budgets that give either quality, with fairness | `LockDiscipline`, `NoCollision`, `DriftLeavesNothing`, `GenerationsAreImmutable`, `SameKeyAnswersAgree`, `EveryoneEnds` |
| `Lookups` | `RepositoryCacheHistory`: 1 reader, 1 builder, 1 cleaner, 2 keys in one bucket, both qualities, one generation to retain | `BestSteadyWins`, `CleanSparesWhatItMust` |
| `BaseLookups` | `RepositoryCacheHistory`: 1 key with an exact and a base bucket, a reader of an unstaged scope over that base, a bucket limit of one, one leak, damage, with fairness | `SteadyGenerationIsFound`, `ReferencesAgreeUntilRemoval`, `LookupsEnd` |
| `SharedFacts` | `FileFactsBuildMC`: 2 runs, 2 files of 2 and 1 nodes, budgets of 1 and 3, damage, with fairness | `AnswersAgreeWithStore`, `CutsOnlyBeyondBudget`, `DriftIsExact`, `FactsAreImmutable`, `FactsRunsEnd` |
| `Session` | `LspSession`: one call, a channel of one, pipes of one and two, 2 requests, 3 frames, one disturbance, with fairness | `NothingIsLeft`, `FactsAreSound`, `EndsUnlessHeld` |
| `Walk` | `CallHierarchyWalkMC`: every graph of up to 3 calls among 3 symbols, 4 seed lists, 3 natures, 4 budgets | `AlwaysReportable`, `VerdictIsTrue`, `RequestsAreBounded` |
| `Install` | `ArtifactInstallMC`: 3 of 2 installers, a provision by hand and a doctor; 2 releases, 2 caches | `TreesAreWhole`, `InstalledOutlives`, `DoctorVouchesForOneTree` |
| `Orchestration` | `StaticOrchestration`: 2 profiles, budgets that overlap, 2 writes a process, one edit, with fairness | `OutputIsCharged`, `EntriesFollow`, `AcceptedIsWhole`, `ReleasedIsOfOneState`, `OrchestrationEnds` |
| `Review` | `ReviewScopeMC`: 2 files of one component, one generated; 2 edits, 1 failed git call | `ReviewIsOfOneState`, `PlansAgree` |
| `Capture` | `CandidateCaptureMC`: 3 paths (a file, a submodule, a query file), texts of 3 sizes, 3 edits | `ReleasedIsOfItsScope`, `BytesAreAsCaptured`, `NothingIsCutSilently` |
| `Algorithms` | `AlgorithmsMC`: bounded inputs, see below | `OnlyEarnedBlocks`, `UnionIsFaithful`, `QueryIsFaithful`, `ContextIsHonest`, `BudgetsCutTheLeast` |
| `ShrunkFile` | `AlgorithmsMC`, the same inputs | refutes `GraphNeverSpoilsContext` (section 6) |

Sizes: from some 152 000 distinct states (`Algorithms`) to some 2.3 million
(`Lookups`, `Review`); every run ends within four minutes on two workers.

### 3.1 Why the bounds are enough

*Caches.* Processes of one kind interact through a key or a bucket only. Two
builders give every order of check, lock, check and link, and a process may run
again any number of times, so later runs meet what earlier ones left. One
cleaner beside two builders suffices for the lock, because a cleaner does to
another cleaner what it does to a builder. Two keys in one bucket are what
ranking, passing over and retention by age need; two qualities are all that
`completeness_rank` tells apart. Budgets of FileFacts are in nodes: 1 cuts the
first file inside, 3 just covers both, so that a scarce and an exactly sufficient
run share the store. `MaxReferences` is `MAXIMUM_REFERENCES_PER_LOCATOR` scaled
down; `MaxLeaks` bounds the temporaries that deaths leave in a bucket (at the
bound a builder does not die with its temporary); a bucket over its limit is
unreadable, so `Offered` counts none of its references. `Damageable` names the keys
the medium may damage: that of `BaseLookups` and one of `SharedFacts`. `Writers` and
`Lookups` have two of everything else and no damage, and `Writers` no base bucket;
the theorems of section 5 are for any number of keys and buckets and damage of any
of them. `Recorded` the histories a run keeps. `Lookups` declares the
keys symmetric: they share the bucket and nothing tells them apart; no run with a
liveness property does.

*Session and walk.* Each limit is small enough to be reached and each resource
to be full: the channel after one event, the stdin pipe within one frame. One
disturbance (stderr output, a candidate edit, a descendant that detaches) is
enough because each has its own property; the cancellation and the deadline come
besides. Three symbols and three calls hold a cycle, a self call, a diamond and a
symbol reached from two seeds; the budgets cut at nodes, edges, depth and requests.

*Install.* Two installers of two releases meet each other's target, backup and
cache entry, and the provider of the first is revoked by the second; of the four
processes any three run together (`Casts`). A doctor meets up to two swaps between its
first file and its last, and the disk damages the packs in `Damageable`.

*Orchestration.* With 2 profiles the second starts with what the first left:
`TotalOutput` 3 is less than two runs of 2 streams with a sentinel byte, so both
the room of a run and the ledger run out. 2 writes per process overflow a stream
of 1. `MaxElapsed` exceeds `ProfileTime`, as a caller may be late; `MaxEdits` is 1
because no edit restores what was there.

*Review and capture.* Two edits put one change inside a fingerprint bracket and
another behind it; three let a capture meet a path that changes kind twice. An edit
that restores the diff which a collection has fingerprinted, and another edit had
left while it was collecting, is followed (`strayed`) and excluded where no
fingerprint can see it: comparing two fingerprints cannot tell A-B-A from A.

*Algorithms.* Evidence: two executions with up to two reports of up to two
results that cover each severity, baseline and place the rules mention. Diffs:
hunks with up to three body lines, with and without lines that look like headers.
Impact: pairs of a rich and a plain file in every state (parse, read, presence),
under an ample budget and under each budget cut alone, with every kind of
repository answer. Query: three files with calls, references, an import, an export and a
call of a builtin, fourteen edits of the first two, and budgets that run out at each
stage.

### 3.2 What each property is about

- `LockDiscipline`: every return of `publish` and of `clean`, and every death,
  drops the guard, and nothing between the second look and the link drops it early.
- `NoCollision`: under the lock the final path stays empty until the holder
  links its file, although drift and cleaners touch that path and drift takes no
  lock.
- `DriftLeavesNothing`, `DriftIsExact`: paths are tracked before any check that
  could report drift, on all paths through `analyze`; what is linked but not tracked
  only occurs on paths that end in another error. For FileFacts also the converse:
  drift takes away nothing that another run linked, though nobody locks.
- `GenerationsAreImmutable`, `FactsAreImmutable`: refinements of
  `ImmutableObjectStore`.
- `SameKeyAnswersAgree`: the key of a generation binds no budget, so two runs of one key
  may have resolved different rows. One of them wins: until its file is removed, all
  that answer do so from the same rows, those of the file, and no reference says
  otherwise. That the loser converges instead of being refused is false (section 7).
- `ReferencesAgreeUntilRemoval`: the completeness in a reference is that of the
  file, whichever builder, of whichever budget, published which.
- `SteadyGenerationIsFound`, `BestSteadyWins`: the lookup sees a directory change
  under it; what was there and intact from its start to its end must not be
  missed, and not be outranked by something partial.
- `CleanSparesWhatItMust`: a selection is executed long after it was made. It spares
  what was intact from the start of the clean on; a damaged file that is rebuilt after
  its selection is removed by the code (no second look under the lock,
  `cache/cleanup.rs:424-466`), and nothing promises otherwise.
- `AnswersAgreeWithStore`, `CutsOnlyBeyondBudget`: two runs of different budgets parse one
  file at the same time, cut it differently and race to link it; who loses compares,
  and may go on only with what is stored. So what an answer rests on and what later
  runs will find are the same, and a complete answer never stands beside facts cut
  short, as long as nothing disturbs the object under a run. And a run cuts a file only
  when the file and those done are beyond its budget, so nothing is charged twice
  however a publication goes.
- `NothingIsLeft`: whatever limit, error or shutdown ended it, the call reaps its child,
  closes its pipes and joins its reader threads and its monitor.
- `FactsAreSound`: the order shutdown, reap, last accounting, postflight, publish; and
  no frame is looked at after one that was lost.
- `AlwaysReportable`, `VerdictIsTrue`, `RequestsAreBounded`: the report of a walk
  validates, says "completed" exactly when nothing is missing, and no symbol is
  asked twice.
- `TreesAreWhole`: see 1.5. A torn tree, over which one provision by hand is spread,
  is left out.
- `InstalledOutlives`: a tree with a core stays, at the target or as a backup, unless
  there is also a directory without one: what a provision by hand makes of a target
  that is away (section 7).
- `DoctorVouchesForOneTree`: the target is swapped between any two files the doctor
  opens. Each artifact it passes stood whole in one tree of the release whose manifest
  it had read, with the core inventory of that release, when its receipt was
  accepted. The files opened after that may be those of another tree with the same
  pack, and at the end the target may be of another release: nothing can bind that.
- `OutputIsCharged`, `EntriesFollow`, `AcceptedIsWhole`, `ReleasedIsOfOneState`: the
  ledger agrees with what is stored though two threads take from the room; no
  execution follows a mutation or a spent budget; accepted output is all of it;
  release is of one state of the repository.
- `ReviewIsOfOneState`, `PlansAgree`: answers of several invocations are never
  combined over different states; three computations of the same plan agree.
- `ReleasedIsOfItsScope`, `NothingIsCutSilently`: see 1.7.
- `BytesAreAsCaptured`: what a later read is compared with is the hash the capture recorded;
  what it must be is the text of the scope. The two are related by what the capture saw at
  different times, so the clause `ReadsAreOfTheScope` speaks of the diff at the opening.
  `VerifiedIsAsSealed` compares a snapshot as an analyzer left it with what was sealed,
  though the two walks of its verification see each entry at another time and it may be
  changed under them.
- `OnlyEarnedBlocks`, `UnionIsFaithful`: a blocking finding lies on an added line, its
  scope was embedded or not contradicted, a completed report gave it, and the order of
  the reports does not matter; the union counts everything and hides the least urgent.
- `QueryIsFaithful`: against the graph of the candidate, which is built directly.
- `ContextIsHonest`, `BudgetsCutTheLeast`: see 1.2.

## 4. Fairness

Each builder, cleaner and reader gets weak fairness of its own steps: it
continues as long as it lives. The code justifies this because no step waits
without a bound: `acquire_writer_lock` polls until a deadline (`WriterBusy`), the
cleaner does not wait at all, the reader takes no lock, and every loop runs over a
list taken before it. Weak fairness of the whole step, rather than strong
fairness of `AcquireWriterLock`, is what the code gives: a waiting builder may
find the lock taken at every poll, and then ends as busy. New runs, the exit of a
process after its answer, errors, removals that fail, deaths and damage are never
owed.

In a session the program's own threads are fair, the clock reaches the deadline
(`Tick`), the monitor samples, and a killed tree dies (`KillTree`); nothing is
assumed of the server, nor of a descendant that escaped. That is why
`EndsUnlessHeld` names two waits: a write to a full pipe of a server that does not
read, and a join on a pipe that an escaped descendant holds. In an orchestration the
caller, the capture threads and the clock are fair, the analyzer is not.

Deadlock is checked except where the model simply ends (`CHECK_DEADLOCK FALSE` in
`Session`, `Walk`, `Capture`, `Algorithms`, `ShrunkFile`: one call, one walk, one
capture, one input).

## 5. Proofs

Everything in the `...Proofs` modules is proved for any values of the constants,
from the assumptions stated with them. Where an invariant is not inductive, the
text names the strengthening and says what it adds; TLC checked each one on the
instance of the run before it was proved.

`RepositoryCacheProofs` (builders and cleaners are different processes, `None` is
neither a process nor a key nor a bucket, every key has an exact bucket and its
base bucket is another one; for the lookups, keys and builders are finitely many):

1. `TypeCorrect`: `TypeOK` is inductive.
2. `Locking`: `LockDiscipline` is inductive relative to `TypeOK`. It says who holds
   a lock in both directions; the weaker "at most one holder" would not be
   inductive.
3. `NeverCollides`: `NoCollision` is inductive relative to the two. A run in
   `persist` holds the lock, any other run that links this path would hold it too,
   and everything else can only empty the path.
4. `ImplementsImmutableStore`: with `NoCollision` every step is a publication, a
   removal, a damage or a stutter of `ImmutableObjectStore`.
5. `DriftIsClean`: `DriftLeavesNothing` is not inductive. The strengthening accounts
   for `own`: everything a run owns is tracked or pending, and pending is empty
   wherever the run could begin to remove. While it removes, what it owns is
   tracked; when the list is empty it owns nothing.
6. `LookupsOverlookNothing`, `LookupsTakeTheBest`: `SteadyGenerationIsFound` and
   `BestSteadyWins` speak of the end of a lookup. `Attentive` says of every step
   before that a generation offered all along (`steady`) is still `Ahead`: its bucket
   is not passed, its name is still to be read or its reference among the
   candidates, and nothing worse is hit in its bucket. The steps of others only
   shrink `steady`.
7. `CleansSpare`: `Sparing`: neither the selection nor the file in hand meets what
   must be spared; `Enumerate` establishes it, and a clean in progress only shrinks
   its selection.
8. `ReferencesAgree`, `AnswersOfOneKeyAgree`: `Agreeing`: as long as a key was not removed
   its references say what its file holds (`Referred`), and so does every run that has
   opened it, from its reopening to its answer (`AnswersAgree`). Two runs come there from
   different graphs, by a link or by the comparison of `ReuseExisting`; the comparison is
   what makes them agree. The hypothesis is that removals are recorded
   (`"removed" \in Recorded`), as the properties speak of that history.

`RepositoryIndexProofs`, the FileFacts (costs are 1 or 2, manifests are sequences of keys, limits numbers):

1. `FactsTypeCorrect`: `TypeOK`, with `spent <= limit`.
2. `OthersKeepTheirFacts`: ownership is exclusive, an owned object is there, and what
   a run tracks it owns: exclusive without a lock, because `persist_noclobber` is
   the only way to become an owner and nobody but the owner removes.
3. `FactsDriftIsClean`: conversely, everything a run owns it tracks, except after
   a failed directory sync, which ends the run. With 2 this is
   `DriftTakesBackItsOwn`, the property `DriftIsExact` of the run.
4. `FactsImplementImmutableStore`: the link is guarded by absence in the step
   itself, so the refinement needs types only.
5. `AnswersAreStored`: `AnswersAgreeWithStore`. `Settled` says of every file a run has done
   that its facts are those in the store, unless the object was disturbed. It is not
   inductive without its second part: a run that parses without publishing
   (`parseOnly`) found the object damaged, and it stays so. `TakenAreStored` goes through
   the ways to take facts: a hit, a link, a comparison after a lost race. The lemma
   `CompleteIsWhole`, that a complete answer has whole facts only, is its last clause.
6. `CutsFollowTheBudget`: `Paid` says that what a run has spent it spent on the files
   done, and on the one in hand only while that is parsed and not yet done. A run
   parses only what it was about to use (`why = "use"`) and links only what it has just
   parsed, so that no way through `publish` charges a file again.

`RepositoryIndexProofs`, the Fast query (`GraphAssumption`: paths are finitely many, a text
has finitely many symbols and uses, a name is a number, every use is made inside a symbol of its text,
limits are numbers and the limit of symbols is not 0, which `parse_limit` does
not accept, `bin/repository_context.rs:541-548`): `QueriesAreFaithful`, for any base,
candidate and budgets. `QueryInvariance` is the invariant it follows from, `QueryInv`,
whose parts say what each stage hands to the next:

1. `Resolving`, `ResolvedWhole`: what was resolved is written in the candidate, and
   every call of a resolved file became an edge at its place and with its name (kept from
   the base with its target, or new), unless the symbols ran out before the first of the
   file (`Starved`). That is the one cut the delta does not declare. Then the budget is
   spent, so the overlay, which charges the same symbols against what is left, lays none
   of them without marking "index".
2. `Depending`: an unchanged file is resolved only if a base call of it goes into a
   changed file, so it is queued when the symbols of that file are read (`VisitSymbol`).
3. `Laying`, `LaidWhole`: unless "index" is marked, a path that left the queue is laid
   with all its edges, the callers of every base symbol read are queued, and an edge
   that was suppressed has one of its place and name in its stead or lies in a file
   laid whole. `AllAreLaid` and `CallsAreLaid` conclude at the end of the overlay:
   every resolved file is laid, and a call of any other file is still seen in the base.
   This is `NoCallIsLost`, which compares the names too (`Named`): another call at the
   same place does not count.
4. `Searching`, `SearchedWhole`: the output is of the merged graph and within its limits,
   and unless the search marked a limit it has taken every edge at each symbol it is
   done with (`Around`), and seen both ends of it. When nothing is left to do, that is
   `OmissionsAreDeclared`; `Resolving` with `Laying` gives `OutputIsOfTheCandidate`.
   `EdgesOfFacts` is what the base graph has of a use, of each kind. The theorem does not
   say that the target of a kept edge exists, nor what an import imports now: both are
   false of the code (section 7).

`StaticOrchestrationProofs` (budgets are positive, a caller may be later than a
profile's timeout):

1. `OrchestrationTypeCorrect`: `TypeOK` with `Shapes`, which adds that no pipe holds
   more than was written and that what is charged as a failure is a status.
2. `EntriesAreInOrder`: `EntriesFollow` alone is not inductive: a profile in its
   run says nothing of the entries before it. `EntriesAccounted` adds that while
   one runs there is room for its entry and none before it was disturbed or refused,
   and that a mutation and a spent budget are never both on record.
3. `ReleasesOneState`: what was opened is never newer than the repository, which
   only moves on; the comparison finds it unmoved, so both versions are the first.
4. `AcceptsAllOfIt`: `Whole` says that without an overflow every byte is saved or in
   the pipe, that a capture that ended has an empty pipe and nobody left to write
   to it, and that the caller passes a join only when the capture ended. Accepting
   needs both joins and no overflow, read after them: the order in `finish_capture`
   and `Final` is what the proof uses.
5. `ChargesWhatIsStored`: `OutputIsCharged` compares a sum over the entries with the
   ledger. `Charged` follows the output from the room of a run (`saved + room` is the
   run's limit, and that is covered by the budget, so the saturating subtraction never
   saturates) over the run that is charged and has no entry yet (`Pending`) to the
   entries.

`ContextProviderProofs`, the session (capacities and the numbers of requests are
positive):

1. `Invariance`: `Inv` is the conjunction of `Typed`, `Pipeline`, `Correlated`,
   `Settled` and `Bound`.
2. `NothingIsLeftBehind`, that the child is reaped and the threads joined: `Settled` says what the teardown has done by each of its
   steps: a server seen to exit is reaped before the join, the readers are gone
   when the call is done, and nothing has happened before the spawn, so that a
   call that fails there leaves nothing either.
3. `AnswersAreSound`: the order of delivery is an action property. `Pipeline` is what
   makes it true: the event in hand and the channel hold the frames right after the
   last one delivered, and an end or an error is the last thing a reader ever puts
   there. `Correlated` says that only the request waited for is pending; `Bound`
   that a session that ended well stays so until it is published, unless the
   candidate drifted.

`ContextProviderProofs`, the walk (symbols and call ranges are finitely many numbers,
in the order the code sorts them by):

1. `WalkInvariance`: `WalkInv` is the conjunction of `WalkTyped`, `Shaped`, `WalkCounted`,
   `Preparing`, `Layered` and `Truthful`. What a report says can only be proved with what the walk
   knows on its way: `Layered` says that the frontier, what was visited and what was
   found lie within `depth` or `depth + 1` requests of the seeds (`Near`), and that as
   long as nothing was noted, each visited symbol has all its calls in the report and
   its targets among the nodes and, if there is another level, in the next frontier,
   while each other symbol of the level still waits. A limitation, once noted, is never
   taken back, which is why "completed" may rest on all of this.
2. What one answer adds (`AnswerTaken`) is worked out before the invariant. `Taken` is a
   fold over the targets whose step is a fold over ranges; `EdgesAdded` and
   `TargetAdded` say what a step keeps and adds, `EdgeSteps` and `TargetSteps` that
   the folds take such steps one after the other, and `InOrderFacts` that a finite set
   of numbers has an order which leaves nothing out.
3. `ReportsArePublishable`: `AlwaysReportable` is `Shaped` at the end of the walk.
4. `RequestsStayBounded`: `WalkCounted` pays for each request with an attempt or a visit;
   visits are pairs of a direction and a node.
5. `VerdictsAreTrue`: `AllAround` closes the last level, also when there is nothing
   left to ask before the depth is used up; `WithinIs` unfolds the reference
   `Within` of the model, which is as deep as a walk may be.

`ReviewScopeProofs` (finitely many files; budgets are numbers):

1. `Invariance`: what a collection read is of the fingerprinted diff only as long as
   its source still shows that diff. So `Collected` is conditional: IF the source
   shows it now (`AtStart`) and it was not left and restored (`strayed`), then what was
   read so far is of it; the closing fingerprint discharges the condition.
   `Fingerprinted` and `Serving` say which fingerprint an invocation began with and
   was asked for, `Reviewed` that the scope in the reviewer's hands is the function
   `ScopeOf` of its fingerprint, with everything covered equal to it.
2. `ReviewsAreOfOneState`: `ReviewIsOfOneState` follows from `Reviewed`.
3. `PlansAlwaysAgree`: `PlansAgree` holds of every scope that was derived from some
   listing (`Derived`), of one state or mixed. The rest is about the functions of
   `app.rs`: the plan gives each unit one group, the group is split in the work order
   exactly if the ledger wants its units split, high risk comes first, and the two
   counts of high-risk files, one over the units and one over the groups, are of
   one set.

`CandidateCaptureProofs` (finitely many paths, which are numbers; each text has a size,
and no text has none):

1. `Invariance`: `Inv` is the conjunction of `Typed`, `Placed`, `Prepared`, `Manifested`,
   `Copied` and `Faithful`. A capture looks at one thing after the other, each at
   a repository that may have moved meanwhile, so that nothing it has seen is true of its
   scope for certain. `Faithful` is therefore conditional: IF the scope is `Steady`, neither
   left now nor left and restored (`strayed`), then each record of the candidate
   (`CandidateIsSteady`) and each entry of the manifest (`ManifestIsSteady`) is of it. An
   edit can only end that condition, and `Revalidate`, the last step before a release,
   discharges it.
2. `ReleaseIsOfItsScope`: `ReleasedIsOfItsScope`, from `Faithful`. What the candidate of an
   unstaged review says of a path combines the record that was listed with the mode found
   on disk (`ModeOf`); `UnstagedModes` and `SteadyMode` show that in a steady scope the
   two agree.
3. `ReadsAreAsCaptured`: `BytesAreAsCaptured`, from an invariant of its own (`Kept`).
   `ReadsKept` and `FactsKept` carry what `Faithful` gives at the end of a capture in a
   steady scope past all that happens to the repository after it: a record does not
   change, and a read that is let through is equal to it, although listing, mode and
   bytes are looked at one by one. `Walked` says of a verification under way that an
   entry that differs from what it was when the first walk began was changed since,
   and that an entry hashed as it was sealed was left so, unless something was put back
   (`mended`).
4. `LimitsAreKeptAndTold`: `NothingIsCutSilently`. `Prepared` says that the bytes of all
   readable files, and of the one in hand between its measure and its record (`Held`), are
   covered by what was reserved; `Manifested` and `Copied` say the same of the manifest and
   of the snapshot. `Fitting`, what a budget lets through of a list, is defined by what it
   is rather than by a loop; `FittingExists` shows, by induction over the paths, that there
   is such a set, and `FittingFits` that its bytes stay within the budget.

`SequenceFolds` holds what the sums need. The library's induction theorems take an
operator and cannot be used here; `SetInduction` states induction over a set instead
and follows from `WFMin`. `FoldLeft` is a chosen function over the sets of indices:
`FoldExists` shows that there is one, `SumExists`, `SumTotals` and `TotalsAgree` that the
sum over a sequence grows by what is appended. The sum over a finite set is a chosen
function in the same way: `SummingExists` shows, by induction over the size of the set,
that there is one, `SumSplits` that a sum is that of any part plus that of the rest, and
`SumOfPart` that a part sums to no more than the whole.

`ArtifactInstallProofs` (processes and releases are positive numbers, each release
has a pack of each artifact):

1. `InstalledTreesAreWhole`: `TreesAreWhole`. It says what a tree holds, not what
   a process has done to it. The strengthening `Staged` follows each installer: at
   every step its staging directory exists, is written by nobody else, and holds
   what the steps before wrote (`Fits`). `Hand` says the same of one who provisions by
   hand, of the one tree that is not torn; `Apart` that no two of them are on the same
   artifact in it. So a receipt, written last, finds the pack whole; and a tree at the
   swap has the provider's receipt if it was asked for. `RoleSteps` says that only
   installers swap and that a doctor writes nothing.
2. `DoctorVouches`: `DoctorVouchesForOneTree`. Each file is opened in whatever tree is
   there. `Vouched` says that every receipt of a tree that is not torn is of the release
   of its manifest and has its pack beside it, `Bound` that the core is of that release
   too. The receipt that is read again must be of the release read first (`Binds`); the
   tree it is found in is therefore one of that release and holds the whole artifact,
   whichever trees the other files came from (`VouchedTree`). `SeenHeld` carries this to
   the end of the doctor.
3. `InstalledTreeOutlives`: `InstalledOutlives`. That some tree is there is not kept by
   each step: the last one could be the backup an
   installer is about to drop. `Outlives` says that then there is another (`Safe`),
   and that an installer has a backup exactly from its move aside on
   (`BackupFollows`); `Mild` is what all steps but the four of the swap have in
   common, that they leave backups alone and take no target away.

*Only model-checked:* the liveness properties (fairness is out of the prover's
reach); and of `AlgorithmsMC` the properties of findings and of the impact document
(`OnlyEarnedBlocks`, `UnionIsFaithful`, `ContextIsHonest`, `BudgetsCutTheLeast`), whose
statements are that a recursive computation agrees with a reference on bounded inputs
(induction over data).

*What the attempts changed in the models.* `AmpleRunCutsNothing`, an earlier property
of `SharedFacts` saying that a run with a budget for all its files stores nothing cut,
is false of a manifest that names one content twice: the first lookup uses a cut object of
another run, that run's drift takes the object away, and the second lookup parses it
whole, so a cut and a whole entry stand side by side and the stored object is this
run's own.
`CutsOnlyBeyondBudget` says what was meant, for every manifest. `AtStart` of
`ReviewScope` compared more than the diff, so that `strayed` was set by edits the closing
fingerprint does see. Alternatives of a CASE that overlapped in `LspSession`,
`CandidateCapture` and `ImpactEngine` follow the order of the code's conditions.
`CallHierarchyWalk` states the order of an answer by what it is (`InOrder`) instead of
by a sort, and its types name the codes a walk may note: the prover knows no string to be
one of `STRING`. The listings of `CandidateCapture` were filtered sequences, for which the
prover has no definition; as functions of paths they say the same in less, and a path
in conflict, which Git lists twice, became visible as a case of its own (`NextTracked`).
Its invariant had to be told what no property needs: that a submodule never reaches the
step that hashes (`Prepared`), and that an absent entry is not one of the modes. The
definitions of `CallHierarchyWalk` have names of their own (`WalkInit`, `WalkNext`,
`WalkSpec`) so that one module can reason about the session and the walk; so have those
of `GraphOverlay` (`QueryInit`, `QueryNext`, `QuerySpec`). `ProcessPath` of `GraphOverlay`
had no step for a file met when the nodes were spent and the symbols were not: the model
stood still where the code marks "index" and goes on. Its `UnretainedCalls` did not
compare names as the code does (`repository_index.rs:1133-1148`) and its `StillPresent`
looked at uses that are no calls. `NoCallIsLost` asked for any edge at the place of a
call, which was too weak for the next step to keep and is now about the call itself.

## 6. Findings

**A shorter file spoils the whole context** (`ShrunkFile`). `query_graph` reports
every base symbol of a changed file that the overlay no longer has with its base
range (`impact_context/adapters/repository_index.rs:1668-1677`, `1720-1723`), and
`ImpactContext::validate` holds each range against the size of the candidate's file
(`impact_context/contracts.rs:541-543`, `679`). When an edit makes the file shorter
than the end of a symbol it lost, a Fast context over a base generation fails as a
whole, whereas `engine.rs:619` says "Repository graph evidence was discarded;
changed-file context remains available."

## 7. Divergences

Further places where the code does other than a document, a comment or a test
says. The named property stands in the module, with "False of the code" or a
remark at its definition; put it in the configuration given and TLC shows how.

| Property | Configuration | What happens |
|---|---|---|
| `SameKeyBuildersConverge` | `Writers.cfg`, as a `PROPERTY` | The generation key binds no budget. Two builders of one key with different budgets resolve different rows; the second meets the intact file of the first and is refused with `invalid-existing-generation`, and so is every retry (`impact_context/cache/sqlite_generation.rs:205`). "Two builders of the same generation converge on one validated final file" (`docs/superpowers/specs/2026-07-27-persistent-symbol-index-design.md:679`) |
| `AmpleRunIsWhole` | `SharedFacts.cfg` | FileFacts cut short by one run's budget are stored under a key without a budget and reused by every later run: its graph is partial, however large its budget (`repository_index.rs:1448`; the same design at 506) |
| `ConflictMeansIncompatible` | `SharedFacts.cfg` | After `AlreadyExists`, `publish` reports every answer but an equal hit as "concurrent writer published an incompatible file facts object", also a miss, when the equal object was taken back by its drifting publisher (`cache/file_facts.rs:380-382`) |
| `ProviderCallEnds` | `Session.cfg` | `write_all` blocks without a deadline when the server does not read (`session.rs:519`), and a join waits for a pipe that an escaped descendant holds. "Kill and reap rust-analyzer and its descendants after completion, timeout, crash, invalid output, or caller cancellation" (`docs/superpowers/specs/2026-07-28-rust-analyzer-provider-design.md:79-80`) |
| `OpaqueSeedsArePartial` | `Walk.cfg` with `Requested <- MCSecondSeed` | The search for macro calls runs when a file is opened, for its first seed only: a second seed with a macro call ends "completed" (`tests/repository_context_provider_real.rs:783`) |
| `RegistryNamesTarget` | `Install.cfg` | `install.sh` provisions with the staging directory as target root, so the installed registry names paths that are gone |
| `ReleasedSnapshotIsIntact` | `Orchestration.cfg` | The snapshot is verified after each process, not again before release: a stray that writes after the last check goes unseen (`docs/static-analysis-orchestration.md`) |
| `PlanShowsItsScope` | `Review.cfg` | The plan's split previews are read after the closing fingerprint (`app.rs:3602`; the comment at `app.rs:2648-2650` says they are cached before) |
| `DeletedTargetIsUnresolved` | `Algorithms.cfg` | A call of a changed, unresolved file to a symbol that another changed file deleted vanishes instead of becoming unresolved (`repository_index.rs:1121`; `tests/repository_overlay.rs:437`, the index design at 537). Likewise an import that is rewritten in its place keeps its edge to what it imported before: only the place is compared (`repository_index.rs:1209-1212`), which is why `StandsInText` asks no more of an import |
| `ManifestIsOfItsLocator` | `Capture.cfg` | The locator digest is computed from one listing (`index/manifest.rs:110`), the manifest from a second (`:158`): a staged change between the two files a generation under the locator of another state, and after a revert a Fast lookup serves it |

Smaller ones, met while reading:

- *Impact.* A file that is unreadable and loses a repository edge to the edge budget
  makes `validate` reject the document (`contracts.rs:450-487`), the second of the two
  exceptions `ContextIsAccepted` names. The status stays `Completed` although
  repository edges outside the units were dropped, and although the index failed in
  Deep mode (the context design at 589). `tree-sitter-query-match-limit` leaves the
  syntax `Completed` (`adapters/tree_sitter_rust.rs:268`). Files beyond
  `max_changed_files` are still read. `max_matches_per_pattern = 0` answers partial
  (`adapters/text.rs:282-290`). `structural-impact-unavailable` is never emitted.
- *Overlay.* The candidate graph is always partial, so `partial` containing "index"
  means no more than that the overlay ran out of a budget. An edge "target-deleted"
  can come from a stale symbol of a later changed file (`index/overlay.rs:165-185`), so
  that one call is shown resolved and unresolved.
- *Provider.* All snapshot errors become `provider-snapshot-boundary`, so one item
  outside the candidate fails the walk (`docs/rust-analyzer-context-provider.md:176-178`
  skips it). Reaching the request limit answers "failed" rather than partial. The
  edge budget is checked before the duplicate. Framing errors are `Failed` in the
  handshake and `InvalidOutput` later. Frames decoded in the same push before an error
  are lost.
- *Installation.* A provision of the scanner that stops half-way leaves pack files
  without a receipt, and every later one is refused with `target-artifact-exists`; a
  doctor passes such a tree. A damaged cache entry is never replaced. A kill between
  the two renames leaves only `.previous.<pid>`. A provision by hand during a swap
  spreads over two trees (`torn` excludes those). And it may lose the installed tree:
  while the target is away, between the two renames or after both have failed, a provision that
  is under way makes the directory again (`artifacts/cache.rs:310`, `332`); the installer's `mv`
  then nests the staged tree in it, and its backup is dropped as if the swap had
  succeeded (`install.sh:606-614`). No tree with a core is left where anybody looks. Without
  `~Stub` TLC shows it as a violation of `InstalledOutlives`. A doctor that passed
  has vouched for the tree its receipts were read in; when it ends the target may be of another
  release.
- *Static analysis.* An unreadable snapshot ends the orchestration instead of
  invalidating the run. `merge_findings` lets a failed report raise the severity of a
  completed report's finding. The order of ties at the truncation is that of a hash
  map. Two profiles with one executable and equal output get one execution id.

## 8. Abstractions, and what is not modelled

*Caches.*
- A directory listing is atomic, the reads of its entries are not.
- Deep runs use the cache for reading and writing, the only setting in which they
  interact. All generations have one size: `--max-bytes` counts generations.
- `Newest` orders generations by publication; the code by the time of the last write
  of the staged file (`cache/cleanup.rs:582`), which differs only when two stagings overlap.
- One class of partial graphs: two partial graphs of one key count as equal, which
  favours convergence.
- A reader's byte limit smaller than the file it meets is left out. Enumeration errors
  of a clean change nothing and are no action. The order in which a clean examines and
  removes is nondeterministic; the code sorts.
- Removing a generation and listing its references is one step: the listing only
  misses references linked later, which the step order covers.
- Persisting, directory sync, dropping the lock and tracking are one step, as are a
  step and the scope validation after it: only the link and the drop are seen by
  others.
- Reasons for drift are not told apart. FileFacts have one budget, the nodes; bytes and
  the deadline cut facts in the same way.

*Session and walk.* Framing is not done byte by byte; a frame costs one unit, an open
notification `OpenSize`. Request payloads are left out. The walk is separate from the
session: an answer of the session is any answer. The directory of the snapshot is left
out, so `NothingIsLeft` says nothing of it; nor of a descendant that left the process
group, which may live on.

*Installation.* A tree holds parts, not files: the files of a pack are one part and
one read, and so are the members of the core; an entry of the cache is absent, good or
damaged. Downloads, pack formats and probes are left out: their failure is
`PrepareFails`.

*Static analysis.* No edit restores an earlier version; execution ids are distinct;
`MaxEdits` is shared by the repository and what was reviewed. The report of a tool is
well formed or not (`CollectFails`). Authorisation of profiles is left out.

*Review and capture.* A fingerprint is injective; a write to a file is atomic; a Git
object or digest is its text. `strayed` marks that the fingerprinted diff was left and
restored while it was being collected.
Renames, numstat, redaction, truncation of wording and the detection of the base are
left out; the branch reference exists. HEAD is read once by a run and given to both of its
fingerprints, as in the code (`app.rs:1744`, `2182`); that the collected diff is of the same
HEAD is left to the revalidation that follows. A record costs one unit of the manifest's
bytes. Conflicts list two stages or more.

*Overlay and impact.* A name stands for a path: aliases and the modules that a name goes
through are left out, and a file always has a module (the `continue` at
`repository_index.rs:1048-1055`). A document's ranges are those of symbols: the checks of
edges (`contracts.rs:557-558`) and of the changed and unparsed ranges of units (`506-512`)
are left out of `RangesFit`. Rows come in any order, as identifiers are hashes; confidence,
modules, the generation byte budget and providers' names are left out; the deadline may
pass at any step (in the impact engine: before a file or while parsing it). How a file
parses is an input. Ranges keep their end. The byte-exact output size is counted in
records. Domain summaries, connected tests and the maxima of lists are left out.

*Not modelled at all:* the SQL, the Rust grammar and name resolution, the project model
(`Cargo.toml`), `inspect` of the cache and its doctor, path-safety checks and
permissions, argument parsing and rendering, redaction of secrets, `self-update`,
release workflows, the Python tools, fuzz targets and benches. They are pure
functions of data the models take as input, input and output only, or outside the
program.

## 9. What could come next

- The composition of `CandidateCapture` with `RepositoryCache`, in which the lookup of a
  stale generation (`ManifestIsOfItsLocator`) ends in an answer.
