--------------------------- MODULE CandidateCapture ---------------------------
(***************************************************************************)
(* What one invocation captures of a repository the user keeps editing:    *)
(* the candidate files of its scope (candidate/content.rs), the repository *)
(* manifest that a generation is built from (index/manifest.rs) and the    *)
(* snapshot the analyzers run on (candidate/snapshot.rs).  Each capture is *)
(* a sequence of git calls and of separate looks at each working-tree path *)
(* (lstat, stat, open, git diff), bounded by size, count and deadline, and *)
(* then one revalidation of the scope.  A write to a file is atomic, and a *)
(* Git object or a digest is the text it stands for.                       *)
(***************************************************************************)
EXTENDS Integers, FiniteSets, FiniteSetsExt, Functions

CONSTANTS
    Paths,           \* the tracked paths: numbers, in Git's order
    QueryFiles,      \* the paths content opens besides the units
    Bytes,           \* [texts -> Nat]; the text "none" stands for no text
    FirstTree,       \* [paths -> entries]: HEAD, index and disk at first
    BaseTree,        \* the merge base of a branch review
    Writes,          \* the entries the user may put on disk
    Kinds, ReviewSources, \* what this instance captures, and from where
    MaxChanged, MaxRecords, MaxRecordBytes, FileLimit, TotalLimit, ShotFiles, ShotBytes,
    EditedPaths,     \* bound: the paths the user touches
    MaxEdits         \* bound: edits of the repository and of the snapshot

Texts == DOMAIN Bytes \ {"none"}
Modes == {"file", "exec", "link", "gitlink", "unmerged"}
Absent == [mode |-> "none", text |-> "none"]
Entries == {Absent} \cup [mode : Modes, text : Texts]
Trees == [Paths -> Entries]

ASSUME CaptureAssumption ==
    /\ Paths \subseteq Nat /\ IsFiniteSet(Paths) /\ QueryFiles \cup EditedPaths \subseteq Paths
    /\ Bytes \in [DOMAIN Bytes -> Nat] /\ "none" \in DOMAIN Bytes /\ Bytes["none"] = 0
    /\ FirstTree \in Trees /\ BaseTree \in Trees /\ Writes \subseteq Entries
    /\ Kinds \subseteq {"review", "snapshot"} /\ ReviewSources \subseteq {"staged", "unstaged", "branch"}
    /\ {MaxChanged, MaxRecords, MaxRecordBytes, FileLimit, TotalLimit, ShotFiles, ShotBytes, MaxEdits}
         \subseteq Nat

VARIABLES
    head, commit,    \* the tree of HEAD, and which commit it is
    index, disk,
    edits, strayed,  \* strayed: an edit restored the scope that another had left
    late,            \* the invocation's deadline has passed
    job,             \* its kind, source, step, scope, queue of records, and the record in hand
    content,         \* GitCandidateContent
    manifest,        \* GitRepositoryManifestSource and its manifest
    shot             \* CandidateSnapshot

repo == <<head, commit, index, disk>>
vars == <<repo, edits, strayed, late, job, content, manifest, shot>>

-----------------------------------------------------------------------------
Nothing == [p \in {} |-> p]
Only(p, e) == [q \in {p} |-> e]
f ++ g == [p \in DOMAIN f \cup DOMAIN g |-> IF p \in DOMAIN f THEN f[p] ELSE g[p]]
(* The first n paths of a set, and the bytes of a tree. *)
First(n, set) == {p \in set : Cardinality({q \in set : q < p}) < n}
Total(size) == MapThenSumSet(LAMBDA p : size[p], DOMAIN size)
BytesOf(tree) == Total([p \in DOMAIN tree |-> Bytes[tree[p].text]])

Old(source) == CASE source = "staged" -> head [] source = "unstaged" -> index [] OTHER -> BaseTree
New(source) ==
    CASE source = "staged" -> index [] source = "branch" -> head
      [] OTHER -> [p \in Paths |-> IF index[p].mode = "none" THEN Absent ELSE disk[p]]
DiffOf(source) ==
    [p \in {q \in Paths : Old(source)[q] # New(source)[q]} |-> <<Old(source)[p], New(source)[p]>>]

(* The strict collection of a scope; what its fingerprint covers. *)
Scope(source) == [commit |-> commit, diff |-> DiffOf(source)]
NoScope == [commit |-> 0, diff |-> Nothing]
Drifted == job.scope # Scope(job.source)
Units == DOMAIN job.scope.diff
Deletions == {p \in Units : job.scope.diff[p][2].mode = "none"}

-----------------------------------------------------------------------------
(* One look at a working-tree path. *)
Listing(tree, wanted) == Restrict(tree, {p \in wanted : tree[p].mode # "none"})

GitTree == IF job.source = "branch" THEN head ELSE index
Conflicts(tree) == {p \in Paths : tree[p].mode = "unmerged"}

(* A directory (of a nested repository) carries executable bits. *)
UnstagedMode(p, mode) ==
    LET here == disk[p].mode IN
    IF mode = "gitlink" \/ here = "none" THEN mode
    ELSE IF here = "gitlink" THEN "exec" ELSE here

Gone == -1
Unreadable == -2
(* unstaged_path_size: a size, or an error; fs::metadata follows a link to wherever it leads. *)
SizeOutcomes(p, mode) ==
    LET here == disk[p].mode IN
    IF here = "none" THEN {Gone}
    ELSE IF mode = "link" THEN (IF here = "link" THEN {Bytes[disk[p].text]} ELSE {Unreadable})
    ELSE IF here = "link" THEN {Gone} \cup {Bytes[t] : t \in Texts} ELSE {Bytes[disk[p].text]}

Openable(p, mode) ==
    IF mode = "link" THEN disk[p].mode = "link" ELSE disk[p].mode \in {"file", "exec"}

(* Mutant: the size that stat reported is trusted, and the bytes read are not counted. *)
HashOf_Trusting(p, mode, total) ==
    IF late THEN "deadline"
    ELSE IF ~Openable(p, mode) THEN "unavailable" ELSE "hashed"

(* hash_unstaged_path_bounded: what it returns for the bytes it finds. *)
HashOf(p, mode, total) ==
    IF late THEN "deadline"
    ELSE IF ~Openable(p, mode) THEN "unavailable"
    ELSE IF Bytes[disk[p].text] > FileLimit THEN "file-bytes"
    ELSE IF Bytes[disk[p].text] > total THEN "total-bytes" ELSE "hashed"

-----------------------------------------------------------------------------
NoItem == [mode |-> "none", presence |-> "present", identity |-> "none"]
(* The histories: misled, the scope had moved before the capture was done; left and
   mended, what a verification found, and that something was put back under it. *)
NoContent == [files |-> Nothing, errors |-> Nothing, reserved |-> 0, reads |-> Nothing, misled |-> FALSE]
NoManifest == [tree |-> Nothing, index |-> Nothing, entries |-> Nothing, truncated |-> FALSE, bytes |-> 0,
               complete |-> FALSE, facts |-> Nothing, misled |-> FALSE]
NoShot == [tree |-> Nothing, bytes |-> 0, sealed |-> Nothing, loose |-> {}, extra |-> FALSE,
           unseen |-> {}, seen |-> Nothing, left |-> Nothing, mended |-> FALSE]

Init ==
    /\ head = FirstTree /\ index = FirstTree /\ disk = FirstTree /\ commit = 1
    /\ edits = 0 /\ strayed = FALSE /\ late = FALSE
    /\ \E kind \in Kinds, source \in ReviewSources :
         job = [kind |-> kind, source |-> source, step |-> "open", scope |-> NoScope, queue |-> Nothing, item |-> NoItem]
    /\ content = NoContent /\ manifest = NoManifest /\ shot = NoShot

(* The user. *)
Edited ==
    /\ job.step \notin {"released", "invalidated", "failed", "verified", "refused"}
    /\ edits < MaxEdits /\ edits' = edits + 1
    /\ UNCHANGED <<late, job, content, manifest, shot>>
    /\ strayed' = (strayed \/ (job.scope # NoScope /\ Drifted /\ job.scope = Scope(job.source)'))
WriteFile(p) ==
    /\ \E e \in Writes \ {disk[p]} : disk' = [disk EXCEPT ![p] = e]
    /\ UNCHANGED <<head, commit, index>> /\ Edited
StagePath(p) ==
    /\ index[p] # disk[p]
    /\ index' = [index EXCEPT ![p] = disk[p]]
    /\ UNCHANGED <<head, commit, disk>> /\ Edited
(* git checkout <tree> -- <path>, git rm: the index and the disk at once. *)
CheckoutPath(p) ==
    /\ index[p] = disk[p]
    /\ \E e \in Writes \ {disk[p]} : disk' = [disk EXCEPT ![p] = e] /\ index' = [index EXCEPT ![p] = e]
    /\ UNCHANGED <<head, commit>> /\ Edited
MergeConflict(p) ==
    /\ index[p].mode = "file"
    /\ index' = [index EXCEPT ![p].mode = "unmerged"]
    /\ UNCHANGED <<head, commit, disk>> /\ Edited
CommitIndex ==
    /\ index # head /\ Conflicts(index) = {}
    /\ head' = index /\ commit' = commit + 1
    /\ UNCHANGED <<index, disk>> /\ Edited
Expire ==
    /\ job.step \notin {"open", "released", "invalidated", "failed", "verified", "refused"} /\ job.kind = "review"
    /\ ~late /\ late' = TRUE
    /\ UNCHANGED <<repo, edits, strayed, job, content, manifest, shot>>

Mine == UNCHANGED <<repo, edits, strayed, late>>
Goto(step) == job' = [job EXCEPT !.step = step]
Fail == Goto("failed") /\ UNCHANGED <<content, manifest, shot>>

-----------------------------------------------------------------------------
(* GitCandidateContent::open_bounded *)
OpenScope ==
    /\ job.step = "open" /\ job.kind = "review" /\ Mine
    /\ job' = [job EXCEPT !.step = "list", !.scope = Scope(job.source)]
    /\ UNCHANGED <<content, manifest, shot>>

Requested == First(MaxChanged, Units)

After(queue, step, last) == IF queue = Nothing THEN last ELSE step
ListContent ==
    /\ job.step = "list" /\ Mine
    /\ LET stageZero == [p \in Paths |-> IF GitTree[p].mode = "unmerged" THEN Absent ELSE GitTree[p]]
           records == Listing(stageZero, Requested \cup QueryFiles)
       IN IF late THEN Fail
          ELSE /\ job' = [job EXCEPT !.queue = records, !.item = NoItem, !.step = After(records, "mode", "missing")]
               /\ content' = [content EXCEPT !.errors = [p \in Units \ Requested |-> "changed-files"]]
               /\ UNCHANGED <<manifest, shot>>

(* The record in hand is the first of the queue. *)
Path == Min(DOMAIN job.queue)
Record == job.queue[Path]
Erred(p) == p \in DOMAIN content.errors
ToStep(step, item) == job' = [job EXCEPT !.step = step, !.item = item]
PrepError(code) == content' = [content EXCEPT !.errors = @ ++ Only(Path, code)]

InspectMode ==
    /\ job.step = "mode" /\ Mine
    /\ ToStep("size", [NoItem EXCEPT !.mode = IF job.source = "unstaged" THEN UnstagedMode(Path, Record.mode) ELSE Record.mode])
    /\ UNCHANGED <<content, manifest, shot>>

(* A size that was learnt, against the limits. *)
SizeError(size) ==
    IF late THEN "deadline" ELSE IF size > FileLimit THEN "file-bytes"
    ELSE IF content.reserved + size > TotalLimit THEN "total-bytes" ELSE "none"

MeasureGit ==
    /\ job.step = "size" /\ job.source # "unstaged" /\ Mine
    /\ LET gitlink == job.item.mode = "gitlink"
           size == Bytes[Record.text]
           item == [job.item EXCEPT !.presence = IF gitlink THEN "gitlink" ELSE "present", !.identity = Record.text]
           limit == SizeError(size)
       IN /\ ToStep("ranges", item)
          /\ IF gitlink \/ Erred(Path) THEN UNCHANGED content
             ELSE IF limit = "none" THEN content' = [content EXCEPT !.reserved = @ + size]
             ELSE PrepError(limit)
    /\ UNCHANGED <<manifest, shot>>

MeasurePath ==
    /\ job.step = "size" /\ job.source = "unstaged" /\ Mine
    /\ UNCHANGED <<manifest, shot>>
    /\ IF job.item.mode = "gitlink"
       THEN ToStep("ranges", [job.item EXCEPT !.presence = "gitlink", !.identity = Record.text]) /\ UNCHANGED content
       ELSE \E outcome \in SizeOutcomes(Path, job.item.mode) :
              CASE outcome = Unreadable -> Goto("failed") /\ UNCHANGED content
                [] outcome = Gone -> ToStep("ranges", [job.item EXCEPT !.presence = "deleted"]) /\ UNCHANGED content
                [] OTHER -> IF Erred(Path) THEN Goto("ranges") /\ UNCHANGED content
                            ELSE IF SizeError(outcome) = "none" THEN Goto("hash") /\ UNCHANGED content
                            ELSE Goto("ranges") /\ PrepError(SizeError(outcome))

HashPath ==
    /\ job.step = "hash" /\ Mine
    /\ LET outcome == HashOf(Path, job.item.mode, TotalLimit - content.reserved)
           text == disk[Path].text
       IN IF outcome = "hashed"
          THEN /\ ToStep("ranges", [job.item EXCEPT !.identity = text])
               /\ content' = [content EXCEPT !.reserved = @ + Bytes[text]]
          ELSE Goto("ranges") /\ PrepError(outcome)
    /\ UNCHANGED <<manifest, shot>>

Change(p) == IF p \in DOMAIN DiffOf(job.source) THEN DiffOf(job.source)[p] ELSE Nothing
Keep(p, ranges, errors) ==
    content' = [content EXCEPT !.errors = errors,
                  !.files = @ ++ Only(p, [presence |-> job.item.presence, mode |-> job.item.mode,
                                        identity |-> job.item.identity, ranges |-> ranges])]
NextRecord(step, last) ==
    LET rest == Restrict(job.queue, DOMAIN job.queue \ {Path})
    IN job' = [job EXCEPT !.queue = rest, !.item = NoItem, !.step = After(rest, step, last)]

(* changed_ranges_bounded for a unit without an error; the deadline may pass in it. *)
MapRanges ==
    /\ job.step = "ranges"
    /\ UNCHANGED <<repo, edits, strayed, manifest, shot>>
    /\ LET p == Path
           wanted == p \in Units /\ ~Erred(p)
       IN \/ ~wanted /\ Keep(p, Nothing, content.errors) /\ NextRecord("mode", "missing") /\ UNCHANGED late
          \/ wanted /\ late /\ Goto("failed") /\ UNCHANGED <<content, late>>
          \/ wanted /\ ~late /\ Keep(p, Change(p), content.errors) /\ NextRecord("mode", "missing") /\ UNCHANGED late
          \/ wanted /\ ~late /\ Keep(p, Nothing, content.errors ++ Only(p, "deadline"))
               /\ NextRecord("mode", "missing") /\ late' = TRUE

(* The units that git did not list: deleted ones, and those that are not there. *)
AddMissing ==
    /\ job.step = "missing" /\ Mine
    /\ LET missing == Units \ DOMAIN content.files
           quiet == (missing \cap Deletions) \ DOMAIN content.errors
       IN content' = [content EXCEPT
            !.misled = strayed \/ Drifted,
            !.errors = @ ++ [p \in missing \ Deletions |-> "unavailable"],
            !.files = @ ++ [p \in missing |->
                [presence |-> IF p \in Deletions THEN "deleted" ELSE "present", mode |-> "none", identity |-> "none",
                 ranges |-> IF p \in quiet /\ ~late THEN Change(p) ELSE Nothing]]]
    /\ Goto("reading")
    /\ UNCHANGED <<manifest, shot>>

(* Mutant: an unstaged file is not compared with the digest of the capture. *)
ReadFinds_Anything(p) ==
    IF job.source = "unstaged"
    THEN IF Openable(p, content.files[p].mode) THEN disk[p].text ELSE "error"
    ELSE content.files[p].identity

(* CandidateContent::read_bounded: the text it returns, or an error. *)
ReadFinds(p) ==
    LET file == content.files[p] IN
    IF job.source # "unstaged" THEN file.identity
    ELSE IF Openable(p, file.mode) /\ disk[p].text = file.identity THEN disk[p].text ELSE "error"

ReadCandidate(p) ==
    /\ job.step = "reading" /\ Mine /\ ~late
    /\ p \in DOMAIN content.files /\ ~Erred(p) /\ content.files[p].presence = "present"
    /\ ReadFinds(p) # "error"
    /\ content' = [content EXCEPT !.reads = Only(p, ReadFinds(p)) ++ @]
    /\ UNCHANGED <<job, manifest, shot>>

-----------------------------------------------------------------------------
(* GitRepositoryManifestSource::new_bounded: two git calls make the locator. *)
ReadOpeningTree ==
    /\ job.step = "reading" /\ Mine
    /\ manifest' = [manifest EXCEPT !.tree = head]
    /\ IF late THEN Goto("failed") ELSE Goto("locator")
    /\ UNCHANGED <<content, shot>>
ReadLocator ==
    /\ job.step = "locator" /\ Mine
    /\ manifest' = [manifest EXCEPT !.index = IF job.source = "branch" THEN Nothing ELSE index]
    /\ IF late \/ (job.source # "branch" /\ Conflicts(index) # {}) THEN Goto("failed") ELSE Goto("manifest")
    /\ UNCHANGED <<content, shot>>

Completed(mode, presence, text) == [mode |-> mode, presence |-> presence, text |-> text, status |-> "completed"]
Limited(mode, status) == [mode |-> mode, presence |-> "present", text |-> "none", status |-> status]

(* ManifestFiles cuts the listing; ManifestBytes cuts it and names the path it cut at. *)
CutRecords(records) ==
    LET kept == First(Min({MaxRecords, MaxRecordBytes}), DOMAIN records)
        cut == Min(DOMAIN records \ kept)
    IN [kept |-> Restrict(records, kept), cut |-> kept # DOMAIN records,
        named |-> IF kept # DOMAIN records /\ MaxRecordBytes < MaxRecords
                  THEN Only(cut, Limited(records[cut].mode, "budget-exhausted")) ELSE Nothing]

DeletedRecords(records) ==
    records ++ [p \in (IF job.source = "staged" THEN Deletions \ DOMAIN records ELSE {}) |-> Absent]

(* read_git_blobs_batch_bounded: a blob fits if it does beside those kept before it. *)
Fitting(records) ==
    LET blobs == {p \in DOMAIN records : records[p].mode \notin {"none", "gitlink"}}
    IN CHOOSE kept \in SUBSET blobs : \A p \in blobs :
         p \in kept <=> LET size == Bytes[records[p].text]
                       IN size <= FileLimit /\ BytesOf(Restrict(records, {q \in kept : q < p})) + size <= TotalLimit

BlobEntry(record, fits) ==
    CASE record.mode = "none" -> Completed("none", "deleted", "none")
      [] record.mode = "gitlink" -> Completed("gitlink", "gitlink", "none")
      [] OTHER -> IF fits THEN Completed(record.mode, "present", record.text)
                  ELSE Limited(record.mode, "budget-exhausted")
BlobEntries(records) ==
    [entries |-> [p \in DOMAIN records |-> BlobEntry(records[p], p \in Fitting(records))],
     bytes |-> BytesOf(Restrict(records, Fitting(records)))]

ListManifest ==
    /\ job.step = "manifest" /\ Mine
    /\ LET listed == Listing(GitTree, Paths)
           records == CutRecords(DeletedRecords(listed))
           blobs == BlobEntries(records.kept)
       IN IF late \/ Conflicts(GitTree) # {} THEN Fail
          ELSE /\ UNCHANGED <<content, shot>>
               /\ IF job.source = "unstaged"
                  THEN /\ manifest' = [manifest EXCEPT !.truncated = records.cut, !.entries = records.named]
                       /\ job' = [job EXCEPT !.queue = records.kept, !.item = NoItem,
                                             !.step = After(records.kept, "entry-mode", "seal")]
                  ELSE /\ manifest' = [manifest EXCEPT !.truncated = records.cut, !.bytes = blobs.bytes,
                                                       !.entries = blobs.entries ++ records.named]
                       /\ Goto("seal")

InspectEntry ==
    /\ job.step = "entry-mode" /\ Mine
    /\ ToStep("entry-size", [NoItem EXCEPT !.mode = UnstagedMode(Path, Record.mode)])
    /\ UNCHANGED <<content, manifest, shot>>

Enter(entry, bytes) ==
    manifest' = [manifest EXCEPT !.entries = Only(Path, entry) ++ @, !.bytes = @ + bytes]
(* check_deadline after every entry. *)
NextEntry == IF late THEN Goto("failed") ELSE NextRecord("entry-mode", "seal")

MeasureEntry ==
    /\ job.step = "entry-size" /\ Mine
    /\ UNCHANGED <<content, shot>>
    /\ IF job.item.mode = "gitlink" THEN Enter(Completed("gitlink", "gitlink", "none"), 0) /\ NextEntry
       ELSE \E outcome \in SizeOutcomes(Path, job.item.mode) :
              CASE outcome = Gone -> Enter(Completed("none", "deleted", "none"), 0) /\ NextEntry
                [] outcome = Unreadable -> Enter(Limited(job.item.mode, "unavailable"), 0) /\ NextEntry
                [] OTHER -> Goto("entry-hash") /\ UNCHANGED manifest

HashEntry ==
    /\ job.step = "entry-hash" /\ Mine
    /\ LET outcome == HashOf(Path, job.item.mode, TotalLimit - manifest.bytes)
           text == disk[Path].text
       IN IF outcome = "hashed" THEN Enter(Completed(job.item.mode, "present", text), Bytes[text])
          ELSE Enter(Limited(job.item.mode, IF outcome = "unavailable" THEN outcome ELSE "budget-exhausted"), 0)
    /\ NextEntry
    /\ UNCHANGED <<content, shot>>

(* The manifest is complete when nothing was cut and every entry is; then validate_scope. *)
SealManifest ==
    /\ job.step = "seal" /\ Mine
    /\ manifest' = [manifest EXCEPT !.misled = strayed, !.complete = ~manifest.truncated
                      /\ \A p \in DOMAIN manifest.entries : manifest.entries[p].status = "completed"]
    /\ IF Drifted \/ late THEN Goto("failed") ELSE Goto("facts")
    /\ UNCHANGED <<content, shot>>

(* read_manifest_bytes, for one entry: the scope is validated, the path listed again,
   its mode looked at, its bytes read and compared, and the scope validated again. *)
Unread == {p \in DOMAIN manifest.entries \ DOMAIN manifest.facts : manifest.entries[p].text # "none"}
StartFact ==
    /\ job.step = "facts" /\ Unread # {} /\ Mine
    /\ IF Drifted \/ late THEN Goto("failed") ELSE Goto("fact-list")
    /\ UNCHANGED <<content, manifest, shot>>
ListFact(p) ==
    /\ job.step = "fact-list" /\ p \in Unread /\ Mine
    /\ IF GitTree[p].mode \in {"none", "unmerged", "gitlink"} THEN Goto("failed")
       ELSE job' = [job EXCEPT !.queue = Only(p, GitTree[p]), !.item = NoItem,
                               !.step = IF job.source = "unstaged" THEN "fact-mode" ELSE "fact-read"]
    /\ UNCHANGED <<content, manifest, shot>>
InspectFact ==
    /\ job.step = "fact-mode" /\ Mine
    /\ ToStep("fact-read", [NoItem EXCEPT !.mode = UnstagedMode(Path, Record.mode)])
    /\ UNCHANGED <<content, manifest, shot>>
ReadFact ==
    /\ job.step = "fact-read" /\ Mine
    /\ LET found == IF job.source # "unstaged" THEN Record.text
                    ELSE IF Openable(Path, job.item.mode) THEN disk[Path].text ELSE "none"
       IN IF found = manifest.entries[Path].text THEN ToStep("fact-check", [job.item EXCEPT !.identity = found])
          ELSE Goto("failed")
    /\ UNCHANGED <<content, manifest, shot>>
AcceptFact ==
    /\ job.step = "fact-check" /\ Mine
    /\ IF Drifted \/ late THEN Fail
       ELSE /\ manifest' = [manifest EXCEPT !.facts = @ ++ Only(Path, job.item.identity)]
            /\ Goto("facts")
            /\ UNCHANGED <<content, shot>>

(* Mutant: the answer is released without a last look at the repository. *)
Revalidate_Never ==
    /\ job.step \in {"reading", "facts"} /\ Mine
    /\ IF late THEN Goto("invalidated") ELSE Goto("released")
    /\ UNCHANGED <<content, manifest, shot>>

(* run_collect, run_index_build: the closing revalidation decides what is released. *)
Revalidate ==
    /\ job.step \in {"reading", "facts"} /\ Mine
    /\ IF Drifted \/ late THEN Goto("invalidated") ELSE Goto("released")
    /\ UNCHANGED <<content, manifest, shot>>

-----------------------------------------------------------------------------
(* CandidateSnapshot::materialize *)
Materialized(tree) == Restrict(tree, {p \in Paths : tree[p].mode \notin {"none", "gitlink"}})

ListSnapshot ==
    /\ job.step = "open" /\ job.kind = "snapshot" /\ Mine
    /\ LET listed == Listing(GitTree, Paths)
           blobs == Materialized(GitTree)
       IN IF job.source = "unstaged"
          THEN /\ job' = [job EXCEPT !.queue = listed, !.step = After(listed, "copy", "protect")]
               /\ UNCHANGED <<content, manifest, shot>>
          ELSE IF Conflicts(GitTree) # {} \/ Cardinality(DOMAIN blobs) > ShotFiles \/ BytesOf(blobs) > ShotBytes
          THEN Fail
          ELSE /\ shot' = [shot EXCEPT !.tree = blobs, !.bytes = BytesOf(blobs)]
               /\ Goto("protect")
               /\ UNCHANGED <<content, manifest>>

(* A path in conflict is listed twice, once for each side of the conflict. *)
NextTracked ==
    IF Record.mode = "unmerged"
    THEN job' = [job EXCEPT !.queue[Path].mode = "file", !.item = NoItem]
    ELSE NextRecord("copy", "protect")

(* symlink_metadata: what is gone or a directory is left out, the rest counts. *)
InspectTracked ==
    /\ job.step = "copy" /\ job.item = NoItem /\ Mine
    /\ LET here == disk[Path] IN
       IF here.mode \in {"none", "gitlink"} THEN NextTracked
       ELSE IF Cardinality(DOMAIN shot.tree) >= ShotFiles \/ (here.mode # "link" /\ Bytes[here.text] > ShotBytes - shot.bytes)
       THEN Goto("failed")
       ELSE ToStep("copy", [NoItem EXCEPT !.mode = here.mode])
    /\ UNCHANGED <<content, manifest, shot>>

(* create_new: the second listing of a path is refused. *)
Creatable(p) == p \notin DOMAIN shot.tree

(* copy_bounded, checked_snapshot_bytes: the bytes copied, not those that lstat promised. *)
CopyFits(text) == Bytes[text] <= ShotBytes - shot.bytes

(* read_link, or File::open, which follows a link that took the file's place. *)
CopyTracked ==
    /\ job.step = "copy" /\ job.item # NoItem /\ Mine
    /\ LET p == Path
           here == disk[p]
           readable == IF job.item.mode = "link" THEN here.mode = "link" ELSE here.mode \in {"file", "exec", "link"}
           texts == IF job.item.mode # "link" /\ here.mode = "link" THEN Texts ELSE {here.text}
       IN \E text \in texts :
            IF readable /\ CopyFits(text) /\ Creatable(p)
            THEN /\ shot' = [shot EXCEPT !.tree = @ ++ Only(p, [mode |-> job.item.mode, text |-> text]),
                                         !.bytes = @ + Bytes[text]]
                 /\ NextTracked
            ELSE Goto("failed") /\ UNCHANGED shot
    /\ UNCHANGED <<content, manifest>>

(* make_snapshot_read_only, snapshot_info: what the digest covers. *)
Digested == [tree |-> shot.tree, extra |-> shot.extra]
Protect ==
    /\ job.step = "protect" /\ Mine
    /\ shot' = [shot EXCEPT !.sealed = Digested, !.loose = {}]
    /\ Goto("sealed")
    /\ UNCHANGED <<content, manifest>>

(* What an analyzer, or a process it left behind, may do to the tree, before its verification
   and during it: make a file writable, change it, and protect it again. *)
Verifying == job.step \in {"walk", "digest"}
Tampered ==
    /\ (Verifying \/ job.step = "sealed") /\ edits < MaxEdits /\ edits' = edits + 1
    /\ UNCHANGED <<repo, strayed, late, job, content, manifest>>
Loosen(p) ==
    /\ p \in DOMAIN shot.tree \ shot.loose /\ shot.tree[p].mode # "link"
    /\ shot' = [shot EXCEPT !.loose = @ \cup {p}] /\ Tampered
Alter(p) ==
    /\ p \in shot.loose
    /\ \E e \in Writes :
         /\ e.mode \in {"file", "exec", "link"} /\ e # shot.tree[p]
         /\ shot' = [shot EXCEPT !.tree[p] = e, !.loose = @ \ {p},
                                 !.mended = @ \/ (Verifying /\ e = shot.sealed.tree[p])]
    /\ Tampered
AddDirectory ==
    /\ shot' = [shot EXCEPT !.extra = ~@, !.mended = @ \/ (Verifying /\ shot.extra # shot.sealed.extra)]
    /\ Tampered

(* verify_unchanged: verify_read_only walks the tree, and then snapshot_info walks it
   again; each looks at one entry after the other. *)
StartVerify ==
    /\ job.step = "sealed" /\ Mine
    /\ shot' = [shot EXCEPT !.left = Digested, !.unseen = DOMAIN shot.tree]
    /\ Goto("walk")
    /\ UNCHANGED <<content, manifest>>
InspectWritable(p) ==
    /\ job.step = "walk" /\ p \in shot.unseen /\ Mine
    /\ IF p \in shot.loose THEN Goto("refused") ELSE UNCHANGED job
    /\ shot' = [shot EXCEPT !.unseen = @ \ {p}]
    /\ UNCHANGED <<content, manifest>>
StartDigest ==
    /\ job.step = "walk" /\ shot.unseen = {} /\ Mine
    /\ shot' = [shot EXCEPT !.unseen = DOMAIN shot.tree,
                            !.seen = [tree |-> Nothing, extra |-> shot.extra, loose |-> {}]]
    /\ Goto("digest")
    /\ UNCHANGED <<content, manifest>>
HashSnapshot ==
    /\ job.step = "digest" /\ shot.unseen # {} /\ Mine
    /\ LET p == Min(shot.unseen)
       IN shot' = [shot EXCEPT !.unseen = @ \ {p}, !.seen.tree = @ ++ Only(p, shot.tree[p]),
                               !.seen.loose = @ \cup ({p} \cap shot.loose)]
    /\ UNCHANGED <<job, content, manifest>>

(* Mutant: the files and their modes are compared, but not what is in them. *)
Unchanged_ModesOnly ==
    [p \in DOMAIN shot.seen.tree |-> shot.seen.tree[p].mode] = [p \in DOMAIN shot.sealed.tree |-> shot.sealed.tree[p].mode]

(* What the second walk hashed, permissions included, is what the snapshot was sealed with. *)
Unchanged == shot.seen = [tree |-> shot.sealed.tree, extra |-> shot.sealed.extra, loose |-> {}]
CompareDigest ==
    /\ job.step = "digest" /\ shot.unseen = {} /\ Mine
    /\ IF Unchanged THEN Goto("verified") ELSE Goto("refused")
    /\ UNCHANGED <<content, manifest, shot>>

-----------------------------------------------------------------------------
Next ==
    \/ \E p \in EditedPaths : WriteFile(p) \/ StagePath(p) \/ CheckoutPath(p) \/ MergeConflict(p)
    \/ \E p \in Paths : ReadCandidate(p) \/ ListFact(p) \/ Loosen(p) \/ Alter(p) \/ InspectWritable(p)
    \/ CommitIndex \/ Expire \/ OpenScope \/ ListContent \/ InspectMode \/ MeasureGit \/ MeasurePath
    \/ HashPath \/ MapRanges \/ AddMissing \/ ReadOpeningTree \/ ReadLocator \/ ListManifest \/ InspectEntry
    \/ MeasureEntry \/ HashEntry \/ SealManifest \/ StartFact \/ InspectFact \/ ReadFact \/ AcceptFact
    \/ Revalidate \/ ListSnapshot \/ InspectTracked \/ CopyTracked
    \/ Protect \/ AddDirectory \/ StartVerify \/ StartDigest \/ HashSnapshot \/ CompareDigest

Spec == Init /\ [][Next]_vars

-----------------------------------------------------------------------------
(* What the captures promise. *)
Git == {"staged", "branch"}
Readable == {p \in DOMAIN content.files : content.files[p].presence = "present" /\ p \notin DOMAIN content.errors}

(* Every variable has its type, and what was counted is within its limit. *)
TypeOK ==
    /\ head \in Trees /\ index \in Trees /\ disk \in Trees /\ commit \in Nat
    /\ edits \in 0..MaxEdits /\ strayed \in BOOLEAN /\ late \in BOOLEAN
    /\ job.source \in ReviewSources /\ job.kind \in Kinds
    /\ DOMAIN content.files \cup DOMAIN content.errors \cup DOMAIN manifest.entries \cup DOMAIN shot.tree \subseteq Paths
    /\ content.reserved \in 0..TotalLimit /\ manifest.bytes \in 0..TotalLimit /\ shot.bytes \in 0..ShotBytes

(* What a released answer says of a changed file is what its scope says: the
   identity and the changed ranges were read by separate calls, at separate
   times, and the closing revalidation vouches for all of them. *)
ReleasedCaptureIsOfItsScope ==
    job.step = "released" /\ ~strayed =>
        \A p \in Units \cap DOMAIN content.files : p \notin DOMAIN content.errors =>
            LET file == content.files[p]
                new == job.scope.diff[p][2]
            IN /\ file.ranges = job.scope.diff[p]
               /\ file.presence = "present" => file.identity = new.text /\ file.mode = new.mode
               /\ file.presence = "deleted" => new.mode = "none"

(* A capture whose scope had not moved when it was done is read as that scope from then on:
   whatever the user writes, stages and commits meanwhile, an analysis or an index build gets
   the text of the scope for a changed file, or an error. *)
ReadsAreOfTheScope ==
    /\ ~content.misled =>
          \A p \in Units \cap DOMAIN content.reads : content.reads[p] = job.scope.diff[p][2].text
    /\ ~manifest.misled =>
          \A p \in Units \cap DOMAIN manifest.facts : manifest.facts[p] = job.scope.diff[p][2].text

(* No capture takes more than its limits allow, though files grow between the
   look at their size and the reading of their bytes. *)
BoundsHold ==
    /\ \A p \in Readable : Bytes[content.files[p].identity] <= FileLimit
    /\ Total([p \in Readable |-> Bytes[content.files[p].identity]]) <= TotalLimit
    /\ \A p \in DOMAIN manifest.entries : Bytes[manifest.entries[p].text] <= FileLimit
    /\ BytesOf(manifest.entries) <= TotalLimit
    /\ job.step \in {"copy", "protect"} =>
          BytesOf(shot.tree) <= ShotBytes /\ Cardinality(DOMAIN shot.tree) <= ShotFiles

(* A changed file is never silently left out: once the candidate is open every
   unit is listed, with an identity, a reason why there is none, or as gone. *)
OmissionIsDeclared ==
    job.kind = "review" /\ job.step \notin {"open", "list", "mode", "size", "hash", "ranges", "missing", "failed"} =>
        \A p \in Units :
            /\ p \in DOMAIN content.files
            /\ p \in DOMAIN content.errors \/ content.files[p].presence = "deleted" \/ content.files[p].identity # "none"

Located(p) == IF job.source = "branch" THEN manifest.tree[p] ELSE manifest.index[p]
(* A staged or a branch manifest holds the files of the index or the tree that
   its locator names, and all of them when it says it is complete. *)
GitManifestIsOfItsLocator ==
    job.step = "released" /\ job.source \in Git /\ ~strayed /\ manifest # NoManifest =>
        /\ \A p \in DOMAIN manifest.entries :
             /\ manifest.entries[p].presence = "present" /\ manifest.entries[p].status = "completed"
                  => manifest.entries[p].text = Located(p).text /\ manifest.entries[p].mode = Located(p).mode
             /\ manifest.entries[p].presence = "deleted" => Located(p).mode = "none"
        /\ manifest.complete => {p \in Paths : Located(p).mode # "none"} \subseteq DOMAIN manifest.entries

(* The same of an unstaged manifest, for the paths outside its diff: the design
   binds it to the exact stage-zero index manifest of its locator. False of the
   code: see Divergences in the README. *)
ManifestIsOfItsLocator ==
    job.step = "released" /\ job.source = "unstaged" /\ ~strayed =>
        \A p \in DOMAIN manifest.entries \ Units :
            manifest.entries[p].presence = "present" /\ manifest.entries[p].status = "completed"
                => manifest.entries[p].text = Located(p).text

(* A verification that passes has missed nothing an analyzer left changed: unless somebody
   puts an entry back while the two walks go on, what was there when they began is what was
   sealed - kinds, modes, texts and directories - whatever else is changed under them. *)
VerifiedIsAsSealed == job.step = "verified" /\ ~shot.mended => shot.left = shot.sealed

(* What is released is of the scope and of the locator it is filed under. *)
ReleasedIsOfItsScope == ReleasedCaptureIsOfItsScope /\ GitManifestIsOfItsLocator

(* What is read later is what was captured, in a candidate, a manifest and a
   snapshot alike. *)
BytesAreAsCaptured == ReadsAreOfTheScope /\ VerifiedIsAsSealed

(* Limits are kept, and what they keep out is told. *)
NothingIsCutSilently == TypeOK /\ BoundsHold /\ OmissionIsDeclared
=============================================================================
