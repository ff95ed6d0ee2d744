------------------------ MODULE CandidateCaptureProofs ------------------------
(***************************************************************************)
(* What CandidateCapture guarantees for any tracked paths, texts, limits   *)
(* and number of edits: what is released is of its scope, what is read     *)
(* later is what was captured, and no capture takes more than its limits.  *)
(*                                                                         *)
(* The separate looks of a capture are at whatever the repository shows by *)
(* then.  The invariant therefore says of a capture under way that IF its  *)
(* scope has stood still (Steady), what was looked at so far is of it; an  *)
(* edit can only end that, since an edit that restores the scope is told   *)
(* apart (strayed), and the closing revalidation discharges the IF.        *)
(***************************************************************************)
EXTENDS CandidateCapture, SequenceFolds, FiniteSetTheorems, TLAPS

(* The steps of a capture: while it prepares its files, while it enters a path
   in the manifest, while its facts are read, and once its candidate is open. *)
Preparing == {"mode", "size", "hash", "ranges"}
Entering == {"entry-mode", "entry-size", "entry-hash"}
Factual == {"facts", "fact-list", "fact-mode", "fact-read", "fact-check"}
Opened == {"reading", "locator", "manifest", "seal", "released", "invalidated"} \cup Entering \cup Factual

Records == [mode : Modes, text : Texts]

\* Trees whose texts have sizes.
Measured(tree) == DOMAIN tree \subseteq Paths /\ \A p \in DOMAIN tree : tree[p].text \in DOMAIN Bytes

QueueTyped == DOMAIN job.queue \subseteq Paths /\ \A p \in DOMAIN job.queue : job.queue[p] \in Records
CandidateTyped ==
    /\ DOMAIN content.files \cup DOMAIN content.errors \subseteq Paths /\ content.reserved \in 0..TotalLimit
    /\ \A p \in DOMAIN content.files : content.files[p].identity \in DOMAIN Bytes

\* The types that the counting needs, beyond TypeOK.
Typed ==
    /\ TypeOK /\ commit # 0
    /\ DOMAIN job = {"kind", "source", "step", "scope", "queue", "item"}
    /\ DOMAIN content = {"files", "errors", "reserved", "reads", "misled"}
    /\ DOMAIN manifest = {"tree", "index", "entries", "truncated", "bytes", "complete", "facts", "misled"}
    /\ DOMAIN shot = {"tree", "bytes", "sealed", "loose", "extra", "unseen", "seen", "left", "mended"}
    /\ QueueTyped /\ CandidateTyped
    /\ Units \subseteq Paths /\ \A p \in Units : job.scope.diff[p] \in Entries \X Entries
    /\ Measured(manifest.entries) /\ Measured(shot.tree)

\* What has been done, and what not yet, at each step.
Placed ==
    /\ job.kind = "review" =>
          /\ job.step \in {"open", "list", "missing", "failed"} \cup Preparing \cup Opened
          /\ shot = NoShot
          /\ job.step # "open" => job.scope.commit # 0
    /\ job.kind = "snapshot" =>
          /\ job.step \in {"open", "copy", "protect", "sealed", "walk", "digest", "verified", "refused", "failed"}
          /\ content = NoContent /\ manifest = NoManifest /\ job.scope = NoScope
    /\ job.step = "open" => job.scope = NoScope /\ shot = NoShot /\ job.item = NoItem
    /\ job.step \in {"open", "list"} => content = NoContent
    /\ job.step \in {"open", "list", "missing", "reading"} \cup Preparing => manifest = NoManifest
    /\ job.step \in {"locator", "manifest"} => manifest.entries = Nothing /\ manifest.bytes = 0
    /\ job.step \in {"locator", "manifest", "seal"} \cup Entering => manifest.facts = Nothing /\ ~manifest.complete
    /\ manifest.complete => ~manifest.truncated
    /\ job.step \in Preparing \cup {"missing"} => content.reads = Nothing
    /\ job.step \in Preparing \cup Entering \cup {"copy"} => DOMAIN job.queue # {}
    /\ job.step \in Preparing => DOMAIN job.queue \cap DOMAIN content.files = {}
    /\ job.step \in Entering => DOMAIN job.queue \cap DOMAIN manifest.entries = {}
    /\ job.step \in Entering \cup {"hash"} => job.source = "unstaged"

InHand == job.step = "ranges" /\ job.item.presence = "present" /\ ~Erred(Path)
Held == IF InHand THEN Bytes[job.item.identity] ELSE 0
ReadableOf(files, errors) == {p \in DOMAIN files : files[p].presence = "present" /\ p \notin DOMAIN errors}
Reserved(files, errors) == Total([p \in ReadableOf(files, errors) |-> Bytes[files[p].identity]])

\* The bytes of the files that can be read, and of the one in hand, were reserved;
\* what has neither an identity nor an error is gone.
Prepared ==
    /\ job.step \in {"size", "hash"} => job.item.mode \in Modes /\ job.item = [NoItem EXCEPT !.mode = job.item.mode]
    /\ job.step = "hash" => ~Erred(Path) /\ job.item.mode # "gitlink"
    /\ job.step = "ranges" =>
          /\ job.item.identity \in DOMAIN Bytes
          /\ Erred(Path) \/ job.item.presence = "deleted" \/ job.item.identity \in Texts
    /\ \A p \in DOMAIN content.files :
          p \in DOMAIN content.errors \/ content.files[p].presence = "deleted" \/ content.files[p].identity \in Texts
    /\ job.step \in Opened => Units \subseteq DOMAIN content.files
    /\ \A p \in Readable : Bytes[content.files[p].identity] <= FileLimit
    /\ Held <= FileLimit
    /\ Reserved(content.files, content.errors) + Held <= content.reserved

\* The same of the manifest ...
Manifested ==
    /\ \A p \in DOMAIN manifest.entries : Bytes[manifest.entries[p].text] <= FileLimit
    /\ BytesOf(manifest.entries) <= manifest.bytes

\* ... and of the snapshot, to its sealing.
Fits(tree) == BytesOf(tree) <= ShotBytes /\ Cardinality(DOMAIN tree) <= ShotFiles
Copied ==
    /\ job.step \in {"copy", "protect"} => BytesOf(shot.tree) <= shot.bytes /\ Fits(shot.tree)
    /\ job.step = "copy" /\ job.item # NoItem => Cardinality(DOMAIN shot.tree) < ShotFiles

\* The scope is what it was when the capture began, and always was.
Steady == ~Drifted /\ ~strayed

\* What a steady scope says of the record of a unit, and of the mode of its candidate.
Side(p) == job.scope.diff[p][2]
RecordOf(p) == IF job.source = "unstaged" THEN job.scope.diff[p][1] ELSE Side(p)
ModeOf(p) ==
    IF job.source # "unstaged" \/ RecordOf(p).mode = "gitlink" \/ Side(p).mode = "none" THEN RecordOf(p).mode
    ELSE IF Side(p).mode = "gitlink" THEN "exec" ELSE Side(p).mode

IsOf(file, change) ==
    /\ file.presence = "present" => file.identity = change[2].text /\ file.mode = change[2].mode
    /\ file.presence = "deleted" => change[2].mode = "none"

\* As long as the scope is steady, what was looked at so far is of it.
CandidateIsSteady ==
    /\ job.step \in Preparing => \A p \in DOMAIN job.queue \cap Units : job.queue[p] = RecordOf(p)
    /\ job.step \in {"size", "hash"} /\ Path \in Units => job.item.mode = ModeOf(Path)
    /\ job.step = "ranges" /\ Path \in Units /\ ~Erred(Path) => IsOf(job.item, job.scope.diff[Path])
    /\ ~late => \A p \in Units \cap DOMAIN content.files : p \notin DOMAIN content.errors =>
           content.files[p].ranges = job.scope.diff[p] /\ IsOf(content.files[p], job.scope.diff[p])

EntriesAreLocated ==
    /\ \A p \in DOMAIN manifest.entries :
          /\ manifest.entries[p].presence = "present" /\ manifest.entries[p].status = "completed"
                => manifest.entries[p].text = Located(p).text /\ manifest.entries[p].mode = Located(p).mode
          /\ manifest.entries[p].presence = "deleted" => Located(p).mode = "none"
    /\ ~manifest.truncated => {p \in Paths : Located(p).mode # "none"} \subseteq DOMAIN manifest.entries

ManifestIsSteady ==
    /\ job.step \in {"locator", "manifest"} => manifest.tree = head
    /\ job.step = "manifest" /\ job.source = "staged" => manifest.index = index
    /\ job.source \in Git /\ job.step \in {"seal"} \cup Factual => EntriesAreLocated
    /\ job.source \in Git /\ job.step = "released" => manifest = NoManifest \/ EntriesAreLocated

Faithful ==
    /\ Steady => CandidateIsSteady /\ ManifestIsSteady
    /\ job.step = "released" => ~late /\ ~Drifted

Inv == Typed /\ Placed /\ Prepared /\ Manifested /\ Copied /\ Faithful

-----------------------------------------------------------------------------
(* Sets of paths, the bytes of their texts, and the operators of the model *)

LEMMA PathSets ==
  ASSUME NEW s \in SUBSET Paths
  PROVE  IsFiniteSet(s) /\ s \subseteq Nat /\ Cardinality(s) \in Nat
<1>1. IsFiniteSet(s)
  BY CaptureAssumption, FS_Subset
<1> QED BY <1>1, CaptureAssumption, FS_CardinalityType

\* The first path of a queue that is not empty.
LEMMA FirstPath ==
  ASSUME NEW s \in SUBSET Paths, s # {}
  PROVE  Min(s) \in s
BY PathSets, HasLeast

\* Every text has a size, and no text has none.
LEMMA TextSizes == Bytes["none"] = 0 /\ \A t \in DOMAIN Bytes : Bytes[t] \in Nat
BY CaptureAssumption

LEMMA NothingDomain == DOMAIN Nothing = {} /\ \A f : DOMAIN f = {} /\ f = [p \in DOMAIN f |-> f[p]] => f = Nothing
BY DEF Nothing

\* What a function restricted to some paths holds, and when it holds none.
LEMMA RestrictFacts ==
  ASSUME NEW f, NEW s
  PROVE  /\ DOMAIN Restrict(f, s) = s
         /\ \A p \in s : Restrict(f, s)[p] = f[p]
         /\ Restrict(f, s) = Nothing <=> s = {}
<1>1. Restrict(f, s) = [p \in s |-> f[p]]
  BY DEF Restrict
<1>2. s = {} => Restrict(f, s) = Nothing
  BY <1>1 DEF Nothing
<1>3. DOMAIN Restrict(f, s) = s
  BY <1>1
<1> QED BY <1>1, <1>2, <1>3, NothingDomain

LEMMA AddFacts ==
  ASSUME NEW f, NEW p, NEW e
  PROVE  /\ DOMAIN (f ++ Only(p, e)) = DOMAIN f \cup {p} /\ DOMAIN (Only(p, e) ++ f) = DOMAIN f \cup {p}
         /\ \A q \in DOMAIN f : (f ++ Only(p, e))[q] = f[q]
         /\ p \notin DOMAIN f => (f ++ Only(p, e))[p] = e
         /\ (Only(p, e) ++ f)[p] = e
         /\ \A q \in DOMAIN f \ {p} : (Only(p, e) ++ f)[q] = f[q]
BY DEF ++, Only

LEMMA FirstIsPart ==
  ASSUME NEW n, NEW set
  PROVE  First(n, set) \subseteq set
BY DEF First

LEMMA MeasuredSizes ==
  ASSUME NEW tree, Measured(tree),
         NEW size, size = [p \in DOMAIN tree |-> Bytes[tree[p].text]]
  PROVE  /\ DOMAIN size = DOMAIN tree /\ IsFiniteSet(DOMAIN size) /\ \A p \in DOMAIN size : size[p] \in Nat
         /\ BytesOf(tree) = SumOf(size)
<1>1. DOMAIN tree \in SUBSET Paths
  BY DEF Measured
<1>2. IsFiniteSet(DOMAIN tree)
  BY <1>1, PathSets
<1>3. \A p \in DOMAIN size : size[p] \in Nat
  BY TextSizes DEF Measured
<1>4. BytesOf(tree) = SumOf(size)
  BY DEF BytesOf, Total, SumOf
<1> QED BY <1>2, <1>3, <1>4

LEMMA BytesOfMeasured ==
  ASSUME NEW tree, Measured(tree)
  PROVE  BytesOf(tree) \in Nat
<1> DEFINE size == [p \in DOMAIN tree |-> Bytes[tree[p].text]]
<1>1. /\ IsFiniteSet(DOMAIN size) /\ \A p \in DOMAIN size : size[p] \in Nat
      /\ BytesOf(tree) = SumOf(size)
  BY MeasuredSizes
<1> HIDE DEF size
<1> QED BY <1>1, SumIsNat

LEMMA BytesOfNothing ==
  ASSUME NEW tree, DOMAIN tree = {}
  PROVE  BytesOf(tree) = 0
<1> DEFINE size == [p \in DOMAIN tree |-> Bytes[tree[p].text]]
<1>1. BytesOf(tree) = SumOf(size)
  BY DEF BytesOf, Total, SumOf
<1>2. DOMAIN size = {}
  OBVIOUS
<1> HIDE DEF size
<1> QED BY <1>1, <1>2, SumOfNone

\* A path that was not there adds the bytes of its text.
LEMMA BytesGrow ==
  ASSUME NEW tree, Measured(tree), NEW p \in Paths \ DOMAIN tree,
         NEW more, DOMAIN more = DOMAIN tree \cup {p}, more[p].text \in DOMAIN Bytes,
         \A q \in DOMAIN tree : more[q].text = tree[q].text
  PROVE  Measured(more) /\ BytesOf(more) = Bytes[more[p].text] + BytesOf(tree)
<1> DEFINE size == [q \in DOMAIN more |-> Bytes[more[q].text]]
           rest == [q \in DOMAIN tree |-> Bytes[tree[q].text]]
<1>1. Measured(more)
  BY DEF Measured
<1>2. /\ DOMAIN size = DOMAIN more /\ IsFiniteSet(DOMAIN size) /\ (\A q \in DOMAIN size : size[q] \in Nat)
      /\ BytesOf(more) = SumOf(size)
  BY <1>1, MeasuredSizes
<1>3. DOMAIN rest = DOMAIN tree /\ BytesOf(tree) = SumOf(rest)
  BY MeasuredSizes
<1>4. p \in DOMAIN size /\ DOMAIN rest = DOMAIN size \ {p} /\ \A q \in DOMAIN rest : rest[q] = size[q]
  OBVIOUS
<1>5. size[p] = Bytes[more[p].text]
  OBVIOUS
<1> HIDE DEF size, rest
<1>6. SumOf(size) = size[p] + SumOf(rest) /\ SumOf(rest) \in Nat
  BY <1>2, <1>4, SumSplits
<1> QED BY <1>1, <1>2, <1>3, <1>5, <1>6

\* Paths without a text add nothing.
LEMMA BytesOfPart ==
  ASSUME NEW tree, Measured(tree), NEW part, DOMAIN part \subseteq DOMAIN tree,
         \A q \in DOMAIN part : part[q].text = tree[q].text,
         \A q \in DOMAIN tree \ DOMAIN part : tree[q].text = "none"
  PROVE  BytesOf(tree) = BytesOf(part)
<1> DEFINE size == [q \in DOMAIN tree |-> Bytes[tree[q].text]]
           rest == [q \in DOMAIN part |-> Bytes[part[q].text]]
<1>1. /\ IsFiniteSet(DOMAIN size) /\ (\A q \in DOMAIN size : size[q] \in Nat)
      /\ BytesOf(tree) = SumOf(size)
  BY MeasuredSizes
<1>2. BytesOf(part) = SumOf(rest)
  BY DEF BytesOf, Total, SumOf
<1>3. /\ DOMAIN rest \subseteq DOMAIN size /\ (\A q \in DOMAIN rest : rest[q] = size[q])
      /\ \A q \in DOMAIN size \ DOMAIN rest : size[q] = 0
  BY TextSizes
<1> HIDE DEF size, rest
<1>4. SumOf(size) = SumOf(rest)
  BY <1>1, <1>3, SumOfPart
<1> QED BY <1>1, <1>2, <1>4

-----------------------------------------------------------------------------
(* The blobs that fit: there is such a choice, and they fit together *)

Room(records, kept, p) ==
  LET size == Bytes[records[p].text]
  IN size <= FileLimit /\ BytesOf(Restrict(records, {q \in kept : q < p})) + size <= TotalLimit

LEMMA RoomIsOfThoseBefore ==
  ASSUME NEW records, NEW p, NEW kept, NEW other, {q \in kept : q < p} = {q \in other : q < p}
  PROVE  Room(records, kept, p) <=> Room(records, other, p)
BY DEF Room

\* One path after the other, each as those before it leave it room.
LEMMA FittingExists ==
  ASSUME NEW records, NEW blobs \in SUBSET Paths
  PROVE  \E kept \in SUBSET blobs : \A p \in blobs : p \in kept <=> Room(records, kept, p)
<1> DEFINE Chosen(n, kept) == \A p \in blobs : p < n => (p \in kept <=> Room(records, kept, p))
           T == {n \in Nat : \E kept \in SUBSET blobs : Chosen(n, kept)}
<1>1. IsFiniteSet(blobs) /\ blobs \subseteq Nat
  BY PathSets
<1>2. 0 \in T
  <2>1. Chosen(0, {}) /\ {} \in SUBSET blobs
    BY <1>1
  <2> HIDE DEF Chosen
  <2> QED BY <2>1
<1>3. ASSUME NEW n \in Nat, n \in T PROVE n + 1 \in T
  <2>1. PICK kept \in SUBSET blobs : Chosen(n, kept)
    BY <1>3
  <2> DEFINE more == {q \in kept : q < n} \cup {q \in blobs : q = n /\ Room(records, kept, n)}
  <2>2. more \in SUBSET blobs
    OBVIOUS
  <2>3. ASSUME NEW p \in blobs, p < n + 1 PROVE p \in more <=> Room(records, more, p)
    <3>1. {q \in more : q < p} = {q \in kept : q < p}
      <4>1. ASSUME NEW q \in blobs, q < p PROVE q \in more <=> q \in kept
        <5>1. q \in Nat /\ p \in Nat
          BY <1>1
        <5>2. q < n
          BY <2>3, <4>1, <5>1
        <5>3. q # n
          BY <5>1, <5>2
        <5> QED BY <5>2, <5>3
      <4> HIDE DEF more
      <4> QED BY <2>2, <4>1
    <3>2. Room(records, more, p) <=> Room(records, kept, p)
      BY <3>1, RoomIsOfThoseBefore
    <3>3. CASE p < n
      <4>1. p \in more <=> p \in kept
        BY <1>1, <3>3
      <4> QED BY <2>1, <3>2, <3>3, <4>1
    <3>4. CASE p = n
      <4>1. p \in more <=> Room(records, kept, n)
        BY <1>1, <3>4
      <4> QED BY <3>2, <3>4, <4>1
    <3> QED BY <1>1, <2>3, <3>3, <3>4
  <2>4. Chosen(n + 1, more)
    BY <2>3
  <2> HIDE DEF more, Chosen
  <2> QED BY <2>2, <2>4
<1>4. Nat \subseteq T
  <2> HIDE DEF T
  <2> QED BY <1>2, <1>3, SetInduction
<1>5. \E n \in Nat : \A p \in blobs : p < n
  <2>1. CASE blobs = {}
    BY <2>1
  <2>2. CASE blobs # {}
    <3>1. PICK m \in blobs : \A p \in blobs : p <= m
      BY <1>1, <2>2, HasGreatest
    <3>2. m + 1 \in Nat /\ \A p \in blobs : p < m + 1
      BY <1>1, <3>1
    <3> QED BY <3>2
  <2> QED BY <2>1, <2>2
<1>6. PICK n \in Nat : \A p \in blobs : p < n
  BY <1>5
<1>7. PICK kept \in SUBSET blobs : Chosen(n, kept)
  BY <1>4, <1>6
<1> QED BY <1>6, <1>7

LEMMA FittingFits ==
  ASSUME NEW records, Measured(records)
  PROVE  /\ Fitting(records) \subseteq {p \in DOMAIN records : records[p].mode \notin {"none", "gitlink"}}
         /\ \A p \in Fitting(records) : Bytes[records[p].text] <= FileLimit
         /\ Measured(Restrict(records, Fitting(records)))
         /\ BytesOf(Restrict(records, Fitting(records))) <= TotalLimit
<1> DEFINE blobs == {p \in DOMAIN records : records[p].mode \notin {"none", "gitlink"}}
           kept == Fitting(records)
           tree == Restrict(records, kept)
<1>1. blobs \in SUBSET Paths
  BY DEF Measured
<1>2. kept = CHOOSE k \in SUBSET blobs : \A p \in blobs : p \in k <=> Room(records, k, p)
  BY DEF Fitting, Room
<1> HIDE DEF kept, blobs
<1>3. kept \in SUBSET blobs /\ \A p \in blobs : p \in kept <=> Room(records, kept, p)
  BY <1>1, <1>2, FittingExists
<1>4. \A p \in kept : Bytes[records[p].text] <= FileLimit
  BY <1>3 DEF Room
<1>5. DOMAIN tree = kept /\ \A p \in kept : tree[p] = records[p]
  BY RestrictFacts
<1>6. Measured(tree)
  <2>1. kept \subseteq DOMAIN records
    BY <1>3 DEF blobs
  <2> HIDE DEF tree
  <2> QED BY <1>5, <2>1 DEF Measured
<1>7. BytesOf(tree) <= TotalLimit
  <2>1. CASE kept = {}
    BY <1>5, <2>1, BytesOfNothing, CaptureAssumption
  <2>2. CASE kept # {}
    <3>1. kept \in SUBSET Paths
      BY <1>1, <1>3
    <3>2. PICK m \in kept : \A p \in kept : p <= m
      BY <2>2, <3>1, PathSets, HasGreatest
    <3> DEFINE before == {q \in kept : q < m}
               rest == Restrict(records, before)
    <3>3. BytesOf(rest) + Bytes[records[m].text] <= TotalLimit
      BY <1>3, <3>2 DEF Room
    <3>4. DOMAIN rest = before /\ \A p \in before : rest[p] = records[p]
      BY RestrictFacts
    <3>5. before = kept \ {m}
      BY <3>1, <3>2, PathSets
    <3> HIDE DEF rest, before, tree
    <3>6. Measured(rest)
      BY <1>5, <1>6, <3>4, <3>5 DEF Measured
    <3>7. BytesOf(tree) = Bytes[tree[m].text] + BytesOf(rest)
      <4>1. m \in Paths \ DOMAIN rest /\ DOMAIN tree = DOMAIN rest \cup {m} /\ tree[m].text \in DOMAIN Bytes
        BY <1>5, <1>6, <3>1, <3>2, <3>4, <3>5 DEF Measured
      <4>2. \A q \in DOMAIN rest : tree[q].text = rest[q].text
        BY <1>5, <3>4, <3>5
      <4> QED BY <3>6, <4>1, <4>2, BytesGrow
    <3>8. tree[m] = records[m] /\ Bytes[tree[m].text] \in Nat /\ BytesOf(rest) \in Nat
      BY <1>5, <1>6, <3>2, <3>6, BytesOfMeasured, TextSizes DEF Measured
    <3> QED BY <3>3, <3>7, <3>8
  <2> QED BY <2>1, <2>2
<1> QED BY <1>3, <1>4, <1>6, <1>7 DEF kept, blobs

-----------------------------------------------------------------------------
(* The bytes of the files that can be read *)

LEMMA ReservedSizes ==
  ASSUME NEW files, DOMAIN files \subseteq Paths, \A p \in DOMAIN files : files[p].identity \in DOMAIN Bytes,
         NEW errors, NEW size, size = [p \in ReadableOf(files, errors) |-> Bytes[files[p].identity]]
  PROVE  /\ IsFiniteSet(DOMAIN size) /\ (\A p \in DOMAIN size : size[p] \in Nat)
         /\ Reserved(files, errors) = SumOf(size)
<1>1. DOMAIN size \in SUBSET Paths
  BY DEF ReadableOf
<1>2. \A p \in DOMAIN size : size[p] \in Nat
  BY TextSizes DEF ReadableOf
<1>3. Reserved(files, errors) = SumOf(size)
  BY DEF Reserved, Total, SumOf
<1> QED BY <1>1, <1>2, <1>3, PathSets

LEMMA ReservedIsNat ==
  ASSUME NEW files, DOMAIN files \subseteq Paths, \A p \in DOMAIN files : files[p].identity \in DOMAIN Bytes,
         NEW errors
  PROVE  Reserved(files, errors) \in Nat
<1> DEFINE size == [p \in ReadableOf(files, errors) |-> Bytes[files[p].identity]]
<1>1. /\ IsFiniteSet(DOMAIN size) /\ (\A p \in DOMAIN size : size[p] \in Nat)
      /\ Reserved(files, errors) = SumOf(size)
  BY ReservedSizes
<1> HIDE DEF size
<1> QED BY <1>1, SumIsNat

LEMMA ReservedOfNone ==
  ASSUME NEW files, NEW errors, ReadableOf(files, errors) = {}
  PROVE  Reserved(files, errors) = 0
<1> DEFINE size == [p \in ReadableOf(files, errors) |-> Bytes[files[p].identity]]
<1>1. DOMAIN size = {} /\ Reserved(files, errors) = SumOf(size)
  BY DEF Reserved, Total, SumOf
<1> HIDE DEF size
<1> QED BY <1>1, SumOfNone

\* The sum is of what can be read, and of nothing else.
LEMMA ReservedSame ==
  ASSUME NEW files, NEW errors, NEW others, NEW faults,
         ReadableOf(others, faults) = ReadableOf(files, errors),
         \A p \in ReadableOf(files, errors) : others[p].identity = files[p].identity
  PROVE  Reserved(others, faults) = Reserved(files, errors)
<1>1. [p \in ReadableOf(others, faults) |-> Bytes[others[p].identity]]
        = [p \in ReadableOf(files, errors) |-> Bytes[files[p].identity]]
  OBVIOUS
<1> QED BY <1>1 DEF Reserved

LEMMA ReservedGrows ==
  ASSUME NEW files, DOMAIN files \subseteq Paths, \A p \in DOMAIN files : files[p].identity \in DOMAIN Bytes,
         NEW errors, NEW p \in Paths \ DOMAIN files, p \notin DOMAIN errors,
         NEW more, DOMAIN more = DOMAIN files \cup {p}, \A q \in DOMAIN files : more[q] = files[q],
         more[p].presence = "present", more[p].identity \in DOMAIN Bytes
  PROVE  Reserved(more, errors) = Bytes[more[p].identity] + Reserved(files, errors)
<1> DEFINE size == [q \in ReadableOf(more, errors) |-> Bytes[more[q].identity]]
           rest == [q \in ReadableOf(files, errors) |-> Bytes[files[q].identity]]
<1>1. /\ IsFiniteSet(DOMAIN size) /\ (\A q \in DOMAIN size : size[q] \in Nat)
      /\ Reserved(more, errors) = SumOf(size)
  BY ReservedSizes
<1>2. Reserved(files, errors) = SumOf(rest)
  BY ReservedSizes
<1>3. ReadableOf(more, errors) = ReadableOf(files, errors) \cup {p} /\ p \notin ReadableOf(files, errors)
  BY DEF ReadableOf
<1>4. p \in DOMAIN size /\ DOMAIN rest = DOMAIN size \ {p}
  BY <1>3
<1>5. \A q \in DOMAIN rest : rest[q] = size[q]
  BY <1>3 DEF ReadableOf
<1>6. size[p] = Bytes[more[p].identity]
  BY <1>3
<1> HIDE DEF size, rest
<1>7. SumOf(size) = size[p] + SumOf(rest) /\ SumOf(rest) \in Nat
  BY <1>1, <1>4, <1>5, SumSplits
<1> QED BY <1>1, <1>2, <1>6, <1>7

-----------------------------------------------------------------------------
(* Scopes and what a step leaves alone *)

LEMMA EntryFacts ==
  ASSUME NEW e \in Entries
  PROVE  /\ e.text \in DOMAIN Bytes /\ e.mode \in Modes \cup {"none"}
         /\ e.mode # "none" => e \in Records
         /\ e.mode = "none" => e = Absent
BY CaptureAssumption DEF Entries, Absent, Texts, Modes, Records

LEMMA SourceTrees ==
  ASSUME TypeOK, NEW source
  PROVE  Old(source) \in Trees /\ New(source) \in Trees
<1>1. Old(source) \in Trees
  BY CaptureAssumption DEF Old, TypeOK
<1>2. Absent \in Entries
  BY DEF Entries
<1>3. [p \in Paths |-> IF index[p].mode = "none" THEN Absent ELSE disk[p]] \in Trees
  BY <1>2 DEF Trees, TypeOK
<1>4. New(source) \in Trees
  BY <1>3 DEF New, TypeOK
<1> QED BY <1>1, <1>4

LEMMA DiffFacts ==
  ASSUME TypeOK, NEW source
  PROVE  /\ DOMAIN DiffOf(source) \subseteq Paths
         /\ \A p \in DOMAIN DiffOf(source) :
              DiffOf(source)[p] = <<Old(source)[p], New(source)[p]>> /\ DiffOf(source)[p] \in Entries \X Entries
         /\ \A p \in Paths \ DOMAIN DiffOf(source) : Old(source)[p] = New(source)[p]
<1>1. Old(source) \in [Paths -> Entries] /\ New(source) \in [Paths -> Entries]
  BY SourceTrees DEF Trees
<1> DEFINE old == Old(source)  new == New(source)
<1>2. DiffOf(source) = [p \in {q \in Paths : old[q] # new[q]} |-> <<old[p], new[p]>>]
  BY DEF DiffOf
<1> HIDE DEF old, new
<1> QED BY <1>1, <1>2 DEF old, new

\* Nobody touches the repository, and the job keeps its kind, source and scope.
Still ==
  /\ head' = head /\ commit' = commit /\ index' = index /\ disk' = disk /\ strayed' = strayed
  /\ job'.kind = job.kind /\ job'.source = job.source /\ job'.scope = job.scope

LEMMA StillSteady ==
  ASSUME Still
  PROVE  (Steady' <=> Steady) /\ (Drifted' <=> Drifted) /\ Units' = Units
BY DEF Still, Steady, Drifted, Scope, DiffOf, Old, New, Units

\* A scope that has not drifted is what the repository shows.
LEMMA SteadyScope ==
  ASSUME Typed, ~Drifted
  PROVE  /\ job.scope.commit = commit /\ Units = DOMAIN DiffOf(job.source)
         /\ \A p \in Units : job.scope.diff[p] = <<Old(job.source)[p], New(job.source)[p]>>
<1>1. job.scope = [commit |-> commit, diff |-> DiffOf(job.source)]
  BY DEF Drifted, Scope
<1>2. job.scope.commit = commit /\ job.scope.diff = DiffOf(job.source)
  BY <1>1
<1> QED BY <1>2, DiffFacts DEF Typed, Units

LEMMA HeldIsNat ==
  ASSUME Typed, Prepared
  PROVE  Held \in Nat /\ Reserved(content.files, content.errors) \in Nat /\ content.reserved \in Nat
<1>1. Held \in Nat
  <2>1. CASE InHand
    BY <2>1, TextSizes DEF Held, InHand, Prepared
  <2>2. CASE ~InHand
    BY <2>2 DEF Held
  <2> QED BY <2>1, <2>2
<1>2. Reserved(content.files, content.errors) \in Nat
  BY ReservedIsNat DEF Typed, CandidateTyped
<1>3. content.reserved \in Nat
  BY CaptureAssumption DEF Typed, CandidateTyped
<1> QED BY <1>1, <1>2, <1>3

\* What a step that leaves the candidate alone keeps of it.
LEMMA PreparedKept ==
  ASSUME Typed, Prepared, content' = content, job'.scope = job.scope, job'.step \notin Preparing,
         job'.step \in Opened => job.step \in Opened
  PROVE  Prepared'
<1>1. ~InHand' /\ Held' = 0
  BY DEF InHand, Held, Preparing
<1>2. Units' = Units
  BY DEF Units
<1>3. Reserved(content.files, content.errors)' + Held' <= content'.reserved
  <2> DEFINE total == Reserved(content.files, content.errors)  reserved == content.reserved
  <2>1. total + Held <= reserved /\ total \in Nat /\ Held \in Nat /\ reserved \in Nat
    BY HeldIsNat DEF Prepared
  <2>2. Reserved(content.files, content.errors)' = total /\ content'.reserved = reserved
    OBVIOUS
  <2> HIDE DEF total, reserved
  <2> QED BY <2>1, <2>2, <1>1
<1>4. Held' <= FileLimit
  BY <1>1, CaptureAssumption
<1>5. \A p \in Readable' : Bytes[content'.files[p].identity] <= FileLimit
  BY DEF Prepared, Readable
<1> QED BY <1>1, <1>2, <1>3, <1>4, <1>5 DEF Prepared, Preparing

LEMMA CandidateKept ==
  ASSUME CandidateIsSteady, content' = content, late => late', job'.scope = job.scope,
         job'.step \notin Preparing
  PROVE  CandidateIsSteady'
BY DEF CandidateIsSteady, Preparing, Units, IsOf

LEMMA SnapshotKept ==
  ASSUME Placed', job'.kind = "review"
  PROVE  Copied'
BY DEF Placed, Copied, Preparing, Opened, Factual, Entering

LEMMA CaptureKept ==
  ASSUME Typed', Placed', job'.kind = "snapshot"
  PROVE  Prepared' /\ Manifested' /\ Faithful'
<1>1. /\ job'.step \in {"open", "copy", "protect", "sealed", "walk", "digest", "verified", "refused", "failed"}
      /\ content' = NoContent /\ manifest' = NoManifest /\ job'.scope = NoScope
  BY DEF Placed
<1>2. /\ content'.files = Nothing /\ content'.errors = Nothing /\ content'.reserved = 0 /\ content'.reads = Nothing
      /\ manifest'.entries = Nothing /\ manifest'.bytes = 0 /\ manifest'.facts = Nothing
      /\ job'.scope.commit = 0 /\ job'.scope.diff = Nothing
  BY <1>1 DEF NoContent, NoManifest, NoScope
<1>3. Prepared'
  <2>1. ~InHand' /\ Held' = 0
    BY <1>1 DEF InHand, Held
  <2>2. ReadableOf(content'.files, content'.errors) = {}
    BY <1>2, NothingDomain DEF ReadableOf
  <2>3. Reserved(content'.files, content'.errors) = 0
    BY <2>2, ReservedOfNone
  <2>4. 0 <= FileLimit
    BY CaptureAssumption
  <2> QED BY <1>1, <1>2, <2>1, <2>3, <2>4, NothingDomain DEF Prepared, Readable, Opened, Factual, Entering
<1>4. Manifested'
  BY <1>2, NothingDomain, BytesOfNothing DEF Manifested
<1>6. Drifted'
  BY <1>2 DEF Drifted, Scope, Typed
<1>7. Faithful'
  BY <1>1, <1>6 DEF Faithful, Steady
<1> QED BY <1>3, <1>4, <1>7

-----------------------------------------------------------------------------
(* The user and the clock *)

\* An edit keeps the job; if the scope still stands, it stood before, and so did what it names.
LEMMA EditedSteady ==
  ASSUME Typed, Placed, Typed', Edited, Steady', head' # head => commit' # commit
  PROVE  /\ Steady /\ head' = head
         /\ job.source = "staged" => index' = index
<1>1. job' = job
  BY DEF Edited
<1>2. ~Drifted
  <2> SUFFICES ASSUME Drifted PROVE FALSE
    OBVIOUS
  <2>1. job.scope = Scope(job.source)'
    BY <1>1 DEF Steady, Drifted
  <2>2. job.scope # NoScope
    BY <2>1 DEF Scope, NoScope, Typed
  <2> QED BY <2>1, <2>2 DEF Edited, Steady
<1>3. ~strayed
  BY DEF Edited, Steady
<1>4. Scope(job.source)' = Scope(job.source)
  BY <1>1, <1>2 DEF Steady, Drifted
<1>5. commit' = commit /\ DiffOf(job.source)' = DiffOf(job.source)
  BY <1>4 DEF Scope
<1>6. head' = head
  BY <1>5
<1>7. ASSUME job.source = "staged" PROVE index' = index
  <2>1. index \in [Paths -> Entries] /\ index' \in [Paths -> Entries]
    BY DEF Typed, TypeOK, Trees
  <2>2. DiffOf("staged") = [p \in {q \in Paths : head[q] # index[q]} |-> <<head[p], index[p]>>]
    BY DEF DiffOf, Old, New
  <2>3. DiffOf("staged")' = [p \in {q \in Paths : head'[q] # index'[q]} |-> <<head'[p], index'[p]>>]
    BY DEF DiffOf, Old, New
  <2>4. DiffOf("staged")' = DiffOf("staged")
    BY <1>1, <1>5, <1>7 DEF DiffOf, Old, New
  <2>5. {q \in Paths : head[q] # index'[q]} = {q \in Paths : head[q] # index[q]}
    BY <2>2, <2>3, <2>4, <1>6
  <2>6. ASSUME NEW q \in Paths PROVE index'[q] = index[q]
    <3>1. CASE head[q] = index[q]
      BY <2>5, <3>1
    <3>2. CASE head[q] # index[q]
      <4>1. DiffOf("staged")'[q] = <<head[q], index'[q]>>
        BY <2>3, <2>5, <3>2, <1>6
      <4>2. DiffOf("staged")[q] = <<head[q], index[q]>>
        BY <2>2, <3>2
      <4> QED BY <4>1, <4>2, <2>4
    <3> QED BY <3>1, <3>2
  <2> QED BY <2>1, <2>6
<1> QED BY <1>2, <1>3, <1>6, <1>7 DEF Steady

\* What an edit does to the repository.
Edits ==
  \/ \E p \in EditedPaths : WriteFile(p) \/ StagePath(p) \/ CheckoutPath(p) \/ MergeConflict(p)
  \/ CommitIndex

LEMMA EditTyped ==
  ASSUME Typed, Edits
  PROVE  /\ Edited /\ (head' # head => commit' # commit)
         /\ head' \in Trees /\ index' \in Trees /\ disk' \in Trees /\ commit' \in Nat \ {0}
<1>1. head \in Trees /\ index \in Trees /\ disk \in Trees /\ commit \in Nat \ {0}
  BY DEF Typed, TypeOK
<1>2. EditedPaths \subseteq Paths /\ Writes \subseteq Entries
  BY CaptureAssumption
<1>3. ASSUME NEW p \in EditedPaths, WriteFile(p) PROVE disk' \in Trees /\ UNCHANGED <<head, commit, index>> /\ Edited
  BY <1>1, <1>2, <1>3 DEF WriteFile, Trees
<1>4. ASSUME NEW p \in EditedPaths, StagePath(p) PROVE index' \in Trees /\ UNCHANGED <<head, commit, disk>> /\ Edited
  BY <1>1, <1>2, <1>4 DEF StagePath, Trees
<1>5. ASSUME NEW p \in EditedPaths, CheckoutPath(p)
      PROVE  disk' \in Trees /\ index' \in Trees /\ UNCHANGED <<head, commit>> /\ Edited
  BY <1>1, <1>2, <1>5 DEF CheckoutPath, Trees
<1>6. ASSUME NEW p \in EditedPaths, MergeConflict(p) PROVE index' \in Trees /\ UNCHANGED <<head, commit, disk>> /\ Edited
  <2>1. index[p] \in Entries /\ index[p].mode = "file" /\ index' = [index EXCEPT ![p].mode = "unmerged"]
    BY <1>1, <1>2, <1>6 DEF MergeConflict, Trees
  <2>2. index[p] \in [mode : Modes, text : Texts]
    BY <2>1 DEF Entries, Absent
  <2>3. [index[p] EXCEPT !.mode = "unmerged"] \in Entries
    BY <2>2 DEF Entries, Modes
  <2>4. index' = [index EXCEPT ![p] = [index[p] EXCEPT !.mode = "unmerged"]]
    BY <2>1
  <2> QED BY <1>1, <1>6, <2>3, <2>4 DEF MergeConflict, Trees
<1>7. ASSUME CommitIndex PROVE head' = index /\ commit' = commit + 1 /\ UNCHANGED <<index, disk>> /\ Edited
  BY <1>7 DEF CommitIndex
<1>8. CASE CommitIndex
  BY <1>1, <1>7, <1>8
<1>9. CASE \E p \in EditedPaths : WriteFile(p) \/ StagePath(p) \/ CheckoutPath(p) \/ MergeConflict(p)
  <2>1. PICK p \in EditedPaths : WriteFile(p) \/ StagePath(p) \/ CheckoutPath(p) \/ MergeConflict(p)
    BY <1>9
  <2> QED BY <1>1, <2>1, <1>3, <1>4, <1>5, <1>6
<1> QED BY <1>8, <1>9 DEF Edits

LEMMA EditSafe ==
  ASSUME Inv, Edits
  PROVE  Inv'
<1> USE DEF Inv
<1>1. /\ Edited /\ (head' # head => commit' # commit)
      /\ head' \in Trees /\ index' \in Trees /\ disk' \in Trees /\ commit' \in Nat \ {0}
  BY EditTyped
<1>2. /\ job' = job /\ content' = content /\ manifest' = manifest /\ shot' = shot /\ late' = late
      /\ job.step \notin {"released", "invalidated", "failed", "verified", "refused"}
  BY <1>1 DEF Edited
<1>3. edits' \in 0..MaxEdits /\ strayed' \in BOOLEAN
  <2>1. edits' = edits + 1 /\ edits < MaxEdits /\ edits \in 0..MaxEdits /\ MaxEdits \in Nat
    BY <1>1, CaptureAssumption DEF Edited, Typed, TypeOK
  <2>2. strayed' \in BOOLEAN
    BY <1>1 DEF Edited, Typed, TypeOK
  <2> QED BY <2>1, <2>2
<1>4. Typed'
  BY <1>1, <1>2, <1>3 DEF Typed, QueueTyped, CandidateTyped, TypeOK, Units
<1>5. Placed'
  BY <1>2 DEF Placed
<1>6. Prepared'
  BY <1>2 DEF Prepared, Held, InHand, Erred, Path, Readable, Units
<1>7. Manifested' /\ Copied'
  BY <1>2 DEF Manifested, Copied
<1>8. Faithful'
  <2>1. job'.step # "released"
    BY <1>2
  <2>2. ASSUME Steady' PROVE CandidateIsSteady' /\ ManifestIsSteady'
    <3>1. Steady /\ head' = head /\ (job.source = "staged" => index' = index)
      BY <2>2, <1>1, <1>4, EditedSteady
    <3>2. CandidateIsSteady /\ ManifestIsSteady
      BY <3>1 DEF Faithful
    <3>3. CandidateIsSteady'
      BY <3>2, <1>2 DEF CandidateIsSteady, Units, Path, Erred, RecordOf, Side, ModeOf, IsOf
    <3>4. ManifestIsSteady'
      BY <3>1, <3>2, <1>2 DEF ManifestIsSteady, EntriesAreLocated, Located
    <3> QED BY <3>3, <3>4
  <2> QED BY <2>1, <2>2 DEF Faithful
<1> QED BY <1>4, <1>5, <1>6, <1>7, <1>8

LEMMA ExpireSafe ==
  ASSUME Inv, Expire
  PROVE  Inv'
<1> USE DEF Inv
<1>1. /\ UNCHANGED <<head, commit, index, disk, edits, strayed, job, content, manifest, shot>> /\ late'
      /\ job.step # "released"
  BY DEF Expire, repo
<1>2. Typed'
  BY <1>1 DEF Typed, QueueTyped, CandidateTyped, TypeOK, Units, Expire
<1>3. Placed'
  BY <1>1 DEF Placed
<1>4. Prepared'
  BY <1>1 DEF Prepared, Held, InHand, Erred, Path, Readable, Units
<1>5. Manifested' /\ Copied'
  BY <1>1 DEF Manifested, Copied
<1>6. Faithful'
  <2>1. Steady' <=> Steady
    BY <1>1, StillSteady DEF Still
  <2>2. ASSUME Steady PROVE CandidateIsSteady' /\ ManifestIsSteady'
    <3>1. CandidateIsSteady /\ ManifestIsSteady
      BY <2>2 DEF Faithful
    <3>2. CandidateIsSteady'
      BY <3>1, <1>1 DEF CandidateIsSteady, Units, Path, Erred, RecordOf, Side, ModeOf, IsOf
    <3>3. ManifestIsSteady'
      BY <3>1, <1>1 DEF ManifestIsSteady, EntriesAreLocated, Located
    <3> QED BY <3>2, <3>3
  <2> QED BY <1>1, <2>1, <2>2 DEF Faithful
<1> QED BY <1>2, <1>3, <1>4, <1>5, <1>6

-----------------------------------------------------------------------------
(* The steps of the job *)

LEMMA GotoFacts ==
  ASSUME Typed, NEW step, Goto(step)
  PROVE  /\ job'.step = step /\ job'.queue = job.queue /\ job'.item = job.item
         /\ job'.kind = job.kind /\ job'.source = job.source /\ job'.scope = job.scope /\ DOMAIN job' = DOMAIN job
BY DEF Typed, Goto

LEMMA ToStepFacts ==
  ASSUME Typed, NEW step, NEW item, ToStep(step, item)
  PROVE  /\ job'.step = step /\ job'.queue = job.queue /\ job'.item = item
         /\ job'.kind = job.kind /\ job'.source = job.source /\ job'.scope = job.scope /\ DOMAIN job' = DOMAIN job
BY DEF Typed, ToStep

\* The record in hand.
LEMMA PathFacts ==
  ASSUME Typed, Placed, job.step \in Preparing \cup Entering \cup {"copy"}
  PROVE  Path \in DOMAIN job.queue /\ Path \in Paths /\ Record = job.queue[Path] /\ Record \in Records
<1>1. DOMAIN job.queue \in SUBSET Paths /\ DOMAIN job.queue # {}
  BY DEF Typed, QueueTyped, Placed, Preparing, Entering
<1>2. Path \in DOMAIN job.queue
  BY <1>1, FirstPath DEF Path
<1> QED BY <1>1, <1>2 DEF Record, Typed, QueueTyped

\* The next record, or the end of the queue.
LEMMA NextRecordFacts ==
  ASSUME Typed, NEW step, NEW last, NextRecord(step, last)
  PROVE  /\ job'.item = NoItem
         /\ job'.kind = job.kind /\ job'.source = job.source /\ job'.scope = job.scope /\ DOMAIN job' = DOMAIN job
         /\ DOMAIN job'.queue = DOMAIN job.queue \ {Path}
         /\ \A p \in DOMAIN job'.queue : job'.queue[p] = job.queue[p]
         /\ QueueTyped'
         /\ (job'.step = last /\ DOMAIN job'.queue = {}) \/ (job'.step = step /\ DOMAIN job'.queue # {})
<1> DEFINE rest == Restrict(job.queue, DOMAIN job.queue \ {Path})
<1>1. job' = [job EXCEPT !.queue = rest, !.item = NoItem, !.step = After(rest, step, last)]
  BY DEF NextRecord
<1>2. /\ DOMAIN rest = DOMAIN job.queue \ {Path} /\ (\A p \in DOMAIN rest : rest[p] = job.queue[p])
      /\ rest = Nothing <=> DOMAIN rest = {}
  BY RestrictFacts
<1> HIDE DEF rest
<1>3. /\ job'.queue = rest /\ job'.item = NoItem /\ job'.step = After(rest, step, last)
      /\ job'.kind = job.kind /\ job'.source = job.source /\ job'.scope = job.scope /\ DOMAIN job' = DOMAIN job
  BY <1>1 DEF Typed
<1>4. QueueTyped'
  BY <1>2, <1>3 DEF Typed, QueueTyped
<1> QED BY <1>2, <1>3, <1>4 DEF After

LEMMA KindFacts == Typed => job.kind = "review" \/ job.kind = "snapshot"
BY CaptureAssumption DEF Typed, TypeOK

\* A capture that is open may fail at any step.
LEMMA FailSafe ==
  ASSUME Inv, job.kind = "review" => job.step # "open", Goto("failed"), UNCHANGED <<head, commit, index, disk, edits, strayed, late, content, manifest, shot>>
  PROVE  Inv'
<1> USE DEF Inv
<1>1. /\ job'.step = "failed" /\ job'.queue = job.queue /\ job'.item = job.item
      /\ job'.kind = job.kind /\ job'.source = job.source /\ job'.scope = job.scope /\ DOMAIN job' = DOMAIN job
  BY GotoFacts
<1>2. Still
  BY <1>1 DEF Still
<1>3. Typed'
  BY <1>1 DEF Typed, QueueTyped, CandidateTyped, TypeOK, Units
<1>4. Placed'
  BY <1>1, KindFacts DEF Placed, Preparing, Entering, Opened, Factual
<1>5. Prepared'
  BY <1>1, PreparedKept DEF Preparing, Opened, Factual, Entering
<1>6. Manifested' /\ Copied'
  BY <1>1 DEF Manifested, Copied
<1>7. Faithful'
  <2>1. Steady => CandidateIsSteady'
    BY <1>1, CandidateKept DEF Faithful, Preparing
  <2>2. ManifestIsSteady'
    BY <1>1 DEF ManifestIsSteady, Factual
  <2> QED BY <1>1, <1>2, <2>1, <2>2, StillSteady DEF Faithful
<1> QED BY <1>3, <1>4, <1>5, <1>6, <1>7

\* What remains to be shown of a step that prepares the candidate.
LEMMA ContentStep ==
  ASSUME Inv, Still, edits' = edits, late' \in BOOLEAN, manifest' = manifest, shot' = shot,
         job.step \in {"list", "missing"} \cup Preparing,
         job'.step \in {"missing", "reading"} \cup Preparing,
         DOMAIN job' = DOMAIN job, DOMAIN content' = DOMAIN content, content'.reads = Nothing,
         QueueTyped', CandidateTyped',
         job'.step \in Preparing =>
           DOMAIN job'.queue # {} /\ DOMAIN job'.queue \cap DOMAIN content'.files = {},
         job'.step = "hash" => job.source = "unstaged",
         Prepared', Steady => CandidateIsSteady'
  PROVE  Inv'
<1> USE DEF Inv
<1>1. job.kind = "review" /\ shot = NoShot /\ job.scope.commit # 0 /\ manifest = NoManifest
  BY KindFacts DEF Placed, Preparing
<1>2. Typed'
  BY DEF Typed, TypeOK, Still, Units, CandidateTyped
<1>3. Placed'
  BY <1>1 DEF Placed, Preparing, Entering, Opened, Factual, Still, NoManifest
<1>4. Copied'
  BY <1>1, <1>3, SnapshotKept DEF Still
<1>5. Manifested'
  BY DEF Manifested
<1>7. ManifestIsSteady'
  BY DEF ManifestIsSteady, Preparing, Factual
<1>8. Faithful'
  BY <1>7, StillSteady DEF Faithful, Preparing
<1> QED BY <1>2, <1>3, <1>4, <1>5, <1>8

LEMMA OpenScopeSafe ==
  ASSUME Inv, OpenScope
  PROVE  Inv'
<1> USE DEF Inv
<1>1. /\ UNCHANGED <<head, commit, index, disk, edits, strayed, late, content, manifest, shot>>
      /\ job.step = "open" /\ job.kind = "review"
  BY DEF OpenScope, Mine, repo
<1>2. /\ job'.step = "list" /\ job'.kind = "review" /\ job'.source = job.source /\ job'.scope = Scope(job.source)
      /\ job'.queue = job.queue /\ job'.item = job.item /\ DOMAIN job' = DOMAIN job
  BY <1>1 DEF OpenScope, Typed
<1>3. job'.scope.commit = commit /\ job'.scope.diff = DiffOf(job.source)
  BY <1>2 DEF Scope
<1>4. content = NoContent /\ manifest = NoManifest /\ shot = NoShot
  BY <1>1 DEF Placed
<1>5. Typed'
  BY <1>1, <1>2, <1>3, DiffFacts DEF Typed, QueueTyped, CandidateTyped, TypeOK, Units
<1>6. Placed'
  BY <1>1, <1>2, <1>3, <1>4 DEF Placed, Preparing, Entering, Opened, Factual, Typed, NoManifest
<1>7. Prepared'
  <2>1. ~InHand' /\ Held' = 0
    BY <1>2 DEF InHand, Held
  <2>2. content'.files = Nothing /\ content'.reserved = 0
    BY <1>1, <1>4 DEF NoContent
  <2>3. ReadableOf(content'.files, content'.errors) = {} /\ Readable' = {}
    BY <2>2, NothingDomain DEF ReadableOf, Readable
  <2>4. Reserved(content'.files, content'.errors) = 0
    BY <2>3, ReservedOfNone
  <2> QED BY <1>2, <2>1, <2>2, <2>3, <2>4, NothingDomain, CaptureAssumption DEF Prepared, Opened, Factual, Entering
<1>8. Copied'
  BY <1>2, <1>6, SnapshotKept
<1>9. Manifested'
  BY <1>1 DEF Manifested
<1>10. Faithful'
  <2>1. CandidateIsSteady'
    BY <1>1, <1>2, <1>4, NothingDomain DEF CandidateIsSteady, Preparing, NoContent
  <2>2. ManifestIsSteady'
    BY <1>2 DEF ManifestIsSteady, Factual
  <2> QED BY <1>2, <2>1, <2>2 DEF Faithful
<1> QED BY <1>5, <1>6, <1>7, <1>8, <1>9, <1>10

-----------------------------------------------------------------------------
(* The candidate: GitCandidateContent::open_bounded *)

LEMMA ListingFacts ==
  ASSUME NEW tree \in Trees, NEW wanted \in SUBSET Paths
  PROVE  /\ DOMAIN Listing(tree, wanted) = {p \in wanted : tree[p].mode # "none"}
         /\ \A p \in DOMAIN Listing(tree, wanted) : Listing(tree, wanted)[p] = tree[p] /\ tree[p] \in Records
<1>1. \A p \in Paths : tree[p] \in Entries
  BY DEF Trees
<1>2. \A p \in Paths : tree[p].mode # "none" => tree[p] \in Records
  BY <1>1, EntryFacts
<1> QED BY <1>2, RestrictFacts DEF Listing

LEMMA GitTreeTyped == Typed => GitTree \in Trees
BY DEF Typed, TypeOK, GitTree

LEMMA SourceNames == Typed => job.source \in {"staged", "unstaged", "branch"}
BY CaptureAssumption DEF Typed, TypeOK

\* What git lists of a unit, and what is on disk, are of a scope that stands still.
LEMMA SteadyRecord ==
  ASSUME Typed, Steady, NEW p \in Units
  PROVE  /\ GitTree[p] = RecordOf(p) /\ p \in Paths
         /\ job.source = "unstaged" /\ RecordOf(p).mode # "none" => Side(p) = disk[p]
<1>1. job.scope.diff[p] = <<Old(job.source)[p], New(job.source)[p]>> /\ p \in Paths
  BY SteadyScope DEF Steady, Typed
<1>2. job.scope.diff[p][1] = Old(job.source)[p] /\ job.scope.diff[p][2] = New(job.source)[p]
  BY <1>1
<1>3. CASE job.source = "staged"
  BY <1>1, <1>2, <1>3 DEF GitTree, RecordOf, Side, Old, New
<1>4. CASE job.source = "branch"
  BY <1>1, <1>2, <1>4 DEF GitTree, RecordOf, Side, Old, New
<1>5. CASE job.source = "unstaged"
  BY <1>1, <1>2, <1>5 DEF GitTree, RecordOf, Side, Old, New
<1> QED BY <1>3, <1>4, <1>5, SourceNames

LEMMA ListContentSafe ==
  ASSUME Inv, ListContent
  PROVE  Inv'
<1> USE DEF Inv
<1> DEFINE stageZero == [p \in Paths |-> IF GitTree[p].mode = "unmerged" THEN Absent ELSE GitTree[p]]
           wanted == Requested \cup QueryFiles
           records == Listing(stageZero, wanted)
<1>1. job.step = "list" /\ UNCHANGED <<head, commit, index, disk, edits, strayed, late>>
  BY DEF ListContent, Mine, repo
<1>2. CASE late
  BY <1>1, <1>2, FailSafe DEF ListContent, Fail
<1>3. CASE ~late
  <2>1. /\ job' = [job EXCEPT !.queue = records, !.item = NoItem, !.step = After(records, "mode", "missing")]
        /\ content' = [content EXCEPT !.errors = [p \in Units \ Requested |-> "changed-files"]]
        /\ UNCHANGED <<manifest, shot>>
    BY <1>3 DEF ListContent
  <2>2. stageZero \in Trees
    <3>1. GitTree \in Trees /\ Absent \in Entries
      BY GitTreeTyped DEF Entries
    <3> QED BY <3>1 DEF Trees
  <2>3. wanted \in SUBSET Paths
    BY FirstIsPart, CaptureAssumption DEF Requested, Typed
  <2> HIDE DEF stageZero, wanted
  <2>4. /\ DOMAIN records = {p \in wanted : stageZero[p].mode # "none"}
        /\ \A p \in DOMAIN records : records[p] = stageZero[p] /\ stageZero[p] \in Records
    BY <2>2, <2>3, ListingFacts
  <2>5. records = Nothing <=> DOMAIN records = {}
    BY RestrictFacts DEF Listing
  <2> HIDE DEF records
  <2>6. /\ job'.queue = records /\ job'.item = NoItem /\ job'.step = After(records, "mode", "missing")
        /\ job'.kind = job.kind /\ job'.source = job.source /\ job'.scope = job.scope /\ DOMAIN job' = DOMAIN job
    BY <2>1 DEF Typed
  <2>7. job'.step \in {"mode", "missing"} /\ (job'.step = "mode" => DOMAIN records # {})
    BY <2>5, <2>6 DEF After
  <2>8. content = NoContent /\ DOMAIN content' = DOMAIN content
    BY <1>1, <2>1 DEF Placed
  <2>9. /\ content'.files = Nothing /\ content'.reserved = 0 /\ content'.reads = Nothing
        /\ DOMAIN content'.errors \subseteq Paths
    BY <2>1, <2>8 DEF NoContent, Typed
  <2>10. Still
    BY <1>1, <2>6 DEF Still
  <2>11. QueueTyped' /\ CandidateTyped'
    BY <2>3, <2>4, <2>6, <2>9, NothingDomain, CaptureAssumption DEF QueueTyped, CandidateTyped
  <2>12. Prepared'
    <3>1. ~InHand' /\ Held' = 0
      BY <2>7 DEF InHand, Held
    <3>2. ReadableOf(content'.files, content'.errors) = {} /\ Readable' = {}
      BY <2>9, NothingDomain DEF ReadableOf, Readable
    <3>3. Reserved(content'.files, content'.errors) = 0
      BY <3>2, ReservedOfNone
    <3> QED BY <2>7, <2>9, <3>1, <3>2, <3>3, NothingDomain, CaptureAssumption DEF Prepared, Opened, Factual, Entering
  <2>13. ASSUME Steady PROVE CandidateIsSteady'
    <3>1. ASSUME NEW p \in DOMAIN records \cap Units PROVE records[p] = RecordOf(p)'
      <4>1. records[p] = stageZero[p] /\ stageZero[p].mode # "none" /\ p \in Paths
        BY <2>3, <2>4, <3>1
      <4>2. records[p] = GitTree[p]
        BY <4>1 DEF stageZero, Absent
      <4>3. RecordOf(p)' = RecordOf(p)
        BY <2>6 DEF RecordOf, Side
      <4> QED BY <4>2, <4>3, <2>13, SteadyRecord
    <3>2. Units' = Units
      BY <2>6 DEF Units
    <3> QED BY <2>6, <2>7, <2>9, <3>1, <3>2, NothingDomain DEF CandidateIsSteady, Preparing
  <2>14. DOMAIN job'.queue \cap DOMAIN content'.files = {}
    BY <2>9, NothingDomain
  <2> QED BY <1>1, <2>1, <2>6, <2>7, <2>8, <2>9, <2>10, <2>11, <2>12, <2>13, <2>14, ContentStep DEF Preparing, Typed, TypeOK
<1> QED BY <1>2, <1>3

LEMMA UnstagedModes ==
  ASSUME Typed, NEW p \in Paths, NEW mode \in Modes
  PROVE  UnstagedMode(p, mode) \in Modes
<1>1. disk[p].mode \in Modes \cup {"none"}
  BY EntryFacts DEF Typed, TypeOK, Trees
<1> QED BY <1>1 DEF UnstagedMode, Modes

\* The mode of a record is that of the candidate, and of the path in a scope that stands still.
LEMMA SteadyMode ==
  ASSUME Typed, Steady, NEW p \in Units, RecordOf(p) \in Records
  PROVE  /\ job.source # "unstaged" => RecordOf(p).mode = ModeOf(p) /\ RecordOf(p) = Side(p)
         /\ job.source = "unstaged" => UnstagedMode(p, RecordOf(p).mode) = ModeOf(p)
<1>1. RecordOf(p).mode # "none"
  BY DEF Records, Modes
<1>2. job.source = "unstaged" => Side(p) = disk[p]
  BY <1>1, SteadyRecord
<1> QED BY <1>1, <1>2 DEF ModeOf, UnstagedMode, RecordOf

LEMMA InspectModeSafe ==
  ASSUME Inv, InspectMode
  PROVE  Inv'
<1> USE DEF Inv
<1> DEFINE mode == IF job.source = "unstaged" THEN UnstagedMode(Path, Record.mode) ELSE Record.mode
<1>1. /\ job.step = "mode"
      /\ UNCHANGED <<head, commit, index, disk, edits, strayed, late, content, manifest, shot>>
      /\ ToStep("size", [NoItem EXCEPT !.mode = mode])
  BY DEF InspectMode, Mine, repo
<1>2. Path \in DOMAIN job.queue /\ Path \in Paths /\ Record = job.queue[Path] /\ Record \in Records
  BY <1>1, PathFacts DEF Preparing
<1>3. mode \in Modes
  BY <1>2, UnstagedModes DEF Records
<1> HIDE DEF mode
<1>4. /\ job'.step = "size" /\ job'.queue = job.queue /\ job'.item = [NoItem EXCEPT !.mode = mode]
      /\ job'.kind = job.kind /\ job'.source = job.source /\ job'.scope = job.scope /\ DOMAIN job' = DOMAIN job
  BY <1>1, ToStepFacts
<1>5. job'.item.mode = mode /\ job'.item = [NoItem EXCEPT !.mode = job'.item.mode]
  BY <1>4 DEF NoItem
<1>6. Still
  BY <1>1, <1>4 DEF Still
<1>7. Units' = Units /\ Path' = Path
  BY <1>4 DEF Units, Path
<1>8. content'.reads = Nothing /\ DOMAIN job.queue # {} /\ DOMAIN job.queue \cap DOMAIN content.files = {}
  BY <1>1 DEF Placed, Preparing
<1>9. Prepared'
  <2>1. ~InHand' /\ Held' = 0 /\ ~InHand /\ Held = 0
    BY <1>1, <1>4 DEF InHand, Held
  <2> QED BY <1>1, <1>3, <1>4, <1>5, <2>1 DEF Prepared, Opened, Factual, Entering, Readable
<1>10. ASSUME Steady PROVE CandidateIsSteady'
  <2>1. CandidateIsSteady
    BY <1>10 DEF Faithful
  <2>2. \A p \in Units : RecordOf(p)' = RecordOf(p) /\ ModeOf(p)' = ModeOf(p)
    BY <1>4 DEF RecordOf, ModeOf, Side
  <2>3. ASSUME Path \in Units PROVE job'.item.mode = ModeOf(Path)
    <3>1. Record = RecordOf(Path)
      BY <1>1, <1>2, <2>1, <2>3 DEF CandidateIsSteady, Preparing
    <3> QED BY <1>2, <1>5, <1>10, <2>3, <3>1, SteadyMode DEF mode
  <2>4. \A p \in DOMAIN job'.queue \cap Units : job'.queue[p] = RecordOf(p)'
    BY <1>1, <1>4, <2>1, <2>2 DEF CandidateIsSteady, Preparing
  <2> QED BY <1>1, <1>4, <1>7, <2>1, <2>2, <2>3, <2>4 DEF CandidateIsSteady, IsOf
<1>11. QueueTyped' /\ CandidateTyped'
  BY <1>1, <1>4 DEF Typed, QueueTyped, CandidateTyped
<1> QED BY <1>1, <1>4, <1>6, <1>8, <1>9, <1>10, <1>11, ContentStep DEF Preparing, Typed, TypeOK

\* The record in hand is measured: its item is made, its bytes are reserved or it has an error.
LEMMA MeasuredSafe ==
  ASSUME Inv, job.step \in {"size", "hash"},
         UNCHANGED <<head, commit, index, disk, edits, strayed, late, manifest, shot>>,
         job'.step = "ranges", job'.queue = job.queue, DOMAIN job' = DOMAIN job,
         job'.kind = job.kind, job'.source = job.source, job'.scope = job.scope,
         DOMAIN content' = DOMAIN content, content'.files = content.files, content'.reads = content.reads,
         content'.errors = content.errors \/ DOMAIN content'.errors = DOMAIN content.errors \cup {Path},
         content'.reserved \in 0..TotalLimit, content.reserved <= content'.reserved,
         job'.item.identity \in DOMAIN Bytes,
         Path \in DOMAIN content'.errors \/ job'.item.presence = "deleted" \/ job'.item.identity \in Texts,
         job'.item.presence = "present" /\ Path \notin DOMAIN content'.errors =>
           /\ Bytes[job'.item.identity] <= FileLimit
           /\ content.reserved + Bytes[job'.item.identity] <= content'.reserved,
         Steady /\ Path \in Units /\ Path \notin DOMAIN content'.errors => IsOf(job'.item, job.scope.diff[Path])
  PROVE  Inv'
<1> USE DEF Inv
<1>1. Path \in DOMAIN job.queue /\ Path \in Paths /\ Path \notin DOMAIN content.files
  BY PathFacts DEF Preparing, Placed
<1>2. Still
  BY DEF Still
<1>3. Units' = Units /\ Path' = Path /\ (Erred(Path)' <=> Path \in DOMAIN content'.errors)
  BY DEF Units, Path, Erred
<1>4. content'.reads = Nothing /\ DOMAIN job.queue # {} /\ DOMAIN job.queue \cap DOMAIN content.files = {}
  BY DEF Placed, Preparing
<1>5. ReadableOf(content'.files, content'.errors) = ReadableOf(content.files, content.errors) /\ Readable' = Readable
  BY <1>1 DEF ReadableOf, Readable
<1>6. Reserved(content'.files, content'.errors) = Reserved(content.files, content.errors)
  BY <1>5, ReservedSame
<1>7. Reserved(content'.files, content'.errors) + Held' <= content'.reserved /\ Held' <= FileLimit
  <2> DEFINE total == Reserved(content.files, content.errors)
             now == content.reserved
             next == content'.reserved
  <2>1. total <= now /\ total \in Nat /\ now \in Nat
    <3>1. Held = 0
      BY DEF Held, InHand
    <3> QED BY <3>1, HeldIsNat DEF Prepared
  <2>2. next \in Nat /\ now <= next /\ FileLimit \in Nat
    BY CaptureAssumption
  <2>3. CASE InHand'
    <3> DEFINE size == Bytes[job'.item.identity]
    <3>1. Held' = size /\ size \in Nat
      BY <2>3, TextSizes DEF Held
    <3>2. size <= FileLimit /\ now + size <= next
      BY <2>3, <1>3 DEF InHand
    <3> HIDE DEF total, now, next, size
    <3>3. total + size <= next
      BY <2>1, <2>2, <3>1, <3>2
    <3> QED BY <1>6, <3>1, <3>2, <3>3 DEF total, next
  <2>4. CASE ~InHand'
    <3>1. Held' = 0
      BY <2>4 DEF Held
    <3> HIDE DEF total, now, next
    <3>2. total + 0 <= next
      BY <2>1, <2>2
    <3> QED BY <1>6, <2>2, <3>1, <3>2 DEF total, next
  <2> QED BY <2>3, <2>4
<1>8. Prepared'
  <2>1. \A p \in DOMAIN content'.files :
          p \in DOMAIN content'.errors \/ content'.files[p].presence = "deleted" \/ content'.files[p].identity \in Texts
    BY DEF Prepared
  <2>2. \A p \in Readable' : Bytes[content'.files[p].identity] <= FileLimit
    BY <1>5 DEF Prepared
  <2> QED BY <1>3, <1>7, <2>1, <2>2 DEF Prepared, Opened, Factual, Entering
<1>9. ASSUME Steady PROVE CandidateIsSteady'
  <2>1. CandidateIsSteady
    BY <1>9 DEF Faithful
  <2>2. \A p \in Units : RecordOf(p)' = RecordOf(p)
    BY DEF RecordOf, Side
  <2>3. \A p \in DOMAIN job'.queue \cap Units : job'.queue[p] = RecordOf(p)'
    BY <2>1, <2>2 DEF CandidateIsSteady, Preparing
  <2>4. Path \in Units /\ Path \notin DOMAIN content'.errors => IsOf(job'.item, job'.scope.diff[Path])
    BY <1>9
  <2>5. ~late' => \A p \in Units \cap DOMAIN content'.files : p \notin DOMAIN content'.errors =>
           content'.files[p].ranges = job'.scope.diff[p] /\ IsOf(content'.files[p], job'.scope.diff[p])
    BY <2>1 DEF CandidateIsSteady
  <2> QED BY <1>3, <2>3, <2>4, <2>5 DEF CandidateIsSteady, IsOf
<1>10. QueueTyped' /\ CandidateTyped'
  BY <1>1 DEF Typed, QueueTyped, CandidateTyped
<1> QED BY <1>2, <1>4, <1>8, <1>9, <1>10, ContentStep DEF Preparing, Typed, TypeOK

\* An error of the record in hand.
LEMMA PrepErrorFacts ==
  ASSUME Typed, ~Erred(Path), NEW code, PrepError(code)
  PROVE  /\ DOMAIN content' = DOMAIN content /\ content'.files = content.files /\ content'.reads = content.reads
         /\ content'.reserved = content.reserved /\ DOMAIN content'.errors = DOMAIN content.errors \cup {Path}
<1>1. content' = [content EXCEPT !.errors = content.errors ++ Only(Path, code)]
  BY DEF PrepError
<1>2. DOMAIN (content.errors ++ Only(Path, code)) = DOMAIN content.errors \cup {Path}
  BY AddFacts
<1> QED BY <1>1, <1>2 DEF Typed

LEMMA SizeErrorFacts ==
  ASSUME Typed, NEW size \in Nat, SizeError(size) = "none"
  PROVE  ~late /\ size <= FileLimit /\ content.reserved + size \in 0..TotalLimit
<1>1. ~late /\ ~(size > FileLimit) /\ ~(content.reserved + size > TotalLimit)
  BY DEF SizeError
<1>2. content.reserved \in Nat /\ FileLimit \in Nat /\ TotalLimit \in Nat
  BY CaptureAssumption DEF Typed, CandidateTyped
<1> QED BY <1>1, <1>2

LEMMA MeasureGitSafe ==
  ASSUME Inv, MeasureGit
  PROVE  Inv'
<1> USE DEF Inv
<1> DEFINE gitlink == job.item.mode = "gitlink"
           size == Bytes[Record.text]
           item == [job.item EXCEPT !.presence = IF gitlink THEN "gitlink" ELSE "present", !.identity = Record.text]
           limit == SizeError(size)
<1>1. /\ job.step = "size" /\ job.source # "unstaged"
      /\ UNCHANGED <<head, commit, index, disk, edits, strayed, late, manifest, shot>>
      /\ ToStep("ranges", item)
      /\ IF gitlink \/ Erred(Path) THEN UNCHANGED content
         ELSE IF limit = "none" THEN content' = [content EXCEPT !.reserved = content.reserved + size]
         ELSE PrepError(limit)
  BY DEF MeasureGit, Mine, repo
<1>2. Path \in DOMAIN job.queue /\ Path \in Paths /\ Record = job.queue[Path] /\ Record \in Records
  BY <1>1, PathFacts DEF Preparing
<1>3. Record.text \in Texts /\ Record.text \in DOMAIN Bytes /\ size \in Nat
  BY <1>2, TextSizes DEF Records, Texts
<1>4. /\ job'.step = "ranges" /\ job'.queue = job.queue /\ job'.item = item
      /\ job'.kind = job.kind /\ job'.source = job.source /\ job'.scope = job.scope /\ DOMAIN job' = DOMAIN job
  BY <1>1, ToStepFacts
<1>5. job.item = [NoItem EXCEPT !.mode = job.item.mode]
  BY <1>1 DEF Prepared
<1>6. /\ item.presence = (IF gitlink THEN "gitlink" ELSE "present") /\ item.identity = Record.text
      /\ item.mode = job.item.mode
  BY <1>5 DEF NoItem
<1>7. ASSUME Steady, Path \in Units PROVE IsOf(item, job.scope.diff[Path])
  <2>1. Record = RecordOf(Path) /\ job.item.mode = ModeOf(Path)
    BY <1>1, <1>2, <1>7 DEF Faithful, CandidateIsSteady, Preparing
  <2>2. RecordOf(Path).mode = ModeOf(Path) /\ RecordOf(Path) = Side(Path)
    BY <1>1, <1>2, <1>7, <2>1, SteadyMode
  <2> QED BY <1>6, <2>1, <2>2 DEF IsOf, Side
<1> HIDE DEF item, limit, size
<1>8. content.reserved \in 0..TotalLimit /\ content.reserved \in Nat
  BY CaptureAssumption DEF Typed, CandidateTyped
<1>9. CASE gitlink \/ Erred(Path)
  <2>1. content' = content
    BY <1>1, <1>9
  <2>2. item.presence = "present" => Path \in DOMAIN content.errors
    BY <1>6, <1>9 DEF Erred
  <2> QED BY <1>1, <1>3, <1>4, <1>6, <1>7, <1>8, <2>1, <2>2, MeasuredSafe
<1>10. CASE ~gitlink /\ ~Erred(Path) /\ limit = "none"
  <2>1. content' = [content EXCEPT !.reserved = content.reserved + size]
    BY <1>1, <1>10
  <2>2. size <= FileLimit /\ content.reserved + size \in 0..TotalLimit
    BY <1>3, <1>10, SizeErrorFacts DEF limit
  <2>3. /\ DOMAIN content' = DOMAIN content /\ content'.files = content.files /\ content'.reads = content.reads
        /\ content'.errors = content.errors /\ content'.reserved = content.reserved + size
    BY <2>1 DEF Typed
  <2>4. Bytes[item.identity] = size /\ content.reserved <= content.reserved + size
    BY <1>3, <1>6, <1>8 DEF size
  <2>5. content.reserved + Bytes[item.identity] <= content'.reserved /\ content'.reserved \in Nat
    BY <2>2, <2>3, <2>4
  <2> QED BY <1>1, <1>3, <1>4, <1>6, <1>7, <2>2, <2>3, <2>4, <2>5, MeasuredSafe
<1>11. CASE ~gitlink /\ ~Erred(Path) /\ limit # "none"
  <2>1. PrepError(limit)
    BY <1>1, <1>11
  <2>2. /\ DOMAIN content' = DOMAIN content /\ content'.files = content.files /\ content'.reads = content.reads
        /\ content'.reserved = content.reserved /\ DOMAIN content'.errors = DOMAIN content.errors \cup {Path}
    BY <1>11, <2>1, PrepErrorFacts
  <2> QED BY <1>1, <1>3, <1>4, <1>6, <1>7, <1>8, <2>2, MeasuredSafe
<1> QED BY <1>9, <1>10, <1>11

\* What a path that is gone, or whose bytes were hashed, says of a scope that stands still.
LEMMA SteadyGone ==
  ASSUME Typed, Steady, NEW p \in Units, RecordOf(p) \in Records, job.source = "unstaged",
         NEW mode, mode = ModeOf(p), mode # "gitlink", Gone \in SizeOutcomes(p, mode)
  PROVE  Side(p).mode = "none"
<1>1. Side(p) = disk[p] /\ p \in Paths
  BY SteadyRecord DEF Records, Modes
<1>2. disk[p] \in Entries
  BY <1>1 DEF Typed, TypeOK, Trees
<1>3. Bytes[disk[p].text] # Gone
  BY <1>2, EntryFacts, TextSizes DEF Gone
<1>4. disk[p].mode = "none" \/ (mode # "link" /\ disk[p].mode = "link")
  BY <1>3 DEF SizeOutcomes, Gone, Unreadable
<1>5. disk[p].mode = "link" => mode = RecordOf(p).mode \/ mode = "link"
  BY <1>1 DEF ModeOf
<1>6. disk[p].mode = "link" => mode = "link"
  BY <1>1 DEF ModeOf
<1> QED BY <1>1, <1>4, <1>6

LEMMA SteadyHashed ==
  ASSUME Typed, Steady, NEW p \in Units, RecordOf(p) \in Records, job.source = "unstaged",
         NEW mode, mode = ModeOf(p), mode # "gitlink", Openable(p, mode)
  PROVE  disk[p].text = Side(p).text /\ mode = Side(p).mode
<1>1. Side(p) = disk[p]
  BY SteadyRecord DEF Records, Modes
<1>2. disk[p].mode \in {"link", "file", "exec"}
  BY DEF Openable
<1> QED BY <1>1, <1>2 DEF ModeOf

LEMMA MeasurePathSafe ==
  ASSUME Inv, MeasurePath
  PROVE  Inv'
<1> USE DEF Inv
<1>1. /\ job.step = "size" /\ job.source = "unstaged"
      /\ UNCHANGED <<head, commit, index, disk, edits, strayed, late, manifest, shot>>
  BY DEF MeasurePath, Mine, repo
<1>2. Path \in DOMAIN job.queue /\ Path \in Paths /\ Record = job.queue[Path] /\ Record \in Records
  BY <1>1, PathFacts DEF Preparing
<1>3. Record.text \in Texts /\ Record.text \in DOMAIN Bytes /\ "none" \in DOMAIN Bytes
  BY <1>2, CaptureAssumption DEF Records, Texts
<1>4. job.item = [NoItem EXCEPT !.mode = job.item.mode] /\ job.item.mode \in Modes
  BY <1>1 DEF Prepared
<1>5. content.reserved \in 0..TotalLimit /\ content.reserved <= content.reserved
  BY CaptureAssumption DEF Typed, CandidateTyped
<1>6. job.item.presence = "present" /\ job.item.identity = "none"
  BY <1>4 DEF NoItem
<1>7. Steady /\ Path \in Units => RecordOf(Path) \in Records /\ job.item.mode = ModeOf(Path)
  BY <1>1, <1>2 DEF Faithful, CandidateIsSteady, Preparing
<1>8. CASE job.item.mode = "gitlink"
  <2> DEFINE item == [job.item EXCEPT !.presence = "gitlink", !.identity = Record.text]
  <2>1. ToStep("ranges", item) /\ content' = content
    BY <1>1, <1>8 DEF MeasurePath
  <2>2. item.presence = "gitlink" /\ item.identity = Record.text
    BY <1>4 DEF NoItem
  <2> HIDE DEF item
  <2>3. /\ job'.step = "ranges" /\ job'.queue = job.queue /\ job'.item = item
        /\ job'.kind = job.kind /\ job'.source = job.source /\ job'.scope = job.scope /\ DOMAIN job' = DOMAIN job
    BY <2>1, ToStepFacts
  <2>4. IsOf(item, job.scope.diff[Path])
    BY <2>2 DEF IsOf
  <2> QED BY <1>1, <1>3, <1>5, <2>1, <2>2, <2>3, <2>4, MeasuredSafe
<1>9. CASE job.item.mode # "gitlink"
  <2>1. PICK outcome \in SizeOutcomes(Path, job.item.mode) :
          CASE outcome = Unreadable -> Goto("failed") /\ UNCHANGED content
            [] outcome = Gone -> ToStep("ranges", [job.item EXCEPT !.presence = "deleted"]) /\ UNCHANGED content
            [] OTHER -> IF Erred(Path) THEN Goto("ranges") /\ UNCHANGED content
                        ELSE IF SizeError(outcome) = "none" THEN Goto("hash") /\ UNCHANGED content
                        ELSE Goto("ranges") /\ PrepError(SizeError(outcome))
    BY <1>1, <1>9 DEF MeasurePath
  <2>2. CASE outcome = Unreadable
    <3>1. Goto("failed") /\ content' = content
      BY <2>1, <2>2 DEF Gone, Unreadable
    <3> QED BY <1>1, <3>1, FailSafe
  <2>3. CASE outcome = Gone
    <3> DEFINE item == [job.item EXCEPT !.presence = "deleted"]
    <3>1. ToStep("ranges", item) /\ content' = content
      BY <2>1, <2>3 DEF Gone, Unreadable
    <3>2. item.presence = "deleted" /\ item.identity = "none"
      BY <1>4 DEF NoItem
    <3> HIDE DEF item
    <3>3. /\ job'.step = "ranges" /\ job'.queue = job.queue /\ job'.item = item
          /\ job'.kind = job.kind /\ job'.source = job.source /\ job'.scope = job.scope /\ DOMAIN job' = DOMAIN job
      BY <3>1, ToStepFacts
    <3>4. ASSUME Steady, Path \in Units PROVE IsOf(item, job.scope.diff[Path])
      <4>1. Side(Path).mode = "none"
        BY <1>1, <1>7, <1>9, <2>3, <3>4, SteadyGone
      <4> QED BY <3>2, <4>1 DEF IsOf, Side
    <3> QED BY <1>1, <1>3, <1>5, <3>1, <3>2, <3>3, <3>4, MeasuredSafe
  <2>4. CASE outcome # Unreadable /\ outcome # Gone /\ Erred(Path)
    <3>1. Goto("ranges") /\ content' = content
      BY <2>1, <2>4
    <3>2. /\ job'.step = "ranges" /\ job'.queue = job.queue /\ job'.item = job.item
          /\ job'.kind = job.kind /\ job'.source = job.source /\ job'.scope = job.scope /\ DOMAIN job' = DOMAIN job
      BY <3>1, GotoFacts
    <3> QED BY <1>1, <1>3, <1>5, <1>6, <2>4, <3>1, <3>2, MeasuredSafe DEF Erred
  <2>5. CASE outcome # Unreadable /\ outcome # Gone /\ ~Erred(Path) /\ SizeError(outcome) # "none"
    <3>1. Goto("ranges") /\ PrepError(SizeError(outcome))
      BY <2>1, <2>5
    <3>2. /\ job'.step = "ranges" /\ job'.queue = job.queue /\ job'.item = job.item
          /\ job'.kind = job.kind /\ job'.source = job.source /\ job'.scope = job.scope /\ DOMAIN job' = DOMAIN job
      BY <3>1, GotoFacts
    <3>3. /\ DOMAIN content' = DOMAIN content /\ content'.files = content.files /\ content'.reads = content.reads
          /\ content'.reserved = content.reserved /\ DOMAIN content'.errors = DOMAIN content.errors \cup {Path}
      BY <2>5, <3>1, PrepErrorFacts
    <3> QED BY <1>1, <1>3, <1>5, <1>6, <3>2, <3>3, MeasuredSafe
  <2>6. CASE outcome # Unreadable /\ outcome # Gone /\ ~Erred(Path) /\ SizeError(outcome) = "none"
    <3>1. Goto("hash") /\ content' = content
      BY <2>1, <2>6
    <3>2. /\ job'.step = "hash" /\ job'.queue = job.queue /\ job'.item = job.item
          /\ job'.kind = job.kind /\ job'.source = job.source /\ job'.scope = job.scope /\ DOMAIN job' = DOMAIN job
      BY <3>1, GotoFacts
    <3>3. Still /\ Units' = Units /\ Path' = Path /\ (Erred(Path)' <=> Erred(Path))
      BY <1>1, <3>1, <3>2 DEF Still, Units, Path, Erred
    <3>4. Prepared'
      <4>1. ~InHand' /\ Held' = 0 /\ ~InHand /\ Held = 0
        BY <1>1, <3>2 DEF InHand, Held
      <4> QED BY <1>1, <1>4, <1>9, <2>6, <3>1, <3>2, <3>3, <4>1 DEF Prepared, Opened, Factual, Entering, Readable
    <3>5. ASSUME Steady PROVE CandidateIsSteady'
      <4>1. CandidateIsSteady
        BY <3>5 DEF Faithful
      <4>2. \A p \in Units : RecordOf(p)' = RecordOf(p) /\ ModeOf(p)' = ModeOf(p)
        BY <3>2 DEF RecordOf, ModeOf, Side
      <4> QED BY <1>1, <3>1, <3>2, <3>3, <4>1, <4>2 DEF CandidateIsSteady, IsOf, Preparing
    <3>6. QueueTyped' /\ CandidateTyped'
      BY <3>1, <3>2 DEF Typed, QueueTyped, CandidateTyped
    <3>7. content.reads = Nothing /\ DOMAIN job.queue # {} /\ DOMAIN job.queue \cap DOMAIN content.files = {}
      BY <1>1 DEF Placed, Preparing
    <3> QED BY <1>1, <3>1, <3>2, <3>3, <3>4, <3>5, <3>6, <3>7, ContentStep DEF Preparing, Typed, TypeOK
  <2> QED BY <2>2, <2>3, <2>4, <2>5, <2>6
<1> QED BY <1>8, <1>9

LEMMA HashPathSafe ==
  ASSUME Inv, HashPath
  PROVE  Inv'
<1> USE DEF Inv
<1> DEFINE outcome == HashOf(Path, job.item.mode, TotalLimit - content.reserved)
           text == disk[Path].text
           item == [job.item EXCEPT !.identity = text]
<1>1. /\ job.step = "hash"
      /\ UNCHANGED <<head, commit, index, disk, edits, strayed, late, manifest, shot>>
      /\ IF outcome = "hashed"
         THEN ToStep("ranges", item) /\ content' = [content EXCEPT !.reserved = content.reserved + Bytes[text]]
         ELSE Goto("ranges") /\ PrepError(outcome)
  BY DEF HashPath, Mine, repo
<1>2. Path \in DOMAIN job.queue /\ Path \in Paths /\ Record = job.queue[Path] /\ Record \in Records
  BY <1>1, PathFacts DEF Preparing
<1>3. /\ job.item = [NoItem EXCEPT !.mode = job.item.mode] /\ ~Erred(Path) /\ job.item.mode # "gitlink"
      /\ job.source = "unstaged"
  BY <1>1 DEF Prepared, Placed
<1>4. content.reserved \in 0..TotalLimit /\ content.reserved \in Nat /\ content.reserved <= content.reserved
  BY CaptureAssumption DEF Typed, CandidateTyped
<1>5. CASE outcome = "hashed"
  <2>1. Openable(Path, job.item.mode) /\ ~(Bytes[text] > FileLimit) /\ ~(Bytes[text] > TotalLimit - content.reserved)
    BY <1>5 DEF HashOf
  <2>2. disk[Path] \in Entries /\ disk[Path].mode # "none"
    BY <1>2, <2>1 DEF Openable, Typed, TypeOK, Trees
  <2>3. text \in Texts /\ text \in DOMAIN Bytes /\ Bytes[text] \in Nat
    BY <2>2, EntryFacts, TextSizes DEF Records
  <2>4. ToStep("ranges", item) /\ content' = [content EXCEPT !.reserved = content.reserved + Bytes[text]]
    BY <1>1, <1>5
  <2>5. item.presence = "present" /\ item.identity = text /\ item.mode = job.item.mode
    BY <1>3 DEF NoItem
  <2>6. /\ DOMAIN content' = DOMAIN content /\ content'.files = content.files /\ content'.reads = content.reads
        /\ content'.errors = content.errors /\ content'.reserved = content.reserved + Bytes[text]
    BY <2>4 DEF Typed
  <2>7. ASSUME Steady, Path \in Units PROVE IsOf(item, job.scope.diff[Path])
    <3>1. RecordOf(Path) \in Records /\ job.item.mode = ModeOf(Path)
      BY <1>1, <1>2, <2>7 DEF Faithful, CandidateIsSteady, Preparing
    <3>2. text = Side(Path).text /\ job.item.mode = Side(Path).mode
      BY <1>3, <2>1, <2>7, <3>1, SteadyHashed
    <3> QED BY <2>5, <3>2 DEF IsOf, Side
  <2> HIDE DEF item, outcome, text
  <2>8. /\ job'.step = "ranges" /\ job'.queue = job.queue /\ job'.item = item
        /\ job'.kind = job.kind /\ job'.source = job.source /\ job'.scope = job.scope /\ DOMAIN job' = DOMAIN job
    BY <2>4, ToStepFacts
  <2>9. /\ content.reserved + Bytes[text] \in 0..TotalLimit /\ content.reserved <= content.reserved + Bytes[text]
        /\ content.reserved + Bytes[text] <= content.reserved + Bytes[text] /\ Bytes[text] <= FileLimit
    BY <1>4, <2>1, <2>3, CaptureAssumption
  <2> QED BY <1>1, <2>3, <2>5, <2>6, <2>7, <2>8, <2>9, MeasuredSafe
<1>6. CASE outcome # "hashed"
  <2> HIDE DEF outcome
  <2>1. Goto("ranges") /\ PrepError(outcome)
    BY <1>1, <1>6
  <2>2. /\ job'.step = "ranges" /\ job'.queue = job.queue /\ job'.item = job.item
        /\ job'.kind = job.kind /\ job'.source = job.source /\ job'.scope = job.scope /\ DOMAIN job' = DOMAIN job
    BY <2>1, GotoFacts
  <2>3. /\ DOMAIN content' = DOMAIN content /\ content'.files = content.files /\ content'.reads = content.reads
        /\ content'.reserved = content.reserved /\ DOMAIN content'.errors = DOMAIN content.errors \cup {Path}
    BY <1>3, <2>1, PrepErrorFacts
  <2>4. job.item.identity = "none" /\ "none" \in DOMAIN Bytes
    BY <1>3, CaptureAssumption DEF NoItem
  <2> QED BY <1>1, <1>4, <2>2, <2>3, <2>4, MeasuredSafe
<1> QED BY <1>5, <1>6

\* The record in hand becomes a file of the candidate, with its ranges or with an error.
LEMMA KeptSafe ==
  ASSUME Inv, job.step = "ranges",
         UNCHANGED <<head, commit, index, disk, edits, strayed, manifest, shot>>, late' \in BOOLEAN,
         NextRecord("mode", "missing"), NEW ranges, NEW errors, Keep(Path, ranges, errors),
         (errors = content.errors /\ late' = late) \/ (DOMAIN errors = DOMAIN content.errors \cup {Path} /\ late'),
         Steady /\ Path \in Units /\ Path \notin DOMAIN errors => ranges = job.scope.diff[Path]
  PROVE  Inv'
<1> USE DEF Inv
<1> DEFINE file == [presence |-> job.item.presence, mode |-> job.item.mode,
                    identity |-> job.item.identity, ranges |-> ranges]
           files == content.files ++ Only(Path, file)
<1>1. Path \in DOMAIN job.queue /\ Path \in Paths /\ Path \notin DOMAIN content.files
  BY PathFacts DEF Preparing, Placed
<1>2. /\ job'.item = NoItem
      /\ job'.kind = job.kind /\ job'.source = job.source /\ job'.scope = job.scope /\ DOMAIN job' = DOMAIN job
      /\ DOMAIN job'.queue = DOMAIN job.queue \ {Path} /\ (\A p \in DOMAIN job'.queue : job'.queue[p] = job.queue[p])
      /\ QueueTyped'
      /\ (job'.step = "missing" /\ DOMAIN job'.queue = {}) \/ (job'.step = "mode" /\ DOMAIN job'.queue # {})
  BY NextRecordFacts
<1>3. /\ DOMAIN files = DOMAIN content.files \cup {Path} /\ files[Path] = file
      /\ \A q \in DOMAIN content.files : files[q] = content.files[q]
  BY <1>1 DEF ++, Only
<1>4. content' = [content EXCEPT !.errors = errors, !.files = files]
  BY DEF Keep
<1>5. file.presence = job.item.presence /\ file.identity = job.item.identity /\ file.mode = job.item.mode /\ file.ranges = ranges
  OBVIOUS
<1> HIDE DEF file, files
<1>6. /\ DOMAIN content' = DOMAIN content /\ content'.files = files /\ content'.errors = errors
      /\ content'.reads = content.reads /\ content'.reserved = content.reserved
  BY <1>4 DEF Typed
<1>7. Still /\ Units' = Units
  BY <1>2 DEF Still, Units
<1>8. content'.reads = Nothing /\ DOMAIN job'.queue \cap DOMAIN content'.files = {}
  BY <1>2, <1>3, <1>6 DEF Placed, Preparing
<1>9. /\ job.item.identity \in DOMAIN Bytes
      /\ Erred(Path) \/ job.item.presence = "deleted" \/ job.item.identity \in Texts
  BY DEF Prepared
<1>10. CandidateTyped'
  BY <1>1, <1>3, <1>5, <1>6, <1>9 DEF CandidateTyped, Typed
<1>11. ~InHand' /\ Held' = 0
  BY <1>2 DEF InHand, Held
<1>12. \/ InHand /\ errors = content.errors
       \/ ReadableOf(files, errors) = ReadableOf(content.files, content.errors)
  <2>1. CASE errors = content.errors
    BY <1>1, <1>3, <1>5, <2>1 DEF ReadableOf, InHand, Erred
  <2>2. CASE DOMAIN errors = DOMAIN content.errors \cup {Path}
    BY <1>1, <1>3, <2>2 DEF ReadableOf
  <2> QED BY <2>1, <2>2
<1>13. Reserved(files, errors) <= content.reserved
  <2> DEFINE total == Reserved(content.files, content.errors)
             now == content.reserved
  <2>1. total + Held <= now /\ total \in Nat /\ now \in Nat /\ Held \in Nat
    BY HeldIsNat DEF Prepared
  <2>2. CASE InHand /\ errors = content.errors
    <3>1. Held = Bytes[files[Path].identity] /\ files[Path].presence = "present" /\ Path \notin DOMAIN errors
      BY <1>3, <1>5, <2>2 DEF Held, InHand, Erred
    <3>2. DOMAIN content.files \subseteq Paths /\ \A p \in DOMAIN content.files : content.files[p].identity \in DOMAIN Bytes
      BY DEF Typed, CandidateTyped
    <3>3. Reserved(files, errors) = Bytes[files[Path].identity] + Reserved(content.files, errors)
      <4>1. Path \in Paths \ DOMAIN content.files /\ files[Path].identity \in DOMAIN Bytes
        BY <1>1, <1>3, <1>5, <1>9
      <4> QED BY <1>3, <3>1, <3>2, <4>1, ReservedGrows
    <3>4. Reserved(files, errors) = Held + total
      BY <2>2, <3>1, <3>3
    <3> HIDE DEF total, now
    <3>5. Held + total <= now
      BY <2>1
    <3> QED BY <3>4, <3>5 DEF now
  <2>3. CASE ReadableOf(files, errors) = ReadableOf(content.files, content.errors)
    <3>1. \A p \in ReadableOf(content.files, content.errors) : files[p].identity = content.files[p].identity
      BY <1>3 DEF ReadableOf
    <3>2. Reserved(files, errors) = total
      BY <2>3, <3>1, ReservedSame
    <3> HIDE DEF total, now
    <3>3. total <= now
      BY <2>1
    <3> QED BY <3>2, <3>3 DEF now
  <2> QED BY <1>12, <2>2, <2>3
<1>14. Prepared'
  <2>1. Reserved(content'.files, content'.errors) + Held' <= content'.reserved
    <3>1. Reserved(files, errors) \in Nat
      BY <1>6, <1>10, ReservedIsNat DEF CandidateTyped
    <3> QED BY <1>6, <1>11, <1>13, <3>1
  <2>2. \A p \in DOMAIN content'.files :
          p \in DOMAIN content'.errors \/ content'.files[p].presence = "deleted" \/ content'.files[p].identity \in Texts
    BY <1>3, <1>5, <1>6, <1>9 DEF Prepared, Erred
  <2>3. \A p \in Readable' : Bytes[content'.files[p].identity] <= FileLimit
    <3>1. Readable' = ReadableOf(files, errors) /\ Readable = ReadableOf(content.files, content.errors)
      BY <1>6 DEF Readable, ReadableOf
    <3>2. CASE InHand /\ errors = content.errors
      <4>1. Bytes[files[Path].identity] <= FileLimit
        BY <1>3, <1>5, <3>2 DEF Prepared, Held
      <4> QED BY <1>3, <1>6, <3>1, <3>2, <4>1 DEF Prepared, ReadableOf
    <3>3. CASE ReadableOf(files, errors) = ReadableOf(content.files, content.errors)
      BY <1>3, <1>6, <3>1, <3>3 DEF Prepared, ReadableOf
    <3> QED BY <1>12, <3>2, <3>3
  <2> QED BY <1>2, <1>11, <2>1, <2>2, <2>3, CaptureAssumption DEF Prepared, Opened, Factual, Entering
<1>15. ASSUME Steady PROVE CandidateIsSteady'
  <2>1. CandidateIsSteady
    BY <1>15 DEF Faithful
  <2>2. \A p \in Units : RecordOf(p)' = RecordOf(p)
    BY <1>2 DEF RecordOf, Side
  <2>3. \A p \in DOMAIN job'.queue \cap Units : job'.queue[p] = RecordOf(p)'
    BY <1>2, <2>1, <2>2 DEF CandidateIsSteady, Preparing
  <2>4. ASSUME ~late', NEW p \in Units \cap DOMAIN files, p \notin DOMAIN errors
        PROVE  files[p].ranges = job.scope.diff[p] /\ IsOf(files[p], job.scope.diff[p])
    <3>1. ~late /\ errors = content.errors
      BY <2>4
    <3>2. CASE p = Path
      <4>1. IsOf(job.item, job.scope.diff[Path])
        BY <2>1, <2>4, <3>1, <3>2 DEF CandidateIsSteady, Erred
      <4> QED BY <1>3, <1>5, <1>15, <2>4, <3>2, <4>1 DEF IsOf
    <3>3. CASE p # Path
      BY <1>3, <2>1, <2>4, <3>1, <3>3 DEF CandidateIsSteady
    <3> QED BY <3>2, <3>3
  <2> QED BY <1>2, <1>6, <1>7, <2>3, <2>4 DEF CandidateIsSteady, IsOf
<1> QED BY <1>2, <1>6, <1>7, <1>8, <1>10, <1>14, <1>15, ContentStep DEF Preparing

LEMMA MapRangesSafe ==
  ASSUME Inv, MapRanges
  PROVE  Inv'
<1> USE DEF Inv
<1> DEFINE wanted == Path \in Units /\ ~Erred(Path)
<1>1. /\ job.step = "ranges" /\ UNCHANGED <<head, commit, index, disk, edits, strayed, manifest, shot>> /\ late \in BOOLEAN
      /\ \/ ~wanted /\ Keep(Path, Nothing, content.errors) /\ NextRecord("mode", "missing") /\ UNCHANGED late
         \/ wanted /\ late /\ Goto("failed") /\ UNCHANGED <<content, late>>
         \/ wanted /\ ~late /\ Keep(Path, Change(Path), content.errors) /\ NextRecord("mode", "missing") /\ UNCHANGED late
         \/ wanted /\ ~late /\ Keep(Path, Nothing, content.errors ++ Only(Path, "deadline"))
              /\ NextRecord("mode", "missing") /\ late' = TRUE
  BY DEF MapRanges, repo, Typed, TypeOK
<1>2. CASE ~wanted /\ Keep(Path, Nothing, content.errors) /\ NextRecord("mode", "missing") /\ UNCHANGED late
  BY <1>1, <1>2, KeptSafe DEF Erred
<1>3. CASE wanted /\ late /\ Goto("failed") /\ UNCHANGED <<content, late>>
  BY <1>1, <1>3, FailSafe
<1>4. CASE wanted /\ ~late /\ Keep(Path, Change(Path), content.errors) /\ NextRecord("mode", "missing") /\ UNCHANGED late
  <2>1. ASSUME Steady, Path \in Units PROVE Change(Path) = job.scope.diff[Path]
    <3>1. job.scope.diff = DiffOf(job.source)
      BY <2>1 DEF Steady, Drifted, Scope
    <3> QED BY <2>1, <3>1 DEF Change, Units
  <2> QED BY <1>1, <1>4, <2>1, KeptSafe
<1>5. CASE wanted /\ ~late /\ Keep(Path, Nothing, content.errors ++ Only(Path, "deadline"))
             /\ NextRecord("mode", "missing") /\ late' = TRUE
  <2> DEFINE errors == content.errors ++ Only(Path, "deadline")
  <2>1. DOMAIN errors = DOMAIN content.errors \cup {Path}
    BY AddFacts
  <2>2. Keep(Path, Nothing, errors)
    BY <1>5
  <2> HIDE DEF errors
  <2> QED BY <1>1, <1>5, <2>1, <2>2, KeptSafe
<1> QED BY <1>1, <1>2, <1>3, <1>4, <1>5

LEMMA AddMissingSafe ==
  ASSUME Inv, AddMissing
  PROVE  Inv'
<1> USE DEF Inv
<1> DEFINE missing == Units \ DOMAIN content.files
           quiet == (missing \cap Deletions) \ DOMAIN content.errors
           faults == [p \in missing \ Deletions |-> "unavailable"]
           gone == [p \in missing |->
                [presence |-> IF p \in Deletions THEN "deleted" ELSE "present", mode |-> "none", identity |-> "none",
                 ranges |-> IF p \in quiet /\ ~late THEN Change(p) ELSE Nothing]]
           errors == content.errors ++ faults
           files == content.files ++ gone
<1>1. /\ job.step = "missing" /\ UNCHANGED <<head, commit, index, disk, edits, strayed, late, manifest, shot>>
      /\ content' = [content EXCEPT !.misled = strayed \/ Drifted, !.errors = errors, !.files = files] /\ Goto("reading")
  BY DEF AddMissing, Mine, repo
<1>2. /\ job'.step = "reading" /\ job'.queue = job.queue /\ job'.item = job.item
      /\ job'.kind = job.kind /\ job'.source = job.source /\ job'.scope = job.scope /\ DOMAIN job' = DOMAIN job
  BY <1>1, GotoFacts
<1>3. DOMAIN faults = missing \ Deletions /\ DOMAIN gone = missing
  OBVIOUS
<1>4. \A p \in missing : /\ gone[p].presence = (IF p \in Deletions THEN "deleted" ELSE "present")
                         /\ gone[p].identity = "none"
                         /\ gone[p].ranges = IF p \in quiet /\ ~late THEN Change(p) ELSE Nothing
  OBVIOUS
<1> HIDE DEF faults, gone
<1>5. DOMAIN errors = DOMAIN content.errors \cup (missing \ Deletions)
  BY <1>3 DEF ++
<1>6. DOMAIN files = DOMAIN content.files \cup missing /\ \A p \in DOMAIN content.files : files[p] = content.files[p]
  BY <1>3 DEF ++
<1>7. \A p \in missing : files[p] = gone[p]
  BY <1>3 DEF ++
<1> HIDE DEF errors, files
<1>8. /\ DOMAIN content' = DOMAIN content /\ content'.files = files /\ content'.errors = errors
      /\ content'.reads = content.reads /\ content'.reserved = content.reserved
  BY <1>1 DEF Typed
<1>9. Still /\ Units' = Units
  BY <1>1, <1>2 DEF Still, Units
<1>10. content'.reads = Nothing
  BY <1>1, <1>8 DEF Placed
<1>11. Units \subseteq Paths
  BY DEF Typed
<1>12. CandidateTyped' /\ QueueTyped'
  BY <1>2, <1>4, <1>5, <1>6, <1>7, <1>8, <1>11, CaptureAssumption DEF CandidateTyped, QueueTyped, Typed
<1>13. ReadableOf(files, errors) = ReadableOf(content.files, content.errors)
  BY <1>4, <1>5, <1>6, <1>7 DEF ReadableOf
<1>14. Prepared'
  <2>1. ~InHand' /\ Held' = 0 /\ ~InHand /\ Held = 0
    BY <1>1, <1>2 DEF InHand, Held
  <2>2. Reserved(files, errors) = Reserved(content.files, content.errors)
    <3>1. \A p \in ReadableOf(content.files, content.errors) : files[p].identity = content.files[p].identity
      BY <1>6 DEF ReadableOf
    <3> QED BY <1>13, <3>1, ReservedSame
  <2>3. \A p \in DOMAIN files : p \in DOMAIN errors \/ files[p].presence = "deleted" \/ files[p].identity \in Texts
    BY <1>4, <1>5, <1>6, <1>7 DEF Prepared
  <2>4. \A p \in Readable' : Bytes[files[p].identity] <= FileLimit
    <3>1. Readable' = ReadableOf(files, errors) /\ Readable = ReadableOf(content.files, content.errors)
      BY <1>8 DEF Readable, ReadableOf
    <3> QED BY <1>6, <1>13, <3>1 DEF Prepared, ReadableOf
  <2>5. Units \subseteq DOMAIN files
    BY <1>6
  <2> QED BY <1>2, <1>8, <1>9, <2>1, <2>2, <2>3, <2>4, <2>5 DEF Prepared
<1>15. ASSUME Steady PROVE CandidateIsSteady'
  <2>1. CandidateIsSteady
    BY <1>15 DEF Faithful
  <2>2. ASSUME ~late, NEW p \in Units \cap DOMAIN files, p \notin DOMAIN errors
        PROVE  files[p].ranges = job.scope.diff[p] /\ IsOf(files[p], job.scope.diff[p])
    <3>1. CASE p \in DOMAIN content.files
      BY <1>5, <1>6, <2>1, <2>2, <3>1 DEF CandidateIsSteady
    <3>2. CASE p \in missing
      <4>1. p \in Deletions /\ p \in quiet
        BY <1>5, <2>2, <3>2
      <4>2. files[p].presence = "deleted" /\ files[p].ranges = Change(p)
        BY <1>4, <1>7, <2>2, <3>2, <4>1
      <4>3. job.scope.diff = DiffOf(job.source)
        BY <1>15 DEF Steady, Drifted, Scope
      <4>4. Change(p) = job.scope.diff[p]
        BY <2>2, <4>3 DEF Change, Units
      <4>5. job.scope.diff[p][2].mode = "none"
        BY <4>1 DEF Deletions
      <4> QED BY <4>2, <4>4, <4>5 DEF IsOf
    <3> QED BY <1>6, <3>1, <3>2
  <2> QED BY <1>1, <1>2, <1>8, <1>9, <2>2 DEF CandidateIsSteady, Preparing, IsOf
<1> QED BY <1>1, <1>2, <1>8, <1>9, <1>10, <1>12, <1>14, <1>15, ContentStep DEF Preparing, Typed, TypeOK

-----------------------------------------------------------------------------
(* The manifest: GitRepositoryManifestSource, and the closing revalidation *)

LEMMA ReadCandidateSafe ==
  ASSUME Inv, NEW p, ReadCandidate(p)
  PROVE  Inv'
<1> USE DEF Inv
<1> DEFINE reads == Only(p, ReadFinds(p)) ++ content.reads
<1>1. /\ job.step = "reading" /\ UNCHANGED <<head, commit, index, disk, edits, strayed, late, job, manifest, shot>>
      /\ p \in DOMAIN content.files /\ ReadFinds(p) # "error" /\ content' = [content EXCEPT !.reads = reads]
  BY DEF ReadCandidate, Mine, repo
<1>2. ReadFinds(p) = content.files[p].identity
  BY <1>1 DEF ReadFinds
<1>3. /\ DOMAIN reads = DOMAIN content.reads \cup {p} /\ reads[p] = content.files[p].identity
      /\ \A q \in DOMAIN content.reads \ {p} : reads[q] = content.reads[q]
  BY <1>2 DEF ++, Only
<1> HIDE DEF reads
<1>4. /\ DOMAIN content' = DOMAIN content /\ content'.files = content.files /\ content'.errors = content.errors
      /\ content'.reads = reads /\ content'.reserved = content.reserved
  BY <1>1 DEF Typed
<1>5. Still /\ job.kind = "review"
  BY <1>1, KindFacts DEF Still, Placed
<1>6. Typed'
  BY <1>1, <1>4 DEF Typed, QueueTyped, CandidateTyped, TypeOK, Units
<1>7. Placed'
  BY <1>1, <1>4, <1>5 DEF Placed, Preparing, Entering, Opened, Factual
<1>8. Prepared'
  <2>1. ~InHand' /\ Held' = 0 /\ ~InHand /\ Held = 0
    BY <1>1 DEF InHand, Held
  <2>2. Readable' = Readable /\ Units' = Units
    BY <1>1, <1>4 DEF Readable, Units
  <2> QED BY <1>1, <1>4, <2>1, <2>2 DEF Prepared
<1>9. Manifested' /\ Copied'
  BY <1>1 DEF Manifested, Copied
<1>11. Faithful'
  <2>1. CandidateIsSteady => CandidateIsSteady'
    BY <1>1, <1>4 DEF CandidateIsSteady, Preparing, Units, IsOf
  <2>2. ManifestIsSteady'
    BY <1>1 DEF ManifestIsSteady, Factual
  <2> QED BY <1>1, <1>5, <2>1, <2>2, StillSteady DEF Faithful
<1> QED BY <1>6, <1>7, <1>8, <1>9, <1>11

\* What remains to be shown of a step of the manifest.
LEMMA ManifestStep ==
  ASSUME Inv, UNCHANGED <<head, commit, index, disk, edits, strayed, late, content, shot>>,
         job.step \in Opened, job'.step \in (Opened \cup {"failed"}) \ {"reading"},
         job'.kind = job.kind, job'.source = job.source, job'.scope = job.scope, DOMAIN job' = DOMAIN job,
         QueueTyped', DOMAIN manifest' = DOMAIN manifest,
         Measured(manifest'.entries), manifest'.bytes \in 0..TotalLimit,
         job'.step \in {"locator", "manifest"} => manifest'.entries = Nothing /\ manifest'.bytes = 0,
         job'.step \in {"locator", "manifest", "seal"} \cup Entering => manifest'.facts = Nothing /\ ~manifest'.complete,
         manifest'.complete => ~manifest'.truncated,
         job'.step \in Entering =>
           /\ job.source = "unstaged" /\ DOMAIN job'.queue # {}
           /\ DOMAIN job'.queue \cap DOMAIN manifest'.entries = {},
         Manifested',
         Steady => ManifestIsSteady',
         job'.step = "released" => ~late /\ ~Drifted
  PROVE  Inv'
<1> USE DEF Inv
<1>1. job.kind = "review" /\ shot = NoShot /\ job.scope.commit # 0
  BY KindFacts DEF Placed, Opened, Factual, Entering
<1>2. Still
  BY DEF Still
<1>3. Typed'
  BY DEF Typed, CandidateTyped, TypeOK, Units, Measured
<1>4. Placed'
  BY <1>1 DEF Placed, Preparing, Entering, Opened, Factual
<1>5. Prepared'
  BY PreparedKept DEF Opened, Factual, Entering, Preparing
<1>6. Copied'
  BY <1>1, <1>4, SnapshotKept
<1>8. Steady => CandidateIsSteady'
  BY CandidateKept DEF Faithful, Preparing, Opened, Factual, Entering
<1>9. Faithful'
  BY <1>2, <1>8, StillSteady DEF Faithful
<1> QED BY <1>3, <1>4, <1>5, <1>6, <1>9

LEMMA ReadOpeningTreeSafe ==
  ASSUME Inv, ReadOpeningTree
  PROVE  Inv'
<1> USE DEF Inv
<1>1. /\ job.step = "reading" /\ UNCHANGED <<head, commit, index, disk, edits, strayed, late, content, shot>>
      /\ manifest' = [manifest EXCEPT !.tree = head]
      /\ Goto("failed") \/ Goto("locator")
  BY DEF ReadOpeningTree, Mine, repo
<1>2. /\ job'.step \in {"failed", "locator"} /\ job'.queue = job.queue /\ job'.item = job.item
      /\ job'.kind = job.kind /\ job'.source = job.source /\ job'.scope = job.scope /\ DOMAIN job' = DOMAIN job
  BY <1>1, GotoFacts
<1>3. manifest = NoManifest
  BY <1>1 DEF Placed
<1>4. /\ DOMAIN manifest' = DOMAIN manifest /\ manifest'.tree = head /\ manifest'.entries = Nothing
      /\ manifest'.bytes = 0 /\ manifest'.facts = Nothing /\ ~manifest'.complete
  BY <1>1, <1>3 DEF NoManifest
<1>5. Manifested'
  BY <1>4, NothingDomain, BytesOfNothing DEF Manifested
<1>6. Measured(manifest'.entries) /\ manifest'.bytes \in 0..TotalLimit /\ QueueTyped'
  BY <1>2, <1>4, NothingDomain, CaptureAssumption DEF Measured, QueueTyped, Typed
<1>7. ManifestIsSteady'
  BY <1>1, <1>2, <1>4 DEF ManifestIsSteady, Factual
<1>8. DOMAIN manifest'.facts = {}
  BY <1>4, NothingDomain
<1> QED BY <1>1, <1>2, <1>4, <1>5, <1>6, <1>7, <1>8, ManifestStep DEF Opened, Factual, Entering

LEMMA ReadLocatorSafe ==
  ASSUME Inv, ReadLocator
  PROVE  Inv'
<1> USE DEF Inv
<1> DEFINE seen == IF job.source = "branch" THEN Nothing ELSE index
<1>1. /\ job.step = "locator" /\ UNCHANGED <<head, commit, index, disk, edits, strayed, late, content, shot>>
      /\ manifest' = [manifest EXCEPT !.index = seen]
      /\ Goto("failed") \/ Goto("manifest")
  BY DEF ReadLocator, Mine, repo
<1>2. /\ job'.step \in {"failed", "manifest"} /\ job'.queue = job.queue /\ job'.item = job.item
      /\ job'.kind = job.kind /\ job'.source = job.source /\ job'.scope = job.scope /\ DOMAIN job' = DOMAIN job
  BY <1>1, GotoFacts
<1>3. manifest.entries = Nothing /\ manifest.bytes = 0 /\ manifest.facts = Nothing /\ ~manifest.complete
  BY <1>1 DEF Placed
<1>4. /\ DOMAIN manifest' = DOMAIN manifest /\ manifest'.tree = manifest.tree /\ manifest'.index = seen
      /\ manifest'.entries = Nothing /\ manifest'.bytes = 0 /\ manifest'.facts = Nothing /\ ~manifest'.complete
  BY <1>1, <1>3 DEF Typed
<1>5. Manifested'
  BY <1>4, NothingDomain, BytesOfNothing DEF Manifested
<1>6. Measured(manifest'.entries) /\ manifest'.bytes \in 0..TotalLimit /\ QueueTyped'
  BY <1>2, <1>4, NothingDomain, CaptureAssumption DEF Measured, QueueTyped, Typed
<1>7. Steady => ManifestIsSteady'
  BY <1>1, <1>2, <1>4 DEF Faithful, ManifestIsSteady, Factual
<1>8. DOMAIN manifest'.facts = {}
  BY <1>4, NothingDomain
<1> QED BY <1>1, <1>2, <1>4, <1>5, <1>6, <1>7, <1>8, ManifestStep DEF Opened, Factual, Entering

LEMMA SealManifestSafe ==
  ASSUME Inv, SealManifest
  PROVE  Inv'
<1> USE DEF Inv
<1> DEFINE whole == ~manifest.truncated /\ \A p \in DOMAIN manifest.entries : manifest.entries[p].status = "completed"
<1>1. /\ job.step = "seal" /\ UNCHANGED <<head, commit, index, disk, edits, strayed, late, content, shot>>
      /\ manifest' = [manifest EXCEPT !.misled = strayed, !.complete = whole]
      /\ Goto("failed") \/ Goto("facts")
  BY DEF SealManifest, Mine, repo
<1>2. /\ job'.step \in {"failed", "facts"} /\ job'.queue = job.queue /\ job'.item = job.item
      /\ job'.kind = job.kind /\ job'.source = job.source /\ job'.scope = job.scope /\ DOMAIN job' = DOMAIN job
  BY <1>1, GotoFacts
<1>3. whole => ~manifest.truncated
  OBVIOUS
<1> HIDE DEF whole
<1>4. /\ DOMAIN manifest' = DOMAIN manifest /\ manifest'.tree = manifest.tree /\ manifest'.index = manifest.index
      /\ manifest'.entries = manifest.entries /\ manifest'.bytes = manifest.bytes /\ manifest'.facts = Nothing
      /\ manifest'.truncated = manifest.truncated /\ manifest'.complete = whole
  BY <1>1 DEF Typed, Placed
<1>5. Manifested' /\ Measured(manifest'.entries) /\ manifest'.bytes \in 0..TotalLimit /\ QueueTyped'
  BY <1>2, <1>4 DEF Manifested, Typed, TypeOK, QueueTyped
<1>6. ASSUME Steady PROVE ManifestIsSteady'
  <2>1. job.source \in Git => EntriesAreLocated
    BY <1>1, <1>6 DEF Faithful, ManifestIsSteady, Factual
  <2>2. EntriesAreLocated => EntriesAreLocated'
    BY <1>2, <1>4 DEF EntriesAreLocated, Located
  <2> QED BY <2>1, <2>2, <1>2 DEF ManifestIsSteady, Factual
<1>7. DOMAIN manifest'.facts = {}
  BY <1>4, NothingDomain
<1> QED BY <1>1, <1>2, <1>3, <1>4, <1>5, <1>6, <1>7, ManifestStep DEF Opened, Factual, Entering

\* A step that reads a fact leaves the entries alone.
LEMMA FactSafe ==
  ASSUME Inv, job.step \in Factual, UNCHANGED <<head, commit, index, disk, edits, strayed, late, content, shot>>,
         job'.step \in Factual \cup {"failed"}, QueueTyped',
         job'.kind = job.kind, job'.source = job.source, job'.scope = job.scope, DOMAIN job' = DOMAIN job,
         DOMAIN manifest' = DOMAIN manifest, manifest'.tree = manifest.tree, manifest'.index = manifest.index,
         manifest'.entries = manifest.entries, manifest'.bytes = manifest.bytes,
         manifest'.truncated = manifest.truncated, manifest'.complete = manifest.complete
  PROVE  Inv'
<1> USE DEF Inv
<1>1. /\ Manifested' /\ Measured(manifest'.entries) /\ manifest'.bytes \in 0..TotalLimit
      /\ manifest'.complete => ~manifest'.truncated
  BY DEF Manifested, Typed, TypeOK, Placed
<1>2. ASSUME Steady PROVE ManifestIsSteady'
  <2>1. job.source \in Git => EntriesAreLocated
    BY <1>2 DEF Faithful, ManifestIsSteady, Factual
  <2>2. EntriesAreLocated => EntriesAreLocated'
    BY DEF EntriesAreLocated, Located
  <2> QED BY <2>1, <2>2 DEF ManifestIsSteady, Factual
<1>3. /\ job'.step \notin {"reading", "released", "locator", "manifest", "seal"} \cup Entering
      /\ job.step \in Opened /\ job'.step \in Opened \cup {"failed"}
  BY DEF Factual, Entering, Opened
<1> QED BY <1>1, <1>2, <1>3, ManifestStep

LEMMA ReadFactSafe ==
  ASSUME Inv, StartFact \/ (\E p \in Paths : ListFact(p)) \/ InspectFact \/ ReadFact \/ AcceptFact
  PROVE  Inv'
<1> USE DEF Inv
<1>1. ASSUME NEW step \in Factual \cup {"failed"}, Goto(step), job.step \in Factual,
             UNCHANGED <<head, commit, index, disk, edits, strayed, late, content, manifest, shot>>
      PROVE  Inv'
  <2>1. QueueTyped'
    BY <1>1, GotoFacts DEF Typed, QueueTyped
  <2> QED BY <1>1, <2>1, GotoFacts, FactSafe
<1>2. ASSUME NEW step \in Factual, NEW item, ToStep(step, item), job.step \in Factual,
             UNCHANGED <<head, commit, index, disk, edits, strayed, late, content, manifest, shot>>
      PROVE  Inv'
  <2>1. QueueTyped'
    BY <1>2, ToStepFacts DEF Typed, QueueTyped
  <2> QED BY <1>2, <2>1, ToStepFacts, FactSafe
<1>3. CASE StartFact
  BY <1>1, <1>3 DEF StartFact, Mine, repo, Factual
<1>4. ASSUME NEW p \in Paths, ListFact(p) PROVE Inv'
  <2>1. /\ job.step \in Factual
        /\ UNCHANGED <<head, commit, index, disk, edits, strayed, late, content, manifest, shot>>
    BY <1>4 DEF ListFact, Mine, repo, Factual
  <2>2. CASE Goto("failed")
    BY <1>1, <2>1, <2>2
  <2>3. CASE ~Goto("failed")
    <3> DEFINE queue == Only(p, GitTree[p])
               step == IF job.source = "unstaged" THEN "fact-mode" ELSE "fact-read"
    <3>1. job' = [job EXCEPT !.queue = queue, !.item = NoItem, !.step = step]
      BY <1>4, <2>3 DEF ListFact
    <3>2. GitTree[p] \in Records
      <4>1. GitTree[p] \in Entries /\ GitTree[p].mode # "none"
        BY <1>4, <2>3, GitTreeTyped DEF ListFact, Trees
      <4> QED BY <4>1, EntryFacts
    <3>3. DOMAIN queue = {p} /\ queue[p] = GitTree[p]
      BY DEF Only
    <3>4. step \in Factual
      BY DEF Factual
    <3> HIDE DEF queue, step
    <3>5. /\ job'.queue = queue /\ job'.step = step
          /\ job'.kind = job.kind /\ job'.source = job.source /\ job'.scope = job.scope /\ DOMAIN job' = DOMAIN job
      BY <3>1 DEF Typed
    <3>6. QueueTyped'
      BY <3>2, <3>3, <3>5 DEF QueueTyped
    <3> QED BY <2>1, <3>4, <3>5, <3>6, FactSafe
  <2> QED BY <2>2, <2>3
<1>5. CASE InspectFact
  BY <1>2, <1>5 DEF InspectFact, Mine, repo, Factual
<1>6. CASE ReadFact
  <2>1. /\ job.step \in Factual
        /\ UNCHANGED <<head, commit, index, disk, edits, strayed, late, content, manifest, shot>>
        /\ Goto("failed") \/ \E item : ToStep("fact-check", item)
    BY <1>6 DEF ReadFact, Mine, repo, Factual
  <2> QED BY <1>1, <1>2, <2>1 DEF Factual
<1>7. CASE AcceptFact
  <2>1. job.step \in Factual /\ UNCHANGED <<head, commit, index, disk, edits, strayed, late, content, shot>>
    BY <1>7 DEF AcceptFact, Mine, Fail, repo, Factual
  <2>2. CASE Fail
    BY <1>1, <2>1, <2>2 DEF Fail
  <2>3. CASE ~Fail
    <3>1. Goto("facts") /\ \E facts : manifest' = [manifest EXCEPT !.facts = facts]
      BY <1>7, <2>3 DEF AcceptFact
    <3>2. /\ DOMAIN manifest' = DOMAIN manifest /\ manifest'.tree = manifest.tree /\ manifest'.index = manifest.index
          /\ manifest'.entries = manifest.entries /\ manifest'.bytes = manifest.bytes
          /\ manifest'.truncated = manifest.truncated /\ manifest'.complete = manifest.complete
      BY <3>1 DEF Typed
    <3>3. QueueTyped'
      BY <3>1, GotoFacts DEF Typed, QueueTyped
    <3> QED BY <2>1, <3>1, <3>2, <3>3, GotoFacts, FactSafe DEF Factual
  <2> QED BY <2>2, <2>3
<1> QED BY <1>3, <1>4, <1>5, <1>6, <1>7

\* The closing revalidation releases what stood still, and only that.
LEMMA RevalidateSafe ==
  ASSUME Inv, Revalidate
  PROVE  Inv'
<1> USE DEF Inv
<1>1. /\ job.step \in {"reading", "facts"}
      /\ UNCHANGED <<head, commit, index, disk, edits, strayed, late, content, manifest, shot>>
      /\ Goto("invalidated") \/ (Goto("released") /\ ~Drifted /\ ~late)
  BY DEF Revalidate, Mine, repo
<1>2. /\ job'.step \in {"invalidated", "released"} /\ (job'.step = "released" => ~late /\ ~Drifted)
      /\ job'.queue = job.queue /\ job'.item = job.item
      /\ job'.kind = job.kind /\ job'.source = job.source /\ job'.scope = job.scope /\ DOMAIN job' = DOMAIN job
  <2>1. CASE Goto("invalidated")
    BY <2>1, GotoFacts
  <2>2. CASE Goto("released") /\ ~Drifted /\ ~late
    BY <2>2, GotoFacts
  <2> QED BY <1>1, <2>1, <2>2
<1>3. /\ Manifested' /\ Measured(manifest'.entries) /\ manifest'.bytes \in 0..TotalLimit /\ QueueTyped'
      /\ manifest'.complete => ~manifest'.truncated
  BY <1>1, <1>2 DEF Manifested, Typed, TypeOK, QueueTyped, Placed
<1>4. ASSUME Steady PROVE ManifestIsSteady'
  <2>1. job.source \in Git => manifest = NoManifest \/ EntriesAreLocated
    BY <1>1, <1>4 DEF Faithful, ManifestIsSteady, Placed, Factual
  <2>2. EntriesAreLocated => EntriesAreLocated'
    BY <1>1, <1>2 DEF EntriesAreLocated, Located
  <2> QED BY <1>1, <1>2, <2>1, <2>2 DEF ManifestIsSteady, Factual
<1> QED BY <1>1, <1>2, <1>3, <1>4, ManifestStep DEF Opened, Factual, Entering, Factual

LEMMA InspectEntrySafe ==
  ASSUME Inv, InspectEntry
  PROVE  Inv'
<1> USE DEF Inv
<1> DEFINE item == [NoItem EXCEPT !.mode = UnstagedMode(Path, Record.mode)]
<1>1. /\ job.step = "entry-mode"
      /\ UNCHANGED <<head, commit, index, disk, edits, strayed, late, content, manifest, shot>>
      /\ ToStep("entry-size", item)
  BY DEF InspectEntry, Mine, repo
<1> HIDE DEF item
<1>2. /\ job'.step = "entry-size" /\ job'.queue = job.queue
      /\ job'.kind = job.kind /\ job'.source = job.source /\ job'.scope = job.scope /\ DOMAIN job' = DOMAIN job
  BY <1>1, ToStepFacts
<1>3. /\ Manifested' /\ Measured(manifest'.entries) /\ manifest'.bytes \in 0..TotalLimit /\ QueueTyped'
      /\ manifest'.complete => ~manifest'.truncated
  BY <1>1, <1>2 DEF Manifested, Typed, TypeOK, QueueTyped, Placed
<1>4. /\ job.source = "unstaged" /\ DOMAIN job.queue # {} /\ DOMAIN job.queue \cap DOMAIN manifest.entries = {}
      /\ manifest.facts = Nothing /\ ~manifest.complete
  BY <1>1 DEF Placed, Entering
<1>5. ManifestIsSteady' /\ DOMAIN manifest.facts = {}
  BY <1>2, <1>4, NothingDomain DEF ManifestIsSteady, Factual
<1> QED BY <1>1, <1>2, <1>3, <1>4, <1>5, ManifestStep DEF Opened, Factual, Entering

\* A path is entered in the manifest, with a text that fits or with none.
LEMMA EnterSafe ==
  ASSUME Inv, job.step \in Entering, UNCHANGED <<head, commit, index, disk, edits, strayed, late, content, shot>>,
         NEW entry, entry.text \in DOMAIN Bytes, NEW bytes, bytes = Bytes[entry.text],
         bytes <= FileLimit, manifest.bytes + bytes <= TotalLimit, Enter(entry, bytes), NextEntry
  PROVE  Inv'
<1> USE DEF Inv
<1> DEFINE entries == Only(Path, entry) ++ manifest.entries
<1>1. /\ Path \in DOMAIN job.queue /\ Path \in Paths /\ Path \notin DOMAIN manifest.entries
      /\ job.source = "unstaged" /\ manifest.facts = Nothing /\ ~manifest.complete
  BY PathFacts DEF Placed
<1>2. manifest' = [manifest EXCEPT !.entries = entries, !.bytes = manifest.bytes + bytes]
  BY DEF Enter
<1>3. /\ DOMAIN entries = DOMAIN manifest.entries \cup {Path} /\ entries[Path] = entry
      /\ \A q \in DOMAIN manifest.entries : entries[q] = manifest.entries[q]
  BY <1>1 DEF ++, Only
<1> HIDE DEF entries
<1>4. /\ DOMAIN manifest' = DOMAIN manifest /\ manifest'.entries = entries /\ manifest'.bytes = manifest.bytes + bytes
      /\ manifest'.facts = Nothing /\ ~manifest'.complete
  BY <1>1, <1>2 DEF Typed
<1>5. Measured(manifest.entries) /\ manifest.bytes \in 0..TotalLimit /\ manifest.bytes \in Nat /\ bytes \in Nat
  BY TextSizes, CaptureAssumption DEF Typed, TypeOK
<1>6. Measured(entries) /\ BytesOf(entries) = bytes + BytesOf(manifest.entries)
  <2>1. Path \in Paths \ DOMAIN manifest.entries /\ entries[Path].text \in DOMAIN Bytes
    BY <1>1, <1>3
  <2>2. \A q \in DOMAIN manifest.entries : entries[q].text = manifest.entries[q].text
    BY <1>3
  <2>3. Measured(entries) /\ BytesOf(entries) = Bytes[entries[Path].text] + BytesOf(manifest.entries)
    BY <1>3, <1>5, <2>1, <2>2, BytesGrow
  <2> QED BY <1>3, <2>3
<1>7. Manifested'
  <2>1. BytesOf(manifest.entries) <= manifest.bytes /\ BytesOf(manifest.entries) \in Nat
    BY <1>5, BytesOfMeasured DEF Manifested
  <2>2. BytesOf(entries) <= manifest.bytes + bytes
    BY <1>5, <1>6, <2>1
  <2> QED BY <1>3, <1>4, <2>2 DEF Manifested
<1>8. manifest'.bytes \in 0..TotalLimit
  BY <1>4, <1>5, CaptureAssumption
<1>9. /\ job'.step \in {"failed", "entry-mode", "seal"}
      /\ job'.kind = job.kind /\ job'.source = job.source /\ job'.scope = job.scope /\ DOMAIN job' = DOMAIN job
      /\ QueueTyped'
      /\ job'.step = "entry-mode" => DOMAIN job'.queue # {} /\ DOMAIN job'.queue = DOMAIN job.queue \ {Path}
  <2>1. CASE Goto("failed")
    BY <2>1, GotoFacts DEF Typed, QueueTyped
  <2>2. CASE NextRecord("entry-mode", "seal")
    BY <2>2, NextRecordFacts
  <2> QED BY <2>1, <2>2 DEF NextEntry
<1>10. job'.step \in Entering => DOMAIN job'.queue # {} /\ DOMAIN job'.queue \cap DOMAIN entries = {}
  BY <1>3, <1>9 DEF Placed, Entering
<1>11. ManifestIsSteady' /\ DOMAIN Nothing = {}
  BY <1>1, <1>9, NothingDomain DEF ManifestIsSteady, Git, Factual
<1> QED BY <1>1, <1>4, <1>6, <1>7, <1>8, <1>9, <1>10, <1>11, ManifestStep DEF Opened, Factual, Entering

LEMMA MeasureEntrySafe ==
  ASSUME Inv, MeasureEntry
  PROVE  Inv'
<1>1. /\ job.step = "entry-size" /\ UNCHANGED <<head, commit, index, disk, edits, strayed, late, content, shot>>
  BY DEF MeasureEntry, Mine, repo
<1>2. \/ Enter(Completed("gitlink", "gitlink", "none"), 0) /\ NextEntry
      \/ Enter(Completed("none", "deleted", "none"), 0) /\ NextEntry
      \/ Enter(Limited(job.item.mode, "unavailable"), 0) /\ NextEntry
      \/ Goto("entry-hash") /\ manifest' = manifest
  BY <1>1 DEF MeasureEntry, Gone, Unreadable
<1>3. 0 = Bytes["none"] /\ 0 <= FileLimit /\ manifest.bytes + 0 <= TotalLimit /\ "none" \in DOMAIN Bytes
  BY CaptureAssumption DEF Inv, Typed, TypeOK
<1>4. job.step \in Entering
  BY <1>1 DEF Entering
<1>5. ASSUME NEW entry, entry.text = "none", Enter(entry, 0), NextEntry PROVE Inv'
  BY <1>1, <1>3, <1>4, <1>5, EnterSafe
<1>6. /\ Completed("gitlink", "gitlink", "none").text = "none" /\ Completed("none", "deleted", "none").text = "none"
      /\ Limited(job.item.mode, "unavailable").text = "none"
  BY DEF Completed, Limited
<1>7. CASE Goto("entry-hash") /\ manifest' = manifest
  <2> USE DEF Inv
  <2>1. /\ job'.step = "entry-hash" /\ job'.queue = job.queue
        /\ job'.kind = job.kind /\ job'.source = job.source /\ job'.scope = job.scope /\ DOMAIN job' = DOMAIN job
    BY <1>7, GotoFacts
  <2>2. /\ Manifested' /\ Measured(manifest'.entries) /\ manifest'.bytes \in 0..TotalLimit /\ QueueTyped'
        /\ manifest'.complete => ~manifest'.truncated
    BY <1>7, <2>1 DEF Manifested, Typed, TypeOK, QueueTyped, Placed
  <2>3. /\ job.source = "unstaged" /\ DOMAIN job.queue # {} /\ DOMAIN job.queue \cap DOMAIN manifest.entries = {}
        /\ manifest.facts = Nothing /\ ~manifest.complete
    BY <1>4 DEF Placed
  <2>4. ManifestIsSteady' /\ DOMAIN manifest.facts = {}
    BY <2>1, <2>3, NothingDomain DEF ManifestIsSteady, Factual
  <2> QED BY <1>1, <1>4, <1>7, <2>1, <2>2, <2>3, <2>4, ManifestStep DEF Opened, Factual, Entering
<1> QED BY <1>2, <1>5, <1>6, <1>7

LEMMA HashEntrySafe ==
  ASSUME Inv, HashEntry
  PROVE  Inv'
<1> DEFINE outcome == HashOf(Path, job.item.mode, TotalLimit - manifest.bytes)
           text == disk[Path].text
           read == Completed(job.item.mode, "present", text)
           none == Limited(job.item.mode, IF outcome = "unavailable" THEN outcome ELSE "budget-exhausted")
<1>1. /\ job.step = "entry-hash" /\ UNCHANGED <<head, commit, index, disk, edits, strayed, late, content, shot>>
      /\ NextEntry /\ IF outcome = "hashed" THEN Enter(read, Bytes[text]) ELSE Enter(none, 0)
  BY DEF HashEntry, Mine, repo
<1>2. job.step \in Entering
  BY <1>1 DEF Entering
<1>3. manifest.bytes \in 0..TotalLimit /\ manifest.bytes \in Nat /\ FileLimit \in Nat /\ TotalLimit \in Nat
  BY CaptureAssumption DEF Inv, Typed, TypeOK
<1>4. CASE outcome = "hashed"
  <2>1. ~(Bytes[text] > FileLimit) /\ ~(Bytes[text] > TotalLimit - manifest.bytes)
    BY <1>4 DEF HashOf
  <2>2. text \in DOMAIN Bytes /\ Bytes[text] \in Nat
    <3>1. Path \in Paths
      BY <1>2, PathFacts DEF Inv
    <3> QED BY <3>1, EntryFacts, TextSizes DEF Inv, Typed, TypeOK, Trees
  <2>3. Bytes[text] <= FileLimit /\ manifest.bytes + Bytes[text] <= TotalLimit
    BY <1>3, <2>1, <2>2
  <2>4. read.text = text /\ Enter(read, Bytes[text])
    BY <1>1, <1>4 DEF Completed
  <2> HIDE DEF read, text, outcome
  <2> QED BY <1>1, <1>2, <2>2, <2>3, <2>4, EnterSafe
<1>5. CASE outcome # "hashed"
  <2>1. none.text = "none" /\ Enter(none, 0)
    BY <1>1, <1>5 DEF Limited
  <2>2. 0 = Bytes["none"] /\ 0 <= FileLimit /\ manifest.bytes + 0 <= TotalLimit /\ "none" \in DOMAIN Bytes
    BY <1>3, CaptureAssumption
  <2> HIDE DEF none, outcome
  <2> QED BY <1>1, <1>2, <2>1, <2>2, EnterSafe
<1> QED BY <1>4, <1>5

\* The listing, with the deleted paths that git does not list.
LEMMA DeletedFacts ==
  ASSUME Typed, NEW records, records = DeletedRecords(Listing(GitTree, Paths))
  PROVE  /\ Measured(records) /\ {p \in Paths : GitTree[p].mode # "none"} \subseteq DOMAIN records
         /\ \A p \in DOMAIN records :
              /\ records[p].mode = "none" => GitTree[p].mode = "none" /\ records[p].text = "none"
              /\ records[p].mode # "none" => records[p] = GitTree[p]
              /\ job.source = "unstaged" => records[p] \in Records
<1> DEFINE listed == Listing(GitTree, Paths)
           others == IF job.source = "staged" THEN Deletions \ DOMAIN listed ELSE {}
           deleted == [p \in others |-> Absent]
<1>1. /\ DOMAIN listed = {p \in Paths : GitTree[p].mode # "none"}
      /\ \A p \in DOMAIN listed : listed[p] = GitTree[p] /\ GitTree[p] \in Records
  BY GitTreeTyped, ListingFacts
<1>2. others \subseteq Paths \ DOMAIN listed
  BY DEF Deletions, Typed
<1>3. records = listed ++ deleted
  BY DEF DeletedRecords
<1>4. DOMAIN deleted = others /\ \A p \in others : deleted[p].mode = "none" /\ deleted[p].text = "none"
  BY DEF Absent
<1>5. job.source = "unstaged" => others = {}
  OBVIOUS
<1> HIDE DEF listed, others, deleted
<1>6. /\ DOMAIN records = DOMAIN listed \cup others
      /\ \A p \in DOMAIN listed : records[p] = listed[p]
      /\ \A p \in others : records[p] = deleted[p]
  BY <1>2, <1>3, <1>4 DEF ++
<1>7. ASSUME NEW p \in DOMAIN records
      PROVE  /\ p \in Paths /\ records[p].text \in DOMAIN Bytes
             /\ records[p].mode = "none" => GitTree[p].mode = "none" /\ records[p].text = "none"
             /\ records[p].mode # "none" => records[p] = GitTree[p]
             /\ job.source = "unstaged" => records[p] \in Records
  <2>1. CASE p \in DOMAIN listed
    <3>1. records[p] = GitTree[p] /\ GitTree[p] \in Records /\ p \in Paths
      BY <1>1, <1>6, <2>1
    <3>2. GitTree[p].mode # "none" /\ GitTree[p].text \in DOMAIN Bytes
      BY <3>1 DEF Records, Modes, Texts
    <3> QED BY <3>1, <3>2
  <2>2. CASE p \in others
    <3>1. p \in Paths /\ GitTree[p].mode = "none" /\ records[p].mode = "none" /\ records[p].text = "none"
      BY <1>1, <1>2, <1>4, <1>6, <2>2
    <3> QED BY <1>5, <2>2, <3>1, CaptureAssumption
  <2> QED BY <1>6, <2>1, <2>2
<1>8. Measured(records)
  BY <1>7 DEF Measured
<1> QED BY <1>1, <1>6, <1>7, <1>8

\* What is kept of a listing that is cut, and the path that is named.
LEMMA CutFacts ==
  ASSUME NEW records, Measured(records), NEW cut, cut = CutRecords(records)
  PROVE  /\ DOMAIN cut.kept \subseteq DOMAIN records /\ (~cut.cut => DOMAIN cut.kept = DOMAIN records)
         /\ \A p \in DOMAIN cut.kept : cut.kept[p] = records[p]
         /\ DOMAIN cut.named \subseteq DOMAIN records \ DOMAIN cut.kept
         /\ \A p \in DOMAIN cut.named : /\ cut.named[p].text = "none" /\ cut.named[p].presence = "present"
                                       /\ cut.named[p].status = "budget-exhausted"
         /\ cut.kept = Nothing <=> DOMAIN cut.kept = {}
<1> DEFINE kept == First(Min({MaxRecords, MaxRecordBytes}), DOMAIN records)
           first == Min(DOMAIN records \ kept)
           entry == Limited(records[first].mode, "budget-exhausted")
           part == Restrict(records, kept)
           named == IF kept # DOMAIN records /\ MaxRecordBytes < MaxRecords THEN Only(first, entry) ELSE Nothing
<1>1. cut = [kept |-> part, cut |-> kept # DOMAIN records, named |-> named]
  BY DEF CutRecords
<1>2. kept \subseteq DOMAIN records
  BY FirstIsPart
<1>3. /\ DOMAIN part = kept /\ (\A p \in kept : part[p] = records[p])
      /\ part = Nothing <=> kept = {}
  BY RestrictFacts
<1>4. entry.text = "none" /\ entry.presence = "present" /\ entry.status = "budget-exhausted"
  BY DEF Limited
<1>5. kept # DOMAIN records => first \in DOMAIN records \ kept
  <2> DEFINE rest == DOMAIN records \ kept
  <2>1. rest \in SUBSET Paths /\ (kept # DOMAIN records => rest # {})
    BY <1>2 DEF Measured
  <2> HIDE DEF rest
  <2>2. rest # {} => Min(rest) \in rest
    BY <2>1, FirstPath
  <2> QED BY <2>1, <2>2 DEF rest
<1> HIDE DEF kept, first, entry, part
<1>6. /\ DOMAIN named \subseteq DOMAIN records \ kept
      /\ \A p \in DOMAIN named : named[p] = entry
  BY <1>5, NothingDomain DEF Only
<1> HIDE DEF named
<1>7. cut.kept = part /\ cut.named = named
  BY <1>1
<1>8. cut.cut = (kept # DOMAIN records)
  BY <1>1
<1>9. ~cut.cut => kept = DOMAIN records
  BY <1>8
<1> QED BY <1>2, <1>3, <1>4, <1>6, <1>7, <1>9

\* The entries of the blobs that fit, and of the rest without a text.
LEMMA BlobFacts ==
  ASSUME NEW records, Measured(records), NEW blobs, blobs = BlobEntries(records)
  PROVE  /\ DOMAIN blobs.entries = DOMAIN records
         /\ \A p \in DOMAIN records : LET entry == blobs.entries[p] IN
              /\ entry.presence = "present" /\ entry.status = "completed" =>
                   entry.text = records[p].text /\ entry.mode = records[p].mode /\ records[p].mode # "none"
              /\ entry.presence = "deleted" => records[p].mode = "none"
              /\ p \in Fitting(records) => entry.text = records[p].text
              /\ p \notin Fitting(records) => entry.text = "none"
         /\ blobs.bytes = BytesOf(Restrict(records, Fitting(records)))
<1> DEFINE entries == [p \in DOMAIN records |-> BlobEntry(records[p], p \in Fitting(records))]
<1>1. blobs = [entries |-> entries, bytes |-> BytesOf(Restrict(records, Fitting(records)))]
  BY DEF BlobEntries
<1>2. \A p \in DOMAIN records : entries[p] = BlobEntry(records[p], p \in Fitting(records))
  OBVIOUS
<1>3. DOMAIN entries = DOMAIN records
  OBVIOUS
<1> HIDE DEF entries
<1>4. blobs.entries = entries /\ blobs.bytes = BytesOf(Restrict(records, Fitting(records)))
  BY <1>1
<1>5. ASSUME NEW p \in DOMAIN records
      PROVE  /\ entries[p].presence = "present" /\ entries[p].status = "completed" =>
                  /\ entries[p].text = records[p].text /\ entries[p].mode = records[p].mode
                  /\ records[p].mode # "none"
             /\ entries[p].presence = "deleted" => records[p].mode = "none"
             /\ p \in Fitting(records) => entries[p].text = records[p].text
             /\ p \notin Fitting(records) => entries[p].text = "none"
  <2>1. p \in Fitting(records) => records[p].mode \notin {"none", "gitlink"}
    BY FittingFits
  <2>2. CASE records[p].mode = "none"
    <3>1. entries[p] = Completed("none", "deleted", "none")
      BY <1>2, <2>2 DEF BlobEntry
    <3> QED BY <2>1, <2>2, <3>1 DEF Completed
  <2>3. CASE records[p].mode = "gitlink"
    <3>1. entries[p] = Completed("gitlink", "gitlink", "none")
      BY <1>2, <2>3 DEF BlobEntry
    <3> QED BY <2>1, <2>3, <3>1 DEF Completed
  <2>4. CASE records[p].mode \notin {"none", "gitlink"} /\ p \in Fitting(records)
    <3>1. entries[p] = Completed(records[p].mode, "present", records[p].text)
      BY <1>2, <2>4 DEF BlobEntry
    <3> QED BY <2>4, <3>1 DEF Completed
  <2>5. CASE records[p].mode \notin {"none", "gitlink"} /\ p \notin Fitting(records)
    <3>1. entries[p] = Limited(records[p].mode, "budget-exhausted")
      BY <1>2, <2>5 DEF BlobEntry
    <3> QED BY <2>5, <3>1 DEF Limited
  <2> QED BY <2>2, <2>3, <2>4, <2>5
<1> QED BY <1>3, <1>4, <1>5

LEMMA ListManifestSafe ==
  ASSUME Inv, ListManifest
  PROVE  Inv'
<1> USE DEF Inv
<1> DEFINE all == DeletedRecords(Listing(GitTree, Paths))
           records == CutRecords(all)
           kept == records.kept
           blobs == BlobEntries(kept)
<1>1. job.step = "manifest" /\ UNCHANGED <<head, commit, index, disk, edits, strayed, late>>
  BY DEF ListManifest, Mine, repo
<1>2. CASE late \/ Conflicts(GitTree) # {}
  BY <1>1, <1>2, FailSafe DEF ListManifest, Fail
<1>3. CASE ~(late \/ Conflicts(GitTree) # {})
  <2>1. /\ UNCHANGED <<content, shot>>
        /\ IF job.source = "unstaged"
           THEN /\ manifest' = [manifest EXCEPT !.truncated = records.cut, !.entries = records.named]
                /\ job' = [job EXCEPT !.queue = kept, !.item = NoItem, !.step = After(kept, "entry-mode", "seal")]
           ELSE /\ manifest' = [manifest EXCEPT !.truncated = records.cut, !.bytes = blobs.bytes,
                                                !.entries = blobs.entries ++ records.named]
                /\ Goto("seal")
    BY <1>3 DEF ListManifest
  <2>2. /\ Measured(all) /\ {p \in Paths : GitTree[p].mode # "none"} \subseteq DOMAIN all
        /\ \A p \in DOMAIN all :
             /\ all[p].mode = "none" => GitTree[p].mode = "none" /\ all[p].text = "none"
             /\ all[p].mode # "none" => all[p] = GitTree[p]
             /\ job.source = "unstaged" => all[p] \in Records
    BY DeletedFacts
  <2> HIDE DEF all
  <2>3. /\ DOMAIN kept \subseteq DOMAIN all /\ (~records.cut => DOMAIN kept = DOMAIN all)
        /\ \A p \in DOMAIN kept : kept[p] = all[p]
        /\ DOMAIN records.named \subseteq DOMAIN all \ DOMAIN kept
        /\ \A p \in DOMAIN records.named : /\ records.named[p].text = "none" /\ records.named[p].presence = "present"
                                          /\ records.named[p].status = "budget-exhausted"
        /\ kept = Nothing <=> DOMAIN kept = {}
    BY <2>2, CutFacts
  <2> HIDE DEF records
  <2>4. Measured(kept) /\ DOMAIN all \subseteq Paths
    BY <2>2, <2>3 DEF Measured
  <2>5. /\ manifest.entries = Nothing /\ manifest.bytes = 0 /\ manifest.facts = Nothing /\ ~manifest.complete
    BY <1>1 DEF Placed
  <2>6. 0 \in 0..TotalLimit /\ 0 <= FileLimit /\ Bytes["none"] = 0 /\ "none" \in DOMAIN Bytes /\ DOMAIN Nothing = {}
    BY CaptureAssumption, NothingDomain
  <2>7. CASE job.source = "unstaged"
    <3>1. /\ manifest' = [manifest EXCEPT !.truncated = records.cut, !.entries = records.named]
          /\ job' = [job EXCEPT !.queue = kept, !.item = NoItem, !.step = After(kept, "entry-mode", "seal")]
      BY <2>1, <2>7
    <3>2. /\ DOMAIN manifest' = DOMAIN manifest /\ manifest'.entries = records.named /\ manifest'.bytes = 0
          /\ manifest'.facts = Nothing /\ ~manifest'.complete
      BY <2>5, <3>1 DEF Typed
    <3> HIDE DEF kept
    <3>3. /\ job'.step \in {"entry-mode", "seal"} /\ (job'.step = "entry-mode" => DOMAIN kept # {})
          /\ job'.queue = kept
          /\ job'.kind = job.kind /\ job'.source = job.source /\ job'.scope = job.scope /\ DOMAIN job' = DOMAIN job
      BY <2>3, <3>1 DEF Typed, After
    <3>4. QueueTyped'
      BY <2>2, <2>3, <2>4, <2>7, <3>3 DEF QueueTyped
    <3>5. Measured(records.named)
      BY <2>3, <2>4, <2>6 DEF Measured
    <3>6. BytesOf(records.named) = 0
      <4>1. DOMAIN Nothing \subseteq DOMAIN records.named /\ \A q \in DOMAIN Nothing : Nothing[q].text = records.named[q].text
        BY <2>6
      <4>2. \A q \in DOMAIN records.named \ DOMAIN Nothing : records.named[q].text = "none"
        BY <2>3
      <4>3. BytesOf(records.named) = BytesOf(Nothing)
        BY <3>5, <4>1, <4>2, BytesOfPart
      <4> QED BY <2>6, <4>3, BytesOfNothing
    <3>7. Manifested'
      BY <2>3, <2>6, <3>2, <3>6 DEF Manifested
    <3>8. ManifestIsSteady'
      BY <2>7, <3>3 DEF ManifestIsSteady, Git, Factual
    <3>9. DOMAIN kept \cap DOMAIN records.named = {}
      BY <2>3
    <3> QED BY <1>1, <2>1, <2>6, <2>7, <3>2, <3>3, <3>4, <3>5, <3>7, <3>8, <3>9, ManifestStep DEF Opened, Factual, Entering
  <2>8. CASE job.source # "unstaged"
    <3> DEFINE entries == blobs.entries ++ records.named
               fitting == Fitting(kept)
               part == Restrict(kept, fitting)
    <3>1. Goto("seal") /\ manifest' = [manifest EXCEPT !.truncated = records.cut, !.bytes = blobs.bytes, !.entries = entries]
      BY <2>1, <2>8
    <3>2. /\ DOMAIN blobs.entries = DOMAIN kept
          /\ \A p \in DOMAIN kept : LET entry == blobs.entries[p] IN
               /\ entry.presence = "present" /\ entry.status = "completed" =>
                    entry.text = kept[p].text /\ entry.mode = kept[p].mode /\ kept[p].mode # "none"
               /\ entry.presence = "deleted" => kept[p].mode = "none"
               /\ p \in fitting => entry.text = kept[p].text
               /\ p \notin fitting => entry.text = "none"
          /\ blobs.bytes = BytesOf(part)
      BY <2>4, BlobFacts
    <3>3. /\ fitting \subseteq DOMAIN kept /\ (\A p \in fitting : Bytes[kept[p].text] <= FileLimit)
          /\ Measured(part) /\ BytesOf(part) <= TotalLimit
      BY <2>4, FittingFits
    <3>4. DOMAIN part = fitting /\ \A p \in fitting : part[p] = kept[p]
      BY RestrictFacts
    <3> HIDE DEF blobs, fitting, part, kept
    <3>5. /\ DOMAIN entries = DOMAIN kept \cup DOMAIN records.named
          /\ \A p \in DOMAIN kept : entries[p] = blobs.entries[p]
          /\ \A p \in DOMAIN records.named : entries[p] = records.named[p]
      BY <2>3, <3>2 DEF ++
    <3> HIDE DEF entries
    <3>6. /\ DOMAIN manifest' = DOMAIN manifest /\ manifest'.entries = entries /\ manifest'.bytes = BytesOf(part)
          /\ manifest'.facts = Nothing /\ ~manifest'.complete /\ manifest'.truncated = records.cut
          /\ manifest'.tree = manifest.tree /\ manifest'.index = manifest.index
      BY <2>5, <3>1, <3>2 DEF Typed
    <3>7. /\ job'.step = "seal" /\ job'.queue = job.queue
          /\ job'.kind = job.kind /\ job'.source = job.source /\ job'.scope = job.scope /\ DOMAIN job' = DOMAIN job
      BY <3>1, GotoFacts
    <3>8. Measured(entries)
      <4>1. \A p \in DOMAIN kept : entries[p].text \in DOMAIN Bytes
        BY <2>4, <2>6, <3>2, <3>5 DEF Measured
      <4>2. \A p \in DOMAIN records.named : entries[p].text \in DOMAIN Bytes
        BY <2>3, <2>6, <3>5
      <4>3. DOMAIN entries \subseteq Paths
        BY <2>3, <2>4, <3>5
      <4> QED BY <3>5, <4>1, <4>2, <4>3 DEF Measured
    <3>9. BytesOf(entries) = BytesOf(part)
      <4>1. DOMAIN part \subseteq DOMAIN entries /\ \A q \in DOMAIN part : part[q].text = entries[q].text
        BY <3>2, <3>3, <3>4, <3>5
      <4>2. \A q \in DOMAIN entries \ DOMAIN part : entries[q].text = "none"
        BY <2>3, <3>2, <3>4, <3>5
      <4> QED BY <3>8, <4>1, <4>2, BytesOfPart
    <3>10. BytesOf(part) \in Nat /\ BytesOf(part) \in 0..TotalLimit
      BY <3>3, BytesOfMeasured, CaptureAssumption
    <3>11. Manifested'
      <4>1. ASSUME NEW p \in DOMAIN entries PROVE Bytes[entries[p].text] <= FileLimit
        <5>1. CASE p \in fitting
          BY <3>2, <3>3, <3>5, <5>1
        <5>2. CASE p \notin fitting
          BY <2>3, <2>6, <3>2, <3>5, <5>2
        <5> QED BY <5>1, <5>2
      <4> QED BY <3>6, <3>9, <3>10, <4>1 DEF Manifested
    <3>12. ASSUME Steady PROVE ManifestIsSteady'
      <4>1. \A p \in Paths : Located(p)' = GitTree[p]
        BY <1>1, <2>8, <3>6, <3>7, <3>12, SourceNames DEF Faithful, ManifestIsSteady, Located, GitTree
      <4>2. ASSUME NEW p \in DOMAIN entries
            PROVE  /\ entries[p].presence = "present" /\ entries[p].status = "completed" =>
                        entries[p].text = GitTree[p].text /\ entries[p].mode = GitTree[p].mode
                   /\ entries[p].presence = "deleted" => GitTree[p].mode = "none"
        <5>1. CASE p \in DOMAIN kept
          <6>1. kept[p] = all[p] /\ p \in DOMAIN all
            BY <2>3, <5>1
          <6>2. /\ kept[p].mode = "none" => GitTree[p].mode = "none"
                /\ kept[p].mode # "none" => kept[p] = GitTree[p]
            BY <2>2, <6>1
          <6> QED BY <3>2, <3>5, <5>1, <6>2
        <5>2. CASE p \in DOMAIN records.named
          BY <2>3, <3>5, <5>2
        <5> QED BY <3>5, <5>1, <5>2
      <4>3. ~records.cut => {p \in Paths : GitTree[p].mode # "none"} \subseteq DOMAIN entries
        BY <2>2, <2>3, <3>5
      <4>4. DOMAIN entries \subseteq Paths
        BY <3>8 DEF Measured
      <4>5. EntriesAreLocated'
        BY <3>6, <4>1, <4>2, <4>3, <4>4 DEF EntriesAreLocated
      <4> QED BY <3>7, <4>5 DEF ManifestIsSteady, Factual
    <3>13. QueueTyped'
      BY <3>7 DEF QueueTyped, Typed
    <3> QED BY <1>1, <2>1, <2>6, <3>6, <3>7, <3>8, <3>10, <3>11, <3>12, <3>13, ManifestStep DEF Opened, Factual, Entering
  <2> QED BY <2>7, <2>8
<1> QED BY <1>2, <1>3

-----------------------------------------------------------------------------
(* The snapshot: CandidateSnapshot::materialize, and what an analyzer may do *)

\* The steps of a snapshot that has begun.
Shooting == {"copy", "protect", "sealed", "walk", "digest", "verified", "refused", "failed"}

\* What remains to be shown of a step of the snapshot.
LEMMA ShotStep ==
  ASSUME Inv, job.kind = "snapshot", UNCHANGED <<head, commit, index, disk, strayed, late, content, manifest>>,
         edits' \in 0..MaxEdits, job'.step \in Shooting,
         job'.kind = job.kind, job'.source = job.source, job'.scope = job.scope, DOMAIN job' = DOMAIN job,
         QueueTyped', job'.step = "copy" => DOMAIN job'.queue # {},
         DOMAIN shot' = DOMAIN shot, Measured(shot'.tree), shot'.bytes \in 0..ShotBytes,
         Copied'
  PROVE  Inv'
<1> USE DEF Inv
<1>1. content = NoContent /\ manifest = NoManifest /\ job.scope = NoScope
  BY DEF Placed
<1>2. Typed'
  BY DEF Typed, CandidateTyped, TypeOK, Units, Measured
<1>3. Placed'
  <2>1. content'.reads = Nothing /\ manifest'.facts = Nothing /\ manifest'.complete = FALSE
    BY <1>1 DEF NoContent, NoManifest
  <2> QED BY <1>1, <2>1 DEF Placed, Preparing, Entering, Opened, Factual, Shooting
<1> QED BY <1>2, <1>3, CaptureKept

\* A tracked path is listed once more, or the next one is.
LEMMA NextTrackedFacts ==
  ASSUME Inv, job.step = "copy", NextTracked
  PROVE  /\ job'.item = NoItem
         /\ job'.kind = job.kind /\ job'.source = job.source /\ job'.scope = job.scope /\ DOMAIN job' = DOMAIN job
         /\ QueueTyped' /\ job'.step \in {"copy", "protect"} /\ (job'.step = "copy" => DOMAIN job'.queue # {})
<1> USE DEF Inv
<1>1. Path \in DOMAIN job.queue /\ Record = job.queue[Path] /\ Record \in Records
  BY PathFacts
<1>2. CASE Record.mode = "unmerged"
  <2> DEFINE queue == [job.queue EXCEPT ![Path].mode = "file"]
  <2>1. job' = [job EXCEPT !.queue = queue, !.item = NoItem]
    BY <1>2 DEF NextTracked
  <2>2. DOMAIN queue = DOMAIN job.queue
    OBVIOUS
  <2>3. \A p \in DOMAIN queue : queue[p] \in Records
    <3>1. \A p \in DOMAIN queue : p # Path => queue[p] = job.queue[p]
      OBVIOUS
    <3>2. queue[Path] = [Record EXCEPT !.mode = "file"]
      BY <1>1
    <3>3. queue[Path] \in Records
      BY <1>1, <3>2 DEF Records, Modes
    <3> QED BY <3>1, <3>3 DEF Typed, QueueTyped
  <2> HIDE DEF queue
  <2>4. /\ job'.queue = queue /\ job'.item = NoItem /\ job'.step = "copy"
        /\ job'.kind = job.kind /\ job'.source = job.source /\ job'.scope = job.scope /\ DOMAIN job' = DOMAIN job
    BY <2>1 DEF Typed
  <2>5. QueueTyped'
    BY <2>2, <2>3, <2>4 DEF QueueTyped, Typed
  <2> QED BY <1>1, <2>2, <2>4, <2>5
<1>3. CASE Record.mode # "unmerged"
  <2>1. NextRecord("copy", "protect")
    BY <1>3 DEF NextTracked
  <2> QED BY <2>1, NextRecordFacts
<1> QED BY <1>2, <1>3

\* The blobs of the Git tree, which a staged or a branch snapshot holds.
LEMMA MaterializedFacts ==
  ASSUME Typed
  PROVE  Measured(Materialized(GitTree)) /\ DOMAIN Materialized(GitTree) \in SUBSET Paths
<1> DEFINE part == {p \in Paths : GitTree[p].mode \notin {"none", "gitlink"}}
           tree == Materialized(GitTree)
<1>1. DOMAIN tree = part /\ \A p \in part : tree[p] = GitTree[p]
  BY RestrictFacts DEF Materialized
<1>2. \A p \in Paths : GitTree[p].text \in DOMAIN Bytes
  <2>1. \A p \in Paths : GitTree[p] \in Entries
    BY GitTreeTyped DEF Trees
  <2> QED BY <2>1, EntryFacts
<1> HIDE DEF tree
<1>3. Measured(tree) /\ DOMAIN tree \in SUBSET Paths
  BY <1>1, <1>2 DEF Measured
<1> QED BY <1>3 DEF tree

LEMMA ListSnapshotSafe ==
  ASSUME Inv, ListSnapshot
  PROVE  Inv'
<1> USE DEF Inv
<1> DEFINE listed == Listing(GitTree, Paths)
           blobs == Materialized(GitTree)
<1>1. /\ UNCHANGED <<head, commit, index, disk, edits, strayed, late, content, manifest>>
      /\ job.step = "open" /\ job.kind = "snapshot"
  BY DEF ListSnapshot, Mine, Fail, repo
<1>2. shot = NoShot /\ job.item = NoItem /\ edits \in 0..MaxEdits /\ 0 \in 0..ShotBytes
  BY <1>1, CaptureAssumption DEF Placed, Typed, TypeOK
<1>3. shot.tree = Nothing /\ shot.bytes = 0
  BY <1>2 DEF NoShot
<1>4. CASE job.source = "unstaged"
  <2>1. /\ job' = [job EXCEPT !.queue = listed, !.step = After(listed, "copy", "protect")] /\ shot' = shot
    BY <1>4 DEF ListSnapshot
  <2>2. /\ DOMAIN listed = {p \in Paths : GitTree[p].mode # "none"}
        /\ \A p \in DOMAIN listed : listed[p] \in Records
        /\ listed = Nothing <=> DOMAIN listed = {}
    <3>1. listed = Nothing <=> DOMAIN listed = {}
      BY RestrictFacts DEF Listing
    <3>2. /\ DOMAIN listed = {p \in Paths : GitTree[p].mode # "none"}
          /\ \A p \in DOMAIN listed : listed[p] = GitTree[p] /\ GitTree[p] \in Records
      BY GitTreeTyped, ListingFacts
    <3> QED BY <3>1, <3>2
  <2> HIDE DEF listed
  <2>3. /\ job'.queue = listed /\ job'.item = NoItem
        /\ job'.step \in {"copy", "protect"} /\ (job'.step = "copy" => DOMAIN listed # {})
        /\ job'.kind = job.kind /\ job'.source = job.source /\ job'.scope = job.scope /\ DOMAIN job' = DOMAIN job
    BY <1>2, <2>1, <2>2 DEF Typed, After
  <2>4. QueueTyped'
    BY <2>2, <2>3 DEF QueueTyped
  <2>5. Copied'
    <3>1. BytesOf(shot.tree) = 0 /\ Cardinality(DOMAIN shot.tree) = 0
      BY <1>3, NothingDomain, BytesOfNothing, FS_EmptySet
    <3>2. 0 <= ShotBytes /\ 0 <= ShotFiles
      BY CaptureAssumption
    <3> QED BY <1>3, <2>1, <2>3, <3>1, <3>2 DEF Copied, Fits
  <2>6. Measured(shot.tree)
    BY DEF Typed
  <2> QED BY <1>1, <1>2, <1>3, <2>1, <2>3, <2>4, <2>5, <2>6, ShotStep DEF Shooting
<1>5. CASE job.source # "unstaged" /\ Fail
  BY <1>1, <1>5, FailSafe DEF Fail
<1>6. CASE job.source # "unstaged" /\ ~Fail
  <2>1. /\ Cardinality(DOMAIN blobs) <= ShotFiles /\ BytesOf(blobs) <= ShotBytes
        /\ shot' = [shot EXCEPT !.tree = blobs, !.bytes = BytesOf(blobs)] /\ Goto("protect")
    <3>1. ~(Conflicts(GitTree) # {} \/ Cardinality(DOMAIN blobs) > ShotFiles \/ BytesOf(blobs) > ShotBytes)
      BY <1>6 DEF ListSnapshot
    <3>2. shot' = [shot EXCEPT !.tree = blobs, !.bytes = BytesOf(blobs)] /\ Goto("protect")
      BY <1>6, <3>1 DEF ListSnapshot
    <3>3. Measured(blobs) /\ DOMAIN blobs \in SUBSET Paths
      BY MaterializedFacts
    <3> HIDE DEF blobs
    <3>4. Cardinality(DOMAIN blobs) \in Nat /\ BytesOf(blobs) \in Nat /\ ShotFiles \in Nat /\ ShotBytes \in Nat
      BY <3>3, PathSets, BytesOfMeasured, CaptureAssumption
    <3> QED BY <3>1, <3>2, <3>4
  <2>2. Measured(blobs)
    BY MaterializedFacts
  <2> HIDE DEF blobs
  <2>3. BytesOf(blobs) \in Nat
    BY <2>2, BytesOfMeasured
  <2>4. DOMAIN shot' = DOMAIN shot /\ shot'.tree = blobs /\ shot'.bytes = BytesOf(blobs)
    BY <2>1 DEF Typed
  <2>5. /\ job'.step = "protect" /\ job'.queue = job.queue /\ job'.item = job.item
        /\ job'.kind = job.kind /\ job'.source = job.source /\ job'.scope = job.scope /\ DOMAIN job' = DOMAIN job
    BY <2>1, GotoFacts
  <2>6. Copied'
    BY <2>1, <2>3, <2>4, <2>5 DEF Copied, Fits
  <2>7. QueueTyped'
    BY <2>5 DEF QueueTyped, Typed
  <2>8. BytesOf(blobs) \in 0..ShotBytes
    BY <2>1, <2>3, CaptureAssumption
  <2> QED BY <1>1, <1>2, <2>2, <2>4, <2>5, <2>6, <2>7, <2>8, ShotStep DEF Shooting
<1> QED BY <1>4, <1>5, <1>6

LEMMA InspectTrackedSafe ==
  ASSUME Inv, InspectTracked
  PROVE  Inv'
<1> USE DEF Inv
<1>1. /\ UNCHANGED <<head, commit, index, disk, edits, strayed, late, content, manifest, shot>>
      /\ job.step = "copy" /\ job.item = NoItem
  BY DEF InspectTracked, Mine, repo
<1>2. job.kind = "snapshot" /\ edits \in 0..MaxEdits
  BY <1>1, KindFacts DEF Placed, Preparing, Opened, Factual, Entering, Typed, TypeOK
<1>3. Measured(shot.tree) /\ shot.bytes \in 0..ShotBytes
  BY DEF Typed, TypeOK
<1>4. CASE NextTracked
  <2>1. /\ job'.item = NoItem
        /\ job'.kind = job.kind /\ job'.source = job.source /\ job'.scope = job.scope /\ DOMAIN job' = DOMAIN job
        /\ QueueTyped' /\ job'.step \in {"copy", "protect"} /\ (job'.step = "copy" => DOMAIN job'.queue # {})
    BY <1>1, <1>4, NextTrackedFacts
  <2>2. Copied'
    BY <1>1, <2>1 DEF Copied, Fits
  <2> QED BY <1>1, <1>2, <1>3, <2>1, <2>2, ShotStep DEF Shooting
<1>5. CASE Goto("failed")
  BY <1>1, <1>2, <1>5, FailSafe
<1>6. CASE ~NextTracked /\ ~Goto("failed")
  <2> DEFINE item == [NoItem EXCEPT !.mode = disk[Path].mode]
  <2>1. ToStep("copy", item) /\ ~(Cardinality(DOMAIN shot.tree) >= ShotFiles)
    BY <1>6 DEF InspectTracked
  <2>2. Cardinality(DOMAIN shot.tree) < ShotFiles
    <3>1. Cardinality(DOMAIN shot.tree) \in Nat /\ ShotFiles \in Nat
      BY <1>3, PathSets, CaptureAssumption DEF Measured
    <3> QED BY <2>1, <3>1
  <2> HIDE DEF item
  <2>3. /\ job'.step = "copy" /\ job'.queue = job.queue
        /\ job'.kind = job.kind /\ job'.source = job.source /\ job'.scope = job.scope /\ DOMAIN job' = DOMAIN job
    BY <2>1, ToStepFacts
  <2>4. Copied'
    BY <1>1, <2>2, <2>3 DEF Copied, Fits
  <2>5. QueueTyped' /\ DOMAIN job'.queue # {}
    BY <1>1, <2>3 DEF QueueTyped, Typed, Placed
  <2> QED BY <1>1, <1>2, <1>3, <2>3, <2>4, <2>5, ShotStep DEF Shooting
<1> QED BY <1>4, <1>5, <1>6

LEMMA CopyTrackedSafe ==
  ASSUME Inv, CopyTracked
  PROVE  Inv'
<1> USE DEF Inv
<1>1. /\ UNCHANGED <<head, commit, index, disk, edits, strayed, late, content, manifest>>
      /\ job.step = "copy" /\ job.item # NoItem
  BY DEF CopyTracked, Mine, repo
<1>2. job.kind = "snapshot" /\ edits \in 0..MaxEdits
  BY <1>1, KindFacts DEF Placed, Preparing, Opened, Factual, Entering, Typed, TypeOK
<1>3. CASE Goto("failed") /\ UNCHANGED shot
  BY <1>1, <1>2, <1>3, FailSafe
<1>4. CASE ~(Goto("failed") /\ UNCHANGED shot)
  <2> DEFINE texts == IF job.item.mode # "link" /\ disk[Path].mode = "link" THEN Texts ELSE {disk[Path].text}
  <2>1. PICK text \in texts : /\ CopyFits(text) /\ Creatable(Path) /\ NextTracked
                              /\ shot' = [shot EXCEPT !.tree = @ ++ Only(Path, [mode |-> job.item.mode, text |-> text]),
                                                      !.bytes = @ + Bytes[text]]
    BY <1>4 DEF CopyTracked
  <2> DEFINE file == [mode |-> job.item.mode, text |-> text]
             more == shot.tree ++ Only(Path, file)
  <2>2. Path \in Paths
    BY <1>1, PathFacts
  <2>3. text \in DOMAIN Bytes /\ Bytes[text] \in Nat
    <3>1. disk[Path] \in Entries
      BY <2>2 DEF Typed, TypeOK, Trees
    <3>2. disk[Path].text \in DOMAIN Bytes
      BY <3>1, EntryFacts
    <3> QED BY <3>2, TextSizes DEF Texts
  <2>4. file.text = text
    OBVIOUS
  <2> HIDE DEF file, texts
  <2>5. /\ DOMAIN more = DOMAIN shot.tree \cup {Path} /\ Path \notin DOMAIN shot.tree
        /\ more[Path].text = text /\ \A q \in DOMAIN shot.tree : more[q].text = shot.tree[q].text
    BY <2>1, <2>4 DEF ++, Only, Creatable
  <2>6. /\ DOMAIN shot' = DOMAIN shot /\ shot'.tree = more /\ shot'.bytes = shot.bytes + Bytes[text]
    BY <2>1 DEF Typed, file
  <2> HIDE DEF more
  <2>7. Measured(shot.tree) /\ shot.bytes \in 0..ShotBytes /\ ShotBytes \in Nat /\ ShotFiles \in Nat
    BY CaptureAssumption DEF Typed, TypeOK
  <2>8. Measured(more) /\ BytesOf(more) = Bytes[text] + BytesOf(shot.tree)
    BY <2>2, <2>3, <2>5, <2>7, BytesGrow
  <2>9. Cardinality(DOMAIN more) = Cardinality(DOMAIN shot.tree) + 1 /\ Cardinality(DOMAIN shot.tree) \in Nat
    <3>1. IsFiniteSet(DOMAIN shot.tree) /\ Cardinality(DOMAIN shot.tree) \in Nat
      BY <2>7, PathSets DEF Measured
    <3> QED BY <2>5, <3>1, FS_AddElement
  <2>10. BytesOf(shot.tree) \in Nat
    BY <2>7, BytesOfMeasured
  <2>11. /\ BytesOf(shot.tree) <= shot.bytes /\ Fits(shot.tree) /\ Cardinality(DOMAIN shot.tree) < ShotFiles
         /\ Bytes[text] <= ShotBytes - shot.bytes
    BY <1>1, <2>1 DEF Copied, CopyFits
  <2> DEFINE bytes == BytesOf(shot.tree)  size == Bytes[text]  total == BytesOf(more)
             count == Cardinality(DOMAIN shot.tree)  counted == Cardinality(DOMAIN more)
  <2>12. shot'.bytes \in 0..ShotBytes /\ total <= shot'.bytes /\ total <= ShotBytes /\ counted <= ShotFiles
    <3>1. /\ bytes \in Nat /\ size \in Nat /\ count \in Nat /\ shot.bytes \in 0..ShotBytes
          /\ total = size + bytes /\ counted = count + 1 /\ shot'.bytes = shot.bytes + size
          /\ bytes <= shot.bytes /\ count < ShotFiles /\ size <= ShotBytes - shot.bytes
          /\ ShotBytes \in Nat /\ ShotFiles \in Nat
      BY <2>3, <2>6, <2>7, <2>8, <2>9, <2>10, <2>11
    <3> HIDE DEF bytes, size, total, count, counted
    <3> QED BY <3>1
  <2>13. /\ job'.item = NoItem
         /\ job'.kind = job.kind /\ job'.source = job.source /\ job'.scope = job.scope /\ DOMAIN job' = DOMAIN job
         /\ QueueTyped' /\ job'.step \in {"copy", "protect"} /\ (job'.step = "copy" => DOMAIN job'.queue # {})
    BY <1>1, <2>1, NextTrackedFacts
  <2>14. Copied'
    BY <2>6, <2>12, <2>13 DEF Copied, Fits
  <2> QED BY <1>1, <1>2, <2>6, <2>8, <2>12, <2>13, <2>14, ShotStep DEF Shooting
<1> QED BY <1>3, <1>4

LEMMA ProtectSafe ==
  ASSUME Inv, Protect
  PROVE  Inv'
<1> USE DEF Inv
<1>1. /\ UNCHANGED <<head, commit, index, disk, edits, strayed, late, content, manifest>>
      /\ job.step = "protect" /\ Goto("sealed") /\ shot' = [shot EXCEPT !.sealed = Digested, !.loose = {}]
  BY DEF Protect, Mine, repo
<1>2. job.kind = "snapshot" /\ edits \in 0..MaxEdits
  BY <1>1, KindFacts DEF Placed, Preparing, Opened, Factual, Entering, Typed, TypeOK
<1>3. DOMAIN shot' = DOMAIN shot /\ shot'.tree = shot.tree /\ shot'.bytes = shot.bytes /\ shot'.sealed.tree = shot.tree
  BY <1>1 DEF Typed, Digested
<1>4. /\ job'.step = "sealed" /\ job'.queue = job.queue
      /\ job'.kind = job.kind /\ job'.source = job.source /\ job'.scope = job.scope /\ DOMAIN job' = DOMAIN job
  BY <1>1, GotoFacts
<1>5. Copied'
  BY <1>1, <1>3, <1>4 DEF Copied
<1>6. QueueTyped' /\ Measured(shot.tree) /\ shot.bytes \in 0..ShotBytes
  BY <1>4 DEF QueueTyped, Typed, TypeOK
<1> QED BY <1>1, <1>2, <1>3, <1>4, <1>5, <1>6, ShotStep DEF Shooting

\* A step of an analyzer or of a verification leaves what was copied within its limits.
LEMMA GuardedSafe ==
  ASSUME Inv, job.step \in {"sealed", "walk", "digest"}, edits' \in 0..MaxEdits,
         UNCHANGED <<head, commit, index, disk, strayed, late, content, manifest>>,
         job' = job \/ \E step \in {"walk", "digest", "refused", "verified"} : Goto(step),
         DOMAIN shot' = DOMAIN shot, Measured(shot'.tree), shot'.bytes = shot.bytes
  PROVE  Inv'
<1> USE DEF Inv
<1>1. job.kind = "snapshot"
  BY KindFacts DEF Placed, Preparing, Opened, Entering, Factual
<1>2. /\ job'.step \in {"sealed", "walk", "digest", "refused", "verified"} /\ job'.queue = job.queue
      /\ job'.kind = job.kind /\ job'.source = job.source /\ job'.scope = job.scope /\ DOMAIN job' = DOMAIN job
  <2>1. CASE job' = job
    BY <2>1
  <2>2. CASE \E step \in {"walk", "digest", "refused", "verified"} : Goto(step)
    BY <2>2, GotoFacts
  <2> QED BY <2>1, <2>2
<1>3. Copied'
  BY <1>2 DEF Copied
<1>4. QueueTyped' /\ shot'.bytes \in 0..ShotBytes
  BY <1>2 DEF QueueTyped, Typed, TypeOK
<1> QED BY <1>1, <1>2, <1>3, <1>4, ShotStep DEF Shooting

LEMMA AnalyzerSafe ==
  ASSUME Inv, NEW p, Loosen(p) \/ Alter(p) \/ AddDirectory
  PROVE  Inv'
<1> USE DEF Inv
<1>1. /\ job.step \in {"sealed", "walk", "digest"} /\ job' = job
      /\ UNCHANGED <<head, commit, index, disk, strayed, late, content, manifest>>
      /\ edits < MaxEdits /\ edits' = edits + 1
  BY DEF Loosen, Alter, AddDirectory, Tampered, Verifying, repo
<1>2. Measured(shot.tree) /\ edits' \in 0..MaxEdits
  BY <1>1, CaptureAssumption DEF Typed, TypeOK
<1>3. CASE Loosen(p) \/ AddDirectory
  <2>1. DOMAIN shot' = DOMAIN shot /\ shot'.tree = shot.tree /\ shot'.bytes = shot.bytes
    BY <1>3 DEF Loosen, AddDirectory, Typed
  <2> QED BY <1>1, <1>2, <2>1, GuardedSafe
<1>4. CASE Alter(p)
  <2>1. PICK e \in Writes : shot' = [shot EXCEPT !.tree[p] = e, !.loose = @ \ {p},
                                               !.mended = @ \/ (Verifying /\ e = shot.sealed.tree[p])]
    BY <1>4 DEF Alter
  <2> DEFINE tree == [shot.tree EXCEPT ![p] = e]
  <2>2. e.text \in DOMAIN Bytes
    BY CaptureAssumption, EntryFacts
  <2>3. DOMAIN tree = DOMAIN shot.tree /\ \A q \in DOMAIN tree : tree[q] = e \/ tree[q] = shot.tree[q]
    OBVIOUS
  <2>4. DOMAIN shot' = DOMAIN shot /\ shot'.tree = tree /\ shot'.bytes = shot.bytes
    BY <2>1 DEF Typed
  <2> HIDE DEF tree
  <2>5. Measured(tree)
    BY <1>2, <2>2, <2>3 DEF Measured
  <2> QED BY <1>1, <1>2, <2>4, <2>5, GuardedSafe
<1> QED BY <1>3, <1>4

LEMMA VerifySafe ==
  ASSUME Inv, StartVerify \/ (\E p \in Paths : InspectWritable(p)) \/ StartDigest \/ HashSnapshot \/ CompareDigest
  PROVE  Inv'
<1> USE DEF Inv
<1>1. /\ UNCHANGED <<head, commit, index, disk, strayed, late, content, manifest>>
      /\ job.step \in {"sealed", "walk", "digest"} /\ edits' = edits
      /\ job' = job \/ \E step \in {"walk", "digest", "refused", "verified"} : Goto(step)
  BY DEF StartVerify, InspectWritable, StartDigest, HashSnapshot, CompareDigest, Mine, repo
<1>2. DOMAIN shot' = DOMAIN shot /\ shot'.tree = shot.tree /\ shot'.bytes = shot.bytes
  BY DEF StartVerify, InspectWritable, StartDigest, HashSnapshot, CompareDigest, Typed
<1>3. Measured(shot.tree) /\ edits \in 0..MaxEdits
  BY DEF Typed, TypeOK
<1> QED BY <1>1, <1>2, <1>3, GuardedSafe

-----------------------------------------------------------------------------
(* The invariant, and what follows from it *)

LEMMA Initial ==
  ASSUME Init
  PROVE  Inv
<1>1. /\ job.step = "open" /\ job.scope = NoScope /\ job.queue = Nothing /\ job.item = NoItem
      /\ job.source \in ReviewSources /\ job.kind \in Kinds
      /\ DOMAIN job = {"kind", "source", "step", "scope", "queue", "item"}
  BY DEF Init
<1>2. content = NoContent /\ manifest = NoManifest /\ shot = NoShot
  BY DEF Init
<1>3. /\ content.files = Nothing /\ content.errors = Nothing /\ content.reserved = 0 /\ content.reads = Nothing
      /\ DOMAIN content = {"files", "errors", "reserved", "reads", "misled"}
  BY <1>2 DEF NoContent
<1>4. /\ manifest.entries = Nothing /\ manifest.bytes = 0 /\ manifest.facts = Nothing /\ ~manifest.complete
      /\ DOMAIN manifest = {"tree", "index", "entries", "truncated", "bytes", "complete", "facts", "misled"}
  BY <1>2 DEF NoManifest
<1>5. shot.tree = Nothing /\ shot.bytes = 0 /\ DOMAIN shot = {"tree", "bytes", "sealed", "loose", "extra", "unseen", "seen", "left", "mended"}
  BY <1>2 DEF NoShot
<1>6. DOMAIN job.scope.diff = {} /\ job.scope.commit = 0
  BY <1>1, NothingDomain DEF NoScope
<1>7. /\ 0 \in 0..TotalLimit /\ 0 \in 0..ShotBytes /\ 0 \in 0..MaxEdits /\ 0 <= FileLimit
  BY CaptureAssumption
<1>8. TypeOK
  BY <1>1, <1>3, <1>4, <1>5, <1>7, NothingDomain, CaptureAssumption DEF Init, TypeOK
<1>9. Typed
  BY <1>1, <1>3, <1>4, <1>5, <1>6, <1>7, <1>8, NothingDomain
     DEF Init, Typed, QueueTyped, CandidateTyped, Units, Measured
<1>10. Placed
  BY <1>1, <1>2, <1>3, <1>4, <1>9, KindFacts DEF Placed, Preparing, Entering, Opened, Factual
<1>11. Prepared
  <2>1. ~InHand /\ Held = 0
    BY <1>1 DEF InHand, Held
  <2>2. ReadableOf(content.files, content.errors) = {} /\ Readable = {}
    BY <1>3, NothingDomain DEF ReadableOf, Readable
  <2>3. Reserved(content.files, content.errors) = 0
    BY <2>2, ReservedOfNone
  <2> QED BY <1>1, <1>3, <1>7, <2>1, <2>2, <2>3, NothingDomain DEF Prepared, Opened, Factual, Entering
<1>12. Manifested
  BY <1>4, NothingDomain, BytesOfNothing DEF Manifested
<1>13. Copied
  BY <1>1, <1>3, <1>4, NothingDomain DEF Copied
<1>14. Drifted
  BY <1>6 DEF Init, Drifted, Scope
<1>15. Faithful
  BY <1>1, <1>14 DEF Faithful, Steady
<1> QED BY <1>9, <1>10, <1>11, <1>12, <1>13, <1>15 DEF Inv

LEMMA Stuttering ==
  ASSUME Inv, UNCHANGED vars
  PROVE  Inv'
<1> USE DEF Inv
<1>1. /\ UNCHANGED <<head, commit, index, disk, edits, strayed, late>>
      /\ UNCHANGED <<job, content, manifest, shot>>
  BY DEF vars, repo
<1>2. Typed' /\ Placed'
  BY <1>1 DEF Typed, QueueTyped, CandidateTyped, TypeOK, Units, Measured, Placed
<1>3. Prepared'
  BY <1>1 DEF Prepared, Held, InHand, Erred, Path, Readable, Units
<1>4. Manifested' /\ Copied'
  BY <1>1 DEF Manifested, Copied
<1>5. Faithful'
  <2>1. Still
    BY <1>1 DEF Still
  <2>2. CandidateIsSteady => CandidateIsSteady'
    BY <1>1 DEF CandidateIsSteady, Units, Path, Erred, RecordOf, Side, ModeOf, IsOf
  <2>3. ManifestIsSteady => ManifestIsSteady'
    BY <1>1 DEF ManifestIsSteady, EntriesAreLocated, Located
  <2> QED BY <1>1, <2>1, <2>2, <2>3, StillSteady DEF Faithful
<1> QED BY <1>2, <1>3, <1>4, <1>5

LEMMA Preserved ==
  ASSUME Inv, [Next]_vars
  PROVE  Inv'
<1>1. ASSUME NEW p \in EditedPaths, WriteFile(p) \/ StagePath(p) \/ CheckoutPath(p) \/ MergeConflict(p)
      PROVE  Inv'
  BY <1>1, EditSafe DEF Edits
<1>2. ASSUME NEW p \in Paths, ReadCandidate(p) \/ ListFact(p) \/ Loosen(p) \/ Alter(p) \/ InspectWritable(p)
      PROVE  Inv'
  BY <1>2, ReadCandidateSafe, ReadFactSafe, AnalyzerSafe, VerifySafe
<1>3. CASE CommitIndex \/ Expire
  BY <1>3, EditSafe, ExpireSafe DEF Edits
<1>4. CASE OpenScope \/ ListContent \/ InspectMode \/ MeasureGit \/ MeasurePath \/ HashPath \/ MapRanges \/ AddMissing
  BY <1>4, OpenScopeSafe, ListContentSafe, InspectModeSafe, MeasureGitSafe, MeasurePathSafe, HashPathSafe,
     MapRangesSafe, AddMissingSafe
<1>5. CASE ReadOpeningTree \/ ReadLocator \/ ListManifest \/ InspectEntry \/ MeasureEntry \/ HashEntry \/ SealManifest
             \/ StartFact \/ InspectFact \/ ReadFact \/ AcceptFact \/ Revalidate
  BY <1>5, ReadOpeningTreeSafe, ReadLocatorSafe, ListManifestSafe, InspectEntrySafe, MeasureEntrySafe, HashEntrySafe,
     SealManifestSafe, ReadFactSafe, RevalidateSafe
<1>6. CASE ListSnapshot \/ InspectTracked \/ CopyTracked \/ Protect \/ AddDirectory
             \/ StartVerify \/ StartDigest \/ HashSnapshot \/ CompareDigest
  BY <1>6, ListSnapshotSafe, InspectTrackedSafe, CopyTrackedSafe, ProtectSafe, AnalyzerSafe, VerifySafe
<1>7. CASE UNCHANGED vars
  BY <1>7, Stuttering
<1> QED BY <1>1, <1>2, <1>3, <1>4, <1>5, <1>6, <1>7 DEF Next

(* The strengthening: of a capture under way, that what it has looked at is of
   its scope if the scope stands still; of a count, that it covers what is kept. *)
THEOREM Invariance == Spec => []Inv
<1> QED BY Initial, Preserved, PTL DEF Spec

LEMMA TypesHold == Inv => TypeOK
BY DEF Inv, Typed

(* Every variable has its type, and every count is within its limit, whatever
   the user edits while candidate, manifest and snapshot are captured. *)
THEOREM TypeCorrect == Spec => []TypeOK
<1> QED BY Invariance, TypesHold, PTL

-----------------------------------------------------------------------------
(* What was captured stays of the scope: the invariant behind the later reads  *)

\* The texts that a manifest has of the changed paths are those of the scope.
OfTheScope(entries) ==
    \A p \in Units \cap DOMAIN entries : entries[p].text # "none" => entries[p].text = Side(p).text

\* A candidate whose scope stood still to its end is of it, and so is what is read.
ReadsKept ==
    /\ job.step \in Opened /\ ~content.misled /\ ~late =>
          \A p \in Units \cap DOMAIN content.files : p \notin DOMAIN content.errors =>
              IsOf(content.files[p], job.scope.diff[p])
    /\ ~content.misled => \A p \in Units \cap DOMAIN content.reads : content.reads[p] = Side(p).text

\* The same of a manifest while it is entered, when it is sealed, and when it is read.
FactsKept ==
    /\ Steady /\ job.step \in Entering => \A p \in Units \cap DOMAIN job.queue : RecordOf(p).mode # "none"
    /\ Steady /\ job.step \in Entering \cup {"seal"} => OfTheScope(manifest.entries)
    /\ ~manifest.misled /\ job.step \in Factual => OfTheScope(manifest.entries)
    /\ job.step \in {"fact-mode", "fact-read", "fact-check"} => Path \in DOMAIN manifest.entries /\ manifest.entries[Path].text # "none"
    /\ job.step = "fact-read" => "identity" \in DOMAIN job.item
    /\ job.step = "fact-check" => job.item.identity = manifest.entries[Path].text
    /\ ~manifest.misled => \A p \in Units \cap DOMAIN manifest.facts : manifest.facts[p] = Side(p).text

\* An entry that was not as sealed when a verification began, nothing having been
\* put back since, is not now, and was not when the second walk came to it.
Differs(tree) == \A p \in DOMAIN tree : shot.left.tree[p] # shot.sealed.tree[p] => tree[p] # shot.sealed.tree[p]
Walked ==
    /\ shot.tree = [p \in DOMAIN shot.tree |-> shot.tree[p]]
    /\ job.step \in {"sealed", "walk", "digest"} =>
          /\ shot.sealed = [tree |-> shot.sealed.tree, extra |-> shot.sealed.extra]
          /\ shot.sealed.tree = [p \in DOMAIN shot.tree |-> shot.sealed.tree[p]]
    /\ job.step \in {"walk", "digest"} =>
          /\ shot.left = [tree |-> shot.left.tree, extra |-> shot.left.extra]
          /\ shot.left.tree = [p \in DOMAIN shot.tree |-> shot.left.tree[p]]
          /\ shot.unseen \subseteq DOMAIN shot.tree
          /\ ~shot.mended => Differs(shot.tree) /\ (shot.left.extra # shot.sealed.extra => shot.extra # shot.sealed.extra)
    /\ job.step = "digest" =>
          /\ DOMAIN shot.seen = {"tree", "extra", "loose"}
          /\ DOMAIN shot.seen.tree = DOMAIN shot.tree \ shot.unseen
          /\ ~shot.mended => Differs(shot.seen.tree) /\ (shot.left.extra # shot.sealed.extra => shot.seen.extra # shot.sealed.extra)

Kept == ReadsKept /\ FactsKept /\ Walked

\* A step that leaves the candidate alone.
LEMMA ReadsRest ==
  ASSUME ReadsKept, content' = content, job'.scope = job.scope, late => late',
         job'.step \in Opened => job.step \in Opened
  PROVE  ReadsKept'
BY DEF ReadsKept, Units, Side, IsOf

\* A candidate that is prepared has not been read.
LEMMA ReadsNone ==
  ASSUME content'.reads = Nothing, job'.step \notin Opened
  PROVE  ReadsKept'
BY NothingDomain DEF ReadsKept

LEMMA PreparingStep ==
  ASSUME Inv, ListContent \/ InspectMode \/ MeasureGit \/ MeasurePath \/ HashPath \/ MapRanges
  PROVE  content'.reads = Nothing /\ job'.step \in {"missing", "failed"} \cup Preparing
<1> USE DEF Inv
<1>1. job.step \in {"list"} \cup Preparing
  BY DEF ListContent, InspectMode, MeasureGit, MeasurePath, HashPath, MapRanges, Preparing
<1>2. content.reads = Nothing
  BY <1>1 DEF Placed, NoContent
<1>3. ASSUME NEW step \in {"missing", "failed"} \cup Preparing, Goto(step)
      PROVE  job'.step \in {"missing", "failed"} \cup Preparing
  BY <1>3, GotoFacts
<1>4. ASSUME NEW step \in Preparing, NEW item, ToStep(step, item)
      PROVE  job'.step \in {"missing", "failed"} \cup Preparing
  BY <1>4, ToStepFacts
<1>5. ASSUME NEW code, PrepError(code) PROVE content'.reads = Nothing
  BY <1>2, <1>5 DEF PrepError, Typed
<1>6. CASE ListContent
  <2>1. CASE late
    BY <1>2, <1>3, <1>6, <2>1 DEF ListContent, Fail
  <2>2. CASE ~late
    <3>1. \E queue : job' = [job EXCEPT !.queue = queue, !.item = NoItem, !.step = After(queue, "mode", "missing")]
      BY <1>6, <2>2 DEF ListContent
    <3>2. job'.step \in {"mode", "missing"}
      BY <3>1 DEF After, Typed
    <3>3. \E errors : content' = [content EXCEPT !.errors = errors]
      BY <1>6, <2>2 DEF ListContent
    <3> QED BY <1>2, <3>2, <3>3 DEF Preparing, Typed
  <2> QED BY <2>1, <2>2
<1>7. CASE InspectMode
  BY <1>2, <1>4, <1>7 DEF InspectMode, Preparing
<1>8. CASE MeasureGit
  <2>1. job'.step \in {"missing", "failed"} \cup Preparing
    BY <1>4, <1>8 DEF MeasureGit, Preparing
  <2>2. content' = content \/ (\E size : content' = [content EXCEPT !.reserved = @ + size]) \/ \E code : PrepError(code)
    BY <1>8 DEF MeasureGit
  <2> QED BY <1>2, <1>5, <2>1, <2>2 DEF Typed
<1>9. CASE MeasurePath
  <2>1. \/ (\E item : ToStep("ranges", item)) /\ content' = content
        \/ (Goto("failed") \/ Goto("ranges") \/ Goto("hash")) /\ (content' = content \/ \E code : PrepError(code))
    BY <1>9 DEF MeasurePath, Gone, Unreadable
  <2> QED BY <1>2, <1>3, <1>4, <1>5, <2>1 DEF Preparing
<1>10. CASE HashPath
  <2>1. \/ (\E item : ToStep("ranges", item)) /\ \E size : content' = [content EXCEPT !.reserved = @ + size]
        \/ Goto("ranges") /\ \E code : PrepError(code)
    BY <1>10 DEF HashPath
  <2> QED BY <1>2, <1>3, <1>4, <1>5, <2>1 DEF Preparing, Typed
<1>11. CASE MapRanges
  <2>1. \/ Goto("failed") /\ content' = content
        \/ NextRecord("mode", "missing") /\ \E ranges, errors : Keep(Path, ranges, errors)
    BY <1>11 DEF MapRanges
  <2>2. ASSUME NEW ranges, NEW errors, Keep(Path, ranges, errors) PROVE content'.reads = Nothing
    BY <1>2, <2>2 DEF Keep, Typed
  <2>3. NextRecord("mode", "missing") => job'.step \in {"mode", "missing"}
    BY NextRecordFacts
  <2> QED BY <1>2, <1>3, <2>1, <2>2, <2>3 DEF Preparing
<1> QED BY <1>6, <1>7, <1>8, <1>9, <1>10, <1>11

LEMMA AddMissingKept ==
  ASSUME Inv, Inv', AddMissing
  PROVE  ReadsKept'
<1> USE DEF Inv
<1>1. /\ job.step = "missing" /\ UNCHANGED <<head, commit, index, disk, edits, strayed, late>> /\ Goto("reading")
      /\ \E errors, files : content' = [content EXCEPT !.misled = strayed \/ Drifted, !.errors = errors, !.files = files]
  BY DEF AddMissing, Mine, repo
<1>2. Still /\ job'.step = "reading" /\ content'.reads = Nothing
  BY <1>1, GotoFacts DEF Still, Typed, Placed
<1>3. content'.misled = (strayed \/ Drifted)
  BY <1>1 DEF Typed
<1>4. ~content'.misled => CandidateIsSteady'
  BY <1>2, <1>3, StillSteady DEF Faithful, Steady
<1> QED BY <1>2, <1>4, NothingDomain DEF ReadsKept, CandidateIsSteady

\* What is read of a changed file is the text that the scope has of it.
LEMMA ReadCandidateKept ==
  ASSUME Inv, ReadsKept, NEW p, ReadCandidate(p)
  PROVE  ReadsKept'
<1> USE DEF Inv
<1> DEFINE reads == Only(p, ReadFinds(p)) ++ content.reads
<1>1. /\ job.step = "reading" /\ job' = job /\ ~late /\ late' = late
      /\ p \in DOMAIN content.files /\ ~Erred(p) /\ content.files[p].presence = "present"
      /\ ReadFinds(p) # "error" /\ content' = [content EXCEPT !.reads = reads]
  BY DEF ReadCandidate, Mine, repo
<1>2. ReadFinds(p) = content.files[p].identity
  BY <1>1 DEF ReadFinds
<1>3. /\ DOMAIN reads = DOMAIN content.reads \cup {p} /\ reads[p] = content.files[p].identity
      /\ \A q \in DOMAIN content.reads \ {p} : reads[q] = content.reads[q]
  BY <1>2 DEF ++, Only
<1> HIDE DEF reads
<1>4. /\ content'.files = content.files /\ content'.errors = content.errors
      /\ content'.reads = reads /\ content'.misled = content.misled
  BY <1>1 DEF Typed
<1>5. Units' = Units /\ \A q \in Units : Side(q)' = Side(q)
  BY <1>1 DEF Units, Side
<1>6. ASSUME ~content.misled, p \in Units PROVE reads[p] = Side(p).text
  <2>1. IsOf(content.files[p], job.scope.diff[p])
    BY <1>1, <1>6 DEF ReadsKept, Opened, Erred
  <2> QED BY <1>1, <1>3, <2>1 DEF IsOf, Side
<1> QED BY <1>1, <1>3, <1>4, <1>5, <1>6 DEF ReadsKept, IsOf

\* The steps of the snapshot, and only they, are of its kind of job.
Shots ==
  \/ ListSnapshot \/ InspectTracked \/ CopyTracked \/ Protect \/ AddDirectory \/ StartVerify \/ StartDigest
  \/ HashSnapshot \/ CompareDigest \/ \E p \in Paths : Loosen(p) \/ Alter(p) \/ InspectWritable(p)

LEMMA SnapshotKind ==
  ASSUME Inv, Shots
  PROVE  job.kind = "snapshot" /\ job'.kind = "snapshot"
<1> USE DEF Inv
<1>1. job.kind = "snapshot"
  BY KindFacts DEF Shots, ListSnapshot, InspectTracked, CopyTracked, Protect, AddDirectory, StartVerify, StartDigest,
     HashSnapshot, CompareDigest, Loosen, Alter, InspectWritable, Tampered, Verifying, Placed, Preparing, Opened, Entering, Factual
<1>2. job'.kind = job.kind
  <2>1. ASSUME NEW step, Goto(step) PROVE job'.kind = job.kind
    BY <2>1, GotoFacts
  <2>2. CASE ListSnapshot
    BY <2>1, <2>2 DEF ListSnapshot, Fail, Typed
  <2>3. CASE InspectTracked \/ CopyTracked
    <3>1. Goto("failed") \/ NextTracked \/ \E item : ToStep("copy", item)
      BY <2>3 DEF InspectTracked, CopyTracked
    <3>2. NextTracked => job'.kind = job.kind
      BY DEF NextTracked, NextRecord, Typed
    <3> QED BY <2>1, <3>1, <3>2, ToStepFacts
  <2>4. CASE Protect \/ StartVerify \/ StartDigest \/ CompareDigest
    BY <2>1, <2>4 DEF Protect, StartVerify, StartDigest, CompareDigest
  <2>5. CASE AddDirectory \/ HashSnapshot \/ \E p \in Paths : Loosen(p) \/ Alter(p) \/ InspectWritable(p)
    BY <2>1, <2>5 DEF AddDirectory, HashSnapshot, Loosen, Alter, InspectWritable, Tampered
  <2> QED BY <2>2, <2>3, <2>4, <2>5 DEF Shots
<1> QED BY <1>1, <1>2

LEMMA ReadsStep ==
  ASSUME Inv, Inv', ReadsKept, [Next]_vars
  PROVE  ReadsKept'
<1> USE DEF Inv
<1>1. ASSUME UNCHANGED <<job, content>>, late => late' PROVE ReadsKept'
  BY <1>1, ReadsRest
<1>2. CASE Edits \/ Expire \/ UNCHANGED vars
  <2>1. UNCHANGED <<job, content>> /\ (late => late')
    BY <1>2, EditTyped DEF Edited, Expire, vars
  <2> QED BY <1>1, <2>1
<1>3. CASE AddMissing
  BY <1>3, AddMissingKept
<1>4. ASSUME NEW p, ReadCandidate(p) PROVE ReadsKept'
  BY <1>4, ReadCandidateKept
<1>5. CASE ListContent \/ InspectMode \/ MeasureGit \/ MeasurePath \/ HashPath \/ MapRanges
  BY <1>5, PreparingStep, ReadsNone DEF Preparing, Opened, Entering, Factual
<1>6. CASE OpenScope
  <2>1. job'.step = "list" /\ content'.reads = Nothing
    BY <1>6 DEF OpenScope, Placed, NoContent, Typed
  <2> QED BY <2>1, ReadsNone DEF Opened, Entering, Factual
<1>7. ASSUME content' = content, late' = late, job.step \in Opened, job'.scope = job.scope PROVE ReadsKept'
  BY <1>7, ReadsRest
<1>8. CASE ReadOpeningTree \/ ReadLocator \/ SealManifest \/ StartFact \/ InspectFact \/ ReadFact \/ AcceptFact
             \/ InspectEntry \/ Revalidate
  <2>1. content' = content /\ late' = late /\ job.step \in Opened
    BY <1>8 DEF ReadOpeningTree, ReadLocator, SealManifest, StartFact, InspectFact, ReadFact, AcceptFact,
                InspectEntry, Revalidate, Fail, Mine, Opened, Entering, Factual
  <2>2. job'.scope = job.scope
    BY <1>8 DEF ReadOpeningTree, ReadLocator, SealManifest, StartFact, InspectFact, ReadFact, AcceptFact,
                InspectEntry, Revalidate, Fail, Goto, ToStep, Typed
  <2> QED BY <1>7, <2>1, <2>2
<1>9. ASSUME NEW p, ListFact(p) PROVE ReadsKept'
  <2>1. content' = content /\ late' = late /\ job.step \in Opened /\ job'.scope = job.scope
    BY <1>9 DEF ListFact, Goto, Mine, Opened, Factual, Typed
  <2> QED BY <1>7, <2>1
<1>10. CASE ListManifest \/ MeasureEntry \/ HashEntry
  <2>1. content' = content /\ late' = late /\ job.step \in Opened
    BY <1>10 DEF ListManifest, MeasureEntry, HashEntry, Fail, Mine, Opened, Entering
  <2>2. job'.scope = job.scope
    BY <1>10 DEF ListManifest, MeasureEntry, HashEntry, Enter, NextEntry, NextRecord, Fail, Goto, Typed, Gone, Unreadable
  <2> QED BY <1>7, <2>1, <2>2
<1>11. ASSUME job'.kind = "snapshot" PROVE ReadsKept'
  BY <1>11, ReadsNone DEF Placed, NoContent, Opened, Entering, Factual
<1>12. CASE Shots
  BY <1>12, <1>11, SnapshotKind
<1> QED BY <1>2, <1>3, <1>4, <1>5, <1>6, <1>8, <1>9, <1>10, <1>12 DEF Next, Edits, Shots

\* A manifest that is not being entered nor read ...
LEMMA FactsRest ==
  ASSUME FactsKept, manifest' = manifest, job'.scope = job.scope,
         job'.step \notin Entering \cup {"seal"} \cup Factual
  PROVE  FactsKept'
BY DEF FactsKept, Units, Side, Factual

\* ... and one that has not been read.
LEMMA FactsNone ==
  ASSUME manifest'.facts = Nothing, job'.step \notin Entering \cup {"seal"} \cup Factual
  PROVE  FactsKept'
BY NothingDomain DEF FactsKept, Factual

\* What a scope that stands still says of the record of a changed path.
LEMMA ScopeFacts ==
  ASSUME Still
  PROVE  /\ Units' = Units /\ (Steady' <=> Steady)
         /\ \A p \in Units : Side(p)' = Side(p) /\ RecordOf(p)' = RecordOf(p)
         /\ \A entries : OfTheScope(entries)' <=> OfTheScope(entries')
BY StillSteady DEF Units, Side, RecordOf, OfTheScope, Still

\* A step that enters a path, or none, in a manifest.
LEMMA EnteredKept ==
  ASSUME Inv, FactsKept, Still, job.step \in Entering, manifest'.facts = Nothing,
         job'.step \in Entering \cup {"seal", "failed"}, DOMAIN job'.queue \subseteq DOMAIN job.queue,
         Steady => \A p \in Units \cap DOMAIN manifest'.entries :
                     manifest'.entries[p].text # "none" => manifest'.entries[p].text = Side(p).text
  PROVE  FactsKept'
<1>1. Steady => \A p \in Units \cap DOMAIN job.queue : RecordOf(p).mode # "none"
  BY DEF FactsKept
<1>2. Steady' => OfTheScope(manifest.entries)'
  BY ScopeFacts DEF OfTheScope
<1>3. Steady' /\ job'.step \in Entering => \A p \in Units' \cap DOMAIN job'.queue : RecordOf(p)'.mode # "none"
  BY <1>1, ScopeFacts
<1>4. job'.step \notin Factual
  BY DEF Factual, Entering
<1> QED BY <1>2, <1>3, <1>4, NothingDomain DEF FactsKept, Factual

LEMMA EntryKept ==
  ASSUME Inv, FactsKept, InspectEntry \/ MeasureEntry \/ HashEntry
  PROVE  FactsKept'
<1> USE DEF Inv
<1>1. /\ job.step \in Entering /\ UNCHANGED <<head, commit, index, disk, edits, strayed, late, content, shot>>
      /\ manifest.facts = Nothing
  BY DEF InspectEntry, MeasureEntry, HashEntry, Mine, repo, Entering, Placed
<1>2. Path \in DOMAIN job.queue /\ Path \in Paths /\ job.source = "unstaged" /\ Path \notin DOMAIN manifest.entries
  BY <1>1, PathFacts DEF Placed
<1>3. Steady => OfTheScope(manifest.entries)
  BY <1>1 DEF FactsKept
<1>4. ASSUME NEW entry, NEW bytes, Enter(entry, bytes)
      PROVE  /\ manifest'.facts = Nothing /\ DOMAIN manifest'.entries = DOMAIN manifest.entries \cup {Path}
             /\ manifest'.entries[Path] = entry
             /\ \A q \in DOMAIN manifest.entries : manifest'.entries[q] = manifest.entries[q]
  <2>1. manifest'.entries = Only(Path, entry) ++ manifest.entries /\ manifest'.facts = manifest.facts
    BY <1>4 DEF Enter, Typed
  <2> QED BY <1>1, <1>2, <2>1 DEF ++, Only
<1>5. ASSUME NEW entry, NEW bytes, Enter(entry, bytes), NextEntry,
             entry.text = "none" \/ (Steady /\ Path \in Units => entry.text = Side(Path).text)
      PROVE  FactsKept'
  <2>1. /\ job'.step \in Entering \cup {"seal", "failed"} /\ DOMAIN job'.queue \subseteq DOMAIN job.queue /\ Still
    <3>1. CASE Goto("failed")
      BY <1>1, <3>1, GotoFacts DEF Still
    <3>2. CASE NextRecord("entry-mode", "seal")
      BY <1>1, <3>2, NextRecordFacts DEF Still, Entering
    <3> QED BY <1>5, <3>1, <3>2 DEF NextEntry
  <2>2. ASSUME Steady, NEW p \in Units \cap DOMAIN manifest'.entries, manifest'.entries[p].text # "none"
        PROVE  manifest'.entries[p].text = Side(p).text
    <3>1. CASE p = Path
      BY <1>4, <1>5, <2>2, <3>1
    <3>2. CASE p # Path
      BY <1>3, <1>4, <1>5, <2>2, <3>2 DEF OfTheScope
    <3> QED BY <3>1, <3>2
  <2>3. manifest'.facts = Nothing
    BY <1>4, <1>5
  <2> QED BY <1>1, <2>1, <2>2, <2>3, EnteredKept
<1>6. ASSUME manifest' = manifest, job'.step \in Entering, job'.queue = job.queue,
             job'.source = job.source, job'.scope = job.scope, job'.kind = job.kind
      PROVE  FactsKept'
  BY <1>1, <1>3, <1>6, EnteredKept DEF OfTheScope, Still
<1>7. CASE InspectEntry
  <2>1. manifest' = manifest /\ \E item : ToStep("entry-size", item)
    BY <1>7 DEF InspectEntry
  <2> QED BY <1>6, <2>1, ToStepFacts DEF Entering
<1>8. CASE MeasureEntry
  <2>1. \/ Enter(Completed("gitlink", "gitlink", "none"), 0) /\ NextEntry
        \/ Enter(Completed("none", "deleted", "none"), 0) /\ NextEntry
        \/ Enter(Limited(job.item.mode, "unavailable"), 0) /\ NextEntry
        \/ Goto("entry-hash") /\ manifest' = manifest
    BY <1>8 DEF MeasureEntry, Gone, Unreadable
  <2>2. /\ Completed("gitlink", "gitlink", "none").text = "none" /\ Completed("none", "deleted", "none").text = "none"
        /\ Limited(job.item.mode, "unavailable").text = "none"
    BY DEF Completed, Limited
  <2>3. CASE Goto("entry-hash") /\ manifest' = manifest
    BY <1>6, <2>3, GotoFacts DEF Entering
  <2> QED BY <1>5, <2>1, <2>2, <2>3
<1>9. CASE HashEntry
  <2> DEFINE outcome == HashOf(Path, job.item.mode, TotalLimit - manifest.bytes)
             text == disk[Path].text
             read == Completed(job.item.mode, "present", text)
             none == Limited(job.item.mode, IF outcome = "unavailable" THEN outcome ELSE "budget-exhausted")
  <2>1. NextEntry /\ (Enter(read, Bytes[text]) \/ Enter(none, 0))
    BY <1>9 DEF HashEntry
  <2>2. read.text = text /\ none.text = "none"
    BY DEF Completed, Limited
  <2>3. Steady /\ Path \in Units => text = Side(Path).text
    <3> SUFFICES ASSUME Steady, Path \in Units PROVE text = Side(Path).text
      OBVIOUS
    <3>1. RecordOf(Path).mode # "none"
      BY <1>1, <1>2 DEF FactsKept
    <3> QED BY <1>2, <3>1, SteadyRecord
  <2> HIDE DEF read, none, text
  <2> QED BY <1>5, <2>1, <2>2, <2>3
<1> QED BY <1>7, <1>8, <1>9

\* What is listed, and the blobs that are entered at once, are of a scope that stands still.
LEMMA ListManifestKept ==
  ASSUME Inv, ListManifest
  PROVE  FactsKept'
<1> USE DEF Inv
<1> DEFINE all == DeletedRecords(Listing(GitTree, Paths))
           records == CutRecords(all)
           kept == records.kept
           blobs == BlobEntries(kept)
<1>1. /\ job.step = "manifest" /\ UNCHANGED <<head, commit, index, disk, edits, strayed, late>>
      /\ manifest.facts = Nothing /\ manifest.entries = Nothing
  BY DEF ListManifest, Mine, repo, Placed
<1>2. CASE Fail
  BY <1>1, <1>2, GotoFacts, FactsNone DEF Fail, Entering, Factual
<1>3. CASE ~Fail
  <2>1. IF job.source = "unstaged"
        THEN /\ manifest' = [manifest EXCEPT !.truncated = records.cut, !.entries = records.named]
             /\ job' = [job EXCEPT !.queue = kept, !.item = NoItem, !.step = After(kept, "entry-mode", "seal")]
        ELSE /\ manifest' = [manifest EXCEPT !.truncated = records.cut, !.bytes = blobs.bytes,
                                             !.entries = blobs.entries ++ records.named]
             /\ Goto("seal")
    BY <1>3 DEF ListManifest
  <2>2. /\ Measured(all)
        /\ \A p \in DOMAIN all :
             /\ all[p].mode = "none" => GitTree[p].mode = "none" /\ all[p].text = "none"
             /\ all[p].mode # "none" => all[p] = GitTree[p]
             /\ job.source = "unstaged" => all[p] \in Records
    BY DeletedFacts
  <2> HIDE DEF all
  <2>3. /\ DOMAIN kept \subseteq DOMAIN all
        /\ \A p \in DOMAIN kept : kept[p] = all[p]
        /\ DOMAIN records.named \subseteq DOMAIN all \ DOMAIN kept
        /\ \A p \in DOMAIN records.named : records.named[p].text = "none"
    BY <2>2, CutFacts
  <2> HIDE DEF records
  <2>4. Measured(kept)
    BY <2>2, <2>3 DEF Measured
  <2>5. CASE job.source = "unstaged"
    <3>1. manifest'.entries = records.named /\ manifest'.facts = Nothing
      BY <1>1, <2>1, <2>5 DEF Typed
    <3>2. job'.step \in {"entry-mode", "seal"} /\ job'.queue = kept /\ Still
      BY <1>1, <2>1, <2>5 DEF Typed, After, Still
    <3>3. ASSUME Steady, NEW p \in Units \cap DOMAIN kept PROVE RecordOf(p).mode # "none"
      <4>1. kept[p] \in Records
        BY <2>2, <2>3, <2>5, <3>3
      <4>2. kept[p].mode # "none"
        BY <4>1 DEF Records, Modes
      <4>3. kept[p] = GitTree[p]
        BY <2>2, <2>3, <3>3, <4>2
      <4>4. GitTree[p] = RecordOf(p)
        BY <3>3, SteadyRecord
      <4> QED BY <4>2, <4>3, <4>4
    <3> HIDE DEF kept
    <3>4. OfTheScope(manifest.entries)'
      BY <2>3, <3>1 DEF OfTheScope
    <3> QED BY <3>1, <3>2, <3>3, <3>4, ScopeFacts, NothingDomain DEF FactsKept, Entering, Factual
  <2>6. CASE job.source # "unstaged"
    <3> DEFINE entries == blobs.entries ++ records.named
               fitting == Fitting(kept)
    <3>1. /\ DOMAIN blobs.entries = DOMAIN kept
          /\ \A p \in DOMAIN kept : LET entry == blobs.entries[p] IN
               /\ p \in fitting => entry.text = kept[p].text
               /\ p \notin fitting => entry.text = "none"
      BY <2>4, BlobFacts
    <3>2. manifest' = [manifest EXCEPT !.truncated = records.cut, !.bytes = blobs.bytes, !.entries = entries] /\ Goto("seal")
      BY <2>1, <2>6
    <3> HIDE DEF blobs, fitting, kept
    <3>3. /\ DOMAIN entries = DOMAIN kept \cup DOMAIN records.named
          /\ \A p \in DOMAIN kept : entries[p] = blobs.entries[p]
          /\ \A p \in DOMAIN records.named : entries[p] = records.named[p]
      BY <2>3, <3>1 DEF ++
    <3> HIDE DEF entries
    <3>4. manifest'.entries = entries /\ manifest'.facts = Nothing
      BY <1>1, <3>2 DEF Typed
    <3>5. Still /\ job'.step = "seal"
      BY <1>1, <3>2, GotoFacts DEF Still
    <3>6. ASSUME Steady, NEW p \in Units \cap DOMAIN entries, entries[p].text # "none" PROVE entries[p].text = Side(p).text
      <4>1. p \in DOMAIN kept /\ entries[p].text = all[p].text /\ p \in DOMAIN all
        BY <2>3, <3>1, <3>3, <3>6
      <4>2. all[p] = GitTree[p]
        BY <2>2, <3>6, <4>1
      <4>3. GitTree[p] = Side(p)
        BY <2>6, <3>6, SteadyRecord DEF RecordOf
      <4> QED BY <4>1, <4>2, <4>3
    <3>7. Steady' => OfTheScope(manifest.entries)'
      BY <3>4, <3>5, <3>6, ScopeFacts DEF OfTheScope
    <3> QED BY <3>4, <3>5, <3>7, NothingDomain DEF FactsKept, Entering, Factual
  <2> QED BY <2>5, <2>6
<1> QED BY <1>2, <1>3

\* The validation that seals a manifest vouches for what was entered before it.
LEMMA SealKept ==
  ASSUME Inv, FactsKept, SealManifest
  PROVE  FactsKept'
<1> USE DEF Inv
<1>1. /\ job.step = "seal" /\ UNCHANGED <<head, commit, index, disk, edits, strayed, late, content, shot>>
      /\ \E whole : manifest' = [manifest EXCEPT !.misled = strayed, !.complete = whole]
      /\ Goto("failed") \/ (Goto("facts") /\ ~Drifted)
  BY DEF SealManifest, Mine, repo
<1>2. manifest'.entries = manifest.entries /\ manifest'.facts = Nothing /\ manifest'.misled = strayed
  BY <1>1 DEF Typed, Placed
<1>3. CASE Goto("failed")
  BY <1>2, <1>3, GotoFacts, FactsNone DEF Entering, Factual
<1>4. CASE Goto("facts") /\ ~Drifted
  <2>1. Still /\ job'.step = "facts"
    BY <1>1, <1>4, GotoFacts DEF Still
  <2>2. ~strayed => OfTheScope(manifest.entries)
    BY <1>1, <1>4 DEF FactsKept, Steady
  <2>3. ~manifest'.misled => OfTheScope(manifest.entries)'
    BY <1>2, <2>1, <2>2, ScopeFacts DEF OfTheScope
  <2> QED BY <1>2, <2>1, <2>3, NothingDomain DEF FactsKept, Entering, Factual
<1> QED BY <1>1, <1>3, <1>4

\* A fact is taken only if it is the text of its entry.
LEMMA FactKept ==
  ASSUME Inv, FactsKept, StartFact \/ (\E p \in Paths : ListFact(p)) \/ InspectFact \/ ReadFact \/ AcceptFact
  PROVE  FactsKept'
<1> USE DEF Inv
<1>1. ASSUME manifest' = manifest, job'.scope = job.scope, job'.step = "failed" PROVE FactsKept'
  BY <1>1, FactsRest DEF Entering, Factual
<1>2. ASSUME job.step \in Factual, manifest' = manifest, job'.scope = job.scope, job'.step \in Factual,
             job'.step \in {"fact-mode", "fact-read", "fact-check"} =>
                 Path' \in DOMAIN manifest.entries /\ manifest.entries[Path'].text # "none",
             job'.step = "fact-read" => "identity" \in DOMAIN job'.item,
             job'.step = "fact-check" => job'.item.identity = manifest.entries[Path'].text
      PROVE  FactsKept'
  <2>1. /\ ~manifest.misled => OfTheScope(manifest.entries)
        /\ ~manifest.misled => \A p \in Units \cap DOMAIN manifest.facts : manifest.facts[p] = Side(p).text
    BY <1>2 DEF FactsKept
  <2>2. Units' = Units /\ \A p \in Units : Side(p)' = Side(p)
    BY <1>2 DEF Units, Side
  <2>3. ~manifest'.misled => OfTheScope(manifest.entries)'
    BY <1>2, <2>1, <2>2 DEF OfTheScope
  <2>4. job'.step \notin Entering \cup {"seal"}
    BY <1>2 DEF Entering, Factual
  <2> QED BY <1>2, <2>1, <2>2, <2>3, <2>4 DEF FactsKept
<1>3. CASE StartFact
  <2>1. job.step \in Factual /\ manifest' = manifest /\ (Goto("failed") \/ Goto("fact-list"))
    BY <1>3 DEF StartFact, Factual
  <2> QED BY <1>1, <1>2, <2>1, GotoFacts DEF Factual
<1>4. ASSUME NEW p \in Paths, ListFact(p) PROVE FactsKept'
  <2>1. job.step \in Factual /\ manifest' = manifest /\ p \in Unread
    BY <1>4 DEF ListFact, Factual
  <2>2. CASE Goto("failed")
    BY <1>1, <2>1, <2>2, GotoFacts
  <2>3. CASE ~Goto("failed")
    <3> DEFINE queue == Only(p, GitTree[p])
               step == IF job.source = "unstaged" THEN "fact-mode" ELSE "fact-read"
    <3>1. job' = [job EXCEPT !.queue = queue, !.item = NoItem, !.step = step]
      BY <1>4, <2>3 DEF ListFact
    <3>2. /\ job'.queue = queue /\ job'.step \in {"fact-mode", "fact-read"} /\ job'.scope = job.scope
          /\ "identity" \in DOMAIN job'.item
      BY <3>1 DEF Typed, NoItem
    <3>3. DOMAIN queue = {p}
      BY DEF Only
    <3> HIDE DEF queue
    <3>4. Path' = p
      <4>1. {p} \in SUBSET Paths
        OBVIOUS
      <4>2. Min({p}) \in {p}
        BY <4>1, FirstPath
      <4> QED BY <3>2, <3>3, <4>2 DEF Path
    <3>5. p \in DOMAIN manifest.entries /\ manifest.entries[p].text # "none"
      BY <2>1 DEF Unread
    <3> QED BY <1>2, <2>1, <3>2, <3>4, <3>5 DEF Factual
  <2> QED BY <2>2, <2>3
<1>5. CASE InspectFact \/ ReadFact
  <2>1. /\ job.step \in {"fact-mode", "fact-read"} /\ manifest' = manifest
        /\ \/ Goto("failed")
           \/ \E item : ToStep("fact-read", item) /\ "identity" \in DOMAIN item
           \/ \E item : ToStep("fact-check", item) /\ item.identity = manifest.entries[Path].text
    <3>1. CASE InspectFact
      <4>1. "identity" \in DOMAIN [NoItem EXCEPT !.mode = UnstagedMode(Path, Record.mode)]
        BY DEF NoItem
      <4> QED BY <3>1, <4>1 DEF InspectFact
    <3>2. CASE ReadFact
      <4> DEFINE found == IF job.source # "unstaged" THEN Record.text
                          ELSE IF Openable(Path, job.item.mode) THEN disk[Path].text ELSE "none"
      <4>1. /\ job.step = "fact-read" /\ manifest' = manifest
            /\ IF found = manifest.entries[Path].text THEN ToStep("fact-check", [job.item EXCEPT !.identity = found])
               ELSE Goto("failed")
        BY <3>2 DEF ReadFact
      <4> HIDE DEF found
      <4>2. [job.item EXCEPT !.identity = found].identity = found
        <5>1. "identity" \in DOMAIN job.item
          BY <4>1 DEF FactsKept
        <5> QED BY <5>1
      <4> QED BY <4>1, <4>2
    <3> QED BY <1>5, <3>1, <3>2
  <2>2. Path \in DOMAIN manifest.entries /\ manifest.entries[Path].text # "none" /\ job.step \in Factual
    BY <2>1 DEF FactsKept, Factual
  <2>3. CASE Goto("failed")
    BY <1>1, <2>1, <2>3, GotoFacts
  <2>4. ASSUME NEW item, ToStep("fact-read", item), "identity" \in DOMAIN item PROVE FactsKept'
    <3>1. job'.step = "fact-read" /\ job'.scope = job.scope /\ Path' = Path /\ job'.item = item
      BY <2>4, ToStepFacts DEF Path
    <3> QED BY <1>2, <2>1, <2>2, <2>4, <3>1 DEF Factual
  <2>5. ASSUME NEW item, ToStep("fact-check", item), item.identity = manifest.entries[Path].text PROVE FactsKept'
    <3>1. job'.step = "fact-check" /\ job'.scope = job.scope /\ Path' = Path /\ job'.item = item
      BY <2>5, ToStepFacts DEF Path
    <3> QED BY <1>2, <2>1, <2>2, <2>5, <3>1 DEF Factual
  <2> QED BY <2>1, <2>3, <2>4, <2>5
<1>6. CASE AcceptFact
  <2>1. CASE Fail
    BY <1>1, <2>1, GotoFacts DEF Fail
  <2>2. CASE ~Fail
    <3> DEFINE facts == manifest.facts ++ Only(Path, job.item.identity)
    <3>1. job.step = "fact-check" /\ Goto("facts") /\ manifest' = [manifest EXCEPT !.facts = facts]
      BY <1>6, <2>2 DEF AcceptFact
    <3>2. /\ DOMAIN facts = DOMAIN manifest.facts \cup {Path}
          /\ \A q \in DOMAIN manifest.facts : facts[q] = manifest.facts[q]
          /\ Path \notin DOMAIN manifest.facts => facts[Path] = job.item.identity
      BY DEF ++, Only
    <3> HIDE DEF facts
    <3>3. manifest'.facts = facts /\ manifest'.entries = manifest.entries /\ manifest'.misled = manifest.misled
      BY <3>1 DEF Typed
    <3>4. /\ job'.step = "facts" /\ Units' = Units /\ \A p \in Units : Side(p)' = Side(p)
      BY <3>1, GotoFacts DEF Units, Side
    <3>5. /\ ~manifest.misled => OfTheScope(manifest.entries)
          /\ ~manifest.misled => \A p \in Units \cap DOMAIN manifest.facts : manifest.facts[p] = Side(p).text
          /\ Path \in DOMAIN manifest.entries /\ manifest.entries[Path].text # "none"
          /\ job.item.identity = manifest.entries[Path].text
      BY <3>1 DEF FactsKept, Factual
    <3>6. ~manifest.misled => \A p \in Units \cap DOMAIN facts : facts[p] = Side(p).text
      BY <3>2, <3>5 DEF OfTheScope
    <3>7. ~manifest'.misled => OfTheScope(manifest.entries)'
      BY <3>3, <3>4, <3>5 DEF OfTheScope
    <3> QED BY <3>3, <3>4, <3>6, <3>7 DEF FactsKept, Entering, Factual
  <2> QED BY <2>1, <2>2
<1> QED BY <1>3, <1>4, <1>5, <1>6

LEMMA FactsStep ==
  ASSUME Inv, Inv', FactsKept, [Next]_vars
  PROVE  FactsKept'
<1> USE DEF Inv
<1>1. CASE Edits \/ Expire \/ UNCHANGED vars
  <2>1. job' = job /\ manifest' = manifest
    BY <1>1, EditTyped DEF Edited, Expire, vars
  <2>2. Steady' => Steady
    <3>1. CASE Edits
      BY <3>1, EditTyped, EditedSteady
    <3>2. CASE Expire \/ UNCHANGED vars
      BY <3>2, StillSteady DEF Expire, vars, repo, Still
    <3> QED BY <1>1, <3>1, <3>2
  <2>3. Units' = Units /\ (\A p \in Units : Side(p)' = Side(p) /\ RecordOf(p)' = RecordOf(p)) /\ Path' = Path
    BY <2>1 DEF Units, Side, RecordOf, Path
  <2>4. OfTheScope(manifest.entries) => OfTheScope(manifest.entries)'
    BY <2>1, <2>3 DEF OfTheScope
  <2> QED BY <2>1, <2>2, <2>3, <2>4 DEF FactsKept
<1>2. CASE Shots
  <2>1. job'.kind = "snapshot"
    BY <1>2, SnapshotKind
  <2> QED BY <2>1, FactsNone DEF Placed, NoManifest, Entering, Factual
<1>3. ASSUME manifest = NoManifest, manifest' = manifest, job'.step \in {"list", "missing", "reading", "failed"} \cup Preparing
      PROVE  FactsKept'
  BY <1>3, FactsNone DEF NoManifest, Preparing, Entering, Factual
<1>4. CASE ListContent \/ InspectMode \/ MeasureGit \/ MeasurePath \/ HashPath \/ MapRanges
  <2>1. manifest = NoManifest /\ manifest' = manifest
    BY <1>4 DEF ListContent, InspectMode, MeasureGit, MeasurePath, HashPath, MapRanges, Fail, Preparing, Placed
  <2> QED BY <1>3, <1>4, <2>1, PreparingStep
<1>5. CASE OpenScope \/ AddMissing \/ \E p \in Paths : ReadCandidate(p)
  <2>1. manifest = NoManifest /\ manifest' = manifest
    BY <1>5 DEF OpenScope, AddMissing, ReadCandidate, Placed
  <2>2. job'.step \in {"list", "reading"}
    BY <1>5, GotoFacts DEF OpenScope, AddMissing, ReadCandidate, Typed
  <2> QED BY <1>3, <2>1, <2>2
<1>6. CASE ReadOpeningTree \/ ReadLocator
  <2>1. manifest.facts = Nothing /\ \E tree : manifest' = [manifest EXCEPT !.tree = tree] \/ manifest' = [manifest EXCEPT !.index = tree]
    BY <1>6 DEF ReadOpeningTree, ReadLocator, Placed, NoManifest
  <2>2. job'.step \in {"failed", "locator", "manifest"}
    BY <1>6, GotoFacts DEF ReadOpeningTree, ReadLocator
  <2>3. manifest'.facts = Nothing
    BY <2>1 DEF Typed
  <2> QED BY <2>2, <2>3, FactsNone DEF Entering, Factual
<1>7. CASE Revalidate
  <2>1. manifest' = manifest /\ (Goto("invalidated") \/ Goto("released"))
    BY <1>7 DEF Revalidate
  <2> QED BY <2>1, GotoFacts, FactsRest DEF Entering, Factual
<1> QED BY <1>1, <1>2, <1>4, <1>5, <1>6, <1>7, ListManifestKept, EntryKept, SealKept, FactKept DEF Next, Edits, Shots

\* A step outside a verification, and one that leaves the snapshot alone.
LEMMA WalkedRest ==
  ASSUME shot'.tree = [p \in DOMAIN shot'.tree |-> shot'.tree[p]], job'.step \notin {"sealed", "walk", "digest"}
  PROVE  Walked'
BY DEF Walked

LEMMA UnwalkedStep ==
  ASSUME Inv, Inv', Walked, ListSnapshot \/ InspectTracked \/ CopyTracked \/ Protect
  PROVE  Walked'
<1> USE DEF Inv
<1>1. shot.tree = [p \in DOMAIN shot.tree |-> shot.tree[p]]
  BY DEF Walked
<1>2. CASE ListSnapshot
  <2>1. CASE job.source = "unstaged"
    <3>1. shot' = shot /\ \E queue : job' = [job EXCEPT !.queue = queue, !.step = After(queue, "copy", "protect")]
      BY <1>2, <2>1 DEF ListSnapshot
    <3>2. job'.step \in {"copy", "protect"}
      BY <3>1 DEF Typed, After
    <3> QED BY <1>1, <3>1, <3>2, WalkedRest
  <2>2. CASE Fail
    BY <1>1, <2>2, GotoFacts, WalkedRest DEF Fail
  <2>3. CASE job.source # "unstaged" /\ ~Fail
    <3> DEFINE blobs == Materialized(GitTree)
    <3>1. Goto("protect") /\ \E bytes : shot' = [shot EXCEPT !.tree = blobs, !.bytes = bytes]
      BY <1>2, <2>3 DEF ListSnapshot
    <3>2. blobs = [p \in DOMAIN blobs |-> blobs[p]]
      BY DEF Materialized, Restrict
    <3> HIDE DEF blobs
    <3>3. shot'.tree = blobs
      BY <3>1 DEF Typed
    <3> QED BY <3>1, <3>2, <3>3, GotoFacts, WalkedRest
  <2> QED BY <2>1, <2>2, <2>3
<1>3. CASE InspectTracked
  <2>1. shot' = shot /\ job.step = "copy" /\ (Goto("failed") \/ NextTracked \/ \E item : ToStep("copy", item))
    BY <1>3 DEF InspectTracked
  <2>2. job'.step \in {"copy", "protect", "failed"}
    BY <2>1, GotoFacts, NextTrackedFacts, ToStepFacts
  <2> QED BY <1>1, <2>1, <2>2, WalkedRest
<1>4. CASE CopyTracked
  <2>1. /\ job.step = "copy"
        /\ \/ Goto("failed") /\ shot' = shot
           \/ NextTracked /\ \E entry, bytes : shot' = [shot EXCEPT !.tree = @ ++ Only(Path, entry), !.bytes = bytes]
    BY <1>4 DEF CopyTracked
  <2>2. CASE Goto("failed") /\ shot' = shot
    BY <1>1, <2>2, GotoFacts, WalkedRest
  <2>3. ASSUME NextTracked, NEW entry, NEW bytes, shot' = [shot EXCEPT !.tree = @ ++ Only(Path, entry), !.bytes = bytes]
        PROVE  Walked'
    <3> DEFINE tree == shot.tree ++ Only(Path, entry)
    <3>1. tree = [p \in DOMAIN tree |-> tree[p]]
      BY DEF ++
    <3> HIDE DEF tree
    <3>2. shot'.tree = tree
      BY <2>3 DEF Typed, tree
    <3>3. job'.step \in {"copy", "protect"}
      BY <2>1, <2>3, NextTrackedFacts
    <3> QED BY <3>1, <3>2, <3>3, WalkedRest
  <2> QED BY <2>1, <2>2, <2>3
<1>5. CASE Protect
  <2>1. Goto("sealed") /\ shot' = [shot EXCEPT !.sealed = Digested, !.loose = {}]
    BY <1>5 DEF Protect
  <2>2. /\ shot'.tree = shot.tree /\ shot'.sealed = [tree |-> shot.tree, extra |-> shot.extra] /\ job'.step = "sealed"
    BY <2>1, GotoFacts DEF Typed, Digested
  <2> QED BY <1>1, <2>2 DEF Walked
<1> QED BY <1>2, <1>3, <1>4, <1>5

\* Whatever is changed under a verification, unless it is put back it is seen.
LEMMA TamperedKept ==
  ASSUME Inv, Walked, NEW p, Loosen(p) \/ Alter(p) \/ AddDirectory
  PROVE  Walked'
<1> USE DEF Inv
<1>1. job.step \in {"sealed", "walk", "digest"} /\ job' = job
  BY DEF Loosen, Alter, AddDirectory, Tampered, Verifying
<1>2. CASE Loosen(p)
  <2>1. /\ shot'.tree = shot.tree /\ shot'.extra = shot.extra /\ shot'.sealed = shot.sealed /\ shot'.left = shot.left
        /\ shot'.unseen = shot.unseen /\ shot'.seen = shot.seen /\ shot'.mended = shot.mended
    BY <1>2 DEF Loosen, Typed
  <2>2. Differs(shot.tree)' = Differs(shot.tree) /\ Differs(shot.seen.tree)' = Differs(shot.seen.tree)
    BY <2>1 DEF Differs
  <2> QED BY <1>1, <2>1, <2>2 DEF Walked
<1>3. CASE AddDirectory
  <2>1. /\ shot'.tree = shot.tree /\ shot'.extra = ~shot.extra /\ shot'.sealed = shot.sealed /\ shot'.left = shot.left
        /\ shot'.unseen = shot.unseen /\ shot'.seen = shot.seen
        /\ shot'.mended = (shot.mended \/ (Verifying /\ shot.extra # shot.sealed.extra))
    BY <1>3 DEF AddDirectory, Typed
  <2>2. Verifying <=> job.step \in {"walk", "digest"}
    BY DEF Verifying
  <2>3. /\ job.step \in {"walk", "digest"} /\ ~shot'.mended =>
             shot.extra = shot.sealed.extra /\ shot.left.extra = shot.sealed.extra
    BY <2>1, <2>2 DEF Walked
  <2>4. Differs(shot.tree)' = Differs(shot.tree) /\ Differs(shot.seen.tree)' = Differs(shot.seen.tree)
    BY <2>1 DEF Differs
  <2>5. job.step \in {"walk", "digest"} /\ ~shot'.mended =>
             ~shot.mended /\ shot'.left.extra = shot'.sealed.extra
    BY <2>1, <2>3
  <2>6. job.step = "digest" /\ ~shot'.mended =>
             Differs(shot.seen.tree)' /\ (shot'.left.extra # shot'.sealed.extra => shot'.seen.extra # shot'.sealed.extra)
    BY <2>4, <2>5 DEF Walked
  <2>7. job.step \in {"walk", "digest"} /\ ~shot'.mended =>
             Differs(shot.tree)' /\ (shot'.left.extra # shot'.sealed.extra => shot'.extra # shot'.sealed.extra)
    BY <2>4, <2>5 DEF Walked
  <2> QED BY <1>1, <2>1, <2>6, <2>7 DEF Walked
<1>4. CASE Alter(p)
  <2>1. PICK e \in Writes : shot' = [shot EXCEPT !.tree[p] = e, !.loose = @ \ {p},
                                               !.mended = @ \/ (Verifying /\ e = shot.sealed.tree[p])]
    BY <1>4 DEF Alter
  <2> DEFINE tree == [shot.tree EXCEPT ![p] = e]
  <2>2. tree = [q \in DOMAIN tree |-> tree[q]] /\ DOMAIN tree = DOMAIN shot.tree
    OBVIOUS
  <2>3. \A q \in DOMAIN tree : tree[q] = IF q = p THEN e ELSE shot.tree[q]
    OBVIOUS
  <2>4. /\ shot'.tree = tree /\ shot'.extra = shot.extra /\ shot'.sealed = shot.sealed /\ shot'.left = shot.left
        /\ shot'.unseen = shot.unseen /\ shot'.seen = shot.seen
        /\ shot'.mended = (shot.mended \/ (Verifying /\ e = shot.sealed.tree[p]))
    BY <2>1 DEF Typed
  <2> HIDE DEF tree
  <2>5. ASSUME job.step \in {"walk", "digest"}, ~shot'.mended PROVE Differs(shot.tree)'
    <3>1. ~shot.mended /\ e # shot.sealed.tree[p]
      BY <2>4, <2>5 DEF Verifying
    <3> QED BY <2>2, <2>3, <2>4, <2>5, <3>1 DEF Walked, Differs
  <2>6. Differs(shot.seen.tree)' = Differs(shot.seen.tree)
    BY <2>4 DEF Differs
  <2>7. ~shot'.mended => ~shot.mended
    BY <2>4
  <2>8. shot'.tree = [q \in DOMAIN shot'.tree |-> shot'.tree[q]] /\ DOMAIN shot'.tree = DOMAIN shot.tree
    BY <2>2, <2>4
  <2>9. job.step \in {"sealed", "walk", "digest"} =>
           /\ shot'.sealed = [tree |-> shot'.sealed.tree, extra |-> shot'.sealed.extra]
           /\ shot'.sealed.tree = [q \in DOMAIN shot'.tree |-> shot'.sealed.tree[q]]
    BY <2>4, <2>8 DEF Walked
  <2>10. job.step \in {"walk", "digest"} =>
           /\ shot'.left = [tree |-> shot'.left.tree, extra |-> shot'.left.extra]
           /\ shot'.left.tree = [q \in DOMAIN shot'.tree |-> shot'.left.tree[q]]
           /\ shot'.unseen \subseteq DOMAIN shot'.tree
           /\ ~shot'.mended => (shot'.left.extra # shot'.sealed.extra => shot'.extra # shot'.sealed.extra)
    BY <2>4, <2>7, <2>8 DEF Walked
  <2>11. job.step = "digest" =>
           /\ DOMAIN shot'.seen = {"tree", "extra", "loose"}
           /\ DOMAIN shot'.seen.tree = DOMAIN shot'.tree \ shot'.unseen
           /\ ~shot'.mended => Differs(shot.seen.tree)'
                               /\ (shot'.left.extra # shot'.sealed.extra => shot'.seen.extra # shot'.sealed.extra)
    BY <2>4, <2>6, <2>7, <2>8 DEF Walked
  <2> QED BY <1>1, <2>5, <2>8, <2>9, <2>10, <2>11 DEF Walked
<1> QED BY <1>2, <1>3, <1>4

\* A field of a field.
LEMMA SeenFacts ==
  ASSUME Typed, "tree" \in DOMAIN shot.seen, "loose" \in DOMAIN shot.seen, NEW unseen, NEW tree, NEW loose,
         shot' = [shot EXCEPT !.unseen = unseen, !.seen.tree = tree, !.seen.loose = loose]
  PROVE  shot'.seen.tree = tree /\ shot'.seen.extra = shot.seen.extra /\ DOMAIN shot'.seen = DOMAIN shot.seen
<1> DEFINE once == [shot.seen EXCEPT !.tree = tree]
           twice == [once EXCEPT !.loose = loose]
<1>1. shot'.seen = twice
  BY DEF Typed
<1>2. once.tree = tree /\ once.extra = shot.seen.extra /\ DOMAIN once = DOMAIN shot.seen
  BY DEF once
<1> HIDE DEF once
<1>3. twice.tree = once.tree /\ twice.extra = once.extra /\ DOMAIN twice = DOMAIN once
  BY <1>2
<1> QED BY <1>1, <1>2, <1>3

LEMMA VerifyKept ==
  ASSUME Inv, Walked,
         StartVerify \/ (\E p \in Paths : InspectWritable(p)) \/ StartDigest \/ HashSnapshot \/ CompareDigest
  PROVE  Walked'
<1> USE DEF Inv
<1>1. CASE StartVerify
  <2>1. job.step = "sealed" /\ Goto("walk") /\ shot' = [shot EXCEPT !.left = Digested, !.unseen = DOMAIN shot.tree]
    BY <1>1 DEF StartVerify
  <2>2. /\ shot'.tree = shot.tree /\ shot'.extra = shot.extra /\ shot'.sealed = shot.sealed
        /\ shot'.left = [tree |-> shot.tree, extra |-> shot.extra] /\ shot'.unseen = DOMAIN shot.tree /\ job'.step = "walk"
    BY <2>1, GotoFacts DEF Typed, Digested
  <2> QED BY <2>1, <2>2 DEF Walked, Differs
<1>2. ASSUME NEW p \in Paths, InspectWritable(p) PROVE Walked'
  <2>1. job.step = "walk" /\ (Goto("refused") \/ job' = job) /\ shot' = [shot EXCEPT !.unseen = @ \ {p}]
    BY <1>2 DEF InspectWritable
  <2>2. /\ shot'.tree = shot.tree /\ shot'.extra = shot.extra /\ shot'.sealed = shot.sealed /\ shot'.left = shot.left
        /\ shot'.unseen = shot.unseen \ {p} /\ shot'.mended = shot.mended /\ job'.step \in {"walk", "refused"}
    BY <2>1, GotoFacts DEF Typed
  <2> QED BY <2>1, <2>2 DEF Walked, Differs
<1>3. CASE StartDigest
  <2>1. /\ job.step = "walk" /\ Goto("digest")
        /\ shot' = [shot EXCEPT !.unseen = DOMAIN shot.tree, !.seen = [tree |-> Nothing, extra |-> shot.extra, loose |-> {}]]
    BY <1>3 DEF StartDigest
  <2>2. /\ shot'.tree = shot.tree /\ shot'.extra = shot.extra /\ shot'.sealed = shot.sealed /\ shot'.left = shot.left
        /\ shot'.unseen = DOMAIN shot.tree /\ shot'.mended = shot.mended /\ job'.step = "digest"
        /\ shot'.seen.tree = Nothing /\ shot'.seen.extra = shot.extra
        /\ DOMAIN shot'.seen = {"tree", "extra", "loose"}
    BY <2>1, GotoFacts DEF Typed
  <2>3. Differs(shot.tree)' = Differs(shot.tree) /\ Differs(shot.seen.tree)'
    BY <2>2, NothingDomain DEF Differs
  <2>4. DOMAIN shot'.seen.tree = DOMAIN shot'.tree \ shot'.unseen
    BY <2>2, NothingDomain
  <2> QED BY <2>1, <2>2, <2>3, <2>4 DEF Walked
<1>4. CASE HashSnapshot
  <2> DEFINE p == Min(shot.unseen)
             seen == shot.seen.tree ++ Only(p, shot.tree[p])
  <2>1. /\ job.step = "digest" /\ job' = job /\ shot.unseen # {}
        /\ shot' = [shot EXCEPT !.unseen = @ \ {p}, !.seen.tree = seen, !.seen.loose = @ \cup ({p} \cap shot.loose)]
    BY <1>4 DEF HashSnapshot
  <2>2. shot.unseen \subseteq DOMAIN shot.tree /\ DOMAIN shot.seen.tree = DOMAIN shot.tree \ shot.unseen
    BY <2>1 DEF Walked
  <2>3. p \in shot.unseen
    <3>1. shot.unseen \in SUBSET Paths
      BY <2>2 DEF Typed, Measured
    <3> QED BY <2>1, <3>1, FirstPath
  <2> HIDE DEF p
  <2>4. /\ DOMAIN seen = DOMAIN shot.seen.tree \cup {p} /\ seen[p] = shot.tree[p]
        /\ \A q \in DOMAIN shot.seen.tree : seen[q] = shot.seen.tree[q]
    BY <2>2, <2>3 DEF ++, Only
  <2> HIDE DEF seen
  <2>5. /\ shot'.tree = shot.tree /\ shot'.extra = shot.extra /\ shot'.sealed = shot.sealed /\ shot'.left = shot.left
        /\ shot'.unseen = shot.unseen \ {p} /\ shot'.mended = shot.mended
    BY <2>1 DEF Typed
  <2>6. shot'.seen.tree = seen /\ shot'.seen.extra = shot.seen.extra /\ DOMAIN shot'.seen = DOMAIN shot.seen
    BY <2>1, SeenFacts DEF Walked
  <2>7. ~shot.mended => Differs(seen)
    BY <2>1, <2>2, <2>3, <2>4 DEF Walked, Differs
  <2> QED BY <2>1, <2>2, <2>3, <2>4, <2>5, <2>6, <2>7 DEF Walked, Differs
<1>5. CASE CompareDigest
  <2>1. shot' = shot /\ (Goto("verified") \/ Goto("refused"))
    BY <1>5 DEF CompareDigest
  <2>2. job'.step \in {"verified", "refused"}
    BY <2>1, GotoFacts
  <2> QED BY <2>1, <2>2, WalkedRest DEF Walked
<1> QED BY <1>1, <1>2, <1>3, <1>4, <1>5

\* Every other step is of a review's job.
LEMMA ReviewKind ==
  ASSUME Inv, Next, ~Edits, ~Expire, ~Shots
  PROVE  job.kind = "review" /\ job'.kind = "review"
<1> USE DEF Inv
<1>1. job.kind = "review"
  <2> SUFFICES ASSUME job.kind # "review" PROVE FALSE
    OBVIOUS
  <2>1. job.kind = "snapshot" /\ job.step \in {"open", "copy", "protect", "sealed", "walk", "digest", "verified", "refused", "failed"}
    BY KindFacts DEF Placed
  <2> QED BY <2>1 DEF Next, Edits, Shots, ReadCandidate, ListFact, OpenScope, ListContent, InspectMode, MeasureGit, MeasurePath,
        HashPath, MapRanges, AddMissing, ReadOpeningTree, ReadLocator, ListManifest, InspectEntry, MeasureEntry, HashEntry,
        SealManifest, StartFact, InspectFact, ReadFact, AcceptFact, Revalidate
<1>2. job'.kind = job.kind
  <2>1. ASSUME NEW step, Goto(step) PROVE job'.kind = job.kind
    BY <2>1, GotoFacts
  <2>2. ASSUME NEW step, NEW item, ToStep(step, item) PROVE job'.kind = job.kind
    BY <2>2, ToStepFacts
  <2>3. ASSUME NEW step, NEW last, NextRecord(step, last) PROVE job'.kind = job.kind
    BY <2>3, NextRecordFacts
  <2>4. CASE OpenScope \/ ListContent \/ ListManifest
    BY <2>1, <2>4 DEF OpenScope, ListContent, ListManifest, Fail, Typed
  <2>5. CASE InspectMode \/ MeasureGit \/ MeasurePath \/ HashPath \/ MapRanges
    BY <2>1, <2>2, <2>3, <2>5 DEF InspectMode, MeasureGit, MeasurePath, HashPath, MapRanges, Gone, Unreadable
  <2>6. CASE AddMissing \/ (\E p \in Paths : ReadCandidate(p)) \/ ReadOpeningTree \/ ReadLocator \/ SealManifest \/ Revalidate
    BY <2>1, <2>6 DEF AddMissing, ReadCandidate, ReadOpeningTree, ReadLocator, SealManifest, Revalidate
  <2>7. CASE InspectEntry \/ MeasureEntry \/ HashEntry
    BY <2>1, <2>2, <2>3, <2>7 DEF InspectEntry, MeasureEntry, HashEntry, NextEntry, Gone, Unreadable
  <2>8. CASE StartFact \/ (\E p \in Paths : ListFact(p)) \/ InspectFact \/ ReadFact \/ AcceptFact
    BY <2>1, <2>2, <2>8 DEF StartFact, ListFact, InspectFact, ReadFact, AcceptFact, Fail, Typed
  <2> QED BY <2>4, <2>5, <2>6, <2>7, <2>8 DEF Next, Edits, Shots
<1> QED BY <1>1, <1>2

LEMMA WalkedStep ==
  ASSUME Inv, Inv', Walked, [Next]_vars
  PROVE  Walked'
<1> USE DEF Inv
<1>1. CASE Edits \/ Expire \/ UNCHANGED vars
  <2>1. job' = job /\ shot' = shot
    BY <1>1, EditTyped DEF Edited, Expire, vars
  <2> QED BY <2>1 DEF Walked, Differs
<1>2. CASE Shots
  BY <1>2, UnwalkedStep, TamperedKept, VerifyKept DEF Shots
<1>3. CASE ~Edits /\ ~Expire /\ ~Shots /\ ~UNCHANGED vars
  <2>1. job'.kind = "review"
    <3>1. job.kind = "review" /\ job'.kind = job.kind
      BY <1>3, ReviewKind
    <3> QED BY <3>1
  <2>2. shot' = NoShot /\ job'.step \notin {"sealed", "walk", "digest"}
    BY <2>1 DEF Placed, Preparing, Opened, Entering, Factual
  <2>3. shot'.tree = Nothing /\ Nothing = [p \in DOMAIN Nothing |-> Nothing[p]]
    BY <2>2 DEF NoShot, Nothing
  <2> QED BY <2>2, <2>3, WalkedRest
<1> QED BY <1>1, <1>2, <1>3

\* What the second walk hashed is what was sealed: so was all that was left to it.
LEMMA VerifiedStep ==
  ASSUME Inv, Walked, VerifiedIsAsSealed, [Next]_vars
  PROVE  VerifiedIsAsSealed'
<1> USE DEF Inv
<1>1. CASE CompareDigest
  <2>1. shot' = shot /\ job.step = "digest" /\ shot.unseen = {} /\ IF Unchanged THEN Goto("verified") ELSE Goto("refused")
    BY <1>1 DEF CompareDigest
  <2>2. CASE ~Unchanged
    BY <2>1, <2>2, GotoFacts DEF VerifiedIsAsSealed
  <2>3. CASE Unchanged /\ ~shot.mended
    <3>1. shot.seen.tree = shot.sealed.tree /\ shot.seen.extra = shot.sealed.extra
      BY <2>3 DEF Unchanged
    <3>2. shot.left.extra = shot.sealed.extra
      BY <2>1, <2>3, <3>1 DEF Walked
    <3>3. \A p \in DOMAIN shot.tree : shot.left.tree[p] = shot.sealed.tree[p]
      BY <2>1, <2>3, <3>1 DEF Walked, Differs
    <3>4. shot.left.tree = shot.sealed.tree
      <4>1. /\ shot.left.tree = [p \in DOMAIN shot.tree |-> shot.left.tree[p]]
            /\ shot.sealed.tree = [p \in DOMAIN shot.tree |-> shot.sealed.tree[p]]
        BY <2>1 DEF Walked
      <4> QED BY <3>3, <4>1
    <3>5. shot.left = shot.sealed
      <4>1. /\ shot.left = [tree |-> shot.left.tree, extra |-> shot.left.extra]
            /\ shot.sealed = [tree |-> shot.sealed.tree, extra |-> shot.sealed.extra]
        BY <2>1 DEF Walked
      <4> QED BY <3>2, <3>4, <4>1
    <3> QED BY <2>1, <3>5 DEF VerifiedIsAsSealed
  <2>4. CASE shot.mended
    BY <2>1, <2>4 DEF VerifiedIsAsSealed
  <2> QED BY <2>2, <2>3, <2>4
<1>2. ASSUME job'.step # "verified" PROVE VerifiedIsAsSealed'
  BY <1>2 DEF VerifiedIsAsSealed
<1>3. CASE Edits \/ Expire \/ UNCHANGED vars
  <2>1. job' = job /\ shot' = shot
    BY <1>3, EditTyped DEF Edited, Expire, vars
  <2> QED BY <2>1 DEF VerifiedIsAsSealed
<1>4. CASE Shots /\ ~CompareDigest
  <2>1. CASE ListSnapshot \/ InspectTracked \/ CopyTracked \/ Protect
    <3>1. \/ Goto("failed") \/ Goto("protect") \/ Goto("sealed") \/ (job.step = "copy" /\ NextTracked)
          \/ (\E item : ToStep("copy", item))
          \/ \E queue : job' = [job EXCEPT !.queue = queue, !.step = After(queue, "copy", "protect")]
      BY <2>1 DEF ListSnapshot, InspectTracked, CopyTracked, Protect, Fail
    <3>2. ASSUME NEW queue, job' = [job EXCEPT !.queue = queue, !.step = After(queue, "copy", "protect")]
          PROVE  job'.step # "verified"
      <4>1. job'.step = After(queue, "copy", "protect")
        BY <3>2 DEF Typed
      <4> QED BY <4>1 DEF After
    <3>3. ASSUME NEW step \in {"failed", "protect", "sealed"}, Goto(step) PROVE job'.step # "verified"
      BY <3>3, GotoFacts
    <3>4. ASSUME NEW item, ToStep("copy", item) PROVE job'.step # "verified"
      BY <3>4, ToStepFacts
    <3>5. ASSUME job.step = "copy", NextTracked PROVE job'.step # "verified"
      BY <3>5, NextTrackedFacts
    <3>6. job'.step # "verified"
      BY <3>1, <3>2, <3>3, <3>4, <3>5
    <3> QED BY <1>2, <3>6
  <2>2. CASE AddDirectory \/ HashSnapshot \/ \E p \in Paths : Loosen(p) \/ Alter(p)
    <3>1. job' = job /\ job.step # "verified"
      BY <2>2 DEF AddDirectory, HashSnapshot, Loosen, Alter, Tampered, Verifying
    <3> QED BY <1>2, <3>1
  <2>3. CASE StartVerify \/ StartDigest \/ \E p \in Paths : InspectWritable(p)
    <3>1. (job' = job /\ job.step # "verified") \/ Goto("walk") \/ Goto("digest") \/ Goto("refused")
      BY <2>3 DEF StartVerify, StartDigest, InspectWritable
    <3> QED BY <1>2, <3>1, GotoFacts
  <2> QED BY <1>4, <2>1, <2>2, <2>3 DEF Shots
<1>5. CASE ~Edits /\ ~Expire /\ ~Shots /\ ~UNCHANGED vars
  <2>1. job.kind = "review" /\ job'.kind = "review" /\ Inv'
    BY <1>5, ReviewKind, Preserved
  <2> QED BY <1>2, <2>1 DEF Placed, Preparing, Opened, Entering, Factual
<1> QED BY <1>1, <1>3, <1>4, <1>5

LEMMA KeptInitially ==
  ASSUME Init
  PROVE  Kept /\ VerifiedIsAsSealed
<1>1. /\ job.step = "open" /\ content = NoContent /\ manifest = NoManifest /\ shot = NoShot
  BY DEF Init
<1>2. content.reads = Nothing /\ manifest.facts = Nothing /\ shot.tree = Nothing
  BY <1>1 DEF NoContent, NoManifest, NoShot
<1>3. Nothing = [p \in DOMAIN Nothing |-> Nothing[p]]
  BY DEF Nothing
<1> QED BY <1>1, <1>2, <1>3, NothingDomain
        DEF Kept, ReadsKept, FactsKept, Walked, VerifiedIsAsSealed, Opened, Entering, Factual

\* The source of a released manifest, and the bounds of what was captured.
LEMMA ReleasedIsExact == Inv => ReleasedIsOfItsScope
<1> SUFFICES ASSUME Inv, job.step = "released", ~strayed
             PROVE  ReleasedIsOfItsScope
  BY DEF ReleasedIsOfItsScope, ReleasedCaptureIsOfItsScope, GitManifestIsOfItsLocator
<1>1. Steady /\ ~late
  BY DEF Inv, Faithful, Steady
<1>2. CandidateIsSteady /\ ManifestIsSteady
  BY <1>1 DEF Inv, Faithful
<1>3. ReleasedCaptureIsOfItsScope
  BY <1>1, <1>2 DEF CandidateIsSteady, IsOf, ReleasedCaptureIsOfItsScope
<1>4. manifest.complete => ~manifest.truncated
  BY DEF Inv, Placed
<1>5. GitManifestIsOfItsLocator
  BY <1>2, <1>4 DEF ManifestIsSteady, EntriesAreLocated, GitManifestIsOfItsLocator
<1> QED BY <1>3, <1>5 DEF ReleasedIsOfItsScope

(* What a released answer says of every changed file, its text, its mode and its
   changed ranges, which separate git calls and separate looks at the disk found
   at separate times, is what its scope says; and a staged or a branch manifest
   is of the index or the tree it is filed under.  run_collect and
   run_index_build revalidate only once, at the end. *)
THEOREM ReleaseIsOfItsScope == Spec => []ReleasedIsOfItsScope
<1> QED BY Invariance, ReleasedIsExact, PTL

LEMMA BytesAreExact == Kept /\ VerifiedIsAsSealed => BytesAreAsCaptured
BY DEF Kept, ReadsKept, FactsKept, BytesAreAsCaptured, ReadsAreOfTheScope, Side

LEMMA KeptByStep ==
  ASSUME Inv, Inv', Kept /\ VerifiedIsAsSealed, [Next]_vars
  PROVE  (Kept /\ VerifiedIsAsSealed)'
BY ReadsStep, FactsStep, WalkedStep, VerifiedStep DEF Kept

(* Whatever the user writes, stages and commits after a capture whose scope had not
   moved when it was done, what is read of a changed file later is the text of that
   scope, and so is what a sealed manifest gives; and a snapshot that passes its
   verification, two walks that look at one entry after the other, was as sealed when
   they began, unless something was put back under them. *)
THEOREM ReadsAreAsCaptured == Spec => []BytesAreAsCaptured
<1>1. Spec => [](Kept /\ VerifiedIsAsSealed)
  BY Invariance, KeptInitially, KeptByStep, PTL DEF Spec
<1> QED BY <1>1, BytesAreExact, PTL

LEMMA LimitsAreExact == Inv => NothingIsCutSilently
<1> SUFFICES ASSUME Inv PROVE NothingIsCutSilently
  OBVIOUS
<1>1. Typed /\ Placed /\ Prepared /\ Manifested /\ Copied
  BY DEF Inv
<1>2. Total([p \in Readable |-> Bytes[content.files[p].identity]]) <= TotalLimit
  <2> DEFINE total == Reserved(content.files, content.errors)
  <2>1. total = Total([p \in Readable |-> Bytes[content.files[p].identity]])
    BY DEF Reserved, ReadableOf, Readable
  <2>2. total \in Nat /\ Held \in Nat /\ total + Held <= content.reserved /\ content.reserved \in 0..TotalLimit
    BY <1>1, HeldIsNat DEF Prepared, Typed, TypeOK
  <2> HIDE DEF total
  <2>3. total <= TotalLimit
    BY <2>2, CaptureAssumption
  <2> QED BY <2>1, <2>3
<1>3. BytesOf(manifest.entries) <= TotalLimit
  <2> DEFINE total == BytesOf(manifest.entries)
  <2>1. total \in Nat /\ total <= manifest.bytes /\ manifest.bytes \in 0..TotalLimit
    BY <1>1, BytesOfMeasured DEF Manifested, Typed, TypeOK
  <2> HIDE DEF total
  <2>2. total <= TotalLimit
    BY <2>1, CaptureAssumption
  <2> QED BY <2>2 DEF total
<1>4. job.step \in {"copy", "protect"} => Fits(shot.tree)
  BY <1>1 DEF Copied
<1>5. BoundsHold
  BY <1>1, <1>2, <1>3, <1>4 DEF BoundsHold, Prepared, Manifested, Fits
<1>6. OmissionIsDeclared
  <2> SUFFICES ASSUME job.kind = "review",
                      job.step \notin {"open", "list", "mode", "size", "hash", "ranges", "missing", "failed"},
                      NEW p \in Units
               PROVE  /\ p \in DOMAIN content.files
                      /\ \/ p \in DOMAIN content.errors \/ content.files[p].presence = "deleted"
                         \/ content.files[p].identity # "none"
    BY DEF OmissionIsDeclared
  <2>1. job.step \in Opened
    BY <1>1 DEF Placed, Preparing
  <2>2. p \in DOMAIN content.files
    BY <1>1, <2>1 DEF Prepared
  <2> QED BY <1>1, <2>2 DEF Prepared, Texts
<1> QED BY <1>1, <1>5, <1>6 DEF NothingIsCutSilently, Typed

(* No file, no total and no snapshot takes more than its limit, though files grow
   between the look at their size and the reading of their bytes; and a changed
   file that a limit, a deadline or an error kept out is listed with the reason. *)
THEOREM LimitsAreKeptAndTold == Spec => []NothingIsCutSilently
<1> QED BY Invariance, LimitsAreExact, PTL
=============================================================================
