---------------------------- MODULE ArtifactInstall ----------------------------
(***************************************************************************)
(* How third-party packs reach an installed target: install.sh stages a    *)
(* tree beside the target, provisions the optional scanner and the         *)
(* required provider into it and swaps it in by two renames; "artifacts    *)
(* provision" (artifacts/cli.rs, cache.rs) publishes a verified pack in    *)
(* the shared cache and copies it below a target root, the receipt last;   *)
(* "artifacts doctor" reads a target.                                      *)
(*                                                                         *)
(* Everything is done by path, so a tree may be swapped under a process    *)
(* that works in it.  Any process may be killed between two steps.         *)
(***************************************************************************)
EXTENDS Naturals, FiniteSets

CONSTANTS
    Processes,     \* a set of numbers ...
    Casts,         \* the sets of them that may be started together
    Role,          \* ... each an "installer", a "provisioner" or a "doctor",
    Release,       \* of a distribution, a number from 1,
    WithProvider,  \* installing with --with-rust-analyzer,
    CacheOnly,     \* or with --no-download
    PackOf,        \* the pack of each artifact in each release
    Revoked,       \* the packs each release's revocation index names
    OldTargets,    \* the releases an installed target may have, 0 is none,
    OldCaches,     \* and the sets of packs an earlier run may have cached,
    Damageable     \* and the packs whose entry the disk may damage

Artifacts == {"gitleaks", "rust-analyzer"}
Roles == {"installer", "provisioner", "doctor"}
Releases == DOMAIN PackOf
Packs == {PackOf[r][a] : r \in Releases, a \in Artifacts}

ASSUME InstallAssumption ==
    /\ Processes \subseteq Nat \ {0} /\ Casts \subseteq SUBSET Processes
    /\ Role \in [Processes -> Roles] /\ Release \in [Processes -> Releases]
    /\ WithProvider \in [Processes -> BOOLEAN] /\ CacheOnly \in [Processes -> BOOLEAN]
    /\ Releases \subseteq Nat \ {0} /\ \A r \in Releases : DOMAIN PackOf[r] = Artifacts
    /\ Revoked \in [Releases -> SUBSET Packs]
    /\ OldTargets \subseteq Releases \cup {0} /\ OldCaches \subseteq SUBSET Packs /\ Damageable \subseteq Packs

VARIABLES
    cache,    \* each pack's entry below sha256/
    tree,     \* the trees on disk by place
    pc, art,  \* each process's step and the artifact it provisions
    had,      \* whether it moved a target away
    seen      \* what a doctor has read of the target

vars == <<cache, tree, pc, art, had, seen>>

Target == <<"target", 0>>
Staging(p) == <<"staging", p>>
Backup(p) == <<"backup", p>>
Places == {Target} \cup {Staging(p) : p \in Processes} \cup {Backup(p) : p \in Processes}

(* What a tree holds: the release of its core inventory and of its
   distribution manifest, parts of packs, the provider's profile, the place and
   the pack its registry names, the receipts; and, for the properties alone,
   whether it was staged with the provider, who began to provision in it, and
   whether that was torn: moved aside under one who had begun, or written by one
   who had begun in another tree. *)
EmptyTree == [core |-> 0, manifest |-> 0, parts |-> {}, profile |-> FALSE, registry |-> {},
              receipts |-> {}, asked |-> FALSE, begun |-> {}, torn |-> FALSE]
NoTree == [EmptyTree EXCEPT !.core = 99]
Exists(place) == tree[place] # NoTree
Parts == {"manifest", "files"}

TypeOK ==
    /\ cache \in [Packs -> {"absent", "good", "damaged"}]
    /\ DOMAIN tree = Places
    /\ \A place \in Places : Exists(place) =>
          /\ tree[place].core \in Releases \cup {0}
          /\ tree[place].manifest \in Releases \cup {0}
          /\ tree[place].parts \subseteq Packs \X Parts
          /\ tree[place].registry \subseteq Places \X Packs
          /\ tree[place].receipts \subseteq Artifacts \X Releases
    /\ pc \in [Processes -> {"start", "select", "publish", "rename", "check", "begin", "copy",
                             "profile", "registry", "receipt", "verify", "swap", "place",
                             "aside", "drop", "inventory", "revocations", "members", "providers",
                             "entries", "receipts", "glance", "executable", "vouch", "pack", "payload", "done", "failed", "killed"}]
    /\ art \in [Processes -> Artifacts]
    /\ had \in [Processes -> BOOLEAN]
    /\ seen \in [Processes -> [release : Releases \cup {0}, registry : SUBSET (Places \X Packs),
                               listed : SUBSET Artifacts, todo : SUBSET Artifacts,
                               held : SUBSET Artifacts]]

(* A tree that was installed whole, with the scanner. *)
Installed(r) ==
    [EmptyTree EXCEPT !.core = r, !.manifest = r, !.parts = {PackOf[r]["gitleaks"]} \X Parts,
                      !.receipts = {<<"gitleaks", r>>}]

(* What a doctor has read: the release of the manifest, the registry, the artifacts
   to report, and those yet to be looked at; and, for the properties alone, those
   that stood whole in one tree when their receipt was accepted. *)
Unread == [release |-> 0, registry |-> {}, listed |-> {}, todo |-> {}, held |-> {}]

Init ==
    /\ \E good \in OldCaches : cache = [k \in Packs |-> IF k \in good THEN "good" ELSE "absent"]
    /\ \E r \in OldTargets :
          tree = [place \in Places |->
                    IF place = Target /\ r # 0 THEN Installed(r) ELSE NoTree]
    /\ \E cast \in Casts : pc = [p \in Processes |-> IF p \in cast THEN "start" ELSE "done"]
    /\ art = [p \in Processes |-> "gitleaks"]
    /\ had = [p \in Processes |-> FALSE]
    /\ seen = [p \in Processes |-> Unread]

-----------------------------------------------------------------------------
At(p, step) == pc[p] = step
Pack(p) == PackOf[Release[p]][art[p]]
Root(p) == IF Role[p] = "installer" THEN Staging(p) ELSE Target
Here(p) == IF Exists(Root(p)) THEN tree[Root(p)] ELSE EmptyTree

(* A write below a root that is gone makes its directories again; the tree may not
   be the one in which the process began. *)
Becomes(p, t) == tree' = [tree EXCEPT ![Root(p)] = [t EXCEPT !.torn = @ \/ p \notin t.begun]]

Goes(p, step) == pc' = [pc EXCEPT ![p] = step]
EndedStates == {"done", "failed", "killed"}

(* The installer after the scanner. *)
GoesOn(p) ==
    IF WithProvider[p] THEN Goes(p, "select") /\ art' = [art EXCEPT ![p] = "rust-analyzer"]
                       ELSE Goes(p, "swap") /\ UNCHANGED art

(* gitleaks_artifact_provision fails: the installer goes on without the scanner.
   The provider is required: the installer dies. *)
GivesUp(p) ==
    IF Role[p] = "installer" /\ art[p] = "gitleaks"
    THEN GoesOn(p)
    ELSE Goes(p, "failed") /\ UNCHANGED art

(* The exit trap of the installer removes its staging directory. *)
Trapped(p) ==
    IF Role[p] = "installer" /\ art[p] = "rust-analyzer" /\ pc'[p] = "failed"
    THEN tree' = [tree EXCEPT ![Staging(p)] = NoTree]
    ELSE UNCHANGED tree

Fails(p) == GivesUp(p) /\ Trapped(p) /\ UNCHANGED <<cache, had, seen>>

-----------------------------------------------------------------------------
(* copy_payload: the core payload is copied into a fresh staging directory. *)
Stage(p) ==
    /\ At(p, "start") /\ Role[p] = "installer"
    /\ tree' = [tree EXCEPT ![Staging(p)] =
                  [EmptyTree EXCEPT !.core = Release[p], !.manifest = Release[p],
                                    !.asked = WithProvider[p]]]
    /\ Goes(p, "select")
    /\ UNCHANGED <<cache, art, had, seen>>

StageFails(p) ==
    /\ At(p, "start") /\ Role[p] = "installer"
    /\ Goes(p, "failed")
    /\ UNCHANGED <<cache, tree, art, had, seen>>

(* "artifacts provision" called by hand, for either artifact. *)
Called(p) ==
    /\ At(p, "start") /\ Role[p] = "provisioner"
    /\ \E a \in Artifacts : art' = [art EXCEPT ![p] = a]
    /\ Goes(p, "select")
    /\ UNCHANGED <<cache, tree, had, seen>>

(* prepare: the record is selected, the pack fetched, verified and probed; with
   --no-download a verified cache entry must exist. *)
Prepare(p) ==
    /\ At(p, "select")
    /\ IF CacheOnly[p]
       THEN cache[Pack(p)] = "good" /\ Goes(p, "check")
       ELSE Goes(p, "publish")
    /\ UNCHANGED <<cache, tree, art, had, seen>>

PrepareFails(p) ==
    /\ At(p, "select")
    /\ CacheOnly[p] => cache[Pack(p)] # "good"
    /\ Fails(p)

(* publish_cache: an entry that exists is used as it is, never repaired; a new
   one is written in a staging directory, the receipt last. *)
Publish(p) ==
    /\ At(p, "publish")
    /\ IF cache[Pack(p)] = "absent" THEN Goes(p, "rename")
                                    ELSE cache[Pack(p)] = "good" /\ Goes(p, "check")
    /\ UNCHANGED <<cache, tree, art, had, seen>>

PublishFails(p) ==
    /\ At(p, "publish") /\ cache[Pack(p)] \in {"damaged", "absent", "partial"}
    /\ Fails(p)

(* The rename; who loses the race uses the winner's entry. *)
Rename(p) ==
    /\ At(p, "rename") /\ cache[Pack(p)] \in {"absent", "good"}
    /\ cache' = [cache EXCEPT ![Pack(p)] = "good"]
    /\ Goes(p, "check")
    /\ UNCHANGED <<tree, art, had, seen>>

(* The rename is refused, or the directory cannot be synchronised after it; the
   entry stays. *)
RenameFails(p) ==
    /\ At(p, "rename")
    /\ IF cache[Pack(p)] = "absent"
       THEN \E done \in {"absent", "good"} :
               /\ cache' = [cache EXCEPT ![Pack(p)] = done]
               /\ GivesUp(p) /\ Trapped(p)
               /\ UNCHANGED <<had, seen>>
       ELSE cache[Pack(p)] = "damaged" /\ Fails(p)

-----------------------------------------------------------------------------
(* provision_from_cache: the entry is validated again, a target that has the
   pack is refused, and the distribution manifest kept or compared. *)
Check(p) ==
    /\ At(p, "check") /\ cache[Pack(p)] = "good"
    /\ Here(p).parts \cap ({Pack(p)} \X Parts) = {}
    /\ Here(p).manifest \in {0, Release[p]}
    /\ Becomes(p, [Here(p) EXCEPT !.manifest = Release[p], !.begun = @ \cup {p}])
    /\ Goes(p, "begin")
    /\ UNCHANGED <<cache, art, had, seen>>

CheckFails(p) ==
    /\ At(p, "check")
    /\ \/ cache[Pack(p)] # "good"
       \/ Here(p).parts \cap ({Pack(p)} \X Parts) # {}
       \/ Here(p).manifest \notin {0, Release[p]}
    /\ Fails(p)

(* copy_exact_file creates each file anew, and compares its digest. *)
AddPart(p, part, next) ==
    /\ cache[Pack(p)] = "good" /\ <<Pack(p), part>> \notin Here(p).parts
    /\ Becomes(p, [Here(p) EXCEPT !.parts = @ \cup {<<Pack(p), part>>}])
    /\ Goes(p, next)
    /\ UNCHANGED <<cache, art, had, seen>>

(* Mutant: the receipt is written before the files. *)
Begin_ReceiptEarly(p) == At(p, "begin") /\ AddPart(p, "manifest", "receipt")

Begin(p) == At(p, "begin") /\ AddPart(p, "manifest", "copy")
Copy(p) == At(p, "copy") /\ AddPart(p, "files", IF art[p] = "gitleaks" THEN "receipt" ELSE "profile")

(* A copy stops half-way, or meets another's file. *)
CopyFails(p) == pc[p] \in {"begin", "copy"} /\ Fails(p)

(* provision_provider_authorization: the executable is read, the profile and the
   registry are created; the registry names the root it was given. *)
Profile(p) ==
    /\ At(p, "profile") /\ <<Pack(p), "files">> \in Here(p).parts /\ ~Here(p).profile
    /\ Becomes(p, [Here(p) EXCEPT !.profile = TRUE])
    /\ Goes(p, "registry")
    /\ UNCHANGED <<cache, art, had, seen>>

ProfileFails(p) == At(p, "profile") /\ Fails(p)

Registry(p) ==
    /\ At(p, "registry") /\ Here(p).registry = {}
    /\ Becomes(p, [Here(p) EXCEPT !.registry = {<<Root(p), Pack(p)>>}])
    /\ Goes(p, "receipt")
    /\ UNCHANGED <<cache, art, had, seen>>

RegistryFails(p) ==
    /\ At(p, "registry") /\ GivesUp(p)
    /\ IF Role[p] = "installer" THEN Trapped(p)
       ELSE Becomes(p, [Here(p) EXCEPT !.profile = FALSE])
    /\ UNCHANGED <<cache, had, seen>>

Receipt(p) ==
    /\ At(p, "receipt") /\ \A e \in Here(p).receipts : e[1] # art[p]
    /\ Becomes(p, [Here(p) EXCEPT !.receipts = @ \cup {<<art[p], Release[p]>>}])
    /\ Goes(p, "verify")
    /\ UNCHANGED <<cache, art, had, seen>>

ReceiptFails(p) == At(p, "receipt") /\ Fails(p)

(* verify_target_receipt: the receipt binds the manifest and every file. *)
Verified(t, a, r) ==
    /\ <<a, r>> \in t.receipts
    /\ {PackOf[r][a]} \X Parts \subseteq t.parts

Verify(p) ==
    /\ At(p, "verify") /\ Verified(Here(p), art[p], Release[p])
    /\ IF Role[p] = "provisioner"
       THEN Goes(p, "done") /\ UNCHANGED art
       ELSE IF art[p] = "gitleaks" THEN GoesOn(p) ELSE Goes(p, "swap") /\ UNCHANGED art
    /\ UNCHANGED <<cache, tree, had, seen>>

VerifyFails(p) == At(p, "verify") /\ ~Verified(Here(p), art[p], Release[p]) /\ Fails(p)

-----------------------------------------------------------------------------
(* commit_staged_target: the target, when there is one, is moved to a backup ... *)
LookAtTarget(p) ==
    /\ At(p, "swap")
    /\ Goes(p, IF Exists(Target) THEN "aside" ELSE "place")
    /\ UNCHANGED <<cache, tree, art, had, seen>>

AtWork(t) == \E q \in t.begun : Role[q] = "provisioner" /\ pc[q] \notin EndedStates
MoveAside(p) ==
    /\ At(p, "aside") /\ Exists(Target)
    /\ tree' = [tree EXCEPT ![Backup(p)] = [tree[Target] EXCEPT !.torn = @ \/ AtWork(tree[Target])],
                            ![Target] = NoTree]
    /\ had' = [had EXCEPT ![p] = TRUE]
    /\ Goes(p, "place")
    /\ UNCHANGED <<cache, art, seen>>

(* The target cannot be moved, or is gone: the staging directory goes. *)
MoveAsideFails(p) ==
    /\ At(p, "aside")
    /\ tree' = [tree EXCEPT ![Staging(p)] = NoTree]
    /\ Goes(p, "failed")
    /\ UNCHANGED <<cache, art, had, seen>>

(* ... and the staging directory moved in its place.  "mv" to a directory that
   exists moves into it: the target that came meanwhile stays. *)
MoveIn(p) ==
    /\ At(p, "place")
    /\ tree' = [tree EXCEPT ![Staging(p)] = NoTree,
                            ![Target] = IF Exists(Target) THEN @ ELSE tree[Staging(p)]]
    /\ Goes(p, IF had[p] THEN "drop" ELSE "done")
    /\ UNCHANGED <<cache, art, had, seen>>

(* Mutant: the backup is removed before the new tree is in place. *)
MoveInFails_Forgets(p) ==
    /\ At(p, "place")
    /\ tree' = [tree EXCEPT ![Staging(p)] = NoTree, ![Backup(p)] = NoTree]
    /\ Goes(p, "failed")
    /\ UNCHANGED <<cache, art, had, seen>>

(* A rename that fails: the backup is moved back, or stays when that fails too. *)
MoveInFails(p) ==
    /\ At(p, "place")
    /\ \/ tree' = [tree EXCEPT ![Staging(p)] = NoTree,
                               ![Backup(p)] = NoTree,
                               ![Target] = IF had[p] /\ ~Exists(Target) THEN tree[Backup(p)] ELSE @]
       \/ tree' = [tree EXCEPT ![Staging(p)] = NoTree]
    /\ Goes(p, "failed")
    /\ UNCHANGED <<cache, art, had, seen>>

DropBackup(p) ==
    /\ At(p, "drop")
    /\ \E left \in {NoTree, tree[Backup(p)]} : tree' = [tree EXCEPT ![Backup(p)] = left]
    /\ Goes(p, "done")
    /\ UNCHANGED <<cache, art, had, seen>>

-----------------------------------------------------------------------------
(* doctor opens one file after another below the target, whatever tree is there by
   then.  What it has read binds the next by digest: the manifest ... *)
There == tree[Target]
Reads(p, passes, next, read) ==
    /\ IF Exists(Target) /\ passes
       THEN Goes(p, next) /\ seen' = [seen EXCEPT ![p] = read]
       ELSE Goes(p, "failed") /\ seen' = [seen EXCEPT ![p] = Unread]
    /\ UNCHANGED <<cache, tree, art, had>>
R(p) == seen[p].release

ReadManifest(p) ==
    /\ At(p, "start") /\ Role[p] = "doctor"
    /\ Reads(p, There.manifest # 0, "inventory", [Unread EXCEPT !.release = There.manifest])

(* ... the core inventory and the revocation index ... *)
ReadInventory(p) == At(p, "inventory") /\ Reads(p, There.core = R(p), "revocations", seen[p])
ReadRevocations(p) ==
    /\ At(p, "revocations")
    /\ Reads(p, There.core # 0 /\ Revoked[There.core] = Revoked[R(p)], "members", seen[p])

(* ... and the core's members, which two releases may share. *)
ReadMembers(p) ==
    /\ At(p, "members")
    /\ \E same \in IF There.core = R(p) THEN {TRUE} ELSE BOOLEAN :
          Reads(p, There.core # 0 /\ same, "providers", seen[p])

(* load_provider_registry: no registry, or one that names an executable and a
   profile that are inside the target. *)
ReadProviders(p) ==
    /\ At(p, "providers")
    /\ Reads(p, TRUE, IF There.registry = {} THEN "receipts" ELSE "entries",
             [seen[p] EXCEPT !.registry = There.registry])
ReadEntries(p) ==
    /\ At(p, "entries")
    /\ LET found == {e \in {Target} \X Packs : <<e[2], "files">> \in There.parts}
       IN Reads(p, seen[p].registry \subseteq found /\ There.profile, "receipts", seen[p])

(* receipt_artifact_ids: the artifact that was asked for, or all that have a receipt. *)
ListReceipts(p) ==
    /\ At(p, "receipts")
    /\ \E listed \in {{e[1] : e \in There.receipts}} \cup {{a} : a \in Artifacts} :
          Reads(p, listed # {}, "glance", [seen[p] EXCEPT !.listed = listed, !.todo = listed])

(* doctor_artifact, in order of the names: the receipt's pack is not revoked, and is
   the manifest's; a provider is there, and is the one the registry names ... *)
Looked(p) == IF "gitleaks" \in seen[p].todo THEN "gitleaks" ELSE "rust-analyzer"
LookedPack(p) == PackOf[R(p)][Looked(p)]
ReadReceipt(p) ==
    /\ At(p, "glance")
    /\ LET bound == \E e \in There.receipts :
                       /\ e[1] = Looked(p) /\ PackOf[e[2]][e[1]] = LookedPack(p)
                       /\ PackOf[e[2]][e[1]] \notin Revoked[R(p)]
       IN Reads(p, bound, IF Looked(p) = "rust-analyzer" THEN "executable" ELSE "vouch", seen[p])
ReadExecutable(p) ==
    /\ At(p, "executable")
    /\ Reads(p, /\ <<LookedPack(p), "files">> \in There.parts
                /\ <<Target, LookedPack(p)>> \in seen[p].registry, "vouch", seen[p])

(* Mutant: the receipt need not name the distribution manifest. *)
Binds_AnyManifest(e, a, r) == e[1] = a /\ PackOf[e[2]][a] = PackOf[r][a]
Binds(e, a, r) == e = <<a, r>>

(* ... then verify_target_receipt: the receipt, read again, binds the manifest ... *)
Whole(t, e) == {PackOf[e[2]][e[1]]} \X Parts \subseteq t.parts
OneTree(t, a, r) ==
    /\ t.manifest = r /\ t.core \in {0, r} /\ <<a, r>> \in t.receipts /\ Whole(t, <<a, r>>)
    /\ a = "rust-analyzer" => t.profile /\ t.registry # {}
ReadReceiptAgain(p) ==
    /\ At(p, "vouch")
    /\ LET a == Looked(p)
           held == IF There.torn \/ OneTree(There, a, R(p)) THEN {a} ELSE {}
       IN Reads(p, \E e \in There.receipts : Binds(e, a, R(p)), "pack", [seen[p] EXCEPT !.held = @ \cup held])

(* ... and the pack's manifest and its files, which are read and run. *)
ReadPack(p) == At(p, "pack") /\ Reads(p, <<LookedPack(p), "manifest">> \in There.parts, "payload", seen[p])
ReadPayload(p) ==
    /\ At(p, "payload")
    /\ LET left == seen[p].todo \ {Looked(p)}
       IN Reads(p, <<LookedPack(p), "files">> \in There.parts, IF left = {} THEN "done" ELSE "glance",
                [seen[p] EXCEPT !.todo = left])

-----------------------------------------------------------------------------
(* The disk loses bytes of an entry. *)
Damage(k) ==
    /\ cache[k] = "good" /\ cache' = [cache EXCEPT ![k] = "damaged"]
    /\ UNCHANGED <<tree, pc, art, had, seen>>

Killed(p) ==
    /\ pc[p] \notin EndedStates \cup {"start"} /\ Role[p] # "doctor"
    /\ Goes(p, "killed")
    /\ UNCHANGED <<cache, tree, art, had, seen>>

ProvisionStep(p) ==
    \/ Prepare(p) \/ PrepareFails(p) \/ Publish(p) \/ PublishFails(p) \/ Rename(p) \/ RenameFails(p)
    \/ Check(p) \/ CheckFails(p) \/ Begin(p) \/ Copy(p) \/ CopyFails(p)
    \/ Profile(p) \/ ProfileFails(p) \/ Registry(p) \/ RegistryFails(p)
    \/ Receipt(p) \/ ReceiptFails(p) \/ Verify(p) \/ VerifyFails(p)

InstallStep(p) ==
    \/ Stage(p) \/ StageFails(p) \/ Called(p)
    \/ LookAtTarget(p) \/ MoveAside(p) \/ MoveAsideFails(p) \/ MoveIn(p) \/ MoveInFails(p) \/ DropBackup(p)

DoctorStep(p) ==
    \/ ReadManifest(p) \/ ReadInventory(p) \/ ReadRevocations(p) \/ ReadMembers(p) \/ ReadProviders(p)
    \/ ReadEntries(p) \/ ListReceipts(p) \/ ReadReceipt(p) \/ ReadExecutable(p) \/ ReadReceiptAgain(p) \/ ReadPack(p) \/ ReadPayload(p)

Ended == (\A p \in Processes : pc[p] \in EndedStates) /\ UNCHANGED vars

Next ==
    \/ \E p \in Processes :
          ProvisionStep(p) \/ InstallStep(p) \/ DoctorStep(p) \/ Killed(p)
    \/ \E k \in Damageable : Damage(k)
    \/ Ended

Spec == Init /\ [][Next]_vars

-----------------------------------------------------------------------------
(* A receipt is the last file of a provision: whatever is killed or fails, and
   whichever trees are swapped, no tree holds the receipt of a pack that is not
   there whole.  (A torn tree, moved aside under a provisioner or written by one that
   had begun in another, is not covered: one provision then lies in two trees.) *)
ReceiptMeansWhole ==
    \A place \in Places : ~tree[place].torn =>
        \A e \in tree[place].receipts :
            /\ Whole(tree[place], e)
            /\ e[1] = "rust-analyzer" => tree[place].profile /\ tree[place].registry # {}

(* The provider is required: a tree staged with --with-rust-analyzer is only ever
   moved in place, or aside, with the provider whole in it. *)
CommittedProviderIsWhole ==
    \A place \in Places \ {Staging(p) : p \in Processes} :
        tree[place].asked => <<"rust-analyzer", tree[place].core>> \in tree[place].receipts

(* Trees are whole where they say so: every variable has its type, a
   receipt vouches for a whole pack, and no required provider is left behind. *)
TreesAreWhole == TypeOK /\ ReceiptMeansWhole /\ CommittedProviderIsWhole

(* Once a tree is installed an installed tree stays on disk, at the target or as a
   backup, for all the installers that swap, fail and die, unless "artifacts
   provision" makes a directory at a target that is away: an installer then moves its
   tree into that directory, and drops the last one.  See Divergences in the README. *)
Committed == Places \ {Staging(p) : p \in Processes}
Served == \E place \in Committed : Exists(place) /\ tree[place].core # 0
Stub == \E place \in Committed : Exists(place) /\ tree[place].core = 0
InstalledOutlives == [][Served /\ ~Stub => Served']_vars

(* The doctor reads file by file while the target may be swapped: every artifact of a
   doctor that passes stood whole in one tree, of the release of the manifest it had
   read, when its receipt was accepted.  (A tree written by a process that had begun
   in another aside.) *)
DoctorVouchesForOneTree ==
    \A p \in Processes : At(p, "done") => seen[p].listed \subseteq seen[p].held

(* "Generated profile and registry bytes ... contain only final target absolute
   paths" (the distribution design), but install.sh provisions with the staging
   directory as the target root. False of the code: see Divergences in the
   README. *)
RegistryNamesTarget ==
    Exists(Target) /\ tree[Target].asked => tree[Target].registry \subseteq {Target} \X Packs

=============================================================================
