-------------------------- MODULE ArtifactInstallProofs --------------------------
(***************************************************************************)
(* What ArtifactInstall guarantees for any number of installers and        *)
(* provisioners of one target, of any releases, whatever fails and whoever *)
(* is killed: a receipt vouches for a whole pack, a tree staged with the   *)
(* required provider is only ever moved in place with it, what a doctor    *)
(* passes stood in one tree, and an installed tree stays on disk.          *)
(*                                                                         *)
(* The argument: nobody but its installer writes a staging directory, and  *)
(* a provisioner at work in a tree that is not torn is at work in the      *)
(* target, alone with its artifact from the pack's first file on; so what  *)
(* either has written is still there at its next step.                     *)
(***************************************************************************)
EXTENDS ArtifactInstall, TLAPS

RealTrees == [core : Releases \cup {0}, manifest : Releases \cup {0},
              parts : SUBSET (Packs \X Parts), profile : BOOLEAN,
              registry : SUBSET (Places \X Packs), receipts : SUBSET (Artifacts \X Releases),
              asked : BOOLEAN, begun : SUBSET Processes, torn : BOOLEAN]
Looks == [release : Releases \cup {0}, registry : SUBSET (Places \X Packs),
          listed : SUBSET Artifacts, todo : SUBSET Artifacts, held : SUBSET Artifacts]

Stagings == {Staging(p) : p \in Processes}

\* TreesAreWhole, said of one tree, whose receipts are those of its manifest, which
\* is that of its core.
Bound(t) == t # NoTree => t.core \in {0, t.manifest}
Vouched(t) ==
    ~t.torn => \A e \in t.receipts :
                     /\ Whole(t, e) /\ e[2] = t.manifest
                     /\ e[1] = "rust-analyzer" => t.profile /\ t.registry # {}
HasProvider(t) == t.asked => <<"rust-analyzer", t.core>> \in t.receipts

\* What the tree that p provisions holds, when p is at a step with an artifact.
Before == {"start", "select", "publish", "rename", "check"}
Working == {"begin", "copy", "profile", "registry", "receipt"}
Later == Working \ {"begin"}
Progress(p, step, a, t) ==
    /\ step \in Working => p \in t.begun /\ t.manifest = Release[p]
    /\ step \in Later => /\ <<PackOf[Release[p]][a], "manifest">> \in t.parts
                         /\ \A e \in t.receipts : e[1] # a
    /\ step \in {"profile", "registry", "receipt"} => <<PackOf[Release[p]][a], "files">> \in t.parts
    /\ step \in {"profile", "registry"} => a = "rust-analyzer"
    /\ step \in {"registry", "receipt"} /\ a = "rust-analyzer" => t.profile
    /\ step = "receipt" /\ a = "rust-analyzer" => t.registry # {}

\* The staged tree of an installer ...
Building == {"select", "publish", "rename", "check", "begin", "copy", "profile", "registry",
             "receipt", "verify", "swap", "aside", "place"}
Fits(p, step, a, t) ==
    /\ t \in RealTrees /\ ~t.torn /\ t.begun \subseteq {p}
    /\ t.core = Release[p] /\ t.manifest = Release[p] /\ t.asked = WithProvider[p]
    /\ Progress(p, step, a, t)
    /\ step \in {"swap", "aside", "place"} /\ WithProvider[p] =>
          <<"rust-analyzer", Release[p]>> \in t.receipts

\* ... and the tree of a provisioner, which only it provisions with its artifact.
Hand(p) == Role[p] = "provisioner" =>
    /\ pc[p] \in Before => \A place \in Places : p \notin tree[place].begun
    /\ pc[p] \in Working => \A place \in Places :
          p \in tree[place].begun /\ ~tree[place].torn =>
              place = Target /\ Progress(p, pc[p], art[p], tree[place])
Apart(p, q) ==
    /\ p # q /\ Role[p] = "provisioner" /\ Role[q] = "provisioner"
    /\ pc[p] \in Later /\ pc[q] \in Later
    /\ {p, q} \subseteq tree[Target].begun /\ ~tree[Target].torn
    => art[p] # art[q]

Shape == tree \in [Places -> RealTrees \cup {NoTree}]
AllVouched == \A place \in Places : Vouched(tree[place]) /\ Bound(tree[place])
AllProvided == \A place \in Places \ Stagings : HasProvider(tree[place])
Staged(p) == Role[p] = "installer" /\ pc[p] \in Building =>
                Fits(p, pc[p], art[p], tree[Staging(p)])
TreesFollow ==
    /\ Shape /\ AllVouched /\ AllProvided
    /\ \A p \in Processes : Staged(p) /\ Hand(p)
    /\ \A p, q \in Processes : Apart(p, q)

\* The other variables: who may be where, and what a doctor has seen.
Looking == {"inventory", "revocations", "members", "providers", "entries", "receipts", "glance",
            "executable", "vouch", "pack", "payload"}
Steps == Building \cup Looking \cup {"start", "drop", "done", "failed", "killed"}
StepsTyped ==
    /\ cache \in [Packs -> {"absent", "good", "damaged"}]
    /\ pc \in [Processes -> Steps]
    /\ art \in [Processes -> Artifacts]
    /\ seen \in [Processes -> Looks]
HadTyped == had \in [Processes -> BOOLEAN]
RoleSteps ==
    \A p \in Processes :
        /\ Role[p] = "doctor" => pc[p] \in Looking \cup {"start", "done", "failed"}
        /\ pc[p] \in Looking => Role[p] = "doctor"
        /\ pc[p] \in {"swap", "aside", "place", "drop"} => Role[p] = "installer"
SeenHeld ==
    \A p \in Processes :
        /\ seen[p].listed \ seen[p].todo \subseteq seen[p].held
        /\ pc[p] \in {"pack", "payload"} => Looked(p) \in seen[p].held
        /\ pc[p] = "done" \/ Role[p] # "doctor" => seen[p].todo = {}
        /\ Role[p] = "doctor" /\ pc[p] \in Looking => seen[p].release # 0

Inv == StepsTyped /\ HadTyped /\ RoleSteps /\ SeenHeld /\ TreesFollow

-----------------------------------------------------------------------------
\* No two places are one.
LEMMA PlacesApart ==
    /\ Target \in Places \ Stagings
    /\ \A p \in Processes :
          /\ Staging(p) \in Stagings /\ Staging(p) \in Places /\ Backup(p) \in Places \ Stagings
          /\ Staging(p) # Target /\ Backup(p) # Target /\ Staging(p) # Backup(p)
          /\ \A q \in Processes : /\ Staging(q) # Backup(p)
                                  /\ q # p => Staging(q) # Staging(p)
  BY DEF Places, Stagings, Target, Staging, Backup

\* The constants, and the packs they name.
LEMMA ReleaseFacts ==
    /\ \A p \in Processes : Release[p] \in Releases /\ Role[p] \in Roles /\ WithProvider[p] \in BOOLEAN
    /\ 0 \notin Releases
    /\ \A r \in Releases, a \in Artifacts : PackOf[r][a] \in Packs
  BY InstallAssumption DEF Packs

\* The trees the actions build from.
LEMMA TreeFacts ==
    /\ EmptyTree \in RealTrees /\ EmptyTree.receipts = {} /\ ~EmptyTree.asked
    /\ EmptyTree.begun = {} /\ ~EmptyTree.torn /\ EmptyTree.core = 0 /\ EmptyTree.manifest = 0
    /\ Vouched(NoTree) /\ Bound(NoTree) /\ HasProvider(NoTree)
    /\ NoTree.manifest = 0 /\ NoTree.begun = {} /\ ~NoTree.torn
<1>1. EmptyTree \in RealTrees
  BY DEF EmptyTree, RealTrees
<1>2. /\ NoTree.receipts = {} /\ NoTree.asked = FALSE /\ NoTree.manifest = 0
      /\ NoTree.begun = {} /\ NoTree.torn = FALSE
  BY DEF NoTree, EmptyTree
<1>3. /\ EmptyTree.receipts = {} /\ ~EmptyTree.asked /\ EmptyTree.begun = {} /\ ~EmptyTree.torn
      /\ EmptyTree.core = 0 /\ EmptyTree.manifest = 0
  BY DEF EmptyTree
<1> QED BY <1>1, <1>2, <1>3 DEF Vouched, Bound, HasProvider

\* Writing one tree leaves the others as they are.
LEMMA OneWritten ==
    ASSUME Shape, NEW place \in Places, NEW t \in RealTrees \cup {NoTree},
           tree' = [tree EXCEPT ![place] = t]
    PROVE  /\ Shape' /\ tree'[place] = t
           /\ \A other \in Places : other # place => tree'[other] = tree[other]
  BY DEF Shape

\* What a process finds below its root.
LEMMA HereIsATree ==
    ASSUME Inv, NEW p \in Processes
    PROVE  /\ Here(p) \in RealTrees /\ Root(p) \in Places /\ Vouched(Here(p))
           /\ Here(p).core \in {0, Here(p).manifest}
           /\ p \in Here(p).begun => Here(p) = tree[Root(p)]
<1>1. Root(p) \in Places
  BY PlacesApart DEF Root
<1>2. tree[Root(p)] \in RealTrees \cup {NoTree} /\ Vouched(tree[Root(p)]) /\ Bound(tree[Root(p)])
  BY <1>1 DEF Inv, TreesFollow, Shape, AllVouched
<1>3. CASE Exists(Root(p))
  BY <1>1, <1>2, <1>3 DEF Here, Exists, Bound
<1>4. CASE ~Exists(Root(p))
  <2>1. Here(p) = EmptyTree
    BY <1>4 DEF Here
  <2> QED BY <1>1, <2>1, TreeFacts DEF Vouched
<1> QED BY <1>3, <1>4

LEMMA HereIsStaged ==
    ASSUME Inv, NEW p \in Processes, Role[p] = "installer", pc[p] \in Building
    PROVE  /\ Root(p) = Staging(p) /\ Here(p) = tree[Staging(p)]
           /\ Fits(p, pc[p], art[p], Here(p)) /\ Vouched(Here(p))
<1>1. Fits(p, pc[p], art[p], tree[Staging(p)]) /\ Root(p) = Staging(p)
  BY DEF Inv, TreesFollow, Staged, Root
<1>2. tree[Staging(p)] # NoTree
  BY <1>1, ReleaseFacts, TreeFacts DEF Fits
<1>3. Vouched(tree[Staging(p)])
  BY PlacesApart DEF Inv, TreesFollow, AllVouched
<1> QED BY <1>1, <1>2, <1>3 DEF Here, Exists

\* What p has written is still there.
LEMMA Mine ==
    ASSUME Inv, NEW p \in Processes, pc[p] \in Working, p \in Here(p).begun, ~Here(p).torn
    PROVE  Progress(p, pc[p], art[p], Here(p))
<1>1. CASE Role[p] = "installer"
  BY <1>1, HereIsStaged DEF Fits, Building, Working
<1>2. CASE Role[p] = "provisioner"
  <2>1. Here(p) = tree[Target]
    BY <1>2, HereIsATree DEF Root
  <2> QED BY <1>2, <2>1, PlacesApart DEF Inv, TreesFollow, Hand
<1>3. Role[p] # "doctor"
  BY DEF Inv, RoleSteps, Working, Looking
<1> QED BY <1>1, <1>2, <1>3, ReleaseFacts DEF Roles

\* Who else is at work in the tree of p is a provisioner like p, of another artifact.
LEMMA Others ==
    ASSUME Inv, NEW p \in Processes, pc[p] \in Working \cup {"check"}, ~Here(p).torn,
           NEW q \in Processes, q # p, Role[q] = "provisioner", pc[q] \in Working,
           q \in Here(p).begun
    PROVE  /\ Role[p] = "provisioner" /\ Here(p) = tree[Target]
           /\ Progress(q, pc[q], art[q], Here(p))
           /\ p \in Here(p).begun /\ pc[p] \in Later /\ pc[q] \in Later => art[p] # art[q]
<1>1. Role[p] = "provisioner"
  <2>1. Role[p] # "installer"
    BY HereIsStaged DEF Fits, Working, Building
  <2>2. Role[p] # "doctor"
    BY DEF Inv, RoleSteps, Working, Looking
  <2> QED BY <2>1, <2>2, ReleaseFacts DEF Roles
<1>2. Here(p) = tree[Target]
  BY <1>1, TreeFacts DEF Here, Root
<1>3. Progress(q, pc[q], art[q], Here(p))
  BY <1>2, PlacesApart DEF Inv, TreesFollow, Hand
<1>4. p \in Here(p).begun /\ pc[p] \in Later /\ pc[q] \in Later => art[p] # art[q]
  BY <1>1, <1>2 DEF Inv, TreesFollow, Apart
<1> QED BY <1>1, <1>2, <1>3, <1>4

-----------------------------------------------------------------------------
\* A step of p keeps the trees when each tree it writes is whole, p's staged tree
\* fits its next step, it leaves other processes and their staged trees alone, and
\* the provisioners keep theirs.
LEMMA Kept ==
    ASSUME TreesFollow, NEW p \in Processes, Shape',
           \A q \in Processes : q # p => /\ pc'[q] = pc[q] /\ art'[q] = art[q]
                                         /\ tree'[Staging(q)] = tree[Staging(q)],
           \A place \in Places : tree'[place] # tree[place] =>
               /\ Vouched(tree'[place]) /\ Bound(tree'[place])
               /\ place \notin Stagings => HasProvider(tree'[place]),
           Role[p] = "installer" /\ pc'[p] \in Building =>
               Fits(p, pc'[p], art'[p], tree'[Staging(p)]),
           \A q \in Processes : Hand(q)',
           \A q, r \in Processes : Apart(q, r)'
    PROVE  TreesFollow'
<1>1. AllVouched'
  <2> SUFFICES ASSUME NEW place \in Places PROVE Vouched(tree'[place]) /\ Bound(tree'[place])
    BY DEF AllVouched
  <2> QED BY DEF TreesFollow, AllVouched
<1>2. AllProvided'
  <2> SUFFICES ASSUME NEW place \in Places \ Stagings PROVE HasProvider(tree'[place])
    BY DEF AllProvided
  <2> QED BY DEF TreesFollow, AllProvided
<1>3. ASSUME NEW q \in Processes PROVE Staged(q)'
  <2>1. CASE q = p
    BY <2>1 DEF Staged
  <2>2. CASE q # p
    BY <2>2 DEF TreesFollow, Staged
  <2> QED BY <2>1, <2>2
<1> QED BY <1>1, <1>2, <1>3 DEF TreesFollow

\* The provisioners keep their trees when no tree has one of them in it that none had
\* before, and who is at work is so only in a target that is as it was.
Undisturbed ==
    \A place \in Places, q \in Processes : q \in tree'[place].begun =>
        /\ \E old \in Places : q \in tree[old].begun
        /\ Role[q] = "provisioner" /\ pc[q] \in Working /\ ~tree'[place].torn =>
              \E old \in Places : /\ q \in tree[old].begun /\ ~tree[old].torn
                                  /\ old = Target => place = Target /\ tree'[place] = tree[Target]

LEMMA HandsKept ==
    ASSUME Inv, NEW p \in Processes, Undisturbed,
           \A q \in Processes : q # p => pc'[q] = pc[q] /\ art'[q] = art[q],
           Role[p] = "provisioner" => /\ pc'[p] \notin Working
                                      /\ pc'[p] \in Before => pc[p] \in Before
    PROVE  (\A q \in Processes : Hand(q)') /\ \A q, r \in Processes : Apart(q, r)'
<1>1. ASSUME NEW q \in Processes PROVE Hand(q)'
  <2> SUFFICES ASSUME Role[q] = "provisioner" PROVE Hand(q)'
    BY DEF Hand
  <2>1. pc'[q] \in Before => pc[q] \in Before
    BY DEF Before
  <2>2. pc'[q] \in Before => \A place \in Places : q \notin tree'[place].begun
    BY <2>1 DEF Inv, TreesFollow, Hand, Undisturbed
  <2>3. ASSUME pc'[q] \in Working, NEW place \in Places, q \in tree'[place].begun, ~tree'[place].torn
        PROVE  place = Target /\ Progress(q, pc'[q], art'[q], tree'[place])
    <3>1. q # p /\ pc'[q] = pc[q] /\ art'[q] = art[q]
      BY <2>3
    <3>2. PICK old \in Places : /\ q \in tree[old].begun /\ ~tree[old].torn
                                /\ old = Target => place = Target /\ tree'[place] = tree[Target]
      BY <2>3, <3>1 DEF Undisturbed
    <3>3. old = Target /\ Progress(q, pc[q], art[q], tree[old])
      BY <2>3, <3>1, <3>2 DEF Inv, TreesFollow, Hand
    <3> QED BY <3>1, <3>2, <3>3
  <2> QED BY <2>2, <2>3 DEF Hand
<1>2. ASSUME NEW q \in Processes, NEW r \in Processes PROVE Apart(q, r)'
  <2> SUFFICES ASSUME q # r, Role[q] = "provisioner", Role[r] = "provisioner",
                      pc'[q] \in Later, pc'[r] \in Later,
                      {q, r} \subseteq tree'[Target].begun, ~tree'[Target].torn
               PROVE  art'[q] # art'[r]
    BY DEF Apart
  <2>1. q # p /\ r # p
    BY DEF Later
  <2>2. pc[q] \in Later /\ pc[r] \in Later /\ art'[q] = art[q] /\ art'[r] = art[r]
    BY <2>1
  <2>3. PICK old \in Places : /\ q \in tree[old].begun /\ ~tree[old].torn
                              /\ old = Target => tree'[Target] = tree[Target]
    BY <2>2, PlacesApart DEF Undisturbed, Later
  <2>4. old = Target
    BY <2>2, <2>3 DEF Inv, TreesFollow, Hand, Later
  <2> QED BY <2>2, <2>3, <2>4 DEF Inv, TreesFollow, Apart
<1> QED BY <1>1, <1>2

\* A step that writes no tree, or only removes p's staged one.
LEMMA KeptQuietly ==
    ASSUME Inv, NEW p \in Processes,
           \A q \in Processes : q # p => pc'[q] = pc[q] /\ art'[q] = art[q],
           \/ tree' = tree
           \/ tree' = [tree EXCEPT ![Staging(p)] = NoTree] /\ pc'[p] \notin Building,
           Role[p] = "installer" /\ pc'[p] \in Building =>
               Fits(p, pc'[p], art'[p], tree[Staging(p)]),
           Role[p] = "provisioner" => /\ pc'[p] \notin Working
                                      /\ pc'[p] \in Before => pc[p] \in Before
    PROVE  TreesFollow'
<1>1. CASE tree' = tree
  <2>1. Shape'
    BY <1>1 DEF Inv, TreesFollow, Shape
  <2>2. Undisturbed
    BY <1>1 DEF Inv, TreesFollow, Hand, Undisturbed
  <2> QED BY <1>1, <2>1, <2>2, HandsKept, Kept DEF Inv
<1>2. CASE tree' = [tree EXCEPT ![Staging(p)] = NoTree] /\ pc'[p] \notin Building
  <2>1. /\ Shape' /\ tree'[Staging(p)] = NoTree
        /\ \A other \in Places : other # Staging(p) => tree'[other] = tree[other]
    BY <1>2, OneWritten, PlacesApart DEF Inv, TreesFollow
  <2>2. \A place \in Places : tree'[place] # tree[place] =>
            Vouched(tree'[place]) /\ Bound(tree'[place]) /\ HasProvider(tree'[place])
    BY <2>1, TreeFacts
  <2>3. \A q \in Processes : q # p => tree'[Staging(q)] = tree[Staging(q)]
    BY <2>1, PlacesApart
  <2>4. Undisturbed
    BY <2>1, PlacesApart, TreeFacts DEF Undisturbed
  <2> QED BY <1>2, <2>1, <2>2, <2>3, <2>4, HandsKept, Kept DEF Inv
<1> QED BY <1>1, <1>2

-----------------------------------------------------------------------------
\* A part, a file or a receipt more takes nothing from who is at work.
LEMMA Grown ==
    ASSUME NEW q, NEW s, NEW a, NEW h, NEW t, Progress(q, s, a, h),
           t.manifest = h.manifest, h.begun \subseteq t.begun, h.parts \subseteq t.parts,
           h.profile => t.profile, h.registry # {} => t.registry # {},
           \A e \in t.receipts : e \in h.receipts \/ e[1] # a
    PROVE  Progress(q, s, a, t)
  BY DEF Progress

\* A tree as a step of p leaves it: the tree it found, and something more.
Follows(p, step, h, t) ==
    /\ t.core = h.core /\ t.asked = h.asked /\ t.torn = h.torn
    /\ t.manifest \in {h.manifest, Release[p]} /\ t.core \in {0, t.manifest}
    /\ h.receipts \subseteq t.receipts /\ h.begun \subseteq t.begun /\ t.begun \subseteq h.begun \cup {p}
    /\ pc[p] = "check" => step = "begin" /\ p \in t.begun
    /\ pc[p] # "check" => t.begun = h.begun
Spares(p, step, t) ==
    \A q \in Processes :
        q # p /\ Role[q] = "provisioner" /\ pc[q] \in Working /\ q \in t.begun =>
            /\ Progress(q, pc[q], art[q], t)
            /\ step \in Later /\ pc[q] \in Later => art[q] # art[p]

\* The write of a provisioner.
LEMMA KeptByHand ==
    ASSUME Inv, NEW p \in Processes, Role[p] = "provisioner", pc[p] \in Working \cup {"check"},
           NEW step \in Working \cup {"verify", "failed"}, pc'[p] = step, UNCHANGED art,
           \A q \in Processes : q # p => pc'[q] = pc[q],
           NEW t \in RealTrees, Follows(p, step, Here(p), t), Becomes(p, t),
           p \in t.begun /\ ~t.torn => Vouched(t) /\ Progress(p, step, art[p], t) /\ Spares(p, step, t)
    PROVE  TreesFollow'
<1> DEFINE u == [t EXCEPT !.torn = t.torn \/ p \notin t.begun]
<1>1. /\ u \in RealTrees /\ u.core = t.core /\ u.manifest = t.manifest /\ u.asked = t.asked
      /\ u.receipts = t.receipts /\ u.begun = t.begun /\ (u.torn <=> t.torn \/ p \notin t.begun)
  BY DEF RealTrees
<1>2. tree' = [tree EXCEPT ![Target] = u]
  BY DEF Becomes, Root
<1>3. ~u.torn => u = t
  BY <1>1 DEF RealTrees
<1> HIDE DEF u
<1>4. /\ Shape' /\ tree'[Target] = u
      /\ \A other \in Places : other # Target => tree'[other] = tree[other]
  BY <1>1, <1>2, OneWritten, PlacesApart DEF Inv, TreesFollow
<1>5. Vouched(u) /\ Bound(u)
  <2>1. Vouched(u)
    BY <1>1, <1>3 DEF Vouched
  <2> QED BY <1>1, <2>1 DEF Bound, Follows
<1>6. HasProvider(u)
  <2>1. CASE Exists(Target)
    <3>1. HasProvider(tree[Target]) /\ Here(p) = tree[Target]
      BY <2>1, PlacesApart DEF Inv, TreesFollow, AllProvided, Here, Root
    <3> QED BY <1>1, <3>1 DEF HasProvider, Follows
  <2>2. CASE ~Exists(Target)
    <3>1. Here(p) = EmptyTree
      BY <2>2 DEF Here, Root
    <3> QED BY <1>1, <3>1, TreeFacts DEF HasProvider, Follows
  <2> QED BY <2>1, <2>2
<1>7. \A q \in Processes : q # p => tree'[Staging(q)] = tree[Staging(q)]
  BY <1>4, PlacesApart
<1>8. \A q \in Processes : q # p /\ q \in u.begun => q \in tree[Target].begun
  <2>1. \A q \in Processes : q # p /\ q \in u.begun => q \in Here(p).begun
    BY <1>1 DEF Follows
  <2> QED BY <2>1, TreeFacts DEF Here, Root
<1>9. ASSUME NEW q \in Processes PROVE Hand(q)'
  <2>1. CASE q # p
    <3> SUFFICES ASSUME Role[q] = "provisioner" PROVE Hand(q)'
      BY DEF Hand
    <3>1. pc[q] \in Before => \A place \in Places : q \notin tree'[place].begun
      BY <1>4, <1>8, <2>1, PlacesApart DEF Inv, TreesFollow, Hand
    <3>2. ASSUME pc[q] \in Working, NEW place \in Places, q \in tree'[place].begun, ~tree'[place].torn
          PROVE  place = Target /\ Progress(q, pc[q], art[q], tree'[place])
      <4>1. CASE place = Target
        BY <1>1, <1>3, <1>4, <2>1, <3>2, <4>1 DEF Spares
      <4>2. CASE place # Target
        BY <1>4, <3>2, <4>2 DEF Inv, TreesFollow, Hand
      <4> QED BY <4>1, <4>2
    <3> QED BY <2>1, <3>1, <3>2 DEF Hand
  <2>2. CASE q = p
    <3>1. pc'[p] \notin Before
      BY DEF Before, Working
    <3>2. ASSUME pc'[p] \in Working, NEW place \in Places, p \in tree'[place].begun, ~tree'[place].torn
          PROVE  place = Target /\ Progress(p, pc'[p], art[p], tree'[place])
      <4>1. CASE place = Target
        BY <1>1, <1>3, <1>4, <3>2, <4>1
      <4>2. CASE place # Target
        <5>1. pc[p] \notin Working
          BY <1>4, <3>2, <4>2 DEF Inv, TreesFollow, Hand
        <5>2. pc[p] \in Before
          BY <5>1 DEF Before
        <5> QED BY <1>4, <3>2, <4>2, <5>2 DEF Inv, TreesFollow, Hand
      <4> QED BY <4>1, <4>2
    <3> QED BY <2>2, <3>1, <3>2 DEF Hand
  <2> QED BY <2>1, <2>2
<1>10. ASSUME NEW q \in Processes, NEW r \in Processes PROVE Apart(q, r)'
  <2> SUFFICES ASSUME q # r, Role[q] = "provisioner", Role[r] = "provisioner",
                      pc'[q] \in Later, pc'[r] \in Later, q \in u.begun, r \in u.begun, ~u.torn
               PROVE  art'[q] # art'[r]
    BY <1>4 DEF Apart
  <2>1. CASE q = p \/ r = p
    BY <1>1, <1>3, <2>1 DEF Spares, Later
  <2>2. CASE q # p /\ r # p
    <3>1. q \in tree[Target].begun /\ r \in tree[Target].begun
      BY <1>8, <2>2
    <3>2. ~tree[Target].torn
      BY <1>1, TreeFacts DEF Follows, Here, Root, Exists
    <3> QED BY <2>2, <3>1, <3>2 DEF Inv, TreesFollow, Apart
  <2> QED BY <2>1, <2>2
<1> QED BY <1>4, <1>5, <1>6, <1>7, <1>9, <1>10, Kept DEF Inv

\* A write of the installer in its staging directory.
LEMMA KeptStaged ==
    ASSUME Inv, NEW p \in Processes, Role[p] = "installer",
           \A q \in Processes : q # p => pc'[q] = pc[q] /\ art'[q] = art[q],
           NEW t \in RealTrees, tree' = [tree EXCEPT ![Staging(p)] = t], Vouched(t), Bound(t),
           t.begun \subseteq {p},
           pc'[p] \in Building => Fits(p, pc'[p], art'[p], t)
    PROVE  TreesFollow'
<1>1. /\ Shape' /\ tree'[Staging(p)] = t
      /\ \A other \in Places : other # Staging(p) => tree'[other] = tree[other]
  BY OneWritten, PlacesApart DEF Inv, TreesFollow
<1>2. \A place \in Places : tree'[place] # tree[place] =>
          Vouched(tree'[place]) /\ Bound(tree'[place]) /\ place \in Stagings
  BY <1>1, PlacesApart
<1>3. \A q \in Processes : q # p => tree'[Staging(q)] = tree[Staging(q)]
  BY <1>1, PlacesApart
<1>4. ASSUME NEW q \in Processes PROVE Hand(q)'
  <2> SUFFICES ASSUME Role[q] = "provisioner" PROVE Hand(q)'
    BY DEF Hand
  <2>1. q # p /\ pc'[q] = pc[q] /\ art'[q] = art[q]
    OBVIOUS
  <2>2. \A place \in Places : q \in tree'[place].begun =>
            place # Staging(p) /\ tree'[place] = tree[place]
    BY <1>1, <2>1
  <2> QED BY <2>1, <2>2 DEF Inv, TreesFollow, Hand
<1>5. ASSUME NEW q \in Processes, NEW r \in Processes PROVE Apart(q, r)'
  <2>1. tree'[Target] = tree[Target]
    BY <1>1, PlacesApart
  <2>2. Role[q] = "provisioner" => pc'[q] = pc[q] /\ art'[q] = art[q]
    OBVIOUS
  <2>3. Role[r] = "provisioner" => pc'[r] = pc[r] /\ art'[r] = art[r]
    OBVIOUS
  <2> QED BY <2>1, <2>2, <2>3 DEF Inv, TreesFollow, Apart
<1> QED BY <1>1, <1>2, <1>3, <1>4, <1>5, Kept DEF Inv

\* Becomes, for an installer: it began in its staging directory.
LEMMA BecomesStaged ==
    ASSUME NEW p \in Processes, Role[p] = "installer", NEW t \in RealTrees, p \in t.begun, Becomes(p, t)
    PROVE  tree' = [tree EXCEPT ![Staging(p)] = t]
<1>1. (t.torn \/ p \notin t.begun) = t.torn
  BY DEF RealTrees
<1>2. [t EXCEPT !.torn = t.torn] = t
  BY DEF RealTrees
<1> QED BY <1>1, <1>2 DEF Becomes, Root

-----------------------------------------------------------------------------
\* Where a process may go, and what becomes of the artifact it is at.
MayGo(p, step) ==
    /\ step \in Steps
    /\ Role[p] = "doctor" => step \in Looking \cup {"start", "done", "failed"}
    /\ step \in Looking => Role[p] = "doctor"
    /\ step \in {"swap", "aside", "place", "drop"} => Role[p] = "installer"

LEMMA Gone ==
    ASSUME StepsTyped, RoleSteps, NEW p \in Processes, NEW step, Goes(p, step), MayGo(p, step)
    PROVE  /\ pc' \in [Processes -> Steps]
           /\ RoleSteps' /\ pc'[p] = step /\ \A q \in Processes : q # p => pc'[q] = pc[q]
<1>1. /\ pc' \in [Processes -> Steps]
      /\ pc'[p] = step /\ \A q \in Processes : q # p => pc'[q] = pc[q]
  BY DEF StepsTyped, Goes, MayGo
<1>2. ASSUME NEW q \in Processes
      PROVE  /\ Role[q] = "doctor" => pc'[q] \in Looking \cup {"start", "done", "failed"}
             /\ pc'[q] \in Looking => Role[q] = "doctor"
             /\ pc'[q] \in {"swap", "aside", "place", "drop"} => Role[q] = "installer"
  <2>1. CASE q = p
    BY <1>1, <2>1 DEF MayGo
  <2>2. CASE q # p
    BY <1>1, <2>2 DEF RoleSteps
  <2> QED BY <2>1, <2>2
<1> QED BY <1>1, <1>2 DEF RoleSteps

\* The rest of the invariant when a process moves on and the cache may change.
StepKept(p, step) ==
    /\ Goes(p, step) /\ MayGo(p, step) /\ Role[p] # "doctor"
    /\ \/ UNCHANGED art
       \/ \E a \in Artifacts : art' = [art EXCEPT ![p] = a]
    /\ cache' \in [Packs -> {"absent", "good", "damaged"}]
    /\ UNCHANGED seen
    /\ HadTyped'

LEMMA Moved ==
    ASSUME Inv, NEW p \in Processes, NEW step, StepKept(p, step)
    PROVE  /\ StepsTyped' /\ HadTyped' /\ RoleSteps' /\ SeenHeld' /\ pc'[p] = step
           /\ \A q \in Processes : q # p => pc'[q] = pc[q] /\ art'[q] = art[q]
<1>1. /\ pc' \in [Processes -> Steps]
      /\ RoleSteps' /\ pc'[p] = step /\ \A q \in Processes : q # p => pc'[q] = pc[q]
  BY Gone DEF Inv, StepKept
<1>2. /\ art' \in [Processes -> Artifacts]
      /\ \A q \in Processes : q # p => art'[q] = art[q]
  BY DEF Inv, StepsTyped, StepKept, Artifacts
<1>3. StepsTyped'
  BY <1>1, <1>2 DEF StepKept, StepsTyped, Inv
<1>4. SeenHeld'
  <2> SUFFICES ASSUME NEW q \in Processes
               PROVE  /\ seen[q].listed \ seen[q].todo \subseteq seen[q].held
                      /\ pc'[q] \in {"pack", "payload"} => Looked(q) \in seen[q].held
                      /\ pc'[q] = "done" \/ Role[q] # "doctor" => seen[q].todo = {}
                      /\ Role[q] = "doctor" /\ pc'[q] \in Looking => seen[q].release # 0
    BY DEF SeenHeld, StepKept, Looked
  <2>1. CASE q = p
    BY <1>1, <2>1 DEF Inv, SeenHeld, StepKept, MayGo, Looking
  <2>2. CASE q # p
    BY <1>1, <2>2 DEF Inv, SeenHeld
  <2> QED BY <2>1, <2>2
<1> QED BY <1>1, <1>2, <1>3, <1>4 DEF StepKept

\* What does not change keeps its type.
LEMMA Unmoved ==
    ASSUME Inv
    PROVE  /\ UNCHANGED cache => cache' \in [Packs -> {"absent", "good", "damaged"}]
           /\ UNCHANGED had => HadTyped'
  BY DEF Inv, StepsTyped, HadTyped

\* Steps at which nothing is asked of the packs of a staged tree.
Early == {"select", "publish", "rename", "check"}
LEMMA FitsEarly ==
    ASSUME NEW p, NEW s, NEW a, NEW t, Fits(p, s, a, t), NEW early \in Early, NEW b
    PROVE  Fits(p, early, b, t)
  BY DEF Fits, Early, Progress, Working, Later

\* A step that only moves the process, to a step that asks nothing of its tree.
LEMMA OnlyMoves ==
    ASSUME Inv, NEW p \in Processes, NEW step, StepKept(p, step), UNCHANGED tree,
           step \in {"done", "failed", "killed"} \/ (step \in Early /\ pc[p] \in Early)
    PROVE  Inv'
<1>1. /\ StepsTyped' /\ HadTyped' /\ RoleSteps' /\ SeenHeld' /\ pc'[p] = step
      /\ \A q \in Processes : q # p => pc'[q] = pc[q] /\ art'[q] = art[q]
  BY Moved
<1>2. ASSUME Role[p] = "installer", pc'[p] \in Building
      PROVE  Fits(p, pc'[p], art'[p], tree[Staging(p)])
  BY <1>1, <1>2, FitsEarly DEF Inv, TreesFollow, Staged, Building, Early
<1>3. pc'[p] \notin Working /\ (pc'[p] \in Before => pc[p] \in Before)
  BY <1>1 DEF Working, Before, Early
<1>4. TreesFollow'
  BY <1>1, <1>2, <1>3, KeptQuietly
<1> QED BY <1>1, <1>4 DEF Inv

\* A provision that fails: the installer goes on without the scanner, or loses its
\* staging directory.
LEMMA GivingUp ==
    ASSUME Inv, NEW p \in Processes, pc[p] \in Building, Role[p] # "doctor", GivesUp(p), Trapped(p),
           cache' \in [Packs -> {"absent", "good", "damaged"}], UNCHANGED <<had, seen>>
    PROVE  Inv'
<1>1. CASE Role[p] = "installer" /\ art[p] = "gitleaks"
  <2>1. PICK step \in {"select", "swap"} :
            StepKept(p, step) /\ (step = "swap" => ~WithProvider[p])
    BY <1>1, Unmoved DEF GivesUp, GoesOn, StepKept, MayGo, Building, Steps, Artifacts, Looking
  <2>2. /\ StepsTyped' /\ HadTyped' /\ RoleSteps' /\ SeenHeld' /\ pc'[p] = step
        /\ \A q \in Processes : q # p => pc'[q] = pc[q] /\ art'[q] = art[q]
    BY <2>1, Moved
  <2>3. UNCHANGED tree
    BY <1>1 DEF Trapped
  <2>4. Fits(p, pc[p], art[p], tree[Staging(p)])
    BY <1>1 DEF Inv, TreesFollow, Staged
  <2>5. Fits(p, pc'[p], art'[p], tree[Staging(p)])
    BY <2>1, <2>2, <2>4 DEF Fits, Progress, Working, Later
  <2>6. TreesFollow'
    BY <1>1, <2>2, <2>3, <2>5, KeptQuietly
  <2> QED BY <2>2, <2>6 DEF Inv
<1>2. CASE ~(Role[p] = "installer" /\ art[p] = "gitleaks")
  <2>1. StepKept(p, "failed")
    BY <1>2, Unmoved DEF GivesUp, StepKept, MayGo, Steps, Looking
  <2>2. /\ StepsTyped' /\ HadTyped' /\ RoleSteps' /\ SeenHeld' /\ pc'[p] = "failed"
        /\ \A q \in Processes : q # p => pc'[q] = pc[q] /\ art'[q] = art[q]
    BY <2>1, Moved
  <2>3. pc'[p] \notin Building /\ pc'[p] \notin Working /\ pc'[p] \notin Before
    BY <2>2 DEF Building, Working, Before
  <2>4. tree' = tree \/ tree' = [tree EXCEPT ![Staging(p)] = NoTree]
    BY DEF Trapped
  <2>5. TreesFollow'
    BY <2>2, <2>3, <2>4, KeptQuietly
  <2> QED BY <2>2, <2>5 DEF Inv
<1> QED BY <1>1, <1>2

\* Fails is such a step.
LEMMA Failing ==
    ASSUME Inv, NEW p \in Processes, pc[p] \in Building, Fails(p)
    PROVE  Inv'
<1>1. Role[p] # "doctor"
  BY DEF Inv, RoleSteps, Building, Looking
<1> QED BY <1>1, GivingUp, Unmoved DEF Fails

-----------------------------------------------------------------------------
(* The writes of a provision. *)

\* A step of a provision that writes one tree and goes on.
LEMMA Provisioned ==
    ASSUME Inv, NEW p \in Processes, pc[p] \in Working \cup {"check"},
           NEW step \in Working \cup {"verify", "failed"}, StepKept(p, step), UNCHANGED art,
           step = "failed" => Role[p] = "provisioner",
           NEW t \in RealTrees, Follows(p, step, Here(p), t), Becomes(p, t),
           p \in t.begun /\ ~t.torn => Vouched(t) /\ Progress(p, step, art[p], t) /\ Spares(p, step, t)
    PROVE  Inv'
<1>1. /\ StepsTyped' /\ HadTyped' /\ RoleSteps' /\ SeenHeld' /\ pc'[p] = step
      /\ \A q \in Processes : q # p => pc'[q] = pc[q] /\ art'[q] = art[q]
  BY Moved
<1>2. CASE Role[p] = "installer"
  <2>1. Fits(p, pc[p], art[p], Here(p)) /\ Root(p) = Staging(p)
    BY <1>2, HereIsStaged DEF Building, Working
  <2>2. p \in t.begun /\ t.begun \subseteq {p} /\ ~t.torn /\ t.manifest = Release[p]
    BY <2>1 DEF Follows, Fits, Progress
  <2>3. tree' = [tree EXCEPT ![Staging(p)] = t]
    BY <1>2, <2>2, BecomesStaged
  <2>4. Fits(p, step, art[p], t)
    BY <1>2, <2>1, <2>2 DEF Follows, Fits, Working
  <2>5. Vouched(t) /\ Bound(t)
    BY <2>2 DEF Bound, Follows
  <2>6. TreesFollow'
    BY <1>1, <1>2, <2>2, <2>3, <2>4, <2>5, KeptStaged
  <2> QED BY <1>1, <2>6 DEF Inv
<1>3. CASE Role[p] = "provisioner"
  <2>1. TreesFollow'
    BY <1>1, <1>3, KeptByHand
  <2> QED BY <1>1, <2>1 DEF Inv
<1>4. Role[p] # "doctor"
  BY DEF StepKept
<1> QED BY <1>2, <1>3, <1>4, ReleaseFacts DEF Roles

\* A step of a provision, and not of a doctor.
LEMMA Provisioning ==
    ASSUME Inv, NEW p \in Processes, pc[p] \in Working \cup {"check", "verify"},
           NEW step \in Working \cup {"verify", "failed"}, Goes(p, step), UNCHANGED <<art, seen>>,
           UNCHANGED <<cache, had>>
    PROVE  StepKept(p, step)
<1>1. Role[p] # "doctor"
  BY DEF Inv, RoleSteps, Working, Looking
<1> QED BY <1>1, Unmoved DEF StepKept, MayGo, Steps, Building, Working, Looking

LEMMA CheckKeeps ==
    ASSUME Inv, NEW p \in Processes, Check(p)
    PROVE  Inv'
<1> DEFINE h == Here(p)
           t == [h EXCEPT !.manifest = Release[p], !.begun = h.begun \cup {p}]
<1>1. pc[p] = "check" /\ StepKept(p, "begin") /\ UNCHANGED art /\ Becomes(p, t)
  BY Provisioning DEF Check, At, Working
<1>2. h \in RealTrees /\ Vouched(h) /\ h.core \in {0, h.manifest} /\ h.manifest \in {0, Release[p]}
  BY HereIsATree DEF Check
<1> HIDE DEF h
<1>3. /\ t \in RealTrees /\ t.manifest = Release[p] /\ t.begun = h.begun \cup {p}
      /\ t.core = h.core /\ t.asked = h.asked /\ t.torn = h.torn /\ t.parts = h.parts
      /\ t.profile = h.profile /\ t.registry = h.registry /\ t.receipts = h.receipts
  BY <1>2, ReleaseFacts DEF RealTrees
<1> HIDE DEF t
<1>4. Follows(p, "begin", h, t)
  BY <1>1, <1>2, <1>3 DEF Follows
<1>5. Vouched(t)
  <2>1. ASSUME ~h.torn, NEW e \in h.receipts PROVE h.manifest = Release[p]
    <3>1. e[2] = h.manifest /\ e[2] \in Releases
      BY <1>2, <2>1 DEF Vouched, RealTrees
    <3> QED BY <1>2, <3>1, ReleaseFacts
  <2> QED BY <1>2, <1>3, <2>1 DEF Vouched, Whole
<1>6. Progress(p, "begin", art[p], t)
  BY <1>3 DEF Progress, Later
<1>7. ASSUME ~h.torn PROVE Spares(p, "begin", t)
  <2> SUFFICES ASSUME NEW q \in Processes, q # p, Role[q] = "provisioner", pc[q] \in Working, q \in t.begun
               PROVE  Progress(q, pc[q], art[q], t)
    BY DEF Spares, Later
  <2>1. Progress(q, pc[q], art[q], h)
    BY <1>1, <1>3, <1>7, Others DEF h
  <2>2. h.manifest = Release[p]
    BY <1>2, <2>1, ReleaseFacts DEF Progress
  <2> QED BY <1>3, <2>1, <2>2, Grown
<1>8. Follows(p, "begin", Here(p), t)
  BY <1>4 DEF h
<1> QED BY <1>1, <1>3, <1>5, <1>6, <1>7, <1>8, Provisioned DEF Working

\* What spares the others: a tree in which there is more, and of their own artifact
\* no receipt more.
LEMMA GrownSpares ==
    ASSUME Inv, NEW p \in Processes, pc[p] \in Working, p \in Here(p).begun, ~Here(p).torn,
           NEW step, step \in Later => pc[p] \in Later, NEW t, t.manifest = Here(p).manifest,
           t.begun = Here(p).begun, Here(p).parts \subseteq t.parts, Here(p).profile => t.profile,
           Here(p).registry # {} => t.registry # {},
           \A e \in t.receipts : e \in Here(p).receipts \/ (e[1] = art[p] /\ pc[p] \in Later)
    PROVE  Spares(p, step, t)
<1> SUFFICES ASSUME NEW q \in Processes, q # p, Role[q] = "provisioner", pc[q] \in Working, q \in t.begun
             PROVE  /\ Progress(q, pc[q], art[q], t)
                    /\ step \in Later /\ pc[q] \in Later => art[q] # art[p]
  BY DEF Spares
<1>1. /\ Progress(q, pc[q], art[q], Here(p))
      /\ pc[p] \in Later /\ pc[q] \in Later => art[p] # art[q]
  BY Others
<1>2. CASE pc[q] \in Later \/ pc[p] \notin Later
  <2>1. \A e \in t.receipts : e \in Here(p).receipts \/ e[1] # art[q]
    BY <1>1, <1>2
  <2> QED BY <1>1, <2>1, Grown
<1>3. CASE pc[q] \notin Later
  <2>1. Progress(q, pc[q], art[q], t)
    BY <1>1, <1>3 DEF Progress, Later, Working
  <2> QED BY <1>3, <2>1
<1> QED BY <1>2, <1>3

\* The manifest of a pack, then its files.  Who adds the manifest finds neither a
\* receipt of the artifact, which would vouch for it, nor another who added it.
LEMMA AddPartKeeps ==
    ASSUME Inv, NEW p \in Processes, NEW part \in Parts, NEW next, AddPart(p, part, next),
           \/ pc[p] = "begin" /\ part = "manifest" /\ next = "copy"
           \/ pc[p] = "copy" /\ part = "files" /\ next \in {"receipt", "profile"}
              /\ (next = "receipt" <=> art[p] = "gitleaks")
    PROVE  Inv'
<1> DEFINE h == Here(p)
           S == h.parts \cup {<<Pack(p), part>>}
           t == [h EXCEPT !.parts = S]
<1>1. /\ pc[p] \in Working /\ next \in Working /\ UNCHANGED art /\ Becomes(p, t)
      /\ <<Pack(p), part>> \notin h.parts
  BY DEF AddPart, Working
<1>2. StepKept(p, next)
  BY <1>1, Provisioning DEF AddPart
<1>3. /\ h \in RealTrees /\ Vouched(h) /\ h.core \in {0, h.manifest}
      /\ Pack(p) \in Packs /\ Pack(p) = PackOf[Release[p]][art[p]] /\ art[p] \in Artifacts
  BY HereIsATree, ReleaseFacts DEF Pack, Inv, StepsTyped
<1>4. p \in h.begun /\ ~h.torn => Progress(p, pc[p], art[p], h)
  BY <1>1, Mine
<1>5. /\ t \in RealTrees /\ t.parts = S
      /\ t.core = h.core /\ t.manifest = h.manifest /\ t.asked = h.asked /\ t.torn = h.torn
      /\ t.begun = h.begun /\ t.profile = h.profile /\ t.registry = h.registry
      /\ t.receipts = h.receipts
  BY <1>3 DEF RealTrees
<1> HIDE DEF t, h
<1>6. Follows(p, next, h, t)
  BY <1>1, <1>3, <1>5 DEF Follows, Working
<1>7. Vouched(t)
  BY <1>3, <1>5 DEF Vouched, Whole
<1>8. ASSUME p \in h.begun, ~h.torn PROVE Progress(p, next, art[p], t) /\ Spares(p, next, t)
  <2>1. Progress(p, pc[p], art[p], h)
    BY <1>4, <1>8
  <2>2. CASE pc[p] = "begin"
    <3>1. h.manifest = Release[p]
      BY <1>1, <2>1 DEF Progress
    <3>2. ASSUME NEW e \in h.receipts PROVE e[1] # art[p]
      <4>1. Whole(h, e) /\ e[2] = Release[p]
        BY <1>3, <1>8, <3>1, <3>2 DEF Vouched
      <4>2. <<PackOf[e[2]][e[1]], "manifest">> \in h.parts
        BY <4>1 DEF Whole, Parts
      <4> QED BY <1>1, <1>3, <2>2, <4>1, <4>2
    <3>3. Progress(p, next, art[p], t)
      BY <1>3, <1>5, <1>8, <2>2, <3>1, <3>2 DEF Progress, Working, Later
    <3>4. ASSUME NEW q \in Processes, q # p, Role[q] = "provisioner", pc[q] \in Working, q \in t.begun
          PROVE  Progress(q, pc[q], art[q], t) /\ (pc[q] \in Later => art[q] # art[p])
      <4>1. Progress(q, pc[q], art[q], h)
        BY <1>1, <1>5, <1>8, <3>4, Others DEF h
      <4>2. Progress(q, pc[q], art[q], t)
        BY <1>5, <4>1, Grown
      <4>3. ASSUME pc[q] \in Later, art[q] = art[p] PROVE FALSE
        <5>1. Release[q] = Release[p] /\ <<PackOf[Release[q]][art[q]], "manifest">> \in h.parts
          BY <3>1, <3>4, <4>1, <4>3 DEF Progress
        <5> QED BY <1>1, <1>3, <2>2, <4>3, <5>1
      <4> QED BY <4>2, <4>3
    <3> QED BY <3>3, <3>4 DEF Spares
  <2>3. CASE pc[p] = "copy"
    <3>1. Progress(p, next, art[p], t)
      BY <1>3, <1>5, <2>1, <2>3 DEF Progress, Working, Later, Artifacts
    <3>2. Spares(p, next, t)
      BY <1>1, <1>5, <1>8, <2>3, GrownSpares DEF h, Later, Working
    <3> QED BY <3>1, <3>2
  <2> QED BY <2>2, <2>3
<1>9. Follows(p, next, Here(p), t)
  BY <1>6 DEF h
<1> QED BY <1>1, <1>2, <1>5, <1>7, <1>8, <1>9, Provisioned

LEMMA PartsKeep ==
    ASSUME Inv, NEW p \in Processes, Begin(p) \/ Copy(p)
    PROVE  Inv'
<1>1. CASE Begin(p)
  BY <1>1, AddPartKeeps DEF Begin, At, Parts
<1>2. CASE Copy(p)
  <2>1. art[p] \in {"gitleaks", "rust-analyzer"}
    BY DEF Inv, StepsTyped, Artifacts
  <2>2. CASE art[p] = "gitleaks"
    BY <1>2, <2>2, AddPartKeeps DEF Copy, At, Parts
  <2>3. CASE art[p] # "gitleaks"
    BY <1>2, <2>3, AddPartKeeps DEF Copy, At, Parts
  <2> QED BY <2>2, <2>3
<1> QED BY <1>1, <1>2

\* The profile and the registry of the provider.
LEMMA ProfileWritten ==
    ASSUME NEW t \in RealTrees, NEW b \in BOOLEAN
    PROVE  LET u == [t EXCEPT !.profile = b]
           IN  /\ u \in RealTrees /\ u.profile = b
               /\ u.core = t.core /\ u.manifest = t.manifest /\ u.asked = t.asked
               /\ u.torn = t.torn /\ u.begun = t.begun /\ u.parts = t.parts
               /\ u.registry = t.registry /\ u.receipts = t.receipts
  BY DEF RealTrees

LEMMA RegistryWritten ==
    ASSUME NEW t \in RealTrees, NEW S \in SUBSET (Places \X Packs)
    PROVE  LET u == [t EXCEPT !.registry = S]
           IN  /\ u \in RealTrees /\ u.registry = S
               /\ u.core = t.core /\ u.manifest = t.manifest /\ u.asked = t.asked
               /\ u.torn = t.torn /\ u.begun = t.begun /\ u.parts = t.parts
               /\ u.profile = t.profile /\ u.receipts = t.receipts
  BY DEF RealTrees

LEMMA ReceiptWritten ==
    ASSUME NEW t \in RealTrees, NEW S \in SUBSET (Artifacts \X Releases)
    PROVE  LET u == [t EXCEPT !.receipts = S]
           IN  /\ u \in RealTrees /\ u.receipts = S
               /\ u.core = t.core /\ u.manifest = t.manifest /\ u.asked = t.asked
               /\ u.torn = t.torn /\ u.begun = t.begun /\ u.parts = t.parts
               /\ u.profile = t.profile /\ u.registry = t.registry
  BY DEF RealTrees

LEMMA ProfileKeeps ==
    ASSUME Inv, NEW p \in Processes, Profile(p)
    PROVE  Inv'
<1> DEFINE h == Here(p)
           t == [h EXCEPT !.profile = TRUE]
<1>1. pc[p] = "profile" /\ StepKept(p, "registry") /\ UNCHANGED art /\ Becomes(p, t)
  BY Provisioning DEF Profile, At, Working
<1>2. h \in RealTrees /\ Vouched(h) /\ h.core \in {0, h.manifest}
  BY HereIsATree
<1>3. p \in h.begun /\ ~h.torn => Progress(p, "profile", art[p], h)
  BY <1>1, Mine DEF Working
<1> HIDE DEF h
<1>4. /\ t \in RealTrees /\ t.profile = TRUE
      /\ t.core = h.core /\ t.manifest = h.manifest /\ t.asked = h.asked /\ t.torn = h.torn
      /\ t.begun = h.begun /\ t.parts = h.parts /\ t.registry = h.registry /\ t.receipts = h.receipts
  BY <1>2, ProfileWritten
<1> HIDE DEF t
<1>5. Follows(p, "registry", h, t)
  BY <1>1, <1>2, <1>4 DEF Follows
<1>6. Vouched(t)
  BY <1>2, <1>4 DEF Vouched, Whole
<1>7. ASSUME p \in h.begun, ~h.torn PROVE Progress(p, "registry", art[p], t) /\ Spares(p, "registry", t)
  <2>1. Progress(p, "registry", art[p], t)
    BY <1>3, <1>4, <1>7 DEF Progress, Working, Later
  <2>2. Spares(p, "registry", t)
    BY <1>1, <1>4, <1>7, GrownSpares DEF h, Working, Later
  <2> QED BY <2>1, <2>2
<1>8. Follows(p, "registry", Here(p), t)
  BY <1>5 DEF h
<1> QED BY <1>1, <1>4, <1>6, <1>7, <1>8, Provisioned DEF Working

LEMMA RegistryKeeps ==
    ASSUME Inv, NEW p \in Processes, Registry(p)
    PROVE  Inv'
<1> DEFINE h == Here(p)
           S == {<<Root(p), Pack(p)>>}
           t == [h EXCEPT !.registry = S]
<1>1. pc[p] = "registry" /\ StepKept(p, "receipt") /\ UNCHANGED art /\ Becomes(p, t)
  BY Provisioning DEF Registry, At, Working
<1>2. h \in RealTrees /\ Vouched(h) /\ h.core \in {0, h.manifest} /\ S \in SUBSET (Places \X Packs)
  BY HereIsATree, ReleaseFacts DEF Pack, Inv, StepsTyped
<1>3. p \in h.begun /\ ~h.torn => Progress(p, "registry", art[p], h)
  BY <1>1, Mine DEF Working
<1>4. S # {}
  OBVIOUS
<1> HIDE DEF h, S
<1>5. /\ t \in RealTrees /\ t.registry # {}
      /\ t.core = h.core /\ t.manifest = h.manifest /\ t.asked = h.asked /\ t.torn = h.torn
      /\ t.begun = h.begun /\ t.parts = h.parts /\ t.profile = h.profile /\ t.receipts = h.receipts
  BY <1>2, <1>4, RegistryWritten
<1> HIDE DEF t
<1>6. Follows(p, "receipt", h, t)
  BY <1>1, <1>2, <1>5 DEF Follows
<1>7. Vouched(t)
  BY <1>2, <1>5 DEF Vouched, Whole
<1>8. ASSUME p \in h.begun, ~h.torn PROVE Progress(p, "receipt", art[p], t) /\ Spares(p, "receipt", t)
  <2>1. Progress(p, "receipt", art[p], t)
    BY <1>3, <1>5, <1>8 DEF Progress, Working, Later
  <2>2. Spares(p, "receipt", t)
    BY <1>1, <1>5, <1>8, GrownSpares DEF h, Working, Later
  <2> QED BY <2>1, <2>2
<1>9. Follows(p, "receipt", Here(p), t)
  BY <1>6 DEF h
<1> QED BY <1>1, <1>5, <1>7, <1>8, <1>9, Provisioned DEF Working

\* A provision by hand takes its profile back when the registry fails: nobody else's
\* is there, and no receipt needs it.
LEMMA RegistryFailsKeeps ==
    ASSUME Inv, NEW p \in Processes, RegistryFails(p)
    PROVE  Inv'
<1>1. pc[p] = "registry" /\ Role[p] # "doctor"
  BY DEF RegistryFails, At, Inv, RoleSteps, Looking
<1>2. CASE Role[p] = "installer"
  BY <1>1, <1>2, GivingUp, Unmoved DEF RegistryFails, Building
<1>3. CASE Role[p] # "installer"
  <2> DEFINE h == Here(p)
             t == [h EXCEPT !.profile = FALSE]
  <2>1. Becomes(p, t) /\ StepKept(p, "failed") /\ UNCHANGED art /\ Role[p] = "provisioner"
    BY <1>1, <1>3, Provisioning, ReleaseFacts DEF RegistryFails, GivesUp, Roles, Working
  <2>2. h \in RealTrees /\ Vouched(h) /\ h.core \in {0, h.manifest}
    BY HereIsATree
  <2>3. p \in h.begun /\ ~h.torn => Progress(p, "registry", art[p], h)
    BY <1>1, Mine DEF Working
  <2> HIDE DEF h
  <2>4. /\ t \in RealTrees /\ t.profile = FALSE
        /\ t.core = h.core /\ t.manifest = h.manifest /\ t.asked = h.asked /\ t.torn = h.torn
        /\ t.begun = h.begun /\ t.parts = h.parts /\ t.registry = h.registry /\ t.receipts = h.receipts
    BY <2>2, ProfileWritten
  <2> HIDE DEF t
  <2>5. Follows(p, "failed", h, t)
    BY <1>1, <2>2, <2>4 DEF Follows
  <2>6. ASSUME p \in h.begun, ~h.torn
        PROVE  Vouched(t) /\ Progress(p, "failed", art[p], t) /\ Spares(p, "failed", t)
    <3>1. art[p] = "rust-analyzer" /\ \A e \in h.receipts : e[1] # "rust-analyzer"
      BY <2>3, <2>6 DEF Progress, Later, Working
    <3>2. Vouched(t)
      BY <2>2, <2>4, <3>1 DEF Vouched, Whole
    <3>3. Progress(p, "failed", art[p], t)
      BY DEF Progress, Working, Later
    <3>4. ASSUME NEW q \in Processes, q # p, Role[q] = "provisioner", pc[q] \in Working, q \in t.begun
          PROVE  Progress(q, pc[q], art[q], t)
      <4>1. Progress(q, pc[q], art[q], h) /\ (pc[q] \in Later => art[q] # "rust-analyzer")
        BY <1>1, <2>4, <2>6, <3>1, <3>4, Others DEF h, Working, Later
      <4> QED BY <2>4, <4>1 DEF Progress, Later, Working
    <3> QED BY <3>2, <3>3, <3>4 DEF Spares, Later, Working
  <2>7. Follows(p, "failed", Here(p), t)
    BY <2>5 DEF h
  <2> QED BY <1>1, <2>1, <2>4, <2>6, <2>7, Provisioned DEF Working
<1> QED BY <1>2, <1>3

\* The receipt comes last: all it vouches for is there.
LEMMA ReceiptKeeps ==
    ASSUME Inv, NEW p \in Processes, Receipt(p)
    PROVE  Inv'
<1> DEFINE h == Here(p)
           e == <<art[p], Release[p]>>
           S == h.receipts \cup {e}
           t == [h EXCEPT !.receipts = S]
<1>1. pc[p] = "receipt" /\ StepKept(p, "verify") /\ UNCHANGED art /\ Becomes(p, t)
  BY Provisioning DEF Receipt, At, Working
<1>2. h \in RealTrees /\ Vouched(h) /\ h.core \in {0, h.manifest} /\ S \in SUBSET (Artifacts \X Releases)
  <2>1. h \in RealTrees /\ Vouched(h) /\ h.core \in {0, h.manifest}
    BY HereIsATree
  <2>2. e \in Artifacts \X Releases
    BY ReleaseFacts DEF Inv, StepsTyped
  <2>3. h.receipts \in SUBSET (Artifacts \X Releases)
    BY <2>1 DEF RealTrees
  <2> QED BY <2>1, <2>2, <2>3
<1>3. p \in h.begun /\ ~h.torn => Progress(p, "receipt", art[p], h)
  BY <1>1, Mine DEF Working
<1> HIDE DEF h
<1>4. /\ t \in RealTrees /\ t.receipts = S
      /\ t.core = h.core /\ t.manifest = h.manifest /\ t.asked = h.asked /\ t.torn = h.torn
      /\ t.begun = h.begun /\ t.parts = h.parts /\ t.profile = h.profile /\ t.registry = h.registry
  BY <1>2, ReceiptWritten
<1> HIDE DEF t
<1>5. Follows(p, "verify", h, t)
  BY <1>1, <1>2, <1>4 DEF Follows
<1>6. ASSUME p \in h.begun, ~h.torn
      PROVE  Vouched(t) /\ Progress(p, "verify", art[p], t) /\ Spares(p, "verify", t)
  <2>1. Whole(t, e) /\ e[2] = t.manifest
    BY <1>3, <1>4, <1>6 DEF Progress, Whole, Parts, Working, Later
  <2>2. e[1] = "rust-analyzer" => t.profile /\ t.registry # {}
    BY <1>3, <1>4, <1>6 DEF Progress
  <2>3. ASSUME NEW f \in t.receipts
        PROVE  Whole(t, f) /\ f[2] = t.manifest /\ (f[1] = "rust-analyzer" => t.profile /\ t.registry # {})
    <3>1. CASE f = e
      BY <2>1, <2>2, <3>1
    <3>2. CASE f # e
      <4>1. f \in h.receipts
        BY <1>4, <3>2
      <4> QED BY <1>2, <1>4, <1>6, <4>1 DEF Vouched, Whole
    <3> QED BY <3>1, <3>2
  <2>4. Vouched(t)
    BY <2>3 DEF Vouched
  <2>5. Progress(p, "verify", art[p], t)
    BY DEF Progress, Working, Later
  <2>6. Spares(p, "verify", t)
    <3>1. \A f \in t.receipts : f \in h.receipts \/ f[1] = art[p]
      BY <1>4
    <3> QED BY <1>1, <1>4, <1>6, <3>1, GrownSpares DEF h, Working, Later
  <2> QED BY <2>4, <2>5, <2>6
<1>7. Follows(p, "verify", Here(p), t)
  BY <1>5 DEF h
<1>8. t.begun = h.begun /\ t.torn = h.torn
  BY <1>4
<1> QED BY <1>1, <1>4, <1>6, <1>7, <1>8, Provisioned DEF Working

\* An installer goes on from a pack that is verified: to the provider, or to the
\* swap, and then with the receipt of the provider if it was asked for.
LEMMA VerifyKeeps ==
    ASSUME Inv, NEW p \in Processes, Verify(p)
    PROVE  Inv'
<1>1. pc[p] = "verify" /\ pc[p] \in Building /\ Role[p] # "doctor"
  BY DEF Verify, At, Inv, RoleSteps, Building, Looking
<1>2. CASE Role[p] = "provisioner"
  <2>1. StepKept(p, "done")
    BY <1>2, Unmoved DEF Verify, StepKept, MayGo, Steps, Looking
  <2>2. UNCHANGED tree
    BY DEF Verify
  <2> QED BY <2>1, <2>2, OnlyMoves
<1>3. CASE Role[p] = "installer"
  <2>1. PICK step \in {"select", "swap"} :
            /\ StepKept(p, step)
            /\ step = "swap" => (~WithProvider[p] \/ art[p] # "gitleaks")
    <3>1. CASE art[p] = "gitleaks" /\ WithProvider[p]
      <4>1. StepKept(p, "select")
        BY <1>3, <3>1, Unmoved DEF Verify, GoesOn, StepKept, MayGo, Building, Steps, Artifacts, Looking
      <4> QED BY <4>1
    <3>2. CASE ~(art[p] = "gitleaks" /\ WithProvider[p])
      <4>1. StepKept(p, "swap")
        BY <1>3, <3>2, Unmoved DEF Verify, GoesOn, StepKept, MayGo, Building, Steps, Looking
      <4> QED BY <3>2, <4>1
    <3> QED BY <3>1, <3>2
  <2>2. /\ StepsTyped' /\ HadTyped' /\ RoleSteps' /\ SeenHeld' /\ pc'[p] = step
        /\ \A q \in Processes : q # p => pc'[q] = pc[q] /\ art'[q] = art[q]
    BY <2>1, Moved
  <2>3. Fits(p, "verify", art[p], Here(p)) /\ Here(p) = tree[Staging(p)]
    BY <1>1, <1>3, HereIsStaged
  <2>4. <<art[p], Release[p]>> \in Here(p).receipts /\ UNCHANGED tree
    BY DEF Verify, Verified
  <2>5. art[p] # "gitleaks" => art[p] = "rust-analyzer"
    BY DEF Inv, StepsTyped, Artifacts
  <2>6. step = "swap" /\ WithProvider[p] =>
            <<"rust-analyzer", Release[p]>> \in tree[Staging(p)].receipts
    BY <2>1, <2>3, <2>4, <2>5
  <2>7. Fits(p, step, art'[p], tree[Staging(p)])
    BY <2>3, <2>6 DEF Fits, Progress, Working, Later
  <2>8. TreesFollow'
    BY <1>3, <2>2, <2>4, <2>7, KeptQuietly
  <2> QED BY <2>2, <2>8 DEF Inv
<1> QED BY <1>1, <1>2, <1>3, ReleaseFacts DEF Roles

\* Steps that leave the trees alone.
LEMMA QuietKeep ==
    ASSUME Inv, NEW p \in Processes,
           \/ Called(p) \/ StageFails(p) \/ Prepare(p) \/ Publish(p) \/ Rename(p) \/ Killed(p)
           \/ LookAtTarget(p)
    PROVE  Inv'
<1>1. CASE Called(p)
  <2>1. StepKept(p, "select") /\ UNCHANGED tree
    BY <1>1, Unmoved DEF Called, StepKept, MayGo, Building, Steps, Looking
  <2>2. Role[p] # "installer" /\ pc[p] = "start"
    BY <1>1 DEF Called, At
  <2>3. /\ StepsTyped' /\ HadTyped' /\ RoleSteps' /\ SeenHeld' /\ pc'[p] = "select"
        /\ \A q \in Processes : q # p => pc'[q] = pc[q] /\ art'[q] = art[q]
    BY <2>1, Moved
  <2>4. pc'[p] \notin Working /\ pc[p] \in Before
    BY <2>2, <2>3 DEF Working, Before
  <2>5. TreesFollow'
    BY <2>1, <2>2, <2>3, <2>4, KeptQuietly
  <2> QED BY <2>3, <2>5 DEF Inv
<1>2. CASE StageFails(p)
  <2>1. StepKept(p, "failed") /\ UNCHANGED tree
    BY <1>2, Unmoved DEF StageFails, StepKept, MayGo, Steps, Looking
  <2> QED BY <2>1, OnlyMoves
<1>3. CASE Prepare(p)
  <2>1. pc[p] = "select" /\ Role[p] # "doctor"
    BY <1>3 DEF Prepare, At, Inv, RoleSteps, Looking
  <2>2. PICK step \in {"check", "publish"} : StepKept(p, step)
    BY <1>3, <2>1, Unmoved DEF Prepare, StepKept, MayGo, Building, Steps, Looking
  <2>3. step \in Early /\ pc[p] \in Early /\ UNCHANGED tree
    BY <1>3, <2>1 DEF Prepare, Early
  <2> QED BY <2>2, <2>3, OnlyMoves
<1>4. CASE Publish(p)
  <2>1. pc[p] = "publish" /\ Role[p] # "doctor"
    BY <1>4 DEF Publish, At, Inv, RoleSteps, Looking
  <2>2. PICK step \in {"check", "rename"} : StepKept(p, step)
    BY <1>4, <2>1, Unmoved DEF Publish, StepKept, MayGo, Building, Steps, Looking
  <2>3. step \in Early /\ pc[p] \in Early /\ UNCHANGED tree
    BY <1>4, <2>1 DEF Publish, Early
  <2> QED BY <2>2, <2>3, OnlyMoves
<1>5. CASE Rename(p)
  <2>1. pc[p] = "rename" /\ Role[p] # "doctor"
    BY <1>5 DEF Rename, At, Inv, RoleSteps, Looking
  <2>2. cache' \in [Packs -> {"absent", "good", "damaged"}]
    BY <1>5 DEF Rename, Inv, StepsTyped
  <2>3. StepKept(p, "check")
    BY <1>5, <2>1, <2>2, Unmoved DEF Rename, StepKept, MayGo, Building, Steps, Looking
  <2>4. "check" \in Early /\ pc[p] \in Early /\ UNCHANGED tree
    BY <1>5, <2>1 DEF Rename, Early
  <2> QED BY <2>3, <2>4, OnlyMoves
<1>6. CASE Killed(p)
  <2>1. StepKept(p, "killed") /\ UNCHANGED tree
    BY <1>6, Unmoved DEF Killed, StepKept, MayGo, Steps, Looking
  <2> QED BY <2>1, OnlyMoves
<1>7. CASE LookAtTarget(p)
  <2>1. pc[p] = "swap" /\ Role[p] = "installer" /\ UNCHANGED tree
    BY <1>7 DEF LookAtTarget, At, Inv, RoleSteps
  <2>2. PICK step \in {"aside", "place"} : StepKept(p, step) /\ UNCHANGED art
    BY <1>7, <2>1, Unmoved DEF LookAtTarget, StepKept, MayGo, Building, Steps, Looking
  <2>3. /\ StepsTyped' /\ HadTyped' /\ RoleSteps' /\ SeenHeld' /\ pc'[p] = step
        /\ \A q \in Processes : q # p => pc'[q] = pc[q] /\ art'[q] = art[q]
    BY <2>2, Moved
  <2>4. Fits(p, "swap", art[p], tree[Staging(p)])
    BY <2>1 DEF Inv, TreesFollow, Staged, Building
  <2>5. Fits(p, pc'[p], art'[p], tree[Staging(p)])
    BY <2>2, <2>3, <2>4 DEF Fits, Progress, Working, Later
  <2>6. TreesFollow'
    BY <2>1, <2>3, <2>5, KeptQuietly
  <2> QED BY <2>3, <2>6 DEF Inv
<1> QED BY <1>1, <1>2, <1>3, <1>4, <1>5, <1>6, <1>7


\* Whatever fails in a provision.
LEMMA FailuresKeep ==
    ASSUME Inv, NEW p \in Processes,
           \/ PrepareFails(p) \/ PublishFails(p) \/ RenameFails(p) \/ CheckFails(p)
           \/ CopyFails(p) \/ ProfileFails(p) \/ ReceiptFails(p) \/ VerifyFails(p)
    PROVE  Inv'
<1>1. CASE RenameFails(p)
  <2>1. pc[p] \in Building /\ Role[p] # "doctor"
    BY <1>1 DEF RenameFails, At, Building, Inv, RoleSteps, Looking
  <2>2. CASE cache[Pack(p)] = "absent"
    <3>1. cache' \in [Packs -> {"absent", "good", "damaged"}]
      BY <1>1, <2>2 DEF RenameFails, Inv, StepsTyped
    <3> QED BY <1>1, <2>1, <2>2, <3>1, GivingUp DEF RenameFails
  <2>3. CASE cache[Pack(p)] # "absent"
    BY <1>1, <2>1, <2>3, Failing DEF RenameFails
  <2> QED BY <2>2, <2>3
<1>2. CASE \/ PrepareFails(p) \/ PublishFails(p) \/ CheckFails(p) \/ CopyFails(p)
           \/ ProfileFails(p) \/ ReceiptFails(p) \/ VerifyFails(p)
  <2>1. pc[p] \in Building /\ Fails(p)
    BY <1>2 DEF PrepareFails, PublishFails, CheckFails, CopyFails, ProfileFails, ReceiptFails,
                VerifyFails, At, Building
  <2> QED BY <2>1, Failing
<1> QED BY <1>1, <1>2

-----------------------------------------------------------------------------
(* The installer before and after the provisions. *)

\* A staged tree starts with the core alone.
LEMMA StageKeeps ==
    ASSUME Inv, NEW p \in Processes, Stage(p)
    PROVE  Inv'
<1> DEFINE t == [EmptyTree EXCEPT !.core = Release[p], !.manifest = Release[p],
                                  !.asked = WithProvider[p]]
<1>1. /\ t \in RealTrees /\ t.receipts = {} /\ ~t.torn /\ t.begun = {}
      /\ t.core = Release[p] /\ t.manifest = Release[p] /\ t.asked = WithProvider[p]
  BY ReleaseFacts DEF RealTrees, EmptyTree
<1>2. tree' = [tree EXCEPT ![Staging(p)] = t] /\ Role[p] = "installer"
  BY DEF Stage
<1> HIDE DEF t
<1>3. StepKept(p, "select")
  BY Unmoved DEF Stage, StepKept, MayGo, Building, Steps, Looking
<1>4. /\ StepsTyped' /\ HadTyped' /\ RoleSteps' /\ SeenHeld' /\ pc'[p] = "select"
      /\ \A q \in Processes : q # p => pc'[q] = pc[q] /\ art'[q] = art[q]
  BY <1>3, Moved
<1>5. Vouched(t) /\ Bound(t)
  BY <1>1 DEF Vouched, Bound
<1>6. Fits(p, pc'[p], art'[p], t)
  BY <1>1, <1>4 DEF Fits, Progress, Working, Later
<1>7. TreesFollow'
  BY <1>1, <1>2, <1>4, <1>5, <1>6, KeptStaged
<1> QED BY <1>4, <1>7 DEF Inv

\* The target is moved aside as it is, but torn from who is at work in it.
LEMMA MoveAsideKeeps ==
    ASSUME Inv, NEW p \in Processes, MoveAside(p)
    PROVE  Inv'
<1> DEFINE old == tree[Target]
           u == [old EXCEPT !.torn = old.torn \/ AtWork(old)]
<1>1. pc[p] = "aside" /\ Role[p] = "installer"
  BY DEF MoveAside, At, Inv, RoleSteps
<1>2. StepKept(p, "place") /\ UNCHANGED art
  <2>1. HadTyped'
    BY DEF MoveAside, Inv, HadTyped
  <2> QED BY <1>1, <2>1, Unmoved DEF MoveAside, StepKept, MayGo, Building, Steps, Looking
<1>3. /\ StepsTyped' /\ HadTyped' /\ RoleSteps' /\ SeenHeld' /\ pc'[p] = "place"
      /\ \A q \in Processes : q # p => pc'[q] = pc[q] /\ art'[q] = art[q]
  BY <1>2, Moved
<1>4. Fits(p, "aside", art[p], tree[Staging(p)])
  BY <1>1 DEF Inv, TreesFollow, Staged, Building
<1>5. Fits(p, pc'[p], art'[p], tree[Staging(p)])
  BY <1>2, <1>3, <1>4 DEF Fits, Progress, Working, Later
<1>6. tree \in [Places -> RealTrees \cup {NoTree}] /\ old \in RealTrees
  BY PlacesApart DEF MoveAside, Exists, Inv, TreesFollow, Shape
<1>7. tree' = [tree EXCEPT ![Backup(p)] = u, ![Target] = NoTree]
  BY DEF MoveAside
<1>8. Vouched(old) /\ Bound(old) /\ HasProvider(old)
  BY PlacesApart DEF Inv, TreesFollow, AllVouched, AllProvided
<1>9. AtWork(old) \in BOOLEAN
  BY DEF AtWork
<1> HIDE DEF old
<1>10. /\ u \in RealTrees /\ u.core = old.core /\ u.manifest = old.manifest /\ u.asked = old.asked
       /\ u.receipts = old.receipts /\ u.begun = old.begun /\ u.parts = old.parts
       /\ u.profile = old.profile /\ u.registry = old.registry
       /\ (u.torn <=> old.torn \/ AtWork(old))
  BY <1>6, <1>9 DEF RealTrees
<1> HIDE DEF u
<1>11. old # NoTree
  BY DEF old, MoveAside, Exists
<1>12. Vouched(u) /\ Bound(u) /\ HasProvider(u)
  <2>1. Vouched(u)
    BY <1>8, <1>10 DEF Vouched, Whole
  <2>2. Bound(u) /\ HasProvider(u)
    BY <1>8, <1>10, <1>11 DEF Bound, HasProvider
  <2> QED BY <2>1, <2>2
<1>13. /\ Shape' /\ tree'[Target] = NoTree /\ tree'[Backup(p)] = u
       /\ \A other \in Places \ {Target, Backup(p)} : tree'[other] = tree[other]
  BY <1>6, <1>7, <1>10, PlacesApart DEF Shape
<1>14. \A place \in Places : tree'[place] # tree[place] =>
           Vouched(tree'[place]) /\ Bound(tree'[place]) /\ HasProvider(tree'[place])
  BY <1>12, <1>13, TreeFacts
<1>15. \A q \in Processes : tree'[Staging(q)] = tree[Staging(q)]
  BY <1>13, PlacesApart
<1>16. Undisturbed
  <2> SUFFICES ASSUME NEW place \in Places, NEW q \in Processes, q \in tree'[place].begun
               PROVE  /\ \E from \in Places : q \in tree[from].begun
                      /\ Role[q] = "provisioner" /\ pc[q] \in Working /\ ~tree'[place].torn =>
                            \E from \in Places :
                                /\ q \in tree[from].begun /\ ~tree[from].torn
                                /\ from = Target => place = Target /\ tree'[place] = tree[Target]
    BY DEF Undisturbed
  <2>1. place # Target
    BY <1>13, TreeFacts
  <2>2. CASE place = Backup(p)
    <3>1. q \in tree[Target].begun
      BY <1>10, <1>13, <2>2 DEF old
    <3>2. ASSUME Role[q] = "provisioner", pc[q] \in Working PROVE tree'[place].torn
      <4>1. pc[q] \notin EndedStates
        BY <3>2 DEF Working, EndedStates
      <4>2. AtWork(old)
        BY <3>1, <3>2, <4>1 DEF AtWork, old
      <4> QED BY <1>10, <1>13, <2>2, <4>2
    <3> QED BY <3>1, <3>2, PlacesApart
  <2>3. CASE place # Backup(p)
    BY <1>13, <2>1, <2>3
  <2> QED BY <2>2, <2>3
<1>17. TreesFollow'
  BY <1>1, <1>3, <1>5, <1>13, <1>14, <1>15, <1>16, HandsKept, Kept DEF Inv
<1> QED BY <1>3, <1>17 DEF Inv

\* The end of an installation: the staged tree goes, and the target and the backup
\* of p hold trees that were there, or the staged one.
LEMMA EndOfInstall ==
    ASSUME Inv, NEW p \in Processes, NEW step \in {"drop", "done", "failed"}, StepKept(p, step),
           Shape', Role[p] = "installer",
           \A q \in Processes : q # p => tree'[Staging(q)] = tree[Staging(q)],
           tree'[Staging(p)] \in {tree[Staging(p)], NoTree},
           \/ tree'[Target] \in {tree[Target], tree[Backup(p)], NoTree}
           \/ tree'[Target] = tree[Staging(p)] /\ HasProvider(tree[Staging(p)]),
           tree'[Backup(p)] \in {tree[Backup(p)], NoTree},
           \A place \in Places \ (Stagings \cup {Target, Backup(p)}) : tree'[place] = tree[place]
    PROVE  Inv'
<1>1. /\ StepsTyped' /\ HadTyped' /\ RoleSteps' /\ SeenHeld' /\ pc'[p] = step
      /\ \A q \in Processes : q # p => pc'[q] = pc[q] /\ art'[q] = art[q]
  BY Moved
<1>2. pc'[p] \notin Building
  BY <1>1 DEF Building
<1>3. /\ Vouched(tree[Target]) /\ Bound(tree[Target]) /\ HasProvider(tree[Target])
      /\ Vouched(tree[Backup(p)]) /\ Bound(tree[Backup(p)]) /\ HasProvider(tree[Backup(p)])
      /\ Vouched(tree[Staging(p)]) /\ Bound(tree[Staging(p)])
  BY PlacesApart DEF Inv, TreesFollow, AllVouched, AllProvided
<1>4. ASSUME NEW place \in Places
      PROVE  \/ tree'[place] = tree[place] \/ tree'[place] = NoTree
             \/ place = Target /\ tree'[place] \in {tree[Backup(p)], tree[Staging(p)]}
  BY PlacesApart DEF Stagings
<1>5. ASSUME NEW place \in Places, tree'[place] # tree[place]
      PROVE  /\ Vouched(tree'[place]) /\ Bound(tree'[place])
             /\ place \notin Stagings => HasProvider(tree'[place])
  <2>1. CASE tree'[place] = NoTree
    BY <2>1, TreeFacts
  <2>2. CASE place = Target /\ tree'[place] \in {tree[Backup(p)], tree[Staging(p)]}
    BY <1>3, <1>5, <2>2, TreeFacts
  <2> QED BY <1>4, <1>5, <2>1, <2>2
<1>6. Undisturbed
  <2> SUFFICES ASSUME NEW place \in Places, NEW q \in Processes, q \in tree'[place].begun
               PROVE  \E from \in Places : /\ q \in tree[from].begun /\ tree'[place] = tree[from]
                                           /\ from = Target => place = Target
    BY DEF Undisturbed
  <2>1. tree'[place] # NoTree
    BY TreeFacts
  <2>2. CASE tree'[place] = tree[place]
    BY <2>2
  <2>3. CASE place = Target /\ tree'[place] \in {tree[Backup(p)], tree[Staging(p)]}
    BY <2>3, PlacesApart
  <2> QED BY <1>4, <2>1, <2>2, <2>3
<1>7. TreesFollow'
  BY <1>1, <1>2, <1>5, <1>6, HandsKept, Kept DEF Inv
<1> QED BY <1>1, <1>7 DEF Inv

LEMMA SwapsKeep ==
    ASSUME Inv, NEW p \in Processes,
           MoveAsideFails(p) \/ MoveIn(p) \/ MoveInFails(p) \/ DropBackup(p)
    PROVE  Inv'
<1>1. Role[p] = "installer" /\ pc[p] \in {"aside", "place", "drop"}
  BY DEF MoveAsideFails, MoveIn, MoveInFails, DropBackup, At, Inv, RoleSteps
<1>2. tree \in [Places -> RealTrees \cup {NoTree}]
  BY DEF Inv, TreesFollow, Shape
<1>3. CASE MoveAsideFails(p)
  <2>1. StepKept(p, "failed")
    BY <1>1, <1>3, Unmoved DEF MoveAsideFails, StepKept, MayGo, Steps, Looking
  <2>2. /\ Shape' /\ tree'[Staging(p)] = NoTree
        /\ \A other \in Places : other # Staging(p) => tree'[other] = tree[other]
    BY <1>2, <1>3, PlacesApart DEF MoveAsideFails, Shape
  <2> QED BY <1>1, <2>1, <2>2, PlacesApart, EndOfInstall
<1>4. CASE MoveIn(p)
  <2>1. PICK step \in {"drop", "done"} : StepKept(p, step)
    BY <1>1, <1>4, Unmoved DEF MoveIn, StepKept, MayGo, Steps, Looking
  <2>2. Fits(p, "place", art[p], tree[Staging(p)])
    BY <1>1, <1>4 DEF MoveIn, At, Inv, TreesFollow, Staged, Building
  <2>3. HasProvider(tree[Staging(p)])
    BY <2>2 DEF Fits, HasProvider
  <2>4. PICK moved \in {tree[Target], tree[Staging(p)]} :
            tree' = [tree EXCEPT ![Staging(p)] = NoTree, ![Target] = moved]
    BY <1>2, <1>4, PlacesApart DEF MoveIn
  <2>5. moved \in RealTrees \cup {NoTree}
    BY <1>2, PlacesApart
  <2>6. /\ Shape' /\ tree'[Staging(p)] = NoTree /\ tree'[Target] = moved
        /\ \A other \in Places \ {Staging(p), Target} : tree'[other] = tree[other]
    BY <1>2, <2>4, <2>5, PlacesApart DEF Shape
  <2> QED BY <1>1, <2>1, <2>3, <2>6, PlacesApart, EndOfInstall
<1>5. CASE MoveInFails(p)
  <2>1. StepKept(p, "failed")
    BY <1>1, <1>5, Unmoved DEF MoveInFails, StepKept, MayGo, Steps, Looking
  <2>2. CASE tree' = [tree EXCEPT ![Staging(p)] = NoTree]
    <3>1. /\ Shape' /\ tree'[Staging(p)] = NoTree
          /\ \A other \in Places : other # Staging(p) => tree'[other] = tree[other]
      BY <1>2, <2>2, PlacesApart DEF Shape
    <3> QED BY <1>1, <2>1, <3>1, PlacesApart, EndOfInstall
  <2>3. CASE ~ tree' = [tree EXCEPT ![Staging(p)] = NoTree]
    <3>1. PICK back \in {tree[Target], tree[Backup(p)]} :
              tree' = [tree EXCEPT ![Staging(p)] = NoTree, ![Backup(p)] = NoTree,
                                   ![Target] = back]
      BY <1>2, <1>5, <2>3, PlacesApart DEF MoveInFails
    <3>2. back \in RealTrees \cup {NoTree}
      BY <1>2, PlacesApart
    <3>3. /\ Shape' /\ tree'[Staging(p)] = NoTree /\ tree'[Backup(p)] = NoTree
          /\ tree'[Target] = back
          /\ \A other \in Places \ {Staging(p), Backup(p), Target} : tree'[other] = tree[other]
      BY <1>2, <3>1, <3>2, PlacesApart DEF Shape
    <3> QED BY <1>1, <2>1, <3>3, PlacesApart, EndOfInstall
  <2> QED BY <2>2, <2>3
<1>6. CASE DropBackup(p)
  <2>1. StepKept(p, "done")
    BY <1>1, <1>6, Unmoved DEF DropBackup, StepKept, MayGo, Steps, Looking
  <2>2. PICK kept \in {NoTree, tree[Backup(p)]} : tree' = [tree EXCEPT ![Backup(p)] = kept]
    BY <1>6 DEF DropBackup
  <2>3. kept \in RealTrees \cup {NoTree}
    BY <1>2, PlacesApart
  <2>4. /\ Shape' /\ tree'[Backup(p)] = kept
        /\ \A other \in Places : other # Backup(p) => tree'[other] = tree[other]
    BY <1>2, <2>2, <2>3, PlacesApart DEF Shape
  <2> QED BY <1>1, <2>1, <2>4, PlacesApart, EndOfInstall
<1> QED BY <1>3, <1>4, <1>5, <1>6

-----------------------------------------------------------------------------
(* A doctor reads only. *)

\* A look of a doctor is refused, or goes on with what it has read.
Accepts(p, next, read) ==
    /\ Goes(p, next) /\ seen' = [seen EXCEPT ![p] = read]
    /\ read \in Looks /\ read.listed \ read.todo \subseteq read.held
    /\ next \in {"pack", "payload"} =>
          (IF "gitleaks" \in read.todo THEN "gitleaks" ELSE "rust-analyzer") \in read.held
    /\ next = "done" => read.todo = {}
    /\ next \in Looking => read.release # 0

LEMMA LookKeeps ==
    ASSUME Inv, NEW p \in Processes, Role[p] = "doctor", UNCHANGED <<cache, tree, art, had>>,
           NEW next \in Looking \cup {"done"}, NEW read, Accepts(p, next, read)
    PROVE  Inv'
<1>1. MayGo(p, next)
  BY DEF MayGo, Steps, Looking
<1>2. /\ pc' \in [Processes -> Steps] /\ RoleSteps' /\ pc'[p] = next
      /\ \A q \in Processes : q # p => pc'[q] = pc[q]
  BY <1>1, Gone DEF Inv, Accepts
<1>3. /\ seen' \in [Processes -> Looks] /\ seen'[p] = read
      /\ \A q \in Processes : q # p => seen'[q] = seen[q]
  BY DEF Accepts, Inv, StepsTyped
<1>4. StepsTyped' /\ HadTyped'
  BY <1>2, <1>3 DEF Inv, StepsTyped, HadTyped
<1>5. SeenHeld'
  <2> SUFFICES ASSUME NEW q \in Processes
               PROVE  /\ seen'[q].listed \ seen'[q].todo \subseteq seen'[q].held
                      /\ pc'[q] \in {"pack", "payload"} => Looked(q)' \in seen'[q].held
                      /\ pc'[q] = "done" \/ Role[q] # "doctor" => seen'[q].todo = {}
                      /\ Role[q] = "doctor" /\ pc'[q] \in Looking => seen'[q].release # 0
    BY DEF SeenHeld
  <2>1. CASE q = p
    BY <1>2, <1>3, <2>1 DEF Accepts, Looked
  <2>2. CASE q # p
    BY <1>2, <1>3, <2>2 DEF Inv, SeenHeld, Looked
  <2> QED BY <2>1, <2>2
<1>6. pc'[p] \notin Working /\ pc'[p] \notin Before
  BY <1>2 DEF Working, Before, Looking
<1>7. TreesFollow'
  BY <1>2, <1>6, KeptQuietly
<1> QED BY <1>2, <1>4, <1>5, <1>7 DEF Inv

LEMMA RefusedKeeps ==
    ASSUME Inv, NEW p \in Processes, Role[p] = "doctor", UNCHANGED <<cache, tree, art, had>>,
           Goes(p, "failed"), seen' = [seen EXCEPT ![p] = Unread]
    PROVE  Inv'
<1>1. MayGo(p, "failed")
  BY DEF MayGo, Steps, Looking
<1>2. /\ pc' \in [Processes -> Steps] /\ RoleSteps' /\ pc'[p] = "failed"
      /\ \A q \in Processes : q # p => pc'[q] = pc[q]
  BY <1>1, Gone DEF Inv
<1>3. Unread \in Looks
  BY DEF Unread, Looks
<1>4. /\ seen' \in [Processes -> Looks] /\ seen'[p] = Unread
      /\ \A q \in Processes : q # p => seen'[q] = seen[q]
  BY <1>3 DEF Inv, StepsTyped
<1>5. StepsTyped' /\ HadTyped'
  BY <1>2, <1>4 DEF Inv, StepsTyped, HadTyped
<1>6. SeenHeld'
  <2> SUFFICES ASSUME NEW q \in Processes
               PROVE  /\ seen'[q].listed \ seen'[q].todo \subseteq seen'[q].held
                      /\ pc'[q] \in {"pack", "payload"} => Looked(q)' \in seen'[q].held
                      /\ pc'[q] = "done" \/ Role[q] # "doctor" => seen'[q].todo = {}
                      /\ Role[q] = "doctor" /\ pc'[q] \in Looking => seen'[q].release # 0
    BY DEF SeenHeld
  <2>1. CASE q = p
    BY <1>2, <1>4, <2>1 DEF Unread, Looking
  <2>2. CASE q # p
    BY <1>2, <1>4, <2>2 DEF Inv, SeenHeld, Looked
  <2> QED BY <2>1, <2>2
<1>7. pc'[p] \notin Working /\ pc'[p] \notin Before
  BY <1>2 DEF Working, Before
<1>8. TreesFollow'
  BY <1>2, <1>7, KeptQuietly
<1> QED BY <1>2, <1>5, <1>6, <1>8 DEF Inv

\* What it knows while it looks.
LEMMA Knows ==
    ASSUME Inv, NEW p \in Processes, pc[p] \in Looking
    PROVE  /\ Role[p] = "doctor" /\ seen[p] \in Looks /\ seen[p].release # 0
           /\ seen[p].listed \ seen[p].todo \subseteq seen[p].held
           /\ pc[p] \in {"pack", "payload"} => Looked(p) \in seen[p].held
  BY DEF Inv, RoleSteps, SeenHeld, StepsTyped

\* The receipt that it accepts last vouches for the tree it is in.
LEMMA VouchedTree ==
    ASSUME Inv, Exists(Target), ~There.torn, NEW a, NEW r, <<a, r>> \in There.receipts
    PROVE  OneTree(There, a, r)
<1>1. Vouched(There) /\ Bound(There) /\ There # NoTree
  BY PlacesApart DEF Inv, TreesFollow, AllVouched, There, Exists
<1>2. Whole(There, <<a, r>>) /\ r = There.manifest /\ (a = "rust-analyzer" => There.profile /\ There.registry # {})
  BY <1>1 DEF Vouched
<1> QED BY <1>1, <1>2 DEF OneTree, Bound

LEMMA DoctorKeeps ==
    ASSUME Inv, NEW p \in Processes, DoctorStep(p)
    PROVE  Inv'
<1>1. Role[p] = "doctor"
  BY DEF DoctorStep, ReadManifest, ReadInventory, ReadRevocations, ReadMembers, ReadProviders,
         ReadEntries, ListReceipts, ReadReceipt, ReadExecutable, ReadReceiptAgain, ReadPack, ReadPayload, At, Inv, RoleSteps, Looking
<1>2. UNCHANGED <<cache, tree, art, had>>
  BY DEF DoctorStep, ReadManifest, ReadInventory, ReadRevocations, ReadMembers, ReadProviders,
         ReadEntries, ListReceipts, ReadReceipt, ReadExecutable, ReadReceiptAgain, ReadPack, ReadPayload, Reads
<1>3. CASE Goes(p, "failed") /\ seen' = [seen EXCEPT ![p] = Unread]
  BY <1>1, <1>2, <1>3, RefusedKeeps
<1>4. Exists(Target) => There \in RealTrees
  BY PlacesApart DEF There, Exists, Inv, TreesFollow, Shape
<1>5. ASSUME ReadManifest(p), ~(Goes(p, "failed") /\ seen' = [seen EXCEPT ![p] = Unread]) PROVE Inv'
  <2> DEFINE read == [Unread EXCEPT !.release = There.manifest]
  <2>1. /\ Exists(Target) /\ There.manifest # 0
        /\ Goes(p, "inventory") /\ seen' = [seen EXCEPT ![p] = read]
    BY <1>5 DEF ReadManifest, Reads
  <2>2. There.manifest \in Releases \cup {0}
    BY <1>4, <2>1 DEF RealTrees
  <2>3. /\ read \in Looks /\ read.release # 0 /\ read.listed = {}
    BY <2>1, <2>2 DEF Looks, Unread
  <2> HIDE DEF read
  <2>4. Accepts(p, "inventory", read)
    BY <2>1, <2>3 DEF Accepts
  <2> QED BY <1>1, <1>2, <2>4, LookKeeps DEF Looking
<1>6. ASSUME \/ ReadInventory(p) \/ ReadRevocations(p) \/ ReadMembers(p) \/ ReadEntries(p)
             \/ ReadReceipt(p) \/ ReadExecutable(p) \/ ReadPack(p),
             ~(Goes(p, "failed") /\ seen' = [seen EXCEPT ![p] = Unread])
      PROVE Inv'
  <2>1. pc[p] \in Looking
    BY <1>6 DEF ReadInventory, ReadRevocations, ReadMembers, ReadEntries, ReadReceipt, ReadExecutable,
                ReadPack, At, Looking
  <2>2. PICK next \in {"revocations", "members", "providers", "receipts", "executable", "vouch", "payload"} :
            /\ Goes(p, next) /\ seen' = [seen EXCEPT ![p] = seen[p]]
            /\ next = "payload" => pc[p] = "pack"
    BY <1>6 DEF ReadInventory, ReadRevocations, ReadMembers, ReadEntries, ReadReceipt, ReadExecutable,
                ReadPack, Reads, At
  <2>3. Accepts(p, next, seen[p])
    BY <2>1, <2>2, Knows DEF Accepts, Looked
  <2> QED BY <1>1, <1>2, <2>3, LookKeeps DEF Looking
<1>7. ASSUME ReadProviders(p), ~(Goes(p, "failed") /\ seen' = [seen EXCEPT ![p] = Unread]) PROVE Inv'
  <2> DEFINE S == There.registry
             read == [seen[p] EXCEPT !.registry = S]
  <2>1. pc[p] \in Looking
    BY <1>7 DEF ReadProviders, At, Looking
  <2>2. PICK next \in {"receipts", "entries"} :
            Exists(Target) /\ Goes(p, next) /\ seen' = [seen EXCEPT ![p] = read]
    BY <1>7 DEF ReadProviders, Reads
  <2>3. S \in SUBSET (Places \X Packs)
    BY <1>4, <2>2 DEF RealTrees
  <2> HIDE DEF S
  <2>4. /\ read \in Looks /\ read.release = seen[p].release /\ read.listed = seen[p].listed
        /\ read.todo = seen[p].todo /\ read.held = seen[p].held
    BY <2>1, <2>3, Knows DEF Looks
  <2> HIDE DEF read
  <2>5. Accepts(p, next, read)
    BY <2>1, <2>2, <2>4, Knows DEF Accepts
  <2> QED BY <1>1, <1>2, <2>5, LookKeeps DEF Looking
<1>8. ASSUME ListReceipts(p), ~(Goes(p, "failed") /\ seen' = [seen EXCEPT ![p] = Unread]) PROVE Inv'
  <2>1. pc[p] \in Looking
    BY <1>8 DEF ListReceipts, At, Looking
  <2>2. PICK S \in {{e[1] : e \in There.receipts}} \cup {{a} : a \in Artifacts} :
            /\ Exists(Target) /\ Goes(p, "glance")
            /\ seen' = [seen EXCEPT ![p] = [seen[p] EXCEPT !.listed = S, !.todo = S]]
    BY <1>8 DEF ListReceipts, Reads
  <2>3. S \in SUBSET Artifacts
    <3>1. There.receipts \subseteq Artifacts \X Releases
      BY <1>4, <2>2 DEF RealTrees
    <3> QED BY <2>2, <3>1
  <2> DEFINE read == [seen[p] EXCEPT !.listed = S, !.todo = S]
  <2>4. /\ read \in Looks /\ read.release = seen[p].release /\ read.listed = S
        /\ read.todo = S /\ read.held = seen[p].held
    BY <2>1, <2>3, Knows DEF Looks
  <2>5. seen' = [seen EXCEPT ![p] = read]
    BY <2>2
  <2> HIDE DEF read
  <2>6. Accepts(p, "glance", read)
    BY <2>1, <2>2, <2>4, <2>5, Knows DEF Accepts
  <2> QED BY <1>1, <1>2, <2>6, LookKeeps DEF Looking
<1>9. ASSUME ReadReceiptAgain(p), ~(Goes(p, "failed") /\ seen' = [seen EXCEPT ![p] = Unread]) PROVE Inv'
  <2> DEFINE a == Looked(p)
             H == IF There.torn \/ OneTree(There, a, R(p)) THEN {a} ELSE {}
             S == seen[p].held \cup H
             read == [seen[p] EXCEPT !.held = S]
  <2>1. pc[p] \in Looking
    BY <1>9 DEF ReadReceiptAgain, At, Looking
  <2>2. /\ Exists(Target) /\ Goes(p, "pack") /\ seen' = [seen EXCEPT ![p] = read]
        /\ \E e \in There.receipts : Binds(e, a, R(p))
    BY <1>9 DEF ReadReceiptAgain, Reads
  <2>3. H = {a} /\ a \in Artifacts
    <3>1. <<a, R(p)>> \in There.receipts
      BY <2>2 DEF Binds
    <3>2. There.torn \/ OneTree(There, a, R(p))
      BY <2>2, <3>1, VouchedTree
    <3> QED BY <3>2 DEF Looked, Artifacts
  <2>4. S \in SUBSET Artifacts /\ a \in S
    <3>1. seen[p].held \in SUBSET Artifacts
      BY <2>1, Knows DEF Looks
    <3> QED BY <2>3, <3>1
  <2> HIDE DEF H
  <2>5. seen[p].held \subseteq S
    OBVIOUS
  <2> HIDE DEF S
  <2>6. /\ read \in Looks /\ read.release = seen[p].release /\ read.listed = seen[p].listed
        /\ read.todo = seen[p].todo /\ read.held = S
    BY <2>1, <2>4, Knows DEF Looks
  <2> HIDE DEF read
  <2>7. (IF "gitleaks" \in read.todo THEN "gitleaks" ELSE "rust-analyzer") \in read.held
    BY <2>4, <2>6 DEF Looked
  <2>8. Accepts(p, "pack", read)
    BY <2>1, <2>2, <2>5, <2>6, <2>7, Knows DEF Accepts
  <2> QED BY <1>1, <1>2, <2>8, LookKeeps DEF Looking
<1>10. ASSUME ReadPayload(p), ~(Goes(p, "failed") /\ seen' = [seen EXCEPT ![p] = Unread]) PROVE Inv'
  <2> DEFINE left == seen[p].todo \ {Looked(p)}
             read == [seen[p] EXCEPT !.todo = left]
             next == IF left = {} THEN "done" ELSE "glance"
  <2>1. pc[p] = "payload" /\ pc[p] \in Looking
    BY <1>10 DEF ReadPayload, At, Looking
  <2>2. Goes(p, next) /\ seen' = [seen EXCEPT ![p] = read]
    BY <1>10 DEF ReadPayload, Reads
  <2>3. left \in SUBSET Artifacts /\ seen[p].listed \ left \subseteq seen[p].held
    BY <2>1, Knows DEF Looks
  <2>4. next \in {"done", "glance"} /\ (next = "done" => left = {})
    OBVIOUS
  <2> HIDE DEF left, next
  <2>5. /\ read \in Looks /\ read.release = seen[p].release /\ read.listed = seen[p].listed
        /\ read.todo = left /\ read.held = seen[p].held
    BY <2>1, <2>3, Knows DEF Looks
  <2> HIDE DEF read
  <2>6. Accepts(p, next, read)
    BY <2>1, <2>2, <2>3, <2>4, <2>5, Knows DEF Accepts, Looking
  <2> QED BY <1>1, <1>2, <2>4, <2>6, LookKeeps DEF Looking
<1> QED BY <1>3, <1>5, <1>6, <1>7, <1>8, <1>9, <1>10 DEF DoctorStep

-----------------------------------------------------------------------------
\* No tree is staged when the installers start.
LEMMA InitInv == Init => Inv
<1> SUFFICES ASSUME Init PROVE Inv
  OBVIOUS
<1>1. \A p \in Processes : pc[p] \in {"start", "done"} /\ seen[p] = Unread
  BY DEF Init
<1>2. StepsTyped /\ HadTyped
  <2>1. Unread \in Looks
    BY DEF Unread, Looks
  <2> QED BY <2>1 DEF Init, StepsTyped, HadTyped, Steps, Artifacts
<1>3. RoleSteps /\ SeenHeld /\ \A p \in Processes : Staged(p)
  <2>1. RoleSteps /\ \A p \in Processes : Staged(p)
    BY <1>1 DEF RoleSteps, Staged, Building, Looking
  <2>2. SeenHeld
    BY <1>1 DEF SeenHeld, Unread, Looking
  <2> QED BY <2>1, <2>2
<1>4. PICK r \in OldTargets :
          tree = [place \in Places |-> IF place = Target /\ r # 0 THEN Installed(r) ELSE NoTree]
  BY DEF Init
<1>5. ASSUME r # 0
      PROVE  /\ Installed(r) \in RealTrees /\ Vouched(Installed(r)) /\ Bound(Installed(r))
             /\ HasProvider(Installed(r)) /\ Installed(r).begun = {}
  <2>1. r \in Releases /\ "gitleaks" \in Artifacts
    BY <1>5, InstallAssumption DEF Artifacts
  <2>2. PackOf[r]["gitleaks"] \in Packs
    BY <2>1, ReleaseFacts
  <2> DEFINE parts == {PackOf[r]["gitleaks"]} \X Parts
             receipts == {<<"gitleaks", r>>}
             t == [EmptyTree EXCEPT !.core = r, !.manifest = r, !.parts = parts,
                                    !.receipts = receipts]
  <2>3. parts \in SUBSET (Packs \X Parts) /\ receipts \in SUBSET (Artifacts \X Releases)
    BY <2>1, <2>2
  <2>4. Installed(r) = t
    BY DEF Installed
  <2> HIDE DEF parts, receipts
  <2>5. /\ t \in RealTrees /\ t.asked = FALSE /\ t.core = r /\ t.manifest = r /\ t.begun = {}
        /\ t.receipts = receipts /\ t.parts = parts
    BY <2>1, <2>3 DEF EmptyTree, RealTrees
  <2>6. /\ Installed(r) \in RealTrees /\ Installed(r).asked = FALSE /\ Installed(r).core = r
        /\ Installed(r).manifest = r /\ Installed(r).begun = {}
        /\ Installed(r).receipts = {<<"gitleaks", r>>}
        /\ Installed(r).parts = {PackOf[r]["gitleaks"]} \X Parts
    BY <2>4, <2>5 DEF parts, receipts
  <2> HIDE DEF t
  <2> QED BY <2>6 DEF Vouched, Bound, HasProvider, Whole
<1>6. \A place \in Places :
            /\ tree[place] \in RealTrees \cup {NoTree} /\ tree[place].begun = {}
            /\ Vouched(tree[place]) /\ Bound(tree[place]) /\ HasProvider(tree[place])
  BY <1>4, <1>5, TreeFacts
<1>7. Shape /\ AllVouched /\ AllProvided
  BY <1>4, <1>6 DEF Shape, AllVouched, AllProvided
<1>8. (\A p \in Processes : Hand(p)) /\ \A p, q \in Processes : Apart(p, q)
  BY <1>1, <1>6 DEF Hand, Apart, Working, Later
<1> QED BY <1>2, <1>3, <1>7, <1>8 DEF Inv, TreesFollow

\* A step that only changes the cache, or nothing.
LEMMA OthersKeep ==
    ASSUME Inv, UNCHANGED vars \/ \E k \in Damageable : Damage(k)
    PROVE  Inv'
<1>1. /\ UNCHANGED <<tree, pc, art, had, seen>>
      /\ cache' \in [Packs -> {"absent", "good", "damaged"}]
  BY InstallAssumption DEF vars, Damage, Inv, StepsTyped
<1>2. StepsTyped' /\ HadTyped' /\ RoleSteps'
  BY <1>1 DEF Inv, StepsTyped, HadTyped, RoleSteps
<1>3. SeenHeld'
  BY <1>1 DEF Inv, SeenHeld, Looked
<1>4. TreesFollow'
  <2>1. Shape' /\ AllVouched' /\ AllProvided' /\ \A p \in Processes : Staged(p)'
    BY <1>1 DEF Inv, TreesFollow, Shape, AllVouched, AllProvided, Staged
  <2>2. (\A p \in Processes : Hand(p)') /\ \A p, q \in Processes : Apart(p, q)'
    BY <1>1 DEF Inv, TreesFollow, Hand, Apart
  <2> QED BY <2>1, <2>2 DEF TreesFollow
<1> QED BY <1>2, <1>3, <1>4 DEF Inv

LEMMA StepInv == Inv /\ [Next]_vars => Inv'
<1> SUFFICES ASSUME Inv, [Next]_vars PROVE Inv'
  OBVIOUS
<1>1. CASE UNCHANGED vars \/ Ended \/ \E k \in Damageable : Damage(k)
  BY <1>1, OthersKeep DEF Ended
<1>2. ASSUME NEW p \in Processes, ProvisionStep(p) PROVE Inv'
  BY <1>2, QuietKeep, FailuresKeep, CheckKeeps, PartsKeep, ProfileKeeps, RegistryKeeps,
     RegistryFailsKeeps, ReceiptKeeps, VerifyKeeps DEF ProvisionStep
<1>3. ASSUME NEW p \in Processes, InstallStep(p) PROVE Inv'
  BY <1>3, QuietKeep, StageKeeps, MoveAsideKeeps, SwapsKeep DEF InstallStep
<1>4. ASSUME NEW p \in Processes, DoctorStep(p) \/ Killed(p) PROVE Inv'
  BY <1>4, DoctorKeeps, QuietKeep
<1> QED BY <1>1, <1>2, <1>3, <1>4 DEF Next

\* The invariant says of every tree what TreesAreWhole says of all.
LEMMA InvMeansWhole == Inv => TreesAreWhole
<1> SUFFICES ASSUME Inv PROVE TreesAreWhole
  OBVIOUS
<1>1. TypeOK
  <2>1. \A place \in Places : Exists(place) => tree[place] \in RealTrees
    BY DEF Exists, Inv, TreesFollow, Shape
  <2>2. ASSUME NEW place \in Places, Exists(place)
        PROVE  /\ tree[place].core \in Releases \cup {0}
               /\ tree[place].manifest \in Releases \cup {0}
               /\ tree[place].parts \subseteq Packs \X Parts
               /\ tree[place].registry \subseteq Places \X Packs
               /\ tree[place].receipts \subseteq Artifacts \X Releases
    BY <2>1, <2>2 DEF RealTrees
  <2>3. DOMAIN tree = Places
    BY DEF Inv, TreesFollow, Shape
  <2>4. pc \in [Processes -> {"start", "select", "publish", "rename", "check", "begin", "copy",
                             "profile", "registry", "receipt", "verify", "swap", "place",
                             "aside", "drop", "inventory", "revocations", "members", "providers",
                             "entries", "receipts", "glance", "executable", "vouch", "pack", "payload", "done", "failed", "killed"}]
    BY DEF Inv, StepsTyped, Building, Steps, Looking
  <2>5. seen \in [Processes -> [release : Releases \cup {0}, registry : SUBSET (Places \X Packs),
                               listed : SUBSET Artifacts, todo : SUBSET Artifacts,
                               held : SUBSET Artifacts]]
    BY DEF Inv, StepsTyped, Looks
  <2> QED BY <2>2, <2>3, <2>4, <2>5 DEF Inv, StepsTyped, HadTyped, TypeOK
<1>2. ReceiptMeansWhole
  BY DEF Inv, TreesFollow, AllVouched, Vouched, ReceiptMeansWhole
<1>3. CommittedProviderIsWhole
  BY DEF Inv, TreesFollow, AllProvided, HasProvider, Stagings, CommittedProviderIsWhole
<1> QED BY <1>1, <1>2, <1>3 DEF TreesAreWhole

-----------------------------------------------------------------------------
(* An installed tree outlives the swaps. *)

\* There is a tree on disk that is not a staging directory; one at the target, or a
\* backup that its installer is not about to drop.
Present == \E place \in Committed : Exists(place)
Safe == Exists(Target) \/ \E r \in Processes : Exists(Backup(r)) /\ pc[r] # "drop"

\* The backup of p is there exactly from the time it moves a target aside.
BeforeSwap == (Building \ {"place"}) \cup {"start"}
BackupFollows(p) ==
    /\ pc[p] \in BeforeSwap => ~had[p]
    /\ pc[p] \in BeforeSwap \cup {"place"} /\ ~had[p] => ~Exists(Backup(p))
    /\ pc[p] = "place" /\ had[p] => Exists(Backup(p))

Outlives == (Present => Safe) /\ \A p \in Processes : BackupFollows(p)

\* A write below the root of a process: in its staging directory, or at the target,
\* whose core stays as it is.
Gentle(p) ==
    \/ UNCHANGED tree
    \/ \E t : tree' = [tree EXCEPT ![Staging(p)] = t]
    \/ \E u : /\ u # NoTree /\ (Exists(Target) => u.core = tree[Target].core)
              /\ tree' = [tree EXCEPT ![Target] = u]

LEMMA GentleWrite ==
    ASSUME Inv, NEW p \in Processes, pc[p] \in Building, NEW t \in RealTrees, t.core = Here(p).core,
           Becomes(p, t)
    PROVE  Gentle(p)
<1> DEFINE u == [t EXCEPT !.torn = t.torn \/ p \notin t.begun]
<1>1. u.core = t.core /\ u.begun = t.begun /\ (u.torn <=> t.torn \/ p \notin t.begun)
  BY DEF RealTrees
<1>2. tree' = [tree EXCEPT ![Root(p)] = u]
  BY DEF Becomes
<1>3. u # NoTree
  BY <1>1, TreeFacts
<1> HIDE DEF u
<1>4. CASE Root(p) = Staging(p)
  BY <1>2, <1>4 DEF Gentle
<1>5. CASE Root(p) = Target
  BY <1>1, <1>2, <1>3, <1>5 DEF Gentle, Here
<1> QED BY <1>4, <1>5 DEF Root

\* No step but those of the swap touches a backup, and none of them is a step to
\* or from the swap.
Mild(p) ==
    /\ UNCHANGED had /\ Gentle(p)
    /\ \E step : /\ Goes(p, step) /\ step \notin {"place", "drop"}
                 /\ step \in BeforeSwap => pc[p] \in BeforeSwap

LEMMA MildProvisions ==
    ASSUME Inv, NEW p \in Processes, ProvisionStep(p)
    PROVE  Mild(p)
<1>1. pc[p] \in Building /\ pc[p] \in BeforeSwap
  BY DEF ProvisionStep, At, Prepare, PrepareFails, Publish, PublishFails, Rename, RenameFails,
         Check, CheckFails, Begin, Copy, CopyFails, Profile, ProfileFails, Registry,
         RegistryFails, Receipt, ReceiptFails, Verify, VerifyFails, Building, BeforeSwap
<1>2. \E step : Goes(p, step) /\ step \notin {"place", "drop"}
  <2>1. CASE \/ Prepare(p) \/ Publish(p) \/ Rename(p) \/ Check(p)
             \/ Profile(p) \/ Registry(p) \/ Receipt(p)
    BY <2>1 DEF Prepare, Publish, Rename, Check, Profile, Registry, Receipt
  <2>2. CASE Begin(p) \/ Copy(p)
    BY <2>2 DEF Begin, Copy, AddPart
  <2>3. CASE Verify(p)
    BY <2>3 DEF Verify, GoesOn
  <2>4. CASE \/ PrepareFails(p) \/ PublishFails(p) \/ RenameFails(p) \/ CheckFails(p) \/ CopyFails(p)
             \/ ProfileFails(p) \/ RegistryFails(p) \/ ReceiptFails(p) \/ VerifyFails(p)
    <3>1. GivesUp(p)
      BY <2>4 DEF PrepareFails, PublishFails, RenameFails, CheckFails, CopyFails, ProfileFails,
                  RegistryFails, ReceiptFails, VerifyFails, Fails
    <3> QED BY <3>1 DEF GivesUp, GoesOn
  <2> QED BY <2>1, <2>2, <2>3, <2>4 DEF ProvisionStep
<1>3. UNCHANGED had
  BY DEF ProvisionStep, Prepare, PrepareFails, Publish, PublishFails, Rename, RenameFails,
         Check, CheckFails, Begin, Copy, AddPart, CopyFails, Profile, ProfileFails, Registry,
         RegistryFails, Receipt, ReceiptFails, Verify, VerifyFails, Fails
<1>4. Gentle(p)
  <2> DEFINE h == Here(p)
  <2>1. h \in RealTrees
    BY HereIsATree
  <2>2. CASE Check(p)
    <3> DEFINE t == [h EXCEPT !.manifest = Release[p], !.begun = h.begun \cup {p}]
    <3>1. Becomes(p, t)
      BY <2>2 DEF Check
    <3> HIDE DEF h
    <3>2. t \in RealTrees /\ t.core = h.core
      BY <2>1, ReleaseFacts DEF RealTrees
    <3> HIDE DEF t
    <3> QED BY <1>1, <3>1, <3>2, GentleWrite DEF h
  <2>3. CASE Profile(p) \/ (RegistryFails(p) /\ Role[p] # "installer")
    <3>1. PICK b \in BOOLEAN : Becomes(p, [h EXCEPT !.profile = b])
      BY <2>3 DEF Profile, RegistryFails
    <3> DEFINE t == [h EXCEPT !.profile = b]
    <3>2. Becomes(p, t)
      BY <3>1
    <3> HIDE DEF h
    <3>3. t \in RealTrees /\ t.core = h.core
      BY <2>1, ProfileWritten
    <3> HIDE DEF t
    <3> QED BY <1>1, <3>2, <3>3, GentleWrite DEF h
  <2>4. CASE Registry(p)
    <3> DEFINE S == {<<Root(p), Pack(p)>>}
               t == [h EXCEPT !.registry = S]
    <3>1. Becomes(p, t)
      BY <2>4 DEF Registry
    <3>2. S \in SUBSET (Places \X Packs)
      BY HereIsATree, ReleaseFacts DEF Pack, Inv, StepsTyped
    <3> HIDE DEF h, S
    <3>3. t \in RealTrees /\ t.core = h.core
      BY <2>1, <3>2, RegistryWritten
    <3> HIDE DEF t
    <3> QED BY <1>1, <3>1, <3>3, GentleWrite DEF h
  <2>5. CASE Receipt(p)
    <3> DEFINE S == h.receipts \cup {<<art[p], Release[p]>>}
               t == [h EXCEPT !.receipts = S]
    <3>1. Becomes(p, t)
      BY <2>5 DEF Receipt
    <3>2. S \in SUBSET (Artifacts \X Releases)
      <4>1. <<art[p], Release[p]>> \in Artifacts \X Releases
        BY ReleaseFacts DEF Inv, StepsTyped
      <4>2. h.receipts \in SUBSET (Artifacts \X Releases)
        BY <2>1 DEF RealTrees
      <4> QED BY <4>1, <4>2
    <3> HIDE DEF h, S
    <3>3. t \in RealTrees /\ t.core = h.core
      BY <2>1, <3>2, ReceiptWritten
    <3> HIDE DEF t
    <3> QED BY <1>1, <3>1, <3>3, GentleWrite DEF h
  <2>6. CASE Begin(p) \/ Copy(p)
    <3>1. PICK part \in Parts : Becomes(p, [h EXCEPT !.parts = h.parts \cup {<<Pack(p), part>>}])
      BY <2>6 DEF Begin, Copy, AddPart, Parts
    <3> DEFINE S == h.parts \cup {<<Pack(p), part>>}
               t == [h EXCEPT !.parts = S]
    <3>2. Becomes(p, t)
      BY <3>1
    <3>3. S \in SUBSET (Packs \X Parts)
      <4>1. Pack(p) \in Packs
        BY ReleaseFacts DEF Pack, Inv, StepsTyped
      <4>2. h.parts \in SUBSET (Packs \X Parts)
        BY <2>1 DEF RealTrees
      <4> QED BY <4>1, <4>2
    <3> HIDE DEF h, S
    <3>4. t \in RealTrees /\ t.core = h.core
      BY <2>1, <3>3 DEF RealTrees
    <3> HIDE DEF t
    <3> QED BY <1>1, <3>2, <3>4, GentleWrite DEF h
  <2>7. CASE Prepare(p) \/ Publish(p) \/ Rename(p) \/ Verify(p)
    BY <2>7 DEF Prepare, Publish, Rename, Verify, Gentle
  <2>8. CASE \/ PrepareFails(p) \/ PublishFails(p) \/ RenameFails(p) \/ CheckFails(p) \/ CopyFails(p)
             \/ ProfileFails(p) \/ ReceiptFails(p) \/ VerifyFails(p)
             \/ RegistryFails(p) /\ Role[p] = "installer"
    <3>1. Trapped(p)
      BY <2>8 DEF PrepareFails, PublishFails, RenameFails, CheckFails, CopyFails, ProfileFails,
                  RegistryFails, ReceiptFails, VerifyFails, Fails
    <3> QED BY <3>1 DEF Trapped, Gentle
  <2> QED BY <2>2, <2>3, <2>4, <2>5, <2>6, <2>7, <2>8 DEF ProvisionStep
<1> QED BY <1>1, <1>2, <1>3, <1>4 DEF Mild

LEMMA MildOthers ==
    ASSUME Inv, NEW p \in Processes,
           \/ Stage(p) \/ StageFails(p) \/ Called(p) \/ MoveAsideFails(p)
           \/ DoctorStep(p) \/ Killed(p)
    PROVE  Mild(p)
<1>1. CASE Stage(p)
  BY <1>1 DEF Stage, At, Mild, Gentle, BeforeSwap, Building
<1>2. CASE StageFails(p) \/ Called(p) \/ Killed(p)
  BY <1>2 DEF StageFails, Called, Killed, At, Mild, Gentle, BeforeSwap, Building
<1>3. CASE MoveAsideFails(p)
  BY <1>3 DEF MoveAsideFails, At, Mild, Gentle, BeforeSwap, Building
<1>4. CASE DoctorStep(p)
  <2>1. UNCHANGED <<tree, had>>
    BY <1>4 DEF DoctorStep, ReadManifest, ReadInventory, ReadRevocations, ReadMembers, ReadProviders,
                ReadEntries, ListReceipts, ReadReceipt, ReadExecutable, ReadReceiptAgain, ReadPack, ReadPayload, Reads
  <2>2. \E step \in Looking \cup {"done", "failed"} : Goes(p, step)
    BY <1>4 DEF DoctorStep, ReadManifest, ReadInventory, ReadRevocations, ReadMembers, ReadProviders,
                ReadEntries, ListReceipts, ReadReceipt, ReadExecutable, ReadReceiptAgain, ReadPack, ReadPayload, Reads, Looking
  <2> QED BY <2>1, <2>2 DEF Mild, Gentle, BeforeSwap, Building, Looking
<1> QED BY <1>1, <1>2, <1>3, <1>4

\* What a mild step leaves as it is.
LEMMA MildWrites ==
    ASSUME Inv, NEW p \in Processes, Mild(p)
    PROVE  /\ \A place \in Places \ Stagings : place # Target => tree'[place] = tree[place]
           /\ Exists(Target) => Exists(Target)' /\ tree'[Target].core = tree[Target].core
<1>1. tree \in [Places -> RealTrees \cup {NoTree}]
  BY DEF Inv, TreesFollow, Shape
<1>2. CASE UNCHANGED tree
  BY <1>2 DEF Exists
<1>3. CASE \E t : tree' = [tree EXCEPT ![Staging(p)] = t]
  BY <1>1, <1>3, PlacesApart DEF Exists
<1>4. CASE \E u : /\ u # NoTree /\ (Exists(Target) => u.core = tree[Target].core)
                  /\ tree' = [tree EXCEPT ![Target] = u]
  <2>1. PICK u : /\ u # NoTree /\ (Exists(Target) => u.core = tree[Target].core)
                 /\ tree' = [tree EXCEPT ![Target] = u]
    BY <1>4
  <2>2. tree'[Target] = u /\ \A place \in Places : place # Target => tree'[place] = tree[place]
    BY <1>1, <2>1, PlacesApart
  <2> QED BY <2>1, <2>2 DEF Exists
<1> QED BY <1>2, <1>3, <1>4 DEF Mild, Gentle

\* A mild step leaves every backup and takes no target away.
LEMMA MildStepsKeep ==
    ASSUME Inv, Outlives, NEW p \in Processes, Mild(p)
    PROVE  Outlives' /\ (Present => Safe')
<1>1. /\ \A place \in Places \ Stagings : place # Target => tree'[place] = tree[place]
      /\ Exists(Target) => Exists(Target)'
  BY MildWrites
<1>2. PICK step : /\ Goes(p, step) /\ step \notin {"place", "drop"}
                  /\ step \in BeforeSwap => pc[p] \in BeforeSwap
  BY DEF Mild
<1>3. pc'[p] = step /\ \A q \in Processes : q # p => pc'[q] = pc[q]
  BY <1>2 DEF Goes, Inv, StepsTyped
<1>5. \A r \in Processes : Exists(Backup(r))' <=> Exists(Backup(r))
  BY <1>1, PlacesApart DEF Exists
<1>6. \A q \in Processes : BackupFollows(q)'
  <2>1. ASSUME NEW q \in Processes PROVE BackupFollows(q)'
    <3>1. CASE q = p
      BY <1>2, <1>3, <1>5, <3>1 DEF Outlives, BackupFollows, Mild
    <3>2. CASE q # p
      BY <1>3, <1>5, <3>2 DEF Outlives, BackupFollows, Mild
    <3> QED BY <3>1, <3>2
  <2> QED BY <2>1
<1>7. Safe => Safe'
  <2>1. CASE Exists(Target)
    BY <1>1, <2>1 DEF Safe
  <2>2. ASSUME NEW r \in Processes, Exists(Backup(r)), pc[r] # "drop" PROVE Safe'
    <3>1. pc'[r] # "drop"
      BY <1>2, <1>3, <2>2
    <3> QED BY <1>5, <2>2, <3>1 DEF Safe
  <2> QED BY <2>1, <2>2 DEF Safe
<1>8. Present' => Present \/ Exists(Target)'
  BY <1>1 DEF Present, Committed, Exists, Stagings
<1> QED BY <1>6, <1>7, <1>8 DEF Outlives, Safe

\* A step that leaves the backups of the others alone, and ends p's installation.
LEMMA Settled ==
    ASSUME Inv, Outlives, NEW p \in Processes, NEW step \in {"drop", "done", "failed"},
           Goes(p, step), UNCHANGED had,
           \A q \in Processes : q # p => tree'[Backup(q)] = tree[Backup(q)]
    PROVE  /\ pc'[p] = step /\ \A q \in Processes : q # p => pc'[q] = pc[q]
           /\ \A q \in Processes : BackupFollows(q)'
<1>1. pc'[p] = step /\ \A q \in Processes : q # p => pc'[q] = pc[q]
  BY DEF Goes, Inv, StepsTyped
<1>2. ASSUME NEW q \in Processes PROVE BackupFollows(q)'
  <2>1. CASE q = p
    BY <1>1, <2>1 DEF BackupFollows, BeforeSwap, Building
  <2>2. CASE q # p
    BY <1>1, <2>2 DEF Outlives, BackupFollows, Exists
  <2> QED BY <2>1, <2>2
<1> QED BY <1>1, <1>2

\* Looking at the target changes nothing but what the installer does next.
LEMMA LookOutlives ==
    ASSUME Inv, Outlives, NEW p \in Processes, LookAtTarget(p)
    PROVE  Outlives' /\ (Present => Safe')
<1>1. UNCHANGED <<tree, had>> /\ pc[p] = "swap"
  BY DEF LookAtTarget, At
<1>2. pc'[p] \in {"aside", "place"} /\ \A q \in Processes : q # p => pc'[q] = pc[q]
  BY DEF LookAtTarget, Goes, Inv, StepsTyped
<1>3. ~had[p] /\ ~Exists(Backup(p))
  BY <1>1 DEF Outlives, BackupFollows, BeforeSwap, Building
<1>4. ASSUME NEW q \in Processes PROVE BackupFollows(q)'
  <2>1. CASE q = p
    BY <1>1, <1>2, <1>3, <2>1 DEF BackupFollows, Exists
  <2>2. CASE q # p
    BY <1>1, <1>2, <2>2 DEF Outlives, BackupFollows, Exists
  <2> QED BY <2>1, <2>2
<1>5. Safe => Safe'
  <2>1. ASSUME NEW r \in Processes, Exists(Backup(r)), pc[r] # "drop" PROVE Safe'
    <3>1. pc'[r] # "drop"
      BY <1>2, <2>1
    <3> QED BY <1>1, <2>1, <3>1 DEF Safe, Exists
  <2> QED BY <1>1, <2>1 DEF Safe, Exists
<1>6. Present' <=> Present
  BY <1>1 DEF Present, Exists
<1> QED BY <1>4, <1>5, <1>6 DEF Outlives

\* The target moved aside is a backup that its installer is not about to drop.
LEMMA MoveAsideOutlives ==
    ASSUME Inv, Outlives, NEW p \in Processes, MoveAside(p)
    PROVE  Outlives' /\ (Present => Safe')
<1> DEFINE u == [tree[Target] EXCEPT !.torn = tree[Target].torn \/ AtWork(tree[Target])]
<1>1. tree \in [Places -> RealTrees \cup {NoTree}] /\ had \in [Processes -> BOOLEAN]
  BY DEF Inv, TreesFollow, Shape, HadTyped
<1>2. pc[p] = "aside" /\ pc'[p] = "place" /\ \A q \in Processes : q # p => pc'[q] = pc[q]
  BY DEF MoveAside, At, Goes, Inv, StepsTyped
<1>3. ~had[p] /\ ~Exists(Backup(p))
  BY <1>2 DEF Outlives, BackupFollows, BeforeSwap, Building
<1>4. /\ tree' = [tree EXCEPT ![Backup(p)] = u, ![Target] = NoTree]
      /\ had' = [had EXCEPT ![p] = TRUE]
  BY DEF MoveAside
<1>5. u # NoTree
  <2>1. tree[Target] \in RealTrees /\ tree[Target] # NoTree
    BY <1>1, PlacesApart DEF MoveAside, Exists
  <2> DEFINE b == tree[Target].torn \/ AtWork(tree[Target])
  <2>2. b \in BOOLEAN /\ NoTree.torn = FALSE
    BY <2>1 DEF RealTrees, AtWork, NoTree, EmptyTree
  <2>3. CASE b
    <3>1. u.torn
      BY <2>1, <2>3 DEF RealTrees
    <3> QED BY <2>2, <3>1
  <2>4. CASE ~b
    <3>1. tree[Target].torn = FALSE
      BY <2>1, <2>4 DEF RealTrees
    <3>2. u = tree[Target]
      BY <2>1, <2>2, <2>4, <3>1 DEF RealTrees
    <3> QED BY <2>1, <3>2
  <2> QED BY <2>3, <2>4
<1> HIDE DEF u
<1>6. /\ tree'[Backup(p)] = u
      /\ \A q \in Processes : q # p => tree'[Backup(q)] = tree[Backup(q)]
  <2>1. \A q \in Processes : q # p => Backup(q) # Backup(p)
    BY DEF Backup
  <2> QED BY <1>1, <1>4, <2>1, PlacesApart
<1>7. Exists(Backup(p))'
  BY <1>5, <1>6 DEF Exists
<1>8. had'[p] /\ \A q \in Processes : q # p => had'[q] = had[q]
  BY <1>1, <1>4
<1>9. \A q \in Processes : BackupFollows(q)'
  <2>1. ASSUME NEW q \in Processes PROVE BackupFollows(q)'
    <3>1. CASE q = p
      BY <1>2, <1>7, <1>8, <3>1 DEF BackupFollows, BeforeSwap
    <3>2. CASE q # p
      BY <1>2, <1>6, <1>8, <3>2 DEF Outlives, BackupFollows, Exists
    <3> QED BY <3>1, <3>2
  <2> QED BY <2>1
<1> QED BY <1>2, <1>7, <1>9 DEF Outlives, Safe

\* After the move in there is a target, its own or one that came meanwhile.
LEMMA MoveInOutlives ==
    ASSUME Inv, Outlives, NEW p \in Processes, MoveIn(p)
    PROVE  Outlives' /\ (Present => Safe')
<1>1. tree \in [Places -> RealTrees \cup {NoTree}]
  BY DEF Inv, TreesFollow, Shape
<1>2. PICK step \in {"drop", "done"} : Goes(p, step)
  BY DEF MoveIn
<1>3. Role[p] = "installer" /\ pc[p] \in Building
  BY DEF MoveIn, At, Inv, RoleSteps, Building
<1>4. tree[Staging(p)] # NoTree
  <2>1. tree[Staging(p)].manifest = Release[p]
    BY <1>3, HereIsStaged DEF Fits
  <2> QED BY <2>1, ReleaseFacts, TreeFacts
<1>5. PICK moved : /\ tree' = [tree EXCEPT ![Staging(p)] = NoTree, ![Target] = moved]
                   /\ moved # NoTree
  <2>1. CASE Exists(Target)
    BY <1>1, <2>1, PlacesApart DEF MoveIn, Exists
  <2>2. CASE ~Exists(Target)
    BY <1>4, <2>2 DEF MoveIn
  <2> QED BY <2>1, <2>2
<1>6. tree'[Target] = moved /\ \A q \in Processes : tree'[Backup(q)] = tree[Backup(q)]
  BY <1>1, <1>5, PlacesApart
<1>7. Exists(Target)'
  BY <1>5, <1>6 DEF Exists
<1>8. \A q \in Processes : BackupFollows(q)'
  BY <1>2, <1>6, Settled DEF MoveIn
<1> QED BY <1>7, <1>8 DEF Outlives, Safe

\* A move in that fails puts back what p moved aside, leaves it a backup, or finds a
\* target that came meanwhile; p has no backup unless it moved a target aside.
LEMMA MoveInFailsOutlives ==
    ASSUME Inv, Outlives, NEW p \in Processes, MoveInFails(p)
    PROVE  Outlives' /\ (Present => Safe')
<1>1. tree \in [Places -> RealTrees \cup {NoTree}]
  BY DEF Inv, TreesFollow, Shape
<1>2. Goes(p, "failed") /\ UNCHANGED had /\ pc[p] = "place"
  BY DEF MoveInFails, At
<1>3. (had[p] => Exists(Backup(p))) /\ (~had[p] => ~Exists(Backup(p)))
  BY <1>2 DEF Outlives, BackupFollows
<1>4. CASE tree' = [tree EXCEPT ![Staging(p)] = NoTree]
  <2>1. \A place \in Places \ Stagings : tree'[place] = tree[place]
    BY <1>1, <1>4, PlacesApart
  <2>2. \A q \in Processes : tree'[Backup(q)] = tree[Backup(q)]
    BY <2>1, PlacesApart
  <2>3. /\ pc'[p] = "failed" /\ \A q \in Processes : q # p => pc'[q] = pc[q]
        /\ \A q \in Processes : BackupFollows(q)'
    BY <1>2, <2>2, Settled
  <2>4. Safe => Safe'
    BY <2>1, <2>2, <2>3, PlacesApart DEF Safe, Exists
  <2>5. Present' => Present
    BY <2>1 DEF Present, Committed, Exists, Stagings
  <2> QED BY <2>3, <2>4, <2>5 DEF Outlives
<1>5. CASE tree' = [tree EXCEPT ![Staging(p)] = NoTree, ![Backup(p)] = NoTree,
                      ![Target] = IF had[p] /\ ~Exists(Target) THEN tree[Backup(p)] ELSE @]
  <2> DEFINE back == IF had[p] /\ ~Exists(Target) THEN tree[Backup(p)] ELSE tree[Target]
  <2>1. tree' = [tree EXCEPT ![Staging(p)] = NoTree, ![Backup(p)] = NoTree, ![Target] = back]
    BY <1>1, <1>5, PlacesApart
  <2> HIDE DEF back
  <2>2. /\ tree'[Target] = back /\ tree'[Backup(p)] = NoTree
        /\ \A place \in Places \ Stagings :
              place \notin {Target, Backup(p)} => tree'[place] = tree[place]
    BY <1>1, <2>1, PlacesApart
  <2>3. \A q \in Processes : q # p => tree'[Backup(q)] = tree[Backup(q)]
    <3>1. \A q \in Processes : q # p => Backup(q) # Backup(p)
      BY DEF Backup
    <3> QED BY <2>2, <3>1, PlacesApart
  <2>4. /\ pc'[p] = "failed" /\ \A q \in Processes : q # p => pc'[q] = pc[q]
        /\ \A q \in Processes : BackupFollows(q)'
    BY <1>2, <2>3, Settled
  <2>5. Exists(Target) \/ had[p] => Exists(Target)'
    BY <1>3, <2>2 DEF Exists, back
  <2>6. Safe => Safe'
    <3>1. CASE Exists(Target) \/ had[p]
      BY <2>5, <3>1 DEF Safe
    <3>2. CASE ~Exists(Target) /\ ~had[p]
      <4>1. ASSUME NEW r \in Processes, Exists(Backup(r)), pc[r] # "drop" PROVE Safe'
        <5>1. r # p
          BY <1>3, <3>2, <4>1
        <5> QED BY <2>3, <2>4, <4>1, <5>1 DEF Safe, Exists
      <4> QED BY <3>2, <4>1 DEF Safe
    <3> QED BY <3>1, <3>2
  <2>7. Present' => Present
    <3>1. ASSUME NEW place \in Places \ Stagings, tree'[place] # NoTree
          PROVE  \E other \in Places \ Stagings : tree[other] # NoTree
      <4>1. place # Backup(p)
        BY <2>2, <3>1
      <4>2. CASE place = Target
        BY <2>2, <3>1, <4>2, PlacesApart DEF back
      <4>3. CASE place # Target
        BY <2>2, <3>1, <4>1, <4>3
      <4> QED BY <4>2, <4>3
    <3> QED BY <3>1 DEF Present, Committed, Exists, Stagings
  <2> QED BY <2>4, <2>6, <2>7 DEF Outlives
<1> QED BY <1>4, <1>5 DEF MoveInFails

\* The backup that is dropped is not the one that is safe.
LEMMA DropBackupOutlives ==
    ASSUME Inv, Outlives, NEW p \in Processes, DropBackup(p)
    PROVE  Outlives' /\ (Present => Safe')
<1>1. tree \in [Places -> RealTrees \cup {NoTree}]
  BY DEF Inv, TreesFollow, Shape
<1>2. Goes(p, "done") /\ UNCHANGED had /\ pc[p] = "drop"
  BY DEF DropBackup, At
<1>3. PICK left \in {NoTree, tree[Backup(p)]} : tree' = [tree EXCEPT ![Backup(p)] = left]
  BY DEF DropBackup
<1>4. /\ tree'[Backup(p)] = left
      /\ \A place \in Places : place # Backup(p) => tree'[place] = tree[place]
  BY <1>1, <1>3, PlacesApart
<1>5. \A q \in Processes : q # p => tree'[Backup(q)] = tree[Backup(q)]
  <2>1. \A q \in Processes : q # p => Backup(q) # Backup(p)
    BY DEF Backup
  <2> QED BY <1>4, <2>1, PlacesApart
<1>6. /\ pc'[p] = "done" /\ \A q \in Processes : q # p => pc'[q] = pc[q]
      /\ \A q \in Processes : BackupFollows(q)'
  BY <1>2, <1>5, Settled
<1>7. Safe => Safe'
  <2>1. CASE Exists(Target)
    BY <1>4, <2>1, PlacesApart DEF Safe, Exists
  <2>2. ASSUME NEW r \in Processes, Exists(Backup(r)), pc[r] # "drop" PROVE Safe'
    <3>1. r # p
      BY <1>2, <2>2
    <3> QED BY <1>5, <1>6, <2>2, <3>1 DEF Safe, Exists
  <2> QED BY <2>1, <2>2 DEF Safe
<1>8. Present' => Present
  BY <1>3, <1>4, PlacesApart DEF Present, Committed, Exists, Stagings
<1> QED BY <1>6, <1>7, <1>8 DEF Outlives

LEMMA StepOutlives ==
    ASSUME Inv, Outlives, [Next]_vars
    PROVE  Outlives' /\ (Present => Safe')
<1>1. CASE UNCHANGED vars \/ Ended \/ \E k \in Damageable : Damage(k)
  <2>1. UNCHANGED <<tree, pc, had>>
    BY <1>1 DEF Ended, vars, Damage
  <2>2. \A q \in Processes : BackupFollows(q)'
    BY <2>1 DEF Outlives, BackupFollows, Exists
  <2>3. (Safe' <=> Safe) /\ (Present' <=> Present)
    BY <2>1 DEF Safe, Present, Exists
  <2> QED BY <2>2, <2>3 DEF Outlives
<1>2. ASSUME NEW p \in Processes,
             \/ ProvisionStep(p) \/ DoctorStep(p) \/ Killed(p)
             \/ Stage(p) \/ StageFails(p) \/ Called(p) \/ MoveAsideFails(p)
      PROVE  Outlives' /\ (Present => Safe')
  BY <1>2, MildProvisions, MildOthers, MildStepsKeep
<1>3. ASSUME NEW p \in Processes,
             LookAtTarget(p) \/ MoveAside(p) \/ MoveIn(p) \/ MoveInFails(p) \/ DropBackup(p)
      PROVE  Outlives' /\ (Present => Safe')
  BY <1>3, LookOutlives, MoveAsideOutlives, MoveInOutlives, MoveInFailsOutlives, DropBackupOutlives
<1> QED BY <1>1, <1>2, <1>3 DEF Next, InstallStep

\* The target is the only tree when the installers start.
LEMMA InitOutlives == Init => Outlives
<1> SUFFICES ASSUME Init PROVE Outlives
  OBVIOUS
<1>1. \A place \in Places : Exists(place) => place = Target
  BY DEF Init, Exists
<1>2. ASSUME NEW p \in Processes PROVE ~had[p] /\ ~Exists(Backup(p))
  BY <1>1, PlacesApart DEF Init
<1> QED BY <1>1, <1>2, PlacesApart DEF Outlives, Present, Committed, Safe, BackupFollows

\* The steps of the swap put no tree without a core at the target or in a backup,
\* unless one is there.
LEMMA SwapsMakeNoStub ==
    ASSUME Inv, ~Stub, NEW p \in Processes,
           LookAtTarget(p) \/ MoveAside(p) \/ MoveIn(p) \/ MoveInFails(p) \/ DropBackup(p)
    PROVE  ~Stub'
<1>1. tree \in [Places -> RealTrees \cup {NoTree}]
  BY DEF Inv, TreesFollow, Shape
<1>2. \A place \in Committed : tree[place] # NoTree => tree[place].core # 0
  BY DEF Stub, Exists
<1>3. Target \in Committed /\ Backup(p) \in Committed /\ Committed \subseteq Places
  BY PlacesApart DEF Committed, Stagings
<1>4. \A place \in Committed : place # Staging(p)
  BY DEF Committed
<1>5. ASSUME NEW place \in Committed, tree'[place] # NoTree PROVE tree'[place].core # 0
  <2>1. CASE LookAtTarget(p)
    BY <1>2, <1>5, <2>1 DEF LookAtTarget
  <2>2. CASE MoveAside(p)
    <3>1. /\ tree' = [tree EXCEPT ![Backup(p)] = [tree[Target] EXCEPT !.torn = tree[Target].torn \/ AtWork(tree[Target])],
                                  ![Target] = NoTree]
          /\ tree[Target] # NoTree
      BY <2>2 DEF MoveAside, Exists
    <3>2. [tree[Target] EXCEPT !.torn = tree[Target].torn \/ AtWork(tree[Target])].core = tree[Target].core
      BY <1>1, <1>3, <3>1 DEF RealTrees
    <3>3. CASE place = Backup(p)
      BY <1>1, <1>2, <1>3, <3>1, <3>2, <3>3, PlacesApart
    <3>4. CASE place # Backup(p)
      BY <1>1, <1>2, <1>3, <1>5, <3>1, <3>4
    <3> QED BY <3>3, <3>4
  <2>3. CASE MoveIn(p)
    <3>1. tree[Staging(p)].core # 0
      <4>1. Role[p] = "installer" /\ pc[p] \in Building
        BY <2>3 DEF MoveIn, At, Inv, RoleSteps, Building
      <4>2. tree[Staging(p)].core = Release[p]
        BY <4>1, HereIsStaged DEF Fits
      <4> QED BY <4>2, ReleaseFacts
    <3>2. PICK moved : /\ moved \in {tree[Target], tree[Staging(p)]} /\ (moved = tree[Target] => moved # NoTree \/ moved = tree[Staging(p)])
                       /\ tree' = [tree EXCEPT ![Staging(p)] = NoTree, ![Target] = moved]
      BY <1>1, <2>3, PlacesApart DEF MoveIn, Exists
    <3>3. moved.core # 0
      BY <1>2, <1>3, <3>1, <3>2
    <3> QED BY <1>1, <1>2, <1>3, <1>4, <1>5, <3>2, <3>3, PlacesApart
  <2>4. CASE MoveInFails(p)
    <3>1. tree'[place] \in {tree[place], NoTree} \/ (place = Target /\ tree'[place] = tree[Backup(p)])
      BY <1>1, <1>3, <1>4, <2>4, PlacesApart DEF MoveInFails
    <3> QED BY <1>2, <1>3, <1>5, <3>1
  <2>5. CASE DropBackup(p)
    <3>1. PICK left \in {NoTree, tree[Backup(p)]} : tree' = [tree EXCEPT ![Backup(p)] = left]
      BY <2>5 DEF DropBackup
    <3> QED BY <1>1, <1>2, <1>3, <1>5, <3>1
  <2> QED BY <2>1, <2>2, <2>3, <2>4, <2>5
<1> QED BY <1>5 DEF Stub, Exists

\* Where every tree has its core, a step leaves one that has: the one that is safe
\* when a directory is made at a target that is away, and any other otherwise.
LEMMA StepServes ==
    ASSUME Inv, Outlives, [Next]_vars, Served, ~Stub
    PROVE  Served'
<1>1. Present /\ Safe /\ Safe'
  <2>1. Present
    BY DEF Served, Present
  <2> QED BY <2>1, StepOutlives DEF Outlives
<1>2. \A r \in Processes : Target \in Committed /\ Backup(r) \in Committed
  BY PlacesApart DEF Committed, Stagings
<1>3. CASE ~Stub'
  <2>1. \E place \in Committed : Exists(place)'
    BY <1>1, <1>2, PlacesApart DEF Safe, Committed, Stagings
  <2> QED BY <1>3, <2>1 DEF Stub, Served
<1>4. CASE UNCHANGED vars \/ Ended \/ \E k \in Damageable : Damage(k)
  <2>1. UNCHANGED tree
    BY <1>4 DEF Ended, vars, Damage
  <2> QED BY <2>1 DEF Served, Exists
<1>5. ASSUME NEW p \in Processes, Mild(p) PROVE Served'
  <2>1. /\ \A place \in Places \ Stagings : place # Target => tree'[place] = tree[place]
        /\ Exists(Target) => Exists(Target)' /\ tree'[Target].core = tree[Target].core
    BY <1>5, MildWrites
  <2>2. CASE Exists(Target)
    <3>1. tree[Target].core # 0
      BY <2>2, PlacesApart DEF Stub, Committed, Stagings
    <3> QED BY <2>1, <2>2, <3>1, PlacesApart DEF Served, Committed, Stagings
  <2>3. CASE ~Exists(Target)
    <3>1. PICK r \in Processes : Exists(Backup(r))
      BY <1>1, <2>3 DEF Safe
    <3>2. tree[Backup(r)].core # 0 /\ Backup(r) \in Places \ Stagings /\ Backup(r) # Target
      BY <3>1, PlacesApart DEF Stub, Committed, Stagings
    <3>3. tree'[Backup(r)] = tree[Backup(r)]
      BY <2>1, <3>2
    <3> QED BY <3>1, <3>2, <3>3 DEF Served, Committed, Stagings, Exists
  <2> QED BY <2>2, <2>3
<1>6. ASSUME NEW p \in Processes,
             \/ ProvisionStep(p) \/ DoctorStep(p) \/ Killed(p)
             \/ Stage(p) \/ StageFails(p) \/ Called(p) \/ MoveAsideFails(p)
      PROVE  Served'
  BY <1>5, <1>6, MildProvisions, MildOthers
<1>7. ASSUME NEW p \in Processes,
             LookAtTarget(p) \/ MoveAside(p) \/ MoveIn(p) \/ MoveInFails(p) \/ DropBackup(p)
      PROVE  Served'
  BY <1>3, <1>7, SwapsMakeNoStub
<1> QED BY <1>4, <1>6, <1>7 DEF Next, InstallStep

-----------------------------------------------------------------------------
(* Whatever is killed, fails or swaps, for any number of installers and          *)
(* provisioners: every variable has its type, no tree that is not torn holds the *)
(* receipt of a pack that is not there whole, and a tree staged with the         *)
(* required provider is only moved in place, or aside, with the provider in it.  *)
THEOREM InstalledTreesAreWhole == Spec => []TreesAreWhole
<1>1. Spec => []Inv
  BY InitInv, StepInv, PTL DEF Spec
<1> QED BY <1>1, InvMeansWhole, PTL

(* Every artifact that a doctor passes stood whole in one tree, of the release of   *)
(* the manifest it had read, when its receipt was accepted, although the target may *)
(* have been swapped between any two of the files it opens.  A receipt in a tree    *)
(* that is not torn is of that tree's manifest and core and has its pack beside it, *)
(* whichever trees the doctor's other looks fell into.                              *)
THEOREM DoctorVouches == Spec => []DoctorVouchesForOneTree
<1>1. Spec => []Inv
  BY InitInv, StepInv, PTL DEF Spec
<1>2. Inv => DoctorVouchesForOneTree
  BY DEF Inv, SeenHeld, DoctorVouchesForOneTree, At
<1> QED BY <1>1, <1>2, PTL

(* As long as no provisioner has made a directory at a target that was away, an      *)
(* installed tree stays on disk, whoever swaps, fails or is killed.  That a tree is   *)
(* served says too little to be kept by the steps: the last one could be the backup   *)
(* an installer is about to drop.  Outlives says there is then another, and that an   *)
(* installer has a backup exactly when it moved a target.                             *)
THEOREM InstalledTreeOutlives == Spec => InstalledOutlives
<1>1. Spec => [](Inv /\ Outlives)
  <2>1. Init => Inv /\ Outlives
    BY InitInv, InitOutlives
  <2>2. Inv /\ Outlives /\ [Next]_vars => (Inv /\ Outlives)'
    BY StepInv, StepOutlives
  <2> QED BY <2>1, <2>2, PTL DEF Spec
<1>2. Inv /\ Outlives /\ [Next]_vars => [Served /\ ~Stub => Served']_vars
  BY StepServes
<1> QED BY <1>1, <1>2, PTL DEF Spec, InstalledOutlives

=============================================================================
