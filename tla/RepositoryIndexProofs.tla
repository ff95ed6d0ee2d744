------------------------ MODULE RepositoryIndexProofs ------------------------
(***************************************************************************)
(* The two halves of the repository index.                                 *)
(*                                                                         *)
(* Its store: what FileFactsBuild guarantees for any number of runs,       *)
(* files, manifests and budgets: its types, that objects are immutable,    *)
(* that the drift of a run removes its own objects and no others, that     *)
(* each answer is as complete as the facts stored while it was made, and   *)
(* that no run cuts facts short within its budget.                         *)
(*                                                                         *)
(* Its query: what GraphOverlay guarantees for any graphs, candidates and  *)
(* budgets: an answer misses no call of the candidate, shows none that is  *)
(* gone, and declares what its limits leave out.                           *)
(***************************************************************************)
EXTENDS FileFactsHistory, GraphOverlay, SequenceFolds, FiniteSetTheorems, TLAPS

-----------------------------------------------------------------------------
(* Types *)

\* The types of what taking the facts of a file changes; the run goes on with
\* the next file only if there is one.
Taken(b) ==
  /\ todo' \in [Builders -> Seq(Keys)]
  /\ output' \in [Builders -> Seq(Keys \X Facts)]
  /\ why' \in [Builders -> {"use", "publish", "compare"}]
  /\ \A c \in Builders \ {b} : todo'[c] = todo[c]
  /\ pc' \in [Builders -> {"idle"} \cup Steps \cup Ends]
  /\ \A c \in Builders \ {b} : pc'[c] = pc[c]
  /\ pc'[b] \in {"inspect", "resolve", "removing"}
  /\ pc'[b] = "inspect" => todo'[b] # <<>>

\* Taking facts for the current file keeps the types of what it changes.
LEMMA TakeKeepsTypes ==
  ASSUME TypeOK, NEW b \in Builders, todo[b] # <<>>,
         NEW f \in Facts, Take(b, f),
         \E s \in AfterScopeCheck(NextFile(b)) : pc' = [pc EXCEPT ![b] = s]
  PROVE  Taken(b)
<1>1. todo[b] \in Seq(Keys) /\ output[b] \in Seq(Keys \X Facts)
  BY DEF TypeOK
<1>2. Head(todo[b]) \in Keys /\ Tail(todo[b]) \in Seq(Keys)
  BY <1>1
<1>3. Append(output[b], <<Head(todo[b]), f>>) \in Seq(Keys \X Facts)
  BY <1>1, <1>2
<1>4. Len(todo[b]) # 1 => Tail(todo[b]) # <<>>
  <2>1. Len(todo[b]) \in Nat \ {0}
    BY <1>1
  <2>2. Len(Tail(todo[b])) = Len(todo[b]) - 1
    BY <1>1, <2>1
  <2>3. Len(todo[b]) # 1 => Len(Tail(todo[b])) # 0
    BY <2>1, <2>2
  <2>4. Len(<<>>) = 0
    OBVIOUS
  <2> QED BY <2>3, <2>4, Zenon
<1>5. PICK s \in AfterScopeCheck(NextFile(b)) : pc' = [pc EXCEPT ![b] = s]
  OBVIOUS
<1>6. /\ todo' \in [Builders -> Seq(Keys)]
      /\ output' \in [Builders -> Seq(Keys \X Facts)]
      /\ why' \in [Builders -> {"use", "publish", "compare"}]
      /\ \A c \in Builders \ {b} : todo'[c] = todo[c]
      /\ todo'[b] = Tail(todo[b])
  BY <1>2, <1>3 DEF Take, TypeOK
<1>7. /\ s \in {"inspect", "resolve", "removing"}
      /\ s = "inspect" => Len(todo[b]) # 1
  BY <1>5 DEF AfterScopeCheck, NextFile
<1>8. /\ pc' \in [Builders -> {"idle"} \cup Steps \cup Ends]
      /\ \A c \in Builders \ {b} : pc'[c] = pc[c]
      /\ pc'[b] = s
  BY <1>5, <1>7 DEF TypeOK, Steps, FileSteps
<1> QED BY <1>4, <1>6, <1>7, <1>8 DEF Taken

\* A parse charges no more than what is left.
LEMMA ParseTypes ==
  ASSUME TypeOK, NEW b \in Builders, NEW k \in Keys
  PROVE  /\ FactsWithin(k, Left(b)) \in Facts
         /\ spent[b] + Consumed(k, Left(b)) \in Nat
         /\ spent[b] + Consumed(k, Left(b)) <= limit[b]
<1>1. /\ limit[b] \in Nat /\ spent[b] \in Nat /\ spent[b] <= limit[b]
      /\ Cost[k] \in {1, 2}
  BY CostAssumption DEF TypeOK
<1> QED BY <1>1 DEF FactsWithin, Consumed, Left, Facts

\* Initially every variable has its type.
LEMMA InitTypes == Init => TypeOK
<1> SUFFICES ASSUME Init PROVE TypeOK
  OBVIOUS
<1>1. /\ <<>> \in Seq(Keys) /\ <<>> \in Seq(Keys \X Facts)
  OBVIOUS
<1> QED BY <1>1 DEF Init, TypeOK, Facts, FileSteps

\* Every step keeps the types.
LEMMA NextTypes == TypeOK /\ [Next]_vars => TypeOK'
<1> SUFFICES ASSUME TypeOK, [Next]_vars PROVE TypeOK'
  OBVIOUS
<1> USE DEF TypeOK, Steps, FileSteps, Ends, AfterScopeCheck
<1>1. CASE UNCHANGED vars
  BY <1>1 DEF vars, runVars
<1>2. CASE MediumNext
  BY <1>2 DEF MediumNext, DamageFacts, runVars
<1>3. ASSUME NEW b \in Builders, Analyze(b) PROVE TypeOK'
  <2>1. PICK m \in Manifests, n \in Limits :
          /\ todo' = [todo EXCEPT ![b] = m]
          /\ limit' = [limit EXCEPT ![b] = n]
    BY <1>3 DEF Analyze
  <2>2. m \in Seq(Keys) /\ m # <<>> /\ n \in Nat
    BY ManifestAssumption, LimitAssumption
  <2> QED BY <1>3, <2>1, <2>2 DEF Analyze
<1>4. ASSUME NEW b \in Builders,
             InspectMisses(b) \/ InspectFinds(b) \/ OpenVanished(b)
      PROVE  TypeOK'
  BY <1>4 DEF InspectMisses, InspectFinds, OpenVanished
<1>5. ASSUME NEW b \in Builders, UseStored(b) PROVE TypeOK'
  <2>1. PICK f \in Facts : Take(b, f)
    BY <1>5 DEF UseStored
  <2>2. Taken(b)
    BY <1>5, <2>1, TakeKeepsTypes DEF UseStored
  <2>3. UNCHANGED <<object, limit, spent, fact, tracked, own, answer>>
    BY <1>5 DEF UseStored
  <2> QED BY <2>2, <2>3 DEF Taken
<1>6. ASSUME NEW b \in Builders, UseDamaged(b) \/ Conflict(b) PROVE TypeOK'
  BY <1>6 DEF UseDamaged, Conflict
<1>7. ASSUME NEW b \in Builders, ReuseEqual(b) PROVE TypeOK'
  <2>1. Take(b, fact[b]) /\ fact[b] \in Facts /\ todo[b] # <<>>
    BY <1>7 DEF ReuseEqual
  <2>2. Taken(b)
    BY <1>7, <2>1, TakeKeepsTypes DEF ReuseEqual
  <2> QED BY <1>7, <2>2 DEF ReuseEqual, Taken
<1>8. ASSUME NEW b \in Builders, ParseFacts(b) PROVE TypeOK'
  <2>1. Head(todo[b]) \in Keys
    BY <1>8 DEF ParseFacts
  <2> QED BY <1>8, <2>1, ParseTypes DEF ParseFacts
<1>9. ASSUME NEW b \in Builders, ParseWithoutPublish(b) PROVE TypeOK'
  <2> DEFINE f == FactsWithin(Head(todo[b]), Left(b))
  <2>1. todo[b] # <<>> /\ Head(todo[b]) \in Keys
    BY <1>9 DEF ParseWithoutPublish
  <2>2. f \in Facts /\ Take(b, f)
    BY <1>9, <2>1, ParseTypes DEF ParseWithoutPublish
  <2>3. Taken(b)
    BY <1>9, <2>1, <2>2, TakeKeepsTypes DEF ParseWithoutPublish
  <2>4. /\ spent' \in [Builders -> Nat]
        /\ \A c \in Builders \ {b} : spent'[c] = spent[c]
        /\ spent'[b] <= limit[b]
        /\ fact' \in [Builders -> Facts]
    BY <1>9, <2>1, ParseTypes DEF ParseWithoutPublish
  <2>5. UNCHANGED <<object, limit, tracked, own, answer>>
    BY <1>9 DEF ParseWithoutPublish
  <2>6. \A c \in Builders :
          /\ spent'[c] <= limit'[c]
          /\ pc'[c] = "idle" => spent'[c] = 0
          /\ pc'[c] \in FileSteps => todo'[c] # <<>>
    <3>1. pc'[b] # "idle" /\ (pc'[b] \in FileSteps => todo'[b] # <<>>)
      BY <2>3 DEF Taken
    <3> QED BY <2>3, <2>4, <2>5, <3>1 DEF Taken
  <2> HIDE DEF f
  <2> QED BY <2>3, <2>4, <2>5, <2>6 DEF Taken
<1>10. ASSUME NEW b \in Builders, LinkFacts(b) PROVE TypeOK'
  <2>1. Take(b, fact[b]) /\ fact[b] \in Facts /\ todo[b] # <<>>
    BY <1>10 DEF LinkFacts
  <2>2. Head(todo[b]) \in Keys
    BY <2>1
  <2>3. tracked' \in [Builders -> Seq(Keys)]
    BY <1>10, <2>2 DEF LinkFacts
  <2>4. Taken(b)
    BY <1>10, <2>1, TakeKeepsTypes DEF LinkFacts
  <2> QED BY <1>10, <2>1, <2>2, <2>3, <2>4 DEF LinkFacts, Taken
<1>11. ASSUME NEW b \in Builders, LinkUnsynced(b) PROVE TypeOK'
  <2>1. Head(todo[b]) \in Keys
    BY <1>11 DEF LinkUnsynced
  <2> QED BY <1>11, <2>1 DEF LinkUnsynced
<1>12. ASSUME NEW b \in Builders, LinkTaken(b) PROVE TypeOK'
  BY <1>12 DEF LinkTaken
<1>13. ASSUME NEW b \in Builders, ResolveGraph(b) PROVE TypeOK'
  BY <1>13 DEF ResolveGraph, Completeness
<1>14. ASSUME NEW b \in Builders,
              RunFails(b) \/ ReportDrift(b) \/ RemovalFails(b)
       PROVE  TypeOK'
  BY <1>14 DEF RunFails, ReportDrift, RemovalFails
<1>15. ASSUME NEW b \in Builders, RemoveTracked(b) PROVE TypeOK'
  <2>1. tracked[b] \in Seq(Keys) /\ tracked[b] # <<>>
    BY <1>15 DEF RemoveTracked
  <2>2. SubSeq(tracked[b], 1, Len(tracked[b]) - 1) \in Seq(Keys)
    BY <2>1
  <2> QED BY <1>15, <2>2 DEF RemoveTracked
<1>16. ASSUME NEW b \in Builders, EndRun(b) \/ CrashBuilder(b) PROVE TypeOK'
  <2>1. Leave(b) /\ UNCHANGED object
    BY <1>16 DEF EndRun, CrashBuilder
  <2>2. /\ <<>> \in Seq(Keys) /\ <<>> \in Seq(Keys \X Facts)
    OBVIOUS
  <2> QED BY <2>1, <2>2 DEF Leave, Facts
<1> QED BY <1>1, <1>2, <1>3, <1>4, <1>5, <1>6, <1>7, <1>8, <1>9, <1>10, <1>11,
           <1>12, <1>13, <1>14, <1>15, <1>16 DEF Next, BuilderNext, BuilderStep

\* Every variable keeps its type, and no run spends more than its budget.
THEOREM FactsTypeCorrect == Spec => []TypeOK
  BY InitTypes, NextTypes, PTL DEF Spec

-----------------------------------------------------------------------------
(* Who owns what *)

\* An object a run published is still there, was published by that run alone,
\* and each path it tracks is one of its own, listed once.
Ownership ==
  /\ \A b \in Builders : \A k \in own[b] : object[k] # Absent
  /\ \A b, c \in Builders : b # c => own[b] \cap own[c] = {}
  /\ \A b \in Builders :
       \A i \in 1 .. Len(tracked[b]) :
         /\ tracked[b][i] \in own[b]
         /\ \A j \in 1 .. Len(tracked[b]) : tracked[b][i] = tracked[b][j] => i = j

\* What a run published is tracked until an error ends it, and a run reports
\* drift with nothing left to take back.
Accounted ==
  \A b \in Builders :
    /\ pc[b] \in {"idle", "drift"} \cup Steps =>
         \A k \in own[b] : \E i \in 1 .. Len(tracked[b]) : tracked[b][i] = k
    /\ pc[b] = "drift" => Len(tracked[b]) = 0

\* The actions that leave objects, owners and lists alone.
Bystander ==
  /\ \A k \in Keys : object[k] # Absent => object'[k] # Absent
  /\ UNCHANGED <<own, tracked>>

\* A run that links has found its key absent: the key has no owner yet, and
\* the path comes last in the list of the run.
LEMMA LinkKeepsOwnership ==
  ASSUME TypeOK, Ownership, NEW b \in Builders, todo[b] # <<>>,
         object[Head(todo[b])] = Absent,
         object' = [object EXCEPT ![Head(todo[b])] = fact[b]],
         own' = [own EXCEPT ![b] = @ \cup {Head(todo[b])}],
         \/ UNCHANGED tracked
         \/ tracked' = [tracked EXCEPT ![b] = Append(@, Head(todo[b]))]
  PROVE  Ownership'
<1> DEFINE k == Head(todo[b])
<1>1. k \in Keys /\ fact[b] # Absent
  <2>1. todo[b] \in Seq(Keys) /\ fact[b] \in Facts
    BY DEF TypeOK
  <2> QED BY <2>1 DEF Facts, Absent
<1>2. \A c \in Builders : k \notin own[c]
  BY <1>1 DEF Ownership
<1>3. \A c \in Builders : own'[c] = IF c = b THEN own[c] \cup {k} ELSE own[c]
  BY DEF TypeOK
<1>4. \A j \in Keys : object'[j] = IF j = k THEN fact[b] ELSE object[j]
  BY <1>1 DEF TypeOK
<1>5. \A c \in Builders : own[c] \subseteq Keys
  BY DEF TypeOK
<1>6. \A c \in Builders : \A j \in own'[c] : object'[j] # Absent
  BY <1>1, <1>3, <1>4, <1>5 DEF Ownership
<1>7. \A c, d \in Builders : c # d => own'[c] \cap own'[d] = {}
  BY <1>2, <1>3 DEF Ownership
<1>8. ASSUME NEW c \in Builders, NEW i \in 1 .. Len(tracked'[c])
      PROVE  /\ tracked'[c][i] \in own'[c]
             /\ \A j \in 1 .. Len(tracked'[c]) :
                  tracked'[c][i] = tracked'[c][j] => i = j
  <2>1. CASE tracked'[c] = tracked[c]
    BY <1>3, <2>1 DEF Ownership
  <2>2. CASE c = b /\ tracked'[c] = Append(tracked[c], k)
    <3>1. tracked[c] \in Seq(Keys)
      BY DEF TypeOK
    <3>2. /\ Len(tracked'[c]) = Len(tracked[c]) + 1
          /\ Len(tracked[c]) \in Nat
          /\ \A j \in 1 .. Len(tracked[c]) : tracked'[c][j] = tracked[c][j]
          /\ tracked'[c][Len(tracked[c]) + 1] = k
      BY <1>1, <2>2, <3>1
    <3>3. \A j \in 1 .. Len(tracked[c]) :
            tracked[c][j] \in own[c] /\ tracked[c][j] # k
      BY <1>2 DEF Ownership
    <3>4. own'[c] = own[c] \cup {k}
      BY <1>3, <2>2
    <3>5. \A j, l \in 1 .. Len(tracked[c]) :
            tracked[c][j] = tracked[c][l] => j = l
      BY DEF Ownership
    <3>6. CASE i = Len(tracked[c]) + 1
      <4>1. tracked'[c][i] = k
        BY <3>2, <3>6
      <4>2. ASSUME NEW j \in 1 .. Len(tracked'[c]), j # i
            PROVE  tracked'[c][j] # k
        <5>1. j \in 1 .. Len(tracked[c])
          BY <3>2, <3>6, <4>2
        <5> QED BY <3>2, <3>3, <5>1
      <4> QED BY <3>4, <4>1, <4>2
    <3>7. CASE i \in 1 .. Len(tracked[c])
      <4>1. /\ tracked'[c][i] = tracked[c][i]
            /\ tracked[c][i] \in own[c] /\ tracked[c][i] # k
        BY <3>2, <3>3, <3>7
      <4>2. ASSUME NEW j \in 1 .. Len(tracked'[c]),
                   tracked'[c][i] = tracked'[c][j]
            PROVE  i = j
        <5>1. j # Len(tracked[c]) + 1
          BY <3>2, <4>1, <4>2
        <5>2. j \in 1 .. Len(tracked[c])
          BY <3>2, <5>1
        <5>3. tracked[c][i] = tracked[c][j]
          BY <3>2, <4>1, <4>2, <5>2
        <5> QED BY <3>5, <3>7, <5>2, <5>3
      <4> QED BY <3>4, <4>1, <4>2
    <3> QED BY <3>2, <3>6, <3>7
  <2> QED BY <2>1, <2>2 DEF TypeOK
<1> QED BY <1>6, <1>7, <1>8 DEF Ownership

\* A removal takes the last path of the list from its only owner.
LEMMA RemovalKeepsOwnership ==
  ASSUME TypeOK, Ownership, NEW b \in Builders, RemoveTracked(b)
  PROVE  /\ Ownership'
         /\ tracked[b][Len(tracked[b])] \in own[b]
<1> DEFINE n == Len(tracked[b])
           k == tracked[b][n]
<1>1. /\ tracked[b] \in Seq(Keys) /\ tracked[b] # <<>>
  BY DEF TypeOK, RemoveTracked
<1>2. n \in Nat \ {0} /\ k \in Keys
  BY <1>1
<1>3. k \in own[b]
  BY <1>2 DEF Ownership
<1>4. /\ object' = [object EXCEPT ![k] = Absent]
      /\ own' = [c \in Builders |-> own[c] \ {k}]
      /\ tracked' = [tracked EXCEPT ![b] = SubSeq(@, 1, n - 1)]
  BY DEF RemoveTracked
<1>5. \A c \in Builders : own'[c] = own[c] \ {k}
  BY <1>4
<1>6. \A c \in Builders \ {b} : k \notin own[c]
  BY <1>3 DEF Ownership
<1>7. \A c \in Builders : \A j \in own'[c] : object'[j] # Absent
  BY <1>2, <1>4, <1>5 DEF Ownership, TypeOK
<1>8. \A c, d \in Builders : c # d => own'[c] \cap own'[d] = {}
  BY <1>5 DEF Ownership
<1>9. ASSUME NEW c \in Builders, NEW i \in 1 .. Len(tracked'[c])
      PROVE  /\ tracked'[c][i] \in own'[c]
             /\ \A j \in 1 .. Len(tracked'[c]) :
                  tracked'[c][i] = tracked'[c][j] => i = j
  <2>1. CASE c # b
    <3>1. tracked'[c] = tracked[c]
      BY <1>4, <2>1 DEF TypeOK
    <3> QED BY <1>5, <1>6, <2>1, <3>1 DEF Ownership
  <2>2. CASE c = b
    <3>1. tracked'[b] = SubSeq(tracked[b], 1, n - 1)
      BY <1>4 DEF TypeOK
    <3>2. /\ Len(tracked'[b]) = n - 1
          /\ \A j \in 1 .. n - 1 : tracked'[b][j] = tracked[b][j]
      BY <1>1, <1>2, <3>1
    <3>3. \A j \in 1 .. n - 1 : tracked[b][j] \in own[b] /\ tracked[b][j] # k
      BY <1>2 DEF Ownership
    <3>4. \A j, l \in 1 .. n - 1 : tracked[b][j] = tracked[b][l] => j = l
      BY <1>2 DEF Ownership
    <3>5. i \in 1 .. n - 1 /\ own'[b] = own[b] \ {k}
      BY <1>5, <2>2, <3>2
    <3> QED BY <2>2, <3>2, <3>3, <3>4, <3>5
  <2> QED BY <2>1, <2>2
<1> QED BY <1>3, <1>7, <1>8, <1>9 DEF Ownership

\* A run that ends takes its list and its ownership with it.
LEMMA LeaveKeepsOwnership ==
  ASSUME TypeOK, Ownership, NEW b \in Builders, Leave(b), UNCHANGED object
  PROVE  Ownership'
<1>1. /\ own' = [own EXCEPT ![b] = {}]
      /\ tracked' = [tracked EXCEPT ![b] = <<>>]
  BY DEF Leave
<1>2. \A c \in Builders : own'[c] = IF c = b THEN {} ELSE own[c]
  BY <1>1 DEF TypeOK
<1>3. /\ Len(tracked'[b]) = 0
      /\ \A c \in Builders \ {b} : tracked'[c] = tracked[c]
  BY <1>1 DEF TypeOK
<1>4. 1 .. 0 = {}
  OBVIOUS
<1>5. \A c \in Builders : \A k \in own'[c] : object'[k] # Absent
  BY <1>2 DEF Ownership
<1>6. \A c, d \in Builders : c # d => own'[c] \cap own'[d] = {}
  BY <1>2 DEF Ownership
<1>7. ASSUME NEW c \in Builders, NEW i \in 1 .. Len(tracked'[c])
      PROVE  /\ tracked'[c][i] \in own'[c]
             /\ \A j \in 1 .. Len(tracked'[c]) :
                  tracked'[c][i] = tracked'[c][j] => i = j
  <2>1. c # b
    BY <1>3, <1>4, <1>7
  <2> QED BY <1>2, <1>3, <2>1 DEF Ownership
<1> QED BY <1>5, <1>6, <1>7 DEF Ownership

\* Every action either links an object where there was none, removes the last
\* tracked one, ends the run, or stands by.
LEMMA StepKinds ==
  ASSUME TypeOK, [Next]_vars
  PROVE  \/ Bystander
         \/ \E b \in Builders : LinkFacts(b) \/ LinkUnsynced(b)
         \/ \E b \in Builders : RemoveTracked(b)
         \/ \E b \in Builders : Leave(b) /\ UNCHANGED object
<1>1. CASE UNCHANGED vars
  BY <1>1 DEF vars, runVars, Bystander
<1>2. CASE MediumNext
  BY <1>2 DEF MediumNext, DamageFacts, runVars, Bystander, TypeOK, Absent,
              Damaged
<1>3. CASE BuilderNext
  BY <1>3 DEF BuilderNext, BuilderStep, Analyze, InspectMisses, InspectFinds,
       OpenVanished, UseStored, UseDamaged, ReuseEqual, Conflict, ParseFacts,
       ParseWithoutPublish, LinkTaken, ResolveGraph, ReportDrift, RunFails,
       RemovalFails, EndRun, CrashBuilder, Bystander
<1> QED BY <1>1, <1>2, <1>3 DEF Next

\* Runs that link find their key absent and have a file to do.
LEMMA LinkFindsNothing ==
  ASSUME TypeOK, NEW b \in Builders, LinkFacts(b) \/ LinkUnsynced(b)
  PROVE  /\ todo[b] # <<>>
         /\ object[Head(todo[b])] = Absent
         /\ object' = [object EXCEPT ![Head(todo[b])] = fact[b]]
         /\ own' = [own EXCEPT ![b] = @ \cup {Head(todo[b])}]
         /\ \/ UNCHANGED tracked
            \/ tracked' = [tracked EXCEPT ![b] = Append(@, Head(todo[b]))]
  BY DEF LinkFacts, LinkUnsynced, TypeOK, FileSteps

\* Ownership is kept by every step.
LEMMA NextOwnership == TypeOK /\ Ownership /\ [Next]_vars => Ownership'
<1> SUFFICES ASSUME TypeOK, Ownership, [Next]_vars PROVE Ownership'
  OBVIOUS
<1>1. CASE Bystander
  BY <1>1 DEF Bystander, Ownership, TypeOK
<1>2. ASSUME NEW b \in Builders, LinkFacts(b) \/ LinkUnsynced(b)
      PROVE  Ownership'
  BY <1>2, LinkFindsNothing, LinkKeepsOwnership
<1>3. ASSUME NEW b \in Builders, RemoveTracked(b) PROVE Ownership'
  BY <1>3, RemovalKeepsOwnership
<1>4. ASSUME NEW b \in Builders, Leave(b), UNCHANGED object PROVE Ownership'
  BY <1>4, LeaveKeepsOwnership
<1> QED BY <1>1, <1>2, <1>3, <1>4, StepKinds

LEMMA OwnershipHolds == Spec => []Ownership
<1>1. Init => Ownership
  <2> SUFFICES ASSUME Init PROVE Ownership
    OBVIOUS
  <2>1. \A b \in Builders : own[b] = {} /\ Len(tracked[b]) = 0
    BY DEF Init
  <2>2. 1 .. 0 = {}
    OBVIOUS
  <2> QED BY <2>1, <2>2 DEF Ownership
<1> QED BY <1>1, NextOwnership, FactsTypeCorrect, PTL DEF Spec

\* The drift of one run takes nothing from another: what is removed was
\* published by the run that removes it, and by no other.
THEOREM OthersKeepTheirFacts == Spec => OthersFactsStay
<1>1. ASSUME TypeOK, Ownership, [Next]_vars,
             NEW k \in Keys, object[k] # Absent, object'[k] = Absent
      PROVE  \E b \in Builders : pc[b] = "removing" /\ k \in own[b]
  <2>1. CASE Bystander
    BY <1>1, <2>1 DEF Bystander
  <2>2. ASSUME NEW b \in Builders, LinkFacts(b) \/ LinkUnsynced(b)
        PROVE  FALSE
    <3>1. /\ object' = [object EXCEPT ![Head(todo[b])] = fact[b]]
          /\ fact[b] \in Facts
      BY <1>1, <2>2, LinkFindsNothing DEF TypeOK
    <3> QED BY <1>1, <3>1 DEF TypeOK, Facts, Absent
  <2>3. ASSUME NEW b \in Builders, RemoveTracked(b)
        PROVE  \E c \in Builders : pc[c] = "removing" /\ k \in own[c]
    <3>1. tracked[b][Len(tracked[b])] \in own[b]
      BY <1>1, <2>3, RemovalKeepsOwnership
    <3>2. k = tracked[b][Len(tracked[b])] /\ pc[b] = "removing"
      BY <1>1, <2>3 DEF RemoveTracked, TypeOK
    <3> QED BY <3>1, <3>2
  <2>4. ASSUME NEW b \in Builders, Leave(b), UNCHANGED object PROVE FALSE
    BY <1>1, <2>4
  <2> QED BY <1>1, <2>1, <2>2, <2>3, <2>4, StepKinds
<1>2. TypeOK /\ Ownership /\ [Next]_vars
        => [\A k \in Keys :
              object[k] # Absent /\ object'[k] = Absent
                => \E b \in Builders : pc[b] = "removing" /\ k \in own[b]]_vars
  BY <1>1
<1> QED BY <1>2, FactsTypeCorrect, OwnershipHolds, PTL
        DEF Spec, OthersFactsStay

-----------------------------------------------------------------------------
(* Drift *)

\* Every step keeps the accounts of every run.
LEMMA NextAccounted ==
  TypeOK /\ Ownership /\ Accounted /\ [Next]_vars => Accounted'
<1> SUFFICES ASSUME TypeOK, Ownership, Accounted, [Next]_vars PROVE Accounted'
  OBVIOUS
<1> DEFINE Open == {"idle", "drift"} \cup Steps
           Fine(b) ==
             /\ pc[b] \in Open =>
                  \A k \in own[b] :
                    \E i \in 1 .. Len(tracked[b]) : tracked[b][i] = k
             /\ pc[b] = "drift" => Len(tracked[b]) = 0
<1>1. \A b \in Builders : Fine(b)
  BY DEF Accounted
<1>2. SUFFICES \A b \in Builders : Fine(b)'
  BY DEF Accounted
<1>3. ASSUME NEW b \in Builders, own'[b] \subseteq own[b],
             tracked'[b] = tracked[b],
             pc'[b] \in Open => pc[b] \in Open,
             pc'[b] = "drift" => Len(tracked[b]) = 0
      PROVE  Fine(b)'
  BY <1>1, <1>3
<1> HIDE DEF Fine
<1>4. CASE UNCHANGED vars
  BY <1>3, <1>4 DEF vars, runVars, Fine, Accounted
<1>5. CASE MediumNext
  BY <1>3, <1>5 DEF MediumNext, DamageFacts, runVars, Fine, Accounted
<1>6. ASSUME NEW b \in Builders,
             \/ Analyze(b) \/ InspectMisses(b) \/ InspectFinds(b)
             \/ OpenVanished(b) \/ UseStored(b) \/ UseDamaged(b)
             \/ ReuseEqual(b) \/ Conflict(b) \/ ParseFacts(b)
             \/ ParseWithoutPublish(b) \/ LinkTaken(b) \/ ResolveGraph(b)
             \/ RunFails(b) \/ ReportDrift(b) \/ RemovalFails(b)
      PROVE  \A c \in Builders : Fine(c)'
  <2>1. UNCHANGED <<own, tracked>>
    BY <1>6 DEF Analyze, InspectMisses, InspectFinds, OpenVanished, UseStored,
         UseDamaged, ReuseEqual, Conflict, ParseFacts, ParseWithoutPublish,
         LinkTaken, ResolveGraph, RunFails, ReportDrift, RemovalFails
  <2>2. \A c \in Builders \ {b} : pc'[c] = pc[c]
    BY <1>6 DEF Analyze, InspectMisses, InspectFinds, OpenVanished, UseStored,
         UseDamaged, ReuseEqual, Conflict, ParseFacts, ParseWithoutPublish,
         LinkTaken, ResolveGraph, RunFails, ReportDrift, RemovalFails, TypeOK
  <2>3. pc[b] \in {"idle"} \cup Steps
    BY <1>6 DEF Analyze, InspectMisses, InspectFinds, OpenVanished, UseStored,
         UseDamaged, ReuseEqual, Conflict, ParseFacts, ParseWithoutPublish,
         LinkTaken, ResolveGraph, RunFails, ReportDrift, RemovalFails, Steps,
         FileSteps
  <2>4. pc'[b] = "drift" => tracked[b] = <<>>
    BY <1>6 DEF Analyze, InspectMisses, InspectFinds, OpenVanished, UseStored,
         UseDamaged, ReuseEqual, Conflict, ParseFacts, ParseWithoutPublish,
         LinkTaken, ResolveGraph, RunFails, ReportDrift, RemovalFails, TypeOK,
         AfterScopeCheck, NextFile
  <2>5. Len(<<>>) = 0
    OBVIOUS
  <2>6. pc'[b] = "drift" => Len(tracked[b]) = 0
    BY <2>4, <2>5, Zenon
  <2>7. Fine(b)'
    BY <1>3, <2>1, <2>3, <2>6
  <2>8. ASSUME NEW c \in Builders, c # b PROVE Fine(c)'
    BY <1>1, <1>3, <2>1, <2>2, <2>8 DEF Fine
  <2> QED BY <2>7, <2>8
<1>7. ASSUME NEW b \in Builders, LinkFacts(b)
      PROVE  \A c \in Builders : Fine(c)'
  <2> DEFINE k == Head(todo[b])
  <2>1. /\ own'[b] = own[b] \cup {k}
        /\ tracked'[b] = Append(tracked[b], k)
        /\ pc[b] \in Steps /\ pc'[b] # "drift"
        /\ \A c \in Builders \ {b} :
             own'[c] = own[c] /\ tracked'[c] = tracked[c] /\ pc'[c] = pc[c]
    BY <1>7 DEF LinkFacts, TypeOK, AfterScopeCheck, NextFile, Steps, FileSteps
  <2>2. tracked[b] \in Seq(Keys)
    BY DEF TypeOK
  <2>3. /\ Len(tracked'[b]) = Len(tracked[b]) + 1
        /\ Len(tracked[b]) \in Nat
        /\ \A j \in 1 .. Len(tracked[b]) : tracked'[b][j] = tracked[b][j]
        /\ tracked'[b][Len(tracked[b]) + 1] = k
    BY <2>1, <2>2
  <2>4. \A j \in own[b] : \E i \in 1 .. Len(tracked[b]) : tracked[b][i] = j
    BY <1>1, <2>1 DEF Fine
  <2>5. ASSUME NEW j \in own'[b]
        PROVE  \E i \in 1 .. Len(tracked'[b]) : tracked'[b][i] = j
    <3>1. CASE j = k
      BY <2>3, <3>1
    <3>2. CASE j \in own[b]
      <4>1. PICK i \in 1 .. Len(tracked[b]) : tracked[b][i] = j
        BY <2>4, <3>2
      <4> QED BY <2>3, <4>1
    <3> QED BY <2>1, <3>1, <3>2
  <2>6. Fine(b)'
    BY <2>1, <2>5 DEF Fine
  <2>7. ASSUME NEW c \in Builders, c # b PROVE Fine(c)'
    BY <1>1, <1>3, <2>1, <2>7 DEF Fine
  <2> QED BY <2>6, <2>7
<1>8. ASSUME NEW b \in Builders, LinkUnsynced(b)
      PROVE  \A c \in Builders : Fine(c)'
  <2>1. pc'[b] = "failed"
    BY <1>8 DEF LinkUnsynced, TypeOK
  <2>2. \A c \in Builders \ {b} :
          own'[c] = own[c] /\ tracked'[c] = tracked[c] /\ pc'[c] = pc[c]
    BY <1>8 DEF LinkUnsynced, TypeOK
  <2>3. Fine(b)'
    BY <2>1 DEF Fine, Steps, FileSteps
  <2>4. ASSUME NEW c \in Builders, c # b PROVE Fine(c)'
    BY <1>1, <1>3, <2>2, <2>4 DEF Fine
  <2> QED BY <2>3, <2>4
<1>9. ASSUME NEW b \in Builders, RemoveTracked(b)
      PROVE  \A c \in Builders : Fine(c)'
  <2> DEFINE n == Len(tracked[b])
             k == tracked[b][n]
  <2>1. /\ tracked[b] \in Seq(Keys) /\ tracked[b] # <<>>
        /\ pc[b] = "removing" /\ UNCHANGED pc
    BY <1>9 DEF RemoveTracked, TypeOK
  <2>2. /\ own' = [c \in Builders |-> own[c] \ {k}]
        /\ tracked' = [tracked EXCEPT ![b] = SubSeq(@, 1, n - 1)]
    BY <1>9 DEF RemoveTracked
  <2>3. /\ n \in Nat \ {0}
        /\ Len(tracked'[b]) = n - 1
        /\ \A j \in 1 .. n - 1 : tracked'[b][j] = tracked[b][j]
    <3>1. n \in Nat \ {0}
      BY <2>1
    <3>2. tracked'[b] = SubSeq(tracked[b], 1, n - 1)
      BY <2>2 DEF TypeOK
    <3> QED BY <2>1, <3>1, <3>2
  <2>4. ASSUME NEW j \in own'[b]
        PROVE  \E i \in 1 .. Len(tracked'[b]) : tracked'[b][i] = j
    <3>1. j \in own[b] /\ j # k
      BY <2>2
    <3>2. PICK i \in 1 .. n : tracked[b][i] = j
      BY <1>1, <2>1, <3>1 DEF Fine, Steps
    <3>3. i \in 1 .. n - 1
      BY <2>3, <3>1, <3>2
    <3> QED BY <2>3, <3>2, <3>3
  <2>5. Fine(b)'
    BY <2>1, <2>4 DEF Fine
  <2>6. ASSUME NEW c \in Builders, c # b PROVE Fine(c)'
    <3>1. own'[c] \subseteq own[c] /\ tracked'[c] = tracked[c] /\ pc'[c] = pc[c]
      BY <2>1, <2>2, <2>6 DEF TypeOK
    <3> QED BY <1>1, <1>3, <3>1 DEF Fine
  <2> QED BY <2>5, <2>6
<1>10. ASSUME NEW b \in Builders, Leave(b)
       PROVE  \A c \in Builders : Fine(c)'
  <2>1. own'[b] = {} /\ pc'[b] = "idle"
    BY <1>10 DEF Leave, TypeOK
  <2>2. \A c \in Builders \ {b} :
          own'[c] = own[c] /\ tracked'[c] = tracked[c] /\ pc'[c] = pc[c]
    BY <1>10 DEF Leave, TypeOK
  <2>3. Fine(b)'
    BY <2>1 DEF Fine
  <2>4. ASSUME NEW c \in Builders, c # b PROVE Fine(c)'
    BY <1>1, <1>3, <2>2, <2>4 DEF Fine
  <2> QED BY <2>3, <2>4
<1> QED BY <1>4, <1>5, <1>6, <1>7, <1>8, <1>9, <1>10
        DEF Next, BuilderNext, BuilderStep, EndRun, CrashBuilder

\* A run that reports drift has left none of the objects it published.
THEOREM FactsDriftIsClean == Spec => []DriftLeavesNoFacts
<1>1. Init => Accounted
  BY DEF Init, Accounted
<1>2. Accounted => DriftLeavesNoFacts
  <2>1. 1 .. 0 = {}
    OBVIOUS
  <2> QED BY <2>1 DEF Accounted, DriftLeavesNoFacts
<1> QED BY <1>1, <1>2, NextAccounted, FactsTypeCorrect, OwnershipHolds, PTL
        DEF Spec

\* Drift takes back everything the run published, and nothing of another run.
THEOREM DriftTakesBackItsOwn == Spec => DriftIsExact
<1> QED BY FactsDriftIsClean, OthersKeepTheirFacts DEF DriftIsExact

-----------------------------------------------------------------------------
(* Immutability *)

\* Every step of the runs and of the medium is one the immutable store allows.
THEOREM FactsImplementImmutableStore == Spec => FactsAreImmutable
<1>1. Init => Store!Init
  BY DEF Init, Store!Init, Store!Absent, Absent
<1>2. TypeOK /\ [Next]_vars => [Store!Next]_object
  <2> SUFFICES ASSUME TypeOK, [Next]_vars
               PROVE  Store!Next \/ UNCHANGED object
    OBVIOUS
  <2> USE DEF Store!Next, Store!Publish, Store!Remove, Store!Damage,
              Store!Absent, Store!Damaged, Absent, Damaged
  <2>1. CASE UNCHANGED vars
    BY <2>1 DEF vars
  <2>2. CASE MediumNext
    BY <2>2 DEF MediumNext, DamageFacts
  <2>3. ASSUME NEW b \in Builders, LinkFacts(b) \/ LinkUnsynced(b)
        PROVE  Store!Next
    <3>1. /\ todo[b] # <<>>
          /\ object[Head(todo[b])] = Absent
          /\ object' = [object EXCEPT ![Head(todo[b])] = fact[b]]
      BY <2>3, LinkFindsNothing
    <3>2. todo[b] \in Seq(Keys) /\ fact[b] \in Facts
      BY DEF TypeOK
    <3>3. Head(todo[b]) \in Keys
      BY <3>1, <3>2
    <3> QED BY <3>1, <3>2, <3>3
  <2>4. ASSUME NEW b \in Builders, RemoveTracked(b)
        PROVE  Store!Next \/ UNCHANGED object
    <3>1. PICK k \in Keys : object' = [object EXCEPT ![k] = Absent]
      <4>1. tracked[b] \in Seq(Keys) /\ tracked[b] # <<>>
        BY <2>4 DEF RemoveTracked, TypeOK
      <4>2. tracked[b][Len(tracked[b])] \in Keys
        BY <4>1
      <4> QED BY <2>4, <4>2 DEF RemoveTracked
    <3>2. CASE object[k] = Absent
      BY <3>1, <3>2 DEF TypeOK
    <3>3. CASE object[k] # Absent
      BY <3>1, <3>3
    <3> QED BY <3>2, <3>3
  <2>5. ASSUME NEW b \in Builders,
               \/ Analyze(b) \/ InspectMisses(b) \/ InspectFinds(b)
               \/ OpenVanished(b) \/ UseStored(b) \/ UseDamaged(b)
               \/ ReuseEqual(b) \/ Conflict(b) \/ ParseFacts(b)
               \/ ParseWithoutPublish(b) \/ LinkTaken(b) \/ ResolveGraph(b)
               \/ RunFails(b) \/ ReportDrift(b) \/ RemovalFails(b)
               \/ EndRun(b) \/ CrashBuilder(b)
        PROVE  UNCHANGED object
    BY <2>5 DEF Analyze, InspectMisses, InspectFinds, OpenVanished, UseStored,
         UseDamaged, ReuseEqual, Conflict, ParseFacts, ParseWithoutPublish,
         LinkTaken, ResolveGraph, RunFails, ReportDrift, RemovalFails, EndRun,
         CrashBuilder
  <2> QED BY <2>1, <2>2, <2>3, <2>4, <2>5 DEF Next, BuilderNext, BuilderStep
<1> QED BY <1>1, <1>2, FactsTypeCorrect, PTL
        DEF Spec, FactsAreImmutable, Store!Spec

-----------------------------------------------------------------------------
(* Completeness *)

\* A complete answer rests on the whole facts of every file.
CompleteMeansWhole ==
  \A b \in Builders :
    answer[b] = "complete" =>
      \A i \in 1 .. Len(output[b]) : output[b][i][2] = "whole"

\* A run has an answer only once its facts are in, and then they stay.
AnswerIsLast ==
  \A b \in Builders :
    answer[b] # "none" => pc[b] \in {"removing"} \cup Ends

\* A step that answers does so from the output, which stays as it is.
LEMMA NextComplete ==
  TypeOK /\ AnswerIsLast /\ CompleteMeansWhole /\ [Next]_vars
    => AnswerIsLast' /\ CompleteMeansWhole'
<1> SUFFICES ASSUME TypeOK, AnswerIsLast, CompleteMeansWhole, [Next]_vars
             PROVE  AnswerIsLast' /\ CompleteMeansWhole'
  OBVIOUS
<1> DEFINE Final(b) == answer[b] # "none" => pc[b] \in {"removing"} \cup Ends
           Whole(b) ==
             answer[b] = "complete" =>
               \A i \in 1 .. Len(output[b]) : output[b][i][2] = "whole"
<1>1. \A b \in Builders : Final(b) /\ Whole(b)
  BY DEF AnswerIsLast, CompleteMeansWhole
<1>2. SUFFICES \A b \in Builders : Final(b)' /\ Whole(b)'
  BY DEF AnswerIsLast, CompleteMeansWhole
<1>3. CASE UNCHANGED runVars
  BY <1>1, <1>3 DEF runVars
<1>4. ASSUME NEW b \in Builders,
             \/ Analyze(b) \/ InspectMisses(b) \/ InspectFinds(b)
             \/ OpenVanished(b) \/ UseStored(b) \/ UseDamaged(b)
             \/ ReuseEqual(b) \/ Conflict(b) \/ ParseFacts(b)
             \/ ParseWithoutPublish(b) \/ LinkFacts(b) \/ LinkUnsynced(b)
             \/ LinkTaken(b) \/ RunFails(b)
      PROVE  \A c \in Builders : Final(c)' /\ Whole(c)'
  <2>1. \/ pc[b] \in FileSteps \cup {"idle", "resolve"}
        \/ pc'[b] = "failed" /\ UNCHANGED output
    BY <1>4 DEF Analyze, InspectMisses, InspectFinds, OpenVanished, UseStored,
         UseDamaged, ReuseEqual, Conflict, ParseFacts, ParseWithoutPublish,
         LinkFacts, LinkUnsynced, LinkTaken, RunFails, FileSteps, TypeOK
  <2>2. UNCHANGED answer
    BY <1>4 DEF Analyze, InspectMisses, InspectFinds, OpenVanished, UseStored,
         UseDamaged, ReuseEqual, Conflict, ParseFacts, ParseWithoutPublish,
         LinkFacts, LinkUnsynced, LinkTaken, RunFails
  <2>3. \A c \in Builders \ {b} : pc'[c] = pc[c] /\ output'[c] = output[c]
    BY <1>4 DEF Analyze, InspectMisses, InspectFinds, OpenVanished, UseStored,
         UseDamaged, ReuseEqual, Conflict, ParseFacts, ParseWithoutPublish,
         LinkFacts, LinkUnsynced, LinkTaken, RunFails, Take, TypeOK
  <2>4. answer[b] = "none" \/ (pc'[b] = "failed" /\ UNCHANGED output)
    BY <1>1, <2>1 DEF FileSteps, Ends
  <2> QED BY <1>1, <2>2, <2>3, <2>4 DEF Ends
<1>5. ASSUME NEW b \in Builders, ResolveGraph(b)
      PROVE  \A c \in Builders : Final(c)' /\ Whole(c)'
  <2>1. /\ answer' = [answer EXCEPT ![b] = Completeness(b)]
        /\ pc'[b] \in {"done", "removing"}
        /\ \A c \in Builders \ {b} : pc'[c] = pc[c]
        /\ UNCHANGED output
    BY <1>5 DEF ResolveGraph, AfterScopeCheck, TypeOK
  <2>2. /\ answer'[b] = Completeness(b)
        /\ \A c \in Builders \ {b} : answer'[c] = answer[c]
    BY <2>1 DEF TypeOK
  <2>3. Whole(b)'
    BY <2>1, <2>2 DEF Completeness
  <2>4. Final(b)'
    BY <2>1 DEF Ends
  <2>5. ASSUME NEW c \in Builders, c # b PROVE Final(c)' /\ Whole(c)'
    BY <1>1, <2>1, <2>2, <2>5
  <2> QED BY <2>3, <2>4, <2>5
<1>6. ASSUME NEW b \in Builders,
             RemoveTracked(b) \/ ReportDrift(b) \/ RemovalFails(b)
      PROVE  \A c \in Builders : Final(c)' /\ Whole(c)'
  <2>1. /\ pc'[b] \in {"removing", "drift", "dirty"}
        /\ \A c \in Builders \ {b} : pc'[c] = pc[c]
        /\ UNCHANGED <<answer, output>>
    BY <1>6 DEF RemoveTracked, ReportDrift, RemovalFails, TypeOK
  <2> QED BY <1>1, <2>1 DEF Ends
<1>7. ASSUME NEW b \in Builders, Leave(b)
      PROVE  \A c \in Builders : Final(c)' /\ Whole(c)'
  <2>1. /\ answer'[b] = "none"
        /\ \A c \in Builders \ {b} :
             pc'[c] = pc[c] /\ answer'[c] = answer[c] /\ output'[c] = output[c]
    BY <1>7 DEF Leave, TypeOK
  <2> QED BY <1>1, <2>1
<1>8. CASE MediumNext
  BY <1>3, <1>8 DEF MediumNext, DamageFacts
<1>9. CASE UNCHANGED vars
  BY <1>3, <1>9 DEF vars
<1> QED BY <1>4, <1>5, <1>6, <1>7, <1>8, <1>9
        DEF Next, BuilderNext, BuilderStep, EndRun, CrashBuilder

LEMMA CompleteIsWhole == Spec => []CompleteMeansWhole
<1>1. Init => AnswerIsLast /\ CompleteMeansWhole
  BY DEF Init, AnswerIsLast, CompleteMeansWhole
<1> QED BY <1>1, NextComplete, FactsTypeCorrect, PTL DEF Spec

\* What a run has in hand of a file is what is stored, or it parsed the file
\* beside a damaged object, unless the object was disturbed under a run.
\* AnswersAgreeWithStore is not inductive without the second part.
Settled ==
  \A b \in Builders :
    /\ \A i \in 1 .. Len(output[b]) :
         output[b][i][1] \notin disturbed
           => object[output[b][i][1]] \in {output[b][i][2], Damaged}
    /\ pc[b] = "parseOnly" /\ Head(todo[b]) \notin disturbed
         => object[Head(todo[b])] = Damaged

\* A run takes the facts that are stored, or parses beside a damaged object.
LEMMA TakenAreStored ==
  ASSUME TypeOK, [Next]_vars, NEW b \in Builders
  PROVE  /\ \/ output'[b] \in {output[b], <<>>}
            \/ \E f \in Facts :
                 /\ output'[b] = Append(output[b], <<Head(todo[b]), f>>)
                 /\ object'[Head(todo[b])] = f \/ pc[b] = "parseOnly"
                 /\ pc[b] \in FileSteps
         /\ pc'[b] = "parseOnly" =>
              /\ todo'[b] = todo[b]
              /\ pc[b] = "parseOnly" \/ object'[Head(todo[b])] = Damaged
<1> USE DEF TypeOK
<1> DEFINE Goal(c) ==
             /\ \/ output'[c] \in {output[c], <<>>}
                \/ \E f \in Facts :
                     /\ output'[c] = Append(output[c], <<Head(todo[c]), f>>)
                     /\ object'[Head(todo[c])] = f \/ pc[c] = "parseOnly"
                     /\ pc[c] \in FileSteps
             /\ pc'[c] = "parseOnly" =>
                  /\ todo'[c] = todo[c]
                  /\ pc[c] = "parseOnly" \/ object'[Head(todo[c])] = Damaged
<1>1. CASE UNCHANGED runVars
  BY <1>1 DEF runVars
<1>2. CASE BuilderNext
  <2>1. PICK x \in Builders :
          \/ Analyze(x) \/ BuilderStep(x)
          \/ LinkUnsynced(x) \/ RunFails(x) \/ RemovalFails(x) \/ CrashBuilder(x)
          \/ EndRun(x)
    BY <1>2 DEF BuilderNext
  <2>2. CASE x # b
    <3>1. pc'[b] = pc[b] /\ output'[b] = output[b] /\ todo'[b] = todo[b]
      BY <2>1, <2>2 DEF BuilderStep, Analyze, InspectMisses, InspectFinds, OpenVanished,
           UseStored, UseDamaged, ReuseEqual, Conflict, ParseFacts, ParseWithoutPublish,
           LinkFacts, LinkUnsynced, LinkTaken, ResolveGraph, RemoveTracked, ReportDrift,
           RunFails, RemovalFails, EndRun, CrashBuilder, Leave, Take
    <3> QED BY <3>1
  <2>3. CASE x = b
    <3>1. ASSUME UseStored(b) \/ ReuseEqual(b) PROVE Goal(b)
      <4>1. PICK f \in Facts : object[Head(todo[b])] = f /\ Take(b, f)
        BY <3>1 DEF UseStored, ReuseEqual
      <4>2. /\ pc[b] = "open" /\ pc'[b] # "parseOnly"
            /\ UNCHANGED object
        BY <3>1 DEF UseStored, ReuseEqual, NextFile, AfterScopeCheck
      <4>3. output'[b] = Append(output[b], <<Head(todo[b]), f>>)
        BY <4>1 DEF Take
      <4> QED BY <4>1, <4>2, <4>3 DEF FileSteps
    <3>2. ASSUME LinkFacts(b) PROVE Goal(b)
      <4>1. Head(todo[b]) \in Keys
        BY <3>2 DEF LinkFacts, FileSteps
      <4> QED BY <3>2, <4>1 DEF LinkFacts, Take, FileSteps, NextFile, AfterScopeCheck
    <3>3. ASSUME ParseWithoutPublish(b) PROVE Goal(b)
      <4>1. FactsWithin(Head(todo[b]), Left(b)) \in Facts
        BY DEF FactsWithin, Facts
      <4>2. output'[b] = Append(output[b], <<Head(todo[b]), FactsWithin(Head(todo[b]), Left(b))>>)
        BY <3>3 DEF ParseWithoutPublish, Take
      <4>3. pc[b] = "parseOnly" /\ pc'[b] # "parseOnly"
        BY <3>3 DEF ParseWithoutPublish, NextFile, AfterScopeCheck
      <4> QED BY <4>1, <4>2, <4>3 DEF FileSteps
    <3>4. ASSUME UseDamaged(b) PROVE Goal(b)
      BY <3>4 DEF UseDamaged
    <3>5. ASSUME \/ Analyze(b) \/ InspectMisses(b) \/ InspectFinds(b) \/ OpenVanished(b)
                 \/ Conflict(b) \/ ParseFacts(b) \/ LinkUnsynced(b) \/ LinkTaken(b)
                 \/ ResolveGraph(b) \/ RunFails(b)
          PROVE  Goal(b)
      BY <3>5 DEF Analyze, InspectMisses, InspectFinds, OpenVanished, Conflict, ParseFacts,
           LinkUnsynced, LinkTaken, ResolveGraph, RunFails, AfterScopeCheck
    <3>6. ASSUME \/ RemoveTracked(b) \/ ReportDrift(b) \/ RemovalFails(b) \/ Leave(b)
          PROVE  Goal(b)
      BY <3>6 DEF RemoveTracked, ReportDrift, RemovalFails, Leave
    <3> QED BY <2>1, <2>3, <3>1, <3>2, <3>3, <3>4, <3>5, <3>6
            DEF BuilderStep, EndRun, CrashBuilder
  <2> QED BY <2>2, <2>3
<1> QED BY <1>1, <1>2 DEF Next, MediumNext, DamageFacts, vars

LEMMA SettledStep ==
  ASSUME TypeOK, TypeOK', Settled, [HistoryNext]_<<vars, disturbed>>
  PROVE  Settled'
<1>1. CASE UNCHANGED <<vars, disturbed>>
  BY <1>1 DEF vars, runVars, Settled
<1>2. CASE HistoryNext
  <2>1. [Next]_vars
    BY <1>2 DEF HistoryNext
  <2>2. ASSUME NEW k \in Keys, InUse(k)', k \notin disturbed'
        PROVE  k \notin disturbed /\ object[k] \in {Absent, object'[k]}
    BY <1>2, <2>2 DEF HistoryNext
  <2>3. Absent # Damaged /\ \A f \in Facts : f # Absent
    BY DEF Absent, Damaged, Facts
  <2>4. ASSUME NEW b \in Builders, NEW i \in 1 .. Len(output'[b]),
               output'[b][i][1] \notin disturbed'
        PROVE  object'[output'[b][i][1]] \in {output'[b][i][2], Damaged}
    <3> DEFINE k == output'[b][i][1]
    <3>1. output[b] \in Seq(Keys \X Facts) /\ output'[b] \in Seq(Keys \X Facts)
      BY DEF TypeOK
    <3>2. k \in Keys /\ output'[b][i][2] \in Facts
      BY <3>1
    <3>3. k \notin disturbed /\ object[k] \in {Absent, object'[k]}
      BY <2>2, <2>4, <3>2 DEF InUse
    <3>4. ASSUME i \in 1 .. Len(output[b]), output'[b][i] = output[b][i]
          PROVE  object'[k] \in {output'[b][i][2], Damaged}
      <4>1. object[k] \in {output[b][i][2], Damaged}
        BY <3>3, <3>4 DEF Settled
      <4> QED BY <2>3, <3>2, <3>3, <3>4, <4>1
    <3>5. CASE output'[b] = output[b]
      BY <3>4, <3>5
    <3>6. CASE output'[b] = <<>>
      <4>1. Len(output'[b]) = 0
        BY <3>6
      <4>2. i \in 1 .. 0
        BY <4>1
      <4> QED BY <4>2
    <3>7. ASSUME NEW f \in Facts, pc[b] \in FileSteps,
                 output'[b] = Append(output[b], <<Head(todo[b]), f>>),
                 object'[Head(todo[b])] = f \/ pc[b] = "parseOnly"
          PROVE  object'[k] \in {output'[b][i][2], Damaged}
      <4>1. Head(todo[b]) \in Keys
        BY <3>7 DEF TypeOK
      <4>2. i \in 1 .. Len(output[b]) + 1
        BY <3>1, <3>7, <4>1
      <4>3. CASE i = Len(output[b]) + 1
        <5>1. output'[b][i] = <<Head(todo[b]), f>>
          BY <3>1, <3>7, <4>1, <4>3
        <5>2. CASE object'[Head(todo[b])] = f
          BY <5>1, <5>2
        <5>3. CASE pc[b] = "parseOnly"
          <6>1. object[Head(todo[b])] = Damaged
            BY <3>3, <5>1, <5>3 DEF Settled
          <6> QED BY <2>3, <3>3, <5>1, <6>1
        <5> QED BY <3>7, <5>2, <5>3
      <4>4. CASE i # Len(output[b]) + 1
        <5>1. i \in 1 .. Len(output[b])
          BY <3>1, <4>2, <4>4
        <5>2. output'[b][i] = output[b][i]
          BY <3>1, <3>7, <4>1, <5>1
        <5> QED BY <3>4, <5>1, <5>2
      <4> QED BY <4>3, <4>4
    <3> HIDE DEF k
    <3> QED BY <2>1, <3>5, <3>6, <3>7, TakenAreStored DEF k
  <2>5. ASSUME NEW b \in Builders, pc'[b] = "parseOnly", Head(todo'[b]) \notin disturbed'
        PROVE  object'[Head(todo'[b])] = Damaged
    <3>1. /\ todo'[b] = todo[b]
          /\ pc[b] = "parseOnly" \/ object'[Head(todo[b])] = Damaged
      BY <2>1, <2>5, TakenAreStored
    <3>2. todo'[b] \in Seq(Keys) /\ todo'[b] # <<>>
      BY <2>5 DEF TypeOK, FileSteps
    <3>3. PICK k \in Keys : k = Head(todo'[b]) /\ k = todo'[b][1]
      BY <3>2
    <3>4. InUse(k)'
      BY <3>2, <3>3 DEF InUse
    <3>5. k \notin disturbed /\ object[k] \in {Absent, object'[k]}
      BY <2>2, <2>5, <3>3, <3>4
    <3> QED BY <2>3, <3>1, <3>3, <3>5 DEF Settled
  <2> QED BY <2>4, <2>5 DEF Settled
<1> QED BY <1>1, <1>2

\* Runs of differing budgets that race for one file answer from the facts in
\* the store, as long as nothing disturbs them, and a complete answer never
\* stands beside an object that a smaller budget cut short.
THEOREM AnswersAreStored == HistorySpec => []AnswersAgreeWithStore
<1>1. HistorySpec => Spec
  <2>1. HistoryInit => Init
    BY DEF HistoryInit
  <2>2. [HistoryNext]_<<vars, disturbed>> => [Next]_vars
    BY DEF HistoryNext
  <2> QED BY <2>1, <2>2, PTL DEF HistorySpec, Spec
<1>2. HistoryInit => Settled
  <2>1. \A b \in Builders : Init => Len(output[b]) = 0 /\ pc[b] # "parseOnly"
    BY DEF Init
  <2>2. 1 .. 0 = {}
    OBVIOUS
  <2> QED BY <2>1, <2>2 DEF HistoryInit, Settled
<1>3. Settled /\ CompleteMeansWhole => AnswersAgreeWithStore
  <2> SUFFICES ASSUME Settled, CompleteMeansWhole,
                      NEW b \in Builders, NEW i \in 1 .. Len(output[b]),
                      output[b][i][1] \notin disturbed
               PROVE  /\ object[output[b][i][1]] \in {output[b][i][2], Damaged}
                      /\ answer[b] = "complete" => object[output[b][i][1]] \in {"whole", Damaged}
    BY DEF AnswersAgreeWithStore
  <2> QED BY DEF Settled, CompleteMeansWhole
<1> QED BY <1>1, <1>2, <1>3, SettledStep, FactsTypeCorrect, CompleteIsWhole, PTL
        DEF HistorySpec

-----------------------------------------------------------------------------
(* What a budget pays for *)

\* The nodes of files done are the last of the running totals of their costs.
LEMMA NodesTotals ==
  ASSUME NEW done \in Seq(Keys \X Facts)
  PROVE  \E G : /\ NodesOf(done) = G[Len(done)]
                /\ Totals(G, [k \in 1 .. Len(done) |-> Cost[done[k][1]]], Len(done))
<1> DEFINE n == Len(done)
           w == [i \in 1 .. n |-> Cost[done[i][1]]]
           F(g, s) == IF s = {} THEN 0 ELSE g[s \ {Max(s)}] + Cost[done[Max(s)][1]]
           iter == CHOOSE g : g = [s \in SUBSET (1 .. n) |-> F(g, s)]
           W(g, s) == IF s = {} THEN 0 ELSE g[s \ {Max(s)}] + w[Max(s)]
<1>1. /\ DOMAIN done = 1 .. n /\ n \in Nat
      /\ \A i \in 1 .. n : w[i] \in Nat /\ w[i] = Cost[done[i][1]]
  <2>1. DOMAIN done = 1 .. n /\ n \in Nat
    OBVIOUS
  <2>2. ASSUME NEW i \in 1 .. n PROVE Cost[done[i][1]] \in Nat
    <3>1. done[i][1] \in Keys
      BY <2>1, <2>2
    <3> QED BY <3>1, CostAssumption
  <2> QED BY <2>1, <2>2
<1>2. NodesOf(done) = iter[1 .. n]
  BY <1>1 DEF NodesOf, FoldLeft, MapThenFoldSet
<1> HIDE DEF w, n
<1>3. \A g : Adding(w, n, g) <=> g = [s \in SUBSET (1 .. n) |-> F(g, s)]
  <2> SUFFICES ASSUME NEW g
               PROVE  Adding(w, n, g) <=> g = [s \in SUBSET (1 .. n) |-> F(g, s)]
    OBVIOUS
  <2>1. \A s \in SUBSET (1 .. n) : F(g, s) = W(g, s)
    BY <1>1, LastIndex
  <2> HIDE DEF F, W
  <2>2. [s \in SUBSET (1 .. n) |-> F(g, s)] = [s \in SUBSET (1 .. n) |-> W(g, s)]
    BY <2>1
  <2> QED BY <2>2 DEF Adding, W
<1>4. \E g : Adding(w, n, g)
  BY <1>1, SumExists
<1> HIDE DEF F, W
<1>5. Adding(w, n, iter)
  BY <1>3, <1>4
<1> HIDE DEF iter
<1>6. Totals([k \in 0 .. n |-> iter[1 .. k]], w, n)
  BY <1>1, <1>5, SumTotals
<1>7. [k \in 0 .. n |-> iter[1 .. k]][n] = iter[1 .. n]
  BY <1>1
<1> QED BY <1>2, <1>6, <1>7 DEF n, w

\* Nodes are counted.
LEMMA NodesCounted ==
  ASSUME NEW done \in Seq(Keys \X Facts)
  PROVE  NodesOf(done) \in Nat
<1> DEFINE w == [i \in 1 .. Len(done) |-> Cost[done[i][1]]]
<1>1. PICK G : NodesOf(done) = G[Len(done)] /\ Totals(G, w, Len(done))
  BY NodesTotals
<1>2. Len(done) \in Nat /\ \A i \in 1 .. Len(done) : done[i][1] \in Keys
  OBVIOUS
<1>3. \A i \in 1 .. Len(done) : w[i] \in Nat
  BY <1>2, CostAssumption
<1> HIDE DEF w
<1>4. \A m \in 0 .. Len(done) : G[m] \in Nat
  BY <1>1, <1>2, <1>3, TotalsTyped
<1>5. G[Len(done)] \in Nat
  BY <1>2, <1>4
<1> QED BY <1>1, <1>5

\* A file done adds its nodes.
LEMMA NodesGrow ==
  ASSUME NEW done \in Seq(Keys \X Facts), NEW k \in Keys, NEW f \in Facts
  PROVE  /\ NodesOf(done) \in Nat /\ Cost[k] \in Nat
         /\ NodesOf(Append(done, <<k, f>>)) = NodesOf(done) + Cost[k]
<1> DEFINE more == Append(done, <<k, f>>)
           Costs(s) == [i \in 1 .. Len(s) |-> Cost[s[i][1]]]
<1>1. /\ more \in Seq(Keys \X Facts) /\ Len(done) \in Nat /\ Len(more) = Len(done) + 1
      /\ more[Len(done) + 1] = <<k, f>>
      /\ \A i \in 1 .. Len(done) : done[i] = more[i] /\ done[i][1] \in Keys
  OBVIOUS
<1>2. Cost[k] \in Nat
  BY CostAssumption
<1> HIDE DEF more
<1>3. \A i \in 1 .. Len(done) : Costs(done)[i] = Costs(more)[i] /\ Costs(done)[i] \in Nat
  BY <1>1, CostAssumption
<1>4. Costs(more)[Len(done) + 1] = Cost[k]
  BY <1>1
<1>5. \A s \in Seq(Keys \X Facts) :
        \E G : NodesOf(s) = G[Len(s)] /\ Totals(G, Costs(s), Len(s))
  BY NodesTotals
<1> HIDE DEF Costs
<1>6. PICK G : NodesOf(done) = G[Len(done)] /\ Totals(G, Costs(done), Len(done))
  BY <1>5
<1>7. PICK H : NodesOf(more) = H[Len(more)] /\ Totals(H, Costs(more), Len(more))
  BY <1>1, <1>5
<1>8. H[Len(more)] = H[Len(done)] + Cost[k]
  BY <1>1, <1>4, <1>7 DEF Totals
<1>9. G[Len(done)] = H[Len(done)]
  <2>1. Totals(H, Costs(more), Len(done))
    BY <1>1, <1>7 DEF Totals
  <2> QED BY <1>1, <1>3, <1>6, <2>1, TotalsAgree
<1>10. NodesOf(done) \in Nat
  BY NodesCounted
<1> QED BY <1>2, <1>6, <1>7, <1>8, <1>9, <1>10 DEF more

\* What a run spent it spent on the files it has done, and on the one in hand while
\* that is parsed and not yet done; and what waits for a parse is not parsed.
PaidFor(b) ==
  /\ pc[b] \in {"idle", "parse", "parseOnly"} => why[b] = "use"
  /\ pc[b] = "link" => why[b] # "use"
  /\ why[b] # "use" => todo[b] # <<>>
  /\ spent[b] <= NodesOf(output[b]) + IF why[b] = "use" THEN 0 ELSE Cost[Head(todo[b])]

Paid == \A b \in Builders : PaidFor(b)

\* The file in hand, and the nodes done.
LEMMA InHand ==
  ASSUME TypeOK, NEW b \in Builders
  PROVE  /\ NodesOf(output[b]) \in Nat /\ spent[b] \in Nat /\ limit[b] \in Nat
         /\ pc[b] \in FileSteps => todo[b] # <<>>
         /\ todo[b] # <<>> => Head(todo[b]) \in Keys /\ Cost[Head(todo[b])] \in Nat
<1>1. /\ output[b] \in Seq(Keys \X Facts) /\ todo[b] \in Seq(Keys)
      /\ spent[b] \in Nat /\ limit[b] \in Nat
      /\ pc[b] \in FileSteps => todo[b] # <<>>
  BY DEF TypeOK
<1>2. NodesOf(output[b]) \in Nat
  BY <1>1, NodesCounted
<1> QED BY <1>1, <1>2, CostAssumption

\* The file in hand is done: what was spent on it was spent on a file done.
LEMMA TakePaid ==
  ASSUME TypeOK, NEW b \in Builders, todo[b] # <<>>, NEW f \in Facts, Take(b, f),
         pc'[b] \in {"inspect", "resolve", "removing"},
         spent'[b] <= NodesOf(output[b]) + Cost[Head(todo[b])]
  PROVE  PaidFor(b)'
<1>1. output[b] \in Seq(Keys \X Facts) /\ Head(todo[b]) \in Keys
  BY InHand DEF TypeOK
<1>2. output'[b] = Append(output[b], <<Head(todo[b]), f>>) /\ why'[b] = "use"
  BY DEF Take, TypeOK
<1>3. NodesOf(output'[b]) = NodesOf(output[b]) + Cost[Head(todo[b])]
      /\ NodesOf(output'[b]) \in Nat
  <2>1. /\ NodesOf(Append(output[b], <<Head(todo[b]), f>>))
             = NodesOf(output[b]) + Cost[Head(todo[b])]
        /\ NodesOf(output[b]) \in Nat /\ Cost[Head(todo[b])] \in Nat
    BY <1>1, NodesGrow
  <2> QED BY <1>2, <2>1
<1> QED BY <1>2, <1>3 DEF PaidFor

\* Every step of a run keeps what it paid for; the others are not concerned.
LEMMA NextPaid == TypeOK /\ Paid /\ [Next]_vars => Paid'
<1> SUFFICES ASSUME TypeOK, Paid, [Next]_vars, NEW b \in Builders PROVE PaidFor(b)'
  BY DEF Paid
<1>1. PaidFor(b)
  BY DEF Paid
<1>2. ASSUME /\ spent'[b] = spent[b] /\ output'[b] = output[b]
             /\ why'[b] = why[b] /\ todo'[b] = todo[b],
             \/ pc'[b] = pc[b]
             \/ pc'[b] \notin {"idle", "parse", "parseOnly", "link"}
             \/ pc'[b] \in {"parse", "parseOnly"} /\ why[b] = "use"
             \/ pc'[b] = "link" /\ why[b] # "use"
      PROVE  PaidFor(b)'
  BY <1>1, <1>2 DEF PaidFor
<1>3. ASSUME NEW c \in Builders, c # b,
             \/ Analyze(c) \/ BuilderStep(c) \/ LinkUnsynced(c) \/ RunFails(c)
             \/ RemovalFails(c) \/ CrashBuilder(c) \/ EndRun(c)
      PROVE  PaidFor(b)'
  <2>1. /\ pc'[b] = pc[b] /\ spent'[b] = spent[b] /\ output'[b] = output[b]
        /\ why'[b] = why[b] /\ todo'[b] = todo[b]
    <3>1. CASE Analyze(c)
      BY <1>3, <3>1 DEF Analyze, TypeOK
    <3>2. CASE \/ InspectMisses(c) \/ InspectFinds(c) \/ OpenVanished(c) \/ UseDamaged(c)
               \/ Conflict(c) \/ LinkTaken(c) \/ ResolveGraph(c) \/ RemoveTracked(c)
               \/ ReportDrift(c) \/ LinkUnsynced(c) \/ RunFails(c) \/ RemovalFails(c)
      BY <1>3, <3>2 DEF InspectMisses, InspectFinds, OpenVanished, UseDamaged, Conflict,
           LinkTaken, ResolveGraph, RemoveTracked, ReportDrift, LinkUnsynced, RunFails,
           RemovalFails, TypeOK
    <3>3. CASE UseStored(c) \/ ReuseEqual(c) \/ LinkFacts(c)
      BY <1>3, <3>3 DEF UseStored, ReuseEqual, LinkFacts, Take, TypeOK
    <3>4. CASE ParseFacts(c) \/ ParseWithoutPublish(c)
      BY <1>3, <3>4 DEF ParseFacts, ParseWithoutPublish, Take, TypeOK
    <3>5. CASE CrashBuilder(c) \/ EndRun(c)
      BY <1>3, <3>5 DEF CrashBuilder, EndRun, Leave, TypeOK
    <3> QED BY <1>3, <3>1, <3>2, <3>3, <3>4, <3>5 DEF BuilderStep
  <2> QED BY <1>2, <2>1
<1>4. CASE Analyze(b)
  <2>1. /\ pc[b] = "idle" /\ why'[b] = "use" /\ spent'[b] = 0 /\ output'[b] = output[b]
        /\ pc'[b] \in {"inspect", "removing"}
    BY <1>1, <1>4 DEF Analyze, AfterScopeCheck, PaidFor, TypeOK
  <2> QED BY <2>1, InHand DEF PaidFor
<1>5. CASE InspectMisses(b) \/ LinkTaken(b)
  <2>1. CASE InspectMisses(b)
    <3>1. /\ spent'[b] = spent[b] /\ output'[b] = output[b]
          /\ why'[b] = why[b] /\ todo'[b] = todo[b]
          /\ why[b] \in {"use", "publish", "compare"}
          /\ pc'[b] = CASE why[b] = "use"     -> "parse"
                        [] why[b] = "publish" -> "link"
                        [] why[b] = "compare" -> "conflict"
      BY <2>1 DEF InspectMisses, TypeOK
    <3> QED BY <1>2, <3>1
  <2>2. CASE LinkTaken(b)
    <3>1. /\ spent'[b] = spent[b] /\ output'[b] = output[b] /\ todo'[b] = todo[b]
          /\ pc[b] = "link" /\ pc'[b] = "inspect" /\ why'[b] = "compare"
      BY <2>2 DEF LinkTaken, TypeOK
    <3> QED BY <1>1, <3>1 DEF PaidFor
  <2> QED BY <1>5, <2>1, <2>2
<1>6. CASE \/ InspectFinds(b) \/ OpenVanished(b) \/ UseDamaged(b) \/ Conflict(b)
           \/ ResolveGraph(b) \/ RemoveTracked(b) \/ ReportDrift(b)
           \/ LinkUnsynced(b) \/ RunFails(b) \/ RemovalFails(b)
  <2>1. /\ spent'[b] = spent[b] /\ output'[b] = output[b]
        /\ why'[b] = why[b] /\ todo'[b] = todo[b]
        /\ \/ pc'[b] = pc[b]
           \/ pc'[b] \in {"open", "vanished", "conflict", "done", "removing", "drift",
                          "failed", "dirty"}
           \/ pc'[b] = "parseOnly" /\ why[b] = "use"
    BY <1>6 DEF InspectFinds, OpenVanished, UseDamaged, Conflict, ResolveGraph,
         RemoveTracked, ReportDrift, LinkUnsynced, RunFails, RemovalFails,
         AfterScopeCheck, TypeOK
  <2> QED BY <1>2, <2>1
<1>7. CASE UseStored(b) \/ ReuseEqual(b) \/ LinkFacts(b)
  <2>1. PICK f \in Facts : Take(b, f)
    BY <1>7 DEF UseStored, ReuseEqual, LinkFacts, TypeOK
  <2>2. /\ spent'[b] = spent[b] /\ todo[b] # <<>>
        /\ pc'[b] \in {"inspect", "resolve", "removing"}
    BY <1>7, InHand DEF UseStored, ReuseEqual, LinkFacts, AfterScopeCheck, NextFile,
                        FileSteps, TypeOK
  <2>3. spent'[b] <= NodesOf(output[b]) + Cost[Head(todo[b])]
    BY <1>1, <2>2, InHand DEF PaidFor
  <2> QED BY <2>1, <2>2, <2>3, TakePaid
<1>8. CASE ParseFacts(b) \/ ParseWithoutPublish(b)
  <2> DEFINE k == Head(todo[b])
  <2>1. /\ pc[b] \in {"parse", "parseOnly"} /\ todo[b] # <<>>
        /\ spent'[b] = spent[b] + Consumed(k, Left(b))
    BY <1>8, InHand DEF ParseFacts, ParseWithoutPublish, FileSteps, TypeOK
  <2>2. spent[b] <= limit[b]
    BY DEF TypeOK
  <2>3. k \in Keys /\ Cost[k] \in Nat /\ spent[b] \in Nat /\ limit[b] \in Nat
        /\ NodesOf(output[b]) \in Nat
    BY <2>1, InHand
  <2> HIDE DEF k
  <2>4. spent[b] <= NodesOf(output[b])
    BY <1>1, <2>1, <2>3 DEF PaidFor
  <2>5. spent'[b] <= NodesOf(output[b]) + Cost[k]
    BY <2>1, <2>2, <2>3, <2>4 DEF Consumed, Left
  <2>6. CASE ParseFacts(b)
    <3>1. /\ output'[b] = output[b] /\ todo'[b] = todo[b] /\ why'[b] = "publish"
          /\ pc'[b] \in {"inspect", "removing"}
      BY <2>6 DEF ParseFacts, AfterScopeCheck, TypeOK
    <3> QED BY <2>1, <2>5, <3>1 DEF PaidFor, k
  <2>7. CASE ParseWithoutPublish(b)
    <3>1. FactsWithin(k, Left(b)) \in Facts /\ Take(b, FactsWithin(k, Left(b)))
      BY <2>3, <2>7, ParseTypes DEF ParseWithoutPublish, k
    <3>2. pc'[b] \in {"inspect", "resolve", "removing"}
      BY <2>7 DEF ParseWithoutPublish, AfterScopeCheck, NextFile, TypeOK
    <3> QED BY <2>1, <2>5, <3>1, <3>2, TakePaid DEF k
  <2> QED BY <1>8, <2>6, <2>7
<1>9. CASE CrashBuilder(b) \/ EndRun(b)
  <2>1. /\ pc'[b] = "idle" /\ why'[b] = "use" /\ spent'[b] = 0 /\ output'[b] = <<>>
    BY <1>9 DEF CrashBuilder, EndRun, Leave, TypeOK
  <2>2. NodesOf(<<>>) \in Nat
    <3>1. <<>> \in Seq(Keys \X Facts)
      OBVIOUS
    <3> QED BY <3>1, NodesCounted
  <2> QED BY <2>1, <2>2 DEF PaidFor
<1>10. CASE MediumNext \/ UNCHANGED vars
  <2>1. UNCHANGED runVars
    BY <1>10 DEF MediumNext, DamageFacts, vars
  <2> QED BY <1>2, <2>1 DEF runVars
<1> QED BY <1>3, <1>4, <1>5, <1>6, <1>7, <1>8, <1>9, <1>10
        DEF Next, BuilderNext, BuilderStep

\* A parse that leaves something out had less than the file's nodes left, and what it
\* had spent it had spent on the files done.
THEOREM CutsFollowTheBudget == Spec => CutsOnlyBeyondBudget
<1>1. Init => Paid
  <2> SUFFICES ASSUME Init, NEW b \in Builders PROVE PaidFor(b)
    BY DEF Paid
  <2>1. pc[b] = "idle" /\ why[b] = "use" /\ spent[b] = 0
    BY DEF Init
  <2> QED BY <2>1, InitTypes, InHand DEF PaidFor
<1>2. ASSUME TypeOK, Paid, [Next]_vars, NEW b \in Builders,
             pc[b] \in {"parse", "parseOnly"}, pc'[b] \notin {pc[b], "failed", "idle"},
             fact'[b] # "whole"
      PROVE  NodesOf(output[b]) + Cost[Head(todo[b])] > limit[b]
  <2>1. ParseFacts(b) \/ ParseWithoutPublish(b)
    <3>1. ~(MediumNext \/ UNCHANGED vars)
      BY <1>2 DEF MediumNext, DamageFacts, vars, runVars
    <3>2. PICK c \in Builders :
             \/ Analyze(c) \/ BuilderStep(c) \/ LinkUnsynced(c) \/ RunFails(c)
             \/ RemovalFails(c) \/ CrashBuilder(c) \/ EndRun(c)
      BY <1>2, <3>1 DEF Next, BuilderNext
    <3>3. \E x : pc' = [pc EXCEPT ![c] = x] \/ UNCHANGED pc
      BY <3>2 DEF BuilderStep, Analyze, InspectMisses, InspectFinds, OpenVanished, UseStored,
           UseDamaged, ReuseEqual, Conflict, ParseFacts, ParseWithoutPublish, LinkFacts,
           LinkUnsynced, LinkTaken, ResolveGraph, RunFails, RemoveTracked, ReportDrift,
           RemovalFails, EndRun, CrashBuilder, Leave
    <3>4. c = b
      BY <1>2, <3>3 DEF TypeOK
    <3>5. ~(\/ Analyze(b) \/ InspectMisses(b) \/ InspectFinds(b) \/ OpenVanished(b)
            \/ UseStored(b) \/ UseDamaged(b) \/ ReuseEqual(b) \/ Conflict(b) \/ LinkFacts(b)
            \/ LinkTaken(b) \/ ResolveGraph(b) \/ RemoveTracked(b) \/ ReportDrift(b)
            \/ LinkUnsynced(b) \/ RemovalFails(b))
      BY <1>2 DEF Analyze, InspectMisses, InspectFinds, OpenVanished, UseStored,
           UseDamaged, ReuseEqual, Conflict, LinkFacts, LinkUnsynced, LinkTaken,
           ResolveGraph, RemoveTracked, ReportDrift, RemovalFails
    <3>6. ~(RunFails(b) \/ CrashBuilder(b) \/ EndRun(b))
      BY <1>2 DEF RunFails, CrashBuilder, EndRun, Leave, TypeOK
    <3> QED BY <3>2, <3>4, <3>5, <3>6 DEF BuilderStep
  <2> DEFINE k == Head(todo[b])
  <2>2. fact'[b] = FactsWithin(k, Left(b))
    <3>1. fact' = [fact EXCEPT ![b] = FactsWithin(k, Left(b))]
      BY <2>1 DEF ParseFacts, ParseWithoutPublish
    <3>2. fact \in [Builders -> Facts]
      BY <1>2 DEF TypeOK
    <3> HIDE DEF k
    <3> QED BY <3>1, <3>2
  <2>3. k \in Keys /\ Cost[k] \in Nat /\ spent[b] \in Nat /\ limit[b] \in Nat
        /\ NodesOf(output[b]) \in Nat
    BY <1>2, InHand DEF FileSteps
  <2> HIDE DEF k
  <2>4. spent[b] <= NodesOf(output[b])
    BY <1>2, <2>3 DEF Paid, PaidFor
  <2>5. Left(b) < Cost[k]
    BY <1>2, <2>2, <2>3 DEF FactsWithin, Left
  <2> QED BY <2>3, <2>4, <2>5 DEF Left, k
<1>3. TypeOK /\ Paid /\ [Next]_vars =>
        [\A b \in Builders :
           /\ pc[b] \in {"parse", "parseOnly"}
           /\ pc'[b] \notin {pc[b], "failed", "idle"}
           /\ fact'[b] # "whole"
           => NodesOf(output[b]) + Cost[Head(todo[b])] > limit[b]]_vars
  BY <1>2
<1> QED BY <1>1, <1>3, NextPaid, FactsTypeCorrect, PTL DEF Spec, CutsOnlyBeyondBudget

-----------------------------------------------------------------------------
(* The query: what its states keep *)

Resources == {"paths", "rows", "symbols", "nodes", "edges"}

\* An edge is the record of its fields.
IsEdge(e) ==
    e = [kind |-> e.kind, from |-> e.from, to |-> e.to, name |-> e.name,
         path |-> e.path, place |-> e.place, lost |-> e.lost]

\* The use an edge stands for, in the base: its place, and its name but for an
\* import.
StandsFor(e, u) ==
    /\ u.place = e.place
    /\ IF e.kind \in Imports THEN u.kind \in Imports
       ELSE u.kind \in {"calls", e.kind} /\ u.name = TargetName(e)

Shapes ==
    /\ candidate \in Candidates /\ budget \in Budgets
    /\ phase \in {"delta", "overlay", "seeds", "traverse", "done"}
    /\ DOMAIN used = Resources /\ \A r \in Resources : used[r] \in Nat /\ used[r] <= budget[r]
    /\ DOMAIN delta = {"files", "symbols", "edges"}
    /\ DOMAIN overlay = {"tombs", "symbols", "out", "inc", "suppressed"}
    /\ DOMAIN search = {"roots", "seen", "frontier", "next", "depth", "output", "known", "halted"}
    /\ toResolve \subseteq Changed /\ dependents \subseteq Paths \ Changed
    /\ Changed \subseteq queued /\ queue \subseteq queued /\ queued \subseteq Paths
    /\ partial \subseteq {"index", "query", "output"}
    /\ phase = "delta" => pending \subseteq AllSymbols(Base) /\ \A s \in pending : s[1] \in Changed
    /\ phase = "overlay" => pending \subseteq AllSymbols(Base)
    /\ phase = "seeds" => pending \subseteq AllSymbols(candidate)
    /\ phase # "delta" => toResolve = {} /\ dependents = {}

\* A symbol that takes the place of another has its name.
Replacing ==
    \A r \in replaced :
        r[1] \in AllSymbols(Base) /\ r[2] \in AllSymbols(candidate) /\ r[1][2] = r[2][2]

\* What was made of a file is written in it, ...
Resolving ==
    /\ delta.files \subseteq Paths /\ IsFiniteSet(delta.edges)
    /\ \A s \in delta.symbols : s[1] \in delta.files /\ s \in SymbolsOf(candidate, s[1])
    /\ \A e \in delta.edges :
          /\ IsEdge(e) /\ e.lost = NoSymbol
          /\ e.path \in delta.files /\ e.from \in delta.symbols /\ StandsInText(e)

\* ... and every call that is written in it was made an edge, unless the symbols
\* ran out before its first one. Then they stay out, for every other file too.
HasSymbols(p) == \E s \in delta.symbols : s[1] = p
Starved(p) == candidate[p].symbols # {} /\ ~HasSymbols(p)
Stands(edges, p, u) ==
    \E e \in edges : e.path = p /\ e.kind = "calls" /\ e.place = u.place /\ Named(e) = u.name
ResolvedWhole ==
    /\ \A p \in delta.files :
          HasSymbols(p) => \A u \in CallsOf(candidate[p]) : Stands(delta.edges, p, u)
    /\ \A p \in delta.files :
          Starved(p) => used.symbols = budget.symbols /\ delta.symbols # {}
    /\ phase = "delta" /\ used.symbols > 0 => delta.symbols # {}
    /\ \A p \in Changed : candidate[p] = NoFile \/ p \in toResolve \cup delta.files

\* An unchanged file is resolved only if it uses a symbol of a changed one.
UsesChanged(q) ==
    \E e \in BaseEdges : /\ e.path = q
                         /\ e.to \in AllSymbols(Base) /\ e.to[1] \in Changed
Depending == \A q \in (dependents \cup delta.files) \ Changed : UsesChanged(q)

\* The overlay: where its edges come from, and how they are found.
Laying ==
    /\ overlay.tombs \subseteq Changed \cup delta.files
    /\ IsFiniteSet(overlay.out) /\ overlay.suppressed \subseteq BaseEdges
    /\ \A e \in overlay.out :
          /\ IsEdge(e) /\ e.from # NoSymbol
          /\ e \in delta.edges \/ (e.lost # NoSymbol /\ e.to = NoSymbol)
    /\ \A x \in overlay.inc : x[2] \in overlay.out
    /\ \A e \in overlay.out : \A s \in {e.to, e.lost} : s # NoSymbol => <<s, e>> \in overlay.inc
    /\ phase = "delta" =>
          /\ overlay.tombs = {} /\ overlay.out = {} /\ overlay.inc = {} /\ overlay.suppressed = {}
          /\ queried = {} /\ queue = Changed /\ queued = Changed

\* As long as no budget ran out, it left nothing out: a path taken from the queue
\* is laid with all it has, the callers of its base symbols are queued or read,
\* and an edge is suppressed where another stands in its place. No path with
\* symbols is laid once a file is starved of its ours.
LaidWhole ==
    "index" \notin partial =>
    /\ queued \ queue \subseteq overlay.tombs
    /\ \A e \in delta.edges : e.path \in overlay.tombs => e \in overlay.out
    /\ phase = "overlay" => \A p \in overlay.tombs : SymbolsOf(Base, p) \subseteq pending \cup queried
    /\ \A s \in queried : \A e \in Incoming(s) : e.path \in queued
    /\ \A e \in overlay.suppressed :
          \/ e.path \in overlay.tombs
          \/ \E f \in overlay.out :
                f.path = e.path /\ f.kind = e.kind /\ f.place = e.place /\ Named(f) = TargetName(e)
    /\ (\E p \in delta.files : Starved(p)) => \A s \in delta.symbols : s[1] \notin overlay.tombs
    /\ phase \notin {"delta", "overlay"} => Changed \subseteq overlay.tombs

\* The search: what it has seen and listed is of the merged graph and within its
\* limits; nothing waits for a depth that is beyond the last.
Searching ==
    /\ IsFiniteSet(search.roots) /\ NoSymbol \notin search.roots
    /\ IsFiniteSet(search.seen) /\ NoSymbol \notin search.seen
    /\ Cardinality(search.seen) <= budget.nodes
    /\ search.frontier \cup search.next \subseteq search.seen
    /\ search.depth \in Nat /\ search.depth <= budget.depth
    /\ search.depth = budget.depth => search.next = {}
    /\ IsFiniteSet(search.output) /\ search.output \subseteq View
    /\ Cardinality(search.output) <= budget.edges
    /\ search.halted => "query" \in partial
    /\ phase \in {"delta", "overlay", "seeds"} =>
          search.output = {} /\ search.seen = {} /\ search.next = {}
    /\ phase # "done" => result = {}

\* As long as no most cut it, it has taken all there is at the symbols done.
Around(s) ==
    \A e \in View : s \in {e.from, e.to, e.lost} =>
        e \in search.output /\ {e.from, e.to} \subseteq search.seen \cup {NoSymbol}
SearchedWhole ==
    partial \subseteq {"index"} =>
        \A s \in search.seen \ (search.frontier \cup search.next) : Around(s)

QueryInv ==
    /\ Shapes /\ Replacing /\ Resolving /\ ResolvedWhole /\ Depending
    /\ Laying /\ LaidWhole /\ Searching /\ SearchedWhole
    /\ NoCallIsLost /\ OutputIsOfTheCandidate /\ OmissionsAreDeclared
    /\ result \subseteq search.output

-----------------------------------------------------------------------------
(* Finite sets, and what a budget leaves of them *)

LEMMA SetImage ==
  ASSUME NEW S, IsFiniteSet(S), NEW f
  PROVE  IsFiniteSet({f[x] : x \in S}) /\ Cardinality({f[x] : x \in S}) <= Cardinality(S)
<1> DEFINE T == {f[x] : x \in S}  h == [x \in S |-> f[x]]
<1>1. h \in Surjection(S, T)
  BY DEF Surjection
<1> HIDE DEF T, h
<1>2. IsFiniteSet(T) /\ Cardinality(T) <= Cardinality(S)
  BY <1>1, FS_Surjection
<1> QED BY <1>2 DEF T

\* As many as the most allows.
LEMMA Bounded ==
  ASSUME NEW all, IsFiniteSet(all), NEW most \in Nat, NEW some \in SUBSET all,
         Cardinality(some) = Smaller(Cardinality(all), most)
  PROVE  /\ IsFiniteSet(some) /\ Cardinality(some) \in Nat
         /\ Cardinality(some) <= most /\ Cardinality(some) <= Cardinality(all)
         /\ some = all \/ Cardinality(some) = most
<1>1. /\ IsFiniteSet(some) /\ Cardinality(some) \in Nat /\ Cardinality(all) \in Nat
      /\ Cardinality(some) = Cardinality(all) => some = all
  BY FS_Subset, FS_CardinalityType
<1> QED BY <1>1 DEF Smaller

LEMMA RowsFacts ==
  ASSUME NEW all, IsFiniteSet(all), budget.rows \in Nat, NEW paid \in Nat, paid <= budget.rows,
         NEW some \in Rows(all, paid)
  PROVE  /\ some \subseteq all /\ IsFiniteSet(some) /\ Cardinality(some) \in Nat
         /\ paid + Cardinality(some) <= budget.rows
         /\ Cardinality(some) # RowLimit(paid) => some = all
<1>1. RowLimit(paid) \in Nat /\ paid + RowLimit(paid) = budget.rows
  BY DEF RowLimit
<1>2. some \in SUBSET all /\ Cardinality(some) = Smaller(Cardinality(all), RowLimit(paid))
  BY DEF Rows
<1>3. /\ IsFiniteSet(some) /\ Cardinality(some) \in Nat
      /\ Cardinality(some) <= RowLimit(paid)
      /\ some = all \/ Cardinality(some) = RowLimit(paid)
  BY <1>1, <1>2, Bounded
<1> QED BY <1>1, <1>2, <1>3, Bounded

LEMMA AffordableFacts ==
  ASSUME NEW all, IsFiniteSet(all), NEW r, budget[r] \in Nat, used[r] \in Nat, used[r] <= budget[r],
         NEW some \in Affordable(all, r)
  PROVE  /\ some \subseteq all /\ IsFiniteSet(some) /\ Cardinality(some) \in Nat
         /\ used[r] + Cardinality(some) <= budget[r]
         /\ used[r] + Cardinality(some) < budget[r] => some = all
         /\ Cardinality(some) = Cardinality(all) => some = all
<1> DEFINE most == budget[r] - used[r]
<1>1. most \in Nat /\ some \in SUBSET all /\ Cardinality(some) = Smaller(Cardinality(all), most)
  BY DEF Affordable
<1> HIDE DEF most
<1>2. /\ IsFiniteSet(some) /\ Cardinality(some) \in Nat
      /\ Cardinality(some) <= most
      /\ some = all \/ Cardinality(some) = most
  BY <1>1, Bounded
<1>3. Cardinality(some) = Cardinality(all) => some = all
  BY <1>1, FS_Subset
<1> QED BY <1>1, <1>2, <1>3 DEF most

-----------------------------------------------------------------------------
(* The graphs *)

LEMMA TextFacts ==
  ASSUME NEW text \in Candidates \cup {Base}, NEW p \in Paths
  PROVE  /\ IsFiniteSet(text[p].symbols) /\ IsFiniteSet(text[p].uses)
         /\ \A s \in text[p].symbols : s[2] \in Nat
         /\ \A u \in text[p].uses :
              u.by \in text[p].symbols /\ u.kind \in {"calls", "references", "imports", "exports"}
         /\ p \in Nat /\ p # 0
BY GraphAssumption

LEMMA SymbolsFacts ==
  ASSUME NEW text \in Candidates \cup {Base}, NEW p \in Paths
  PROVE  /\ IsFiniteSet(SymbolsOf(text, p))
         /\ \A s \in SymbolsOf(text, p) : s = <<p, s[2], s[3]>> /\ s[1] = p /\ s[3] \in Nat /\ s # NoSymbol
         /\ SymbolsOf(text, p) \subseteq AllSymbols(text)
         /\ \A u \in text[p].uses : <<p, u.by[1], u.by[2]>> \in SymbolsOf(text, p)
         /\ SymbolsOf(text, p) = {} <=> text[p].symbols = {}
<1> DEFINE f == [s \in text[p].symbols |-> <<p, s[1], s[2]>>]
<1>1. SymbolsOf(text, p) = {f[s] : s \in text[p].symbols}
  BY DEF SymbolsOf
<1>2. IsFiniteSet({f[s] : s \in text[p].symbols})
  <2> HIDE DEF f
  <2> QED BY TextFacts, SetImage
<1>3. IsFiniteSet(SymbolsOf(text, p))
  BY <1>1, <1>2
<1>4. \A s \in SymbolsOf(text, p) : s = <<p, s[2], s[3]>> /\ s[1] = p /\ s[3] \in Nat /\ s # NoSymbol
  <2> SUFFICES ASSUME NEW s \in text[p].symbols, NEW t, t = <<p, s[1], s[2]>>
               PROVE  t = <<p, t[2], t[3]>> /\ t[1] = p /\ t[3] \in Nat /\ t # NoSymbol
    BY DEF SymbolsOf
  <2>1. t[1] = p /\ t[2] = s[1] /\ t[3] = s[2]
    OBVIOUS
  <2>2. s[2] \in Nat /\ p # 0
    BY TextFacts
  <2>3. NoSymbol[1] = 0
    BY DEF NoSymbol
  <2> QED BY <2>1, <2>2, <2>3
<1>5. \A u \in text[p].uses : <<p, u.by[1], u.by[2]>> \in SymbolsOf(text, p)
  BY TextFacts DEF SymbolsOf
<1>6. SymbolsOf(text, p) = {} <=> text[p].symbols = {}
  BY DEF SymbolsOf
<1>7. SymbolsOf(text, p) \subseteq AllSymbols(text)
  BY DEF AllSymbols
<1> QED BY <1>3, <1>4, <1>5, <1>6, <1>7

LEMMA AllSymbolsFacts ==
  ASSUME NEW text \in Candidates \cup {Base}, NEW s \in AllSymbols(text)
  PROVE  s[1] \in Paths /\ s \in SymbolsOf(text, s[1]) /\ s # NoSymbol /\ s[3] \in Nat
BY SymbolsFacts DEF AllSymbols

LEMMA EdgeFacts ==
  ASSUME NEW kind, NEW from, NEW to, NEW name, NEW path, NEW place
  PROVE  LET e == Edge(kind, from, to, name, path, place)
         IN  /\ IsEdge(e) /\ e.kind = kind /\ e.from = from /\ e.to = to /\ e.name = name
             /\ e.path = path /\ e.place = place /\ e.lost = NoSymbol
<1> HIDE DEF NoSymbol
<1> QED BY DEF Edge, IsEdge

LEMMA AllSymbolsFinite == IsFiniteSet(AllSymbols(Base))
<1> DEFINE part == [p \in Paths |-> SymbolsOf(Base, p)]
           parts == {part[p] : p \in Paths}
<1>1. AllSymbols(Base) = UNION parts
  BY DEF AllSymbols
<1>2. IsFiniteSet(parts)
  <2> HIDE DEF part
  <2> QED BY GraphAssumption, SetImage
<1>3. \A T \in parts : IsFiniteSet(T)
  BY SymbolsFacts
<1> HIDE DEF parts
<1> QED BY <1>1, <1>2, <1>3, FS_UNION

LEMMA PairIsFinite ==
  ASSUME NEW a, NEW b
  PROVE  IsFiniteSet({a, b})
<1>1. IsFiniteSet({} \cup {a})
  BY FS_EmptySet, FS_AddElement
<1>2. IsFiniteSet(({} \cup {a}) \cup {b})
  BY <1>1, FS_AddElement
<1>3. {a, b} = ({} \cup {a}) \cup {b}
  OBVIOUS
<1> QED BY <1>2, <1>3

\* The edges the base graph has of a use.
LEMMA EdgesOfFacts ==
  ASSUME NEW p \in Paths, NEW u \in Base[p].uses
  PROVE  /\ IsFiniteSet(EdgesOf(p, u))
         /\ \A e \in EdgesOf(p, u) :
              /\ IsEdge(e) /\ e.from = <<p, u.by[1], u.by[2]>> /\ e.path = p
              /\ e.lost = NoSymbol /\ e.to \in AllSymbols(Base) \cup {NoSymbol}
              /\ StandsFor(e, u)
         /\ u.kind = "calls" /\ u.name \notin Builtins =>
              \E e \in EdgesOf(p, u) : e.kind = "calls" /\ e.place = u.place /\ TargetName(e) = u.name
<1> DEFINE by == <<p, u.by[1], u.by[2]>>
           targets == {s \in AllSymbols(Base) : s[2] = u.name}
           nothing == ""
           To(kind, t) == Edge(kind, by, t, nothing, p, u.place)
           bare == Edge(u.kind, by, NoSymbol, u.name, p, u.place)
           open == {bare}
           only == CHOOSE t \in targets : TRUE
           all == {To(kind, t) : kind \in {"imports", u.kind}, t \in targets}
           Good(e) == /\ IsEdge(e) /\ e.from = by /\ e.path = p
                      /\ e.lost = NoSymbol /\ e.to \in AllSymbols(Base) \cup {NoSymbol}
                      /\ StandsFor(e, u)
<1>1. EdgesOf(p, u) =
        CASE u.kind \in Imports -> all
          [] u.kind = "calls" ->
               IF Cardinality(targets) = 1 THEN {To("calls", only), To("references", only)}
               ELSE IF targets = {} /\ u.name \in Builtins THEN {} ELSE open
          [] OTHER ->
               IF Cardinality(targets) = 1 THEN {To("references", only)}
               ELSE IF targets = {} THEN {} ELSE open
  BY DEF EdgesOf
<1>2. u.kind \in {"calls", "references", "imports", "exports"}
  BY TextFacts
<1>3. IsFiniteSet(targets)
  BY AllSymbolsFinite, FS_Subset
<1>4. ASSUME NEW t \in targets PROVE t \in AllSymbols(Base) /\ t[2] = u.name /\ t # NoSymbol
  BY AllSymbolsFacts
<1>5. Cardinality(targets) = 1 => only \in targets
  <2>1. Cardinality(targets) = 1 => targets # {}
    <3> HIDE DEF targets
    <3> QED BY FS_EmptySet
  <2> QED BY <2>1
<1>6. ASSUME NEW kind, NEW t \in targets
      PROVE  /\ IsEdge(To(kind, t)) /\ To(kind, t).kind = kind /\ To(kind, t).from = by
             /\ To(kind, t).to = t /\ To(kind, t).path = p /\ To(kind, t).place = u.place
             /\ To(kind, t).lost = NoSymbol /\ TargetName(To(kind, t)) = u.name
  <2>1. /\ IsEdge(To(kind, t)) /\ To(kind, t).kind = kind /\ To(kind, t).from = by
        /\ To(kind, t).to = t /\ To(kind, t).path = p /\ To(kind, t).place = u.place
        /\ To(kind, t).lost = NoSymbol
    <3> HIDE DEF by, targets, nothing
    <3> QED BY EdgeFacts
  <2>2. t # NoSymbol /\ t[2] = u.name
    BY <1>4
  <2> HIDE DEF To, targets
  <2> QED BY <2>1, <2>2 DEF TargetName
<1>7. /\ IsEdge(bare) /\ bare.kind = u.kind /\ bare.from = by /\ bare.to = NoSymbol
      /\ bare.path = p /\ bare.place = u.place /\ bare.lost = NoSymbol /\ TargetName(bare) = u.name
  <2> HIDE DEF by
  <2> QED BY EdgeFacts DEF TargetName
<1>8. ASSUME u.kind \notin Imports PROVE Good(bare)
  <2> HIDE DEF bare, by
  <2> QED BY <1>7, <1>8 DEF StandsFor
<1>9. ASSUME NEW kind, NEW t \in targets,
             IF kind \in Imports THEN u.kind \in Imports ELSE u.kind \in {"calls", kind}
      PROVE  Good(To(kind, t))
  <2>1. t \in AllSymbols(Base)
    OBVIOUS
  <2> HIDE DEF To, by, targets
  <2> QED BY <1>6, <1>9, <2>1 DEF StandsFor
<1>10. IsFiniteSet(all)
  <2> DEFINE dom == {"imports", u.kind} \X targets
             g == [x \in dom |-> To(x[1], x[2])]
  <2>1. IsFiniteSet({"imports", u.kind})
    BY PairIsFinite
  <2>2. IsFiniteSet(dom)
    BY <1>3, <2>1, FS_Product
  <2>3. all = {g[x] : x \in dom}
    <3> HIDE DEF To, targets
    <3>1. \A x \in dom : g[x] = To(x[1], x[2]) /\ x[1] \in {"imports", u.kind} /\ x[2] \in targets
      OBVIOUS
    <3>2. \A k \in {"imports", u.kind}, t \in targets : <<k, t>> \in dom /\ g[<<k, t>>] = To(k, t)
      OBVIOUS
    <3> HIDE DEF g, dom
    <3>3. ASSUME NEW e \in all PROVE e \in {g[x] : x \in dom}
      <4>1. PICK k \in {"imports", u.kind}, t \in targets : e = To(k, t)
        OBVIOUS
      <4>2. <<k, t>> \in dom /\ g[<<k, t>>] = e
        BY <3>2, <4>1
      <4> DEFINE x == <<k, t>>
      <4>3. x \in dom /\ g[x] = e
        BY <4>2
      <4> HIDE DEF x, To, targets
      <4> QED BY <4>3
    <3>4. ASSUME NEW x \in dom PROVE g[x] \in all
      BY <3>1
    <3> HIDE DEF all
    <3> QED BY <3>3, <3>4
  <2> HIDE DEF g, dom, all
  <2> QED BY <2>2, <2>3, SetImage
<1> HIDE DEF To, bare, targets, only, by
<1>11. CASE u.kind \in Imports
  <2>1. EdgesOf(p, u) = all /\ u.kind # "calls"
    BY <1>1, <1>11 DEF Imports
  <2>2. \A e \in all : Good(e)
    <3> SUFFICES ASSUME NEW kind \in {"imports", u.kind}, NEW t \in targets
                 PROVE  Good(To(kind, t))
      OBVIOUS
    <3>1. kind \in Imports
      BY <1>11 DEF Imports
    <3> HIDE DEF Good
    <3> QED BY <1>9, <1>11, <3>1
  <2> HIDE DEF all
  <2> QED BY <1>10, <2>1, <2>2 DEF by
<1>12. CASE u.kind = "calls"
  <2>1. u.kind \notin Imports
    BY <1>12 DEF Imports
  <2>2. CASE Cardinality(targets) = 1
    <3>1. EdgesOf(p, u) = {To("calls", only), To("references", only)}
      BY <1>1, <1>12, <2>1, <2>2
    <3>2. Good(To("calls", only)) /\ Good(To("references", only))
      <4>1. "calls" \notin Imports /\ "references" \notin Imports
        BY DEF Imports
      <4>2. only \in targets
        BY <1>5, <2>2
      <4> HIDE DEF Good
      <4> QED BY <1>9, <1>12, <4>1, <4>2
    <3>3. To("calls", only).kind = "calls" /\ To("calls", only).place = u.place
          /\ TargetName(To("calls", only)) = u.name
      BY <1>5, <1>6, <2>2
    <3>4. IsFiniteSet(EdgesOf(p, u))
      BY <3>1, PairIsFinite
    <3> QED BY <3>1, <3>2, <3>3, <3>4 DEF by
  <2>3. CASE Cardinality(targets) # 1 /\ targets = {} /\ u.name \in Builtins
    <3>1. EdgesOf(p, u) = {}
      BY <1>1, <1>12, <2>1, <2>3
    <3> QED BY <2>3, <3>1, FS_EmptySet
  <2>4. CASE Cardinality(targets) # 1 /\ ~(targets = {} /\ u.name \in Builtins)
    <3>1. EdgesOf(p, u) = {bare}
      BY <1>1, <1>12, <2>1, <2>4
    <3>2. IsFiniteSet(EdgesOf(p, u))
      BY <3>1, FS_EmptySet, FS_AddElement
    <3> QED BY <1>7, <1>8, <1>12, <2>1, <3>1, <3>2 DEF by
  <2> QED BY <2>2, <2>3, <2>4
<1>13. CASE u.kind = "references"
  <2>1. u.kind \notin Imports /\ u.kind # "calls"
    BY <1>13 DEF Imports
  <2>2. CASE Cardinality(targets) = 1
    <3>1. EdgesOf(p, u) = {To("references", only)}
      BY <1>1, <2>1, <2>2
    <3>2. Good(To("references", only))
      <4>1. "references" \notin Imports
        BY DEF Imports
      <4>2. only \in targets
        BY <1>5, <2>2
      <4> HIDE DEF Good
      <4> QED BY <1>9, <1>13, <4>1, <4>2
    <3>3. IsFiniteSet(EdgesOf(p, u))
      BY <3>1, FS_EmptySet, FS_AddElement
    <3> QED BY <2>1, <3>1, <3>2, <3>3 DEF by
  <2>3. CASE Cardinality(targets) # 1 /\ targets = {}
    <3>1. EdgesOf(p, u) = {}
      BY <1>1, <2>1, <2>3
    <3> QED BY <2>1, <3>1, FS_EmptySet
  <2>4. CASE Cardinality(targets) # 1 /\ targets # {}
    <3>1. EdgesOf(p, u) = {bare}
      BY <1>1, <2>1, <2>4
    <3>2. IsFiniteSet(EdgesOf(p, u))
      BY <3>1, FS_EmptySet, FS_AddElement
    <3> QED BY <1>8, <2>1, <3>1, <3>2 DEF by
  <2> QED BY <2>2, <2>3, <2>4
<1> QED BY <1>2, <1>11, <1>12, <1>13 DEF Imports

LEMMA BaseEdgesFacts ==
  /\ IsFiniteSet(BaseEdges)
  /\ \A e \in BaseEdges :
        /\ e.path \in Paths /\ IsEdge(e) /\ e.lost = NoSymbol
        /\ e.from \in SymbolsOf(Base, e.path) /\ e.from[1] = e.path
        /\ e.to \in AllSymbols(Base) \cup {NoSymbol}
        /\ \E u \in Base[e.path].uses : StandsFor(e, u)
  /\ \A p \in Paths : \A u \in Base[p].uses :
        u.kind = "calls" /\ u.name \notin Builtins =>
        \E e \in BaseEdges : e.path = p /\ e.kind = "calls" /\ e.place = u.place /\ TargetName(e) = u.name
                               /\ e.lost = NoSymbol
<1> DEFINE part == [p \in Paths |-> UNION {EdgesOf(p, u) : u \in Base[p].uses}]
           parts == {part[p] : p \in Paths}
<1>1. BaseEdges = UNION {UNION {EdgesOf(p, u) : u \in Base[p].uses} : p \in Paths}
  BY DEF BaseEdges
<1>2. BaseEdges = UNION parts
  BY <1>1
<1>3. IsFiniteSet(parts)
  <2> HIDE DEF part
  <2> QED BY GraphAssumption, SetImage
<1>4. \A p \in Paths : IsFiniteSet(part[p])
  <2> SUFFICES ASSUME NEW p \in Paths PROVE IsFiniteSet(part[p])
    OBVIOUS
  <2> DEFINE f == [u \in Base[p].uses |-> EdgesOf(p, u)]
             T == {f[u] : u \in Base[p].uses}
  <2>1. part[p] = UNION T
    OBVIOUS
  <2>2. IsFiniteSet(T)
    <3> HIDE DEF f
    <3> QED BY TextFacts, SetImage
  <2>3. \A x \in T : IsFiniteSet(x)
    BY EdgesOfFacts
  <2> HIDE DEF f, T, part
  <2> QED BY <2>1, <2>2, <2>3, FS_UNION
<1>5. IsFiniteSet(BaseEdges)
  <2>1. \A T \in parts : IsFiniteSet(T)
    BY <1>4
  <2> HIDE DEF parts
  <2> QED BY <1>2, <1>3, <2>1, FS_UNION
<1>6. ASSUME NEW e \in BaseEdges
      PROVE  /\ e.path \in Paths /\ IsEdge(e) /\ e.lost = NoSymbol
             /\ e.from \in SymbolsOf(Base, e.path) /\ e.from[1] = e.path
             /\ e.to \in AllSymbols(Base) \cup {NoSymbol}
             /\ \E u \in Base[e.path].uses : StandsFor(e, u)
  <2>1. PICK p \in Paths : \E u \in Base[p].uses : e \in EdgesOf(p, u)
    BY <1>1
  <2>2. PICK u \in Base[p].uses : e \in EdgesOf(p, u)
    BY <2>1
  <2>3. /\ IsEdge(e) /\ e.from = <<p, u.by[1], u.by[2]>> /\ e.path = p
        /\ e.lost = NoSymbol /\ e.to \in AllSymbols(Base) \cup {NoSymbol}
        /\ StandsFor(e, u)
    BY <2>2, EdgesOfFacts
  <2>4. e.from \in SymbolsOf(Base, p) /\ e.from[1] = p
    BY <2>3, SymbolsFacts
  <2> HIDE DEF part, parts
  <2> QED BY <2>3, <2>4
<1>7. ASSUME NEW p \in Paths, NEW u \in Base[p].uses, u.kind = "calls", u.name \notin Builtins
      PROVE  \E e \in BaseEdges : e.path = p /\ e.kind = "calls" /\ e.place = u.place /\ TargetName(e) = u.name
                                    /\ e.lost = NoSymbol
  <2>1. PICK e \in EdgesOf(p, u) : e.kind = "calls" /\ e.place = u.place /\ TargetName(e) = u.name
    BY <1>7, EdgesOfFacts
  <2>2. e \in BaseEdges
    BY <1>1
  <2> QED BY <2>1, <2>2, EdgesOfFacts
<1> QED BY <1>5, <1>6, <1>7

LEMMA BaseRowsFinite ==
  ASSUME NEW some \in SUBSET BaseEdges
  PROVE  IsFiniteSet(some)
BY BaseEdgesFacts, FS_Subset

LEMMA BudgetFacts ==
  ASSUME Shapes
  PROVE  /\ \A r \in Resources : budget[r] \in Nat /\ used[r] \in Nat /\ used[r] <= budget[r]
         /\ budget.depth \in Nat /\ budget.symbols > 0 /\ IsFiniteSet(Paths)
         /\ candidate \in Candidates \cup {Base}
<1>1. budget \in Budgets /\ candidate \in Candidates
  BY DEF Shapes
<1>2. \A r \in {"paths", "rows", "symbols", "nodes", "edges", "depth"} : budget[r] \in Nat
  BY <1>1, GraphAssumption
<1> QED BY <1>1, <1>2, GraphAssumption DEF Shapes, Resources

-----------------------------------------------------------------------------
(* Resolving one file *)

LEMMA Retarget ==
  ASSUME NEW e, IsEdge(e), NEW t
  PROVE  LET f == [e EXCEPT !.to = t]
         IN  /\ IsEdge(f) /\ f.kind = e.kind /\ f.from = e.from /\ f.to = t /\ f.name = e.name
             /\ f.path = e.path /\ f.place = e.place /\ f.lost = e.lost
BY DEF IsEdge

LEMMA Mark ==
  ASSUME NEW e, IsEdge(e), NEW s
  PROVE  LET f == [e EXCEPT !.lost = s]
         IN  /\ IsEdge(f) /\ f.kind = e.kind /\ f.from = e.from /\ f.to = e.to /\ f.name = e.name
             /\ f.path = e.path /\ f.place = e.place /\ f.lost = s
BY DEF IsEdge

LEMMA Lose ==
  ASSUME NEW e, IsEdge(e), NEW s
  PROVE  LET f == [e EXCEPT !.to = NoSymbol, !.lost = s]
         IN  /\ IsEdge(f) /\ f.kind = e.kind /\ f.from = e.from /\ f.to = NoSymbol
             /\ f.path = e.path /\ f.place = e.place /\ f.lost = s
<1> DEFINE g == [e EXCEPT !.to = NoSymbol]
<1>1. /\ IsEdge(g) /\ g.kind = e.kind /\ g.from = e.from /\ g.to = NoSymbol
      /\ g.path = e.path /\ g.place = e.place
  BY Retarget
<1> HIDE DEF g
<1> DEFINE f == [g EXCEPT !.lost = s]
<1>2. /\ IsEdge(f) /\ f.kind = g.kind /\ f.from = g.from /\ f.to = g.to
      /\ f.path = g.path /\ f.place = g.place /\ f.lost = s
  BY <1>1, Mark
<1> HIDE DEF f
<1>3. /\ IsEdge(f) /\ f.kind = e.kind /\ f.from = e.from /\ f.to = NoSymbol
      /\ f.path = e.path /\ f.place = e.place /\ f.lost = s
  BY <1>1, <1>2
<1> QED BY <1>3 DEF f, g

\* A symbol that takes the place of another has its name.
LEMMA RetargetKeepsTheName ==
  ASSUME NEW e, IsEdge(e), NEW t, t = NoSymbol <=> e.to = NoSymbol, t # NoSymbol => t[2] = e.to[2]
  PROVE  TargetName([e EXCEPT !.to = t]) = TargetName(e)
<1>1. [e EXCEPT !.to = t].to = t /\ [e EXCEPT !.to = t].name = e.name
  BY Retarget
<1> HIDE DEF NoSymbol
<1> QED BY <1>1 DEF TargetName

LEMMA ResolvedEdgesFacts ==
  ASSUME Shapes, Replacing, NEW p \in Paths, NEW ours \in SUBSET SymbolsOf(candidate, p),
         NEW rows \in SUBSET BaseEdges, \A e \in rows : e.path = p
  PROVE  LET E == ResolvedEdges(p, candidate[p], ours, rows)
         IN  /\ IsFiniteSet(E)
             /\ \A e \in E : IsEdge(e) /\ e.lost = NoSymbol /\ e.path = p /\ e.from \in ours /\ StandsInText(e)
             /\ ours # {} => \A u \in CallsOf(candidate[p]) : Stands(E, p, u)
<1> DEFINE text == candidate[p]
           kept == {e \in rows : e.from \in ours /\ StillPresent(e, TargetName(e), text)}
           Follow(t) == IF t \in ours \/ t = NoSymbol \/ ~\E r \in replaced : r[1] = t THEN t
                        ELSE (CHOOSE r \in replaced : r[1] = t)[2]
           first == CHOOSE s \in ours : \A t \in ours : s[3] <= t[3]
           Caller(u) == LET by == <<p, u.by[1], u.by[2]>> IN IF by \in ours THEN by ELSE first
           followed == {[e EXCEPT !.to = Follow(e.to)] : e \in kept}
           fresh == {Edge("calls", Caller(u), NoSymbol, u.name, p, u.place) : u \in UnretainedCalls(text, kept)}
           E == ResolvedEdges(p, candidate[p], ours, rows)
<1>1. E = followed \cup (IF ours = {} THEN {} ELSE fresh)
  BY DEF ResolvedEdges
<1>2. candidate \in Candidates \cup {Base} /\ IsFiniteSet(ours) /\ IsFiniteSet(text.uses)
  BY BudgetFacts, SymbolsFacts, FS_Subset, TextFacts
<1>3. ASSUME NEW e \in kept
      PROVE  LET f == [e EXCEPT !.to = Follow(e.to)]
             IN  /\ IsEdge(f) /\ f.lost = NoSymbol /\ f.path = p /\ f.from \in ours /\ f.kind = e.kind
                 /\ f.place = e.place /\ TargetName(f) = TargetName(e) /\ StandsInText(f)
  <2> DEFINE t == Follow(e.to)
  <2>1. IsEdge(e) /\ e.lost = NoSymbol /\ e.path = p
    BY BaseEdgesFacts
  <2>2. t = NoSymbol <=> e.to = NoSymbol
    BY AllSymbolsFacts, <1>2 DEF Replacing
  <2>3. t # NoSymbol => t[2] = e.to[2]
    BY DEF Replacing
  <2>4. StillPresent(e, TargetName(e), candidate[p])
    OBVIOUS
  <2>5. e.from \in ours
    OBVIOUS
  <2> HIDE DEF t, kept
  <2>6. TargetName([e EXCEPT !.to = t]) = TargetName(e)
    BY <2>1, <2>2, <2>3, RetargetKeepsTheName
  <2> DEFINE f == [e EXCEPT !.to = t]
  <2>7. IsEdge(f) /\ f.kind = e.kind /\ f.from = e.from /\ f.path = e.path /\ f.place = e.place /\ f.lost = e.lost
    BY <2>1, Retarget
  <2>8. TargetName(f) = TargetName(e)
    BY <2>6
  <2>9. /\ IsEdge(f) /\ f.lost = NoSymbol /\ f.path = p /\ f.from \in ours /\ f.kind = e.kind
        /\ f.place = e.place /\ TargetName(f) = TargetName(e) /\ StandsInText(f)
    <3> HIDE DEF f
    <3> QED BY <2>1, <2>4, <2>5, <2>7, <2>8 DEF StillPresent, StandsInText
  <2> QED BY <2>9 DEF t
<1>4. ASSUME ours # {}, NEW u
      PROVE  Caller(u) \in ours
  <2>1. \A s \in ours : s[3] \in Nat
    BY <1>2, SymbolsFacts
  <2> DEFINE places == {[t \in ours |-> t[3]][s] : s \in ours}
  <2>2. IsFiniteSet(places)
    <3> DEFINE place == [s \in ours |-> s[3]]
    <3> HIDE DEF place
    <3>1. IsFiniteSet({place[s] : s \in ours})
      BY <1>2, SetImage
    <3> QED BY <3>1 DEF place
  <2>3. places \subseteq Nat /\ places # {}
    BY <1>4, <2>1
  <2> HIDE DEF places
  <2>4. PICK least \in places : \A x \in places : least <= x
    BY <2>2, <2>3, HasLeast
  <2>5. \E s \in ours : \A t \in ours : s[3] <= t[3]
    BY <2>4 DEF places
  <2>6. first \in ours
    BY <2>5
  <2> QED BY <2>6
<1>5. ASSUME ours # {}, NEW u \in UnretainedCalls(text, kept)
      PROVE  LET f == Edge("calls", Caller(u), NoSymbol, u.name, p, u.place)
             IN  /\ IsEdge(f) /\ f.lost = NoSymbol /\ f.path = p /\ f.from \in ours /\ f.kind = "calls"
                 /\ f.place = u.place /\ TargetName(f) = u.name /\ StandsInText(f)
  <2>1. Caller(u) \in ours
    BY <1>4, <1>5
  <2>2. u \in candidate[p].uses /\ u.kind = "calls"
    BY DEF UnretainedCalls, CallsOf
  <2> DEFINE by == Caller(u)
  <2> HIDE DEF by
  <2> DEFINE f == Edge("calls", by, NoSymbol, u.name, p, u.place)
  <2>3. /\ IsEdge(f) /\ f.kind = "calls" /\ f.from = by /\ f.to = NoSymbol /\ f.name = u.name
        /\ f.path = p /\ f.place = u.place /\ f.lost = NoSymbol
    BY EdgeFacts
  <2>4. TargetName(f) = u.name
    BY <2>3 DEF TargetName
  <2>5. by \in ours
    BY <2>1 DEF by
  <2> HIDE DEF f
  <2>6. /\ IsEdge(f) /\ f.lost = NoSymbol /\ f.path = p /\ f.from \in ours /\ f.kind = "calls"
        /\ f.place = u.place /\ TargetName(f) = u.name /\ StandsInText(f)
    BY <2>2, <2>3, <2>4, <2>5 DEF StandsInText, Imports
  <2> QED BY <2>6 DEF f, by
<1>6. IsFiniteSet(E)
  <2>1. IsFiniteSet(followed)
    <3> DEFINE g == [e \in kept |-> [e EXCEPT !.to = Follow(e.to)]]
    <3>1. IsFiniteSet(kept)
      BY BaseRowsFinite, FS_Subset
    <3>2. followed = {g[e] : e \in kept}
      OBVIOUS
    <3> HIDE DEF g, kept, followed
    <3> QED BY <3>1, <3>2, SetImage
  <2>2. IsFiniteSet(fresh)
    <3> DEFINE calls == UnretainedCalls(text, kept)
               g == [u \in calls |-> Edge("calls", Caller(u), NoSymbol, u.name, p, u.place)]
    <3>1. calls \subseteq text.uses
      BY DEF UnretainedCalls, CallsOf
    <3>2. IsFiniteSet(calls)
      BY <3>1, <1>2, FS_Subset
    <3>3. fresh = {g[u] : u \in calls}
      OBVIOUS
    <3> HIDE DEF g, calls, fresh
    <3> QED BY <3>2, <3>3, SetImage
  <2>3. IsFiniteSet(followed \cup fresh)
    BY <2>1, <2>2, FS_Union
  <2> QED BY <1>1, <2>1, <2>3
<1>7. ASSUME NEW f \in E
      PROVE  IsEdge(f) /\ f.lost = NoSymbol /\ f.path = p /\ f.from \in ours /\ StandsInText(f)
  <2>1. CASE f \in followed
    <3>1. PICK e \in kept : f = [e EXCEPT !.to = Follow(e.to)]
      BY <2>1
    <3> QED BY <3>1, <1>3
  <2>2. CASE ours # {} /\ f \in fresh
    <3>1. PICK u \in UnretainedCalls(text, kept) : f = Edge("calls", Caller(u), NoSymbol, u.name, p, u.place)
      BY <2>2
    <3> QED BY <3>1, <2>2, <1>5
  <2> QED BY <1>1, <2>1, <2>2
<1>8. ASSUME ours # {}, NEW u \in CallsOf(candidate[p])
      PROVE  Stands(E, p, u)
  <2>1. CASE \E e \in kept : e.kind = "calls" /\ e.place = u.place /\ TargetName(e) = u.name
    <3>1. PICK e \in kept : e.kind = "calls" /\ e.place = u.place /\ TargetName(e) = u.name
      BY <2>1
    <3> DEFINE f == [e EXCEPT !.to = Follow(e.to)]
    <3>2. f \in E
      BY <1>1
    <3>3. f.lost = NoSymbol /\ f.path = p /\ f.kind = "calls" /\ f.place = u.place /\ TargetName(f) = u.name
      BY <3>1, <1>3
    <3> HIDE DEF f
    <3> QED BY <3>2, <3>3 DEF Stands, Named
  <2>2. CASE ~\E e \in kept : e.kind = "calls" /\ e.place = u.place /\ TargetName(e) = u.name
    <3>1. u \in UnretainedCalls(text, kept)
      BY <2>2 DEF UnretainedCalls
    <3> DEFINE f == Edge("calls", Caller(u), NoSymbol, u.name, p, u.place)
    <3>2. f \in E
      <4>1. f \in fresh
        BY <3>1
      <4> HIDE DEF f, fresh, followed, E
      <4> QED BY <1>1, <1>8, <4>1
    <3>3. f.lost = NoSymbol /\ f.path = p /\ f.kind = "calls" /\ f.place = u.place /\ TargetName(f) = u.name
      BY <3>1, <1>5, <1>8
    <3> HIDE DEF f
    <3> QED BY <3>2, <3>3 DEF Stands, Named
  <2> QED BY <2>1, <2>2
<1> HIDE DEF E
<1> QED BY <1>6, <1>7, <1>8 DEF E

\* While the files are resolved, there is neither overlay nor answer.
LEMMA DeltaQuiet ==
  ASSUME QueryInv, phase = "delta", phase' = "delta",
         UNCHANGED <<candidate, budget, overlay, queue, queued, queried, search, partial, result>>
  PROVE  /\ Laying' /\ LaidWhole' /\ Searching' /\ SearchedWhole'
         /\ NoCallIsLost' /\ OutputIsOfTheCandidate' /\ OmissionsAreDeclared'
         /\ result' \subseteq search'.output
<1>1. /\ overlay.tombs = {} /\ overlay.out = {} /\ overlay.inc = {} /\ overlay.suppressed = {}
      /\ queried = {} /\ queue = queued /\ queue = Changed
  BY DEF QueryInv, Laying
<1>2. Laying'
  <2>1. Changed' = Changed
    BY DEF Changed
  <2>2. overlay'.tombs = {} /\ overlay'.out = {} /\ overlay'.inc = {} /\ overlay'.suppressed = {}
        /\ queried' = {} /\ queue' = Changed' /\ queued' = Changed' /\ DOMAIN overlay' = DOMAIN overlay
    BY <1>1, <2>1
  <2>3. IsFiniteSet(overlay'.out)
    BY <2>2, FS_EmptySet
  <2> QED BY <2>2, <2>3 DEF Laying
<1>3. LaidWhole'
  BY <1>1 DEF LaidWhole
<1>4. Searching' /\ SearchedWhole'
  <2>1. search.output = {} /\ search.seen = {} /\ search.next = {} /\ search.frontier = {}
    BY DEF QueryInv, Searching
  <2>2. Searching'
    BY <2>1 DEF QueryInv, Searching
  <2>3. SearchedWhole'
    BY <2>1 DEF SearchedWhole
  <2> QED BY <2>2, <2>3
<1>5. NoCallIsLost' /\ OutputIsOfTheCandidate' /\ OmissionsAreDeclared'
  BY DEF NoCallIsLost, OutputIsOfTheCandidate, OmissionsAreDeclared
<1>6. result' \subseteq search'.output
  BY DEF QueryInv
<1> QED BY <1>2, <1>3, <1>4, <1>5, <1>6

LEMMA QueryInitInv ==
  ASSUME QueryInit
  PROVE  QueryInv
<1> USE DEF QueryInit
<1>1. /\ \A r \in Resources : budget[r] \in Nat
      /\ budget.nodes \in Nat /\ budget.edges \in Nat /\ budget.depth \in Nat
      /\ candidate \in Candidates /\ budget \in Budgets
  <2>1. \A r \in {"paths", "rows", "symbols", "nodes", "edges", "depth"} : budget[r] \in Nat
    BY GraphAssumption
  <2> QED BY <2>1 DEF Resources
<1>2. DOMAIN used = Resources /\ \A r \in Resources : used[r] = 0
  BY DEF Resources
<1>3. Changed \subseteq Paths
  BY DEF Changed
<1>4. Shapes
  <2>1. \A r \in Resources : used[r] \in Nat /\ used[r] <= budget[r]
    BY <1>1, <1>2
  <2>2. /\ DOMAIN delta = {"files", "symbols", "edges"}
        /\ DOMAIN overlay = {"tombs", "symbols", "out", "inc", "suppressed"}
        /\ DOMAIN search = {"roots", "seen", "frontier", "next", "depth", "output", "known", "halted"}
    OBVIOUS
  <2> QED BY <1>1, <1>2, <1>3, <2>1, <2>2 DEF Shapes
<1>5. IsFiniteSet({}) /\ Cardinality({}) = 0
  BY FS_EmptySet
<1>6. Replacing /\ Resolving /\ ResolvedWhole /\ Depending
  <2>1. \A p \in Changed : p \in toResolve
    OBVIOUS
  <2>2. used.symbols = 0
    BY <1>2 DEF Resources
  <2> QED BY <1>5, <2>1, <2>2 DEF Replacing, Resolving, ResolvedWhole, Depending
<1>7. Laying /\ LaidWhole
  BY <1>5 DEF Laying, LaidWhole
<1>8. Searching /\ SearchedWhole
  BY <1>1, <1>5 DEF Searching, SearchedWhole
<1>9. NoCallIsLost /\ OutputIsOfTheCandidate /\ OmissionsAreDeclared
  BY DEF NoCallIsLost, OutputIsOfTheCandidate, OmissionsAreDeclared
<1> QED BY <1>4, <1>6, <1>7, <1>8, <1>9 DEF QueryInv

\* Resolving a file that is written in the candidate as the text says.
LEMMA ResolveKeeps ==
  ASSUME QueryInv, phase = "delta", NEW p \in Paths, NEW text, text = candidate[p], Resolve(p, text),
         UNCHANGED <<candidate, budget, phase, overlay, queue, queued, queried, search, partial, result>>,
         p \in Changed \/ UsesChanged(p), dependents' \subseteq dependents,
         \/ toResolve' = toResolve \ {p}
         \/ toResolve' = toResolve
  PROVE  QueryInv'
<1> USE DEF QueryInv
<1> DEFINE files == {<<p, s[1], s[2]>> : s \in text.symbols}
<1>1. PICK symbols \in Rows(SymbolsOf(Base, p), used.rows) :
        LET paid == used.rows + Cardinality(symbols)
        IN  \E edges \in Rows({e \in BaseEdges : e.path = p}, paid), ours \in Affordable(files, "symbols") :
              /\ delta' = [files |-> delta.files \union {p},
                           symbols |-> delta.symbols \union ours,
                           edges |-> delta.edges \union
                              ResolvedEdges(p, text, ours, {e \in edges : e.from \in symbols})]
              /\ used' = [used EXCEPT !.rows = paid + Cardinality(edges),
                                      !.symbols = @ + Cardinality(ours)]
              /\ IF p \in Changed
                 THEN /\ replaced' = replaced \union Replacements(symbols, ours)
                      /\ pending' = symbols
                 ELSE UNCHANGED <<replaced, pending>>
  BY DEF Resolve
<1> DEFINE paid == used.rows + Cardinality(symbols)
<1>2. PICK edges \in Rows({e \in BaseEdges : e.path = p}, paid), ours \in Affordable(files, "symbols") :
              /\ delta' = [files |-> delta.files \union {p},
                           symbols |-> delta.symbols \union ours,
                           edges |-> delta.edges \union
                              ResolvedEdges(p, text, ours, {e \in edges : e.from \in symbols})]
              /\ used' = [used EXCEPT !.rows = paid + Cardinality(edges),
                                      !.symbols = @ + Cardinality(ours)]
              /\ IF p \in Changed
                 THEN /\ replaced' = replaced \union Replacements(symbols, ours)
                      /\ pending' = symbols
                 ELSE UNCHANGED <<replaced, pending>>
  BY <1>1
<1> DEFINE E == ResolvedEdges(p, candidate[p], ours, {e \in edges : e.from \in symbols})
<1>3. /\ \A r \in Resources : budget[r] \in Nat /\ used[r] \in Nat /\ used[r] <= budget[r]
      /\ budget.symbols > 0 /\ candidate \in Candidates \cup {Base}
  BY BudgetFacts
<1>4. files = SymbolsOf(candidate, p)
  BY DEF SymbolsOf
<1>5. /\ symbols \subseteq SymbolsOf(Base, p) /\ Cardinality(symbols) \in Nat
      /\ paid \in Nat /\ paid <= budget.rows
  <2>1. used.rows \in Nat /\ used.rows <= budget.rows /\ budget.rows \in Nat
    BY <1>3 DEF Resources
  <2>2. IsFiniteSet(SymbolsOf(Base, p))
    BY SymbolsFacts
  <2>3. symbols \subseteq SymbolsOf(Base, p) /\ Cardinality(symbols) \in Nat /\ used.rows + Cardinality(symbols) <= budget.rows
    BY <2>1, <2>2, RowsFacts
  <2> QED BY <2>1, <2>3
<1>6. /\ edges \subseteq {e \in BaseEdges : e.path = p} /\ Cardinality(edges) \in Nat
      /\ paid + Cardinality(edges) <= budget.rows
  <2>1. budget.rows \in Nat
    BY <1>3 DEF Resources
  <2>2. IsFiniteSet({e \in BaseEdges : e.path = p})
    BY BaseRowsFinite
  <2> HIDE DEF paid
  <2> QED BY <1>5, <2>1, <2>2, RowsFacts
<1>7. /\ ours \subseteq SymbolsOf(candidate, p) /\ Cardinality(ours) \in Nat /\ IsFiniteSet(ours)
      /\ used.symbols + Cardinality(ours) <= budget.symbols
      /\ used.symbols + Cardinality(ours) < budget.symbols => ours = SymbolsOf(candidate, p)
      /\ ours = {} => Cardinality(ours) = 0
      /\ Cardinality(ours) = 0 => ours = {}
  <2>1. budget["symbols"] \in Nat /\ used["symbols"] \in Nat /\ used["symbols"] <= budget["symbols"]
    BY <1>3 DEF Resources
  <2>2. IsFiniteSet(SymbolsOf(candidate, p))
    BY <1>3, SymbolsFacts
  <2>3. ours \in Affordable(SymbolsOf(candidate, p), "symbols")
    BY <1>4
  <2>4. /\ ours \subseteq SymbolsOf(candidate, p) /\ IsFiniteSet(ours) /\ Cardinality(ours) \in Nat
        /\ used["symbols"] + Cardinality(ours) <= budget["symbols"]
        /\ used["symbols"] + Cardinality(ours) < budget["symbols"] => ours = SymbolsOf(candidate, p)
    BY <2>1, <2>2, <2>3, AffordableFacts
  <2> QED BY <2>4, FS_EmptySet
<1>8. /\ IsFiniteSet(E)
      /\ \A e \in E : IsEdge(e) /\ e.lost = NoSymbol /\ e.path = p /\ e.from \in ours /\ StandsInText(e)
      /\ ours # {} => \A u \in CallsOf(candidate[p]) : Stands(E, p, u)
  <2> DEFINE some == {e \in edges : e.from \in symbols}
  <2>1. some \in SUBSET BaseEdges /\ \A e \in some : e.path = p
    BY <1>6
  <2> HIDE DEF some
  <2>2. ours \in SUBSET SymbolsOf(candidate, p)
    BY <1>7
  <2> QED BY <2>1, <2>2, ResolvedEdgesFacts DEF some
<1>9. /\ delta'.files = delta.files \cup {p} /\ delta'.symbols = delta.symbols \cup ours
      /\ delta'.edges = delta.edges \cup E /\ DOMAIN delta' = {"files", "symbols", "edges"}
  BY <1>2
<1>10. /\ used'.rows = paid + Cardinality(edges) /\ used'.symbols = used.symbols + Cardinality(ours)
       /\ used'.paths = used.paths /\ used'.nodes = used.nodes /\ used'.edges = used.edges
       /\ DOMAIN used' = Resources
  BY <1>2 DEF Shapes, Resources
<1> HIDE DEF E, files, paid
<1>11. /\ \A r \in Resources : used'[r] \in Nat /\ used'[r] <= budget[r]
       /\ used'.symbols >= used.symbols
  BY <1>3, <1>5, <1>6, <1>7, <1>10 DEF Resources
<1>12. Changed' = Changed /\ \A q : SymbolsOf(candidate, q)' = SymbolsOf(candidate, q)
  BY DEF Changed, SymbolsOf
<1>13. AllSymbols(candidate)' = AllSymbols(candidate)
  BY DEF AllSymbols, SymbolsOf
<1>14. Shapes'
  <2>1. pending' \subseteq AllSymbols(Base) /\ \A s \in pending' : s[1] \in Changed
    <3>1. CASE p \in Changed
      BY <3>1, <1>2, <1>5, SymbolsFacts
    <3>2. CASE p \notin Changed
      BY <3>2, <1>2 DEF Shapes
    <3> QED BY <3>1, <3>2
  <2> QED BY <1>9, <1>10, <1>11, <1>12, <2>1 DEF Shapes
<1>15. Replacing'
  <2> SUFFICES ASSUME NEW r \in replaced'
               PROVE  r[1] \in AllSymbols(Base) /\ r[2] \in AllSymbols(candidate) /\ r[1][2] = r[2][2]
    BY <1>13 DEF Replacing
  <2>1. CASE r \in replaced
    BY <2>1 DEF Replacing
  <2>2. CASE r \in Replacements(symbols, ours)
    BY <2>2, <1>3, <1>5, <1>7, SymbolsFacts DEF Replacements
  <2> QED BY <1>2, <2>1, <2>2
<1>16. Resolving'
  <2>1. IsFiniteSet(delta'.edges)
    <3>1. IsFiniteSet(delta.edges)
      BY DEF Resolving
    <3>2. IsFiniteSet(delta.edges \cup E)
      BY <1>8, <3>1, FS_Union
    <3> QED BY <1>9, <3>2
  <2>2. \A s \in delta'.symbols : s[1] \in delta'.files /\ s \in SymbolsOf(candidate, s[1])
    BY <1>3, <1>7, <1>9, SymbolsFacts DEF Resolving
  <2>3. \A e \in delta'.edges : /\ IsEdge(e) /\ e.lost = NoSymbol /\ e.path \in delta'.files
                                /\ e.from \in delta'.symbols /\ StandsInText(e)
    BY <1>8, <1>9 DEF Resolving
  <2>4. delta'.files \subseteq Paths
    BY <1>9 DEF Resolving
  <2>5. \A e : StandsInText(e)' = StandsInText(e)
    BY DEF StandsInText
  <2> QED BY <1>12, <2>1, <2>2, <2>3, <2>4, <2>5 DEF Resolving
<1>17. ResolvedWhole'
  <2>1. \A q : HasSymbols(q) => HasSymbols(q)'
    BY <1>9 DEF HasSymbols
  <2>2. \A s \in ours : s[1] = p
    BY <1>3, <1>7, SymbolsFacts
  <2>3. \A q : HasSymbols(q)' => HasSymbols(q) \/ (q = p /\ ours # {})
    BY <1>9, <2>2 DEF HasSymbols
  <2>4. ASSUME NEW q \in delta'.files, HasSymbols(q)', NEW u \in CallsOf(candidate[q])
        PROVE  Stands(delta'.edges, q, u)
    <3>1. CASE HasSymbols(q)
      <4>1. q \in delta.files
        BY <3>1 DEF HasSymbols, Resolving
      <4>2. Stands(delta.edges, q, u)
        BY <3>1, <4>1 DEF ResolvedWhole
      <4> QED BY <4>2, <1>9 DEF Stands
    <3>2. CASE q = p /\ ours # {}
      <4>1. Stands(E, q, u)
        BY <3>2, <1>8
      <4> QED BY <4>1, <1>9 DEF Stands
    <3> QED BY <2>3, <2>4, <3>1, <3>2
  <2>5. used'.symbols > 0 => delta'.symbols # {}
    <3>1. used.symbols \in Nat
      BY <1>3 DEF Resources
    <3> QED BY <3>1, <1>7, <1>9, <1>10 DEF ResolvedWhole
  <2>6. ASSUME NEW q \in delta'.files, candidate[q].symbols # {}, ~HasSymbols(q)'
        PROVE  used'.symbols = budget.symbols /\ delta'.symbols # {}
    <3>0. used.symbols \in Nat /\ budget.symbols \in Nat /\ used'.symbols <= budget.symbols
      BY <1>3, <1>11 DEF Resources
    <3>1. CASE q \in delta.files
      <4>1. used.symbols = budget.symbols
        BY <2>1, <2>6, <3>1 DEF ResolvedWhole, Starved
      <4> QED BY <4>1, <1>3, <1>7, <1>10, <3>0, <2>5
    <3>2. CASE q = p
      <4>1. ours = {}
        BY <2>2, <2>6, <3>2, <1>9 DEF HasSymbols
      <4>2. SymbolsOf(candidate, p) # {}
        BY <1>3, <2>6, <3>2, SymbolsFacts
      <4> QED BY <4>1, <4>2, <1>3, <1>7, <1>10, <3>0, <2>5
    <3> QED BY <1>9, <2>6, <3>1, <3>2
  <2>7. \A q \in Changed : candidate[q] = NoFile \/ q \in toResolve' \cup delta'.files
    BY <1>9 DEF ResolvedWhole
  <2>8. /\ \A q : HasSymbols(q)' <=> \E s \in delta'.symbols : s[1] = q
        /\ \A q : Starved(q)' <=> candidate[q].symbols # {} /\ ~HasSymbols(q)'
    BY DEF Starved, HasSymbols
  <2> QED BY <1>12, <2>4, <2>5, <2>6, <2>7, <2>8 DEF ResolvedWhole
<1>18. Depending'
  <2>1. \A q : UsesChanged(q)' = UsesChanged(q)
    BY <1>12 DEF UsesChanged
  <2> QED BY <1>9, <1>12, <2>1 DEF Depending
<1>19. /\ Laying' /\ LaidWhole' /\ Searching' /\ SearchedWhole'
       /\ NoCallIsLost' /\ OutputIsOfTheCandidate' /\ OmissionsAreDeclared'
       /\ result' \subseteq search'.output
  BY DeltaQuiet
<1> QED BY <1>14, <1>15, <1>16, <1>17, <1>18, <1>19
LEMMA LeastIsOneOf ==
  ASSUME NEW S \in SUBSET Paths, S # {}
  PROVE  Least(S) \in S
<1>1. S \subseteq Nat /\ IsFiniteSet(S)
  BY GraphAssumption, FS_Subset
<1>2. \E x \in S : \A y \in S : x <= y
  BY <1>1, HasLeast
<1> QED BY <1>2 DEF Least

LEMMA ResolveChangedInv ==
  ASSUME QueryInv, ResolveChanged
  PROVE  QueryInv'
<1> DEFINE p == Least(toResolve)
<1>1. p \in Changed /\ p \in Paths
  <2>1. toResolve \subseteq Changed /\ Changed \subseteq Paths /\ toResolve # {}
    BY DEF QueryInv, Shapes, ResolveChanged, Changed
  <2>2. Least(toResolve) \in toResolve
    BY <2>1, LeastIsOneOf
  <2> QED BY <2>1, <2>2
<1>2. Resolve(p, candidate[p]) /\ toResolve' = toResolve \ {p} /\ phase = "delta"
  BY DEF ResolveChanged
<1>3. /\ UNCHANGED <<candidate, budget, phase, overlay, queue, queued, queried, search, partial, result>>
      /\ dependents' \subseteq dependents
  BY DEF ResolveChanged
<1> HIDE DEF p
<1> QED BY <1>1, <1>2, <1>3, ResolveKeeps

LEMMA ResolveDependentInv ==
  ASSUME QueryInv, ResolveDependent
  PROVE  QueryInv'
<1> DEFINE p == Least(dependents)
<1>1. p \in dependents /\ p \in Paths /\ p \notin Changed
  <2>1. dependents \subseteq Paths \ Changed /\ dependents # {}
    BY DEF QueryInv, Shapes, ResolveDependent
  <2>2. Least(dependents) \in dependents
    BY <2>1, LeastIsOneOf
  <2> QED BY <2>1, <2>2
<1>2. Base[p] = candidate[p]
  BY <1>1 DEF Changed
<1>3. UsesChanged(p)
  BY <1>1 DEF QueryInv, Depending
<1>4. Resolve(p, Base[p]) /\ toResolve' = toResolve /\ phase = "delta"
  BY DEF ResolveDependent
<1>5. /\ UNCHANGED <<candidate, budget, phase, overlay, queue, queued, queried, search, partial, result>>
      /\ dependents' \subseteq dependents
  BY DEF ResolveDependent
<1> HIDE DEF p
<1> QED BY <1>1, <1>2, <1>3, <1>4, <1>5, ResolveKeeps

\* Steps that resolve nothing.
LEMMA DeltaKept ==
  ASSUME QueryInv, UNCHANGED <<candidate, budget, phase, delta, replaced>>, used'.symbols = used.symbols,
         \/ toResolve' = toResolve
         \/ candidate[Least(toResolve)] = NoFile /\ toResolve' = toResolve \ {Least(toResolve)}
  PROVE  Replacing' /\ Resolving' /\ ResolvedWhole'
<1>1. Changed' = Changed /\ (\A q : SymbolsOf(candidate, q)' = SymbolsOf(candidate, q))
      /\ AllSymbols(candidate)' = AllSymbols(candidate) /\ \A e : StandsInText(e)' = StandsInText(e)
  BY DEF Changed, SymbolsOf, AllSymbols, StandsInText
<1>2. \A q : HasSymbols(q)' = HasSymbols(q) /\ Starved(q)' = Starved(q)
  BY DEF HasSymbols, Starved
<1>3. Replacing' /\ Resolving'
  BY <1>1 DEF QueryInv, Replacing, Resolving
<1>4. ResolvedWhole'
  BY <1>1, <1>2 DEF QueryInv, ResolvedWhole
<1> QED BY <1>3, <1>4

LEMMA PassRemovedInv ==
  ASSUME QueryInv, PassRemoved
  PROVE  QueryInv'
<1> USE DEF PassRemoved
<1>1. Replacing' /\ Resolving' /\ ResolvedWhole'
  BY DeltaKept
<1>2. Changed' = Changed /\ \A q : UsesChanged(q)' = UsesChanged(q)
  BY DEF Changed, UsesChanged
<1>3. Shapes'
  BY <1>2 DEF QueryInv, Shapes
<1>4. Depending'
  BY <1>2 DEF QueryInv, Depending
<1>5. /\ Laying' /\ LaidWhole' /\ Searching' /\ SearchedWhole'
      /\ NoCallIsLost' /\ OutputIsOfTheCandidate' /\ OmissionsAreDeclared'
      /\ result' \subseteq search'.output
  BY DeltaQuiet
<1> QED BY <1>1, <1>3, <1>4, <1>5 DEF QueryInv

\* What reading rows adds to the budget.
LEMMA RowsSpent ==
  ASSUME Shapes, NEW n \in Nat, used.rows + n <= budget.rows,
         used' = [used EXCEPT !.rows = @ + n], budget' = budget
  PROVE  /\ DOMAIN used' = Resources /\ \A r \in Resources : used'[r] \in Nat /\ used'[r] <= budget'[r]
         /\ used'.symbols = used.symbols
BY BudgetFacts DEF Shapes, Resources

LEMMA CollectDependentsInv ==
  ASSUME QueryInv, CollectDependents
  PROVE  QueryInv'
<1> USE DEF QueryInv
<1>1. PICK s \in pending : \E rows \in Rows(Incoming(s), used.rows) :
         /\ used' = [used EXCEPT !.rows = @ + Cardinality(rows)]
         /\ dependents' = dependents \union
              {e.path : e \in {r \in rows : r.path \notin Changed}}
         /\ pending' = IF RowLimit(used.rows) = 0 THEN {} ELSE pending \ {s}
  BY DEF CollectDependents
<1>2. PICK rows \in Rows(Incoming(s), used.rows) :
         /\ used' = [used EXCEPT !.rows = @ + Cardinality(rows)]
         /\ dependents' = dependents \union
              {e.path : e \in {r \in rows : r.path \notin Changed}}
         /\ pending' = IF RowLimit(used.rows) = 0 THEN {} ELSE pending \ {s}
  BY <1>1
<1>3. /\ phase = "delta"
      /\ UNCHANGED <<candidate, budget, phase, toResolve, replaced, delta, overlay, queue, queued,
                     queried, search, partial, result>>
  BY DEF CollectDependents
<1>4. /\ rows \subseteq Incoming(s) /\ Cardinality(rows) \in Nat /\ used.rows + Cardinality(rows) <= budget.rows
  <2>1. used.rows \in Nat /\ used.rows <= budget.rows /\ budget.rows \in Nat
    BY BudgetFacts DEF Resources
  <2>2. IsFiniteSet(Incoming(s))
    BY BaseRowsFinite DEF Incoming
  <2> QED BY <2>1, <2>2, RowsFacts
<1>5. /\ DOMAIN used' = Resources /\ \A r \in Resources : used'[r] \in Nat /\ used'[r] <= budget'[r]
      /\ used'.symbols = used.symbols
  BY <1>2, <1>3, <1>4, RowsSpent
<1>6. Replacing' /\ Resolving' /\ ResolvedWhole'
  BY <1>3, <1>5, DeltaKept
<1>7. Changed' = Changed /\ \A q : UsesChanged(q)' = UsesChanged(q)
  BY <1>3 DEF Changed, UsesChanged
<1>8. \A q \in dependents' \ dependents : q \in Paths \ Changed /\ UsesChanged(q)
  <2> SUFFICES ASSUME NEW e \in rows, e.path \notin Changed
               PROVE  e.path \in Paths \ Changed /\ UsesChanged(e.path)
    BY <1>2
  <2>1. e \in BaseEdges /\ e.to = s
    BY <1>4 DEF Incoming
  <2>2. s \in AllSymbols(Base) /\ s[1] \in Changed
    BY <1>3 DEF Shapes
  <2> QED BY <2>1, <2>2, BaseEdgesFacts DEF UsesChanged
<1>9. Shapes'
  <2>1. pending' \subseteq pending
    BY <1>2
  <2>2. dependents' \subseteq Paths \ Changed
    BY <1>8 DEF Shapes
  <2> QED BY <1>3, <1>5, <1>7, <2>1, <2>2 DEF Shapes
<1>10. Depending'
  BY <1>3, <1>7, <1>8 DEF Depending
<1>11. /\ Laying' /\ LaidWhole' /\ Searching' /\ SearchedWhole'
       /\ NoCallIsLost' /\ OutputIsOfTheCandidate' /\ OmissionsAreDeclared'
       /\ result' \subseteq search'.output
  BY <1>3, DeltaQuiet
<1> QED BY <1>6, <1>9, <1>10, <1>11

-----------------------------------------------------------------------------
(* Building the overlay *)

\* While the overlay is built, there is no answer.
LEMMA BuildQuiet ==
  ASSUME QueryInv, phase \in {"delta", "overlay"}, phase' = "overlay",
         UNCHANGED <<candidate, budget, search, result>>, partial \subseteq partial'
  PROVE  /\ Searching' /\ SearchedWhole'
         /\ NoCallIsLost' /\ OutputIsOfTheCandidate' /\ OmissionsAreDeclared'
         /\ result' \subseteq search'.output
<1>1. search.output = {} /\ search.seen = {} /\ search.next = {} /\ search.frontier = {}
  BY DEF QueryInv, Searching
<1>2. Searching'
  BY <1>1 DEF QueryInv, Searching
<1>3. SearchedWhole'
  BY <1>1 DEF SearchedWhole
<1>4. NoCallIsLost' /\ OutputIsOfTheCandidate' /\ OmissionsAreDeclared'
  BY DEF NoCallIsLost, OutputIsOfTheCandidate, OmissionsAreDeclared
<1> QED BY <1>2, <1>3, <1>4 DEF QueryInv

\* Once the files are resolved, what was made of them stays.
LEMMA ResolvedKept ==
  ASSUME QueryInv, phase # "delta", phase' # "delta",
         UNCHANGED <<candidate, budget, toResolve, dependents, replaced, delta>>,
         used'.symbols \in Nat, used'.symbols >= used.symbols, used'.symbols <= budget.symbols
  PROVE  Replacing' /\ Resolving' /\ ResolvedWhole' /\ Depending'
<1>1. Changed' = Changed /\ (\A q : SymbolsOf(candidate, q)' = SymbolsOf(candidate, q))
      /\ AllSymbols(candidate)' = AllSymbols(candidate) /\ \A e : StandsInText(e)' = StandsInText(e)
  BY DEF Changed, SymbolsOf, AllSymbols, StandsInText
<1>2. \A q : HasSymbols(q)' = HasSymbols(q) /\ Starved(q)' = Starved(q) /\ UsesChanged(q)' = UsesChanged(q)
  BY <1>1 DEF HasSymbols, Starved, UsesChanged
<1>3. Replacing' /\ Resolving'
  BY <1>1 DEF QueryInv, Replacing, Resolving
<1>4. ResolvedWhole'
  <2>1. used.symbols \in Nat /\ budget.symbols \in Nat
    BY BudgetFacts DEF QueryInv, Resources
  <2> QED BY <1>1, <1>2, <2>1 DEF QueryInv, ResolvedWhole
<1>5. Depending'
  BY <1>1, <1>2 DEF QueryInv, Depending
<1> QED BY <1>3, <1>4, <1>5

LEMMA StartOverlayInv ==
  ASSUME QueryInv, StartOverlay
  PROVE  QueryInv'
<1> USE DEF QueryInv
<1> DEFINE R(t) == IF \E r \in replaced : r[1] = t THEN (CHOOSE r \in replaced : r[1] = t)[2] ELSE t
           moved == {[e EXCEPT !.to = R(e.to)] : e \in delta.edges}
<1>1. /\ phase = "delta" /\ phase' = "overlay" /\ toResolve = {} /\ pending = {} /\ dependents = {}
      /\ delta' = [delta EXCEPT !.edges = moved]
      /\ UNCHANGED <<candidate, budget, used, toResolve, dependents, replaced, overlay, queue,
                     queued, pending, queried, search, partial, result>>
  BY DEF StartOverlay
<1>2. /\ delta'.files = delta.files /\ delta'.symbols = delta.symbols /\ delta'.edges = moved
      /\ DOMAIN delta' = {"files", "symbols", "edges"}
  BY <1>1 DEF Shapes
<1>3. IsFiniteSet(moved)
  <2> DEFINE g == [e \in delta.edges |-> [e EXCEPT !.to = R(e.to)]]
  <2>1. moved = {g[e] : e \in delta.edges}
    OBVIOUS
  <2>2. IsFiniteSet(delta.edges)
    BY DEF Resolving
  <2> HIDE DEF g, moved
  <2> QED BY <2>1, <2>2, SetImage
<1>4. ASSUME NEW e \in delta.edges
      PROVE  LET f == [e EXCEPT !.to = R(e.to)]
             IN  /\ IsEdge(f) /\ f.lost = NoSymbol /\ f.path \in delta.files /\ f.from \in delta.symbols
                 /\ f.kind = e.kind /\ f.path = e.path /\ f.place = e.place /\ TargetName(f) = TargetName(e)
  <2> DEFINE t == R(e.to)
  <2>1. IsEdge(e) /\ e.lost = NoSymbol /\ e.path \in delta.files /\ e.from \in delta.symbols
    BY DEF Resolving
  <2>2. candidate \in Candidates \cup {Base}
    BY BudgetFacts
  <2>3. t = NoSymbol <=> e.to = NoSymbol
    BY <2>2, AllSymbolsFacts DEF Replacing
  <2>4. t # NoSymbol => t[2] = e.to[2]
    BY DEF Replacing
  <2> HIDE DEF t
  <2>5. TargetName([e EXCEPT !.to = t]) = TargetName(e)
    BY <2>1, <2>3, <2>4, RetargetKeepsTheName
  <2> DEFINE f == [e EXCEPT !.to = t]
  <2>6. /\ IsEdge(f) /\ f.kind = e.kind /\ f.from = e.from /\ f.path = e.path /\ f.place = e.place
        /\ f.lost = e.lost
    BY <2>1, Retarget
  <2> QED BY <2>1, <2>5, <2>6 DEF t
<1> HIDE DEF moved
<1>5. Changed' = Changed /\ (\A q : SymbolsOf(candidate, q)' = SymbolsOf(candidate, q))
      /\ AllSymbols(candidate)' = AllSymbols(candidate) /\ \A e : StandsInText(e)' = StandsInText(e)
  BY <1>1 DEF Changed, SymbolsOf, AllSymbols, StandsInText
<1>6. Shapes'
  BY <1>1, <1>2, <1>5 DEF Shapes
<1>7. Replacing' /\ Depending'
  <2>1. \A q : UsesChanged(q)' = UsesChanged(q)
    BY <1>5 DEF UsesChanged
  <2> QED BY <1>1, <1>2, <1>5, <2>1 DEF Replacing, Depending
<1>8. Resolving'
  <2>1. ASSUME NEW f \in moved
        PROVE  IsEdge(f) /\ f.lost = NoSymbol /\ f.path \in delta.files /\ f.from \in delta.symbols /\ StandsInText(f)
    <3>1. PICK e \in delta.edges : f = [e EXCEPT !.to = R(e.to)]
      BY DEF moved
    <3>2. StandsInText(e)
      BY DEF Resolving
    <3> HIDE DEF R
    <3> QED BY <1>4, <3>1, <3>2 DEF StandsInText
  <2> QED BY <1>1, <1>2, <1>3, <1>5, <2>1 DEF Resolving
<1>9. ResolvedWhole'
  <2>1. \A q : HasSymbols(q)' = HasSymbols(q) /\ Starved(q)' = Starved(q)
    BY <1>1, <1>2 DEF HasSymbols, Starved
  <2>2. ASSUME NEW q, NEW u, Stands(delta.edges, q, u)
        PROVE  Stands(moved, q, u)
    <3>1. PICK e \in delta.edges : e.path = q /\ e.kind = "calls" /\ e.place = u.place /\ Named(e) = u.name
      BY <2>2 DEF Stands
    <3> DEFINE f == [e EXCEPT !.to = R(e.to)]
    <3>2. f \in moved
      BY DEF moved
    <3>3. /\ f.lost = NoSymbol /\ f.kind = e.kind /\ f.path = e.path /\ f.place = e.place
          /\ TargetName(f) = TargetName(e)
      BY <1>4
    <3>4. e.lost = NoSymbol
      BY DEF Resolving
    <3> HIDE DEF f
    <3> QED BY <3>1, <3>2, <3>3, <3>4 DEF Stands, Named
  <2> QED BY <1>1, <1>2, <1>5, <2>1, <2>2 DEF ResolvedWhole
<1>10. /\ overlay.tombs = {} /\ overlay.out = {} /\ overlay.inc = {} /\ overlay.suppressed = {}
       /\ queried = {} /\ queue = queued /\ queue = Changed
  BY <1>1 DEF Laying
<1>11. Laying' /\ LaidWhole'
  BY <1>1, <1>5, <1>10, FS_EmptySet DEF Laying, LaidWhole
<1>12. /\ Searching' /\ SearchedWhole'
       /\ NoCallIsLost' /\ OutputIsOfTheCandidate' /\ OmissionsAreDeclared'
       /\ result' \subseteq search'.output
  BY <1>1, BuildQuiet
<1> QED BY <1>6, <1>7, <1>8, <1>9, <1>11, <1>12

LEMMA SkipPathInv ==
  ASSUME QueryInv, SkipPath
  PROVE  QueryInv'
<1> USE DEF SkipPath
<1>1. \A r \in Resources : budget[r] \in Nat /\ used[r] \in Nat /\ used[r] <= budget[r]
  BY BudgetFacts DEF QueryInv
<1>2. DOMAIN used' = Resources /\ used'.paths = used.paths + 1
      /\ \A r \in Resources \ {"paths"} : used'[r] = used[r]
  BY DEF QueryInv, Shapes, Resources
<1>3. \A r \in Resources : used'[r] \in Nat /\ used'[r] <= budget[r]
  BY <1>1, <1>2 DEF Resources
<1>4. Changed' = Changed
  BY DEF Changed
<1>5. Shapes'
  BY <1>2, <1>3, <1>4 DEF QueryInv, Shapes
<1>6. Replacing' /\ Resolving' /\ ResolvedWhole' /\ Depending'
  <2>1. used'.symbols = used.symbols /\ used.symbols \in Nat /\ used.symbols <= budget.symbols
    BY <1>1, <1>2 DEF Resources
  <2> QED BY <2>1, ResolvedKept
<1>7. Laying' /\ LaidWhole'
  BY <1>4 DEF QueryInv, Laying, LaidWhole
<1>8. /\ Searching' /\ SearchedWhole'
      /\ NoCallIsLost' /\ OutputIsOfTheCandidate' /\ OmissionsAreDeclared'
      /\ result' \subseteq search'.output
  BY BuildQuiet
<1> QED BY <1>5, <1>6, <1>7, <1>8 DEF QueryInv

LEMMA ProcessPathInv ==
  ASSUME QueryInv, ProcessPath
  PROVE  QueryInv'
<1> USE DEF QueryInv
<1> DEFINE p == Least(queue)
           edges == {e \in delta.edges : e.path = p}
           ours == {s \in delta.symbols : s[1] = p}
           file == Cardinality({p} \cap delta.files)
           room == budget.nodes - used.nodes - file
           all == SymbolsOf(Base, p)
           takings == IF room < 0 THEN {{}} ELSE Insertable(ours, room)
           puttings == IF room < 0 THEN {{}} ELSE Affordable(edges, "edges")
           baseOf == {e \in BaseEdges : e.path = p}
           Laid(taken, put, rows) ==
             [tombs |-> overlay.tombs \union {p},
              symbols |-> overlay.symbols \union taken,
              out |-> overlay.out \union put,
              inc |-> overlay.inc \union {<<e.to, e>> : e \in {f \in put : f.to # NoSymbol}},
              suppressed |-> overlay.suppressed \union rows]
           Spent(symbols, rows, taken, put) ==
             [used EXCEPT !.paths = @ + 1,
                          !.rows = used.rows + Cardinality(symbols) + Cardinality(rows),
                          !.nodes = @ + (IF room < 0 THEN 0 ELSE Cardinality(taken) + file),
                          !.symbols = @ + (IF room < 0 THEN 0 ELSE Charged(ours, taken)),
                          !.edges = @ + Cardinality(put)]
           Cut(symbols, rows, taken, put) ==
             \/ room < 0 \/ taken # ours \/ put # edges
             \/ Cardinality(symbols) = RowLimit(used.rows)
             \/ Cardinality(rows) = RowLimit(used.rows + Cardinality(symbols))
           Step(symbols, taken, put, rows) ==
             /\ overlay' = Laid(taken, put, rows)
             /\ used' = Spent(symbols, rows, taken, put)
             /\ pending' = symbols \ queried
             /\ partial' = IF Cut(symbols, rows, taken, put) THEN partial \union {"index"} ELSE partial
<1>1. /\ phase = "overlay" /\ pending = {} /\ queue # {} /\ used.paths < budget.paths
      /\ p \in Changed \cup delta.files /\ queue' = queue \ {p}
      /\ UNCHANGED <<candidate, budget, phase, toResolve, dependents, replaced, delta, queued,
                     queried, search, result>>
  BY DEF ProcessPath
<1>2. \E symbols \in Rows(all, used.rows), taken \in takings, put \in puttings :
        \E rows \in Rows(baseOf, used.rows + Cardinality(symbols)) : Step(symbols, taken, put, rows)
  BY DEF ProcessPath
<1>3. PICK symbols \in Rows(all, used.rows), taken \in takings, put \in puttings :
        \E rows \in Rows(baseOf, used.rows + Cardinality(symbols)) : Step(symbols, taken, put, rows)
  BY <1>2
<1>4. PICK rows \in Rows(baseOf, used.rows + Cardinality(symbols)) : Step(symbols, taken, put, rows)
  BY <1>3
<1>5. /\ \A r \in Resources : budget[r] \in Nat /\ used[r] \in Nat /\ used[r] <= budget[r]
      /\ candidate \in Candidates \cup {Base}
  BY BudgetFacts
<1>6. p \in queue /\ p \in Paths
  <2>1. queue \subseteq Paths
    BY DEF Shapes
  <2> QED BY <1>1, <2>1, LeastIsOneOf
<1>7. /\ IsFiniteSet(ours) /\ IsFiniteSet(edges) /\ IsFiniteSet(all) /\ IsFiniteSet(baseOf)
      /\ file \in Nat /\ room \in Int /\ ours \subseteq SymbolsOf(candidate, p)
  <2>1. ours \subseteq SymbolsOf(candidate, p) /\ IsFiniteSet(SymbolsOf(candidate, p)) /\ IsFiniteSet(all)
    BY <1>5, <1>6, SymbolsFacts DEF Resolving
  <2>2. IsFiniteSet(edges)
    BY FS_Subset DEF Resolving
  <2>3. IsFiniteSet({p} \cap delta.files)
    <3>1. IsFiniteSet({p}) /\ {p} \cap delta.files \in SUBSET {p}
      BY FS_Singleton
    <3> HIDE DEF p
    <3> QED BY <3>1, FS_Subset
  <2>4. file \in Nat
    BY <2>3, FS_CardinalityType
  <2>5. room \in Int
    BY <1>5, <2>4 DEF Resources
  <2>6. IsFiniteSet(baseOf)
    BY BaseRowsFinite
  <2> QED BY <2>1, <2>2, <2>4, <2>5, <2>6, FS_Subset
<1> HIDE DEF p, file, room, all, baseOf
<1>8. /\ symbols \subseteq all /\ Cardinality(symbols) \in Nat
      /\ used.rows + Cardinality(symbols) <= budget.rows
      /\ Cardinality(symbols) # RowLimit(used.rows) => symbols = all
  <2>1. used.rows \in Nat /\ used.rows <= budget.rows /\ budget.rows \in Nat
    BY <1>5 DEF Resources
  <2> QED BY <1>7, <2>1, RowsFacts
<1> DEFINE paid == used.rows + Cardinality(symbols)
<1>9. /\ rows \subseteq baseOf /\ Cardinality(rows) \in Nat /\ paid + Cardinality(rows) <= budget.rows
      /\ Cardinality(rows) # RowLimit(paid) => rows = baseOf
  <2>1. paid \in Nat /\ paid <= budget.rows /\ budget.rows \in Nat /\ rows \in Rows(baseOf, paid)
    BY <1>5, <1>8 DEF Resources
  <2> HIDE DEF paid
  <2> QED BY <1>7, <2>1, RowsFacts
<1>10. /\ taken \subseteq ours /\ IsFiniteSet(taken) /\ Cardinality(taken) \in Nat
       /\ Cardinality(taken) <= budget.symbols - used.symbols
       /\ room >= 0 => Cardinality(taken) <= room
  <2>1. CASE room < 0
    <3>1. taken = {}
      BY <2>1
    <3> QED BY <2>1, <3>1, <1>5, <1>7, FS_EmptySet DEF Resources
  <2>2. CASE room >= 0
    <3> DEFINE most == Smaller(budget.symbols - used.symbols, room)
    <3>1. taken \in SUBSET ours /\ Cardinality(taken) = Smaller(Cardinality(ours), most)
      BY <2>2, <1>7 DEF Insertable
    <3>2. most \in Nat /\ most <= budget.symbols - used.symbols /\ most <= room
      BY <2>2, <1>5, <1>7 DEF Smaller, Resources
    <3> HIDE DEF most
    <3>3. IsFiniteSet(taken) /\ Cardinality(taken) \in Nat /\ Cardinality(taken) <= most
      BY <1>7, <3>1, <3>2, Bounded
    <3>4. budget.symbols - used.symbols \in Int
      BY <1>5 DEF Resources
    <3> QED BY <3>1, <3>2, <3>3, <3>4, <1>7
  <2> QED BY <2>1, <2>2, <1>7
<1>11. /\ put \subseteq edges /\ IsFiniteSet(put) /\ Cardinality(put) \in Nat
       /\ used.edges + Cardinality(put) <= budget.edges
  <2>0. budget["edges"] \in Nat /\ used["edges"] \in Nat /\ used["edges"] <= budget["edges"]
    BY <1>5 DEF Resources
  <2>1. CASE room < 0
    <3>1. put = {}
      BY <2>1
    <3>2. IsFiniteSet(put) /\ Cardinality(put) = 0
      BY <3>1, FS_EmptySet
    <3> QED BY <3>1, <3>2, <2>0
  <2>2. CASE ~(room < 0)
    <3>1. put \in Affordable(edges, "edges")
      BY <2>2
    <3>2. put \subseteq edges /\ IsFiniteSet(put) /\ Cardinality(put) \in Nat
          /\ used["edges"] + Cardinality(put) <= budget["edges"]
      BY <3>1, <2>0, <1>7, AffordableFacts
    <3> QED BY <3>2
  <2> QED BY <2>1, <2>2
<1> HIDE DEF takings, puttings
<1>12. /\ overlay'.tombs = overlay.tombs \cup {p} /\ overlay'.out = overlay.out \cup put
       /\ overlay'.inc = overlay.inc \cup {<<e.to, e>> : e \in {f \in put : f.to # NoSymbol}}
       /\ overlay'.suppressed = overlay.suppressed \cup rows
       /\ DOMAIN overlay' = {"tombs", "symbols", "out", "inc", "suppressed"}
  BY <1>4
<1>13. /\ DOMAIN used' = Resources /\ used'.paths = used.paths + 1
       /\ used'.rows = paid + Cardinality(rows)
       /\ used'.nodes = used.nodes + (IF room < 0 THEN 0 ELSE Cardinality(taken) + file)
       /\ used'.symbols = used.symbols + (IF room < 0 THEN 0 ELSE Charged(ours, taken))
       /\ used'.edges = used.edges + Cardinality(put)
  BY <1>4 DEF Shapes, Resources
<1>14. /\ pending' = symbols \ queried /\ partial \subseteq partial'
       /\ partial' \subseteq partial \cup {"index"}
       /\ "index" \notin partial' => "index" \notin partial /\ ~Cut(symbols, rows, taken, put)
  BY <1>4
<1>15. "index" \notin partial' =>
         /\ "index" \notin partial /\ room >= 0 /\ taken = ours /\ put = edges
         /\ symbols = all /\ rows = baseOf
  BY <1>7, <1>8, <1>9, <1>14
<1> HIDE DEF Laid, Spent, Cut, Step
<1>16. Charged(ours, taken) \in Nat /\ used.symbols + Charged(ours, taken) <= budget.symbols
  BY <1>5, <1>10 DEF Charged, Resources
<1>17. /\ \A r \in Resources : used'[r] \in Nat /\ used'[r] <= budget[r]
       /\ used'.symbols >= used.symbols
  <2>1. used'.symbols \in Nat /\ used'.symbols <= budget.symbols /\ used'.symbols >= used.symbols
    BY <1>5, <1>13, <1>16 DEF Resources
  <2>2. used'.nodes \in Nat /\ used'.nodes <= budget.nodes
    <3>1. room = budget.nodes - used.nodes - file
      BY DEF room
    <3> QED BY <3>1, <1>5, <1>7, <1>10, <1>13 DEF Resources
  <2>3. used'.rows \in Nat /\ used'.rows <= budget.rows
    BY <1>5, <1>8, <1>9, <1>13 DEF Resources
  <2>4. used'.edges \in Nat /\ used'.edges <= budget.edges
    BY <1>5, <1>11, <1>13 DEF Resources
  <2>5. used'.paths \in Nat /\ used'.paths <= budget.paths
    BY <1>1, <1>5, <1>13 DEF Resources
  <2> QED BY <2>1, <2>2, <2>3, <2>4, <2>5 DEF Resources
<1>18. Changed' = Changed
  BY <1>1 DEF Changed
<1>19. Shapes'
  <2>1. pending' \subseteq AllSymbols(Base)
    BY <1>6, <1>8, <1>14, SymbolsFacts DEF all
  <2> QED BY <1>1, <1>12, <1>13, <1>14, <1>17, <1>18, <2>1 DEF Shapes
<1>20. Replacing' /\ Resolving' /\ ResolvedWhole' /\ Depending'
  <2>1. used'.symbols \in Nat /\ used'.symbols <= budget.symbols
    BY <1>17 DEF Resources
  <2> QED BY <1>1, <1>17, <2>1, ResolvedKept
<1>21. Laying'
  <2>1. overlay'.tombs \subseteq Changed' \cup delta'.files
    BY <1>1, <1>12, <1>18 DEF Laying
  <2>2. IsFiniteSet(overlay'.out)
    <3>1. IsFiniteSet(overlay.out)
      BY DEF Laying
    <3>2. IsFiniteSet(overlay.out \cup put)
      BY <1>11, <3>1, FS_Union
    <3> QED BY <1>12, <3>2
  <2>3. overlay'.suppressed \subseteq BaseEdges
    BY <1>9, <1>12 DEF Laying, baseOf
  <2>4. ASSUME NEW e \in put
        PROVE  /\ IsEdge(e) /\ e.from # NoSymbol /\ e \in delta'.edges /\ e.lost = NoSymbol
               /\ e.to # NoSymbol => <<e.to, e>> \in overlay'.inc
    <3>1. e \in delta.edges
      BY <1>11
    <3>2. IsEdge(e) /\ e.from \in delta.symbols /\ e.lost = NoSymbol
      BY <3>1 DEF Resolving
    <3>3. e.from # NoSymbol
      <4>1. e.from[1] \in Paths /\ e.from \in SymbolsOf(candidate, e.from[1])
        BY <3>2 DEF Resolving
      <4> QED BY <4>1, <1>5, SymbolsFacts
    <3> QED BY <1>1, <1>12, <3>1, <3>2, <3>3
  <2>5. \A e \in overlay'.out :
           /\ IsEdge(e) /\ e.from # NoSymbol
           /\ e \in delta'.edges \/ (e.lost # NoSymbol /\ e.to = NoSymbol)
    BY <1>1, <1>12, <2>4 DEF Laying
  <2>6. \A x \in overlay'.inc : x[2] \in overlay'.out
    <3> SUFFICES ASSUME NEW e \in put PROVE <<e.to, e>>[2] \in overlay'.out
      BY <1>12 DEF Laying
    <3> QED BY <1>12
  <2>7. \A e \in overlay'.out : \A s \in {e.to, e.lost} : s # NoSymbol => <<s, e>> \in overlay'.inc
    BY <1>12, <2>4 DEF Laying
  <2> QED BY <1>1, <2>1, <2>2, <2>3, <2>5, <2>6, <2>7 DEF Laying
<1>22. LaidWhole'
  <2> SUFFICES ASSUME "index" \notin partial' PROVE LaidWhole'
    BY DEF LaidWhole
  <2>1. /\ "index" \notin partial /\ room >= 0 /\ taken = ours /\ put = edges
        /\ symbols = all /\ rows = baseOf
    BY <1>15
  <2>2. queued' \ queue' \subseteq overlay'.tombs
    BY <1>1, <1>12, <2>1 DEF LaidWhole
  <2>3. \A e \in delta'.edges : e.path \in overlay'.tombs => e \in overlay'.out
    BY <1>1, <1>12, <2>1 DEF LaidWhole
  <2>4. \A q \in overlay'.tombs : SymbolsOf(Base, q) \subseteq pending' \cup queried'
    BY <1>1, <1>12, <1>14, <2>1 DEF LaidWhole, all
  <2>5. \A s \in queried' : \A e \in Incoming(s) : e.path \in queued'
    BY <1>1, <2>1 DEF LaidWhole
  <2>6. \A e \in overlay'.suppressed : e.path \in overlay'.tombs \/
          \E f \in overlay'.out : f.path = e.path /\ f.kind = e.kind /\ f.place = e.place /\ Named(f) = TargetName(e)
    BY <1>9, <1>12, <2>1 DEF LaidWhole, baseOf
  <2>7. (\E q \in delta'.files : Starved(q)') => \A s \in delta'.symbols : s[1] \notin overlay'.tombs
    <3> SUFFICES ASSUME NEW q \in delta.files, Starved(q), NEW s \in delta.symbols
                 PROVE  s[1] \notin overlay'.tombs
      BY <1>1 DEF Starved, HasSymbols
    <3>1. used.symbols = budget.symbols /\ s[1] \notin overlay.tombs
      BY <2>1 DEF ResolvedWhole, LaidWhole
    <3>2. Cardinality(taken) = 0
      BY <1>5, <1>10, <3>1 DEF Resources
    <3>3. ours = {}
      BY <1>10, <2>1, <3>2, FS_EmptySet
    <3> QED BY <1>12, <3>1, <3>3
  <2> QED BY <1>1, <2>2, <2>3, <2>4, <2>5, <2>6, <2>7 DEF LaidWhole
<1>23. /\ Searching' /\ SearchedWhole'
       /\ NoCallIsLost' /\ OutputIsOfTheCandidate' /\ OmissionsAreDeclared'
       /\ result' \subseteq search'.output
  BY <1>1, <1>14, BuildQuiet
<1> QED BY <1>19, <1>20, <1>21, <1>22, <1>23
LEMMA VisitSymbolInv ==
  ASSUME QueryInv, VisitSymbol
  PROVE  QueryInv'
<1> USE DEF QueryInv
<1> DEFINE Users(rows) == {e.path : e \in rows} \ queued
           Orphans(s, rows) == IF s \in overlay.symbols THEN {}
                               ELSE {e \in rows : e.path \notin overlay.tombs /\ ~Retargets(e, s)}
           Unresolved(s, e) == [e EXCEPT !.to = NoSymbol, !.lost = s]
           Lost(s, rows) == {Unresolved(s, e) : e \in Orphans(s, rows)}
           Step(s, rows, put) ==
             /\ overlay' = [overlay EXCEPT
                              !.suppressed = @ \union Orphans(s, rows),
                              !.out = @ \union put,
                              !.inc = @ \union {<<s, e>> : e \in put}]
             /\ used' = [used EXCEPT !.rows = @ + Cardinality(rows),
                                     !.edges = @ + Cardinality(put)]
             /\ queue' = queue \union Users(rows)
             /\ queued' = queued \union Users(rows)
             /\ pending' = pending \ {s}
             /\ queried' = queried \union {s}
             /\ partial' = IF \/ Cardinality(rows) = RowLimit(used.rows)
                              \/ Cardinality(put) < Cardinality(Orphans(s, rows))
                           THEN partial \union {"index"} ELSE partial
<1>1. /\ phase = "overlay" /\ pending # {}
      /\ UNCHANGED <<candidate, budget, phase, toResolve, dependents, replaced, delta, search, result>>
  BY DEF VisitSymbol
<1>2. \E s \in pending : \E rows \in Rows(Incoming(s), used.rows) :
        \E put \in Affordable(Lost(s, rows), "edges") : Step(s, rows, put)
  BY DEF VisitSymbol
<1>3. PICK s \in pending : \E rows \in Rows(Incoming(s), used.rows) :
        \E put \in Affordable(Lost(s, rows), "edges") : Step(s, rows, put)
  BY <1>2
<1>4. PICK rows \in Rows(Incoming(s), used.rows) :
        \E put \in Affordable(Lost(s, rows), "edges") : Step(s, rows, put)
  BY <1>3
<1>5. PICK put \in Affordable(Lost(s, rows), "edges") : Step(s, rows, put)
  BY <1>4
<1> DEFINE users == Users(rows)
           orphans == Orphans(s, rows)
           lost == Lost(s, rows)
<1>6. /\ \A r \in Resources : budget[r] \in Nat /\ used[r] \in Nat /\ used[r] <= budget[r]
      /\ s \in AllSymbols(Base) /\ s # NoSymbol
  <2>1. s \in AllSymbols(Base)
    BY <1>1 DEF Shapes
  <2> QED BY <2>1, BudgetFacts, AllSymbolsFacts
<1>7. /\ rows \subseteq Incoming(s) /\ IsFiniteSet(rows) /\ Cardinality(rows) \in Nat
      /\ used.rows + Cardinality(rows) <= budget.rows
      /\ Cardinality(rows) # RowLimit(used.rows) => rows = Incoming(s)
  <2>1. used.rows \in Nat /\ used.rows <= budget.rows /\ budget.rows \in Nat
    BY <1>6 DEF Resources
  <2>2. IsFiniteSet(Incoming(s))
    BY BaseRowsFinite DEF Incoming
  <2> QED BY <2>1, <2>2, RowsFacts
<1>8. \A e \in rows : /\ e \in BaseEdges /\ e.to = s /\ IsEdge(e) /\ e.path \in Paths
                      /\ e.from # NoSymbol /\ TargetName(e) = s[2]
  <2> SUFFICES ASSUME NEW e \in rows
               PROVE  /\ e \in BaseEdges /\ e.to = s /\ IsEdge(e) /\ e.path \in Paths
                      /\ e.from # NoSymbol /\ TargetName(e) = s[2]
    OBVIOUS
  <2>1. e \in BaseEdges /\ e.to = s
    BY <1>7 DEF Incoming
  <2>2. IsEdge(e) /\ e.path \in Paths /\ e.from \in SymbolsOf(Base, e.path)
    BY <2>1, BaseEdgesFacts
  <2>3. e.from # NoSymbol
    <3>1. e.from \in AllSymbols(Base)
      BY <2>2 DEF AllSymbols
    <3> QED BY <3>1, AllSymbolsFacts
  <2> QED BY <1>6, <2>1, <2>2, <2>3 DEF TargetName
<1>9. orphans \subseteq rows /\ IsFiniteSet(orphans) /\ Cardinality(orphans) \in Nat
  <2>1. orphans \subseteq rows
    OBVIOUS
  <2> HIDE DEF orphans
  <2> QED BY <1>7, <2>1, FS_Subset, FS_CardinalityType
<1>10. IsFiniteSet(lost) /\ Cardinality(lost) \in Nat /\ Cardinality(lost) <= Cardinality(orphans)
  <2> DEFINE g == [e \in orphans |-> Unresolved(s, e)]
  <2>1. lost = {g[e] : e \in orphans}
    OBVIOUS
  <2> HIDE DEF g, lost, orphans
  <2> QED BY <1>9, <2>1, SetImage, FS_CardinalityType
<1> HIDE DEF lost, Lost
<1>11. \A e \in orphans :
         LET f == Unresolved(s, e)
         IN  /\ IsEdge(f) /\ f.kind = e.kind /\ f.path = e.path /\ f.place = e.place /\ f.from # NoSymbol
             /\ f.to = NoSymbol /\ f.lost = s /\ Named(f) = TargetName(e)
  <2> SUFFICES ASSUME NEW e \in orphans
               PROVE  LET f == Unresolved(s, e)
                      IN  /\ IsEdge(f) /\ f.kind = e.kind /\ f.path = e.path /\ f.place = e.place
                          /\ f.from # NoSymbol
                          /\ f.to = NoSymbol /\ f.lost = s /\ Named(f) = TargetName(e)
    OBVIOUS
  <2>1. IsEdge(e) /\ e.from # NoSymbol /\ TargetName(e) = s[2]
    BY <1>8, <1>9
  <2> DEFINE f == Unresolved(s, e)
  <2> HIDE DEF orphans
  <2>2. /\ IsEdge(f) /\ f.kind = e.kind /\ f.path = e.path /\ f.place = e.place /\ f.from = e.from
        /\ f.to = NoSymbol /\ f.lost = s
    BY <2>1, Lose, ZenonT(40)
  <2> HIDE DEF f
  <2>3. Named(f) = TargetName(e)
    BY <1>6, <2>1, <2>2 DEF Named
  <2> QED BY <2>1, <2>2, <2>3 DEF f
<1>12. /\ put \subseteq lost /\ IsFiniteSet(put) /\ Cardinality(put) \in Nat
       /\ used.edges + Cardinality(put) <= budget.edges
       /\ Cardinality(put) = Cardinality(lost) => put = lost
       /\ Cardinality(put) <= Cardinality(lost)
  <2>1. budget["edges"] \in Nat /\ used["edges"] \in Nat /\ used["edges"] <= budget["edges"]
    BY <1>6 DEF Resources
  <2>2. put \in Affordable(lost, "edges")
    BY DEF lost
  <2>3. put \subseteq lost /\ IsFiniteSet(put) /\ Cardinality(put) \in Nat
        /\ used["edges"] + Cardinality(put) <= budget["edges"]
        /\ (Cardinality(put) = Cardinality(lost) => put = lost)
    BY <1>10, <2>1, <2>2, AffordableFacts
  <2>4. Cardinality(put) <= Cardinality(lost)
    BY <1>10, <2>3, FS_Subset
  <2> QED BY <2>3, <2>4
<1>13. \A f \in put : IsEdge(f) /\ f.from # NoSymbol /\ f.to = NoSymbol /\ f.lost = s
  <2> SUFFICES ASSUME NEW f \in put PROVE IsEdge(f) /\ f.from # NoSymbol /\ f.to = NoSymbol /\ f.lost = s
    OBVIOUS
  <2>1. PICK e \in orphans : f = Unresolved(s, e)
    BY <1>12 DEF lost, Lost
  <2> HIDE DEF orphans, Unresolved
  <2> QED BY <1>11, <2>1
<1> HIDE DEF users, orphans
<1>14. /\ overlay'.tombs = overlay.tombs /\ overlay'.out = overlay.out \cup put
       /\ overlay'.inc = overlay.inc \cup {<<s, e>> : e \in put}
       /\ overlay'.suppressed = overlay.suppressed \cup orphans
       /\ DOMAIN overlay' = {"tombs", "symbols", "out", "inc", "suppressed"}
  BY <1>5 DEF Shapes, orphans
<1>15. /\ DOMAIN used' = Resources /\ used'.rows = used.rows + Cardinality(rows)
       /\ used'.edges = used.edges + Cardinality(put)
       /\ used'.paths = used.paths /\ used'.nodes = used.nodes /\ used'.symbols = used.symbols
  BY <1>5 DEF Shapes, Resources
<1>16. /\ queue' = queue \cup users /\ queued' = queued \cup users
       /\ pending' = pending \ {s} /\ queried' = queried \cup {s}
       /\ partial \subseteq partial' /\ partial' \subseteq partial \cup {"index"}
  BY <1>5 DEF users
<1>17. "index" \notin partial' => "index" \notin partial /\ rows = Incoming(s) /\ put = lost
  <2>1. "index" \notin partial' => /\ "index" \notin partial
                                   /\ ~(Cardinality(rows) = RowLimit(used.rows))
                                   /\ ~(Cardinality(put) < Cardinality(orphans))
    BY <1>5 DEF orphans
  <2> SUFFICES ASSUME "index" \notin partial' PROVE "index" \notin partial /\ rows = Incoming(s) /\ put = lost
    OBVIOUS
  <2>2. rows = Incoming(s)
    BY <1>7, <2>1
  <2>3. Cardinality(put) = Cardinality(lost)
    BY <1>9, <1>10, <1>12, <2>1
  <2> QED BY <1>12, <2>1, <2>2, <2>3
<1>18. users \subseteq Paths /\ \A e \in rows : e.path \in queued \cup users
  BY <1>8 DEF users
<1> HIDE DEF Step, Users, Orphans
<1>19. Changed' = Changed
  BY <1>1 DEF Changed
<1>20. \A r \in Resources : used'[r] \in Nat /\ used'[r] <= budget[r]
  <2>1. used'.rows \in Nat /\ used'.rows <= budget.rows
    BY <1>6, <1>7, <1>15 DEF Resources
  <2>2. used'.edges \in Nat /\ used'.edges <= budget.edges
    BY <1>6, <1>12, <1>15 DEF Resources
  <2>3. \A r \in {"paths", "nodes", "symbols"} : used'[r] \in Nat /\ used'[r] <= budget[r]
    BY <1>6, <1>15 DEF Resources
  <2> QED BY <2>1, <2>2, <2>3 DEF Resources
<1>21. Shapes'
  BY <1>1, <1>14, <1>15, <1>16, <1>18, <1>19, <1>20 DEF Shapes
<1>22. Replacing' /\ Resolving' /\ ResolvedWhole' /\ Depending'
  <2>1. used'.symbols = used.symbols /\ used.symbols \in Nat /\ used.symbols <= budget.symbols
    BY <1>6, <1>15 DEF Resources
  <2>2. used'.symbols \in Nat /\ used'.symbols >= used.symbols /\ used'.symbols <= budget.symbols
    BY <2>1
  <2> QED BY <1>1, <2>2, ResolvedKept
<1>23. Laying'
  <2>1. IsFiniteSet(overlay'.out)
    <3>1. IsFiniteSet(overlay.out)
      BY DEF Laying
    <3>2. IsFiniteSet(overlay.out \cup put)
      BY <1>12, <3>1, FS_Union
    <3> QED BY <1>14, <3>2
  <2>2. overlay'.suppressed \subseteq BaseEdges
    BY <1>8, <1>9, <1>14 DEF Laying
  <2>3. \A e \in overlay'.out :
           /\ IsEdge(e) /\ e.from # NoSymbol
           /\ e \in delta'.edges \/ (e.lost # NoSymbol /\ e.to = NoSymbol)
    BY <1>1, <1>6, <1>13, <1>14 DEF Laying
  <2>4. \A x \in overlay'.inc : x[2] \in overlay'.out
    <3> SUFFICES ASSUME NEW e \in put PROVE <<s, e>>[2] \in overlay'.out
      BY <1>14 DEF Laying
    <3> QED BY <1>14
  <2>5. \A e \in overlay'.out : \A t \in {e.to, e.lost} : t # NoSymbol => <<t, e>> \in overlay'.inc
    BY <1>13, <1>14 DEF Laying
  <2>6. overlay'.tombs \subseteq Changed' \cup delta'.files
    BY <1>1, <1>14, <1>19 DEF Laying
  <2> QED BY <1>1, <2>1, <2>2, <2>3, <2>4, <2>5, <2>6 DEF Laying
<1>24. LaidWhole'
  <2> SUFFICES ASSUME "index" \notin partial' PROVE LaidWhole'
    BY DEF LaidWhole
  <2>1. "index" \notin partial /\ rows = Incoming(s) /\ put = lost
    BY <1>17
  <2>2. queued' \ queue' \subseteq overlay'.tombs
    BY <1>14, <1>16, <2>1 DEF LaidWhole
  <2>3. \A e \in delta'.edges : e.path \in overlay'.tombs => e \in overlay'.out
    BY <1>1, <1>14, <2>1 DEF LaidWhole
  <2>4. \A q \in overlay'.tombs : SymbolsOf(Base, q) \subseteq pending' \cup queried'
    BY <1>1, <1>14, <1>16, <2>1 DEF LaidWhole
  <2>5. \A t \in queried' : \A e \in Incoming(t) : e.path \in queued'
    BY <1>16, <1>18, <2>1 DEF LaidWhole
  <2>6. \A e \in overlay'.suppressed : e.path \in overlay'.tombs \/
          \E f \in overlay'.out : f.path = e.path /\ f.kind = e.kind /\ f.place = e.place /\ Named(f) = TargetName(e)
    <3> SUFFICES ASSUME NEW e \in orphans
                 PROVE  \E f \in overlay'.out : /\ f.path = e.path /\ f.kind = e.kind /\ f.place = e.place
                                                /\ Named(f) = TargetName(e)
      BY <1>14, <2>1 DEF LaidWhole
    <3> DEFINE f == Unresolved(s, e)
    <3>1. f.path = e.path /\ f.kind = e.kind /\ f.place = e.place /\ Named(f) = TargetName(e)
      BY <1>11
    <3>2. f \in lost
      BY DEF lost, Lost, orphans
    <3>3. f \in overlay'.out
      BY <1>14, <2>1, <3>2
    <3> HIDE DEF f
    <3> QED BY <3>1, <3>3
  <2>7. (\E q \in delta'.files : Starved(q)') => \A t \in delta'.symbols : t[1] \notin overlay'.tombs
    BY <1>1, <1>14, <2>1 DEF LaidWhole, Starved, HasSymbols
  <2> QED BY <1>1, <2>2, <2>3, <2>4, <2>5, <2>6, <2>7 DEF LaidWhole
<1>25. /\ Searching' /\ SearchedWhole'
       /\ NoCallIsLost' /\ OutputIsOfTheCandidate' /\ OmissionsAreDeclared'
       /\ result' \subseteq search'.output
  BY <1>1, <1>16, BuildQuiet
<1> QED BY <1>21, <1>22, <1>23, <1>24, <1>25

\* Whether a dependent, or a changed file, was resolved, the overlay has laid it.
LEMMA AllAreLaid ==
  ASSUME QueryInv, phase = "overlay", pending = {}, queue = {}, "index" \notin partial
  PROVE  /\ Changed \subseteq overlay.tombs /\ queued \subseteq overlay.tombs
         /\ delta.files \subseteq overlay.tombs
<1> USE DEF QueryInv
<1>1. queued \subseteq overlay.tombs /\ Changed \subseteq queued
  BY DEF LaidWhole, Shapes
<1>2. ASSUME NEW q \in delta.files, q \notin Changed
      PROVE  q \in queued
  <2>1. UsesChanged(q)
    BY <1>2 DEF Depending
  <2>2. PICK e \in BaseEdges : /\ e.path = q /\ e.to \in AllSymbols(Base)
                               /\ e.to[1] \in Changed
    BY <2>1 DEF UsesChanged
  <2>3. e.to \in SymbolsOf(Base, e.to[1])
    BY <2>2, AllSymbolsFacts
  <2>4. e.to \in queried
    BY <1>1, <2>2, <2>3 DEF LaidWhole
  <2>5. e \in Incoming(e.to)
    BY DEF Incoming
  <2> QED BY <2>2, <2>4, <2>5 DEF LaidWhole
<1> QED BY <1>1, <1>2

\* When the overlay is complete, every call of the candidate can be looked up.
LEMMA CallsAreLaid ==
  ASSUME QueryInv, phase = "overlay", pending = {}, queue = {}, "index" \notin partial,
         NEW p \in Paths, NEW u \in candidate[p].uses, u.kind = "calls", u.name \notin Builtins
  PROVE  \E e \in View : e.path = p /\ e.kind = "calls" /\ e.place = u.place /\ Named(e) = u.name
<1> USE DEF QueryInv
<1>1. /\ Changed \subseteq overlay.tombs /\ queued \subseteq overlay.tombs
      /\ delta.files \subseteq overlay.tombs
  BY AllAreLaid
<1>2. candidate \in Candidates \cup {Base}
  BY BudgetFacts
<1>3. CASE p \in overlay.tombs
  <2>1. p \in delta.files
    <3>1. candidate[p] # NoFile
      BY DEF NoFile
    <3>2. p \in Changed \cup delta.files
      BY <1>3 DEF Laying
    <3>3. toResolve = {}
      BY DEF Shapes
    <3> QED BY <3>1, <3>2, <3>3 DEF ResolvedWhole
  <2>2. candidate[p].symbols # {}
    BY <1>2, TextFacts
  <2>3. ~Starved(p)
    <3> SUFFICES ASSUME Starved(p) PROVE FALSE
      OBVIOUS
    <3>1. PICK s \in delta.symbols : TRUE
      BY <2>1 DEF ResolvedWhole
    <3>2. s[1] \in delta.files
      BY <3>1 DEF Resolving
    <3>3. s[1] \notin overlay.tombs
      BY <2>1, <3>1 DEF LaidWhole
    <3> QED BY <1>1, <3>2, <3>3
  <2>4. HasSymbols(p)
    BY <2>2, <2>3 DEF Starved
  <2>5. u \in CallsOf(candidate[p])
    BY DEF CallsOf
  <2>6. PICK e \in delta.edges : e.path = p /\ e.kind = "calls" /\ e.place = u.place /\ Named(e) = u.name
    BY <2>1, <2>4, <2>5 DEF ResolvedWhole, Stands
  <2>7. e \in View
    BY <1>3, <2>6 DEF LaidWhole, View
  <2> QED BY <2>6, <2>7
<1>4. CASE p \notin overlay.tombs
  <2>1. u \in Base[p].uses
    BY <1>1, <1>4 DEF Changed
  <2>2. PICK e \in BaseEdges : /\ e.path = p /\ e.kind = "calls" /\ e.place = u.place /\ TargetName(e) = u.name
                               /\ e.lost = NoSymbol
    BY <2>1, BaseEdgesFacts
  <2>3. Named(e) = u.name
    BY <2>2 DEF Named
  <2>4. CASE ~Suppressed(e)
    <3>1. e \in View
      BY <2>4 DEF View
    <3> QED BY <3>1, <2>2, <2>3
  <2>5. CASE e \in overlay.out
    <3>1. e \in View
      BY <2>5 DEF View
    <3> QED BY <3>1, <2>2, <2>3
  <2>6. CASE e \in overlay.suppressed
    <3>1. PICK f \in overlay.out : /\ f.path = e.path /\ f.kind = e.kind /\ f.place = e.place
                                   /\ Named(f) = TargetName(e)
      BY <1>4, <2>2, <2>6 DEF LaidWhole
    <3>2. f \in View
      BY DEF View
    <3> QED BY <2>2, <3>1, <3>2
  <2> QED BY <1>4, <2>2, <2>4, <2>5, <2>6 DEF Suppressed
<1> QED BY <1>3, <1>4

\* The overlay ends, complete or not.
LEMMA OverlayEnds ==
  ASSUME QueryInv, phase = "overlay", phase' = "seeds", pending = {}, pending' = ChangedSymbols,
         UNCHANGED <<candidate, budget, used, toResolve, dependents, replaced, delta, overlay,
                     queue, queued, queried, search, result>>,
         \/ partial' = partial \cup {"index"}
         \/ partial' = partial /\ queue = {}
  PROVE  QueryInv'
<1> USE DEF QueryInv
<1>1. Changed' = Changed
  BY DEF Changed
<1>2. Shapes'
  <2>1. pending' \subseteq AllSymbols(candidate)
    BY DEF ChangedSymbols, AllSymbols, Changed
  <2>2. AllSymbols(candidate)' = AllSymbols(candidate)
    BY DEF AllSymbols, SymbolsOf
  <2> QED BY <1>1, <2>1, <2>2 DEF Shapes
<1>3. Replacing' /\ Resolving' /\ ResolvedWhole' /\ Depending'
  <2>1. used'.symbols = used.symbols /\ used.symbols \in Nat /\ used.symbols <= budget.symbols
    BY BudgetFacts DEF Resources
  <2>2. used'.symbols \in Nat /\ used'.symbols >= used.symbols /\ used'.symbols <= budget.symbols
    BY <2>1
  <2> QED BY <2>2, ResolvedKept
<1>4. Laying'
  BY <1>1 DEF Laying
<1>5. View' = View
  BY DEF View, Suppressed
<1>6. "index" \notin partial' => "index" \notin partial /\ queue = {}
  OBVIOUS
<1>7. LaidWhole'
  <2> SUFFICES ASSUME "index" \notin partial' PROVE LaidWhole'
    BY DEF LaidWhole
  <2>1. Changed \subseteq overlay.tombs
    BY <1>6, AllAreLaid
  <2>2. \A q : Starved(q)' = Starved(q)
    BY DEF Starved, HasSymbols
  <2> QED BY <1>1, <1>6, <2>1, <2>2 DEF LaidWhole
<1>8. NoCallIsLost'
  <2> SUFFICES ASSUME "index" \notin partial', NEW p \in Paths, NEW u \in candidate[p].uses,
                      u.kind = "calls", u.name \notin Builtins
               PROVE  \E e \in View : e.path = p /\ e.kind = "calls" /\ e.place = u.place /\ Named(e) = u.name
    BY <1>5 DEF NoCallIsLost
  <2> QED BY <1>6, CallsAreLaid
<1>9. search.output = {} /\ search.seen = {} /\ search.next = {} /\ search.frontier = {}
  BY DEF Searching
<1>10. Searching' /\ SearchedWhole'
  BY <1>9 DEF Searching, SearchedWhole
<1>11. OutputIsOfTheCandidate' /\ OmissionsAreDeclared'
  BY DEF OutputIsOfTheCandidate, OmissionsAreDeclared
<1> QED BY <1>2, <1>3, <1>4, <1>7, <1>8, <1>10, <1>11

LEMMA StopOverlayInv ==
  ASSUME QueryInv, StopOverlay
  PROVE  QueryInv'
BY OverlayEnds DEF StopOverlay

LEMMA FinishOverlayInv ==
  ASSUME QueryInv, FinishOverlay
  PROVE  QueryInv'
BY OverlayEnds DEF FinishOverlay

-----------------------------------------------------------------------------
(* The search *)

\* The search leaves the overlay as it is.
LEMMA QueryQuiet ==
  ASSUME QueryInv, phase \in {"seeds", "traverse", "done"}, phase' \in {"seeds", "traverse", "done"},
         UNCHANGED <<candidate, budget, toResolve, dependents, replaced, delta, overlay, queue, queued, queried>>,
         used'.symbols = used.symbols,
         partial \subseteq partial', partial' \subseteq partial \cup {"query", "output"}
  PROVE  /\ Replacing' /\ Resolving' /\ ResolvedWhole' /\ Depending'
         /\ Laying' /\ LaidWhole' /\ NoCallIsLost' /\ View' = View
<1> USE DEF QueryInv
<1>1. Changed' = Changed
  BY DEF Changed
<1>2. Replacing' /\ Resolving' /\ ResolvedWhole' /\ Depending'
  <2>1. used'.symbols \in Nat /\ used'.symbols >= used.symbols /\ used'.symbols <= budget.symbols
    BY BudgetFacts DEF Resources
  <2> QED BY <2>1, ResolvedKept
<1>3. Laying'
  BY <1>1 DEF Laying
<1>4. View' = View
  BY DEF View, Suppressed
<1>5. "index" \in partial' <=> "index" \in partial
  OBVIOUS
<1>6. LaidWhole'
  <2>1. \A q : Starved(q)' = Starved(q)
    BY DEF Starved, HasSymbols
  <2> QED BY <1>1, <1>5, <2>1 DEF LaidWhole
<1>7. NoCallIsLost'
  BY <1>4, <1>5 DEF NoCallIsLost
<1> QED BY <1>2, <1>3, <1>4, <1>6, <1>7

LEMMA SeedSymbolInv ==
  ASSUME QueryInv, SeedSymbol
  PROVE  QueryInv'
<1> USE DEF QueryInv
<1> DEFINE Gone(s, rows) == IF s[1] \in overlay.tombs THEN rows \ overlay.symbols ELSE {}
           Roots(s, rows) == Gone(s, rows) \cup
                               ({s} \cap (overlay.symbols \cup (rows \ Gone(s, rows))))
           Step(s, rows) ==
             /\ search' = [search EXCEPT !.roots = @ \cup Roots(s, rows)]
             /\ used' = [used EXCEPT !.rows = @ + Cardinality(rows)]
             /\ pending' = IF used.rows = budget.rows THEN {} ELSE pending \ {s}
             /\ partial' = IF Cardinality(rows) = RowLimit(used.rows)
                           THEN partial \cup {"query"} ELSE partial
<1>1. /\ phase = "seeds"
      /\ UNCHANGED <<candidate, budget, phase, toResolve, dependents, replaced, delta, overlay, queue,
                     queued, queried, result>>
  BY DEF SeedSymbol
<1>2. PICK s \in pending : \E rows \in Rows(SymbolsOf(Base, s[1]), used.rows) : Step(s, rows)
  BY DEF SeedSymbol
<1>3. PICK rows \in Rows(SymbolsOf(Base, s[1]), used.rows) : Step(s, rows)
  BY <1>2
<1> DEFINE roots == Roots(s, rows)
<1>4. candidate \in Candidates \cup {Base} /\ s \in AllSymbols(candidate) /\ s # NoSymbol /\ s[1] \in Paths
  <2>1. candidate \in Candidates \cup {Base} /\ s \in AllSymbols(candidate)
    BY <1>1, BudgetFacts DEF Shapes
  <2> QED BY <2>1, AllSymbolsFacts
<1>5. /\ rows \subseteq SymbolsOf(Base, s[1]) /\ IsFiniteSet(rows) /\ Cardinality(rows) \in Nat
      /\ used.rows + Cardinality(rows) <= budget.rows
  <2>1. used.rows \in Nat /\ used.rows <= budget.rows /\ budget.rows \in Nat
    BY BudgetFacts DEF Resources
  <2>2. IsFiniteSet(SymbolsOf(Base, s[1]))
    BY <1>4, SymbolsFacts
  <2> QED BY <2>1, <2>2, RowsFacts
<1>6. IsFiniteSet(roots) /\ NoSymbol \notin roots
  <2>1. roots \subseteq rows \cup {s}
    OBVIOUS
  <2>2. IsFiniteSet(rows \cup {s})
    BY <1>5, FS_AddElement
  <2>3. NoSymbol \notin rows
    BY <1>4, <1>5, SymbolsFacts
  <2> HIDE DEF roots
  <2> QED BY <1>4, <2>1, <2>2, <2>3, FS_Subset
<1> HIDE DEF roots
<1>7. /\ DOMAIN search' = {"roots", "seen", "frontier", "next", "depth", "output", "known", "halted"}
      /\ search'.roots = search.roots \cup roots /\ search'.seen = search.seen
      /\ search'.frontier = search.frontier /\ search'.next = search.next /\ search'.depth = search.depth
      /\ search'.output = search.output /\ search'.halted = search.halted
  BY <1>3 DEF Shapes, roots
<1>8. /\ partial \subseteq partial' /\ partial' \subseteq partial \cup {"query"} /\ pending' \subseteq pending
      /\ used' = [used EXCEPT !.rows = @ + Cardinality(rows)]
  BY <1>3
<1> HIDE DEF Step, Roots, Gone
<1>9. /\ DOMAIN used' = Resources /\ \A r \in Resources : used'[r] \in Nat /\ used'[r] <= budget'[r]
      /\ used'.symbols = used.symbols
  BY <1>1, <1>5, <1>8, RowsSpent
<1>10. /\ Replacing' /\ Resolving' /\ ResolvedWhole' /\ Depending'
       /\ Laying' /\ LaidWhole' /\ NoCallIsLost' /\ View' = View
  BY <1>1, <1>8, <1>9, QueryQuiet
<1>11. Changed' = Changed /\ AllSymbols(candidate)' = AllSymbols(candidate)
  BY <1>1 DEF Changed, AllSymbols, SymbolsOf
<1>12. Shapes'
  BY <1>1, <1>7, <1>8, <1>9, <1>11 DEF Shapes
<1>13. Searching'
  <2>1. IsFiniteSet(search'.roots) /\ NoSymbol \notin search'.roots
    <3>1. IsFiniteSet(search.roots) /\ NoSymbol \notin search.roots
      BY DEF Searching
    <3>2. IsFiniteSet(search.roots \cup roots)
      BY <1>6, <3>1, FS_Union
    <3> QED BY <1>6, <1>7, <3>1, <3>2
  <2> QED BY <1>1, <1>7, <1>8, <1>10, <2>1 DEF Searching
<1>14. SearchedWhole'
  <2>1. search'.seen = {}
    BY <1>1, <1>7 DEF Searching
  <2> QED BY <2>1 DEF SearchedWhole
<1>15. OutputIsOfTheCandidate' /\ OmissionsAreDeclared' /\ result' \subseteq search'.output
  BY <1>1, <1>7 DEF OutputIsOfTheCandidate, OmissionsAreDeclared
<1> QED BY <1>10, <1>12, <1>13, <1>14, <1>15

LEMMA StartSearchInv ==
  ASSUME QueryInv, StartSearch
  PROVE  QueryInv'
<1> USE DEF QueryInv
<1>1. /\ phase = "seeds" /\ phase' = "traverse" /\ pending = {}
      /\ UNCHANGED <<candidate, budget, used, toResolve, dependents, replaced, delta, overlay, queue,
                     queued, pending, queried, result>>
  BY DEF StartSearch
<1>2. PICK seen \in {some \in SUBSET search.roots : Cardinality(some) =
                       Smaller(Cardinality(search.roots), budget.nodes)} :
        /\ search' = [search EXCEPT !.seen = seen, !.frontier = seen, !.known = search.roots]
        /\ partial' = IF seen # search.roots \/ seen = {}
                      THEN partial \union {"query"} ELSE partial
  BY DEF StartSearch
<1>3. /\ IsFiniteSet(seen) /\ NoSymbol \notin seen /\ Cardinality(seen) <= budget.nodes
  <2>1. IsFiniteSet(search.roots) /\ NoSymbol \notin search.roots
    BY DEF Searching
  <2>2. budget.nodes \in Nat
    BY BudgetFacts DEF Resources
  <2> QED BY <2>1, <2>2, Bounded
<1>4. /\ DOMAIN search' = {"roots", "seen", "frontier", "next", "depth", "output", "known", "halted"}
      /\ search'.roots = search.roots /\ search'.seen = seen
      /\ search'.frontier = seen /\ search'.next = search.next /\ search'.depth = search.depth
      /\ search'.output = search.output /\ search'.halted = search.halted
  BY <1>2 DEF Shapes
<1>5. partial \subseteq partial' /\ partial' \subseteq partial \cup {"query"}
  BY <1>2
<1>6. /\ Replacing' /\ Resolving' /\ ResolvedWhole' /\ Depending'
      /\ Laying' /\ LaidWhole' /\ NoCallIsLost' /\ View' = View
  BY <1>1, <1>5, QueryQuiet
<1>7. Changed' = Changed
  BY <1>1 DEF Changed
<1>8. Shapes'
  BY <1>1, <1>4, <1>5, <1>7 DEF Shapes
<1>9. search.next = {} /\ search.output = {}
  BY <1>1 DEF Searching
<1>10. Searching'
  BY <1>1, <1>3, <1>4, <1>5, <1>6, <1>9 DEF Searching
<1>11. SearchedWhole'
  BY <1>4 DEF SearchedWhole
<1>12. OutputIsOfTheCandidate' /\ OmissionsAreDeclared' /\ result' \subseteq search'.output
  BY <1>1, <1>4 DEF OutputIsOfTheCandidate, OmissionsAreDeclared
<1> QED BY <1>6, <1>8, <1>10, <1>11, <1>12

LEMMA DeeperInv ==
  ASSUME QueryInv, Deeper
  PROVE  QueryInv'
<1> USE DEF QueryInv
<1>1. /\ phase = "traverse" /\ search.frontier = {} /\ search.next # {}
      /\ search' = [search EXCEPT !.frontier = search.next, !.next = {}, !.depth = @ + 1]
      /\ UNCHANGED <<candidate, budget, used, phase, toResolve, dependents, replaced, delta,
                     overlay, queue, queued, pending, queried, partial, result>>
  BY DEF Deeper
<1>2. /\ DOMAIN search' = {"roots", "seen", "frontier", "next", "depth", "output", "known", "halted"}
      /\ search'.roots = search.roots /\ search'.seen = search.seen
      /\ search'.frontier = search.next /\ search'.next = {} /\ search'.depth = search.depth + 1
      /\ search'.output = search.output /\ search'.halted = search.halted
  BY <1>1 DEF Shapes
<1>3. /\ Replacing' /\ Resolving' /\ ResolvedWhole' /\ Depending'
      /\ Laying' /\ LaidWhole' /\ NoCallIsLost' /\ View' = View
  BY <1>1, QueryQuiet
<1>4. Changed' = Changed
  BY <1>1 DEF Changed
<1>5. Shapes'
  BY <1>1, <1>2, <1>4 DEF Shapes
<1>6. search'.depth \in Nat /\ search'.depth <= budget.depth
  <2>1. budget.depth \in Nat
    BY BudgetFacts
  <2> QED BY <1>1, <1>2, <2>1 DEF Searching
<1>7. Searching'
  BY <1>1, <1>2, <1>3, <1>6 DEF Searching
<1>8. SearchedWhole'
  <2>1. \A s : Around(s)' = Around(s)
    BY <1>2, <1>3 DEF Around
  <2> QED BY <1>1, <1>2, <2>1 DEF SearchedWhole
<1>9. OutputIsOfTheCandidate' /\ OmissionsAreDeclared' /\ result' \subseteq search'.output
  BY <1>1, <1>2 DEF OutputIsOfTheCandidate, OmissionsAreDeclared
<1> QED BY <1>3, <1>5, <1>7, <1>8, <1>9

LEMMA LateInv ==
  ASSUME QueryInv, Late
  PROVE  QueryInv'
<1> USE DEF QueryInv
<1>1. /\ phase = "traverse"
      /\ search' = [search EXCEPT !.halted = TRUE] /\ partial' = partial \union {"query"}
      /\ UNCHANGED <<candidate, budget, used, phase, toResolve, dependents, replaced, delta,
                     overlay, queue, queued, pending, queried, result>>
  BY DEF Late
<1>2. /\ DOMAIN search' = {"roots", "seen", "frontier", "next", "depth", "output", "known", "halted"}
      /\ search'.roots = search.roots /\ search'.seen = search.seen
      /\ search'.frontier = search.frontier /\ search'.next = search.next /\ search'.depth = search.depth
      /\ search'.output = search.output
  BY <1>1 DEF Shapes
<1>3. /\ Replacing' /\ Resolving' /\ ResolvedWhole' /\ Depending'
      /\ Laying' /\ LaidWhole' /\ NoCallIsLost' /\ View' = View
  BY <1>1, QueryQuiet
<1>4. Changed' = Changed
  BY <1>1 DEF Changed
<1>5. Shapes'
  BY <1>1, <1>2, <1>4 DEF Shapes
<1>6. Searching'
  BY <1>1, <1>2, <1>3 DEF Searching
<1>7. SearchedWhole'
  BY <1>1 DEF SearchedWhole
<1>8. OutputIsOfTheCandidate' /\ OmissionsAreDeclared' /\ result' \subseteq search'.output
  BY <1>1, <1>2 DEF OutputIsOfTheCandidate, OmissionsAreDeclared
<1> QED BY <1>3, <1>5, <1>6, <1>7, <1>8

\* A lookup returns what the graphs have at its symbol, as far as its rows go.
LEMMA LookUpInv ==
  ASSUME QueryInv, LookUp
  PROVE  QueryInv'
<1> USE DEF QueryInv
<1> DEFINE Spent(up) == used.rows + Cardinality(up)
           Halt1(up) == HaltsAt(up, RowLimit(used.rows))
           Skip(s, up) == Halt1(up) \/ FullyReplaced(s)
           In(s, up) == {e \in up : ~Suppressed(e)} \union {x[2] : x \in {y \in overlay.inc : y[1] = s}}
           Out(s, up, down) == IF Halt1(up) THEN {}
                               ELSE {e \in down : ~Suppressed(e)} \union {e \in overlay.out : e.from = s}
           Found(s, up, down) == (In(s, up) \union Out(s, up, down)) \ search.output
           Near(s, up, down) == ({e.from : e \in In(s, up)} \union
                                 ({e.to : e \in Out(s, up, down)} \ {NoSymbol})) \ search.seen
           Halt(s, up, down) == Halt1(up) \/ (~Skip(s, up) /\ HaltsAt(down, RowLimit(Spent(up))))
           Downs(s, up) == IF Skip(s, up) THEN {{}} ELSE Rows(Outgoing(s), Spent(up))
           Listings(found) == {some \in SUBSET found : Cardinality(some) =
                      Smaller(Cardinality(found), budget.edges - Cardinality(search.output))}
           Visits(near) == {some \in SUBSET near : Cardinality(some) =
                      Smaller(Cardinality(near), budget.nodes - Cardinality(search.seen))}
           Step(s, up, down, listed, visited) ==
             /\ search' = [search EXCEPT
                            !.output = @ \union listed,
                            !.seen = @ \union visited,
                            !.next = @ \union visited,
                            !.frontier = @ \ {s},
                            !.halted = Halt(s, up, down)]
             /\ used' = [used EXCEPT !.rows = Spent(up) + Cardinality(down)]
             /\ partial' = partial
                  \union (IF Halt(s, up, down) \/ visited # Near(s, up, down) THEN {"query"} ELSE {})
                  \union (IF listed # Found(s, up, down) THEN {"output"} ELSE {})
<1>1. /\ phase = "traverse" /\ search.depth < budget.depth
      /\ UNCHANGED <<candidate, budget, phase, toResolve, dependents, replaced, delta, overlay,
                     queue, queued, pending, queried, result>>
  BY DEF LookUp
<1>2. \E s \in search.frontier : \E up \in Rows(Incoming(s), used.rows) :
        \E down \in Downs(s, up) :
          \E listed \in Listings(Found(s, up, down)), visited \in Visits(Near(s, up, down)) :
            Step(s, up, down, listed, visited)
  BY DEF LookUp
<1>3. PICK s \in search.frontier : \E up \in Rows(Incoming(s), used.rows) :
        \E down \in Downs(s, up) :
          \E listed \in Listings(Found(s, up, down)), visited \in Visits(Near(s, up, down)) :
            Step(s, up, down, listed, visited)
  BY <1>2
<1>4. PICK up \in Rows(Incoming(s), used.rows) :
        \E down \in Downs(s, up) :
          \E listed \in Listings(Found(s, up, down)), visited \in Visits(Near(s, up, down)) :
            Step(s, up, down, listed, visited)
  BY <1>3
<1>5. PICK down \in Downs(s, up) :
        \E listed \in Listings(Found(s, up, down)), visited \in Visits(Near(s, up, down)) :
            Step(s, up, down, listed, visited)
  BY <1>4
<1>6. PICK listed \in Listings(Found(s, up, down)), visited \in Visits(Near(s, up, down)) :
        Step(s, up, down, listed, visited)
  BY <1>5
<1> DEFINE paid == Spent(up)
           halt1 == Halt1(up)
           halt == Halt(s, up, down)
           incoming == In(s, up)
           outgoing == Out(s, up, down)
           found == Found(s, up, down)
           near == Near(s, up, down)
<1>7. s \in search.seen /\ s # NoSymbol
  BY DEF Searching
<1>8. /\ up \subseteq Incoming(s) /\ IsFiniteSet(up) /\ Cardinality(up) \in Nat
      /\ paid \in Nat /\ paid <= budget.rows
      /\ ~halt1 => up = Incoming(s)
  <2>1. used.rows \in Nat /\ used.rows <= budget.rows /\ budget.rows \in Nat
    BY BudgetFacts DEF Resources
  <2>2. IsFiniteSet(Incoming(s))
    BY BaseRowsFinite DEF Incoming
  <2>3. /\ up \subseteq Incoming(s) /\ IsFiniteSet(up) /\ Cardinality(up) \in Nat
        /\ used.rows + Cardinality(up) <= budget.rows
        /\ (Cardinality(up) # RowLimit(used.rows) => up = Incoming(s))
    BY <2>1, <2>2, RowsFacts
  <2> QED BY <2>1, <2>3 DEF HaltsAt
<1>9. /\ down \subseteq Outgoing(s) /\ IsFiniteSet(down) /\ Cardinality(down) \in Nat
      /\ paid + Cardinality(down) <= budget.rows
      /\ ~halt /\ ~FullyReplaced(s) => down = Outgoing(s)
  <2>1. CASE Skip(s, up)
    <3>1. down = {}
      BY <2>1
    <3>2. IsFiniteSet(down) /\ Cardinality(down) = 0
      BY <3>1, FS_EmptySet
    <3>3. budget.rows \in Nat
      BY BudgetFacts DEF Resources
    <3>4. halt \/ FullyReplaced(s)
      BY <2>1
    <3> HIDE DEF paid, halt
    <3> QED BY <1>8, <3>1, <3>2, <3>3, <3>4
  <2>2. CASE ~Skip(s, up)
    <3>1. budget.rows \in Nat
      BY BudgetFacts DEF Resources
    <3>2. IsFiniteSet(Outgoing(s))
      BY BaseRowsFinite DEF Outgoing
    <3>3. down \in Rows(Outgoing(s), paid)
      BY <2>2
    <3>4. ~halt => Cardinality(down) # RowLimit(paid)
      BY <2>2 DEF HaltsAt
    <3> HIDE DEF paid, halt
    <3>5. /\ down \subseteq Outgoing(s) /\ IsFiniteSet(down) /\ Cardinality(down) \in Nat
          /\ paid + Cardinality(down) <= budget.rows
          /\ (Cardinality(down) # RowLimit(paid) => down = Outgoing(s))
      BY <1>8, <3>1, <3>2, <3>3, RowsFacts
    <3> QED BY <3>4, <3>5
  <2> QED BY <2>1, <2>2
<1>10. incoming \subseteq View /\ outgoing \subseteq View
  <2>1. up \subseteq BaseEdges /\ down \subseteq BaseEdges
    BY <1>8, <1>9 DEF Incoming, Outgoing
  <2>2. \A x \in overlay.inc : x[2] \in overlay.out
    BY DEF Laying
  <2> QED BY <2>1, <2>2 DEF View
<1>11. IsFiniteSet(View)
  <2>1. IsFiniteSet({e \in BaseEdges : ~Suppressed(e)})
    BY BaseRowsFinite
  <2>2. IsFiniteSet(overlay.out)
    BY DEF Laying
  <2> QED BY <2>1, <2>2, FS_Union DEF View
<1>12. \A e \in View : e.from # NoSymbol
  <2>1. \A e \in BaseEdges : e.from # NoSymbol
    <3> SUFFICES ASSUME NEW e \in BaseEdges PROVE e.from # NoSymbol
      OBVIOUS
    <3>1. e.path \in Paths /\ e.from \in SymbolsOf(Base, e.path)
      BY BaseEdgesFacts
    <3>2. e.from \in AllSymbols(Base)
      BY <3>1 DEF AllSymbols
    <3> QED BY <3>2, AllSymbolsFacts
  <2> QED BY <2>1 DEF View, Laying
<1>13. found \subseteq View /\ IsFiniteSet(found)
  <2>1. found \subseteq View
    BY <1>10
  <2> HIDE DEF found
  <2> QED BY <1>11, <2>1, FS_Subset
<1>14. IsFiniteSet(near) /\ NoSymbol \notin near
  <2> DEFINE froms == {[d \in incoming |-> d.from][e] : e \in incoming}
             tos == {[d \in outgoing |-> d.to][e] : e \in outgoing}
  <2>1. near \subseteq froms \cup tos
    OBVIOUS
  <2>2. NoSymbol \notin near
    BY <1>10, <1>12
  <2>3. IsFiniteSet(incoming) /\ IsFiniteSet(outgoing)
    <3> HIDE DEF incoming, outgoing
    <3> QED BY <1>10, <1>11, FS_Subset
  <2> HIDE DEF incoming, outgoing, near
  <2>4. IsFiniteSet(froms)
    <3> DEFINE f == [e \in incoming |-> e.from]
    <3>1. froms = {f[e] : e \in incoming}
      OBVIOUS
    <3> HIDE DEF f, froms
    <3> QED BY <2>3, <3>1, SetImage
  <2>5. IsFiniteSet(tos)
    <3> DEFINE f == [e \in outgoing |-> e.to]
    <3>1. tos = {f[e] : e \in outgoing}
      OBVIOUS
    <3> HIDE DEF f, tos
    <3> QED BY <2>3, <3>1, SetImage
  <2> HIDE DEF froms, tos
  <2>6. IsFiniteSet(froms \cup tos)
    BY <2>4, <2>5, FS_Union
  <2> QED BY <2>1, <2>2, <2>6, FS_Subset
\* What can be found at the symbol, when nothing halts the lookup.
<1>15. ASSUME ~halt, NEW e \in View, s \in {e.from, e.to, e.lost}
       PROVE  /\ e \in incoming \cup outgoing
              /\ e.from = s \/ e \in incoming
              /\ e.to \in {s, NoSymbol} \/ e \in outgoing
  <2>1. ~halt1 /\ up = Incoming(s)
    BY <1>8, <1>15
  <2>2. CASE e \in overlay.out
    <3>1. e.from = s => e \in outgoing
      BY <2>1, <2>2
    <3>2. e.to = s \/ e.lost = s => e \in incoming
      <4>1. e.to = s \/ e.lost = s => <<s, e>> \in overlay.inc
        BY <1>7, <2>2 DEF Laying
      <4>2. <<s, e>> \in overlay.inc => e \in incoming
        <5>1. <<s, e>>[1] = s /\ <<s, e>>[2] = e
          OBVIOUS
        <5> QED BY <5>1
      <4> QED BY <4>1, <4>2
    <3>3. e.lost = s => e.to = NoSymbol
      <4>1. \A d \in delta.edges : d.lost = NoSymbol
        BY DEF Resolving
      <4> QED BY <1>7, <2>2, <4>1 DEF Laying
    <3> HIDE DEF incoming, outgoing
    <3> QED BY <1>15, <3>1, <3>2, <3>3
  <2>3. CASE e \in BaseEdges /\ ~Suppressed(e)
    <3>1. e.lost = NoSymbol /\ e.from[1] = e.path
      BY <2>3, BaseEdgesFacts
    <3>2. e.to = s => e \in incoming
      BY <2>1, <2>3 DEF Incoming
    <3>3. e.from = s => e \in outgoing
      <4> SUFFICES ASSUME e.from = s PROVE e \in outgoing
        OBVIOUS
      <4>1. ~FullyReplaced(s)
        BY <2>3, <3>1 DEF FullyReplaced, Suppressed
      <4>2. e \in down
        BY <1>9, <1>15, <2>3, <4>1 DEF Outgoing
      <4> QED BY <2>1, <2>3, <4>2
    <3> HIDE DEF incoming, outgoing
    <3> QED BY <1>7, <1>15, <3>1, <3>2, <3>3
  <2> HIDE DEF incoming, outgoing
  <2> QED BY <2>2, <2>3 DEF View
<1>16. /\ found = (incoming \cup outgoing) \ search.output
       /\ \A e \in incoming : e.from \in near \cup search.seen
       /\ \A e \in outgoing : e.to \in near \cup search.seen \cup {NoSymbol}
  OBVIOUS
<1> HIDE DEF found, near, incoming, outgoing
<1>17. /\ listed \subseteq found /\ IsFiniteSet(search.output \cup listed)
       /\ Cardinality(search.output \cup listed) <= budget.edges
  <2> DEFINE most == budget.edges - Cardinality(search.output)
  <2>1. /\ IsFiniteSet(search.output) /\ Cardinality(search.output) \in Nat
        /\ most \in Nat /\ budget.edges \in Nat
    <3>1. IsFiniteSet(search.output) /\ Cardinality(search.output) <= budget.edges
      BY DEF Searching
    <3>2. Cardinality(search.output) \in Nat
      BY <3>1, FS_CardinalityType
    <3>3. budget.edges \in Nat
      BY BudgetFacts DEF Resources
    <3> QED BY <3>1, <3>2, <3>3
  <2>2. listed \in SUBSET found /\ Cardinality(listed) = Smaller(Cardinality(found), most)
    BY DEF found
  <2>3. most + Cardinality(search.output) = budget.edges
    BY <2>1
  <2> HIDE DEF most
  <2>4. IsFiniteSet(listed) /\ Cardinality(listed) \in Nat /\ Cardinality(listed) <= most
    BY <1>13, <2>1, <2>2, Bounded
  <2>5. /\ IsFiniteSet(search.output \cup listed) /\ IsFiniteSet(search.output \cap listed)
        /\ Cardinality(search.output \cap listed) \in Nat
        /\ Cardinality(search.output \cup listed) =
             Cardinality(search.output) + Cardinality(listed) - Cardinality(search.output \cap listed)
    BY <2>1, <2>4, FS_Union, FS_Subset, FS_CardinalityType
  <2> QED BY <2>1, <2>2, <2>3, <2>4, <2>5
<1>18. /\ visited \subseteq near /\ IsFiniteSet(search.seen \cup visited)
       /\ Cardinality(search.seen \cup visited) <= budget.nodes
  <2> DEFINE most == budget.nodes - Cardinality(search.seen)
  <2>1. /\ IsFiniteSet(search.seen) /\ Cardinality(search.seen) \in Nat
        /\ most \in Nat /\ budget.nodes \in Nat
    <3>1. IsFiniteSet(search.seen) /\ Cardinality(search.seen) <= budget.nodes
      BY DEF Searching
    <3>2. Cardinality(search.seen) \in Nat
      BY <3>1, FS_CardinalityType
    <3>3. budget.nodes \in Nat
      BY BudgetFacts DEF Resources
    <3> QED BY <3>1, <3>2, <3>3
  <2>2. visited \in SUBSET near /\ Cardinality(visited) = Smaller(Cardinality(near), most)
    BY DEF near
  <2>3. most + Cardinality(search.seen) = budget.nodes
    BY <2>1
  <2> HIDE DEF most
  <2>4. IsFiniteSet(visited) /\ Cardinality(visited) \in Nat /\ Cardinality(visited) <= most
    BY <1>14, <2>1, <2>2, Bounded
  <2>5. /\ IsFiniteSet(search.seen \cup visited) /\ IsFiniteSet(search.seen \cap visited)
        /\ Cardinality(search.seen \cap visited) \in Nat
        /\ Cardinality(search.seen \cup visited) =
             Cardinality(search.seen) + Cardinality(visited) - Cardinality(search.seen \cap visited)
    BY <2>1, <2>4, FS_Union, FS_Subset, FS_CardinalityType
  <2> QED BY <2>1, <2>2, <2>3, <2>4, <2>5
<1>19. /\ DOMAIN search' = {"roots", "seen", "frontier", "next", "depth", "output", "known", "halted"}
       /\ search'.roots = search.roots /\ search'.seen = search.seen \cup visited
       /\ search'.frontier = search.frontier \ {s} /\ search'.next = search.next \cup visited
       /\ search'.depth = search.depth
       /\ search'.output = search.output \cup listed /\ search'.halted = halt
  BY <1>6 DEF Shapes
<1>20. /\ partial \subseteq partial' /\ partial' \subseteq partial \cup {"query", "output"}
       /\ halt => "query" \in partial'
       /\ partial' \subseteq {"index"} => partial \subseteq {"index"} /\ ~halt /\ visited = near /\ listed = found
  BY <1>6 DEF near, found
<1>21. /\ DOMAIN used' = Resources /\ \A r \in Resources : used'[r] \in Nat /\ used'[r] <= budget'[r]
       /\ used'.symbols = used.symbols
  <2>1. used' = [used EXCEPT !.rows = paid + Cardinality(down)]
    BY <1>6
  <2> HIDE DEF Step, paid
  <2>2. /\ DOMAIN used' = Resources /\ used'.rows = paid + Cardinality(down)
        /\ \A r \in Resources \ {"rows"} : used'[r] = used[r]
    BY <2>1 DEF Shapes, Resources
  <2>3. used'.rows \in Nat /\ used'.rows <= budget.rows
    BY <1>8, <1>9, <2>2
  <2> QED BY <1>1, <2>2, <2>3, BudgetFacts DEF Resources
<1> HIDE DEF Step, Halt, Halt1, Skip, In, Out, Found, Near, Spent, Downs, Listings, Visits, halt, halt1, paid
<1>22. /\ Replacing' /\ Resolving' /\ ResolvedWhole' /\ Depending'
       /\ Laying' /\ LaidWhole' /\ NoCallIsLost' /\ View' = View
  BY <1>1, <1>20, <1>21, QueryQuiet
<1>23. Changed' = Changed
  BY <1>1 DEF Changed
<1>24. Shapes'
  BY <1>1, <1>19, <1>20, <1>21, <1>23 DEF Shapes
<1>25. Searching'
  <2>1. search'.depth < budget'.depth /\ search'.depth \in Nat /\ budget'.depth \in Nat
    BY <1>1, <1>19, BudgetFacts DEF Searching
  <2>2. search'.output \subseteq View'
    BY <1>13, <1>17, <1>19, <1>22 DEF Searching
  <2>3. NoSymbol \notin search'.seen
    BY <1>14, <1>18, <1>19 DEF Searching
  <2>4. search'.frontier \cup search'.next \subseteq search'.seen
    BY <1>19 DEF Searching
  <2> QED BY <1>1, <1>17, <1>18, <1>19, <1>20, <2>1, <2>2, <2>3, <2>4 DEF Searching
<1>26. SearchedWhole'
  <2> SUFFICES ASSUME partial' \subseteq {"index"},
                      NEW t \in search'.seen \ (search'.frontier \cup search'.next),
                      NEW e \in View, t \in {e.from, e.to, e.lost}
               PROVE  e \in search'.output /\ {e.from, e.to} \subseteq search'.seen \cup {NoSymbol}
    BY <1>22 DEF SearchedWhole, Around
  <2>1. partial \subseteq {"index"} /\ ~halt /\ visited = near /\ listed = found
    BY <1>20
  <2>2. CASE t = s
    <3>1. /\ e \in incoming \cup outgoing
          /\ e.from = s \/ e \in incoming
          /\ e.to \in {s, NoSymbol} \/ e \in outgoing
      BY <1>15, <2>1, <2>2
    <3>2. e \in search'.output
      BY <1>16, <1>19, <2>1, <3>1
    <3>3. e.from \in search'.seen /\ e.to \in search'.seen \cup {NoSymbol}
      BY <1>7, <1>16, <1>19, <2>1, <3>1
    <3> QED BY <3>2, <3>3
  <2>3. CASE t # s
    <3>1. t \in search.seen \ (search.frontier \cup search.next)
      BY <1>19, <2>3
    <3>2. e \in search.output /\ {e.from, e.to} \subseteq search.seen \cup {NoSymbol}
      BY <2>1, <3>1 DEF SearchedWhole, Around
    <3> QED BY <1>19, <3>2
  <2> QED BY <2>2, <2>3
<1>27. OutputIsOfTheCandidate' /\ OmissionsAreDeclared' /\ result' \subseteq search'.output
  BY <1>1, <1>19 DEF OutputIsOfTheCandidate, OmissionsAreDeclared
<1> QED BY <1>22, <1>24, <1>25, <1>26, <1>27

LEMMA ReportInv ==
  ASSUME QueryInv, Report
  PROVE  QueryInv'
<1> USE DEF QueryInv
<1> DEFINE ends == UNION {{e.from, e.to} : e \in search.output} \ {NoSymbol}
           readable == (ends \ search.known) \cap (overlay.symbols \cup AllSymbols(Base))
<1>1. /\ phase = "traverse" /\ phase' = "done"
      /\ \/ search.halted
         \/ search.frontier \union search.next = {}
         \/ search.depth >= budget.depth
      /\ UNCHANGED <<candidate, budget, toResolve, dependents, replaced, delta, overlay, queue,
                     queued, pending, queried, search>>
  BY DEF Report
<1>2. PICK read \in {some \in SUBSET readable : Cardinality(some) =
                       Smaller(Cardinality(readable), budget.rows - used.rows)} :
        /\ used' = [used EXCEPT !.rows = @ + Cardinality(read)]
        /\ result' = {e \in search.output :
                        e.from \in search.known \cup read /\ e.to \in search.known \cup read \union {NoSymbol}}
        /\ partial' = IF \/ result' # search.output
                         \/ CutByDepth
                      THEN partial \union {"query"} ELSE partial
  BY DEF Report
<1>3. Cardinality(read) \in Nat /\ used.rows + Cardinality(read) <= budget.rows
  <2>1. IsFiniteSet(readable)
    <3> DEFINE froms == {[d \in search.output |-> d.from][e] : e \in search.output}
               tos == {[d \in search.output |-> d.to][e] : e \in search.output}
    <3>1. readable \subseteq froms \cup tos
      OBVIOUS
    <3>2. IsFiniteSet(search.output)
      BY DEF Searching
    <3>3. IsFiniteSet(froms)
      <4> DEFINE f == [e \in search.output |-> e.from]
      <4>1. froms = {f[e] : e \in search.output}
        OBVIOUS
      <4> HIDE DEF f, froms
      <4> QED BY <3>2, <4>1, SetImage
    <3>4. IsFiniteSet(tos)
      <4> DEFINE f == [e \in search.output |-> e.to]
      <4>1. tos = {f[e] : e \in search.output}
        OBVIOUS
      <4> HIDE DEF f, tos
      <4> QED BY <3>2, <4>1, SetImage
    <3> HIDE DEF froms, tos, readable
    <3>5. IsFiniteSet(froms \cup tos)
      BY <3>3, <3>4, FS_Union
    <3> QED BY <3>1, <3>5, FS_Subset
  <2> DEFINE most == budget.rows - used.rows
  <2>2. most \in Nat /\ used.rows + most = budget.rows /\ used.rows \in Nat
    BY BudgetFacts DEF Resources
  <2> HIDE DEF readable, most
  <2>3. read \in SUBSET readable /\ Cardinality(read) = Smaller(Cardinality(readable), most)
    BY DEF most
  <2>4. Cardinality(read) \in Nat /\ Cardinality(read) <= most
    BY <2>1, <2>2, <2>3, Bounded
  <2> QED BY <2>2, <2>4
<1> HIDE DEF ends, readable
<1>4. /\ result' \subseteq search.output
      /\ partial \subseteq partial' /\ partial' \subseteq partial \cup {"query"}
      /\ partial' \subseteq {"index"} => partial \subseteq {"index"} /\ result' = search.output /\ ~CutByDepth
  BY <1>2
<1>5. /\ DOMAIN used' = Resources /\ \A r \in Resources : used'[r] \in Nat /\ used'[r] <= budget'[r]
      /\ used'.symbols = used.symbols
  BY <1>1, <1>2, <1>3, RowsSpent
<1>6. /\ Replacing' /\ Resolving' /\ ResolvedWhole' /\ Depending'
      /\ Laying' /\ LaidWhole' /\ NoCallIsLost' /\ View' = View
  BY <1>1, <1>4, <1>5, QueryQuiet
<1>7. /\ Changed' = Changed
      /\ AllSymbols(candidate)' = AllSymbols(candidate)
      /\ \A e : StandsInText(e)' = StandsInText(e)
  BY <1>1 DEF Changed, AllSymbols, SymbolsOf, StandsInText
<1>8. Shapes'
  BY <1>1, <1>4, <1>5, <1>7 DEF Shapes
<1>9. Searching' /\ SearchedWhole'
  <2>1. Searching'
    BY <1>1, <1>4, <1>6 DEF Searching
  <2>2. \A s : Around(s)' = Around(s)
    BY <1>1, <1>6 DEF Around
  <2> QED BY <1>1, <1>4, <2>1, <2>2 DEF SearchedWhole
<1>10. OutputIsOfTheCandidate'
  <2> SUFFICES ASSUME NEW e \in result', e.lost = NoSymbol
               PROVE  \/ e.from \in AllSymbols(candidate) /\ StandsInText(e)
                      \/ e.path \notin overlay.tombs /\ "index" \in partial
    BY <1>1, <1>4, <1>7 DEF OutputIsOfTheCandidate
  <2>1. e \in View
    BY <1>4 DEF Searching
  <2>2. CASE e \in overlay.out
    <3>1. e \in delta.edges
      BY <2>2 DEF Laying
    <3>2. e.from \in delta.symbols /\ StandsInText(e)
      BY <3>1 DEF Resolving
    <3>3. e.from \in SymbolsOf(candidate, e.from[1]) /\ e.from[1] \in Paths
      BY <3>2 DEF Resolving
    <3>4. e.from \in AllSymbols(candidate)
      BY <3>3 DEF AllSymbols
    <3> QED BY <3>2, <3>4
  <2>3. CASE e \in BaseEdges /\ ~Suppressed(e)
    <3>1. /\ e.path \in Paths /\ e.from \in SymbolsOf(Base, e.path)
          /\ \E u \in Base[e.path].uses : StandsFor(e, u)
      BY <2>3, BaseEdgesFacts
    <3>2. e.path \notin overlay.tombs
      BY <2>3 DEF Suppressed
    <3>3. CASE "index" \notin partial
      <4>1. e.path \notin Changed
        BY <1>1, <3>2, <3>3 DEF LaidWhole
      <4>2. candidate[e.path] = Base[e.path]
        BY <3>1, <4>1 DEF Changed
      <4>3. e.from \in SymbolsOf(candidate, e.path)
        BY <3>1, <4>2 DEF SymbolsOf
      <4>4. e.from \in AllSymbols(candidate)
        BY <3>1, <4>3 DEF AllSymbols
      <4>5. StandsInText(e)
        BY <3>1, <4>2 DEF StandsFor, StandsInText
      <4> QED BY <4>4, <4>5
    <3> QED BY <3>2, <3>3
  <2> QED BY <2>1, <2>2, <2>3 DEF View
<1>11. OmissionsAreDeclared'
  <2> SUFFICES ASSUME partial' \subseteq {"index"}, NEW e \in View,
                      {e.from, e.to, e.lost} \cap search.seen # {}
               PROVE  e \in result' /\ {e.from, e.to} \subseteq search.seen \cup {NoSymbol}
    BY <1>1, <1>6 DEF OmissionsAreDeclared
  <2>1. partial \subseteq {"index"} /\ result' = search.output /\ ~CutByDepth
    BY <1>4
  <2>2. ~search.halted
    BY <2>1 DEF Searching
  <2>3. search.frontier = {}
    BY <2>1, <2>2 DEF CutByDepth
  <2>4. search.next = {}
    <3>1. search.depth \in Nat /\ search.depth <= budget.depth /\ budget.depth \in Nat
      BY BudgetFacts DEF Searching
    <3> QED BY <1>1, <2>2, <3>1 DEF Searching
  <2>5. PICK s \in search.seen : s \in {e.from, e.to, e.lost}
    OBVIOUS
  <2>6. Around(s)
    BY <2>1, <2>3, <2>4 DEF SearchedWhole
  <2> QED BY <2>1, <2>5, <2>6 DEF Around
<1> QED BY <1>1, <1>4, <1>6, <1>8, <1>9, <1>10, <1>11

LEMMA QueryStutters ==
  ASSUME QueryInv, UNCHANGED queryVars
  PROVE  QueryInv'
<1> USE DEF QueryInv, queryVars
<1>1. Changed' = Changed /\ (\A q : SymbolsOf(candidate, q)' = SymbolsOf(candidate, q))
      /\ AllSymbols(candidate)' = AllSymbols(candidate) /\ \A e : StandsInText(e)' = StandsInText(e)
  BY DEF Changed, SymbolsOf, AllSymbols, StandsInText
<1>2. View' = View
  BY DEF View, Suppressed
<1>3. Shapes' /\ Replacing' /\ Resolving'
  BY <1>1 DEF Shapes, Replacing, Resolving
<1>4. /\ \A q : HasSymbols(q)' = HasSymbols(q) /\ Starved(q)' = Starved(q) /\ UsesChanged(q)' = UsesChanged(q)
      /\ \A s : Around(s)' = Around(s)
  BY <1>1, <1>2 DEF HasSymbols, Starved, UsesChanged, Around
<1>5. ResolvedWhole' /\ Depending'
  BY <1>1, <1>4 DEF ResolvedWhole, Depending
<1>6. Laying' /\ LaidWhole'
  BY <1>1, <1>4 DEF Laying, LaidWhole
<1>7. Searching' /\ SearchedWhole'
  BY <1>2, <1>4 DEF Searching, SearchedWhole
<1>8. NoCallIsLost' /\ OutputIsOfTheCandidate' /\ OmissionsAreDeclared' /\ result' \subseteq search'.output
  BY <1>1, <1>2 DEF NoCallIsLost, OutputIsOfTheCandidate, OmissionsAreDeclared
<1> QED BY <1>3, <1>5, <1>6, <1>7, <1>8

-----------------------------------------------------------------------------
(* The theorems *)

\* Every state of a query satisfies the invariant: what was resolved, laid over
\* the base and looked up so far is whole where no budget ran out.
THEOREM QueryInvariance == QuerySpec => []QueryInv
<1>1. QueryInit => QueryInv
  BY QueryInitInv
<1>2. QueryInv /\ [QueryNext]_queryVars => QueryInv'
  <2> SUFFICES ASSUME QueryInv, [QueryNext]_queryVars PROVE QueryInv'
    OBVIOUS
  <2>1. CASE ResolveChanged BY <2>1, ResolveChangedInv
  <2>2. CASE PassRemoved BY <2>2, PassRemovedInv
  <2>3. CASE CollectDependents BY <2>3, CollectDependentsInv
  <2>4. CASE ResolveDependent BY <2>4, ResolveDependentInv
  <2>5. CASE StartOverlay BY <2>5, StartOverlayInv
  <2>6. CASE StopOverlay BY <2>6, StopOverlayInv
  <2>7. CASE SkipPath BY <2>7, SkipPathInv
  <2>8. CASE ProcessPath BY <2>8, ProcessPathInv
  <2>9. CASE VisitSymbol BY <2>9, VisitSymbolInv
  <2>10. CASE FinishOverlay BY <2>10, FinishOverlayInv
  <2>11. CASE SeedSymbol BY <2>11, SeedSymbolInv
  <2>12. CASE StartSearch BY <2>12, StartSearchInv
  <2>13. CASE LookUp BY <2>13, LookUpInv
  <2>14. CASE Deeper BY <2>14, DeeperInv
  <2>15. CASE Late BY <2>15, LateInv
  <2>16. CASE Report BY <2>16, ReportInv
  <2>17. CASE UNCHANGED queryVars BY <2>17, QueryStutters
  <2> QED
    BY <2>1, <2>2, <2>3, <2>4, <2>5, <2>6, <2>7, <2>8, <2>9, <2>10, <2>11, <2>12, <2>13, <2>14,
       <2>15, <2>16, <2>17 DEF QueryNext
<1> QED BY <1>1, <1>2, PTL DEF QuerySpec

\* The answer to a query of a graph laid over a base misses no call of the
\* candidate, shows none that is gone, and says where its limits cut it
\* (RepositoryIndex::query_candidate_graph).
THEOREM QueriesAreFaithful == QuerySpec => []QueryIsFaithful
<1>1. QueryInv => QueryIsFaithful
  <2> SUFFICES ASSUME QueryInv PROVE QueryIsFaithful
    OBVIOUS
  <2> USE DEF QueryInv
  <2>1. \A r \in DOMAIN used : used[r] \in 0 .. budget[r]
    BY BudgetFacts DEF Shapes
  <2>2. QueryTypeOK
    BY <2>1 DEF QueryTypeOK, Shapes, Searching
  <2> QED BY <2>2 DEF QueryIsFaithful
<1>2. QuerySpec => []QueryInv
  BY QueryInvariance
<1> QED BY <1>1, <1>2, PTL
=============================================================================
