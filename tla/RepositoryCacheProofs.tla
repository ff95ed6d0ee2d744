----------------------- MODULE RepositoryCacheProofs -----------------------
(***************************************************************************)
(* What RepositoryCache guarantees for any number of processes, keys and   *)
(* buckets: its types, the lock, that publishing never collides, that      *)
(* generations are immutable, and that drift leaves nothing behind; and    *)
(* what it guarantees with its histories recorded: no lookup overlooks a   *)
(* generation that was there all along, no clean removes what it must      *)
(* spare, and the runs and references of one key agree until a removal.    *)
(***************************************************************************)
EXTENDS RepositoryCacheHistory, FiniteSetTheorems, TLAPS

\* Initially every variable has its type.
LEMMA InitTypes == Init => TypeOK
  BY BoundAssumption
     DEF Init, TypeOK, StoreTypeOK, BuilderTypeOK, CleanerTypeOK, ReaderTypeOK,
         BuilderStates, ReaderStates, Slots, Publishing, Locked

\* Every builder action keeps the types.
LEMMA BuilderKeepsTypes ==
  ASSUME TypeOK, BuilderNext PROVE TypeOK'
<1> USE DEF TypeOK, BuilderStates, BuilderSteps, BuilderEnds, Publishing, Locked,
            Artifacts, Slots
<1>1. PICK b \in Builders :
        \/ \E k \in Keys : Analyze(b, k)
        \/ BuilderStep(b)
        \/ RunFails(b) \/ RemovalFails(b) \/ CrashBuilder(b)
        \/ EndRun(b)
  BY DEF BuilderNext
<1>2. ASSUME NEW k \in Keys, Analyze(b, k) PROVE TypeOK'
  <2>1. StoreTypeOK' /\ CleanerTypeOK' /\ ReaderTypeOK'
    BY <1>2 DEF Analyze, storeVars, cleanerVars, readerVars,
                StoreTypeOK, CleanerTypeOK, ReaderTypeOK
  <2>2. BuilderTypeOK'
    BY <1>2, ProcessAssumption DEF Analyze, BuilderTypeOK
  <2> QED BY <2>1, <2>2
<1>3. ASSUME OpenGeneration(b) PROVE TypeOK'
  <2>1. StoreTypeOK' /\ CleanerTypeOK' /\ ReaderTypeOK'
    BY <1>3 DEF OpenGeneration, storeVars, cleanerVars, readerVars,
                StoreTypeOK, CleanerTypeOK, ReaderTypeOK
  <2>2. BuilderTypeOK'
    BY <1>3, ProcessAssumption
       DEF OpenGeneration, BuilderTypeOK, AfterScopeCheck, Readable, ReaderCompleteness
  <2> QED BY <2>1, <2>2
<1>4. ASSUME ResolveGraph(b) PROVE TypeOK'
  <2>1. StoreTypeOK' /\ CleanerTypeOK' /\ ReaderTypeOK'
    BY <1>4 DEF ResolveGraph, storeVars, cleanerVars, readerVars,
                StoreTypeOK, CleanerTypeOK, ReaderTypeOK
  <2>2. BuilderTypeOK'
    BY <1>4, ProcessAssumption
       DEF ResolveGraph, BuilderTypeOK, AfterScopeCheck
  <2> QED BY <2>1, <2>2
<1>5. ASSUME PublishUnlocked(b) PROVE TypeOK'
  <2>1. StoreTypeOK' /\ CleanerTypeOK' /\ ReaderTypeOK'
    BY <1>5 DEF PublishUnlocked, storeVars, cleanerVars, readerVars,
                StoreTypeOK, CleanerTypeOK, ReaderTypeOK
  <2>2. BuilderTypeOK'
    BY <1>5, ProcessAssumption
       DEF PublishUnlocked, BuilderTypeOK
  <2> QED BY <2>1, <2>2
<1>6. ASSUME AcquireWriterLock(b) PROVE TypeOK'
  <2>1. CleanerTypeOK' /\ ReaderTypeOK'
    BY <1>6 DEF AcquireWriterLock, cleanerVars, readerVars, CleanerTypeOK, ReaderTypeOK
  <2>2. StoreTypeOK'
    BY <1>6, BoundAssumption DEF AcquireWriterLock, StoreTypeOK, BuilderTypeOK
  <2>3. BuilderTypeOK'
    BY <1>6, ProcessAssumption
       DEF AcquireWriterLock, BuilderTypeOK
  <2> QED BY <2>1, <2>2, <2>3
<1>7. ASSUME WriterBusy(b) PROVE TypeOK'
  <2>1. StoreTypeOK' /\ CleanerTypeOK' /\ ReaderTypeOK'
    BY <1>7 DEF WriterBusy, storeVars, cleanerVars, readerVars,
                StoreTypeOK, CleanerTypeOK, ReaderTypeOK
  <2>2. BuilderTypeOK'
    BY <1>7, ProcessAssumption
       DEF WriterBusy, BuilderTypeOK
  <2> QED BY <2>1, <2>2
<1>8. ASSUME RecheckUnderLock(b) PROVE TypeOK'
  <2>1. StoreTypeOK' /\ CleanerTypeOK' /\ ReaderTypeOK'
    BY <1>8 DEF RecheckUnderLock, storeVars, cleanerVars, readerVars,
                StoreTypeOK, CleanerTypeOK, ReaderTypeOK
  <2>2. BuilderTypeOK'
    BY <1>8, ProcessAssumption
       DEF RecheckUnderLock, BuilderTypeOK
  <2> QED BY <2>1, <2>2
<1>9. ASSUME PersistGeneration(b) PROVE TypeOK'
  <2>1. CleanerTypeOK' /\ ReaderTypeOK'
    BY <1>9 DEF PersistGeneration, cleanerVars, readerVars, CleanerTypeOK, ReaderTypeOK
  <2>2. StoreTypeOK'
    <3>1. mine[b] \in Qualities /\ key[b] \in Keys
      BY <1>9 DEF PersistGeneration, BuilderTypeOK
    <3>2. UNCHANGED <<refs, leaked>>
      BY <1>9 DEF PersistGeneration
    <3>3. CASE gen[key[b]] # Absent
      BY <1>9, <3>2, <3>3 DEF PersistGeneration, StoreTypeOK
    <3>4. CASE gen[key[b]] = Absent
      BY <1>9, <3>1, <3>2, <3>4
         DEF PersistGeneration, StoreTypeOK, Unlock, Staged, Newest, Present
    <3> QED BY <3>3, <3>4
  <2>3. BuilderTypeOK'
    BY <1>9, ProcessAssumption
       DEF PersistGeneration, BuilderTypeOK, Track, AfterScopeCheck
  <2> QED BY <2>1, <2>2, <2>3
<1>10. ASSUME ReopenGeneration(b) PROVE TypeOK'
  <2>1. StoreTypeOK' /\ CleanerTypeOK' /\ ReaderTypeOK'
    BY <1>10 DEF ReopenGeneration, storeVars, cleanerVars, readerVars,
                StoreTypeOK, CleanerTypeOK, ReaderTypeOK
  <2>2. BuilderTypeOK'
    BY <1>10, ProcessAssumption
       DEF ReopenGeneration, BuilderTypeOK, AfterScopeCheck, Readable, ReaderCompleteness
  <2> QED BY <2>1, <2>2
<1>11. ASSUME ReadReference(b) PROVE TypeOK'
  <2>1. StoreTypeOK' /\ CleanerTypeOK' /\ ReaderTypeOK'
    BY <1>11 DEF ReadReference, storeVars, cleanerVars, readerVars,
                StoreTypeOK, CleanerTypeOK, ReaderTypeOK
  <2>2. BuilderTypeOK'
    BY <1>11, ProcessAssumption
       DEF ReadReference, BuilderTypeOK, NextReference, Track, AfterScopeCheck
  <2> QED BY <2>1, <2>2
<1>12. ASSUME LinkReference(b) PROVE TypeOK'
  <2>1. CleanerTypeOK' /\ ReaderTypeOK'
    BY <1>12 DEF LinkReference, cleanerVars, readerVars, CleanerTypeOK, ReaderTypeOK
  <2>2. StoreTypeOK'
    <3>1. /\ refs' = refs \/ refs' = [refs EXCEPT ![key[b]][slot[b]] = mine[b]]
          /\ UNCHANGED <<gen, older, leaked, lock>>
      BY <1>12 DEF LinkReference
    <3>2. mine[b] \in Qualities
      BY <1>12 DEF LinkReference, BuilderTypeOK
    <3>3. refs' \in [Keys -> [Slots -> Qualities \cup {Absent}]]
      BY <3>1, <3>2 DEF StoreTypeOK
    <3> QED BY <3>1, <3>3 DEF StoreTypeOK
  <2>3. BuilderTypeOK'
    BY <1>12, ProcessAssumption
       DEF LinkReference, BuilderTypeOK, NextReference, Track, AfterScopeCheck
  <2> QED BY <2>1, <2>2, <2>3
<1>13. ASSUME QueryGraph(b) PROVE TypeOK'
  <2>1. StoreTypeOK' /\ CleanerTypeOK' /\ ReaderTypeOK'
    BY <1>13 DEF QueryGraph, storeVars, cleanerVars, readerVars,
                StoreTypeOK, CleanerTypeOK, ReaderTypeOK
  <2>2. BuilderTypeOK'
    BY <1>13, ProcessAssumption
       DEF QueryGraph, BuilderTypeOK, AfterScopeCheck
  <2> QED BY <2>1, <2>2
<1>14. ASSUME RemoveTracked(b) PROVE TypeOK'
  <2>1. CleanerTypeOK' /\ ReaderTypeOK'
    BY <1>14 DEF RemoveTracked, cleanerVars, readerVars, CleanerTypeOK, ReaderTypeOK
  <2>2. StoreTypeOK'
    <3>1. /\ gen' = gen \/ gen' = [gen EXCEPT ![key[b]] = Absent]
          /\ older' = older \/ older' = WithoutAge(key[b])
          /\ refs' = refs \/ refs' = [refs EXCEPT ![key[b]][LastTracked(b)] = Absent]
          /\ UNCHANGED <<leaked, lock>>
      BY <1>14 DEF RemoveTracked
    <3>2. refs' \in [Keys -> [Slots -> Qualities \cup {Absent}]]
      BY <3>1 DEF StoreTypeOK
    <3> QED BY <3>1, <3>2 DEF StoreTypeOK, WithoutAge
  <2>3. BuilderTypeOK'
    BY <1>14, ProcessAssumption
       DEF RemoveTracked, BuilderTypeOK, LastTracked, Disowned
  <2> QED BY <2>1, <2>2, <2>3
<1>15. ASSUME ReportDrift(b) PROVE TypeOK'
  <2>1. StoreTypeOK' /\ CleanerTypeOK' /\ ReaderTypeOK'
    BY <1>15 DEF ReportDrift, storeVars, cleanerVars, readerVars,
                StoreTypeOK, CleanerTypeOK, ReaderTypeOK
  <2>2. BuilderTypeOK'
    BY <1>15, ProcessAssumption
       DEF ReportDrift, BuilderTypeOK
  <2> QED BY <2>1, <2>2
<1>16. ASSUME RunFails(b) PROVE TypeOK'
  <2>1. CleanerTypeOK' /\ ReaderTypeOK'
    BY <1>16 DEF RunFails, cleanerVars, readerVars, CleanerTypeOK, ReaderTypeOK
  <2>2. StoreTypeOK'
    BY <1>16, BoundAssumption DEF RunFails, StoreTypeOK, BuilderTypeOK, Unlock
  <2>3. BuilderTypeOK'
    BY <1>16, ProcessAssumption
       DEF RunFails, BuilderTypeOK
  <2> QED BY <2>1, <2>2, <2>3
<1>17. ASSUME RemovalFails(b) PROVE TypeOK'
  <2>1. StoreTypeOK' /\ CleanerTypeOK' /\ ReaderTypeOK'
    BY <1>17 DEF RemovalFails, storeVars, cleanerVars, readerVars,
                StoreTypeOK, CleanerTypeOK, ReaderTypeOK
  <2>2. BuilderTypeOK'
    BY <1>17, ProcessAssumption
       DEF RemovalFails, BuilderTypeOK
  <2> QED BY <2>1, <2>2
<1>18. ASSUME CrashBuilder(b) PROVE TypeOK'
  <2>1. CleanerTypeOK' /\ ReaderTypeOK'
    BY <1>18 DEF CrashBuilder, cleanerVars, readerVars, CleanerTypeOK, ReaderTypeOK
  <2>2. StoreTypeOK'
    <3>1. lock' = lock \/ Unlock(key[b])
      BY <1>18 DEF CrashBuilder
    <3>2. lock' \in [Keys -> Builders \cup Cleaners \cup {None}]
      BY <3>1 DEF StoreTypeOK, Unlock
    <3>3. leaked' \in [Buckets -> 0 .. MaxLeaks]
      BY <1>18, BoundAssumption DEF CrashBuilder, StoreTypeOK
    <3>4. UNCHANGED <<gen, older, refs>>
      BY <1>18 DEF CrashBuilder
    <3> QED BY <3>2, <3>3, <3>4 DEF StoreTypeOK
  <2>3. BuilderTypeOK'
    BY <1>18, ProcessAssumption
       DEF CrashBuilder, BuilderTypeOK, Forget
  <2> QED BY <2>1, <2>2, <2>3
<1>19. ASSUME EndRun(b) PROVE TypeOK'
  <2>1. StoreTypeOK' /\ CleanerTypeOK' /\ ReaderTypeOK'
    BY <1>19 DEF EndRun, storeVars, cleanerVars, readerVars,
                StoreTypeOK, CleanerTypeOK, ReaderTypeOK, Forget
  <2>2. BuilderTypeOK'
    BY <1>19, ProcessAssumption
       DEF EndRun, BuilderTypeOK, Forget
  <2> QED BY <2>1, <2>2
<1>20. ASSUME ReuseExisting(b) PROVE TypeOK'
  <2>1. CleanerTypeOK' /\ ReaderTypeOK'
    BY <1>20 DEF ReuseExisting, cleanerVars, readerVars, CleanerTypeOK, ReaderTypeOK
  <2>2. StoreTypeOK'
    BY <1>20, BoundAssumption
       DEF ReuseExisting, StoreTypeOK, BuilderTypeOK, Unlock
  <2>3. BuilderTypeOK'
    BY <1>20, ProcessAssumption
       DEF ReuseExisting, BuilderTypeOK, AfterScopeCheck
  <2> QED BY <2>1, <2>2, <2>3
<1>21. ASSUME CompareReference(b) PROVE TypeOK'
  <2>1. StoreTypeOK' /\ CleanerTypeOK' /\ ReaderTypeOK'
    BY <1>21 DEF CompareReference, storeVars, cleanerVars, readerVars,
                StoreTypeOK, CleanerTypeOK, ReaderTypeOK
  <2>2. BuilderTypeOK'
    BY <1>21, ProcessAssumption
       DEF CompareReference, BuilderTypeOK, NextReference, Track, AfterScopeCheck
  <2> QED BY <2>1, <2>2
<1> QED BY <1>1, <1>2, <1>3, <1>4, <1>5, <1>6, <1>7, <1>8, <1>9, <1>10,
           <1>11, <1>12, <1>13, <1>14, <1>15, <1>16, <1>17, <1>18, <1>19, <1>20, <1>21
        DEF BuilderStep

\* Every cleaner action keeps the types.
LEMMA CleanerKeepsTypes ==
  ASSUME TypeOK, CleanerNext PROVE TypeOK'
<1> USE DEF TypeOK
<1>1. PICK c \in Cleaners : Enumerate(c) \/ CleanerStep(c) \/ CrashCleaner(c)
  BY DEF CleanerNext
<1>2. ASSUME Enumerate(c) PROVE TypeOK'
  <2>1. StoreTypeOK' /\ BuilderTypeOK' /\ ReaderTypeOK'
    BY <1>2 DEF Enumerate, storeVars, builderVars, readerVars,
                StoreTypeOK, BuilderTypeOK, ReaderTypeOK
  <2>2. CleanerTypeOK'
    BY <1>2 DEF Enumerate, CleanerTypeOK, Present, OverTarget
  <2> QED BY <2>1, <2>2
<1>3. ASSUME NEW k \in Keys, Examine(c, k) PROVE TypeOK'
  <2>1. StoreTypeOK' /\ BuilderTypeOK' /\ ReaderTypeOK'
    BY <1>3 DEF Examine, storeVars, builderVars, readerVars,
                StoreTypeOK, BuilderTypeOK, ReaderTypeOK
  <2>2. CleanerTypeOK'
    BY <1>3 DEF Examine, CleanerTypeOK
  <2> QED BY <2>1, <2>2
<1>4. ASSUME EndScan(c) PROVE TypeOK'
  <2>1. StoreTypeOK' /\ BuilderTypeOK' /\ ReaderTypeOK'
    BY <1>4 DEF EndScan, storeVars, builderVars, readerVars,
                StoreTypeOK, BuilderTypeOK, ReaderTypeOK
  <2>2. CleanerTypeOK'
    BY <1>4 DEF EndScan, CleanerTypeOK
  <2> QED BY <2>1, <2>2
<1>5. ASSUME NEW k \in Keys, TakeCandidate(c, k) PROVE TypeOK'
  <2>1. BuilderTypeOK' /\ ReaderTypeOK'
    BY <1>5 DEF TakeCandidate, builderVars, readerVars,
                BuilderTypeOK, ReaderTypeOK
  <2>2. StoreTypeOK'
    BY <1>5 DEF TakeCandidate, StoreTypeOK
  <2>3. CleanerTypeOK'
    BY <1>5, ProcessAssumption DEF TakeCandidate, CleanerTypeOK
  <2> QED BY <2>1, <2>2, <2>3
<1>6. ASSUME UnlinkGeneration(c) PROVE TypeOK'
  <2>1. ReaderTypeOK'
    BY <1>6 DEF UnlinkGeneration, readerVars, ReaderTypeOK
  <2>2. StoreTypeOK'
    BY <1>6 DEF UnlinkGeneration, StoreTypeOK, WithoutAge
  <2>3. BuilderTypeOK'
    BY <1>6 DEF UnlinkGeneration, BuilderTypeOK, Disowned
  <2>4. CleanerTypeOK'
    BY <1>6 DEF UnlinkGeneration, CleanerTypeOK
  <2> QED BY <2>1, <2>2, <2>3, <2>4
<1>7. ASSUME SkipGeneration(c) PROVE TypeOK'
  <2>1. StoreTypeOK' /\ BuilderTypeOK' /\ ReaderTypeOK'
    BY <1>7 DEF SkipGeneration, Unlock, builderVars, readerVars,
                StoreTypeOK, BuilderTypeOK, ReaderTypeOK
  <2>2. CleanerTypeOK'
    BY <1>7 DEF SkipGeneration, CleanerTypeOK
  <2> QED BY <2>1, <2>2
<1>8. ASSUME NEW t \in Slots, UnlinkReference(c, t) PROVE TypeOK'
  <2>1. ReaderTypeOK'
    BY <1>8 DEF UnlinkReference, readerVars, ReaderTypeOK
  <2>2. StoreTypeOK'
    <3>1. /\ refs' = [refs EXCEPT ![target[c]][t] = Absent]
          /\ UNCHANGED <<gen, older, leaked, lock>>
      BY <1>8 DEF UnlinkReference
    <3>2. refs' \in [Keys -> [Slots -> Qualities \cup {Absent}]]
      BY <3>1 DEF StoreTypeOK, Slots
    <3> QED BY <3>1, <3>2 DEF StoreTypeOK
  <2>3. BuilderTypeOK'
    BY <1>8 DEF UnlinkReference, BuilderTypeOK, Disowned
  <2>4. CleanerTypeOK'
    BY <1>8 DEF UnlinkReference, CleanerTypeOK
  <2> QED BY <2>1, <2>2, <2>3, <2>4
<1>9. ASSUME ReleaseCandidate(c) PROVE TypeOK'
  <2>1. StoreTypeOK' /\ BuilderTypeOK' /\ ReaderTypeOK'
    BY <1>9 DEF ReleaseCandidate, Unlock, builderVars, readerVars,
                StoreTypeOK, BuilderTypeOK, ReaderTypeOK
  <2>2. CleanerTypeOK'
    BY <1>9 DEF ReleaseCandidate, CleanerTypeOK
  <2> QED BY <2>1, <2>2
<1>10. ASSUME EndClean(c) PROVE TypeOK'
  <2>1. StoreTypeOK' /\ BuilderTypeOK' /\ ReaderTypeOK'
    BY <1>10 DEF EndClean, storeVars, builderVars, readerVars,
                 StoreTypeOK, BuilderTypeOK, ReaderTypeOK
  <2>2. CleanerTypeOK'
    BY <1>10 DEF EndClean, CleanerTypeOK
  <2> QED BY <2>1, <2>2
<1>11. ASSUME CrashCleaner(c) PROVE TypeOK'
  <2>1. StoreTypeOK' /\ BuilderTypeOK' /\ ReaderTypeOK'
    BY <1>11 DEF CrashCleaner, Unlock, builderVars, readerVars,
                 StoreTypeOK, BuilderTypeOK, ReaderTypeOK
  <2>2. CleanerTypeOK'
    BY <1>11 DEF CrashCleaner, CleanerTypeOK
  <2> QED BY <2>1, <2>2
<1> QED BY <1>1, <1>2, <1>3, <1>4, <1>5, <1>6, <1>7, <1>8, <1>9, <1>10, <1>11
        DEF CleanerStep

\* Every reader action keeps the types: a reader writes nothing of others'.
LEMMA ReaderKeepsTypes ==
  ASSUME TypeOK, ReaderNext PROVE TypeOK'
<1> USE DEF TypeOK, ReaderStates, ReaderEnds
<1>1. StoreTypeOK' /\ BuilderTypeOK' /\ CleanerTypeOK'
  <2>1. UNCHANGED <<storeVars, builderVars, cleanerVars>>
    BY DEF ReaderNext, ReaderStep, StartLookup, ReadDirectory, ReadEntry,
           OpenBest, LeaveBucket, EndLookup
  <2> QED BY <2>1 DEF storeVars, builderVars, cleanerVars,
                      StoreTypeOK, BuilderTypeOK, CleanerTypeOK
<1>2. PICK r \in Readers :
        (\E s \in FastScopes : StartLookup(r, s)) \/ ReaderStep(r) \/ EndLookup(r)
  BY DEF ReaderNext
<1>3. ASSUME NEW s \in FastScopes, StartLookup(r, s) PROVE ReaderTypeOK'
  BY <1>3, BoundAssumption DEF StartLookup, ReaderTypeOK
<1>4. ASSUME FoundNothing(r), rpc[r] # "idle"
      PROVE  /\ rpc' \in [Readers -> ReaderStates]
             /\ bucket' \in [Readers -> Buckets \cup {None}]
             /\ \A x \in Readers : rpc'[x] # "idle" => rpc[x] # "idle"
  BY <1>4, BoundAssumption DEF FoundNothing, ReaderTypeOK
<1>5. ASSUME ReadDirectory(r) PROVE ReaderTypeOK'
  <2>1. CASE FoundNothing(r) /\ UNCHANGED entries
    BY <1>4, <1>5, <2>1 DEF ReadDirectory, ReaderTypeOK
  <2>2. CASE ~(FoundNothing(r) /\ UNCHANGED entries)
    BY <1>5, <2>2 DEF ReadDirectory, ReaderTypeOK, Referenced
  <2> QED BY <2>1, <2>2
<1>6. ASSUME NEW k \in Keys, ReadEntry(r, k) PROVE ReaderTypeOK'
  <2>1. refs[k][SlotIn(k, bucket[r])] \in Qualities \cup {Absent}
    BY DEF StoreTypeOK, SlotIn, Slots
  <2> QED BY <1>6, <2>1 DEF ReadEntry, ReaderTypeOK
<1>7. ASSUME NEW k \in Keys, NEW q \in Qualities, OpenBest(r, k, q)
      PROVE  ReaderTypeOK'
  BY <1>7 DEF OpenBest, PassOver, ReaderTypeOK
<1>8. ASSUME LeaveBucket(r) PROVE ReaderTypeOK'
  BY <1>4, <1>8 DEF LeaveBucket, Exhausted, ReaderTypeOK
<1>9. ASSUME EndLookup(r) PROVE ReaderTypeOK'
  BY <1>9 DEF EndLookup, ReaderTypeOK
<1>10. ReaderTypeOK'
  BY <1>2, <1>3, <1>5, <1>6, <1>7, <1>8, <1>9 DEF ReaderStep
<1> QED BY <1>1, <1>10

\* Every step of the system keeps the types.
LEMMA NextTypes == TypeOK /\ [Next]_vars => TypeOK'
<1> SUFFICES ASSUME TypeOK, [Next]_vars PROVE TypeOK'
  OBVIOUS
<1>1. CASE MediumNext
  <2>1. PICK k \in Keys : DamageGeneration(k)
    BY <1>1 DEF MediumNext
  <2> QED BY <2>1 DEF DamageGeneration, builderVars, cleanerVars, readerVars,
            TypeOK, StoreTypeOK, BuilderTypeOK, CleanerTypeOK, ReaderTypeOK
<1>2. CASE UNCHANGED vars
  BY <1>2 DEF vars, storeVars, builderVars, cleanerVars, readerVars,
              TypeOK, StoreTypeOK, BuilderTypeOK, CleanerTypeOK, ReaderTypeOK
<1> QED BY <1>1, <1>2, BuilderKeepsTypes, CleanerKeepsTypes, ReaderKeepsTypes
        DEF Next

\* TypeOK holds in every reachable state, for any processes, keys and buckets.
THEOREM TypeCorrect == Spec => []TypeOK
  BY InitTypes, NextTypes, PTL DEF Spec

-----------------------------------------------------------------------------
(* The writer lock *)

\* Whoever leaves the locks alone and neither enters nor leaves the critical
\* section keeps the discipline.
LEMMA QuietKeepsLocks ==
  ASSUME LockDiscipline, UNCHANGED <<lock, cpc, target>>,
         \A b \in Builders : /\ pc'[b] \in Locked <=> pc[b] \in Locked
                             /\ pc[b] \in Locked => key'[b] = key[b]
  PROVE  LockDiscipline'
  BY DEF LockDiscipline, Locked

\* A builder that leaves the critical section and drops its lock keeps it.
LEMMA ReleaseKeepsLocks ==
  ASSUME TypeOK, LockDiscipline, NEW b \in Builders, pc[b] \in Locked,
         Unlock(key[b]), UNCHANGED <<cpc, target>>, pc'[b] \notin Locked,
         \A a \in Builders \ {b} : pc'[a] = pc[a] /\ key'[a] = key[a]
  PROVE  LockDiscipline'
<1>1. key[b] \in Keys
  BY DEF TypeOK, BuilderTypeOK, Locked
<1>2. \A k \in Keys : lock'[k] = IF k = key[b] THEN None ELSE lock[k]
  BY <1>1 DEF Unlock, TypeOK, StoreTypeOK
<1> QED BY <1>1, <1>2, ProcessAssumption DEF LockDiscipline, Locked

\* Every builder action keeps the lock discipline.
LEMMA BuilderKeepsLocks ==
  ASSUME TypeOK, LockDiscipline, BuilderNext PROVE LockDiscipline'
<1>1. PICK b \in Builders :
        \/ \E k \in Keys : Analyze(b, k)
        \/ BuilderStep(b)
        \/ RunFails(b) \/ RemovalFails(b) \/ CrashBuilder(b)
        \/ EndRun(b)
  BY DEF BuilderNext
<1> DEFINE Quiet == /\ UNCHANGED <<lock, cpc, target>>
                    /\ \A a \in Builders :
                         /\ pc'[a] \in Locked <=> pc[a] \in Locked
                         /\ pc[a] \in Locked => key'[a] = key[a]
<1>2. Quiet => LockDiscipline'
  BY QuietKeepsLocks
<1> USE DEF Locked, storeVars, cleanerVars, TypeOK, BuilderTypeOK
<1>3. ASSUME NEW k \in Keys, Analyze(b, k) PROVE Quiet
  BY <1>3 DEF Analyze
<1>4. ASSUME OpenGeneration(b) PROVE Quiet
  BY <1>4 DEF OpenGeneration, AfterScopeCheck
<1>5. ASSUME ResolveGraph(b) PROVE Quiet
  BY <1>5 DEF ResolveGraph, AfterScopeCheck
<1>6. ASSUME PublishUnlocked(b) PROVE Quiet
  BY <1>6 DEF PublishUnlocked
<1>7. ASSUME WriterBusy(b) PROVE Quiet
  BY <1>7 DEF WriterBusy
<1>8. ASSUME ReopenGeneration(b) PROVE Quiet
  BY <1>8 DEF ReopenGeneration, AfterScopeCheck
<1>9. ASSUME ReadReference(b) PROVE Quiet
  BY <1>9 DEF ReadReference, NextReference, AfterScopeCheck
<1>10. ASSUME LinkReference(b) PROVE Quiet
  BY <1>10 DEF LinkReference, NextReference, AfterScopeCheck
<1>11. ASSUME QueryGraph(b) PROVE Quiet
  BY <1>11 DEF QueryGraph, AfterScopeCheck
<1>12. ASSUME RemoveTracked(b) PROVE Quiet
  BY <1>12 DEF RemoveTracked
<1>13. ASSUME ReportDrift(b) PROVE Quiet
  BY <1>13 DEF ReportDrift
<1>14. ASSUME RemovalFails(b) PROVE Quiet
  BY <1>14 DEF RemovalFails
<1>15. ASSUME EndRun(b) PROVE Quiet
  BY <1>15 DEF EndRun, Forget, BuilderEnds
<1>16. ASSUME AcquireWriterLock(b) PROVE LockDiscipline'
  <2>1. key[b] \in Keys
    BY <1>16 DEF AcquireWriterLock
  <2>2. \A k \in Keys : lock'[k] = IF k = key[b] THEN b ELSE lock[k]
    BY <1>16, <2>1 DEF AcquireWriterLock, StoreTypeOK
  <2>3. UNCHANGED <<key, cpc, target>>
    BY <1>16 DEF AcquireWriterLock
  <2>4. \A a \in Builders : pc'[a] = IF a = b THEN "recheck" ELSE pc[a]
    BY <1>16 DEF AcquireWriterLock
  <2>5. lock[key[b]] = None /\ pc[b] = "lock"
    BY <1>16 DEF AcquireWriterLock
  <2> QED BY <2>1, <2>2, <2>3, <2>4, <2>5, ProcessAssumption DEF LockDiscipline
<1>17. ASSUME RecheckUnderLock(b) PROVE Quiet
  BY <1>17 DEF RecheckUnderLock
<1>18. ASSUME PersistGeneration(b) PROVE LockDiscipline'
  <2>1. CASE gen[key[b]] # Absent
    <3>1. Quiet
      BY <1>18, <2>1 DEF PersistGeneration
    <3> QED BY <1>2, <3>1
  <2>2. CASE gen[key[b]] = Absent
    <3>1. /\ pc[b] \in Locked /\ pc'[b] \notin Locked
          /\ \A a \in Builders \ {b} : pc'[a] = pc[a] /\ key'[a] = key[a]
      BY <1>18, <2>2 DEF PersistGeneration, AfterScopeCheck
    <3>2. Unlock(key[b]) /\ UNCHANGED <<cpc, target>>
      BY <1>18, <2>2 DEF PersistGeneration
    <3> QED BY <3>1, <3>2, ReleaseKeepsLocks
  <2> QED BY <2>1, <2>2
<1>20. ASSUME CompareReference(b) PROVE Quiet
  BY <1>20 DEF CompareReference, NextReference, AfterScopeCheck
<1>21. ASSUME ReuseExisting(b) PROVE LockDiscipline'
  <2>1. CASE pc[b] = "reuse"
    <3>1. Quiet
      BY <1>21, <2>1 DEF ReuseExisting, AfterScopeCheck
    <3> QED BY <1>2, <3>1
  <2>2. CASE pc[b] = "reuseLocked"
    BY <1>21, <2>2, ReleaseKeepsLocks DEF ReuseExisting, AfterScopeCheck
  <2> QED BY <1>21, <2>1, <2>2 DEF ReuseExisting
<1>19. ASSUME RunFails(b) \/ CrashBuilder(b) PROVE LockDiscipline'
  <2>1. /\ pc[b] \in BuilderSteps /\ pc'[b] \notin Locked
        /\ \A a \in Builders \ {b} : pc'[a] = pc[a] /\ key'[a] = key[a]
        /\ UNCHANGED <<cpc, target>>
    BY <1>19 DEF RunFails, CrashBuilder, Forget
  <2>2. IF lock[key[b]] = b THEN Unlock(key[b]) ELSE UNCHANGED lock
    BY <1>19 DEF RunFails, CrashBuilder
  <2>3. key[b] \in Keys
    BY <2>1 DEF BuilderSteps
  <2>4. CASE pc[b] \in Locked
    <3>1. lock[key[b]] = b
      BY <2>3, <2>4 DEF LockDiscipline
    <3> QED BY <2>1, <2>2, <2>4, <3>1, ReleaseKeepsLocks
  <2>5. CASE pc[b] \notin Locked
    <3>1. lock[key[b]] # b
      BY <2>3, <2>5 DEF LockDiscipline
    <3>2. Quiet
      BY <2>1, <2>2, <2>5, <3>1
    <3> QED BY <1>2, <3>2
  <2> QED BY <2>4, <2>5
<1> QED BY <1>1, <1>2, <1>3, <1>4, <1>5, <1>6, <1>7, <1>8, <1>9, <1>10, <1>11,
           <1>12, <1>13, <1>14, <1>15, <1>16, <1>17, <1>18, <1>19, <1>20, <1>21
        DEF BuilderStep

\* Every cleaner action keeps the lock discipline.
LEMMA CleanerKeepsLocks ==
  ASSUME TypeOK, LockDiscipline, CleanerNext PROVE LockDiscipline'
<1>1. PICK c \in Cleaners : Enumerate(c) \/ CleanerStep(c) \/ CrashCleaner(c)
  BY DEF CleanerNext
<1> DEFINE Removing(x) == cpc[x] \in {"unlink", "unreference"}
<1>2. UNCHANGED <<pc, key>>
  BY <1>1 DEF CleanerStep, Enumerate, Examine, EndScan, TakeCandidate,
       UnlinkGeneration, SkipGeneration, UnlinkReference, ReleaseCandidate,
       EndClean, CrashCleaner, builderVars
<1> USE DEF storeVars, TypeOK, CleanerTypeOK
<1>3. ASSUME UNCHANGED <<lock, target>>,
             \A x \in Cleaners : Removing(x)' <=> Removing(x)
      PROVE  LockDiscipline'
  BY <1>2, <1>3 DEF LockDiscipline
<1>4. ASSUME Enumerate(c) PROVE LockDiscipline'
  BY <1>3, <1>4 DEF Enumerate
<1>5. ASSUME NEW k \in Keys, Examine(c, k) PROVE LockDiscipline'
  BY <1>3, <1>5 DEF Examine
<1>6. ASSUME EndScan(c) PROVE LockDiscipline'
  BY <1>3, <1>6 DEF EndScan
<1>7. ASSUME EndClean(c) PROVE LockDiscipline'
  BY <1>3, <1>7 DEF EndClean
<1>8. ASSUME UnlinkGeneration(c) PROVE LockDiscipline'
  BY <1>3, <1>8 DEF UnlinkGeneration
<1>9. ASSUME NEW t \in Slots, UnlinkReference(c, t) PROVE LockDiscipline'
  BY <1>3, <1>9 DEF UnlinkReference
<1>10. ASSUME NEW k \in Keys, TakeCandidate(c, k) PROVE LockDiscipline'
  <2>1. CASE UNCHANGED <<lock, target, cpc>>
    BY <1>3, <2>1
  <2>2. CASE ~UNCHANGED <<lock, target, cpc>>
    <3>1. /\ cpc[c] = "execute" /\ lock[k] = None
          /\ lock' = [lock EXCEPT ![k] = c]
          /\ target' = [target EXCEPT ![c] = k]
          /\ cpc' = [cpc EXCEPT ![c] = "unlink"]
      BY <1>10, <2>2 DEF TakeCandidate
    <3>2. \A j \in Keys : lock'[j] = IF j = k THEN c ELSE lock[j]
      BY <3>1 DEF StoreTypeOK
    <3> QED BY <1>2, <3>1, <3>2, ProcessAssumption DEF LockDiscipline
  <2> QED BY <2>1, <2>2
<1>11. ASSUME SkipGeneration(c) \/ ReleaseCandidate(c)
                \/ CrashCleaner(c)
       PROVE  LockDiscipline'
  <2>1. /\ Removing(c) /\ Unlock(target[c])
        /\ target' = [target EXCEPT ![c] = None]
        /\ cpc' \in {[cpc EXCEPT ![c] = "idle"], [cpc EXCEPT ![c] = "execute"]}
    BY <1>11 DEF SkipGeneration, ReleaseCandidate, CrashCleaner
  <2>2. target[c] \in Keys
    BY <2>1
  <2>3. \A j \in Keys : lock'[j] = IF j = target[c] THEN None ELSE lock[j]
    BY <2>1, <2>2 DEF Unlock, StoreTypeOK
  <2> QED BY <1>2, <2>1, <2>2, <2>3, ProcessAssumption DEF LockDiscipline
<1> QED BY <1>1, <1>4, <1>5, <1>6, <1>7, <1>8, <1>9, <1>10, <1>11 DEF CleanerStep

\* Readers and the medium touch no lock.
LEMMA OthersKeepLocks ==
  ASSUME LockDiscipline, ReaderNext \/ MediumNext \/ UNCHANGED vars
  PROVE  LockDiscipline'
<1>1. UNCHANGED <<lock, pc, key, cpc, target>>
  BY DEF ReaderNext, ReaderStep, StartLookup, ReadDirectory, ReadEntry, OpenBest,
         LeaveBucket, EndLookup, MediumNext, DamageGeneration,
         vars, storeVars, builderVars, cleanerVars
<1> QED BY <1>1 DEF LockDiscipline

\* A writer lock is held by exactly the process in its critical section.
THEOREM Locking == Spec => []LockDiscipline
<1>1. Init => LockDiscipline
  BY ProcessAssumption DEF Init, LockDiscipline
<1>2. TypeOK /\ LockDiscipline /\ [Next]_vars => LockDiscipline'
  BY BuilderKeepsLocks, CleanerKeepsLocks, OthersKeepLocks DEF Next
<1> QED BY <1>1, <1>2, TypeCorrect, PTL DEF Spec

-----------------------------------------------------------------------------
(* What builders and others do to generation files *)

\* A generation file appears only where its builder holds the writer lock and
\* none was; it is otherwise left alone, removed, or damaged while intact.
LEMMA GenerationSteps ==
  ASSUME TypeOK, [Next]_vars
  PROVE  \/ UNCHANGED gen
         \/ \E k \in Keys : gen' = [gen EXCEPT ![k] = Absent]
         \/ \E k \in Keys : Readable(k) /\ gen' = [gen EXCEPT ![k] = Damaged]
         \/ \E b \in Builders :
              /\ pc[b] = "persist" /\ pc'[b] # "persist"
              /\ gen[key[b]] = Absent
              /\ gen' = [gen EXCEPT ![key[b]] = mine[b]]
<1> USE DEF TypeOK
<1>1. CASE UNCHANGED vars
  BY <1>1 DEF vars, storeVars
<1>2. CASE ReaderNext
  BY <1>2 DEF ReaderNext, ReaderStep, StartLookup, ReadDirectory, ReadEntry,
       OpenBest, LeaveBucket, EndLookup, storeVars
<1>3. CASE MediumNext
  BY <1>3 DEF MediumNext, DamageGeneration
<1>4. CASE CleanerNext
  <2>1. PICK c \in Cleaners : Enumerate(c) \/ CleanerStep(c) \/ CrashCleaner(c)
    BY <1>4 DEF CleanerNext
  <2>2. ASSUME UnlinkGeneration(c)
        PROVE  \E k \in Keys : gen' = [gen EXCEPT ![k] = Absent]
    BY <2>2 DEF UnlinkGeneration, CleanerTypeOK
  <2>3. ASSUME ~UnlinkGeneration(c) PROVE UNCHANGED gen
    BY <2>1, <2>3 DEF CleanerStep, Enumerate, Examine, EndScan, TakeCandidate,
         SkipGeneration, UnlinkReference, ReleaseCandidate, EndClean,
         CrashCleaner, storeVars
  <2> QED BY <2>2, <2>3
<1>5. CASE BuilderNext
  <2>1. PICK b \in Builders :
          \/ \E k \in Keys : Analyze(b, k)
          \/ BuilderStep(b)
          \/ RunFails(b) \/ RemovalFails(b) \/ CrashBuilder(b)
          \/ EndRun(b)
    BY <1>5 DEF BuilderNext
  <2>2. ASSUME PersistGeneration(b)
        PROVE  \/ UNCHANGED gen
               \/ /\ pc[b] = "persist" /\ pc'[b] # "persist"
                  /\ gen[key[b]] = Absent
                  /\ gen' = [gen EXCEPT ![key[b]] = mine[b]]
    BY <2>2 DEF PersistGeneration, Staged, AfterScopeCheck, BuilderTypeOK
  <2>3. ASSUME RemoveTracked(b)
        PROVE  \/ UNCHANGED gen
               \/ \E k \in Keys : gen' = [gen EXCEPT ![k] = Absent]
    BY <2>3 DEF RemoveTracked, BuilderTypeOK
  <2>4. ASSUME ~PersistGeneration(b), ~RemoveTracked(b) PROVE UNCHANGED gen
    BY <2>1, <2>4 DEF BuilderStep, Analyze, OpenGeneration, ResolveGraph,
         PublishUnlocked, ReuseExisting, AcquireWriterLock, WriterBusy,
         RecheckUnderLock, ReopenGeneration, ReadReference, LinkReference,
         CompareReference, QueryGraph, ReportDrift, RunFails, RemovalFails, CrashBuilder, EndRun, storeVars
  <2> QED BY <2>2, <2>3, <2>4
<1> QED BY <1>1, <1>2, <1>3, <1>4, <1>5 DEF Next

\* A run comes to the publication only from its second look at the final path.
LEMMA EnterPersist ==
  ASSUME TypeOK, [Next]_vars, NEW a \in Builders, pc'[a] = "persist"
  PROVE  /\ key'[a] = key[a]
         /\ pc[a] = "persist" \/ (gen[key[a]] = Absent /\ UNCHANGED gen)
<1> USE DEF TypeOK, BuilderTypeOK
<1>1. CASE ReaderNext \/ MediumNext \/ CleanerNext \/ UNCHANGED vars
  <2>1. UNCHANGED <<pc, key>>
    BY <1>1 DEF ReaderNext, ReaderStep, StartLookup, ReadDirectory, ReadEntry,
         OpenBest, LeaveBucket, EndLookup, MediumNext, DamageGeneration,
         CleanerNext, CleanerStep, Enumerate, Examine, EndScan, TakeCandidate,
         UnlinkGeneration, SkipGeneration, UnlinkReference, ReleaseCandidate,
         EndClean, CrashCleaner, vars, builderVars
  <2> QED BY <2>1
<1>2. CASE BuilderNext
  <2> DEFINE Same(b) == /\ \A x \in Builders \ {b} : pc'[x] = pc[x] /\ key'[x] = key[x]
                        /\ pc'[b] # "persist"
  <2>1. PICK b \in Builders :
          \/ \E k \in Keys : Analyze(b, k)
          \/ BuilderStep(b)
          \/ RunFails(b) \/ RemovalFails(b) \/ CrashBuilder(b)
          \/ EndRun(b)
    BY <1>2 DEF BuilderNext
  <2>2. ASSUME NEW k \in Keys, Analyze(b, k) PROVE Same(b)
    BY <2>2 DEF Analyze
  <2>3. ASSUME OpenGeneration(b) PROVE Same(b)
    BY <2>3 DEF OpenGeneration, AfterScopeCheck
  <2>4. ASSUME ResolveGraph(b) PROVE Same(b)
    BY <2>4 DEF ResolveGraph, AfterScopeCheck
  <2>5. ASSUME PublishUnlocked(b) PROVE Same(b)
    BY <2>5 DEF PublishUnlocked
  <2>6. ASSUME AcquireWriterLock(b) PROVE Same(b)
    BY <2>6 DEF AcquireWriterLock
  <2>7. ASSUME WriterBusy(b) PROVE Same(b)
    BY <2>7 DEF WriterBusy
  <2>8. ASSUME PersistGeneration(b) PROVE Same(b)
    BY <2>8 DEF PersistGeneration, AfterScopeCheck
  <2>9. ASSUME ReopenGeneration(b) PROVE Same(b)
    BY <2>9 DEF ReopenGeneration, AfterScopeCheck
  <2>10. ASSUME ReadReference(b) PROVE Same(b)
    BY <2>10 DEF ReadReference, NextReference, AfterScopeCheck
  <2>11. ASSUME LinkReference(b) PROVE Same(b)
    BY <2>11 DEF LinkReference, NextReference, AfterScopeCheck
  <2>12. ASSUME QueryGraph(b) PROVE Same(b)
    BY <2>12 DEF QueryGraph, AfterScopeCheck
  <2>13. ASSUME RemoveTracked(b) PROVE Same(b)
    BY <2>13 DEF RemoveTracked
  <2>14. ASSUME ReportDrift(b) PROVE Same(b)
    BY <2>14 DEF ReportDrift
  <2>15. ASSUME RunFails(b) PROVE Same(b)
    BY <2>15 DEF RunFails
  <2>16. ASSUME RemovalFails(b) PROVE Same(b)
    BY <2>16 DEF RemovalFails
  <2>17. ASSUME CrashBuilder(b) PROVE Same(b)
    BY <2>17 DEF CrashBuilder, Forget
  <2>18. ASSUME EndRun(b) PROVE Same(b)
    BY <2>18 DEF EndRun, Forget
  <2>19. ASSUME RecheckUnderLock(b)
        PROVE  Same(b) \/ (/\ \A x \in Builders \ {b} : pc'[x] = pc[x]
                           /\ UNCHANGED <<key, gen>>
                           /\ gen[key[b]] = Absent)
    BY <2>19 DEF RecheckUnderLock, storeVars
  <2>20. ASSUME ReuseExisting(b) PROVE Same(b)
    BY <2>20 DEF ReuseExisting, AfterScopeCheck
  <2>21. ASSUME CompareReference(b) PROVE Same(b)
    BY <2>21 DEF CompareReference, NextReference, AfterScopeCheck
  <2> QED BY <2>1, <2>2, <2>3, <2>4, <2>5, <2>6, <2>7, <2>8, <2>9, <2>10, <2>11, <2>12, <2>13, <2>14, <2>15, <2>16, <2>17, <2>18, <2>19,
             <2>20, <2>21 DEF BuilderStep
<1> QED BY <1>1, <1>2 DEF Next

\* persist_noclobber never meets another writer's file.
THEOREM NeverCollides == Spec => []NoCollision
<1>1. Init => NoCollision
  BY DEF Init, NoCollision
<1>2. TypeOK /\ LockDiscipline /\ NoCollision /\ [Next]_vars => NoCollision'
  <2> SUFFICES ASSUME TypeOK, LockDiscipline, NoCollision, [Next]_vars,
                      NEW a \in Builders, pc'[a] = "persist"
               PROVE  gen'[key'[a]] = Absent
    BY DEF NoCollision
  <2>1. /\ key'[a] = key[a]
        /\ pc[a] = "persist" \/ (gen[key[a]] = Absent /\ UNCHANGED gen)
    BY EnterPersist
  <2>2. gen[key[a]] = Absent
    BY <2>1 DEF NoCollision
  <2>3. CASE \E b \in Builders : /\ pc[b] = "persist" /\ pc'[b] # "persist"
                                 /\ gen' = [gen EXCEPT ![key[b]] = mine[b]]
    <3>1. PICK b \in Builders : /\ pc[b] = "persist" /\ pc'[b] # "persist"
                               /\ gen' = [gen EXCEPT ![key[b]] = mine[b]]
      BY <2>3
    <3>2. CASE UNCHANGED gen
      BY <2>1, <2>2, <3>2
    <3>3. CASE pc[a] = "persist"
      <4>1. key[a] \in Keys /\ key[b] \in Keys
        BY <3>1, <3>3 DEF TypeOK, BuilderTypeOK
      <4>2. lock[key[a]] = a /\ lock[key[b]] = b
        BY <3>1, <3>3, <4>1 DEF LockDiscipline, Locked
      <4> QED BY <2>1, <2>2, <3>1, <4>1, <4>2 DEF TypeOK, StoreTypeOK
    <3> QED BY <2>1, <3>2, <3>3
  <2>4. CASE UNCHANGED gen
    BY <2>1, <2>2, <2>4
  <2>5. CASE \E k \in Keys : gen' = [gen EXCEPT ![k] = Absent]
    BY <2>1, <2>2, <2>5 DEF TypeOK, StoreTypeOK
  <2>6. CASE \E k \in Keys : Readable(k) /\ gen' = [gen EXCEPT ![k] = Damaged]
    BY <2>1, <2>2, <2>6, QualitiesAssumption
       DEF TypeOK, StoreTypeOK, Readable, Absent
  <2> QED BY <2>3, <2>4, <2>5, <2>6, GenerationSteps
<1> QED BY <1>1, <1>2, TypeCorrect, Locking, PTL DEF Spec

\* The generation files implement an immutable object store: each appears
\* whole, is never replaced, and changes only by removal or outside damage.
THEOREM ImplementsImmutableStore == Spec => GenerationsAreImmutable
<1>1. Init => Store!Init
  BY DEF Init, Store!Init, Absent, Store!Absent
<1>2. TypeOK /\ [Next]_vars => [Store!Next]_gen
  <2> SUFFICES ASSUME TypeOK, [Next]_vars, gen' # gen PROVE Store!Next
    OBVIOUS
  <2> USE DEF Absent, Damaged, Store!Absent, Store!Damaged, Store!Next
  <2>1. ASSUME NEW k \in Keys, gen' = [gen EXCEPT ![k] = Absent]
        PROVE  Store!Remove(k)
    BY <2>1 DEF Store!Remove, TypeOK, StoreTypeOK
  <2>2. ASSUME NEW k \in Keys, Readable(k), gen' = [gen EXCEPT ![k] = Damaged]
        PROVE  Store!Damage(k)
    BY <2>2 DEF Store!Damage, Readable
  <2>3. ASSUME NEW b \in Builders, pc[b] = "persist", gen[key[b]] = Absent,
               gen' = [gen EXCEPT ![key[b]] = mine[b]]
        PROVE  Store!Next
    <3>1. key[b] \in Keys /\ mine[b] \in Qualities
      BY <2>3 DEF TypeOK, BuilderTypeOK, Publishing, Locked
    <3> QED BY <2>3, <3>1 DEF Store!Publish
  <2> QED BY <2>1, <2>2, <2>3, GenerationSteps
<1> QED BY <1>1, <1>2, TypeCorrect, PTL DEF Spec, GenerationsAreImmutable, Store!Spec

-----------------------------------------------------------------------------
(* Drift *)

\* What a run published is on one of its lists unless the run has failed; the
\* list of references in progress is empty whenever the scope is checked; and
\* drift is reported only once the tracked files are gone.  DriftLeavesNothing
\* is not inductive without it.
Accounted(b) ==
  /\ pc[b] \notin {"failed", "dirty"} => own[b] \subseteq tracked[b] \cup pending[b]
  /\ pending[b] # {} =>
       pc[b] \in {"reference", "link", "compare", "conflict", "failed"}
  /\ pc[b] = "drift" => tracked[b] = {}

AllAccounted == \A b \in Builders : Accounted(b)

\* A run stays accounted for while others take files from it.
LEMMA OthersTakeFiles ==
  ASSUME NEW b \in Builders, Accounted(b), own'[b] \subseteq own[b],
         pc'[b] = pc[b], tracked'[b] = tracked[b], pending'[b] = pending[b]
  PROVE  Accounted(b)'
  BY DEF Accounted

\* A step that leaves the lists alone keeps the account, unless it comes to the
\* removal or to an answer with references in progress.
LEMMA SameLists ==
  ASSUME NEW b \in Builders, Accounted(b), pc[b] \notin {"failed", "dirty"},
         UNCHANGED <<own, tracked, pending>>,
         \/ pending[b] = {}
         \/ pc'[b] \in {"reference", "link", "compare", "conflict", "failed"},
         pc'[b] = "drift" => tracked[b] = {}
  PROVE  Accounted(b)'
  BY DEF Accounted

\* The base reference follows, or both references are tracked.
LEMMA NextReferenceAccounts ==
  ASSUME TypeOK, NEW b \in Builders, NEW published, NextReference(b, published),
         own'[b] \subseteq tracked[b] \cup published
  PROVE  Accounted(b)'
<1> USE DEF TypeOK, BuilderTypeOK
<1>1. CASE slot[b] = "exact" /\ BucketOf[key[b]]["base"] # None
  BY <1>1 DEF NextReference, Accounted
<1>2. CASE ~(slot[b] = "exact" /\ BucketOf[key[b]]["base"] # None)
  <2>1. tracked'[b] = tracked[b] \cup published /\ pending'[b] = {}
    BY <1>2 DEF NextReference, Track
  <2>2. pc'[b] \in {"query", "removing"}
    BY <1>2 DEF NextReference, AfterScopeCheck
  <2> QED BY <2>1, <2>2 DEF Accounted
<1> QED BY <1>1, <1>2

\* Every builder action keeps every run accounted for.
LEMMA BuilderKeepsAccounts ==
  ASSUME TypeOK, AllAccounted, BuilderNext PROVE AllAccounted'
<1> USE DEF TypeOK, BuilderTypeOK
<1>1. PICK b \in Builders :
        \/ \E k \in Keys : Analyze(b, k)
        \/ BuilderStep(b)
        \/ RunFails(b) \/ RemovalFails(b) \/ CrashBuilder(b)
        \/ EndRun(b)
  BY DEF BuilderNext
<1>2. ASSUME NEW x \in Builders, x # b PROVE Accounted(x)'
  <2>1. /\ pc'[x] = pc[x] /\ tracked'[x] = tracked[x] /\ pending'[x] = pending[x]
    BY <1>1, <1>2 DEF BuilderStep, Analyze, OpenGeneration, ResolveGraph,
         PublishUnlocked, ReuseExisting, AcquireWriterLock, WriterBusy,
         RecheckUnderLock, PersistGeneration, ReopenGeneration, ReadReference,
         LinkReference, CompareReference, QueryGraph, RemoveTracked, ReportDrift, RunFails, RemovalFails,
         CrashBuilder, EndRun, Forget, NextReference, Track,
         AfterScopeCheck
  <2>2. own'[x] \subseteq own[x]
    BY <1>1, <1>2 DEF BuilderStep, Analyze, OpenGeneration, ResolveGraph,
         PublishUnlocked, ReuseExisting, AcquireWriterLock, WriterBusy,
         RecheckUnderLock, PersistGeneration, ReopenGeneration, ReadReference,
         LinkReference, CompareReference, QueryGraph, RemoveTracked, ReportDrift, RunFails, RemovalFails,
         CrashBuilder, EndRun, Forget, Disowned
  <2> QED BY <2>1, <2>2, OthersTakeFiles DEF AllAccounted
<1>3. Accounted(b)
  BY DEF AllAccounted
<1>4. ASSUME NEW k \in Keys, Analyze(b, k) PROVE Accounted(b)'
  BY <1>3, <1>4, SameLists DEF Analyze, Accounted
<1>5. ASSUME ResolveGraph(b) PROVE Accounted(b)'
  BY <1>3, <1>5, SameLists DEF ResolveGraph, Accounted, AfterScopeCheck
<1>6. ASSUME OpenGeneration(b) PROVE Accounted(b)'
  BY <1>3, <1>6, SameLists DEF OpenGeneration, Accounted, AfterScopeCheck
<1>7. ASSUME PublishUnlocked(b) PROVE Accounted(b)'
  BY <1>3, <1>7, SameLists DEF PublishUnlocked, Accounted
<1>8. ASSUME AcquireWriterLock(b) PROVE Accounted(b)'
  BY <1>3, <1>8, SameLists DEF AcquireWriterLock, Accounted
<1>9. ASSUME WriterBusy(b) PROVE Accounted(b)'
  BY <1>3, <1>9, SameLists DEF WriterBusy, Accounted
<1>10. ASSUME RecheckUnderLock(b) PROVE Accounted(b)'
  BY <1>3, <1>10, SameLists DEF RecheckUnderLock, Accounted
<1>11. ASSUME ReopenGeneration(b) PROVE Accounted(b)'
  BY <1>3, <1>11, SameLists DEF ReopenGeneration, Accounted, AfterScopeCheck
<1>12. ASSUME QueryGraph(b) PROVE Accounted(b)'
  BY <1>3, <1>12, SameLists DEF QueryGraph, Accounted, AfterScopeCheck
<1>13. ASSUME ReportDrift(b) PROVE Accounted(b)'
  BY <1>3, <1>13, SameLists DEF ReportDrift, Accounted
<1>14. ASSUME RunFails(b) PROVE Accounted(b)'
  BY <1>3, <1>14, SameLists DEF RunFails, Accounted, BuilderSteps
<1>15. ASSUME RemovalFails(b) PROVE Accounted(b)'
  BY <1>3, <1>15, SameLists DEF RemovalFails, Accounted
<1>16. ASSUME CrashBuilder(b) \/ EndRun(b) PROVE Accounted(b)'
  BY <1>16 DEF CrashBuilder, EndRun, Forget, Accounted
<1>17. ASSUME PersistGeneration(b) PROVE Accounted(b)'
  <2>1. CASE gen[key[b]] # Absent
    BY <1>3, <1>17, <2>1, SameLists
       DEF PersistGeneration, Accounted
  <2>2. CASE gen[key[b]] = Absent
    BY <1>3, <1>17, <2>2 DEF PersistGeneration, Track, AfterScopeCheck, Accounted
  <2> QED BY <2>1, <2>2
<1>18. ASSUME ReadReference(b) PROVE Accounted(b)'
  <2>1. CASE NextReference(b, pending[b])
    BY <1>3, <1>18, <2>1, NextReferenceAccounts DEF ReadReference, Accounted
  <2>2. CASE ~NextReference(b, pending[b])
    BY <1>3, <1>18, <2>2, SameLists DEF ReadReference
  <2> QED BY <2>1, <2>2
<1>19. ASSUME LinkReference(b) PROVE Accounted(b)'
  <2>1. CASE NextReference(b, pending[b] \cup {slot[b]})
    <3>1. own'[b] \subseteq own[b] \cup {slot[b]}
      BY <1>19 DEF LinkReference
    <3> QED BY <1>3, <1>19, <2>1, <3>1, NextReferenceAccounts
            DEF LinkReference, Accounted
  <2>2. CASE pc' = [pc EXCEPT ![b] = "failed"] /\ UNCHANGED pending
    BY <1>19, <2>2 DEF Accounted
  <2>3. CASE pc' = [pc EXCEPT ![b] = "compare"] /\ UNCHANGED <<own, tracked, pending>>
    BY <1>3, <1>19, <2>3, SameLists DEF LinkReference
  <2> QED BY <1>19, <2>1, <2>2, <2>3 DEF LinkReference
<1>20. ASSUME RemoveTracked(b) PROVE Accounted(b)'
  <2>1. pc[b] = "removing" /\ pc' = pc /\ pending' = pending
    BY <1>20 DEF RemoveTracked
  <2>2. /\ tracked'[b] = tracked[b] \ {LastTracked(b)}
        /\ own'[b] = own[b] \ {LastTracked(b)}
    BY <1>20 DEF RemoveTracked, Disowned
  <2> QED BY <1>3, <2>1, <2>2 DEF Accounted
<1>21. ASSUME ReuseExisting(b) PROVE Accounted(b)'
  BY <1>3, <1>21, SameLists DEF ReuseExisting, Accounted, AfterScopeCheck
<1>22. ASSUME CompareReference(b) PROVE Accounted(b)'
  <2>1. CASE NextReference(b, pending[b])
    BY <1>3, <1>22, <2>1, NextReferenceAccounts DEF CompareReference, Accounted
  <2>2. CASE ~NextReference(b, pending[b])
    BY <1>3, <1>22, <2>2, SameLists DEF CompareReference
  <2> QED BY <2>1, <2>2
<1> QED BY <1>1, <1>2, <1>4, <1>5, <1>6, <1>7, <1>8, <1>9, <1>10, <1>11, <1>12,
           <1>13, <1>14, <1>15, <1>16, <1>17, <1>18, <1>19, <1>20, <1>21, <1>22
        DEF BuilderStep, AllAccounted

\* A run that reports drift has left none of the files it published.
THEOREM DriftIsClean == Spec => []DriftLeavesNothing
<1>1. Init => AllAccounted
  BY DEF Init, AllAccounted, Accounted
<1>2. TypeOK /\ AllAccounted /\ [Next]_vars => AllAccounted'
  <2> SUFFICES ASSUME TypeOK, AllAccounted, [Next]_vars PROVE AllAccounted'
    OBVIOUS
  <2>1. CASE ReaderNext \/ MediumNext \/ CleanerNext \/ UNCHANGED vars
    <3>1. UNCHANGED <<pc, tracked, pending>>
      BY <2>1 DEF ReaderNext, ReaderStep, StartLookup, ReadDirectory, ReadEntry,
           OpenBest, LeaveBucket, EndLookup, MediumNext, DamageGeneration,
           CleanerNext, CleanerStep, Enumerate, Examine, EndScan, TakeCandidate,
           UnlinkGeneration, SkipGeneration, UnlinkReference, ReleaseCandidate,
           EndClean, CrashCleaner, vars, builderVars
    <3>2. own' = own \/ \E k, f : own' = Disowned(k, f)
      BY <2>1 DEF ReaderNext, ReaderStep, StartLookup, ReadDirectory, ReadEntry,
           OpenBest, LeaveBucket, EndLookup, MediumNext, DamageGeneration,
           CleanerNext, CleanerStep, Enumerate, Examine, EndScan, TakeCandidate,
           UnlinkGeneration, SkipGeneration, UnlinkReference, ReleaseCandidate,
           EndClean, CrashCleaner, vars, builderVars
    <3>3. \A b \in Builders : own'[b] \subseteq own[b]
      BY <3>2 DEF Disowned
    <3> QED BY <3>1, <3>3, OthersTakeFiles DEF AllAccounted
  <2> QED BY <2>1, BuilderKeepsAccounts DEF Next
<1>3. AllAccounted => DriftLeavesNothing
  BY DEF AllAccounted, Accounted, DriftLeavesNothing
<1> QED BY <1>1, <1>2, <1>3, TypeCorrect, PTL DEF Spec

-----------------------------------------------------------------------------
(* With the histories: they only watch, so that the invariants carry over *)

\* Every recorded behaviour is one of the cache.
LEMMA HistoriesOnlyWatch == HistorySpec => Spec
<1>1. HistoryInit => Init
  BY DEF HistoryInit
<1>2. [HistoryNext]_<<vars, historyVars>> => [Next]_vars
  BY DEF HistoryNext
<1> QED BY <1>1, <1>2, PTL DEF HistorySpec, Spec

\* What the bounds are compared with are numbers.
LEMMA SizesAreNumbers ==
  ASSUME TypeOK
  PROVE  /\ \A bk \in Buckets : DirectorySize(bk) \in Nat
         /\ \A k \in Keys : NewerThan(k) \in Nat
         /\ MaxReferences \in Nat /\ RetainGenerations \in Nat /\ MaxGenerations \in Nat
<1>1. ASSUME NEW bk \in Buckets PROVE DirectorySize(bk) \in Nat
  <2>1. Cardinality(Referenced(bk)) \in Nat
    BY FiniteAssumption, FS_Subset, FS_CardinalityType DEF Referenced
  <2>2. Cardinality(InFlight(bk)) \in Nat
    BY FiniteAssumption, FS_Subset, FS_CardinalityType DEF InFlight
  <2>3. leaked[bk] \in Nat
    BY BoundAssumption DEF TypeOK, StoreTypeOK
  <2> QED BY <2>1, <2>2, <2>3 DEF DirectorySize
<1>2. ASSUME NEW k \in Keys PROVE NewerThan(k) \in Nat
  BY FiniteAssumption, FS_Subset, FS_CardinalityType DEF NewerThan, Present
<1> QED BY <1>1, <1>2, BoundAssumption

-----------------------------------------------------------------------------
(* Lookups *)

\* A generation a bucket of the scope offered all along is still to be found:
\* its bucket is not behind the lookup, and once that bucket is listed its
\* name is still to be read or its reference among the candidates.
Ahead(r, o) ==
  /\ bucket[r] # scope[r][1] => o[1] # scope[r][1]
  /\ rpc[r] = "read" /\ o[1] = bucket[r]
       => o[2] \in entries[r] \/ <<o[2], o[3]>> \in candidates[r]
  /\ rpc[r] # "unavailable"
  /\ rpc[r] = "hit" /\ o[1] = bucket[r] /\ o[3] = "complete" => hit[r][2] = "complete"

\* BestSteadyWins is not inductive without it.
Attentive ==
  \A r \in Readers : rpc[r] # "idle" =>
    /\ bucket[r] \in {scope[r][1], scope[r][2]} \ {None}
    /\ \A o \in steady[r] : o \in Offered(scope[r]) /\ Ahead(r, o)

\* What is offered is intact, listed, and named by the slot that belongs to its bucket.
LEMMA OfferedFacts ==
  ASSUME TypeOK, NEW s \in FastScopes, NEW o \in Offered(s)
  PROVE  /\ o[1] \in {s[1], s[2]} \ {None} /\ o[1] \in Buckets
         /\ o[2] \in Keys /\ o[3] \in Qualities
         /\ DirectorySize(o[1]) <= MaxReferences /\ gen[o[2]] = o[3]
         /\ o[2] \in Referenced(o[1]) /\ refs[o[2]][SlotIn(o[2], o[1])] = o[3]
<1>1. /\ o[1] \in {s[1], s[2]} \ {None} /\ o[2] \in Keys /\ o[3] \in Qualities
      /\ DirectorySize(o[1]) <= MaxReferences /\ gen[o[2]] = o[3]
  BY DEF Offered
<1>2. PICK f \in Slots : BucketOf[o[2]][f] = o[1] /\ refs[o[2]][f] = o[3]
  BY DEF Offered
<1>3. o[1] \in Buckets
  BY <1>1, BoundAssumption
<1>4. o[3] # Absent
  BY <1>1, QualitiesAssumption DEF Absent
<1>5. SlotIn(o[2], o[1]) = f
  BY <1>1, <1>2, BucketAssumption DEF SlotIn, Slots
<1> QED BY <1>1, <1>2, <1>3, <1>4, <1>5 DEF Referenced

\* A step is one of reader r, or leaves the reader where it is.
LEMMA ReaderMoves ==
  ASSUME TypeOK, [Next]_vars, NEW r \in Readers
  PROVE  \/ (\E s \in FastScopes : StartLookup(r, s)) \/ ReaderStep(r) \/ EndLookup(r)
         \/ /\ rpc'[r] = rpc[r] /\ scope'[r] = scope[r] /\ bucket'[r] = bucket[r]
            /\ entries'[r] = entries[r] /\ candidates'[r] = candidates[r] /\ hit'[r] = hit[r]
<1> USE DEF TypeOK, ReaderTypeOK, readerVars
<1>1. CASE ReaderNext
  <2>1. PICK x \in Readers :
          (\E s \in FastScopes : StartLookup(x, s)) \/ ReaderStep(x) \/ EndLookup(x)
    BY <1>1 DEF ReaderNext
  <2>2. ASSUME x # r
        PROVE  /\ rpc'[r] = rpc[r] /\ scope'[r] = scope[r] /\ bucket'[r] = bucket[r]
               /\ entries'[r] = entries[r] /\ candidates'[r] = candidates[r]
               /\ hit'[r] = hit[r]
    BY <2>1, <2>2 DEF ReaderStep, StartLookup, ReadDirectory, ReadEntry, OpenBest,
                      LeaveBucket, FoundNothing, EndLookup
  <2> QED BY <2>1, <2>2
<1>2. CASE BuilderNext \/ CleanerNext \/ MediumNext \/ UNCHANGED vars
  <2>1. UNCHANGED readerVars
    BY <1>2 DEF BuilderNext, BuilderStep, Analyze, OpenGeneration, ResolveGraph,
         PublishUnlocked, ReuseExisting, AcquireWriterLock, WriterBusy, RecheckUnderLock,
         PersistGeneration, ReopenGeneration, ReadReference, LinkReference,
         CompareReference, QueryGraph, RemoveTracked, ReportDrift, RunFails, RemovalFails,
         CrashBuilder, EndRun, CleanerNext, CleanerStep, Enumerate, Examine, EndScan,
         TakeCandidate, UnlinkGeneration, SkipGeneration, UnlinkReference,
         ReleaseCandidate, EndClean, CrashCleaner, MediumNext, DamageGeneration, vars
  <2> QED BY <2>1
<1> QED BY <1>1, <1>2 DEF Next

\* What stays recorded as offered was recorded before, unless the lookup starts.
LEMMA SteadyShrinks ==
  ASSUME HistoryNext, NEW r \in Readers, NEW o \in steady'[r]
  PROVE  /\ o \in Offered(scope[r])' /\ scope'[r] # None
         /\ scope[r] # None => o \in steady[r]
  BY DEF HistoryNext

\* A lookup goes on to another bucket of its scope, or ends.
LEMMA NextBucket ==
  ASSUME TypeOK, NEW r \in Readers, FoundNothing(r),
         bucket[r] \in {scope[r][1], scope[r][2]} \ {None}
  PROVE  bucket'[r] \in {scope[r][1], scope[r][2]} \ {None}
<1>1. bucket \in [Readers -> Buckets \cup {None}]
  BY DEF TypeOK, ReaderTypeOK
<1>2. \/ scope[r][2] # None /\ bucket'[r] = scope[r][2]
      \/ bucket' = bucket
  BY <1>1 DEF FoundNothing
<1> QED BY <1>2

\* A lookup that leaves a bucket leaves nothing behind that is in another one.
LEMMA NothingBehind ==
  ASSUME TypeOK, NEW r \in Readers, rpc[r] # "idle", FoundNothing(r), scope' = scope,
         bucket[r] \in {scope[r][1], scope[r][2]} \ {None},
         NEW o \in Offered(scope[r]), Ahead(r, o), o[1] # bucket[r]
  PROVE  Ahead(r, o)'
<1>1. scope[r] \in FastScopes
  BY DEF TypeOK, ReaderTypeOK
<1>2. o[1] \in {scope[r][1], scope[r][2]} \ {None}
  BY <1>1, OfferedFacts
<1>3. bucket[r] = scope[r][1] /\ scope[r][2] # None
  BY <1>2 DEF FoundNothing, Ahead
<1>4. bucket'[r] = scope[r][2] /\ rpc'[r] = "dir"
  BY <1>3 DEF FoundNothing, TypeOK, ReaderTypeOK
<1> QED BY <1>2, <1>3, <1>4 DEF Ahead

\* No step of a lookup leaves an offered generation behind.
LEMMA LookupKeepsAhead ==
  ASSUME TypeOK, NEW r \in Readers, rpc[r] # "idle", ReaderStep(r),
         bucket[r] \in {scope[r][1], scope[r][2]} \ {None}
  PROVE  /\ bucket'[r] \in {scope[r][1], scope[r][2]} \ {None}
         /\ \A o \in Offered(scope[r]) : Ahead(r, o) => Ahead(r, o)'
<1> DEFINE Kept == \A o \in Offered(scope[r]) : Ahead(r, o) => Ahead(r, o)'
<1>1. scope[r] \in FastScopes
  BY DEF TypeOK, ReaderTypeOK
<1>2. CASE ReadDirectory(r)
  <2>1. CASE DirectorySize(bucket[r]) > MaxReferences /\ FoundNothing(r)
    <3>1. bucket[r] \in Buckets
      BY <1>1, BoundAssumption
    <3>2. \A o \in Offered(scope[r]) : o[1] # bucket[r]
      BY <1>1, <2>1, <3>1, OfferedFacts, SizesAreNumbers
    <3>3. scope' = scope
      BY <1>2 DEF ReadDirectory
    <3> QED BY <2>1, <3>2, <3>3, NextBucket, NothingBehind
  <2>2. CASE ~(DirectorySize(bucket[r]) > MaxReferences /\ FoundNothing(r))
    <3>1. /\ rpc[r] = "dir" /\ rpc'[r] = "read" /\ entries'[r] = Referenced(bucket[r])
          /\ bucket' = bucket /\ scope' = scope
      BY <1>2, <2>2 DEF ReadDirectory, TypeOK, ReaderTypeOK
    <3>2. \A o \in Offered(scope[r]) : o[2] \in Referenced(o[1])
      BY <1>1, OfferedFacts
    <3> QED BY <3>1, <3>2 DEF Ahead
  <2> QED BY <2>1, <2>2
<1>3. ASSUME NEW k \in Keys, ReadEntry(r, k) PROVE bucket' = bucket /\ Kept
  <2> SUFFICES ASSUME NEW o \in Offered(scope[r]), Ahead(r, o)
               PROVE  bucket' = bucket /\ Ahead(r, o)'
    BY <1>3 DEF ReadEntry
  <2>1. /\ rpc[r] = "read" /\ bucket' = bucket /\ scope' = scope /\ hit' = hit
        /\ entries'[r] = entries[r] \ {k} /\ candidates[r] \subseteq candidates'[r]
    BY <1>3 DEF ReadEntry, TypeOK, ReaderTypeOK
  <2>2. /\ refs[o[2]][SlotIn(o[2], o[1])] = o[3] /\ o[3] \in Qualities /\ o[3] # Absent
    BY <1>1, OfferedFacts, QualitiesAssumption DEF Absent
  <2>3. CASE refs[k][SlotIn(k, bucket[r])] # Absent
    <3>1. /\ rpc' = rpc
          /\ <<k, refs[k][SlotIn(k, bucket[r])]>> \in candidates'[r]
      BY <1>3, <2>3 DEF ReadEntry, TypeOK, ReaderTypeOK
    <3> QED BY <2>1, <2>2, <3>1 DEF Ahead
  <2>4. CASE refs[k][SlotIn(k, bucket[r])] = Absent
    <3>1. o[1] = bucket[r] => o[2] # k
      BY <2>2, <2>4
    <3>2. rpc'[r] \in {"read", "error"}
      BY <1>3, <2>4 DEF ReadEntry, TypeOK, ReaderTypeOK
    <3> QED BY <2>1, <3>1, <3>2 DEF Ahead
  <2> QED BY <2>3, <2>4
<1>4. ASSUME NEW k \in Keys, NEW q \in Qualities, OpenBest(r, k, q)
      PROVE  bucket' = bucket /\ Kept
  <2> SUFFICES ASSUME NEW o \in Offered(scope[r]), Ahead(r, o)
               PROVE  bucket' = bucket /\ Ahead(r, o)'
    BY <1>4 DEF OpenBest
  <2>1. /\ rpc[r] = "read" /\ entries[r] = {} /\ bucket' = bucket /\ scope' = scope
        /\ entries' = entries
        /\ \A c \in candidates[r] : Rank(c[2]) <= Rank(q)
    BY <1>4 DEF OpenBest
  <2>2. o[1] = bucket[r] => <<o[2], o[3]>> \in candidates[r]
    BY <2>1 DEF Ahead
  <2>3. CASE gen[k] = q
    <3>1. rpc'[r] = "hit" /\ hit'[r] = <<k, q>>
      BY <1>4, <2>3 DEF OpenBest, TypeOK, ReaderTypeOK
    <3>2. o[1] = bucket[r] /\ o[3] = "complete" => q = "complete"
      BY <2>1, <2>2 DEF Rank
    <3> QED BY <2>1, <3>1, <3>2 DEF Ahead
  <2>4. CASE gen[k] # q
    <3>1. rpc' = rpc /\ candidates'[r] = candidates[r] \ {<<k, q>>}
      BY <1>4, <2>4 DEF OpenBest, PassOver, TypeOK, ReaderTypeOK
    <3>2. gen[o[2]] = o[3]
      BY <1>1, OfferedFacts
    <3> QED BY <2>1, <2>2, <2>4, <3>1, <3>2 DEF Ahead
  <2> QED BY <2>3, <2>4
<1>5. CASE LeaveBucket(r)
  <2>1. FoundNothing(r) /\ scope' = scope
    BY <1>5 DEF LeaveBucket
  <2>2. \A o \in Offered(scope[r]) : Ahead(r, o) => o[1] # bucket[r]
    BY <1>5 DEF LeaveBucket, Exhausted, Ahead
  <2> QED BY <2>1, <2>2, NextBucket, NothingBehind
<1> QED BY <1>2, <1>3, <1>4, <1>5 DEF ReaderStep

LEMMA AttentiveStep ==
  ASSUME TypeOK, TypeOK', Attentive, [HistoryNext]_<<vars, historyVars>>
  PROVE  Attentive'
<1>1. CASE UNCHANGED <<vars, historyVars>>
  <2>1. UNCHANGED <<rpc, scope, bucket, entries, candidates, hit, steady>>
    BY <1>1 DEF vars, readerVars, historyVars
  <2>2. \A r \in Readers : Offered(scope[r])' = Offered(scope[r])
    BY <1>1 DEF vars, storeVars, builderVars, readerVars, Offered, DirectorySize, Referenced,
                InFlight
  <2> QED BY <2>1, <2>2 DEF Attentive, Ahead
<1>2. CASE HistoryNext
  <2> SUFFICES ASSUME NEW r \in Readers, rpc'[r] # "idle"
               PROVE  /\ bucket'[r] \in {scope'[r][1], scope'[r][2]} \ {None}
                      /\ \A o \in steady'[r] : o \in Offered(scope[r])' /\ Ahead(r, o)'
    BY DEF Attentive
  <2>1. [Next]_vars
    BY <1>2 DEF HistoryNext
  <2>2. \A o \in steady'[r] : /\ o \in Offered(scope[r])'
                              /\ scope[r] # None => o \in steady[r]
    BY <1>2, SteadyShrinks
  <2>3. ASSUME NEW s \in FastScopes, StartLookup(r, s)
        PROVE  /\ bucket'[r] \in {scope'[r][1], scope'[r][2]} \ {None}
               /\ \A o \in steady'[r] : Ahead(r, o)'
    <3>1. rpc'[r] = "dir" /\ scope'[r] = s /\ bucket'[r] = s[1]
      BY <2>3 DEF StartLookup, TypeOK, ReaderTypeOK
    <3> QED BY <3>1, BoundAssumption, BucketAssumption DEF Ahead
  <2>4. CASE EndLookup(r)
    BY <2>4 DEF EndLookup, TypeOK, ReaderTypeOK
  <2>5. CASE ReaderStep(r)
    <3>1. rpc[r] # "idle" /\ scope' = scope
      BY <2>5 DEF ReaderStep, ReadDirectory, ReadEntry, OpenBest, LeaveBucket, Exhausted
    <3>2. \A o \in steady'[r] : o \in Offered(scope[r]) /\ Ahead(r, o)
      BY <1>2, <2>2, <3>1, SteadyShrinks DEF Attentive
    <3> QED BY <2>2, <2>5, <3>1, <3>2, LookupKeepsAhead DEF Attentive
  <2>6. CASE /\ rpc'[r] = rpc[r] /\ scope'[r] = scope[r] /\ bucket'[r] = bucket[r]
             /\ entries'[r] = entries[r] /\ candidates'[r] = candidates[r]
             /\ hit'[r] = hit[r]
    BY <1>2, <2>2, <2>6, SteadyShrinks DEF Attentive, Ahead
  <2> QED BY <2>1, <2>2, <2>3, <2>4, <2>5, <2>6, ReaderMoves
<1> QED BY <1>1, <1>2

LEMMA AlwaysAttentive == HistorySpec => []Attentive
<1>1. HistoryInit => Attentive
  BY DEF HistoryInit, Init, Attentive
<1> QED BY <1>1, AttentiveStep, HistoriesOnlyWatch, TypeCorrect, PTL DEF HistorySpec

\* A Fast analysis that answers that no generation is available has overlooked
\* none that a bucket of its scope referred to rightly all along.
THEOREM LookupsOverlookNothing == HistorySpec => []SteadyGenerationIsFound
<1>1. TypeOK /\ Attentive => SteadyGenerationIsFound
  BY DEF Attentive, Ahead, SteadyGenerationIsFound
<1> QED BY <1>1, AlwaysAttentive, HistoriesOnlyWatch, TypeCorrect, PTL

\* A lookup answers at least as well as the best its bucket offered all along.
THEOREM LookupsTakeTheBest == HistorySpec => []BestSteadyWins
<1>1. Attentive /\ SteadyGenerationIsFound => BestSteadyWins
  <2> SUFFICES ASSUME Attentive, NEW r \in Readers, NEW k \in Keys,
                      rpc[r] = "hit", hit[r][2] = "partial",
                      <<bucket[r], k, "complete">> \in steady[r]
               PROVE  FALSE
    BY DEF BestSteadyWins
  <2>1. Ahead(r, <<bucket[r], k, "complete">>)
    BY DEF Attentive
  <2> QED BY <2>1 DEF Ahead
<1> QED BY <1>1, AlwaysAttentive, LookupsOverlookNothing, PTL

-----------------------------------------------------------------------------
(* Cleans *)

\* What a clean has selected or is removing is none of what it must spare.
\* CleanSparesWhatItMust is not inductive without it.
Sparing ==
  \A c \in Cleaners : /\ cpc[c] = "idle" => selected[c] = {}
                      /\ selected[c] \cap spared[c] = {}
                      /\ cpc[c] = "unlink" => target[c] \notin spared[c]

\* A step is one of cleaner c, or leaves the cleaner where it is.
LEMMA CleanerMoves ==
  ASSUME TypeOK, [Next]_vars, NEW c \in Cleaners
  PROVE  \/ Enumerate(c) \/ CleanerStep(c) \/ CrashCleaner(c)
         \/ cpc'[c] = cpc[c] /\ selected'[c] = selected[c] /\ target'[c] = target[c]
<1> USE DEF TypeOK, CleanerTypeOK, cleanerVars
<1>1. CASE CleanerNext
  <2>1. PICK x \in Cleaners : Enumerate(x) \/ CleanerStep(x) \/ CrashCleaner(x)
    BY <1>1 DEF CleanerNext
  <2>2. ASSUME x # c
        PROVE  cpc'[c] = cpc[c] /\ selected'[c] = selected[c] /\ target'[c] = target[c]
    BY <2>1, <2>2 DEF CleanerStep, Enumerate, Examine, EndScan, TakeCandidate,
         UnlinkGeneration, SkipGeneration, UnlinkReference, ReleaseCandidate, EndClean,
         CrashCleaner
  <2> QED BY <2>1, <2>2
<1>2. CASE BuilderNext \/ ReaderNext \/ MediumNext \/ UNCHANGED vars
  <2>1. UNCHANGED cleanerVars
    BY <1>2 DEF BuilderNext, BuilderStep, Analyze, OpenGeneration, ResolveGraph,
         PublishUnlocked, ReuseExisting, AcquireWriterLock, WriterBusy, RecheckUnderLock,
         PersistGeneration, ReopenGeneration, ReadReference, LinkReference,
         CompareReference, QueryGraph, RemoveTracked, ReportDrift, RunFails, RemovalFails,
         CrashBuilder, EndRun, ReaderNext, ReaderStep, StartLookup, ReadDirectory,
         ReadEntry, OpenBest, LeaveBucket, EndLookup, MediumNext, DamageGeneration, vars
  <2> QED BY <2>1
<1> QED BY <1>1, <1>2 DEF Next

LEMMA SparingStep ==
  ASSUME TypeOK, Sparing, [HistoryNext]_<<vars, historyVars>>
  PROVE  Sparing'
<1>1. CASE UNCHANGED <<vars, historyVars>>
  BY <1>1 DEF vars, cleanerVars, historyVars, Sparing
<1>2. CASE HistoryNext
  <2> SUFFICES ASSUME NEW c \in Cleaners
               PROVE  /\ cpc'[c] = "idle" => selected'[c] = {}
                      /\ selected'[c] \cap spared'[c] = {}
                      /\ cpc'[c] = "unlink" => target'[c] \notin spared'[c]
    BY DEF Sparing
  <2> USE DEF TypeOK, CleanerTypeOK
  <2>1. [Next]_vars
    BY <1>2 DEF HistoryNext
  <2>2. CASE Enumerate(c)
    <3>1. cpc[c] = "idle" /\ cpc'[c] \in {"examine", "execute"}
      BY <2>2 DEF Enumerate
    <3>2. spared'[c] \subseteq MustSpare(cpc'[c])
      BY <1>2, <3>1 DEF HistoryNext
    <3>3. CASE cpc'[c] = "examine"
      BY <2>2, <3>1, <3>3 DEF Enumerate, Sparing
    <3>4. CASE cpc'[c] = "execute"
      <4>1. selected'[c] = OverTarget
        BY <2>2, <3>4 DEF Enumerate
      <4>2. \A k \in MustSpare("execute") : k \in Keys /\ NewerThan(k) < RetainGenerations
        BY DEF MustSpare
      <4>3. \A k \in OverTarget : NewerThan(k) >= RetainGenerations
        BY DEF OverTarget
      <4> QED BY <3>2, <3>4, <4>1, <4>2, <4>3, SizesAreNumbers
    <3> QED BY <3>1, <3>3, <3>4
  <2>3. ASSUME cpc[c] # "idle"
        PROVE  /\ spared'[c] \subseteq spared[c]
               /\ \A k \in spared'[c] : k \in Keys /\ gen'[k] \in Qualities
    BY <1>2, <2>3 DEF HistoryNext
  <2>4. ASSUME cpc[c] # "idle", selected'[c] \subseteq selected[c],
               cpc'[c] = "unlink" =>
                 target'[c] \in selected[c] \/ (cpc[c] = "unlink" /\ target'[c] = target[c]),
               cpc'[c] # "idle"
        PROVE  /\ cpc'[c] = "idle" => selected'[c] = {}
               /\ selected'[c] \cap spared'[c] = {}
               /\ cpc'[c] = "unlink" => target'[c] \notin spared'[c]
    BY <2>3, <2>4 DEF Sparing
  <2>5. ASSUME NEW k \in Keys, Examine(c, k)
        PROVE  selected'[c] \cap spared'[c] = {} /\ cpc'[c] = "examine"
    <3>1. /\ cpc[c] = "examine" /\ cpc' = cpc /\ gen' = gen
          /\ selected'[c] = IF Readable(k) THEN selected[c] ELSE selected[c] \cup {k}
      BY <2>5 DEF Examine, storeVars
    <3> QED BY <2>3, <3>1 DEF Sparing, Readable
  <2>6. ASSUME NEW k \in Keys, TakeCandidate(c, k)
        PROVE  /\ cpc[c] # "idle" /\ cpc'[c] # "idle" /\ selected'[c] \subseteq selected[c]
               /\ cpc'[c] = "unlink" => target'[c] \in selected[c]
    BY <2>6 DEF TakeCandidate
  <2>7. ASSUME \/ UnlinkGeneration(c) \/ (\E f \in Slots : UnlinkReference(c, f))
               \/ EndScan(c) \/ SkipGeneration(c) \/ ReleaseCandidate(c)
        PROVE  /\ cpc[c] # "idle" /\ cpc'[c] \notin {"idle", "unlink"}
               /\ selected'[c] = selected[c]
    BY <2>7 DEF UnlinkGeneration, UnlinkReference, EndScan, SkipGeneration, ReleaseCandidate
  <2>8. CASE EndClean(c) \/ CrashCleaner(c)
    BY <2>8 DEF EndClean, CrashCleaner
  <2>9. CASE cpc'[c] = cpc[c] /\ selected'[c] = selected[c] /\ target'[c] = target[c]
    <3>1. CASE cpc[c] = "idle"
      BY <2>9, <3>1 DEF Sparing
    <3> QED BY <2>4, <2>9, <3>1
  <2> QED BY <2>1, <2>2, <2>4, <2>5, <2>6, <2>7, <2>8, <2>9, CleanerMoves DEF CleanerStep
<1> QED BY <1>1, <1>2

\* A clean removes nothing it must spare: not a file that was intact from its
\* start on when it looks for invalid ones, and not one of the newest ones.
THEOREM CleansSpare == HistorySpec => []CleanSparesWhatItMust
<1>1. HistoryInit => Sparing
  BY DEF HistoryInit, Init, Sparing
<1>2. Sparing => CleanSparesWhatItMust
  BY DEF Sparing, CleanSparesWhatItMust
<1> QED BY <1>1, <1>2, SparingStep, HistoriesOnlyWatch, TypeCorrect, PTL DEF HistorySpec

-----------------------------------------------------------------------------
(* References *)

\* Until the file of k is removed, its references and the runs that answer from
\* it say of it what it held before any damage.  Neither SameKeyAnswersAgree nor
\* ReferencesAgreeUntilRemoval is inductive without the other.
Referred(k) == \A s \in Slots : refs[k][s] # Absent => gen[k] \in {refs[k][s], Damaged}
AnswersAgree(k) ==
  \A a \in Answering(k) :
    /\ mine[a] \in Qualities
    /\ gen[k] \in {mine[a], Damaged}
    /\ \A b \in Answering(k) : mine[b] = mine[a]
    /\ \A s \in Slots : refs[k][s] \in {mine[a], Absent}
Agreeing == \A k \in Keys \ removed : Referred(k) /\ AnswersAgree(k)

\* A reference appears only where a run that is about to publish it links it.
LEMMA ReferenceSteps ==
  ASSUME TypeOK, [Next]_vars, NEW k \in Keys, NEW s \in Slots
  PROVE  \/ refs'[k][s] \in {refs[k][s], Absent}
         \/ \E b \in Builders : /\ pc[b] = "link" /\ key[b] = k /\ refs'[k][s] = mine[b]
                                /\ UNCHANGED gen
<1> USE DEF TypeOK, StoreTypeOK
<1>1. CASE UNCHANGED refs
  BY <1>1
<1>2. ASSUME NEW c \in Cleaners, NEW f \in Slots, UnlinkReference(c, f)
      PROVE  refs'[k][s] \in {refs[k][s], Absent}
  BY <1>2 DEF UnlinkReference
<1>3. ASSUME NEW b \in Builders, RemoveTracked(b)
      PROVE  refs'[k][s] \in {refs[k][s], Absent}
  BY <1>3 DEF RemoveTracked
<1>4. ASSUME NEW b \in Builders, LinkReference(b)
      PROVE  \/ refs'[k][s] = refs[k][s]
             \/ /\ pc[b] = "link" /\ key[b] = k /\ refs'[k][s] = mine[b]
                /\ UNCHANGED gen
  BY <1>4 DEF LinkReference
<1>5. \/ UNCHANGED refs
      \/ \E c \in Cleaners, f \in Slots : UnlinkReference(c, f)
      \/ \E b \in Builders : RemoveTracked(b) \/ LinkReference(b)
  <2>1. CASE ReaderNext \/ MediumNext \/ UNCHANGED vars
    BY <2>1 DEF ReaderNext, ReaderStep, StartLookup, ReadDirectory, ReadEntry, OpenBest,
         LeaveBucket, EndLookup, MediumNext, DamageGeneration, vars, storeVars
  <2>2. CASE CleanerNext
    BY <2>2 DEF CleanerNext, CleanerStep, Enumerate, Examine, EndScan, TakeCandidate,
         UnlinkGeneration, SkipGeneration, ReleaseCandidate, EndClean, CrashCleaner,
         storeVars
  <2>3. CASE BuilderNext
    BY <2>3 DEF BuilderNext, BuilderStep, Analyze, OpenGeneration, ResolveGraph,
         PublishUnlocked, ReuseExisting, AcquireWriterLock, WriterBusy, RecheckUnderLock,
         PersistGeneration, ReopenGeneration, ReadReference, CompareReference, QueryGraph,
         ReportDrift, RunFails, RemovalFails, CrashBuilder, EndRun, storeVars
  <2> QED BY <2>1, <2>2, <2>3 DEF Next
<1> QED BY <1>1, <1>2, <1>3, <1>4, <1>5

\* A run comes to answer from a file only while the file holds its graph.
LEMMA EnterAnswering ==
  ASSUME TypeOK, [Next]_vars, NEW k \in Keys, NEW b \in Answering(k)'
  PROVE  \/ b \in Answering(k) /\ mine'[b] = mine[b]
         \/ mine'[b] = gen'[k] /\ gen'[k] \in Qualities /\ refs'[k] = refs[k]
<1> USE DEF TypeOK, BuilderTypeOK, StoreTypeOK
<1> DEFINE At == {"reopen", "reference", "link", "compare", "query", "ok"}
           Fine(x) == key'[x] = k /\ pc'[x] \in At =>
                        \/ key[x] = k /\ pc[x] \in At /\ mine'[x] = mine[x]
                        \/ mine'[x] = gen'[k] /\ gen'[k] \in Qualities /\ refs'[k] = refs[k]
<1> b \in Builders /\ key'[b] = k /\ pc'[b] \in At
  BY DEF Answering
<1> SUFFICES Fine(b)
  BY DEF Answering
<1>1. CASE ReaderNext \/ MediumNext \/ CleanerNext \/ UNCHANGED vars
  <2>1. UNCHANGED <<pc, key, mine>>
    BY <1>1 DEF ReaderNext, ReaderStep, StartLookup, ReadDirectory, ReadEntry,
         OpenBest, LeaveBucket, EndLookup, MediumNext, DamageGeneration,
         CleanerNext, CleanerStep, Enumerate, Examine, EndScan, TakeCandidate,
         UnlinkGeneration, SkipGeneration, UnlinkReference, ReleaseCandidate,
         EndClean, CrashCleaner, vars, builderVars
  <2> QED BY <2>1
<1>2. CASE BuilderNext
  <2>1. PICK x \in Builders :
          \/ \E j \in Keys : Analyze(x, j)
          \/ BuilderStep(x)
          \/ RunFails(x) \/ RemovalFails(x) \/ CrashBuilder(x)
          \/ EndRun(x)
    BY <1>2 DEF BuilderNext
  <2>2. CASE x # b
    <3>1. pc'[b] = pc[b] /\ key'[b] = key[b] /\ mine'[b] = mine[b]
      BY <2>1, <2>2 DEF BuilderStep, Analyze, OpenGeneration, ResolveGraph,
           PublishUnlocked, ReuseExisting, AcquireWriterLock, WriterBusy,
           RecheckUnderLock, PersistGeneration, ReopenGeneration, ReadReference,
           LinkReference, CompareReference, QueryGraph, RemoveTracked, ReportDrift,
           RunFails, RemovalFails, CrashBuilder, EndRun, Forget, NextReference
    <3> QED BY <3>1
  <2>3. CASE x = b
    <3>1. ASSUME OpenGeneration(b) \/ ReopenGeneration(b) PROVE Fine(b)
      BY <3>1 DEF OpenGeneration, ReopenGeneration, ReaderCompleteness, Readable,
                  AfterScopeCheck, storeVars
    <3>2. ASSUME \/ ReadReference(b) \/ LinkReference(b) \/ CompareReference(b)
                 \/ QueryGraph(b)
          PROVE  Fine(b)
      BY <3>2 DEF ReadReference, LinkReference, CompareReference, QueryGraph
    <3>3. ASSUME ReuseExisting(b) PROVE Fine(b)
      <4>1. mine[b] \in Qualities
        BY <3>3 DEF ReuseExisting, Publishing, Locked
      <4> QED BY <3>3, <4>1 DEF ReuseExisting, SameRows, AfterScopeCheck
    <3>4. ASSUME PersistGeneration(b) PROVE Fine(b)
      <4>1. mine[b] \in Qualities /\ UNCHANGED <<mine, key, refs>>
        BY <3>4 DEF PersistGeneration, Publishing, Locked
      <4>2. CASE gen[key[b]] # Absent
        BY <3>4, <4>2 DEF PersistGeneration
      <4>3. CASE gen[key[b]] = Absent
        BY <3>4, <4>1, <4>3 DEF PersistGeneration, Staged
      <4> QED BY <4>2, <4>3
    <3>5. ASSUME NEW j \in Keys, Analyze(b, j) PROVE pc'[b] \notin At
      BY <3>5 DEF Analyze
    <3>6. ASSUME \/ ResolveGraph(b) \/ PublishUnlocked(b) \/ AcquireWriterLock(b)
                 \/ WriterBusy(b) \/ RecheckUnderLock(b)
          PROVE  pc'[b] \notin At
      BY <3>6 DEF ResolveGraph, PublishUnlocked, AcquireWriterLock, WriterBusy,
           RecheckUnderLock, AfterScopeCheck
    <3>7. ASSUME \/ RemoveTracked(b) \/ ReportDrift(b) \/ RunFails(b)
                 \/ RemovalFails(b) \/ CrashBuilder(b) \/ EndRun(b)
          PROVE  pc'[b] \notin At
      BY <3>7 DEF RemoveTracked, ReportDrift, RunFails, RemovalFails, CrashBuilder,
           EndRun, Forget
    <3> QED BY <2>1, <2>3, <3>1, <3>2, <3>3, <3>4, <3>5, <3>6, <3>7 DEF BuilderStep
  <2> QED BY <2>2, <2>3
<1> QED BY <1>1, <1>2 DEF Next

LEMMA AgreeingStep ==
  ASSUME "removed" \in Recorded, TypeOK, TypeOK', Agreeing,
         [HistoryNext]_<<vars, historyVars>>
  PROVE  Agreeing'
<1>1. CASE UNCHANGED <<vars, historyVars>>
  BY <1>1 DEF vars, storeVars, builderVars, historyVars, Agreeing, Referred, AnswersAgree,
              Answering
<1>2. CASE HistoryNext
  <2> SUFFICES ASSUME NEW k \in Keys, k \notin removed'
               PROVE  Referred(k)' /\ AnswersAgree(k)'
    BY DEF Agreeing
  <2>1. [Next]_vars
    BY <1>2 DEF HistoryNext
  <2>2. CASE Forgotten(k)'
    BY <2>2 DEF Forgotten, Referred, AnswersAgree, Answering
  <2>3. CASE ~Forgotten(k)'
    <3>1. k \notin removed /\ ~(gen[k] # Absent /\ gen'[k] = Absent)
      BY <1>2, <2>3 DEF HistoryNext
    <3>2. Referred(k) /\ AnswersAgree(k)
      BY <3>1 DEF Agreeing
    <3>3. \A b \in Builders : pc[b] = "link" => mine[b] \in Qualities /\ key[b] \in Keys
      BY DEF TypeOK, BuilderTypeOK, Publishing
    <3>4. Absent \notin Qualities /\ Damaged \notin Qualities /\ Absent # Damaged
      BY QualitiesAssumption DEF Absent, Damaged
    <3>5. gen[k] # Absent => gen'[k] \in {gen[k], Damaged}
      <4>1. CASE \E b \in Builders : /\ pc[b] = "persist" /\ gen[key[b]] = Absent
                                     /\ gen' = [gen EXCEPT ![key[b]] = mine[b]]
        BY <4>1 DEF TypeOK, StoreTypeOK
      <4>2. CASE UNCHANGED gen
        BY <4>2
      <4>3. CASE \E j \in Keys : gen' = [gen EXCEPT ![j] = Absent]
        BY <3>1, <4>3 DEF TypeOK, StoreTypeOK
      <4>4. CASE \E j \in Keys : Readable(j) /\ gen' = [gen EXCEPT ![j] = Damaged]
        BY <4>4 DEF TypeOK, StoreTypeOK
      <4> QED BY <2>1, <4>1, <4>2, <4>3, <4>4, GenerationSteps
    <3>6. ASSUME NEW s \in Slots
          PROVE  \/ refs'[k][s] \in {refs[k][s], Absent}
                 \/ \E b \in Answering(k) : refs'[k][s] = mine[b] /\ UNCHANGED gen
      BY <2>1, ReferenceSteps DEF Answering
    <3>7. \A s \in Slots : refs[k][s] \in Qualities \cup {Absent}
      BY DEF TypeOK, StoreTypeOK
    <3>8. Referred(k)'
      BY <3>2, <3>4, <3>5, <3>6, <3>7 DEF Referred, AnswersAgree
    <3>9. \A b \in Answering(k)' :
            \/ b \in Answering(k) /\ mine'[b] = mine[b]
            \/ mine'[b] = gen'[k] /\ gen'[k] \in Qualities /\ refs'[k] = refs[k]
      BY <2>1, EnterAnswering
    <3>10. ASSUME NEW a \in Answering(k)' 
           PROVE  mine'[a] \in Qualities /\ gen'[k] \in {mine'[a], Damaged}
      BY <3>2, <3>4, <3>5, <3>9 DEF AnswersAgree
    <3>11. ASSUME NEW a \in Answering(k)', NEW b \in Answering(k)'
           PROVE  mine'[b] = mine'[a]
      <4>1. CASE mine'[a] = gen'[k] /\ gen'[k] \in Qualities
        BY <3>4, <3>10, <4>1
      <4>2. CASE mine'[b] = gen'[k] /\ gen'[k] \in Qualities
        BY <3>4, <3>10, <4>2
      <4>3. CASE a \in Answering(k) /\ mine'[a] = mine[a] /\ b \in Answering(k) /\ mine'[b] = mine[b]
        BY <3>2, <4>3 DEF AnswersAgree
      <4> QED BY <3>9, <4>1, <4>2, <4>3
    <3>12. ASSUME NEW a \in Answering(k)', NEW s \in Slots
           PROVE  refs'[k][s] \in {mine'[a], Absent}
      <4>1. CASE a \in Answering(k) /\ mine'[a] = mine[a]
        BY <3>2, <3>6, <4>1 DEF AnswersAgree
      <4>2. CASE mine'[a] = gen'[k] /\ gen'[k] \in Qualities /\ refs'[k] = refs[k]
        BY <3>4, <3>8, <4>2 DEF Referred
      <4> QED BY <3>9, <4>1, <4>2
    <3>13. AnswersAgree(k)'
      BY <3>10, <3>11, <3>12 DEF AnswersAgree
    <3> QED BY <3>8, <3>13
  <2> QED BY <2>2, <2>3
<1> QED BY <1>1, <1>2

LEMMA AlwaysAgreeing ==
  ASSUME "removed" \in Recorded
  PROVE  HistorySpec => []Agreeing
<1>1. HistoryInit => Agreeing
  BY DEF HistoryInit, Init, Agreeing, Referred, AnswersAgree, Answering
<1> QED BY <1>1, AgreeingStep, HistoriesOnlyWatch, TypeCorrect, PTL DEF HistorySpec

\* Until its file is removed a generation and its references agree on its
\* completeness, whichever run published which; of a run that records removals.
THEOREM ReferencesAgree ==
  ASSUME "removed" \in Recorded
  PROVE  HistorySpec => []ReferencesAgreeUntilRemoval
<1>1. Agreeing => ReferencesAgreeUntilRemoval
  BY DEF Agreeing, Referred, ReferencesAgreeUntilRemoval
<1> QED BY <1>1, AlwaysAgreeing, PTL

\* Until the first published file of a key is removed every run at the key that
\* is not refused answers from it, and every reference says what it holds, even
\* where budgets give the runs differing graphs or the file is damaged later.
THEOREM AnswersOfOneKeyAgree ==
  ASSUME "removed" \in Recorded
  PROVE  HistorySpec => []SameKeyAnswersAgree
<1>1. Agreeing => SameKeyAnswersAgree
  BY DEF Agreeing, AnswersAgree, SameKeyAnswersAgree
<1> QED BY <1>1, AlwaysAgreeing, PTL
=============================================================================
