----------------------- MODULE StaticOrchestrationProofs -----------------------
(***************************************************************************)
(* What StaticOrchestration guarantees for any number of profiles, any     *)
(* budgets and any amount of output: its types, the order of its entries,  *)
(* that accepted output is whole although two threads race the caller and  *)
(* a process may be left behind, that what is released is of one state of  *)
(* the repository, and that what was stored is what was charged.           *)
(***************************************************************************)
EXTENDS StaticOrchestration, SequenceFolds, TLAPS

-----------------------------------------------------------------------------
\* The assumption, constant by constant.
LEMMA ConstantTypes ==
    /\ Profiles \in Nat /\ Profiles > 0
    /\ TotalTime \in Nat /\ TotalOutput \in Nat
    /\ ProfileTime \in Nat /\ ProfileOutput \in Nat /\ ProfileOutput > 0
    /\ ShutdownTime \in Nat /\ MaxWrites \in Nat /\ MaxElapsed \in Nat /\ MaxEdits \in Nat
<1>1. {Profiles, TotalTime, TotalOutput, ProfileTime, ProfileOutput} \subseteq Nat \ {0}
  BY OrchestrationAssumption
<1>2. {ShutdownTime, MaxWrites, MaxEdits} \subseteq Nat /\ MaxElapsed \in Nat
  BY OrchestrationAssumption
<1> QED BY <1>1, <1>2

-----------------------------------------------------------------------------
(* Types *)

Entry == [kind : {"executed", "invalidated", "not-run"},
          status : Statuses \cup {"snapshot-mutated", "shared-integrity-failure", "budget-exhausted"},
          out : Nat]

\* What the values are made of, which TypeOK leaves to the reader; no pipe
\* holds more than was written, and what is charged as a failure is a status.
Shapes ==
    /\ runs \in Seq(Entry)
    /\ \A k \in DOMAIN runs : runs[k].kind = "executed" => runs[k].status \in Statuses
    /\ left \in [time : Nat, output : Nat]
    /\ limits \in [time : Nat, output : Nat]
    /\ opened \in [state : Nat, snapshot : Nat]
    /\ \A s \in Streams : pipe[s] <= writes[s]
    /\ phase = "failure" => forced \in Statuses

Typed == TypeOK /\ Shapes

\* An entry appended to entries makes entries.
LEMMA EntriesGrow ==
    ASSUME Shapes, NEW e \in Entry, e.kind = "executed" => e.status \in Statuses,
           runs' = Append(runs, e)
    PROVE  /\ runs' \in Seq(Entry)
           /\ \A k \in DOMAIN runs' : runs'[k].kind = "executed" => runs'[k].status \in Statuses
<1>1. runs \in Seq(Entry) /\ runs' \in Seq(Entry)
  BY DEF Shapes
<1>2. /\ Len(runs') = Len(runs) + 1 /\ Len(runs) \in Nat
      /\ DOMAIN runs' = 1..Len(runs') /\ DOMAIN runs = 1..Len(runs)
  BY <1>1
<1>3. ASSUME NEW k \in DOMAIN runs', runs'[k].kind = "executed"
      PROVE  runs'[k].status \in Statuses
  <2>1. CASE k = Len(runs) + 1
    BY <1>1, <1>3, <2>1
  <2>2. CASE k # Len(runs) + 1
    <3>1. k \in DOMAIN runs /\ runs'[k] = runs[k]
      BY <1>1, <1>2, <2>2
    <3> QED BY <1>3, <3>1 DEF Shapes
  <2> QED BY <2>1, <2>2
<1> QED BY <1>1, <1>3

\* What is appended is an entry.
LEMMA EntryKinds ==
    ASSUME Typed
    PROVE  /\ Invalidated \in Entry /\ Invalidated.kind # "executed"
           /\ \A r \in {"shared-integrity-failure", "budget-exhausted"} :
                 NotRun(r) \in Entry /\ NotRun(r).kind # "executed"
           /\ Sum2(saved) \in Nat
           /\ \A q \in Statuses : Executed(q, Sum2(saved)) \in Entry
                                  /\ Executed(q, Sum2(saved)).status \in Statuses
<1>1. /\ saved["stdout"] \in Nat /\ saved["stderr"] \in Nat
  BY ConstantTypes DEF Typed, TypeOK, Streams
<1> QED BY <1>1 DEF Invalidated, NotRun, Executed, Entry, Statuses, Sum2

\* Pipes, captures and their ends before a process runs.
LEMMA NothingTyped ==
    /\ Nothing \in [Streams -> 0..MaxWrites]
    /\ Nothing \in [Streams -> 0..ProfileOutput + 1]
    /\ \A s \in Streams : Nothing[s] = 0
    /\ [s \in Streams |-> FALSE] \in [Streams -> BOOLEAN]
  BY ConstantTypes DEF Nothing

\* Flags are true or false: a lemma of its own, for the other types are numbers.
LEMMA FlagsKept ==
    /\ Init => Flags
    /\ Flags /\ [Next]_vars => Flags'
<1> USE DEF Flags
<1>1. Init => Flags
  BY DEF Init
<1>2. ASSUME Flags, [Next]_vars PROVE Flags'
  <2>1. CASE UNCHANGED vars
    BY <1>2, <2>1 DEF vars, processVars, captureVars
  <2>2. CASE Start \/ StartRefused \/ CheckRefused \/ Collect \/ CollectFailure
    <3>1. CASE Start
      <4>1. exit' = TRUE /\ overflow' = FALSE /\ stray' = stray
        BY <3>1 DEF Start
      <4> QED BY <1>2, <4>1
    <3>2. CASE StartRefused \/ CheckRefused \/ Collect \/ CollectFailure
      <4>1. Dropped
        BY <3>2 DEF StartRefused, CheckRefused, Collect, CollectFailure
      <4> QED BY <1>2, <4>1 DEF Dropped
    <3> QED BY <2>2, <3>1, <3>2
  <2>5. CASE Poll \/ Join \/ Check \/ CollectFails
    BY <1>2, <2>5 DEF Poll, Join, Check, CollectFails, processVars, captureVars
  <2>6. CASE \/ Prepare \/ Open \/ Materialize \/ MaterializeFails \/ Select
             \/ Revalidate \/ Compare
    <3>1. UNCHANGED <<processVars, captureVars>>
      BY <2>6 DEF Prepare, Open, Materialize, MaterializeFails, Select, Revalidate, Compare
    <3> QED BY <1>2, <3>1 DEF processVars, captureVars
  <2>3. ASSUME NEW s \in Streams, Capture(s) \/ CaptureEnds(s) \/ Writes(s) PROVE Flags'
    BY <1>2, <2>3 DEF Capture, CaptureEnds, Writes, processVars, captureVars
  <2>4. CASE Exits \/ Strays \/ Disturbs \/ Edits \/ Replaces \/ Tick
    BY <1>2, <2>4 DEF Exits, Strays, Disturbs, Edits, Replaces, Tick, processVars, captureVars
  <2> QED BY <1>2, <2>1, <2>2, <2>3, <2>4, <2>5, <2>6 DEF Next, Caller
<1> QED BY <1>1, <1>2

\* Initially every variable has its type.
LEMMA InitTyped == Init => Typed
<1> SUFFICES ASSUME Init PROVE Typed
  OBVIOUS
<1>1. <<>> \in Seq(Entry) /\ DOMAIN <<>> = {}
  OBVIOUS
<1>2. TypeOK
  BY <1>1, ConstantTypes, NothingTyped, FlagsKept DEF Init, TypeOK
<1>3. Shapes
  BY <1>1, ConstantTypes, NothingTyped DEF Init, Shapes
<1> QED BY <1>2, <1>3 DEF Typed

\* The run and its capture are dropped, with an entry or without.
LEMMA DroppedTyped ==
    ASSUME Typed, Flags', Dropped, UNCHANGED <<left, opened, outside>>,
           phase' \in {"select", "error"},
           \/ UNCHANGED runs
           \/ \E e \in Entry : /\ e.kind = "executed" => e.status \in Statuses
                               /\ runs' = Append(runs, e)
    PROVE  Typed'
<1>1. /\ runs' \in Seq(Entry)
      /\ \A k \in DOMAIN runs' : runs'[k].kind = "executed" => runs'[k].status \in Statuses
  BY EntriesGrow DEF Typed, Shapes
<1>2. TypeOK'
  BY <1>1, ConstantTypes, NothingTyped DEF Typed, TypeOK, Dropped, outside
<1>3. Shapes'
  BY <1>1, ConstantTypes, NothingTyped DEF Typed, Shapes, Dropped, outside
<1> QED BY <1>2, <1>3 DEF Typed

\* The steps of the caller outside a run keep the types.
LEMMA PlanTyped ==
    ASSUME Typed, Flags',
           \/ Prepare \/ Open \/ Materialize \/ MaterializeFails \/ Select
           \/ Revalidate \/ Compare
    PROVE  Typed'
<1> USE ConstantTypes DEF Goes
<1>1. CASE Prepare \/ MaterializeFails \/ Revalidate \/ Compare
  BY <1>1 DEF Prepare, MaterializeFails, Revalidate, Compare, Typed, TypeOK, Shapes,
              processVars, captureVars, clockVars, outside
<1>2. CASE Open \/ Materialize
  <2>1. /\ opened' \in [state : Nat, snapshot : Nat]
        /\ opened'.state \in 0..MaxEdits /\ opened'.snapshot \in 0..MaxEdits
    <3>1. /\ opened \in [state : Nat, snapshot : Nat] /\ repo \in 0..MaxEdits
          /\ opened.state \in 0..MaxEdits /\ opened.snapshot \in 0..MaxEdits
      BY DEF Typed, TypeOK, Shapes
    <3>2. \/ opened' = [opened EXCEPT !.state = repo]
          \/ opened' = [opened EXCEPT !.snapshot = repo]
      BY <1>2 DEF Open, Materialize
    <3> QED BY <3>1, <3>2
  <2>2. /\ phase' \in {"materialize", "select", "error"}
        /\ UNCHANGED <<runs, left, limits, forced, processVars, captureVars, clockVars, outside>>
    BY <1>2 DEF Open, Materialize
  <2> QED BY <2>1, <2>2 DEF Typed, TypeOK, Shapes, processVars, captureVars, clockVars, outside
<1>3. CASE Select
  <2>1. /\ limits' \in [time : Nat, output : Nat]
        /\ limits'.time \in 0..ProfileTime /\ limits'.output \in 0..2 * ProfileOutput
    <3>1. EffectiveLimits \in [time : Nat, output : Nat]
          /\ EffectiveLimits.time \in 0..ProfileTime
          /\ EffectiveLimits.output \in 0..2 * ProfileOutput
      BY DEF EffectiveLimits, Smaller, Typed, TypeOK, Shapes
    <3> QED BY <1>3, <3>1 DEF Select, Typed, TypeOK, Shapes
  <2>2. /\ runs' \in Seq(Entry)
        /\ \A k \in DOMAIN runs' : runs'[k].kind = "executed" => runs'[k].status \in Statuses
    <3>1. \/ UNCHANGED runs
          \/ runs' = Append(runs, NotRun("shared-integrity-failure"))
          \/ runs' = Append(runs, NotRun("budget-exhausted"))
      BY <1>3 DEF Select
    <3>2. \A r \in {"shared-integrity-failure", "budget-exhausted"} :
            NotRun(r) \in Entry /\ NotRun(r).kind # "executed"
      BY EntryKinds
    <3> QED BY <3>1, <3>2, EntriesGrow DEF Typed, Shapes
  <2>3. phase' \in {"select", "start"}
    BY <1>3 DEF Select
  <2>4. UNCHANGED <<left, forced, opened, processVars, captureVars, clockVars, outside>>
    BY <1>3 DEF Select
  <2>5. TypeOK'
    BY <2>1, <2>2, <2>3, <2>4
       DEF Typed, TypeOK, processVars, captureVars, clockVars, outside
  <2>6. Shapes'
    BY <2>1, <2>2, <2>3, <2>4 DEF Typed, Shapes, processVars
  <2> QED BY <2>5, <2>6 DEF Typed
<1> QED BY <1>1, <1>2, <1>3

\* The steps of the caller in a run keep the types.
LEMMA RunTyped ==
    ASSUME Typed, Flags',
           \/ Start \/ StartRefused \/ Poll \/ Join \/ Check \/ CheckRefused
           \/ Collect \/ CollectFails \/ CollectFailure
    PROVE  Typed'
<1> USE ConstantTypes DEF Goes
<1>1. CASE Start
  <2>1. limits.output \in 0..2 * ProfileOutput
    BY DEF Typed, TypeOK
  <2>2. TypeOK'
    BY <1>1, <2>1, NothingTyped DEF Start, Typed, TypeOK, outside
  <2>3. Shapes'
    BY <1>1, NothingTyped DEF Start, Typed, Shapes, outside
  <2> QED BY <2>2, <2>3 DEF Typed
<1>2. CASE StartRefused \/ CheckRefused
  <2>1. /\ Dropped /\ UNCHANGED <<left, opened, outside>>
        /\ phase' \in {"select", "error"}
        /\ UNCHANGED runs \/ runs' = Append(runs, Invalidated)
    BY <1>2 DEF StartRefused, CheckRefused, Disturbed
  <2> QED BY <2>1, DroppedTyped, EntryKinds
<1>3. CASE Collect \/ CollectFailure
  <2>1. /\ Dropped /\ UNCHANGED <<left, opened, outside>>
        /\ phase' \in {"select", "error"}
    BY <1>3 DEF Collect, CollectFailure
  <2>2. UNCHANGED runs \/ \E q \in Statuses : runs' = Append(runs, Executed(q, Sum2(saved)))
    BY <1>3 DEF Collect, CollectFailure, Typed, Shapes, Statuses
  <2> QED BY <2>1, <2>2, DroppedTyped, EntryKinds
<1>4. CASE Poll \/ Join \/ CollectFails
  <2>1. /\ UNCHANGED <<runs, left, limits, opened, pipe, writes, captureVars, elapsed, outside>>
        /\ child' \in {child, "reaped"} /\ waited' \in {0, waited}
        /\ forced' \in {forced, "output-limit", "timeout", "invalid-output"}
        /\ phase' \in {"stdout", "stderr", "check", "error", "failure"}
        /\ phase' = "failure" => forced' \in Statuses
    BY <1>4 DEF Poll, Join, Joined, CollectFails, Streams, Statuses, processVars, clockVars
  <2>2. TypeOK'
    BY <2>1 DEF Typed, TypeOK, captureVars, outside, Statuses
  <2>3. Shapes'
    BY <2>1 DEF Typed, Shapes
  <2> QED BY <2>2, <2>3 DEF Typed
<1>5. CASE Check
  <2>1. forced' \in Statuses
    BY <1>5 DEF Check, Outcome, Final, Typed, TypeOK, Statuses
  <2>2. /\ left' \in [time : Nat, output : Nat]
        /\ left'.time \in 0..TotalTime /\ left'.output \in 0..TotalOutput
    <3>1. /\ left.time \in 0..TotalTime /\ left.output \in 0..TotalOutput /\ elapsed \in Nat
      BY DEF Typed, TypeOK
    <3>2. Sum2(saved) \in Nat
      BY EntryKinds
    <3> QED BY <1>5, <3>1, <3>2 DEF Check, Charge, Less
  <2>3. /\ phase' \in {"collect", "failure"}
        /\ UNCHANGED <<runs, limits, opened, processVars, captureVars, clockVars, outside>>
    BY <1>5 DEF Check
  <2> QED BY <2>1, <2>2, <2>3
          DEF Typed, TypeOK, Shapes, processVars, captureVars, clockVars, outside
<1> QED BY <1>1, <1>2, <1>3, <1>4, <1>5

\* A capture thread saves no more than there is room for.
LEMMA CaptureTyped ==
    ASSUME Typed, Flags', NEW s \in Streams, Capture(s)
    PROVE  Typed'
<1> DEFINE kept == Smaller(Smaller(1, ProfileOutput + 1 - saved[s]), room)
<1>1. /\ saved[s] \in 0..ProfileOutput + 1 /\ room \in 0..2 * ProfileOutput
      /\ pipe[s] \in 0..MaxWrites /\ pipe[s] > 0
  BY DEF Capture, Typed, TypeOK
<1>2. /\ saved[s] + kept \in 0..ProfileOutput + 1
      /\ room - kept \in 0..2 * ProfileOutput
  BY <1>1, ConstantTypes DEF Smaller
<1>3. /\ saved' = [saved EXCEPT ![s] = @ + kept] /\ room' = room - kept
      /\ pipe' = [pipe EXCEPT ![s] = @ - 1]
      /\ UNCHANGED <<callerVars, child, exit, stray, writes, ended, clockVars, outside>>
  BY DEF Capture
<1> HIDE DEF kept
<1>4. /\ saved' \in [Streams -> 0..ProfileOutput + 1]
      /\ pipe' \in [Streams -> 0..MaxWrites]
      /\ \A t \in Streams : pipe'[t] <= writes[t]
  <2>1. /\ saved \in [Streams -> 0..ProfileOutput + 1] /\ pipe \in [Streams -> 0..MaxWrites]
        /\ writes \in [Streams -> 0..MaxWrites]
        /\ \A t \in Streams : pipe[t] <= writes[t]
    BY DEF Typed, TypeOK, Shapes
  <2>2. saved' \in [Streams -> 0..ProfileOutput + 1]
    BY <1>2, <1>3, <2>1
  <2>3. pipe[s] - 1 \in 0..MaxWrites
    BY <1>1, ConstantTypes
  <2>4. pipe' \in [Streams -> 0..MaxWrites]
    BY <1>3, <2>1, <2>3
  <2>5. ASSUME NEW t \in Streams PROVE pipe'[t] <= writes[t]
    <3>1. pipe'[t] = IF t = s THEN pipe[s] - 1 ELSE pipe[t]
      BY <1>3, <2>1
    <3>2. pipe[t] \in Int /\ writes[t] \in Int /\ pipe[t] <= writes[t]
      BY <2>1
    <3> QED BY <3>1, <3>2
  <2> QED BY <2>2, <2>4, <2>5
<1>5. TypeOK'
  BY <1>2, <1>3, <1>4 DEF Typed, TypeOK, callerVars, clockVars, outside
<1>6. Shapes'
  BY <1>3, <1>4 DEF Typed, Shapes, callerVars
<1> QED BY <1>5, <1>6 DEF Typed

\* What the analyzer, what it left behind, the user and the clock do.
LEMMA OutsideTyped ==
    ASSUME Typed, Flags',
           \/ \E s \in Streams : CaptureEnds(s) \/ Writes(s)
           \/ Exits \/ Strays \/ Disturbs \/ Edits \/ Replaces \/ Tick
    PROVE  Typed'
<1> USE ConstantTypes
<1>1. ASSUME NEW s \in Streams, CaptureEnds(s) PROVE Typed'
  <2>1. ended' \in [Streams -> BOOLEAN]
    <3>1. ended \in [Streams -> BOOLEAN] /\ ended' = [ended EXCEPT ![s] = TRUE]
      BY <1>1 DEF CaptureEnds, Typed, TypeOK
    <3> QED BY <3>1
  <2>2. UNCHANGED <<callerVars, processVars, saved, room, overflow, clockVars, outside>>
    BY <1>1 DEF CaptureEnds
  <2> QED BY <2>1, <2>2 DEF Typed, TypeOK, Shapes, callerVars, processVars, clockVars, outside
<1>2. ASSUME NEW s \in Streams, Writes(s) PROVE Typed'
  <2>1. /\ writes["stdout"] \in 0..MaxWrites /\ writes["stderr"] \in 0..MaxWrites
        /\ writes["stdout"] + writes["stderr"] < MaxWrites
        /\ s \in {"stdout", "stderr"}
    BY <1>2 DEF Writes, Sum2, Typed, TypeOK, Streams
  <2>2. writes[s] + 1 \in 0..MaxWrites /\ pipe[s] + 1 \in 0..MaxWrites
    <3>1. writes[s] + 1 \in 0..MaxWrites
      BY <2>1
    <3>2. pipe[s] \in Nat /\ pipe[s] <= writes[s]
      BY DEF Typed, TypeOK, Shapes
    <3> QED BY <2>1, <3>1, <3>2
  <2>3. /\ writes' \in [Streams -> 0..MaxWrites] /\ pipe' \in [Streams -> 0..MaxWrites]
        /\ \A t \in Streams : pipe'[t] <= writes'[t]
    <3>1. /\ pipe \in [Streams -> 0..MaxWrites] /\ writes \in [Streams -> 0..MaxWrites]
          /\ \A t \in Streams : pipe[t] <= writes[t]
      BY DEF Typed, TypeOK, Shapes
    <3>2. /\ writes' = [writes EXCEPT ![s] = @ + 1] /\ pipe' = [pipe EXCEPT ![s] = @ + 1]
      BY <1>2 DEF Writes
    <3>3. writes' \in [Streams -> 0..MaxWrites]
      BY <2>2, <3>1, <3>2
    <3>4. pipe' \in [Streams -> 0..MaxWrites]
      BY <2>2, <3>1, <3>2
    <3>5. ASSUME NEW t \in Streams PROVE pipe'[t] <= writes'[t]
      <4>1. /\ pipe'[t] = (IF t = s THEN pipe[s] + 1 ELSE pipe[t])
            /\ writes'[t] = (IF t = s THEN writes[s] + 1 ELSE writes[t])
        BY <3>1, <3>2
      <4>2. pipe[t] \in Int /\ writes[t] \in Int /\ pipe[t] <= writes[t]
        BY <3>1
      <4> QED BY <4>1, <4>2
    <3> QED BY <3>3, <3>4, <3>5
  <2>4. UNCHANGED <<callerVars, child, exit, stray, captureVars, clockVars, outside>>
    BY <1>2 DEF Writes
  <2> QED BY <2>3, <2>4 DEF Typed, TypeOK, Shapes, callerVars, captureVars, clockVars, outside
<1>3. CASE Exits \/ Strays \/ Disturbs
  <2>1. /\ child' \in {child, "dead"} /\ snapshot' \in {snapshot, "changed", "unreadable"}
        /\ UNCHANGED <<callerVars, pipe, writes, captureVars, clockVars, repo, plan>>
    BY <1>3 DEF Exits, Strays, Disturbs, processVars, outside
  <2> QED BY <2>1 DEF Typed, TypeOK, Shapes, callerVars, captureVars, clockVars
<1>4. CASE Edits \/ Replaces
  <2>1. /\ repo' \in 0..MaxEdits /\ plan' \in 0..1
        /\ UNCHANGED <<callerVars, processVars, captureVars, clockVars, snapshot>>
    <3>1. repo \in 0..MaxEdits /\ plan \in 0..1
      BY DEF Typed, TypeOK
    <3>2. CASE Edits
      BY <3>1, <3>2 DEF Edits
    <3>3. CASE Replaces
      BY <3>1, <3>3 DEF Replaces
    <3> QED BY <1>4, <3>2, <3>3
  <2> QED BY <2>1 DEF Typed, TypeOK, Shapes, callerVars, processVars, captureVars, clockVars
<1>5. CASE Tick
  <2>1. /\ elapsed' \in 0..MaxElapsed /\ waited' \in 0..ShutdownTime
        /\ UNCHANGED <<callerVars, processVars, captureVars, outside>>
    BY <1>5 DEF Tick, Smaller, Typed, TypeOK
  <2> QED BY <2>1 DEF Typed, TypeOK, Shapes, callerVars, processVars, captureVars, outside
<1> QED BY <1>1, <1>2, <1>3, <1>4, <1>5

\* Every step keeps the types.
LEMMA NextTyped == Typed /\ [Next]_vars => Typed'
<1> SUFFICES ASSUME Typed, [Next]_vars PROVE Typed'
  OBVIOUS
<1>1. Flags'
  BY FlagsKept DEF Typed, TypeOK
<1>2. CASE UNCHANGED vars
  BY <1>1, <1>2
     DEF vars, callerVars, processVars, captureVars, clockVars, outside, Typed, TypeOK, Shapes
<1>3. CASE Ended /\ UNCHANGED vars
  BY <1>2, <1>3
<1> QED BY <1>1, <1>2, <1>3, PlanTyped, RunTyped, CaptureTyped, OutsideTyped DEF Next, Caller

\* Every variable keeps its type, for any numbers of profiles, budgets and writes.
THEOREM OrchestrationTypeCorrect == Spec => []TypeOK
<1> QED BY InitTyped, NextTyped, PTL DEF Spec, Typed

\* Types hold throughout; the other proofs rest on this.
LEMMA AlwaysTyped == Spec => []Typed
<1> QED BY InitTyped, NextTyped, PTL DEF Spec

-----------------------------------------------------------------------------
(* The entries *)

InRun == {"start", "running", "stdout", "stderr", "check", "collect", "failure"}

\* While a profile runs nothing before it was disturbed or refused, so that its own
\* entry follows from none; and a mutation ends all, a spent budget refuses all.
EntriesAccounted ==
    /\ phase \in InRun => /\ Len(runs) < Profiles
                          /\ ~Has("snapshot-mutated") /\ ~Has("budget-exhausted")
    /\ Len(runs) <= Profiles
    /\ phase \in {"compare", "released"} => Len(runs) = Profiles
    /\ ~(Has("snapshot-mutated") /\ Has("budget-exhausted"))
    /\ \A j, k \in DOMAIN runs : j < k =>
          /\ runs[j].status = "snapshot-mutated" => runs[k].status = "shared-integrity-failure"
          /\ runs[j].status = "budget-exhausted" => runs[k].status = "budget-exhausted"

\* An entry that may follow those before it keeps them in order.
LEMMA EntryFollows ==
    ASSUME Typed, EntriesAccounted, Len(runs) < Profiles, NEW e \in Entry,
           runs' = Append(runs, e),
           Has("snapshot-mutated") => e.status = "shared-integrity-failure",
           Has("budget-exhausted") => e.status = "budget-exhausted",
           phase' \in {"select", "error"}
    PROVE  EntriesAccounted'
<1>1. /\ runs \in Seq(Entry) /\ Len(runs) \in Nat /\ DOMAIN runs = 1..Len(runs)
      /\ Len(runs') = Len(runs) + 1 /\ DOMAIN runs' = 1..Len(runs) + 1
      /\ runs'[Len(runs) + 1] = e
      /\ \A k \in DOMAIN runs : runs'[k] = runs[k]
  BY DEF Typed, Shapes
<1>2. Profiles \in Nat
  BY ConstantTypes
<1>3. \A q : Has(q)' <=> Has(q) \/ e.status = q
  <2> SUFFICES ASSUME NEW q PROVE Has(q)' <=> Has(q) \/ e.status = q
    OBVIOUS
  <2>1. Has(q) => Has(q)'
    BY <1>1 DEF Has
  <2>2. e.status = q => Has(q)'
    BY <1>1 DEF Has
  <2>3. Has(q)' => Has(q) \/ e.status = q
    <3> SUFFICES ASSUME NEW k \in DOMAIN runs', runs'[k].status = q
                 PROVE  Has(q) \/ e.status = q
      BY DEF Has
    <3>1. k \in DOMAIN runs \/ k = Len(runs) + 1
      BY <1>1
    <3> QED BY <1>1, <3>1 DEF Has
  <2> QED BY <2>1, <2>2, <2>3
<1>4. ~(Has("snapshot-mutated") /\ Has("budget-exhausted"))'
  BY <1>3 DEF EntriesAccounted
<1>5. ASSUME NEW j \in DOMAIN runs', NEW k \in DOMAIN runs', j < k
      PROVE  /\ runs'[j].status = "snapshot-mutated" => runs'[k].status = "shared-integrity-failure"
             /\ runs'[j].status = "budget-exhausted" => runs'[k].status = "budget-exhausted"
  <2>1. j \in DOMAIN runs /\ (k \in DOMAIN runs \/ k = Len(runs) + 1)
    BY <1>1, <1>5
  <2>2. CASE k \in DOMAIN runs
    BY <1>1, <1>5, <2>1, <2>2 DEF EntriesAccounted
  <2>3. CASE k = Len(runs) + 1
    BY <1>1, <2>1, <2>3 DEF Has
  <2> QED BY <2>1, <2>2, <2>3
<1>6. Len(runs') <= Profiles
  BY <1>1, <1>2
<1>7. phase' \notin InRun /\ phase' \notin {"compare", "released"}
  BY DEF InRun
<1> QED BY <1>4, <1>5, <1>6, <1>7 DEF EntriesAccounted

\* Every step keeps the entries in order.
LEMMA NextAccounted == Typed /\ EntriesAccounted /\ [Next]_vars => EntriesAccounted'
<1> SUFFICES ASSUME Typed, EntriesAccounted, [Next]_vars PROVE EntriesAccounted'
  OBVIOUS
<1>1. ASSUME UNCHANGED runs,
             \/ phase' = phase
             \/ phase \in InRun /\ phase' \in InRun
             \/ phase' \in {"open", "materialize", "select", "error"}
      PROVE  EntriesAccounted'
  BY <1>1 DEF EntriesAccounted, Has, InRun
<1>2. CASE Prepare \/ Open \/ Materialize \/ MaterializeFails
  BY <1>1, <1>2 DEF Prepare, Open, Materialize, MaterializeFails, Goes
<1>3. CASE Select
  <2>1. \A r \in {"shared-integrity-failure", "budget-exhausted"} :
          NotRun(r) \in Entry /\ NotRun(r).status = r
    BY EntryKinds DEF NotRun
  <2>2. CASE Has("snapshot-mutated")
    BY <1>3, <2>1, <2>2, EntryFollows DEF Select, EntriesAccounted
  <2>3. CASE /\ ~Has("snapshot-mutated")
             /\ Has("budget-exhausted") \/ left.time = 0 \/ left.output = 0
    BY <1>3, <2>1, <2>3, EntryFollows DEF Select
  <2>4. CASE /\ ~Has("snapshot-mutated")
             /\ ~(Has("budget-exhausted") \/ left.time = 0 \/ left.output = 0)
    BY <1>3, <2>4 DEF Select, Goes, EntriesAccounted, Has, InRun
  <2> QED BY <2>2, <2>3, <2>4
<1>4. CASE Start \/ Poll \/ Join \/ Check \/ CollectFails
  BY <1>1, <1>4 DEF Start, Poll, Join, Joined, Check, CollectFails, Goes, InRun, Streams
<1>5. CASE StartRefused \/ CheckRefused
  <2>1. /\ phase \in InRun
        /\ \/ phase' = "error" /\ UNCHANGED runs
           \/ phase' = "select" /\ runs' = Append(runs, Invalidated)
    BY <1>5 DEF StartRefused, CheckRefused, Disturbed, Goes, InRun
  <2> QED BY <1>1, <2>1, EntryFollows, EntryKinds DEF EntriesAccounted
<1>6. CASE Collect \/ CollectFailure
  <2>1. /\ phase \in InRun
        /\ \/ phase' = "error" /\ UNCHANGED runs
           \/ /\ phase' = "select"
              /\ \E q \in Statuses : runs' = Append(runs, Executed(q, Sum2(saved)))
    BY <1>6 DEF Collect, CollectFailure, Goes, InRun, Typed, Shapes, Statuses
  <2> QED BY <1>1, <2>1, EntryFollows, EntryKinds DEF EntriesAccounted
<1>7. CASE Revalidate
  BY <1>7 DEF Revalidate, Goes, EntriesAccounted, Has, InRun
<1>8. CASE Compare
  BY <1>8 DEF Compare, Goes, EntriesAccounted, Has, InRun
<1>9. ASSUME UNCHANGED callerVars PROVE EntriesAccounted'
  BY <1>1, <1>9 DEF callerVars
<1>10. CASE UNCHANGED vars
  BY <1>9, <1>10 DEF vars
<1>11. ASSUME NEW s \in Streams, Capture(s) \/ CaptureEnds(s) \/ Writes(s)
       PROVE  EntriesAccounted'
  BY <1>9, <1>11 DEF Capture, CaptureEnds, Writes
<1>12. CASE Exits \/ Strays \/ Disturbs \/ Edits \/ Replaces \/ Tick
  BY <1>9, <1>12 DEF Exits, Strays, Disturbs, Edits, Replaces, Tick
<1> QED BY <1>2, <1>3, <1>4, <1>5, <1>6, <1>7, <1>8, <1>10, <1>11, <1>12 DEF Next, Caller

\* Every profile has one entry when the artifact is released, none runs on a snapshot
\* that was seen changed and none after a budget was seen spent.
THEOREM EntriesAreInOrder == Spec => []EntriesFollow
<1>1. Init => EntriesAccounted
  <2>1. Len(<<>>) = 0 /\ DOMAIN <<>> = {}
    OBVIOUS
  <2> QED BY <2>1, ConstantTypes DEF Init, EntriesAccounted, Has, InRun
<1>2. EntriesAccounted => EntriesFollow
  BY DEF EntriesAccounted, EntriesFollow
<1> QED BY <1>1, <1>2, NextAccounted, AlwaysTyped, PTL DEF Spec

-----------------------------------------------------------------------------
(* One state of the repository *)

\* The repository only moves on, so that what was opened is never newer than it.
OpenedBefore == opened.state <= repo /\ opened.snapshot <= repo

LEMMA NextOpened == Typed /\ OpenedBefore /\ [Next]_vars => OpenedBefore'
<1> SUFFICES ASSUME Typed, OpenedBefore, [Next]_vars PROVE OpenedBefore'
  OBVIOUS
<1>1. /\ repo \in Nat /\ opened \in [state : Nat, snapshot : Nat]
  BY ConstantTypes DEF Typed, TypeOK, Shapes
<1>2. ASSUME UNCHANGED opened, repo' \in {repo, repo + 1} PROVE OpenedBefore'
  BY <1>1, <1>2 DEF OpenedBefore
<1>3. CASE Open \/ Materialize
  <2>1. repo' = repo
    BY <1>3 DEF Open, Materialize, outside
  <2>2. \/ opened' = [opened EXCEPT !.state = repo]
        \/ opened' = [opened EXCEPT !.snapshot = repo]
    BY <1>3 DEF Open, Materialize
  <2> QED BY <1>1, <2>1, <2>2 DEF OpenedBefore
<1>4. CASE \/ Prepare \/ MaterializeFails \/ Select \/ Revalidate \/ Compare
           \/ Start \/ StartRefused \/ Poll \/ Join \/ Check \/ CheckRefused
           \/ Collect \/ CollectFails \/ CollectFailure
  <2>1. UNCHANGED <<opened, repo>>
    BY <1>4 DEF Prepare, MaterializeFails, Select, Revalidate, Compare, Start, StartRefused,
                Poll, Join, Check, CheckRefused, Collect, CollectFails, CollectFailure, outside
  <2> QED BY <1>2, <2>1
<1>5. ASSUME NEW s \in Streams, Capture(s) \/ CaptureEnds(s) \/ Writes(s)
      PROVE  OpenedBefore'
  BY <1>2, <1>5 DEF Capture, CaptureEnds, Writes, callerVars, outside
<1>6. CASE Exits \/ Strays \/ Disturbs \/ Edits \/ Replaces \/ Tick
  BY <1>2, <1>6 DEF Exits, Strays, Disturbs, Edits, Replaces, Tick, callerVars, outside
<1>7. CASE UNCHANGED vars
  BY <1>2, <1>7 DEF vars, callerVars, outside
<1> QED BY <1>3, <1>4, <1>5, <1>6, <1>7 DEF Next, Caller

\* Only the comparison releases.
LEMMA ReleasedByCompare ==
    ASSUME [Next]_vars, phase' = "released", phase # "released"
    PROVE  Compare
<1>1. ~(\/ Prepare \/ Open \/ Materialize \/ MaterializeFails \/ Select \/ Revalidate)
  BY DEF Prepare, Open, Materialize, MaterializeFails, Select, Revalidate, Goes
<1>2. ~(\/ Start \/ StartRefused \/ Poll \/ Join \/ Check \/ CheckRefused
        \/ Collect \/ CollectFails \/ CollectFailure)
  BY DEF Start, StartRefused, Disturbed, Poll, Join, Joined, Check, CheckRefused,
         Collect, CollectFails, CollectFailure, Goes
<1>3. phase' # phase
  OBVIOUS
<1>4. ~UNCHANGED callerVars
  BY <1>3 DEF callerVars
<1>5. \A s \in Streams : ~(Capture(s) \/ CaptureEnds(s) \/ Writes(s))
  BY <1>4 DEF Capture, CaptureEnds, Writes
<1>6. ~(Exits \/ Strays \/ Disturbs \/ Edits \/ Replaces \/ Tick)
  BY <1>4 DEF Exits, Strays, Disturbs, Edits, Replaces, Tick
<1>7. ~UNCHANGED vars
  BY <1>4 DEF vars
<1> QED BY <1>1, <1>2, <1>5, <1>6, <1>7 DEF Next, Caller

\* What is released was opened, captured, run and compared on one state of the
\* repository, however it was edited in between.
THEOREM ReleasesOneState == Spec => ReleasedIsOfOneState
<1>1. Init => OpenedBefore
  BY DEF Init, OpenedBefore
<1>2. ASSUME Typed, OpenedBefore, [Next]_vars, phase' = "released", phase # "released"
      PROVE  repo = 0 /\ opened = [state |-> 0, snapshot |-> 0]
  <2>1. repo = 0
    BY <1>2, ReleasedByCompare DEF Compare, Goes
  <2>2. opened \in [state : Nat, snapshot : Nat]
    BY <1>2 DEF Typed, Shapes
  <2>3. opened.state = 0 /\ opened.snapshot = 0
    BY <1>2, <2>1, <2>2 DEF OpenedBefore
  <2> QED BY <2>1, <2>2, <2>3
<1>3. Typed /\ OpenedBefore /\ [Next]_vars =>
        [phase' = "released" /\ phase # "released" =>
           repo = 0 /\ opened = [state |-> 0, snapshot |-> 0]]_vars
  BY <1>2
<1> QED BY <1>1, <1>3, NextOpened, AlwaysTyped, PTL DEF Spec, ReleasedIsOfOneState

-----------------------------------------------------------------------------
(* What is accepted is whole *)

\* Without an overflow nothing that was written is lost: it is saved, or in the pipe.
NothingLost == ~overflow => \A s \in Streams : writes[s] = saved[s] + pipe[s]

\* A capture that ended leaves nothing behind: nobody is left to write to its pipe.
EndedQuiet ==
    \A s \in Streams : ended[s] => child \in {"dead", "reaped"} /\ ~stray /\ pipe[s] = 0

\* A stream that was joined has ended, and a result is only called completed when
\* nothing overflowed and the process succeeded.
JoinedEnded ==
    /\ phase = "stderr" => ended["stdout"]
    /\ phase \in {"check", "collect", "failure"} => \A s \in Streams : ended[s]
    /\ phase \in {"running", "stdout", "stderr", "check"} =>
          forced \in {"none", "output-limit", "timeout"}
    /\ phase = "collect" => ~overflow /\ exit

Whole == NothingLost /\ EndedQuiet /\ JoinedEnded

\* The run is dropped, or another one starts.
LEMMA NothingWhole ==
    ASSUME pipe' = Nothing, writes' = Nothing, saved' = Nothing,
           ended' = [s \in Streams |-> FALSE],
           phase' \notin {"stdout", "stderr", "check", "collect", "failure"},
           phase' = "running" => forced' = "none"
    PROVE  Whole'
<1>1. \A s \in Streams : pipe'[s] = 0 /\ writes'[s] = 0 /\ saved'[s] = 0 /\ ~ended'[s]
  BY DEF Nothing
<1>2. NothingLost' /\ EndedQuiet'
  BY <1>1 DEF NothingLost, EndedQuiet
<1>3. JoinedEnded'
  BY DEF JoinedEnded
<1> QED BY <1>2, <1>3 DEF Whole

\* The capture of one more byte saves it, or overflows.
LEMMA CaptureWhole ==
    ASSUME Typed, Whole, NEW s \in Streams, Capture(s)
    PROVE  Whole'
<1> DEFINE kept == Smaller(Smaller(1, ProfileOutput + 1 - saved[s]), room)
<1>1. /\ saved \in [Streams -> 0..ProfileOutput + 1] /\ pipe \in [Streams -> 0..MaxWrites]
      /\ writes \in [Streams -> 0..MaxWrites] /\ room \in 0..2 * ProfileOutput
  BY DEF Typed, TypeOK
<1>2. kept \in Int /\ kept <= 1
  BY <1>1, ConstantTypes DEF Smaller
<1>3. /\ saved' = [saved EXCEPT ![s] = @ + kept]
      /\ pipe' = [pipe EXCEPT ![s] = @ - 1]
      /\ UNCHANGED <<callerVars, child, exit, stray, writes, ended, clockVars, outside>>
      /\ ~ended[s] /\ pipe[s] > 0
  BY DEF Capture
<1>4. ~overflow' => ~overflow /\ ~(kept < 1)
  BY Zenon DEF Capture
<1> HIDE DEF kept
<1>5. NothingLost'
  <2> SUFFICES ASSUME ~overflow', NEW t \in Streams PROVE writes'[t] = saved'[t] + pipe'[t]
    BY DEF NothingLost
  <2>1. ~overflow /\ kept = 1
    BY <1>2, <1>4
  <2>2. writes[t] = saved[t] + pipe[t]
    BY <2>1 DEF Whole, NothingLost
  <2>3. saved[t] \in Int /\ pipe[t] \in Int /\ writes[t] \in Int
    BY <1>1, ConstantTypes
  <2>4. /\ saved'[t] = IF t = s THEN saved[s] + kept ELSE saved[t]
        /\ pipe'[t] = IF t = s THEN pipe[s] - 1 ELSE pipe[t]
        /\ writes'[t] = writes[t]
    BY <1>1, <1>3
  <2> QED BY <2>1, <2>2, <2>3, <2>4
<1>6. EndedQuiet'
  <2> SUFFICES ASSUME NEW t \in Streams, ended'[t]
               PROVE  child' \in {"dead", "reaped"} /\ ~stray' /\ pipe'[t] = 0
    BY DEF EndedQuiet
  <2>1. ended[t] /\ t # s
    BY <1>3
  <2>2. child \in {"dead", "reaped"} /\ ~stray /\ pipe[t] = 0
    BY <2>1 DEF Whole, EndedQuiet
  <2>3. pipe'[t] = pipe[t]
    BY <1>1, <1>3, <2>1
  <2> QED BY <1>3, <2>2, <2>3
<1>7. JoinedEnded'
  <2>1. phase \notin {"check", "collect", "failure"}
    BY <1>3 DEF Whole, JoinedEnded
  <2>2. UNCHANGED <<phase, forced, ended>>
    BY <1>3 DEF callerVars
  <2> QED BY <2>1, <2>2 DEF Whole, JoinedEnded
<1> QED BY <1>5, <1>6, <1>7 DEF Whole

\* What a process, or one it left behind, writes goes through its pipe; and it
\* writes only to a stream whose capture has not ended.
LEMMA WritesWhole ==
    ASSUME Typed, Whole, NEW s \in Streams, Writes(s)
    PROVE  Whole'
<1>1. /\ saved \in [Streams -> 0..ProfileOutput + 1] /\ pipe \in [Streams -> 0..MaxWrites]
      /\ writes \in [Streams -> 0..MaxWrites]
  BY DEF Typed, TypeOK
<1>2. /\ writes' = [writes EXCEPT ![s] = @ + 1] /\ pipe' = [pipe EXCEPT ![s] = @ + 1]
      /\ UNCHANGED <<callerVars, child, exit, stray, captureVars, clockVars, outside>>
      /\ child = "alive" \/ stray
  BY DEF Writes
<1>3. UNCHANGED <<phase, forced, saved, ended, overflow>>
  BY <1>2 DEF callerVars, captureVars
<1>4. \A t \in Streams : ~ended[t]
  BY <1>2 DEF Whole, EndedQuiet
<1>5. NothingLost'
  <2> SUFFICES ASSUME ~overflow', NEW t \in Streams PROVE writes'[t] = saved'[t] + pipe'[t]
    BY DEF NothingLost
  <2>1. writes[t] = saved[t] + pipe[t]
    BY <1>3 DEF Whole, NothingLost
  <2>2. saved[t] \in Int /\ pipe[t] \in Int /\ writes[t] \in Int
    BY <1>1, ConstantTypes
  <2>3. /\ pipe'[t] = IF t = s THEN pipe[s] + 1 ELSE pipe[t]
        /\ writes'[t] = IF t = s THEN writes[s] + 1 ELSE writes[t]
        /\ saved'[t] = saved[t]
    BY <1>1, <1>2, <1>3
  <2> QED BY <2>1, <2>2, <2>3
<1>6. EndedQuiet'
  BY <1>3, <1>4 DEF EndedQuiet
<1>7. JoinedEnded'
  BY <1>2, <1>3 DEF Whole, JoinedEnded
<1> QED BY <1>5, <1>6, <1>7 DEF Whole

\* The other steps of the process, of its captures and of the outside.
LEMMA OutsideWhole ==
    ASSUME Typed, Whole,
           \/ \E s \in Streams : CaptureEnds(s)
           \/ Exits \/ Strays \/ Disturbs \/ Edits \/ Replaces \/ Tick
    PROVE  Whole'
<1>1. UNCHANGED <<phase, forced, pipe, writes, saved, overflow>>
  BY DEF CaptureEnds, Exits, Strays, Disturbs, Edits, Replaces, Tick,
         callerVars, processVars, captureVars
<1>2. NothingLost'
  BY <1>1 DEF Whole, NothingLost
<1>3. ASSUME NEW s \in Streams, CaptureEnds(s) PROVE EndedQuiet' /\ JoinedEnded'
  <2>1. /\ ended \in [Streams -> BOOLEAN] /\ ended' = [ended EXCEPT ![s] = TRUE]
        /\ child \in {"dead", "reaped"} /\ ~stray /\ pipe[s] = 0
        /\ UNCHANGED <<child, stray, exit>>
    BY <1>3 DEF CaptureEnds, processVars, Typed, TypeOK
  <2>2. \A t \in Streams : ended'[t] <=> ended[t] \/ t = s
    BY <2>1
  <2>3. EndedQuiet'
    BY <1>1, <2>1, <2>2 DEF Whole, EndedQuiet
  <2>4. JoinedEnded'
    BY <1>1, <2>1, <2>2 DEF Whole, JoinedEnded, Streams
  <2> QED BY <2>3, <2>4
<1>4. CASE Exits \/ Strays
  <2>1. /\ UNCHANGED ended
        /\ child = "alive" \/ (stray /\ child' = child /\ ~stray')
    BY <1>4 DEF Exits, Strays, captureVars
  <2>2. \A s \in Streams : ~ended[s]
    BY <2>1 DEF Whole, EndedQuiet
  <2>3. EndedQuiet' /\ JoinedEnded'
    BY <1>1, <2>1, <2>2 DEF Whole, EndedQuiet, JoinedEnded, Streams
  <2> QED BY <1>2, <2>3 DEF Whole
<1>5. CASE Disturbs \/ Edits \/ Replaces \/ Tick
  <2>1. UNCHANGED <<child, exit, stray, ended>>
    BY <1>5 DEF Disturbs, Edits, Replaces, Tick, processVars, captureVars
  <2> QED BY <1>1, <1>2, <2>1 DEF Whole, EndedQuiet, JoinedEnded
<1> QED BY <1>2, <1>3, <1>4, <1>5 DEF Whole

\* The steps of the caller.
LEMMA CallerWhole == ASSUME Typed, Whole, Caller PROVE Whole'
<1>1. ASSUME UNCHANGED <<forced, processVars, captureVars>>,
             phase' \notin {"running", "stdout", "stderr", "check", "collect", "failure"}
      PROVE  Whole'
  BY <1>1 DEF Whole, NothingLost, EndedQuiet, JoinedEnded, processVars, captureVars
<1>2. CASE \/ Prepare \/ Open \/ Materialize \/ MaterializeFails \/ Select
           \/ Revalidate \/ Compare
  <2>1. UNCHANGED <<forced, processVars, captureVars>>
    BY <1>2 DEF Prepare, Open, Materialize, MaterializeFails, Select, Revalidate, Compare
  <2>2. phase' \notin {"running", "stdout", "stderr", "check", "collect", "failure"}
    BY <1>2 DEF Prepare, Open, Materialize, MaterializeFails, Select, Revalidate, Compare, Goes
  <2> QED BY <1>1, <2>1, <2>2
<1>3. CASE Start
  <2>1. /\ pipe' = Nothing /\ writes' = Nothing /\ saved' = Nothing
        /\ ended' = [s \in Streams |-> FALSE] /\ phase' = "running" /\ forced' = "none"
    BY <1>3 DEF Start, Goes
  <2> QED BY <2>1, NothingWhole
<1>4. CASE StartRefused \/ CheckRefused \/ Collect \/ CollectFailure
  <2>1. Dropped /\ phase' \in {"select", "error"}
    BY <1>4 DEF StartRefused, CheckRefused, Disturbed, Collect, CollectFailure, Goes
  <2> QED BY <2>1, NothingWhole DEF Dropped
<1>5. CASE Poll
  <2>1. /\ UNCHANGED <<pipe, writes, saved, overflow, ended, stray>>
        /\ child' = "reaped" /\ phase = "running" /\ phase' = "stdout"
        /\ forced' \in {forced, "output-limit", "timeout"}
    BY <1>5 DEF Poll, Goes, captureVars
  <2> QED BY <2>1 DEF Whole, NothingLost, EndedQuiet, JoinedEnded
<1>6. CASE Join
  <2>1. /\ UNCHANGED <<forced, processVars, captureVars>>
        /\ phase \in {"stdout", "stderr"}
        /\ \/ ended[phase] /\ phase' = IF phase = "stdout" THEN "stderr" ELSE "check"
           \/ phase' = "error"
    BY <1>6 DEF Join, Joined, Goes, Streams
  <2>2. NothingLost' /\ EndedQuiet'
    BY <2>1 DEF Whole, NothingLost, EndedQuiet, processVars, captureVars
  <2>3. JoinedEnded'
    BY <2>1 DEF Whole, JoinedEnded, captureVars, Streams
  <2> QED BY <2>2, <2>3 DEF Whole
<1>7. CASE Check
  <2>1. /\ UNCHANGED <<processVars, captureVars>> /\ phase = "check"
        /\ forced' = Outcome
        /\ phase' = IF Outcome = "completed" THEN "collect" ELSE "failure"
    BY <1>7 DEF Check, Goes
  <2>2. NothingLost' /\ EndedQuiet'
    BY <2>1 DEF Whole, NothingLost, EndedQuiet, processVars, captureVars
  <2>3. /\ forced \in {"none", "output-limit", "timeout"}
        /\ \A s \in Streams : ended[s]
    BY <2>1 DEF Whole, JoinedEnded
  <2>4. Outcome = "completed" => ~overflow /\ exit
    BY <2>3 DEF Outcome, Final
  <2>5. JoinedEnded'
    BY <2>1, <2>3, <2>4 DEF JoinedEnded, processVars, captureVars
  <2> QED BY <2>2, <2>5 DEF Whole
<1>8. CASE CollectFails
  <2>1. /\ UNCHANGED <<processVars, captureVars>> /\ phase = "collect" /\ phase' = "failure"
    BY <1>8 DEF CollectFails, Goes
  <2> QED BY <2>1 DEF Whole, NothingLost, EndedQuiet, JoinedEnded, processVars, captureVars
<1> QED BY <1>2, <1>3, <1>4, <1>5, <1>6, <1>7, <1>8 DEF Caller

\* Every step keeps what was written, saved or in the pipes.
LEMMA NextWhole == Typed /\ Whole /\ [Next]_vars => Whole'
<1> SUFFICES ASSUME Typed, Whole, [Next]_vars PROVE Whole'
  OBVIOUS
<1>1. CASE UNCHANGED vars
  BY <1>1 DEF vars, callerVars, processVars, captureVars,
              Whole, NothingLost, EndedQuiet, JoinedEnded
<1> QED BY <1>1, CallerWhole, CaptureWhole, WritesWhole, OutsideWhole DEF Next

\* A result is accepted only with every byte its analyzer wrote, although two
\* threads race the caller for them and something may be left behind to write more.
THEOREM AcceptsAllOfIt == Spec => AcceptedIsWhole
<1>1. Init => Whole
  <2>1. \A s \in Streams : Nothing[s] = 0 /\ ~[t \in Streams |-> FALSE][s]
    BY DEF Nothing
  <2> QED BY <2>1 DEF Init, Whole, NothingLost, EndedQuiet, JoinedEnded
<1>2. ASSUME Typed, Whole, [Next]_vars, phase = "collect", phase' = "select"
      PROVE  saved = writes /\ exit
  <2>1. ~overflow /\ exit /\ \A s \in Streams : ended[s]
    BY <1>2 DEF Whole, JoinedEnded
  <2>2. \A s \in Streams : pipe[s] = 0 /\ writes[s] = saved[s] + pipe[s]
    BY <1>2, <2>1 DEF Whole, NothingLost, EndedQuiet
  <2>3. /\ saved \in [Streams -> 0..ProfileOutput + 1] /\ writes \in [Streams -> 0..MaxWrites]
    BY <1>2 DEF Typed, TypeOK
  <2>4. \A s \in Streams : writes[s] = saved[s]
    BY <2>2, <2>3, ConstantTypes
  <2>5. saved = writes
    BY <2>3, <2>4
  <2> QED BY <2>1, <2>5
<1>3. Typed /\ Whole /\ [Next]_vars =>
        [phase = "collect" /\ phase' = "select" => saved = writes /\ exit]_vars
  BY <1>2
<1> QED BY <1>1, <1>3, NextWhole, AlwaysTyped, PTL DEF Spec, AcceptedIsWhole

-----------------------------------------------------------------------------
(* What is charged *)

\* What the entries stored is the last of the running totals of their outputs.
LEMMA StoredTotals ==
  ASSUME NEW Entries, \A e \in Entries : e.out \in Nat, NEW r \in Seq(Entries)
  PROVE  \E G : /\ StoredIn(r) = G[Len(r)]
                /\ Totals(G, [k \in 1..Len(r) |-> r[k].out], Len(r))
<1> DEFINE n == Len(r)
           w == [i \in 1..n |-> r[i].out]
           F(g, s) == IF s = {} THEN 0 ELSE g[s \ {Max(s)}] + r[Max(s)].out
           iter == CHOOSE g : g = [s \in SUBSET (1..n) |-> F(g, s)]
           W(g, s) == IF s = {} THEN 0 ELSE g[s \ {Max(s)}] + w[Max(s)]
<1>1. DOMAIN r = 1..n /\ n \in Nat /\ \A i \in 1..n : w[i] \in Nat /\ w[i] = r[i].out
  OBVIOUS
<1>2. StoredIn(r) = iter[1..n]
  BY <1>1 DEF StoredIn, FoldLeft, MapThenFoldSet
<1> HIDE DEF w, n
<1>3. \A g : Adding(w, n, g) <=> g = [s \in SUBSET (1..n) |-> F(g, s)]
  <2> SUFFICES ASSUME NEW g
               PROVE  Adding(w, n, g) <=> g = [s \in SUBSET (1..n) |-> F(g, s)]
    OBVIOUS
  <2>1. \A s \in SUBSET (1..n) : F(g, s) = W(g, s)
    BY <1>1, LastIndex
  <2> HIDE DEF F, W
  <2>2. [s \in SUBSET (1..n) |-> F(g, s)] = [s \in SUBSET (1..n) |-> W(g, s)]
    BY <2>1
  <2> QED BY <2>2 DEF Adding, W
<1>4. \E g : Adding(w, n, g)
  BY <1>1, SumExists
<1> HIDE DEF F, W
<1>5. Adding(w, n, iter)
  BY <1>3, <1>4
<1> HIDE DEF iter
<1>7. Totals([k \in 0..n |-> iter[1..k]], w, n)
  BY <1>1, <1>5, SumTotals
<1>8. [k \in 0..n |-> iter[1..k]][n] = iter[1..n]
  BY <1>1
<1> QED BY <1>2, <1>7, <1>8 DEF n, w

\* No entry stored nothing, and an entry adds what it stored.
LEMMA StoredGrows ==
  ASSUME NEW Entries, \A e \in Entries : e.out \in Nat,
         NEW r \in Seq(Entries), NEW e \in Entries
  PROVE  /\ StoredIn(<<>>) = 0
         /\ StoredIn(Append(r, e)) = StoredIn(r) + e.out
<1> DEFINE q == Append(r, e)
           Out(s) == [k \in 1..Len(s) |-> s[k].out]
<1>1. /\ q \in Seq(Entries) /\ Len(r) \in Nat /\ Len(q) = Len(r) + 1 /\ q[Len(r) + 1] = e
      /\ \A k \in 1..Len(r) : r[k] = q[k]
      /\ <<>> \in Seq(Entries) /\ Len(<<>>) = 0
  OBVIOUS
<1> HIDE DEF q
<1>2. \A k \in 1..Len(r) : Out(r)[k] = Out(q)[k]
  BY <1>1
<1>3. Out(q)[Len(r) + 1] = e.out
  BY <1>1
<1>4. \A s \in Seq(Entries) : \E G : StoredIn(s) = G[Len(s)] /\ Totals(G, Out(s), Len(s))
  BY StoredTotals
<1> HIDE DEF Out
<1>5. StoredIn(<<>>) = 0
  BY <1>1, <1>4 DEF Totals
<1>6. PICK G : StoredIn(r) = G[Len(r)] /\ Totals(G, Out(r), Len(r))
  BY <1>4
<1>7. PICK H : StoredIn(q) = H[Len(q)] /\ Totals(H, Out(q), Len(q))
  BY <1>1, <1>4
<1>8. H[Len(q)] = H[Len(r)] + e.out
  BY <1>1, <1>3, <1>7 DEF Totals
<1>9. G[Len(r)] = H[Len(r)]
  <2>1. Totals(H, Out(q), Len(r))
    BY <1>1, <1>7 DEF Totals
  <2> QED BY <1>1, <1>2, <1>6, <2>1, TotalsAgree
<1> QED BY <1>5, <1>6, <1>7, <1>8, <1>9 DEF q

\* While a run is charged but has no entry yet, what it stored is pending.
Pending == IF phase \in {"collect", "failure"} THEN Sum2(saved) ELSE 0

\* Every charge is for output that an entry stores, or is about to; and a run
\* captures within limits that the budget covers, so that no charge saturates.
Charged ==
    /\ phase # "error" => Stored + Pending = TotalOutput - left.output
    /\ phase \in {"start", "running", "stdout", "stderr", "check"} => limits.output <= left.output
    /\ phase \in {"running", "stdout", "stderr", "check"} => Sum2(saved) + room = limits.output

\* The numbers the account is about.
LEMMA ChargeTypes ==
    ASSUME Typed
    PROVE  /\ Stored \in Int /\ TotalOutput \in Nat /\ Sum2(saved) \in Nat
           /\ left \in [time : Nat, output : Nat] /\ limits \in [time : Nat, output : Nat]
           /\ room \in Nat
           /\ \A e \in Entry : runs' = Append(runs, e) => Stored' = Stored + e.out
<1>1. runs \in Seq(Entry) /\ \A e \in Entry : e.out \in Nat
  BY DEF Typed, Shapes, Entry
<1>2. Stored = StoredIn(runs) /\ Stored' = StoredIn(runs')
  BY DEF Stored
<1>3. \A e \in Entry : runs' = Append(runs, e) => Stored' = Stored + e.out
  BY <1>1, <1>2, StoredGrows
<1>4. Stored \in Int
  <2>1. PICK G : /\ StoredIn(runs) = G[Len(runs)]
                 /\ Totals(G, [k \in 1..Len(runs) |-> runs[k].out], Len(runs))
    BY <1>1, StoredTotals
  <2> DEFINE w == [k \in 1..Len(runs) |-> runs[k].out]
  <2>2. Len(runs) \in Nat /\ \A k \in 1..Len(runs) : w[k] \in Nat
    BY <1>1
  <2> HIDE DEF w
  <2>3. G[Len(runs)] \in Nat
    BY <2>1, <2>2, TotalsTyped DEF w
  <2> QED BY <1>2, <2>1, <2>3
<1>5. room \in Nat /\ TotalOutput \in Nat /\ Sum2(saved) \in Nat
  BY ConstantTypes, EntryKinds DEF Typed, TypeOK
<1> QED BY <1>3, <1>4, <1>5 DEF Typed, Shapes

\* The steps of the caller keep the account.
LEMMA CallerCharged == ASSUME Typed, Charged, Caller PROVE Charged'
<1> DEFINE Captures == {"running", "stdout", "stderr", "check"}
<1>1. ASSUME UNCHANGED <<runs, left, limits, saved, room>>,
             \/ phase' = "error"
             \/ phase \notin InRun \cup {"error"} /\ phase' \notin InRun
             \/ phase \in Captures /\ phase' \in Captures
             \/ phase \in {"collect", "failure"} /\ phase' \in {"collect", "failure"}
      PROVE  Charged'
  <2>1. Stored' = Stored
    BY <1>1 DEF Stored
  <2>2. Sum2(saved)' = Sum2(saved)
    BY <1>1 DEF Sum2
  <2>3. CASE phase' = "error"
    BY <2>3 DEF Charged
  <2>4. CASE phase \notin InRun \cup {"error"} /\ phase' \notin InRun
    BY <1>1, <2>1, <2>4 DEF Charged, Pending, InRun
  <2>5. CASE \/ phase \in Captures /\ phase' \in Captures
             \/ phase \in {"collect", "failure"} /\ phase' \in {"collect", "failure"}
    BY <1>1, <2>1, <2>2, <2>5 DEF Charged, Pending
  <2> QED BY <1>1, <2>3, <2>4, <2>5
<1>2. CASE Prepare \/ Open \/ Materialize \/ MaterializeFails \/ Revalidate \/ Compare
  <2>1. /\ UNCHANGED <<runs, left, limits, captureVars>>
        /\ phase \notin InRun \cup {"error"} /\ phase' \notin InRun
    BY <1>2 DEF Prepare, Open, Materialize, MaterializeFails, Revalidate, Compare, Goes, InRun
  <2> QED BY <1>1, <2>1 DEF captureVars
<1>3. CASE Poll \/ Join \/ CollectFails
  <2>1. /\ UNCHANGED <<runs, left, limits, captureVars>>
        /\ \/ phase' = "error"
           \/ phase \in Captures /\ phase' \in Captures
           \/ phase \in {"collect", "failure"} /\ phase' \in {"collect", "failure"}
    BY <1>3 DEF Poll, Join, Joined, CollectFails, Goes, Streams
  <2> QED BY <1>1, <2>1 DEF captureVars
<1>4. CASE Select
  <2>1. /\ phase = "select" /\ UNCHANGED left
        /\ \/ /\ phase' = "select"
              /\ \E q \in {"shared-integrity-failure", "budget-exhausted"} :
                    runs' = Append(runs, NotRun(q))
           \/ phase' = "start" /\ limits' = EffectiveLimits /\ UNCHANGED runs
    BY <1>4 DEF Select, Goes
  <2>2. \A q \in {"shared-integrity-failure", "budget-exhausted"} :
           NotRun(q) \in Entry /\ NotRun(q).out = 0
    BY EntryKinds DEF NotRun
  <2>3. UNCHANGED runs => Stored' = Stored
    BY DEF Stored
  <2>4. Stored' = Stored
    BY <2>1, <2>2, <2>3, ChargeTypes
  <2>5. EffectiveLimits.output <= left.output
    BY ChargeTypes, ConstantTypes DEF EffectiveLimits, Smaller
  <2> QED BY <2>1, <2>4, <2>5 DEF Charged, Pending
<1>5. CASE Start
  <2>1. /\ phase = "start" /\ phase' = "running" /\ saved' = Nothing /\ room' = limits.output
        /\ UNCHANGED <<runs, left, limits>>
    BY <1>5 DEF Start, Goes
  <2>2. Stored' = Stored
    BY <2>1 DEF Stored
  <2>3. Sum2(saved)' = 0
    BY <2>1 DEF Sum2, Nothing, Streams
  <2> QED BY <2>1, <2>2, <2>3, ChargeTypes DEF Charged, Pending
<1>6. CASE StartRefused \/ CheckRefused
  <2>1. /\ phase \in {"start", "check"} /\ UNCHANGED left
        /\ \/ phase' = "error"
           \/ phase' = "select" /\ runs' = Append(runs, Invalidated)
    BY <1>6 DEF StartRefused, CheckRefused, Disturbed, Goes
  <2>2. Invalidated \in Entry /\ Invalidated.out = 0
    BY EntryKinds DEF Invalidated
  <2> QED BY <2>1, <2>2, ChargeTypes DEF Charged, Pending
<1>7. CASE Check
  <2>1. /\ phase = "check" /\ phase' \in {"collect", "failure"}
        /\ left' = Charge /\ UNCHANGED <<runs, saved>>
    BY <1>7 DEF Check, Goes, captureVars
  <2>2. Stored' = Stored /\ Sum2(saved)' = Sum2(saved)
    BY <2>1 DEF Stored, Sum2
  <2>3. Charge.output = left.output - Sum2(saved)
    BY <2>1, ChargeTypes DEF Charge, Less, Charged
  <2> QED BY <2>1, <2>2, <2>3, ChargeTypes DEF Charged, Pending
<1>8. CASE Collect \/ CollectFailure
  <2>1. /\ phase \in {"collect", "failure"} /\ UNCHANGED left
        /\ \/ phase' = "error"
           \/ /\ phase' = "select"
              /\ \E q \in Statuses : runs' = Append(runs, Executed(q, Sum2(saved)))
    BY <1>8 DEF Collect, CollectFailure, Goes, Typed, Shapes, Statuses
  <2>2. \A q \in Statuses : Executed(q, Sum2(saved)) \in Entry
                            /\ Executed(q, Sum2(saved)).out = Sum2(saved)
    BY EntryKinds DEF Executed
  <2> QED BY <2>1, <2>2, ChargeTypes DEF Charged, Pending
<1> QED BY <1>2, <1>3, <1>4, <1>5, <1>6, <1>7, <1>8 DEF Caller

\* What a capture thread saves it takes from the room that both threads share.
LEMMA CaptureCharged ==
    ASSUME Typed, Whole, Charged, NEW s \in Streams, Capture(s)
    PROVE  Charged'
<1> DEFINE kept == Smaller(Smaller(1, ProfileOutput + 1 - saved[s]), room)
<1>1. /\ saved \in [Streams -> 0..ProfileOutput + 1] /\ room \in 0..2 * ProfileOutput
  BY DEF Typed, TypeOK
<1>2. kept \in Int
  BY <1>1, ConstantTypes DEF Smaller
<1>3. /\ saved' = [saved EXCEPT ![s] = @ + kept] /\ room' = room - kept
      /\ UNCHANGED <<phase, runs, left, limits>> /\ ~ended[s]
  BY DEF Capture, callerVars
<1> HIDE DEF kept
<1>4. phase \notin {"collect", "failure"}
  BY <1>3 DEF Whole, JoinedEnded
<1>5. Sum2(saved)' + room' = Sum2(saved) + room
  <2>1. /\ saved["stdout"] \in Int /\ saved["stderr"] \in Int /\ room \in Int
        /\ s \in {"stdout", "stderr"}
    BY <1>1, ConstantTypes DEF Streams
  <2>2. /\ saved'["stdout"] = IF s = "stdout" THEN saved["stdout"] + kept ELSE saved["stdout"]
        /\ saved'["stderr"] = IF s = "stderr" THEN saved["stderr"] + kept ELSE saved["stderr"]
    BY <1>1, <1>3 DEF Streams
  <2> QED BY <1>2, <1>3, <2>1, <2>2 DEF Sum2
<1>6. Stored' = Stored
  BY <1>3 DEF Stored
<1> QED BY <1>3, <1>4, <1>5, <1>6 DEF Charged, Pending

\* Every step keeps the account.
LEMMA NextCharged == Typed /\ Whole /\ Charged /\ [Next]_vars => Charged'
<1> SUFFICES ASSUME Typed, Whole, Charged, [Next]_vars PROVE Charged'
  OBVIOUS
<1>1. ASSUME UNCHANGED callerVars, UNCHANGED <<saved, room>> PROVE Charged'
  <2>1. UNCHANGED <<phase, runs, left, limits, saved, room>>
    BY <1>1 DEF callerVars
  <2>2. Stored' = Stored /\ Pending' = Pending /\ Sum2(saved)' = Sum2(saved)
    BY <2>1 DEF Stored, Pending, Sum2
  <2> QED BY <2>1, <2>2 DEF Charged
<1>2. ASSUME NEW s \in Streams, CaptureEnds(s) \/ Writes(s) PROVE Charged'
  BY <1>1, <1>2 DEF CaptureEnds, Writes, captureVars
<1>3. CASE Exits \/ Strays \/ Disturbs \/ Edits \/ Replaces \/ Tick
  BY <1>1, <1>3 DEF Exits, Strays, Disturbs, Edits, Replaces, Tick, captureVars
<1>4. CASE UNCHANGED vars
  BY <1>1, <1>4 DEF vars, captureVars
<1> QED BY <1>2, <1>3, <1>4, CallerCharged, CaptureCharged DEF Next

\* What the entries of a released artifact stored is what was charged, and within
\* the allowance, although two threads of each run take from the same room.
THEOREM ChargesWhatIsStored == Spec => []OutputIsCharged
<1>1. Init => Whole
  <2>1. \A s \in Streams : Nothing[s] = 0 /\ ~[t \in Streams |-> FALSE][s]
    BY DEF Nothing
  <2> QED BY <2>1 DEF Init, Whole, NothingLost, EndedQuiet, JoinedEnded
<1>2. Init => Charged
  <2>1. StoredIn(<<>>) = 0
    <3>1. Invalidated \in Entry /\ \A e \in Entry : e.out \in Nat
      BY DEF Invalidated, Entry
    <3>2. <<>> \in Seq(Entry)
      OBVIOUS
    <3> QED BY <3>1, <3>2, StoredGrows
  <2> QED BY <2>1, ConstantTypes DEF Init, Charged, Pending, Stored
<1>3. Typed /\ Charged => OutputIsCharged
  BY ChargeTypes DEF Charged, Pending, OutputIsCharged
<1> QED BY <1>1, <1>2, <1>3, NextWhole, NextCharged, AlwaysTyped, PTL DEF Spec
=============================================================================
