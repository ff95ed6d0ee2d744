-------------------------- MODULE StaticOrchestration --------------------------
(***************************************************************************)
(* "static-analysis orchestrate" (static_analysis/orchestration.rs,        *)
(* executor.rs): the profiles of a manifest run one after another, each as *)
(* a process over one shared snapshot, under cumulative budgets of time    *)
(* and captured output.  Two threads capture the streams of a process      *)
(* while the caller polls it; the analyzer may leave a process behind that *)
(* keeps the pipes open or writes to the snapshot later.                   *)
(***************************************************************************)
EXTENDS Integers, Sequences, SequencesExt

CONSTANTS
    Profiles,      \* the number of profiles of the manifest
    TotalTime,     \* max_execution_seconds ...
    TotalOutput,   \* ... and max_captured_output_bytes of the manifest,
    ProfileTime,   \* timeout_seconds ...
    ProfileOutput, \* ... and max_output_bytes of each profile
    ShutdownTime,  \* CAPTURE_SHUTDOWN_TIMEOUT
    MaxWrites,     \* bound: what one analyzer writes,
    MaxElapsed,    \* bound: how late the caller may be,
    MaxEdits       \* bound: edits of the repository, and of what was reviewed

ASSUME OrchestrationAssumption ==
    /\ {Profiles, TotalTime, TotalOutput, ProfileTime, ProfileOutput} \subseteq Nat \ {0}
    /\ {ShutdownTime, MaxWrites, MaxElapsed, MaxEdits} \subseteq Nat
    /\ ProfileTime < MaxElapsed

VARIABLES
    phase, runs,          \* the caller's step and the entries it made
    left,                 \* what is left of the budgets
    limits,               \* the limits of the process that runs,
    elapsed, waited,      \* the time since its start and since its end was seen,
    child, exit, stray,   \* the process and what it left behind,
    pipe, writes,         \* what it wrote and nobody read yet, and wrote in all,
    saved, ended, room, overflow,  \* the capture threads,
    forced,               \* the status the caller forced
    snapshot,             \* the shared snapshot
    repo, plan,           \* versions of the repository and of manifest, profiles, tools
    opened                \* the versions at the start: state digest and snapshot

callerVars == <<phase, runs, left, limits, forced, opened>>
processVars == <<child, exit, stray, pipe, writes>>
captureVars == <<saved, ended, room, overflow>>
clockVars == <<elapsed, waited>>
outside == <<snapshot, repo, plan>>
vars == <<callerVars, processVars, captureVars, clockVars, outside>>

Streams == {"stdout", "stderr"}
Smaller(a, b) == IF a < b THEN a ELSE b
Less(a, b) == IF a < b THEN 0 ELSE a - b    \* saturating_sub
Sum2(f) == f["stdout"] + f["stderr"]
Nothing == [s \in Streams |-> 0]

Statuses == {"completed", "failed", "timeout", "output-limit", "invalid-output"}
Executed(status, out) == [kind |-> "executed", status |-> status, out |-> out]
Invalidated == [kind |-> "invalidated", status |-> "snapshot-mutated", out |-> 0]
NotRun(reason) == [kind |-> "not-run", status |-> reason, out |-> 0]
Accepted(run) == run.kind = "executed" /\ run.status = "completed"

Flags == {exit, stray, overflow} \subseteq BOOLEAN

TypeOK ==
    /\ Flags
    /\ phase \in {"prepare", "open", "materialize", "select", "start", "running", "stdout", "stderr",
                  "check", "collect", "failure", "revalidate", "compare", "released", "error"}
    /\ \A k \in DOMAIN runs : runs[k].kind = "executed" => runs[k].status \in Statuses
    /\ left.time \in 0..TotalTime /\ left.output \in 0..TotalOutput
    /\ limits.time \in 0..ProfileTime /\ limits.output \in 0..2 * ProfileOutput
    /\ elapsed \in 0..MaxElapsed /\ waited \in 0..ShutdownTime
    /\ child \in {"none", "alive", "dead", "reaped"}
    /\ pipe \in [Streams -> 0..MaxWrites] /\ writes \in [Streams -> 0..MaxWrites]
    /\ saved \in [Streams -> 0..ProfileOutput + 1] /\ ended \in [Streams -> BOOLEAN]
    /\ room \in 0..2 * ProfileOutput
    /\ forced \in Statuses \cup {"none"}
    /\ snapshot \in {"intact", "changed", "unreadable"}
    /\ repo \in 0..MaxEdits /\ plan \in 0..1
    /\ opened.state \in 0..MaxEdits /\ opened.snapshot \in 0..MaxEdits

Init ==
    /\ phase = "prepare" /\ runs = <<>>
    /\ left = [time |-> TotalTime, output |-> TotalOutput]
    /\ limits = [time |-> 0, output |-> 0]
    /\ elapsed = 0 /\ waited = 0
    /\ child = "none" /\ exit = TRUE /\ stray = FALSE
    /\ pipe = Nothing /\ writes = Nothing
    /\ saved = Nothing /\ ended = [s \in Streams |-> FALSE] /\ room = 0 /\ overflow = FALSE
    /\ forced = "none" /\ snapshot = "intact"
    /\ repo = 0 /\ plan \in 0..1
    /\ opened = [state |-> 0, snapshot |-> 0]

-----------------------------------------------------------------------------
Goes(step) == phase' = step
Ended == phase \in {"released", "error"}

(* prepare_orchestration: the manifest, the profiles and the executables are the
   ones the digests name. *)
Prepare ==
    /\ phase = "prepare"
    /\ Goes(IF plan = 0 THEN "open" ELSE "error")
    /\ UNCHANGED <<runs, left, limits, forced, opened, processVars, captureVars, clockVars, outside>>

(* The scope has the expected fingerprint, and the state digest is taken. *)
Open ==
    /\ phase = "open"
    /\ Goes(IF repo = 0 THEN "materialize" ELSE "error")
    /\ opened' = [opened EXCEPT !.state = repo]
    /\ UNCHANGED <<runs, left, limits, forced, processVars, captureVars, clockVars, outside>>

Materialize ==
    /\ phase = "materialize"
    /\ opened' = [opened EXCEPT !.snapshot = repo]
    /\ Goes("select")
    /\ UNCHANGED <<runs, left, limits, forced, processVars, captureVars, clockVars, outside>>

MaterializeFails ==
    /\ phase = "materialize" /\ Goes("error")
    /\ UNCHANGED <<runs, left, limits, forced, opened, processVars, captureVars, clockVars, outside>>

(* The entries before this one say what became of the snapshot and the budgets. *)
Has(status) == \E k \in DOMAIN runs : runs[k].status = status

(* BudgetLedger::effective_limits. *)
EffectiveLimits == [time |-> Smaller(left.time, ProfileTime),
                    output |-> Smaller(left.output, 2 * ProfileOutput)]

(* Mutant: the profiles after a mutation are run. *)
Select_AfterMutation ==
    /\ phase = "select" /\ Len(runs) < Profiles
    /\ IF Has("budget-exhausted") \/ left.time = 0 \/ left.output = 0
       THEN runs' = Append(runs, NotRun("budget-exhausted")) /\ UNCHANGED <<phase, limits>>
       ELSE Goes("start") /\ limits' = EffectiveLimits /\ UNCHANGED runs
    /\ UNCHANGED <<left, forced, opened, processVars, captureVars, clockVars, outside>>

(* The loop of execute_with_clock up to the limits of the next profile. *)
Select ==
    /\ phase = "select" /\ Len(runs) < Profiles
    /\ IF Has("snapshot-mutated")
       THEN runs' = Append(runs, NotRun("shared-integrity-failure")) /\ UNCHANGED <<phase, limits>>
       ELSE IF Has("budget-exhausted") \/ left.time = 0 \/ left.output = 0
       THEN runs' = Append(runs, NotRun("budget-exhausted")) /\ UNCHANGED <<phase, limits>>
       ELSE Goes("start") /\ limits' = EffectiveLimits /\ UNCHANGED runs
    /\ UNCHANGED <<left, forced, opened, processVars, captureVars, clockVars, outside>>

(* verify_unchanged: a difference invalidates the run, and every later one is not
   run; a snapshot that cannot be read ends the orchestration. *)
Disturbed ==
    /\ snapshot # "intact"
    /\ IF snapshot = "changed" THEN runs' = Append(runs, Invalidated) /\ Goes("select")
                               ELSE Goes("error") /\ UNCHANGED runs

(* The process and its capture are dropped with the run. *)
Dropped ==
    /\ child' = "none" /\ exit' = TRUE /\ pipe' = Nothing /\ writes' = Nothing
    /\ saved' = Nothing /\ ended' = [s \in Streams |-> FALSE] /\ room' = 0 /\ overflow' = FALSE
    /\ limits' = [time |-> 0, output |-> 0] /\ forced' = "none" /\ elapsed' = 0 /\ waited' = 0
    /\ UNCHANGED stray

(* The snapshot, the profile and the executable are checked and the analyzer is
   started from a private copy, its streams captured by two threads. *)
Start ==
    /\ phase = "start" /\ snapshot = "intact" /\ plan = 0
    /\ child' = "alive" /\ exit' = TRUE
    /\ pipe' = Nothing /\ writes' = Nothing /\ saved' = Nothing
    /\ ended' = [s \in Streams |-> FALSE] /\ room' = limits.output /\ overflow' = FALSE
    /\ forced' = "none" /\ elapsed' = 0 /\ waited' = 0
    /\ Goes("running")
    /\ UNCHANGED <<runs, left, limits, opened, stray, outside>>

StartRefused ==
    /\ phase = "start"
    /\ Disturbed \/ (snapshot = "intact" /\ Goes("error") /\ UNCHANGED runs)
    /\ Dropped
    /\ UNCHANGED <<left, opened, outside>>

(* One turn of the polling loop: the overflow flag, the clock, the process. *)
Poll ==
    /\ phase = "running"
    /\ \/ overflow /\ forced' = "output-limit"
       \/ ~overflow /\ elapsed >= limits.time /\ forced' = "timeout"
       \/ ~overflow /\ elapsed < limits.time /\ child = "dead" /\ UNCHANGED forced
    /\ child' = "reaped" /\ waited' = 0
    /\ Goes("stdout")
    /\ UNCHANGED <<runs, left, limits, opened, exit, stray, pipe, writes, captureVars, elapsed, outside>>

(* Mutant: the caller waits for the end of the stream. *)
Joined_Forever(s) == ended[s] /\ Goes(IF s = "stdout" THEN "stderr" ELSE "check")

(* finish_capture: an end is awaited for a while only. *)
Joined(s) ==
    IF ended[s] THEN Goes(IF s = "stdout" THEN "stderr" ELSE "check")
                ELSE waited >= ShutdownTime /\ Goes("error")

Join ==
    /\ phase \in Streams /\ Joined(phase)
    /\ waited' = 0
    /\ UNCHANGED <<runs, left, limits, forced, opened, processVars, captureVars, elapsed, outside>>

(* Mutant: an overflow that is seen when the process has ended is forgotten. *)
Final_Early == forced

(* The status of the process, with the overflow flag read again. *)
Final ==
    IF overflow /\ forced = "none" THEN "output-limit" ELSE forced

Outcome ==
    IF Final # "none" THEN Final ELSE IF exit THEN "completed" ELSE "failed"

(* Mutant: only what was written to stdout is charged. *)
Charge_Stdout == [time |-> Less(left.time, elapsed), output |-> Less(left.output, saved["stdout"])]

(* BudgetLedger::consume. *)
Charge == [time |-> Less(left.time, elapsed), output |-> Less(left.output, Sum2(saved))]

(* The checks after the process, and the charge. *)
Check ==
    /\ phase = "check" /\ snapshot = "intact" /\ plan = 0
    /\ forced' = Outcome
    /\ left' = Charge
    /\ Goes(IF Outcome = "completed" THEN "collect" ELSE "failure")
    /\ UNCHANGED <<runs, limits, opened, processVars, captureVars, clockVars, outside>>

CheckRefused ==
    /\ phase = "check"
    /\ Disturbed \/ (snapshot = "intact" /\ plan # 0 /\ Goes("error") /\ UNCHANGED runs)
    /\ Dropped
    /\ UNCHANGED <<left, opened, outside>>

(* collect_completed_evidence, of a report in the profile's format and name: the
   scope is opened and validated again around it. *)
Collect ==
    /\ phase = "collect" /\ repo = 0
    /\ runs' = Append(runs, Executed("completed", Sum2(saved)))
    /\ Goes("select") /\ Dropped
    /\ UNCHANGED <<left, opened, outside>>

CollectFails ==
    /\ phase = "collect"
    /\ forced' = "invalid-output" /\ Goes("failure")
    /\ UNCHANGED <<runs, left, limits, opened, processVars, captureVars, clockVars, outside>>

(* collect_failure_evidence; without a scope there is no report at all. *)
CollectFailure ==
    /\ phase = "failure"
    /\ IF repo = 0 THEN runs' = Append(runs, Executed(forced, Sum2(saved))) /\ Goes("select")
                   ELSE Goes("error") /\ UNCHANGED runs
    /\ Dropped
    /\ UNCHANGED <<left, opened, outside>>

(* All entries made: manifest, profiles and executables again ... *)
Revalidate ==
    /\ phase = "select" /\ Len(runs) = Profiles
    /\ Goes(IF plan = 0 THEN "compare" ELSE "error")
    /\ UNCHANGED <<runs, left, limits, forced, opened, processVars, captureVars, clockVars, outside>>

(* Mutant: the final comparison is left out. *)
Compare_Skipped ==
    /\ phase = "compare" /\ Goes("released")
    /\ UNCHANGED <<runs, left, limits, forced, opened, processVars, captureVars, clockVars, outside>>

(* ... and the state digest and the scope of the repository. *)
Compare ==
    /\ phase = "compare"
    /\ Goes(IF repo = opened.state /\ repo = 0 THEN "released" ELSE "error")
    /\ UNCHANGED <<runs, left, limits, forced, opened, processVars, captureVars, clockVars, outside>>

Caller ==
    \/ Prepare \/ Open \/ Materialize \/ MaterializeFails \/ Select \/ Start \/ StartRefused
    \/ Poll \/ Join \/ Check \/ CheckRefused \/ Collect \/ CollectFails \/ CollectFailure
    \/ Revalidate \/ Compare

-----------------------------------------------------------------------------
(* capture_stream: a read is saved as far as the stream and both streams have
   room; what does not fit raises the flag. *)
Capture(s) ==
    /\ child # "none" /\ ~ended[s] /\ pipe[s] > 0
    /\ LET kept == Smaller(Smaller(1, ProfileOutput + 1 - saved[s]), room)
       IN  /\ saved' = [saved EXCEPT ![s] = @ + kept]
           /\ room' = room - kept
           /\ overflow' = (overflow \/ kept < 1 \/ saved[s] + kept = ProfileOutput + 1)
    /\ pipe' = [pipe EXCEPT ![s] = @ - 1]
    /\ UNCHANGED <<callerVars, child, exit, stray, writes, ended, clockVars, outside>>

(* The pipe ends when nobody is left to write to it. *)
CaptureEnds(s) ==
    /\ child \in {"dead", "reaped"} /\ ~stray /\ pipe[s] = 0 /\ ~ended[s]
    /\ ended' = [ended EXCEPT ![s] = TRUE]
    /\ UNCHANGED <<callerVars, processVars, saved, room, overflow, clockVars, outside>>

-----------------------------------------------------------------------------
(* The analyzer, and what it left behind. *)
Writes(s) ==
    /\ child = "alive" \/ (stray /\ phase \in Streams)
    /\ Sum2(writes) < MaxWrites
    /\ writes' = [writes EXCEPT ![s] = @ + 1] /\ pipe' = [pipe EXCEPT ![s] = @ + 1]
    /\ UNCHANGED <<callerVars, child, exit, stray, captureVars, clockVars, outside>>

Exits ==
    /\ child = "alive" /\ child' = "dead" /\ exit' \in BOOLEAN
    /\ UNCHANGED <<callerVars, stray, pipe, writes, captureVars, clockVars, outside>>

Strays ==
    /\ \/ child = "alive" /\ ~stray /\ stray' = TRUE
       \/ stray /\ child # "alive" /\ stray' = FALSE
    /\ UNCHANGED <<callerVars, child, exit, pipe, writes, captureVars, clockVars, outside>>

Disturbs ==
    /\ child = "alive" \/ stray
    /\ snapshot = "intact" /\ snapshot' \in {"changed", "unreadable"}
    /\ UNCHANGED <<callerVars, processVars, captureVars, clockVars, repo, plan>>

(* The user edits the repository, or replaces a profile; no edit restores an
   earlier version. *)
Edits ==
    /\ ~Ended /\ repo + plan < MaxEdits /\ repo' = repo + 1
    /\ UNCHANGED <<callerVars, processVars, captureVars, clockVars, snapshot, plan>>

Replaces ==
    /\ ~Ended /\ phase # "prepare" /\ plan = 0 /\ repo < MaxEdits /\ plan' = 1
    /\ UNCHANGED <<callerVars, processVars, captureVars, clockVars, snapshot, repo>>

Tick ==
    /\ phase \in {"running", "stdout", "stderr", "check"}
    /\ elapsed < MaxElapsed \/ waited < ShutdownTime
    /\ elapsed' = Smaller(elapsed + 1, MaxElapsed)
    /\ waited' = IF phase \in Streams THEN Smaller(waited + 1, ShutdownTime) ELSE waited
    /\ UNCHANGED <<callerVars, processVars, captureVars, outside>>

Next ==
    \/ Caller
    \/ \E s \in Streams : Capture(s) \/ CaptureEnds(s) \/ Writes(s)
    \/ Exits \/ Strays \/ Disturbs \/ Edits \/ Replaces \/ Tick
    \/ Ended /\ UNCHANGED vars

(* The caller and its threads are scheduled, and the clock goes on; nothing is
   asked of the analyzer. *)
Fairness ==
    /\ WF_vars(Caller) /\ WF_vars(Tick)
    /\ \A s \in Streams : WF_vars(Capture(s)) /\ WF_vars(CaptureEnds(s))

Spec == Init /\ [][Next]_vars
FairSpec == Spec /\ Fairness

-----------------------------------------------------------------------------
StoredIn(entries) == FoldLeft(LAMBDA n, run : n + run.out, 0, entries)
Stored == StoredIn(runs)

(* "Captured output" of the cumulative budgets: what the runs stored, the sentinel
   bytes included, is what was charged, and never more than the allowance, though
   two threads of each run take from it. *)
OutputIsCharged ==
    phase = "released" => Stored = TotalOutput - left.output

(* "Every manifest profile has exactly one ordered run entry": nothing is executed
   on a snapshot that was seen changed, nor after a budget was seen spent. *)
EntriesFollow ==
    /\ phase = "released" => Len(runs) = Profiles
    /\ \A j, k \in DOMAIN runs : j < k =>
          /\ runs[j].status = "snapshot-mutated" => runs[k].status = "shared-integrity-failure"
          /\ runs[j].status = "budget-exhausted" => runs[k].status = "budget-exhausted"

(* A completed result is all the analyzer said: no byte it wrote to a pipe, before
   or after its end was seen, is missing from the captured output. *)
AcceptedIsWhole ==
    [][phase = "collect" /\ phase' = "select" => saved = writes /\ exit]_vars

(* "Any drift fails closed": what is released was captured, executed and collected
   on the repository as it was opened. *)
ReleasedIsOfOneState ==
    [][phase' = "released" /\ phase # "released" =>
          repo = 0 /\ opened = [state |-> 0, snapshot |-> 0]]_vars

(* The orchestration ends, whatever the analyzers do and leave behind. *)
OrchestrationEnds == <>Ended

(* Before release "the orchestrator revalidates ... the shared snapshot integrity.
   Any drift fails closed" (docs/static-analysis-orchestration.md). False of the
   code: see Divergences in the README. *)
ReleasedSnapshotIsIntact ==
    [][phase' = "released" /\ phase # "released" => snapshot = "intact"]_vars

=============================================================================
