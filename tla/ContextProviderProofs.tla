------------------------- MODULE ContextProviderProofs -------------------------
(***************************************************************************)
(* What a call of the context provider guarantees: its session             *)
(* (LspSession) for any limits and capacities, whatever the server writes  *)
(* and whenever it dies, and its walk over the answers (CallHierarchyWalk) *)
(* for any symbols, calls, seeds and budgets.  The two specifications      *)
(* stand side by side and share no variable.                               *)
(*                                                                         *)
(* The argument of the session: while the call goes on, the event in hand  *)
(* and the channel hold the frames right after the last one delivered, and *)
(* an end or an error is the last thing a reader ever puts there.          *)
(*                                                                         *)
(* The argument of the walk: an answer is taken by a fold over its         *)
(* targets, and each target by a fold over its ranges; what one answer     *)
(* adds is worked out first.                                               *)
(***************************************************************************)
EXTENDS LspSession, CallHierarchyWalk, SequenceFolds, FiniteSetTheorems, TLAPS

-----------------------------------------------------------------------------
(* The session. *)

\* While the call exchanges messages ...
Active == pc \in {"idle", "write", "wait", "check"}
InHand == IF pc = "check" THEN 1 ELSE 0

\* ... nothing is missing between the last frame delivered and the last one read.
Pipeline ==
    Active =>
        /\ pc = "check" <=> event # 0
        /\ event \in Frames => event = got + 1
        /\ event \in {Eof, Torn} => queue = <<>> /\ stdoutReader = "gone"
        /\ \A i \in 1..Len(queue) : IF queue[i] \in Frames THEN queue[i] = got + InHand + i
                                    ELSE i = Len(queue) /\ stdoutReader = "gone"
        /\ stdoutReader = "reading" => seen = got + InHand + Len(queue)

\* What the bounds of the variables rest on.
Counted == /\ pc = "write" => unwritten > 0
           /\ stderrSeen <= disturbances /\ seen + stdout <= MaxFrames
Typed == TypeOK /\ Counted

\* The one request that is pending is the one that is waited for.
Correlated ==
    /\ pending = {awaited} \ {0}
    /\ pc = "idle" \/ stage \in {"gate", "open", "exit"} => awaited = 0
    /\ pc \in {"exiting", "exited", "joinExited"} => stage = "exit"
    /\ stage = "exit" => pc \notin {"wait", "check"}

\* Before the spawn nothing has happened.
Fresh == /\ stage = "initialize" /\ result = "none" /\ outcome = "none" /\ awaited = 0
         /\ event = 0 /\ queue = <<>> /\ seen = 0 /\ got = 0

\* What the teardown has done by the step it stands at.
Quiet == server \in {"none", "reaped"} /\ ~stdinOpen /\ monitor \in {"none", "gone"}
Joined == stdoutReader = "gone" /\ stderrReader = "gone"
Settled ==
    /\ pc = "spawn" => Quiet /\ Joined /\ Fresh
    /\ pc \in {"exited", "joinExited"} => server = "reaped"
    /\ pc = "join" => Quiet
    /\ pc = "done" => Quiet /\ Joined

\* A session that ended well stays so: its server is reaped, its monitor gone.
EndedWell ==
    result = "ok" => /\ stage = "exit" /\ pending = {}
                     /\ server = "reaped" /\ monitor = "gone" /\ rss = "available"
                     /\ pc \in {"verify", "publish", "stop", "kill", "join", "done"}
Bound == /\ EndedWell /\ FactsAreBound
         /\ pc = "publish" /\ result = "ok" => ~drifted

Inv == Typed /\ Pipeline /\ Correlated /\ Settled /\ Bound

-----------------------------------------------------------------------------
\* The constants are numbers, and the events are.
LEMMA ConstantFacts ==
    /\ QueueCapacity \in Nat \ {0} /\ StdinCapacity \in Nat \ {0} /\ StdoutCapacity \in Nat \ {0}
    /\ OpenSize \in Nat \ {0} /\ MaxRequests \in Nat \ {0} /\ MaxMessages \in Nat \ {0}
    /\ MaxStderr \in Nat /\ MaxOutput \in Nat /\ MaxFrames \in Nat /\ MaxDisturbances \in Nat
  BY SessionAssumption

\* The end and an error are no frames.
LEMMA EventFacts ==
    /\ Frames \subseteq Nat \ {0} /\ Eof \notin Frames /\ Torn \notin Frames /\ Eof # Torn
    /\ Eof # 0 /\ Torn # 0 /\ 0 \notin Events /\ Events = Frames \cup {Eof, Torn}
  BY ConstantFacts DEF Frames, Eof, Torn, Events

Codes == ResourceCodes \cup FrameCodes \cup InvalidCodes \cup OtherCodes
Outcomes == {"none", "facts", "timeout", "unavailable", "invalid-output", "failed",
             "Preflight", "Cancelled", "StaleBinding", "DeadlineExceeded"}

\* check_limits finds a code or nothing.
LEMMA LimitIsACode == LimitError \in Codes \cup {"none"}
  BY DEF LimitError, Codes, ResourceCodes, OtherCodes

\* A failure gives the session up, and says nothing good of it.
LEMMA FailGivesUp ==
    ASSUME NEW code \in Codes, Fail(code)
    PROVE  /\ result' = code /\ result' # "ok" /\ pc' \in {"stop", "verify"}
           /\ outcome' \in {outcome, "Cancelled"}
<1>1. code # "ok"
  BY DEF Codes, ResourceCodes, FrameCodes, InvalidCodes, OtherCodes
<1>2. pc' \in {"stop", "verify"} /\ outcome' \in {outcome, "Cancelled"} /\ result' = code
  BY Zenon DEF Fail, Return
<1> QED BY <1>1, <1>2

\* Only a result that is "ok" is published as facts.
LEMMA StatusFacts == Status \in Outcomes /\ (Status = "facts" <=> result = "ok")
<1>1. \A code : /\ HandshakeStatus(code) \in Outcomes \ {"facts"}
                /\ SessionStatus(code) \in Outcomes \ {"facts"}
  <2>1. TAKE code
  <2>2. HandshakeStatus(code) \in {"timeout", "unavailable", "invalid-output", "failed"}
    BY DEF HandshakeStatus
  <2>3. SessionStatus(code) \in {"timeout", "invalid-output", "failed"}
    BY DEF SessionStatus
  <2> QED BY <2>2, <2>3 DEF Outcomes
<1>2. CASE result = "ok"
  BY <1>2 DEF Status, Outcomes
<1>3. CASE result # "ok"
  <2>1. Status \in {HandshakeStatus(result), SessionStatus(result)}
    BY <1>3 DEF Status
  <2> QED BY <1>1, <1>3, <2>1
<1> QED BY <1>2, <1>3

LEMMA InitInv == Init => Inv
<1> SUFFICES ASSUME Init PROVE Inv
  OBVIOUS
<1>1. TypeOK
  <2>1. queue \in Seq(Events) /\ Len(queue) <= QueueCapacity
    BY ConstantFacts DEF Init
  <2>2. {stdoutReader, stderrReader} \subseteq {"reading", "gone"}
    BY DEF Init
  <2>3. {stdoutOverflow, stopAsked, stdinOpen, cancelled, late, drifted} \subseteq BOOLEAN
    BY DEF Init
  <2>4. pending \subseteq Ids /\ nextId \in 1..(MaxRequests + 1) /\ awaited \in Ids
    BY ConstantFacts DEF Init, Ids
  <2> QED BY <2>1, <2>2, <2>3, <2>4, ConstantFacts DEF Init, TypeOK
<1>2. Counted
  BY ConstantFacts DEF Init, Counted
<1>3. Pipeline
  BY DEF Init, Pipeline, Active
<1>4. Correlated
  BY DEF Init, Correlated
<1>5. Settled
  BY DEF Init, Settled, Quiet, Joined, Fresh
<1>6. Bound
  BY DEF Init, Bound, EndedWell, FactsAreBound
<1> QED BY <1>1, <1>2, <1>3, <1>4, <1>5, <1>6 DEF Inv, Typed

LEMMA SettledStep ==
    ASSUME Inv, [Next]_vars
    PROVE  Settled'
<1> USE DEF vars, callerVars, correlation, readerVars, monitorVars, serverVars, pipes, outside
<1>1. CASE PreflightFails
  BY <1>1 DEF PreflightFails, Inv, Settled, Quiet, Joined, Fresh, Correlated
<1>2. CASE AccountingMissing
  BY <1>2 DEF AccountingMissing, Inv, Settled, Quiet, Joined, Fresh, Correlated
<1>3. CASE Spawn
  BY <1>3 DEF Spawn, Inv, Settled, Quiet, Joined, Fresh, Correlated
<1>4. CASE SendRequest
  BY <1>4 DEF SendRequest, Inv, Settled, Quiet, Joined, Fresh, Correlated, Fail, Return
<1>5. CASE SendNotification
  BY <1>5 DEF SendNotification, Inv, Settled, Quiet, Joined, Fresh, Correlated
<1>6. CASE LimitReached
  BY <1>6 DEF LimitReached, Inv, Settled, Quiet, Joined, Fresh, Correlated, Fail, Return
<1>7. CASE FinishCalls
  BY <1>7 DEF FinishCalls, Inv, Settled, Quiet, Joined, Fresh, Correlated
<1>8. CASE WriteUnit
  BY <1>8 DEF WriteUnit, Inv, Settled, Quiet, Joined, Fresh, Correlated
<1>9. CASE WriteFails
  BY <1>9 DEF WriteFails, Inv, Settled, Quiet, Joined, Fresh, Correlated, Fail, Return
<1>10. CASE Receive
  BY <1>10 DEF Receive, Inv, Settled, Quiet, Joined, Fresh, Correlated, Fail, Return
<1>11. CASE TakeEvent
  BY <1>11 DEF TakeEvent, Inv, Settled, Quiet, Joined, Fresh, Correlated, Fail, Return, Deliver,
     Refuse, Answered, Readiness
<1>12. CASE Reap
  BY <1>12 DEF Reap, Inv, Settled, Quiet, Joined, Fresh, Correlated
<1>13. CASE StopAfterExit
  BY <1>13 DEF StopAfterExit, Inv, Settled, Quiet, Joined, Fresh, Correlated
<1>14. CASE JoinAfterExit
  BY <1>14 DEF JoinAfterExit, Inv, Settled, Quiet, Joined, Fresh, Correlated
<1>15. CASE Stop
  BY <1>15 DEF Stop, Inv, Settled, Quiet, Joined, Fresh, Correlated
<1>16. CASE Kill
  BY <1>16 DEF Kill, Inv, Settled, Quiet, Joined, Fresh, Correlated
<1>17. CASE Join
  BY <1>17 DEF Join, Inv, Settled, Quiet, Joined, Fresh, Correlated
<1>18. CASE Verify
  BY <1>18 DEF Verify, Inv, Settled, Quiet, Joined, Fresh, Correlated, Fail, Return, RunsOut
<1>19. CASE Publish
  BY <1>19 DEF Publish, Inv, Settled, Quiet, Joined, Fresh, Correlated, Fail, Return, RunsOut
<1>20. CASE ReadFrame
  BY <1>20 DEF ReadFrame, Inv, Settled, Quiet, Joined, Fresh, Correlated
<1>21. CASE ReadBroken
  BY <1>21 DEF ReadBroken, Inv, Settled, Quiet, Joined, Fresh, Correlated
<1>22. CASE StdoutEnds
  BY <1>22 DEF StdoutEnds, Inv, Settled, Quiet, Joined, Fresh, Correlated
<1>23. CASE StderrEnds
  BY <1>23 DEF StderrEnds, Inv, Settled, Quiet, Joined, Fresh, Correlated
<1>24. CASE Sample
  BY <1>24 DEF Sample, Inv, Settled, Quiet, Joined, Fresh, Correlated
<1>25. CASE SampleDead
  BY <1>25 DEF SampleDead, Inv, Settled, Quiet, Joined, Fresh, Correlated
<1>26. CASE KillTree
  BY <1>26 DEF KillTree, Inv, Settled, Quiet, Joined, Fresh, Correlated
<1>27. CASE ServerWrites
  BY <1>27 DEF ServerWrites, Inv, Settled, Quiet, Joined, Fresh, Correlated
<1>28. CASE ServerReads
  BY <1>28 DEF ServerReads, Inv, Settled, Quiet, Joined, Fresh, Correlated
<1>29. CASE Disturb
  BY <1>29 DEF Disturb, Inv, Settled, Quiet, Joined, Fresh, Correlated
<1>30. CASE ServerExits
  BY <1>30 DEF ServerExits, Inv, Settled, Quiet, Joined, Fresh, Correlated
<1>31. CASE StrayLetsGo
  BY <1>31 DEF StrayLetsGo, Inv, Settled, Quiet, Joined, Fresh, Correlated
<1>32. CASE Tick
  BY <1>32 DEF Tick, Inv, Settled, Quiet, Joined, Fresh, Correlated
<1>33. CASE Cancel
  BY <1>33 DEF Cancel, Inv, Settled, Quiet, Joined, Fresh, Correlated
<1>34. CASE UNCHANGED vars
  BY <1>34 DEF Inv, Settled, Quiet, Joined, Fresh, Correlated
<1> QED
  BY <1>1, <1>2, <1>3, <1>4, <1>5, <1>6, <1>7, <1>8, <1>9, <1>10, <1>11, <1>12, <1>13, <1>14,
     <1>15, <1>16, <1>17, <1>18, <1>19, <1>20, <1>21, <1>22, <1>23, <1>24, <1>25, <1>26, <1>27,
     <1>28, <1>29, <1>30, <1>31, <1>32, <1>33, <1>34 DEF Next, Caller, StdoutThread, Monitor,
     Server

LEMMA CorrelatedStep ==
    ASSUME Inv, [Next]_vars
    PROVE  Correlated'
<1> USE DEF vars, callerVars, correlation, readerVars, monitorVars, serverVars, pipes, outside
<1>1. CASE PreflightFails
  BY <1>1 DEF PreflightFails, Inv, Correlated, Typed, TypeOK, Ids
<1>2. CASE AccountingMissing
  BY <1>2 DEF AccountingMissing, Inv, Correlated, Typed, TypeOK, Ids
<1>3. CASE Spawn
  BY <1>3 DEF Spawn, Inv, Correlated, Typed, TypeOK, Ids, Settled, Fresh
<1>4. CASE SendRequest
  BY <1>4 DEF SendRequest, Inv, Correlated, Typed, TypeOK, Ids, Fail, Return
<1>5. CASE SendNotification
  BY <1>5 DEF SendNotification, Inv, Correlated, Typed, TypeOK, Ids
<1>6. CASE LimitReached
  BY <1>6 DEF LimitReached, Inv, Correlated, Typed, TypeOK, Ids, Fail, Return
<1>7. CASE FinishCalls
  BY <1>7 DEF FinishCalls, Inv, Correlated, Typed, TypeOK, Ids
<1>8. CASE WriteUnit
  BY <1>8 DEF WriteUnit, Inv, Correlated, Typed, TypeOK, Ids
<1>9. CASE WriteFails
  BY <1>9 DEF WriteFails, Inv, Correlated, Typed, TypeOK, Ids, Fail, Return
<1>10. CASE Receive
  BY <1>10 DEF Receive, Inv, Correlated, Typed, TypeOK, Ids, Fail, Return
<1>11. CASE TakeEvent
  BY <1>11 DEF TakeEvent, Inv, Correlated, Typed, TypeOK, Ids, Fail, Return, Deliver, Refuse,
     Answered, Readiness
<1>12. CASE Reap
  BY <1>12 DEF Reap, Inv, Correlated, Typed, TypeOK, Ids
<1>13. CASE StopAfterExit
  BY <1>13 DEF StopAfterExit, Inv, Correlated, Typed, TypeOK, Ids
<1>14. CASE JoinAfterExit
  BY <1>14 DEF JoinAfterExit, Inv, Correlated, Typed, TypeOK, Ids
<1>15. CASE Stop
  BY <1>15 DEF Stop, Inv, Correlated, Typed, TypeOK, Ids
<1>16. CASE Kill
  BY <1>16 DEF Kill, Inv, Correlated, Typed, TypeOK, Ids
<1>17. CASE Join
  BY <1>17 DEF Join, Inv, Correlated, Typed, TypeOK, Ids
<1>18. CASE Verify
  BY <1>18 DEF Verify, Inv, Correlated, Typed, TypeOK, Ids, Fail, Return, RunsOut
<1>19. CASE Publish
  BY <1>19 DEF Publish, Inv, Correlated, Typed, TypeOK, Ids, Fail, Return, RunsOut
<1>20. CASE ReadFrame
  BY <1>20 DEF ReadFrame, Inv, Correlated, Typed, TypeOK, Ids
<1>21. CASE ReadBroken
  BY <1>21 DEF ReadBroken, Inv, Correlated, Typed, TypeOK, Ids
<1>22. CASE StdoutEnds
  BY <1>22 DEF StdoutEnds, Inv, Correlated, Typed, TypeOK, Ids
<1>23. CASE StderrEnds
  BY <1>23 DEF StderrEnds, Inv, Correlated, Typed, TypeOK, Ids
<1>24. CASE Sample
  BY <1>24 DEF Sample, Inv, Correlated, Typed, TypeOK, Ids
<1>25. CASE SampleDead
  BY <1>25 DEF SampleDead, Inv, Correlated, Typed, TypeOK, Ids
<1>26. CASE KillTree
  BY <1>26 DEF KillTree, Inv, Correlated, Typed, TypeOK, Ids
<1>27. CASE ServerWrites
  BY <1>27 DEF ServerWrites, Inv, Correlated, Typed, TypeOK, Ids
<1>28. CASE ServerReads
  BY <1>28 DEF ServerReads, Inv, Correlated, Typed, TypeOK, Ids
<1>29. CASE Disturb
  BY <1>29 DEF Disturb, Inv, Correlated, Typed, TypeOK, Ids
<1>30. CASE ServerExits
  BY <1>30 DEF ServerExits, Inv, Correlated, Typed, TypeOK, Ids
<1>31. CASE StrayLetsGo
  BY <1>31 DEF StrayLetsGo, Inv, Correlated, Typed, TypeOK, Ids
<1>32. CASE Tick
  BY <1>32 DEF Tick, Inv, Correlated, Typed, TypeOK, Ids
<1>33. CASE Cancel
  BY <1>33 DEF Cancel, Inv, Correlated, Typed, TypeOK, Ids
<1>34. CASE UNCHANGED vars
  BY <1>34 DEF Inv, Correlated, Typed, TypeOK, Ids
<1> QED
  BY <1>1, <1>2, <1>3, <1>4, <1>5, <1>6, <1>7, <1>8, <1>9, <1>10, <1>11, <1>12, <1>13, <1>14,
     <1>15, <1>16, <1>17, <1>18, <1>19, <1>20, <1>21, <1>22, <1>23, <1>24, <1>25, <1>26, <1>27,
     <1>28, <1>29, <1>30, <1>31, <1>32, <1>33, <1>34 DEF Next, Caller, StdoutThread, Monitor,
     Server

LEMMA BoundStep ==
    ASSUME Inv, [Next]_vars
    PROVE  Bound'
<1> USE DEF vars, callerVars, correlation, readerVars, monitorVars, serverVars, pipes, outside
<1>1. CASE PreflightFails
  BY <1>1 DEF PreflightFails, Inv, Bound, EndedWell, FactsAreBound, Correlated, Codes,
     ResourceCodes, FrameCodes, InvalidCodes, OtherCodes
<1>2. CASE AccountingMissing
  BY <1>2 DEF AccountingMissing, Inv, Bound, EndedWell, FactsAreBound, Correlated, Codes,
     ResourceCodes, FrameCodes, InvalidCodes, OtherCodes
<1>3. CASE Spawn
  BY <1>3 DEF Spawn, Inv, Bound, EndedWell, FactsAreBound, Correlated, Codes, ResourceCodes,
     FrameCodes, InvalidCodes, OtherCodes
<1>4. CASE SendRequest
  BY <1>4 DEF SendRequest, Inv, Bound, EndedWell, FactsAreBound, Correlated, Codes,
     ResourceCodes, FrameCodes, InvalidCodes, OtherCodes, Fail, Return
<1>5. CASE SendNotification
  BY <1>5 DEF SendNotification, Inv, Bound, EndedWell, FactsAreBound, Correlated, Codes,
     ResourceCodes, FrameCodes, InvalidCodes, OtherCodes
<1>6. CASE LimitReached
  BY <1>6, LimitIsACode DEF LimitReached, Inv, Bound, EndedWell, FactsAreBound, Correlated,
     Codes, ResourceCodes, FrameCodes, InvalidCodes, OtherCodes, Fail, Return
<1>7. CASE FinishCalls
  BY <1>7 DEF FinishCalls, Inv, Bound, EndedWell, FactsAreBound, Correlated, Codes,
     ResourceCodes, FrameCodes, InvalidCodes, OtherCodes
<1>8. CASE WriteUnit
  BY <1>8 DEF WriteUnit, Inv, Bound, EndedWell, FactsAreBound, Correlated, Codes, ResourceCodes,
     FrameCodes, InvalidCodes, OtherCodes
<1>9. CASE WriteFails
  BY <1>9 DEF WriteFails, Inv, Bound, EndedWell, FactsAreBound, Correlated, Codes,
     ResourceCodes, FrameCodes, InvalidCodes, OtherCodes, Fail, Return
<1>10. CASE Receive
  BY <1>10 DEF Receive, Inv, Bound, EndedWell, FactsAreBound, Correlated, Codes, ResourceCodes,
     FrameCodes, InvalidCodes, OtherCodes, Fail, Return
<1>11. CASE TakeEvent
  BY <1>11 DEF TakeEvent, Inv, Bound, EndedWell, FactsAreBound, Correlated, Codes,
     ResourceCodes, FrameCodes, InvalidCodes, OtherCodes, Fail, Return, Deliver, Refuse,
     Answered, Readiness
<1>12. CASE Reap
  BY <1>12 DEF Reap, Inv, Bound, EndedWell, FactsAreBound, Correlated, Codes, ResourceCodes,
     FrameCodes, InvalidCodes, OtherCodes
<1>13. CASE StopAfterExit
  BY <1>13 DEF StopAfterExit, Inv, Bound, EndedWell, FactsAreBound, Correlated, Codes,
     ResourceCodes, FrameCodes, InvalidCodes, OtherCodes
<1>14. CASE JoinAfterExit
  BY <1>14 DEF JoinAfterExit, Inv, Bound, EndedWell, FactsAreBound, Correlated, Codes,
     ResourceCodes, FrameCodes, InvalidCodes, OtherCodes, Settled, Typed, TypeOK
<1>15. CASE Stop
  BY <1>15 DEF Stop, Inv, Bound, EndedWell, FactsAreBound, Correlated, Codes, ResourceCodes,
     FrameCodes, InvalidCodes, OtherCodes
<1>16. CASE Kill
  BY <1>16 DEF Kill, Inv, Bound, EndedWell, FactsAreBound, Correlated, Codes, ResourceCodes,
     FrameCodes, InvalidCodes, OtherCodes
<1>17. CASE Join
  BY <1>17 DEF Join, Inv, Bound, EndedWell, FactsAreBound, Correlated, Codes, ResourceCodes,
     FrameCodes, InvalidCodes, OtherCodes
<1>18. CASE Verify
  BY <1>18 DEF Verify, Inv, Bound, EndedWell, FactsAreBound, Correlated, Codes, ResourceCodes,
     FrameCodes, InvalidCodes, OtherCodes, Fail, Return, RunsOut
<1>19. CASE Publish
  BY <1>19, StatusFacts DEF Publish, Inv, Bound, EndedWell, FactsAreBound, Correlated, Codes,
     ResourceCodes, FrameCodes, InvalidCodes, OtherCodes, Fail, Return, RunsOut
<1>20. CASE ReadFrame
  BY <1>20 DEF ReadFrame, Inv, Bound, EndedWell, FactsAreBound, Correlated, Codes,
     ResourceCodes, FrameCodes, InvalidCodes, OtherCodes
<1>21. CASE ReadBroken
  BY <1>21 DEF ReadBroken, Inv, Bound, EndedWell, FactsAreBound, Correlated, Codes,
     ResourceCodes, FrameCodes, InvalidCodes, OtherCodes
<1>22. CASE StdoutEnds
  BY <1>22 DEF StdoutEnds, Inv, Bound, EndedWell, FactsAreBound, Correlated, Codes,
     ResourceCodes, FrameCodes, InvalidCodes, OtherCodes
<1>23. CASE StderrEnds
  BY <1>23 DEF StderrEnds, Inv, Bound, EndedWell, FactsAreBound, Correlated, Codes,
     ResourceCodes, FrameCodes, InvalidCodes, OtherCodes
<1>24. CASE Sample
  BY <1>24 DEF Sample, Inv, Bound, EndedWell, FactsAreBound, Correlated, Codes, ResourceCodes,
     FrameCodes, InvalidCodes, OtherCodes
<1>25. CASE SampleDead
  BY <1>25 DEF SampleDead, Inv, Bound, EndedWell, FactsAreBound, Correlated, Codes,
     ResourceCodes, FrameCodes, InvalidCodes, OtherCodes
<1>26. CASE KillTree
  BY <1>26 DEF KillTree, Inv, Bound, EndedWell, FactsAreBound, Correlated, Codes, ResourceCodes,
     FrameCodes, InvalidCodes, OtherCodes
<1>27. CASE ServerWrites
  BY <1>27 DEF ServerWrites, Inv, Bound, EndedWell, FactsAreBound, Correlated, Codes,
     ResourceCodes, FrameCodes, InvalidCodes, OtherCodes
<1>28. CASE ServerReads
  BY <1>28 DEF ServerReads, Inv, Bound, EndedWell, FactsAreBound, Correlated, Codes,
     ResourceCodes, FrameCodes, InvalidCodes, OtherCodes
<1>29. CASE Disturb
  BY <1>29 DEF Disturb, Inv, Bound, EndedWell, FactsAreBound, Correlated, Codes,
     ResourceCodes, FrameCodes, InvalidCodes, OtherCodes
<1>30. CASE ServerExits
  BY <1>30 DEF ServerExits, Inv, Bound, EndedWell, FactsAreBound, Correlated, Codes,
     ResourceCodes, FrameCodes, InvalidCodes, OtherCodes
<1>31. CASE StrayLetsGo
  BY <1>31 DEF StrayLetsGo, Inv, Bound, EndedWell, FactsAreBound, Correlated, Codes,
     ResourceCodes, FrameCodes, InvalidCodes, OtherCodes
<1>32. CASE Tick
  BY <1>32 DEF Tick, Inv, Bound, EndedWell, FactsAreBound, Correlated, Codes, ResourceCodes,
     FrameCodes, InvalidCodes, OtherCodes
<1>33. CASE Cancel
  BY <1>33 DEF Cancel, Inv, Bound, EndedWell, FactsAreBound, Correlated, Codes, ResourceCodes,
     FrameCodes, InvalidCodes, OtherCodes
<1>34. CASE UNCHANGED vars
  BY <1>34 DEF Inv, Bound, EndedWell, FactsAreBound, Correlated, Codes, ResourceCodes,
     FrameCodes, InvalidCodes, OtherCodes
<1> QED
  BY <1>1, <1>2, <1>3, <1>4, <1>5, <1>6, <1>7, <1>8, <1>9, <1>10, <1>11, <1>12, <1>13, <1>14,
     <1>15, <1>16, <1>17, <1>18, <1>19, <1>20, <1>21, <1>22, <1>23, <1>24, <1>25, <1>26, <1>27,
     <1>28, <1>29, <1>30, <1>31, <1>32, <1>33, <1>34 DEF Next, Caller, StdoutThread, Monitor,
     Server

\* The channel is read from the front and filled at the back.
LEMMA QueueFacts ==
    ASSUME NEW S, NEW q \in Seq(S)
    PROVE  /\ Len(q) \in Nat
           /\ \A e \in S : /\ Append(q, e) \in Seq(S) /\ Len(Append(q, e)) = Len(q) + 1
                           /\ \A i \in 1..Len(q) : Append(q, e)[i] = q[i]
                           /\ Append(q, e)[Len(q) + 1] = e
           /\ q # <<>> => /\ Len(q) > 0 /\ Head(q) = q[1] /\ Head(q) \in S /\ Tail(q) \in Seq(S)
                          /\ Len(Tail(q)) = Len(q) - 1
                          /\ \A i \in 1..Len(Tail(q)) : Tail(q)[i] = q[i + 1]
<1>1. Len(q) \in Nat /\ (q # <<>> => Len(q) > 0)
  OBVIOUS
<1>2. ASSUME NEW e \in S
      PROVE  /\ Append(q, e) \in Seq(S) /\ Len(Append(q, e)) = Len(q) + 1
             /\ \A i \in 1..Len(q) : Append(q, e)[i] = q[i]
             /\ Append(q, e)[Len(q) + 1] = e
  OBVIOUS
<1>3. ASSUME q # <<>>
      PROVE  /\ Head(q) = q[1] /\ Head(q) \in S /\ Tail(q) \in Seq(S)
             /\ Len(Tail(q)) = Len(q) - 1
             /\ \A i \in 1..Len(Tail(q)) : Tail(q)[i] = q[i + 1]
  BY <1>3
<1> QED BY <1>1, <1>2, <1>3

\* A receive takes the first event of the channel in hand.
LEMMA ReceivePipeline == ASSUME Inv, Receive PROVE Pipeline'
<1>0. /\ queue \in Seq(Events) /\ got \in Nat
      /\ \A i \in 1..Len(queue) : IF queue[i] \in Frames THEN queue[i] = got + i
                                  ELSE i = Len(queue) /\ stdoutReader = "gone"
      /\ stdoutReader = "reading" => seen = got + Len(queue)
  <2>1. pc = "wait"
    BY DEF Receive
  <2>2. got + 0 = got /\ got \in Nat /\ queue \in Seq(Events)
    BY ConstantFacts DEF Inv, Typed, TypeOK
  <2>3. /\ \A i \in 1..Len(queue) : IF queue[i] \in Frames THEN queue[i] = got + 0 + i
                                    ELSE i = Len(queue) /\ stdoutReader = "gone"
        /\ stdoutReader = "reading" => seen = got + 0 + Len(queue)
    BY <2>1 DEF Inv, Pipeline, Active, InHand
  <2> QED BY <2>2, <2>3
<1>1. CASE queue # <<>>
  <2>1. /\ pc = "wait" /\ pc' = "check" /\ event' = Head(queue) /\ queue' = Tail(queue)
        /\ UNCHANGED <<got, stdoutReader, seen>>
    BY <1>1 DEF Receive, readerVars
  <2>2. /\ Len(queue) \in Nat /\ Len(queue) > 0 /\ event' = queue[1] /\ event' \in Events
        /\ Len(queue') = Len(queue) - 1 /\ queue' \in Seq(Events)
        /\ \A i \in 1..Len(queue') : queue'[i] = queue[i + 1]
    BY <1>0, <1>1, <2>1, QueueFacts
  <2>3. event' # 0 /\ (event' \in Frames => event' = got + 1)
    BY <1>0, <2>2, EventFacts
  <2>4. event' \notin Frames => Len(queue) = 1 /\ stdoutReader = "gone"
    BY <1>0, <2>2
  <2>5. event' \in {Eof, Torn} => queue' = <<>> /\ stdoutReader' = "gone"
    BY <2>1, <2>2, <2>4, EventFacts
  <2>6. ASSUME NEW i \in 1..Len(queue')
        PROVE  IF queue'[i] \in Frames THEN queue'[i] = got + 1 + i
               ELSE i = Len(queue') /\ stdoutReader' = "gone"
    <3>1. i + 1 \in 1..Len(queue) /\ queue'[i] = queue[i + 1]
      BY <2>2
    <3>2. IF queue[i + 1] \in Frames THEN queue[i + 1] = got + (i + 1)
          ELSE i + 1 = Len(queue) /\ stdoutReader = "gone"
      BY <1>0, <3>1
    <3>3. got + (i + 1) = got + 1 + i /\ (i + 1 = Len(queue) => i = Len(queue'))
      BY <1>0, <2>2
    <3> QED BY <2>1, <3>1, <3>2, <3>3
  <2>7. stdoutReader' = "reading" => seen' = got + 1 + Len(queue')
    BY <1>0, <2>1, <2>2
  <2> QED BY <2>1, <2>3, <2>5, <2>6, <2>7 DEF Pipeline, Active, InHand
<1>2. CASE queue = <<>>
  BY <1>2 DEF Receive, Fail, Return, Pipeline, Active
<1> QED BY <1>1, <1>2

\* What is delivered is the event in hand, and that is the next frame.
LEMMA TakeEventPipeline == ASSUME Inv, TakeEvent PROVE Pipeline'
<1> USE DEF Inv, Typed, TypeOK, Pipeline, Active, InHand
<1>1. pc = "check" /\ event' = 0 /\ UNCHANGED <<queue, stdoutReader, seen>>
  BY DEF TakeEvent, readerVars
<1>2. pc' # "check"
  BY DEF TakeEvent, Deliver, Refuse, Answered, Readiness, Fail, Return
<1>3. CASE Deliver
  <2>1. got' = got + 1 /\ event \in Frames
    BY <1>1, <1>3 DEF Deliver
  <2>2. \A i \in 1..Len(queue) : IF queue[i] \in Frames THEN queue[i] = got + 1 + i
                                 ELSE i = Len(queue) /\ stdoutReader = "gone"
    BY <1>1
  <2>3. stdoutReader = "reading" => seen = got + 1 + Len(queue)
    BY <1>1
  <2> QED BY <1>1, <1>2, <2>1, <2>2, <2>3, EventFacts
<1>4. CASE Refuse
  BY <1>4 DEF Refuse, Fail, Return
<1> QED BY <1>3, <1>4 DEF TakeEvent

\* The reader appends the next frame, or ends with the end or the error it found.
LEMMA OfferPipeline ==
    ASSUME Inv, stdoutReader = "reading", NEW e \in Events, Offer(e),
           UNCHANGED <<pc, event, got>>,
           \/ stdoutReader' = "gone" /\ (e \in Frames => e = seen + 1)
           \/ stdoutReader' = "reading" /\ e = seen + 1 /\ e \in Frames /\ seen' = e
                 /\ Len(queue) < QueueCapacity
    PROVE  Pipeline'
<1> DEFINE k == got + InHand
<1> SUFFICES ASSUME Active PROVE Pipeline'
  BY DEF Pipeline, Active
<1>a. k' = k
  BY DEF InHand
<1>1. /\ Len(queue) \in Nat /\ k \in Nat /\ seen = k + Len(queue) /\ event \notin {Eof, Torn}
      /\ (pc = "check" <=> event # 0) /\ (event \in Frames => event = got + 1)
      /\ \A i \in 1..Len(queue) : queue[i] \in Frames /\ queue[i] = k + i
  <2>1. Len(queue) \in Nat /\ k \in Nat
    BY ConstantFacts DEF Inv, Typed, TypeOK, InHand
  <2>2. seen = k + Len(queue) /\ event \notin {Eof, Torn}
    BY DEF Inv, Pipeline
  <2>3. \A i \in 1..Len(queue) : queue[i] \in Frames /\ queue[i] = k + i
    BY DEF Inv, Pipeline
  <2>4. (pc = "check" <=> event # 0) /\ (event \in Frames => event = got + 1)
    BY DEF Inv, Pipeline
  <2> QED BY <2>1, <2>2, <2>3, <2>4
<1>b. queue \in Seq(Events)
  BY DEF Inv, Typed, TypeOK
<1> HIDE DEF k
<1>2. CASE Len(queue) < QueueCapacity
  <2>1. queue' = Append(queue, e)
    BY <1>2 DEF Offer
  <2>2. /\ Len(queue') = Len(queue) + 1 /\ queue'[Len(queue) + 1] = e
        /\ \A i \in 1..Len(queue) : queue'[i] = queue[i]
    BY <1>b, <2>1, QueueFacts
  <2>3. ASSUME NEW i \in 1..Len(queue')
        PROVE  IF queue'[i] \in Frames THEN queue'[i] = k + i
               ELSE i = Len(queue') /\ stdoutReader' = "gone"
    <3>1. CASE i = Len(queue) + 1
      BY <1>1, <2>2, <3>1
    <3>2. CASE i \in 1..Len(queue)
      BY <1>1, <2>2, <3>2
    <3> QED BY <1>1, <2>2, <3>1, <3>2
  <2>4. stdoutReader' = "reading" => seen' = k + Len(queue')
    BY <1>1, <2>2
  <2> QED BY <1>1, <1>a, <2>3, <2>4 DEF Pipeline, k
<1>3. CASE ~(Len(queue) < QueueCapacity)
  <2>1. queue' = queue /\ stdoutReader' = "gone"
    BY <1>3 DEF Offer
  <2> QED BY <1>1, <1>a, <2>1 DEF Pipeline, k
<1> QED BY <1>2, <1>3

LEMMA ReadFramePipeline == ASSUME Inv, ReadFrame PROVE Pipeline'
<1>1. /\ stdoutReader = "reading" /\ seen' = seen + 1 /\ UNCHANGED <<pc, event, got>>
      /\ seen + 1 \in Frames
  BY ConstantFacts DEF Inv, Typed, TypeOK, Counted, Frames, ReadFrame, callerVars
<1>2. CASE seen + 1 + stderrSeen > MaxOutput
  BY <1>1, <1>2, ConstantFacts DEF Inv, Typed, TypeOK, Pipeline, Active, InHand, ReadFrame
<1>3. CASE ~(seen + 1 + stderrSeen > MaxOutput)
  <2>1. Offer(seen + 1) /\ stdoutReader' = IF Len(queue) = QueueCapacity THEN "gone" ELSE "reading"
    BY <1>3 DEF ReadFrame
  <2>2. Len(queue) # QueueCapacity => Len(queue) < QueueCapacity
    BY ConstantFacts DEF Inv, Typed, TypeOK
  <2> QED BY <1>1, <2>1, <2>2, OfferPipeline, EventFacts
<1> QED BY <1>2, <1>3

LEMMA StreamEndPipeline == ASSUME Inv, ReadBroken \/ StdoutEnds PROVE Pipeline'
<1>1. /\ stdoutReader = "reading" /\ stdoutReader' = "gone" /\ UNCHANGED <<pc, event, got>>
      /\ Offer(Torn) \/ Offer(Eof)
  BY DEF ReadBroken, StdoutEnds, callerVars
<1> QED BY <1>1, OfferPipeline, EventFacts

LEMMA PipelineStep ==
    ASSUME Inv, [Next]_vars
    PROVE  Pipeline'
<1> USE DEF vars, callerVars, correlation, readerVars, monitorVars, serverVars, pipes, outside
<1>1. CASE PreflightFails
  BY <1>1 DEF PreflightFails, Inv, Typed, TypeOK, Pipeline, Active, InHand
<1>2. CASE AccountingMissing
  BY <1>2 DEF AccountingMissing, Inv, Typed, TypeOK, Pipeline, Active, InHand
<1>3. CASE Spawn
  BY <1>3, ConstantFacts, EventFacts DEF Spawn, Inv, Typed, TypeOK, Pipeline, Active, InHand,
     Settled, Fresh
<1>4. CASE SendRequest
  BY <1>4 DEF SendRequest, Inv, Typed, TypeOK, Pipeline, Active, InHand, Fail, Return
<1>5. CASE SendNotification
  BY <1>5 DEF SendNotification, Inv, Typed, TypeOK, Pipeline, Active, InHand
<1>6. CASE LimitReached
  BY <1>6 DEF LimitReached, Inv, Typed, TypeOK, Pipeline, Active, InHand, Fail, Return
<1>7. CASE FinishCalls
  BY <1>7 DEF FinishCalls, Inv, Typed, TypeOK, Pipeline, Active, InHand
<1>8. CASE WriteUnit
  BY <1>8 DEF WriteUnit, Inv, Typed, TypeOK, Pipeline, Active, InHand
<1>9. CASE WriteFails
  BY <1>9 DEF WriteFails, Inv, Typed, TypeOK, Pipeline, Active, InHand, Fail, Return
<1>10. CASE Receive
  BY <1>10, ReceivePipeline
<1>11. CASE TakeEvent
  BY <1>11, TakeEventPipeline
<1>12. CASE Reap
  BY <1>12 DEF Reap, Inv, Typed, TypeOK, Pipeline, Active, InHand
<1>13. CASE StopAfterExit
  BY <1>13 DEF StopAfterExit, Inv, Typed, TypeOK, Pipeline, Active, InHand
<1>14. CASE JoinAfterExit
  BY <1>14 DEF JoinAfterExit, Inv, Typed, TypeOK, Pipeline, Active, InHand
<1>15. CASE Stop
  BY <1>15 DEF Stop, Inv, Typed, TypeOK, Pipeline, Active, InHand
<1>16. CASE Kill
  BY <1>16 DEF Kill, Inv, Typed, TypeOK, Pipeline, Active, InHand
<1>17. CASE Join
  BY <1>17 DEF Join, Inv, Typed, TypeOK, Pipeline, Active, InHand
<1>18. CASE Verify
  BY <1>18 DEF Verify, Inv, Typed, TypeOK, Pipeline, Active, InHand, Fail, Return, RunsOut
<1>19. CASE Publish
  BY <1>19 DEF Publish, Inv, Typed, TypeOK, Pipeline, Active, InHand, Fail, Return, RunsOut
<1>20. CASE ReadFrame
  BY <1>20, ReadFramePipeline
<1>21. CASE ReadBroken
  BY <1>21, StreamEndPipeline
<1>22. CASE StdoutEnds
  BY <1>22, StreamEndPipeline
<1>23. CASE StderrEnds
  BY <1>23 DEF StderrEnds, Inv, Typed, TypeOK, Pipeline, Active, InHand
<1>24. CASE Sample
  BY <1>24 DEF Sample, Inv, Typed, TypeOK, Pipeline, Active, InHand
<1>25. CASE SampleDead
  BY <1>25 DEF SampleDead, Inv, Typed, TypeOK, Pipeline, Active, InHand
<1>26. CASE KillTree
  BY <1>26 DEF KillTree, Inv, Typed, TypeOK, Pipeline, Active, InHand
<1>27. CASE ServerWrites
  BY <1>27 DEF ServerWrites, Inv, Typed, TypeOK, Pipeline, Active, InHand
<1>28. CASE ServerReads
  BY <1>28 DEF ServerReads, Inv, Typed, TypeOK, Pipeline, Active, InHand
<1>29. CASE Disturb
  BY <1>29 DEF Disturb, Inv, Typed, TypeOK, Pipeline, Active, InHand
<1>30. CASE ServerExits
  BY <1>30 DEF ServerExits, Inv, Typed, TypeOK, Pipeline, Active, InHand
<1>31. CASE StrayLetsGo
  BY <1>31 DEF StrayLetsGo, Inv, Typed, TypeOK, Pipeline, Active, InHand
<1>32. CASE Tick
  BY <1>32 DEF Tick, Inv, Typed, TypeOK, Pipeline, Active, InHand
<1>33. CASE Cancel
  BY <1>33 DEF Cancel, Inv, Typed, TypeOK, Pipeline, Active, InHand
<1>34. CASE UNCHANGED vars
  BY <1>34 DEF Inv, Typed, TypeOK, Pipeline, Active, InHand
<1> QED
  BY <1>1, <1>2, <1>3, <1>4, <1>5, <1>6, <1>7, <1>8, <1>9, <1>10, <1>11, <1>12, <1>13, <1>14,
     <1>15, <1>16, <1>17, <1>18, <1>19, <1>20, <1>21, <1>22, <1>23, <1>24, <1>25, <1>26, <1>27,
     <1>28, <1>29, <1>30, <1>31, <1>32, <1>33, <1>34 DEF Next, Caller, StdoutThread, Monitor,
     Server

\* The variables of each party keep their types, and the counters their bounds.
CallerTyped ==
    /\ pc \in {"spawn", "idle", "write", "wait", "check", "exiting", "exited",
               "joinExited", "stop", "kill", "join", "verify", "publish", "done"}
    /\ stage \in {"initialize", "gate", "open", "calls", "shutdown", "exit"}
    /\ awaited \in Ids /\ unwritten \in Nat /\ (pc = "write" => unwritten > 0)
    /\ event \in Events \cup {0}
    /\ result \in Codes \cup {"none", "ok"} /\ outcome \in Outcomes
CorrelationTyped ==
    /\ pending \subseteq Ids /\ nextId \in 1..(MaxRequests + 1) /\ messages \in 0..MaxMessages
    /\ got \in 0..MaxFrames
ReadersTyped ==
    /\ queue \in Seq(Events) /\ Len(queue) <= QueueCapacity
    /\ stdoutReader \in {"reading", "gone"} /\ stderrReader \in {"reading", "gone"}
    /\ seen \in 0..MaxFrames /\ stderrSeen \in 0..MaxDisturbances
    /\ stdoutOverflow \in BOOLEAN
    /\ disturbances \in 0..MaxDisturbances /\ stderrSeen <= disturbances
    /\ stdout \in 0..StdoutCapacity /\ seen + stdout <= MaxFrames
OthersTyped ==
    /\ stopAsked \in BOOLEAN /\ stdinOpen \in BOOLEAN /\ cancelled \in BOOLEAN
    /\ late \in BOOLEAN /\ drifted \in BOOLEAN
    /\ monitor \in {"none", "up", "over", "gone"}
    /\ rss \in {"available", "limit", "unavailable"}
    /\ server \in {"none", "live", "zombie", "reaped"}
    /\ stray \in {"none", "unseen", "tracked", "detached", "followed"}
    /\ stdin \in 0..StdinCapacity

LEMMA TypedParts ==
    Typed <=> CallerTyped /\ CorrelationTyped /\ ReadersTyped /\ OthersTyped
<1>1. {stdoutReader, stderrReader} \subseteq {"reading", "gone"}
        <=> stdoutReader \in {"reading", "gone"} /\ stderrReader \in {"reading", "gone"}
  OBVIOUS
<1>2. {stdoutOverflow, stopAsked, stdinOpen, cancelled, late, drifted} \subseteq BOOLEAN
        <=> /\ stdoutOverflow \in BOOLEAN /\ stopAsked \in BOOLEAN /\ stdinOpen \in BOOLEAN
            /\ cancelled \in BOOLEAN /\ late \in BOOLEAN /\ drifted \in BOOLEAN
  OBVIOUS
<1>3. /\ result \in ResourceCodes \cup FrameCodes \cup InvalidCodes \cup OtherCodes
                      \cup {"none", "ok"}
        <=> result \in Codes \cup {"none", "ok"}
  BY DEF Codes
<1> QED BY <1>1, <1>2, <1>3
        DEF Typed, TypeOK, Counted, CallerTyped, CorrelationTyped, ReadersTyped, OthersTyped,
            Outcomes

LEMMA CodeFacts ==
    {"provider-request-limit", "provider-write-failed", "provider-child-exited",
     "provider-child-eof", "provider-message-limit", "provider-frame-limit",
     "provider-initialize-failed", "provider-shutdown-failed", "provider-server-error",
     "provider-readiness-unavailable", "process-tree-rss-accounting-unavailable",
     "process-tree-rss-limit"} \cup InvalidCodes \subseteq Codes
  BY DEF Codes, ResourceCodes, FrameCodes, InvalidCodes, OtherCodes

LEMMA TypedStep ==
    ASSUME Inv, [Next]_vars
    PROVE  Typed'
<1> USE DEF vars, callerVars, correlation, readerVars, monitorVars, serverVars, pipes, outside
<1>0. CallerTyped /\ CorrelationTyped /\ ReadersTyped /\ OthersTyped
  BY TypedParts DEF Inv
<1> SUFFICES CallerTyped' /\ CorrelationTyped' /\ ReadersTyped' /\ OthersTyped'
  BY TypedParts, PTL
<1>1. CASE PreflightFails
  <2>1. CallerTyped'
    BY <1>0, <1>1 DEF PreflightFails, CallerTyped, Outcomes
  <2>2. CorrelationTyped' /\ ReadersTyped' /\ OthersTyped'
    BY <1>0, <1>1 DEF PreflightFails, CorrelationTyped, ReadersTyped, OthersTyped
  <2> QED BY <2>1, <2>2
<1>2. CASE AccountingMissing
  <2>1. CallerTyped'
    BY <1>0, <1>2, CodeFacts DEF AccountingMissing, CallerTyped, Outcomes
  <2>2. OthersTyped'
    BY <1>0, <1>2, ConstantFacts DEF AccountingMissing, OthersTyped
  <2>3. CorrelationTyped' /\ ReadersTyped'
    BY <1>0, <1>2 DEF AccountingMissing, CorrelationTyped, ReadersTyped
  <2> QED BY <2>1, <2>2, <2>3
<1>3. CASE Spawn
  <2>1. CallerTyped'
    BY <1>0, <1>3 DEF Spawn, CallerTyped, Outcomes
  <2>2. ReadersTyped'
    BY <1>0, <1>3, ConstantFacts DEF Spawn, ReadersTyped
  <2>3. OthersTyped'
    BY <1>0, <1>3, ConstantFacts DEF Spawn, OthersTyped
  <2>4. CorrelationTyped'
    BY <1>0, <1>3 DEF Spawn, CorrelationTyped
  <2> QED BY <2>1, <2>2, <2>3, <2>4
<1>4. CASE SendRequest
  <2>1. CallerTyped'
    BY <1>0, <1>4, ConstantFacts, CodeFacts DEF SendRequest, CallerTyped, CorrelationTyped, Ids,
       Fail, Return, Outcomes
  <2>2. CorrelationTyped'
    <3>1. UNCHANGED <<messages, got>>
      BY <1>4 DEF SendRequest
    <3>2. CASE nextId > MaxRequests
      BY <1>0, <1>4, <3>2 DEF SendRequest, CorrelationTyped
    <3>3. CASE ~(nextId > MaxRequests)
      <4>1. nextId \in Ids /\ nextId' = nextId + 1 /\ pending' = pending \cup {nextId}
        BY <1>0, <1>4, <3>3, ConstantFacts DEF SendRequest, CorrelationTyped, Ids
      <4>2. pending' \subseteq Ids /\ nextId' \in 1..(MaxRequests + 1)
        BY <1>0, <3>3, <4>1, ConstantFacts DEF CorrelationTyped
      <4> QED BY <1>0, <3>1, <4>2 DEF CorrelationTyped, Ids
    <3> QED BY <3>2, <3>3
  <2>3. ReadersTyped' /\ OthersTyped'
    BY <1>0, <1>4 DEF SendRequest, ReadersTyped, OthersTyped
  <2> QED BY <2>1, <2>2, <2>3
<1>5. CASE SendNotification
  <2>1. CallerTyped'
    BY <1>0, <1>5, ConstantFacts DEF SendNotification, CallerTyped, Outcomes
  <2>2. CorrelationTyped' /\ ReadersTyped' /\ OthersTyped'
    BY <1>0, <1>5 DEF SendNotification, CorrelationTyped, ReadersTyped, OthersTyped
  <2> QED BY <2>1, <2>2
<1>6. CASE LimitReached
  <2>1. CallerTyped'
    BY <1>0, <1>6, CodeFacts, LimitIsACode DEF LimitReached, CallerTyped, Fail, Return, Outcomes
  <2>2. CorrelationTyped' /\ ReadersTyped' /\ OthersTyped'
    BY <1>0, <1>6 DEF LimitReached, CorrelationTyped, ReadersTyped, OthersTyped
  <2> QED BY <2>1, <2>2
<1>7. CASE FinishCalls
  <2>1. CallerTyped'
    BY <1>0, <1>7 DEF FinishCalls, CallerTyped, Outcomes
  <2>2. CorrelationTyped' /\ ReadersTyped' /\ OthersTyped'
    BY <1>0, <1>7 DEF FinishCalls, CorrelationTyped, ReadersTyped, OthersTyped
  <2> QED BY <2>1, <2>2
<1>8. CASE WriteUnit
  <2>1. CallerTyped'
    BY <1>0, <1>8, ConstantFacts DEF WriteUnit, CallerTyped, Outcomes
  <2>2. OthersTyped'
    BY <1>0, <1>8, ConstantFacts DEF WriteUnit, OthersTyped
  <2>3. CorrelationTyped' /\ ReadersTyped'
    BY <1>0, <1>8 DEF WriteUnit, CorrelationTyped, ReadersTyped
  <2> QED BY <2>1, <2>2, <2>3
<1>9. CASE WriteFails
  <2>1. CallerTyped'
    BY <1>0, <1>9, CodeFacts DEF WriteFails, CallerTyped, Fail, Return, Outcomes
  <2>2. CorrelationTyped' /\ ReadersTyped' /\ OthersTyped'
    BY <1>0, <1>9 DEF WriteFails, CorrelationTyped, ReadersTyped, OthersTyped
  <2> QED BY <2>1, <2>2
<1>10. CASE Receive
  <2>1. CallerTyped'
    <3>1. event' \in Events \cup {0}
      BY <1>0, <1>10, QueueFacts DEF Receive, CallerTyped, ReadersTyped
    <3> QED BY <1>0, <1>10, <3>1, CodeFacts DEF Receive, CallerTyped, Fail, Return, Outcomes
  <2>2. ReadersTyped'
    BY <1>0, <1>10, ConstantFacts, EventFacts, QueueFacts DEF Receive, ReadersTyped
  <2>3. CorrelationTyped' /\ OthersTyped'
    BY <1>0, <1>10 DEF Receive, CorrelationTyped, OthersTyped
  <2> QED BY <2>1, <2>2, <2>3
<1>11. CASE TakeEvent
  <2>1. CallerTyped'
    <3>1. event' = 0 /\ pc = "check"
      BY <1>11 DEF TakeEvent
    <3>2. CASE Deliver
      <4>1. ASSUME NEW kind, Answered(kind), UNCHANGED unwritten
            PROVE  CallerTyped'
        BY <1>0, <3>1, <4>1, ConstantFacts, CodeFacts DEF Answered, CallerTyped, Ids, Fail,
           Return, Outcomes
      <4>2. ASSUME Readiness, UNCHANGED <<awaited, unwritten>>
            PROVE  CallerTyped'
        BY <1>0, <3>1, <4>2, CodeFacts DEF Readiness, CallerTyped, Fail, Return, Outcomes
      <4>3. ASSUME \/ unwritten' = 1 /\ pc' = "write"
                   \/ unwritten' = unwritten /\ pc' = "wait",
                   UNCHANGED <<stage, awaited, result, outcome>>
            PROVE  CallerTyped'
        BY <1>0, <3>1, <4>3 DEF CallerTyped
      <4> QED BY <3>2, <4>1, <4>2, <4>3 DEF Deliver
    <3>3. CASE Refuse
      BY <1>0, <3>1, <3>3, CodeFacts DEF Refuse, CallerTyped, Fail, Return, Outcomes
    <3> QED BY <1>11, <3>2, <3>3 DEF TakeEvent
  <2>2. CorrelationTyped'
    <3>1. pending' \subseteq pending /\ nextId' = nextId
      BY <1>11 DEF TakeEvent, Deliver, Refuse
    <3>2. messages' \in {messages, messages + 1} /\ (messages' # messages => messages < MaxMessages)
      BY <1>11 DEF TakeEvent, Deliver, Refuse
    <3>3. got' \in Frames \cup {got}
      BY <1>11 DEF TakeEvent, Deliver, Refuse
    <3> QED BY <1>0, <3>1, <3>2, <3>3, ConstantFacts DEF CorrelationTyped, Frames
  <2>3. ReadersTyped' /\ OthersTyped'
    BY <1>0, <1>11 DEF TakeEvent, ReadersTyped, OthersTyped
  <2> QED BY <2>1, <2>2, <2>3
<1>12. CASE Reap
  <2>1. CallerTyped'
    BY <1>0, <1>12 DEF Reap, CallerTyped, Outcomes
  <2>2. OthersTyped'
    BY <1>0, <1>12, ConstantFacts DEF Reap, OthersTyped
  <2>3. CorrelationTyped' /\ ReadersTyped'
    BY <1>0, <1>12 DEF Reap, CorrelationTyped, ReadersTyped
  <2> QED BY <2>1, <2>2, <2>3
<1>13. CASE StopAfterExit
  <2>1. CallerTyped'
    BY <1>0, <1>13 DEF StopAfterExit, CallerTyped, Outcomes
  <2>2. OthersTyped'
    BY <1>0, <1>13, ConstantFacts DEF StopAfterExit, OthersTyped
  <2>3. CorrelationTyped' /\ ReadersTyped'
    BY <1>0, <1>13 DEF StopAfterExit, CorrelationTyped, ReadersTyped
  <2> QED BY <2>1, <2>2, <2>3
<1>14. CASE JoinAfterExit
  <2>1. CallerTyped'
    BY <1>0, <1>14, CodeFacts DEF JoinAfterExit, CallerTyped, Outcomes
  <2>2. CorrelationTyped' /\ ReadersTyped' /\ OthersTyped'
    BY <1>0, <1>14 DEF JoinAfterExit, CorrelationTyped, ReadersTyped, OthersTyped
  <2> QED BY <2>1, <2>2
<1>15. CASE Stop
  <2>1. CallerTyped'
    BY <1>0, <1>15 DEF Stop, CallerTyped, Outcomes
  <2>2. OthersTyped'
    BY <1>0, <1>15, ConstantFacts DEF Stop, OthersTyped
  <2>3. CorrelationTyped' /\ ReadersTyped'
    BY <1>0, <1>15 DEF Stop, CorrelationTyped, ReadersTyped
  <2> QED BY <2>1, <2>2, <2>3
<1>16. CASE Kill
  <2>1. CallerTyped'
    BY <1>0, <1>16 DEF Kill, CallerTyped, Outcomes
  <2>2. OthersTyped'
    BY <1>0, <1>16, ConstantFacts DEF Kill, OthersTyped
  <2>3. CorrelationTyped' /\ ReadersTyped'
    BY <1>0, <1>16 DEF Kill, CorrelationTyped, ReadersTyped
  <2> QED BY <2>1, <2>2, <2>3
<1>17. CASE Join
  <2>1. CallerTyped'
    BY <1>0, <1>17 DEF Join, CallerTyped, Outcomes
  <2>2. CorrelationTyped' /\ ReadersTyped' /\ OthersTyped'
    BY <1>0, <1>17 DEF Join, CorrelationTyped, ReadersTyped, OthersTyped
  <2> QED BY <2>1, <2>2
<1>18. CASE Verify
  <2>1. CallerTyped'
    BY <1>0, <1>18 DEF Verify, CallerTyped, Fail, Return, RunsOut, Outcomes
  <2>2. CorrelationTyped' /\ ReadersTyped' /\ OthersTyped'
    BY <1>0, <1>18 DEF Verify, CorrelationTyped, ReadersTyped, OthersTyped
  <2> QED BY <2>1, <2>2
<1>19. CASE Publish
  <2>1. CallerTyped'
    BY <1>0, <1>19, StatusFacts DEF Publish, CallerTyped, Fail, Return, RunsOut, Outcomes
  <2>2. CorrelationTyped' /\ ReadersTyped' /\ OthersTyped'
    BY <1>0, <1>19 DEF Publish, CorrelationTyped, ReadersTyped, OthersTyped
  <2> QED BY <2>1, <2>2
<1>20. CASE ReadFrame
  <2>1. ReadersTyped'
    <3>1. /\ seen + 1 \in Frames /\ seen' = seen + 1 /\ stdout' = stdout - 1 /\ stdout > 0
          /\ UNCHANGED <<stderrReader, stderrSeen, disturbances>>
      BY <1>0, <1>20, ConstantFacts DEF ReadFrame, ReadersTyped, Frames
    <3>2. /\ queue' \in {queue, Append(queue, seen + 1)}
          /\ queue' # queue => Len(queue) < QueueCapacity
          /\ stdoutReader' \in {"reading", "gone"} /\ stdoutOverflow' \in BOOLEAN
      BY <1>0, <1>20 DEF ReadFrame, ReadersTyped, Offer
    <3>3. queue' \in Seq(Events) /\ Len(queue') <= QueueCapacity
      BY <1>0, <3>1, <3>2, QueueFacts, EventFacts, ConstantFacts DEF ReadersTyped
    <3> QED BY <1>0, <3>1, <3>2, <3>3, ConstantFacts DEF ReadersTyped
  <2>2. CallerTyped' /\ CorrelationTyped' /\ OthersTyped'
    BY <1>0, <1>20 DEF ReadFrame, CallerTyped, CorrelationTyped, OthersTyped
  <2> QED BY <2>1, <2>2
<1>21. CASE ReadBroken
  <2>1. ReadersTyped'
    BY <1>0, <1>21, ConstantFacts, EventFacts, QueueFacts DEF ReadBroken, ReadersTyped, Offer
  <2>2. CallerTyped' /\ CorrelationTyped' /\ OthersTyped'
    BY <1>0, <1>21 DEF ReadBroken, CallerTyped, CorrelationTyped, OthersTyped
  <2> QED BY <2>1, <2>2
<1>22. CASE StdoutEnds
  <2>1. ReadersTyped'
    BY <1>0, <1>22, ConstantFacts, EventFacts, QueueFacts DEF StdoutEnds, ReadersTyped, Offer
  <2>2. CallerTyped' /\ CorrelationTyped' /\ OthersTyped'
    BY <1>0, <1>22 DEF StdoutEnds, CallerTyped, CorrelationTyped, OthersTyped
  <2> QED BY <2>1, <2>2
<1>23. CASE StderrEnds
  <2>1. ReadersTyped'
    BY <1>0, <1>23, ConstantFacts DEF StderrEnds, ReadersTyped
  <2>2. CallerTyped' /\ CorrelationTyped' /\ OthersTyped'
    BY <1>0, <1>23 DEF StderrEnds, CallerTyped, CorrelationTyped, OthersTyped
  <2> QED BY <2>1, <2>2
<1>24. CASE Sample
  <2>1. OthersTyped'
    BY <1>0, <1>24, ConstantFacts DEF Sample, OthersTyped
  <2>2. CallerTyped' /\ CorrelationTyped' /\ ReadersTyped'
    BY <1>0, <1>24 DEF Sample, CallerTyped, CorrelationTyped, ReadersTyped
  <2> QED BY <2>1, <2>2
<1>25. CASE SampleDead
  <2>1. OthersTyped'
    BY <1>0, <1>25, ConstantFacts DEF SampleDead, OthersTyped
  <2>2. CallerTyped' /\ CorrelationTyped' /\ ReadersTyped'
    BY <1>0, <1>25 DEF SampleDead, CallerTyped, CorrelationTyped, ReadersTyped
  <2> QED BY <2>1, <2>2
<1>26. CASE KillTree
  <2>1. OthersTyped'
    BY <1>0, <1>26, ConstantFacts DEF KillTree, OthersTyped
  <2>2. CallerTyped' /\ CorrelationTyped' /\ ReadersTyped'
    BY <1>0, <1>26 DEF KillTree, CallerTyped, CorrelationTyped, ReadersTyped
  <2> QED BY <2>1, <2>2
<1>27. CASE ServerWrites
  <2>1. ReadersTyped'
    BY <1>0, <1>27, ConstantFacts DEF ServerWrites, ReadersTyped
  <2>2. CallerTyped' /\ CorrelationTyped' /\ OthersTyped'
    BY <1>0, <1>27 DEF ServerWrites, CallerTyped, CorrelationTyped, OthersTyped
  <2> QED BY <2>1, <2>2
<1>28. CASE ServerReads
  <2>1. OthersTyped'
    BY <1>0, <1>28, ConstantFacts DEF ServerReads, OthersTyped, Offer
  <2>2. CallerTyped' /\ CorrelationTyped' /\ ReadersTyped'
    BY <1>0, <1>28 DEF ServerReads, CallerTyped, CorrelationTyped, ReadersTyped
  <2> QED BY <2>1, <2>2
<1>29. CASE Disturb
  <2>1. ReadersTyped'
    BY <1>0, <1>29, ConstantFacts DEF Disturb, ReadersTyped
  <2>2. OthersTyped'
    BY <1>0, <1>29, ConstantFacts DEF Disturb, OthersTyped
  <2>3. CallerTyped' /\ CorrelationTyped'
    BY <1>0, <1>29 DEF Disturb, CallerTyped, CorrelationTyped
  <2> QED BY <2>1, <2>2, <2>3
<1>30. CASE ServerExits
  <2>1. OthersTyped'
    BY <1>0, <1>30, ConstantFacts DEF ServerExits, OthersTyped
  <2>2. CallerTyped' /\ CorrelationTyped' /\ ReadersTyped'
    BY <1>0, <1>30 DEF ServerExits, CallerTyped, CorrelationTyped, ReadersTyped
  <2> QED BY <2>1, <2>2
<1>31. CASE StrayLetsGo
  <2>1. OthersTyped'
    BY <1>0, <1>31, ConstantFacts DEF StrayLetsGo, OthersTyped
  <2>2. CallerTyped' /\ CorrelationTyped' /\ ReadersTyped'
    BY <1>0, <1>31 DEF StrayLetsGo, CallerTyped, CorrelationTyped, ReadersTyped
  <2> QED BY <2>1, <2>2
<1>32. CASE Tick
  <2>1. OthersTyped'
    BY <1>0, <1>32, ConstantFacts DEF Tick, OthersTyped
  <2>2. CallerTyped' /\ CorrelationTyped' /\ ReadersTyped'
    BY <1>0, <1>32 DEF Tick, CallerTyped, CorrelationTyped, ReadersTyped
  <2> QED BY <2>1, <2>2
<1>33. CASE Cancel
  <2>1. ReadersTyped'
    BY <1>0, <1>33, ConstantFacts DEF Cancel, ReadersTyped
  <2>2. OthersTyped'
    BY <1>0, <1>33, ConstantFacts DEF Cancel, OthersTyped
  <2>3. CallerTyped' /\ CorrelationTyped'
    BY <1>0, <1>33 DEF Cancel, CallerTyped, CorrelationTyped
  <2> QED BY <2>1, <2>2, <2>3
<1>34. CASE UNCHANGED vars
  BY <1>0, <1>34 DEF CallerTyped, CorrelationTyped, ReadersTyped, OthersTyped
<1> QED
  BY <1>1, <1>2, <1>3, <1>4, <1>5, <1>6, <1>7, <1>8, <1>9, <1>10, <1>11, <1>12, <1>13, <1>14,
     <1>15, <1>16, <1>17, <1>18, <1>19, <1>20, <1>21, <1>22, <1>23, <1>24, <1>25, <1>26, <1>27,
     <1>28, <1>29, <1>30, <1>31, <1>32, <1>33, <1>34 DEF Next, Caller, StdoutThread, Monitor,
     Server

-----------------------------------------------------------------------------
\* The invariant the theorems rest on.
THEOREM Invariance == Spec => []Inv
<1>1. Init => Inv
  BY InitInv
<1>2. Inv /\ [Next]_vars => Inv'
  BY TypedStep, PipelineStep, CorrelatedStep, SettledStep, BoundStep DEF Inv
<1> QED BY <1>1, <1>2, PTL DEF Spec

\* However the call ends, and whatever the server, its descendants and the
\* sampling thread did in the meantime, the server is reaped, its stdin is closed
\* and no thread of the session is left when the call has returned (session.rs,
\* terminate, shutdown_and_reap and Drop).
THEOREM NothingIsLeftBehind == Spec => []NothingIsLeft
<1>1. Inv => NothingIsLeft
  BY DEF Inv, Settled, Quiet, Joined, NothingIsLeft
<1> QED BY <1>1, Invariance, PTL

\* A frame is delivered only by the step that takes the event in hand, and that
\* event is the frame after the last one delivered.
LEMMA DeliveryStep == ASSUME Inv, [Next]_vars PROVE got' # got => got' = got + 1
<1> USE DEF vars, callerVars, correlation, readerVars, monitorVars, serverVars, pipes, outside
<1>1. CASE TakeEvent
  BY <1>1 DEF TakeEvent, Deliver, Refuse, Inv, Pipeline, Active
<1>2. CASE UNCHANGED got
  BY <1>2
<1>3. TakeEvent \/ UNCHANGED got
  BY DEF Next, Caller, StdoutThread, Monitor, Server, PreflightFails, AccountingMissing, Spawn,
         SendRequest, SendNotification, LimitReached, FinishCalls, WriteUnit, WriteFails,
         Receive, Reap, StopAfterExit, JoinAfterExit, Stop, Kill, Join, Verify, Publish,
         ReadFrame, ReadBroken, StdoutEnds, StderrEnds, Sample, SampleDead, KillTree,
         ServerWrites, ServerReads, Disturb, ServerExits, StrayLetsGo, Tick, Cancel
<1> QED BY <1>1, <1>2, <1>3

\* What a call answers is sound: every buffer keeps its capacity, facts are
\* published only of a session that answered every request, ended by itself, was
\* accounted to the end and left the candidate as it was, and they rest on frames
\* delivered in the order they were written, none missing before the last.
THEOREM AnswersAreSound == Spec => FactsAreSound
<1>1. Inv => TypeOK /\ FactsAreBound
  BY DEF Inv, Typed, Bound
<1>2. Inv /\ [Next]_vars => [got' # got => got' = got + 1]_vars
  BY DeliveryStep
<1> QED BY <1>1, <1>2, Invariance, PTL DEF Spec, FactsAreSound, DeliveredInOrder

-----------------------------------------------------------------------------
(* The walk. *)

Files == {FileOf[s] : s \in Symbols}
SiteCalls == Symbols \X Symbols \X Ranges

\* What an answer adds is gathered in such a record.
Gathered == [nodes : SUBSET Symbols, related : SUBSET Symbols, edges : SUBSET SiteCalls,
             next : SUBSET Symbols, notes : SUBSET (Notes \X Files), full : BOOLEAN]

-----------------------------------------------------------------------------
(* The order of an answer. *)

\* A finite set of numbers that is not empty has a greatest.
LEMMA Greatest ==
    ASSUME NEW S \in SUBSET Nat, IsFiniteSet(S), S # {}
    PROVE  \E m \in S : \A x \in S : x <= m
<1> DEFINE T == {n \in Nat : \A U \in SUBSET Nat :
                     IsFiniteSet(U) /\ Cardinality(U) = n + 1 => \E m \in U : \A x \in U : x <= m}
<1>1. 0 \in T
  <2> SUFFICES ASSUME NEW U \in SUBSET Nat, IsFiniteSet(U), Cardinality(U) = 1
               PROVE  \E m \in U : \A x \in U : x <= m
    OBVIOUS
  <2>1. PICK m : U = {m}
    BY FS_Singleton
  <2> QED BY <2>1
<1>2. ASSUME NEW n \in Nat, n \in T PROVE n + 1 \in T
  <2> SUFFICES ASSUME NEW U \in SUBSET Nat, IsFiniteSet(U), Cardinality(U) = n + 2
               PROVE  \E m \in U : \A x \in U : x <= m
    OBVIOUS
  <2>0. Cardinality(U) # 0
    OBVIOUS
  <2>1. PICK y \in U : TRUE
    BY <2>0, FS_EmptySet
  <2>2. IsFiniteSet(U \ {y}) /\ Cardinality(U \ {y}) = n + 1
    <3>1. Cardinality(U \ {y}) = Cardinality(U) - 1
      BY FS_RemoveElement
    <3> QED BY <3>1, FS_RemoveElement
  <2>3. PICK m \in U \ {y} : \A x \in U \ {y} : x <= m
    BY <1>2, <2>2
  <2>4. m \in Nat /\ y \in Nat
    BY <2>1, <2>3
  <2>5. CASE m <= y
    BY <2>1, <2>3, <2>4, <2>5
  <2>6. CASE y <= m
    BY <2>1, <2>3, <2>4, <2>6
  <2> QED BY <2>4, <2>5, <2>6
<1> HIDE DEF T
<1>3. Nat \subseteq T
  BY <1>1, <1>2, SetInduction
<1>4. Cardinality(S) \in Nat /\ Cardinality(S) # 0
  BY FS_CardinalityType, FS_EmptySet
<1>5. Cardinality(S) - 1 \in T /\ Cardinality(S) = (Cardinality(S) - 1) + 1
  BY <1>3, <1>4
<1> QED BY <1>5 DEF T

Enumerates(q, S, n) ==
    /\ q \in [1..n -> S]
    /\ \A x \in S : \E i \in 1..n : q[i] = x
    /\ \A i, j \in 1..n : i < j => q[i] < q[j]

\* A finite set of numbers can be put in order.
LEMMA OrderExists ==
    ASSUME NEW S \in SUBSET Nat, IsFiniteSet(S)
    PROVE  \E q : Enumerates(q, S, Cardinality(S))
<1> DEFINE T == {n \in Nat : \A U \in SUBSET Nat :
                     IsFiniteSet(U) /\ Cardinality(U) = n => \E q : Enumerates(q, U, n)}
<1>1. 0 \in T
  <2> SUFFICES ASSUME NEW U \in SUBSET Nat, IsFiniteSet(U), Cardinality(U) = 0
               PROVE  \E q : Enumerates(q, U, 0)
    OBVIOUS
  <2>1. U = {} /\ 1..0 = {}
    BY FS_EmptySet
  <2>2. [i \in 1..0 |-> 0] \in [1..0 -> U]
    BY <2>1
  <2>3. Enumerates([i \in 1..0 |-> 0], U, 0)
    BY <2>1, <2>2 DEF Enumerates
  <2> QED BY <2>3
<1>2. ASSUME NEW n \in Nat, n \in T PROVE n + 1 \in T
  <2> SUFFICES ASSUME NEW U \in SUBSET Nat, IsFiniteSet(U), Cardinality(U) = n + 1
               PROVE  \E q : Enumerates(q, U, n + 1)
    OBVIOUS
  <2>0. Cardinality(U) # 0
    OBVIOUS
  <2>1. U # {}
    <3> SUFFICES ASSUME U = {} PROVE FALSE
      OBVIOUS
    <3> QED BY <2>0, FS_EmptySet
  <2>2. PICK m \in U : \A x \in U : x <= m
    BY <2>1, Greatest
  <2>3. IsFiniteSet(U \ {m}) /\ Cardinality(U \ {m}) = n
    <3>1. Cardinality(U \ {m}) = Cardinality(U) - 1
      BY FS_RemoveElement
    <3> QED BY <3>1, FS_RemoveElement
  <2>4. PICK q : Enumerates(q, U \ {m}, n)
    BY <1>2, <2>3
  <2> DEFINE p == [i \in 1..n + 1 |-> IF i = n + 1 THEN m ELSE q[i]]
  <2>5. /\ 1..n + 1 = (1..n) \cup {n + 1} /\ n + 1 \notin 1..n
        /\ \A i \in 1..n : p[i] = q[i] /\ q[i] \in U \ {m} /\ i < n + 1
        /\ p[n + 1] = m
    BY <2>4 DEF Enumerates
  <2>6. p \in [1..n + 1 -> U]
    BY <2>4 DEF Enumerates
  <2> HIDE DEF p
  <2>7. \A x \in U : \E i \in 1..n + 1 : p[i] = x
    BY <2>4, <2>5 DEF Enumerates
  <2>8. ASSUME NEW i \in 1..n + 1, NEW j \in 1..n + 1, i < j PROVE p[i] < p[j]
    <3>1. i \in 1..n
      BY <2>8
    <3>2. CASE j \in 1..n
      BY <2>4, <2>5, <2>8, <3>1, <3>2 DEF Enumerates
    <3>3. CASE j = n + 1
      <4>1. p[i] \in U \ {m} /\ p[j] = m
        BY <2>5, <3>1, <3>3
      <4>2. p[i] <= m /\ p[i] # m /\ p[i] \in Nat /\ m \in Nat
        BY <2>2, <4>1
      <4> QED BY <4>1, <4>2
    <3> QED BY <2>5, <3>2, <3>3
  <2>9. Enumerates(p, U, n + 1)
    BY <2>6, <2>7, <2>8 DEF Enumerates
  <2> QED BY <2>9
<1> HIDE DEF T
<1>3. Nat \subseteq T
  BY <1>1, <1>2, SetInduction
<1>4. Cardinality(S) \in T
  BY <1>3, FS_CardinalityType
<1> QED BY <1>4 DEF T

\* InOrder lists each element of a set, and nothing else.
LEMMA InOrderFacts ==
    ASSUME NEW S \in SUBSET Nat, IsFiniteSet(S)
    PROVE  /\ Cardinality(S) \in Nat /\ DOMAIN InOrder(S) = 1..Cardinality(S)
           /\ \A i \in 1..Cardinality(S) : InOrder(S)[i] \in S
           /\ \A x \in S : \E i \in 1..Cardinality(S) : InOrder(S)[i] = x
<1> DEFINE n == Cardinality(S)
           Good(q) == /\ \A x \in S : \E i \in DOMAIN q : q[i] = x
                      /\ \A i, j \in DOMAIN q : i < j => q[i] < q[j]
<1>1. \E q \in [1..n -> S] : Good(q)
  <2>1. PICK q : Enumerates(q, S, n)
    BY OrderExists
  <2>2. q \in [1..n -> S] /\ DOMAIN q = 1..n
    BY <2>1 DEF Enumerates
  <2> QED BY <2>1, <2>2 DEF Enumerates
<1>2. InOrder(S) = CHOOSE q \in [1..n -> S] : Good(q)
  BY DEF InOrder
<1> HIDE DEF Good
<1>3. InOrder(S) \in [1..n -> S] /\ Good(InOrder(S))
  BY <1>1, <1>2
<1> QED BY <1>3, FS_CardinalityType DEF Good

-----------------------------------------------------------------------------
(* What one answer adds. *)

\* The constants.
LEMMA Sites ==
    /\ Symbols \in SUBSET Nat /\ Ranges \in SUBSET Nat
    /\ IsFiniteSet(Symbols) /\ IsFiniteSet(Ranges)
    /\ \A s \in Symbols : FileOf[s] \in Files
  BY WalkAssumption, FiniteAssumption DEF Files

\* One call range leaves a record a record.
LEMMA AddEdgeIsGathered ==
    ASSUME NEW d, NEW s \in Symbols, NEW t \in Symbols, NEW r \in Ranges, NEW a \in Gathered
    PROVE  AddEdge(d, s, a, t, r) \in Gathered
<1>1. Edge(d, s, t, r) \in SiteCalls
  BY DEF Edge, SiteCalls
<1>2. <<"edge-budget-exhausted", FileOf[s]>> \in Notes \X Files
  BY Sites DEF Notes
<1> DEFINE e == Edge(d, s, t, r)  note == <<"edge-budget-exhausted", FileOf[s]>>
<1> HIDE DEF e, note
<1>3. [a EXCEPT !.full = TRUE, !.notes = @ \cup {note}] \in Gathered
  BY <1>2 DEF Gathered, note
<1>4. [a EXCEPT !.edges = @ \cup {e}] \in Gathered
  BY <1>1 DEF Gathered, e
<1> QED BY <1>3, <1>4 DEF AddEdge, e, note

\* The calls of a symbol that lead to t.
UsableTo(d, s, t) == {c \in Usable(d, s) : OtherEnd(d, c) = t}
RangesTo(d, s, t) == {c[3] : c \in UsableTo(d, s, t)}

\* AddEdges takes the ranges one after the other.
EdgeRun(d, s, t, acc, q, n) ==
    \E g : /\ AddEdges(d, s, acc, t) = g[n]
           /\ g[0] = acc
           /\ \A k \in Nat : k + 1 <= n => g[k + 1] = AddEdge(d, s, g[k], t, q[k + 1])

LEMMA EdgeSteps ==
    ASSUME NEW d, NEW s \in Symbols, NEW t \in Symbols, NEW acc \in Gathered,
           NEW q, q = InOrder(RangesTo(d, s, t)),
           NEW n \in Nat, DOMAIN q = 1..n, \A i \in 1..n : q[i] \in Ranges
    PROVE  EdgeRun(d, s, t, acc, q, n)
<1> DEFINE Op(a, r) == AddEdge(d, s, a, t, r)
           F(g, u) == IF u = {} THEN acc ELSE Op(g[u \ {Max(u)}], q[Max(u)])
           iter == CHOOSE g : g = [u \in SUBSET (1..n) |-> F(g, u)]
           step == [p \in Gathered \X Ranges |-> Op(p[1], p[2])]
<1>1. AddEdges(d, s, acc, t) = iter[1..n]
  BY DEF AddEdges, RangesTo, UsableTo, FoldLeft, MapThenFoldSet
<1>2. step \in [Gathered \X Ranges -> Gathered]
  BY AddEdgeIsGathered
<1>3. \A a \in Gathered, r \in Ranges : step[<<a, r>>] = Op(a, r)
  OBVIOUS
<1> HIDE DEF Op, step
<1>4. PICK g \in [SUBSET (1..n) -> Gathered] : Folding(step, acc, q, n, g)
  BY <1>2, FoldExists
<1>5. ASSUME NEW u \in SUBSET (1..n) PROVE g[u] = F(g, u)
  <2>1. CASE u = {}
    BY <1>4, <2>1 DEF Folding
  <2>2. CASE u # {}
    <3>1. Max(u) \in u /\ g[u \ {Max(u)}] \in Gathered /\ q[Max(u)] \in Ranges
      BY <2>2, LastIndex
    <3>2. g[u] = step[<<g[u \ {Max(u)}], q[Max(u)]>>]
      BY <1>4, <2>2 DEF Folding
    <3> QED BY <1>3, <2>2, <3>1, <3>2
  <2> QED BY <2>1, <2>2
<1> HIDE DEF F
<1>6. g = [u \in SUBSET (1..n) |-> F(g, u)]
  BY <1>5
<1>7. iter = [u \in SUBSET (1..n) |-> F(iter, u)]
  BY <1>6
<1> HIDE DEF iter
<1> DEFINE G == [k \in 0..n |-> iter[1..k]]
<1>8. G[0] = acc /\ G[n] = iter[1..n]
  <2>1. 1..0 = {} /\ 1..0 \in SUBSET (1..n)
    OBVIOUS
  <2>2. iter[1..0] = acc
    BY <1>7, <2>1 DEF F
  <2> QED BY <2>2
<1>9. ASSUME NEW k \in Nat, k + 1 <= n PROVE G[k + 1] = Op(G[k], q[k + 1])
  <2> DEFINE B == 1..k + 1
  <2>1. B \in SUBSET (1..n) /\ B # {} /\ Max(B) = k + 1 /\ B \ {k + 1} = 1..k
    <3>1. B \in SUBSET (1..n)
      BY <1>9
    <3>2. B # {} /\ Max(B) = k + 1 /\ B \ {k + 1} = 1..k
      BY Prefix
    <3> QED BY <3>1, <3>2
  <2>2. G[k + 1] = iter[B] /\ G[k] = iter[1..k]
    BY <1>9
  <2> HIDE DEF B, G
  <2>3. iter[B] = F(iter, B)
    BY <1>7, <2>1
  <2>4. iter[B] = Op(iter[B \ {Max(B)}], q[Max(B)])
    BY <2>1, <2>3 DEF F
  <2> QED BY <2>1, <2>2, <2>4
<1> HIDE DEF G
<1> QED BY <1>1, <1>8, <1>9 DEF Op, EdgeRun

\* A usable call is made of the symbol asked for, the other end and the range.
LEMMA UsableFacts ==
    ASSUME graph \subseteq SiteCalls, NEW d \in Directions, NEW s \in Symbols,
           NEW c \in Usable(d, s)
    PROVE  /\ c \in SiteCalls /\ c \in graph /\ c[3] \in Ranges
           /\ OtherEnd(d, c) \in Symbols /\ {c[1], c[2]} = {s, OtherEnd(d, c)}
           /\ Edge(d, s, OtherEnd(d, c), c[3]) = c
<1>1. c \in graph /\ c \in SiteCalls /\ (IF d = "incoming" THEN c[2] ELSE c[1]) = s
  BY DEF Usable, Calls
<1>2. c = <<c[1], c[2], c[3]>> /\ c[1] \in Symbols /\ c[2] \in Symbols /\ c[3] \in Ranges
  BY <1>1 DEF SiteCalls
<1> QED BY <1>1, <1>2 DEF OtherEnd, Edge

\* The calls to one target leave a record a record and touch only its edges; without a
\* note they are all there.
EdgesIn(d, s, t, acc, out) ==
    /\ out \in Gathered
    /\ out.nodes = acc.nodes /\ out.related = acc.related /\ out.next = acc.next
    /\ acc.edges \subseteq out.edges
    /\ out.edges \subseteq acc.edges \cup UsableTo(d, s, t)
    /\ acc.notes \subseteq out.notes
    /\ out.notes = {} => UsableTo(d, s, t) \subseteq out.edges

LEMMA EdgesAdded ==
    ASSUME graph \subseteq SiteCalls, NEW d \in Directions, NEW s \in Symbols,
           NEW t \in Symbols, NEW acc \in Gathered, acc.full = FALSE
    PROVE  EdgesIn(d, s, t, acc, AddEdges(d, s, acc, t))
<1> DEFINE to == UsableTo(d, s, t)
           R == RangesTo(d, s, t)
           q == InOrder(R)
           n == Cardinality(R)
           Sound(a, k) ==
             /\ a \in Gathered
             /\ a.nodes = acc.nodes /\ a.related = acc.related /\ a.next = acc.next
             /\ acc.edges \subseteq a.edges /\ a.edges \subseteq acc.edges \cup to
             /\ acc.notes \subseteq a.notes
             /\ a.full => a.notes # {}
             /\ ~a.full => \A i \in 1..k : Edge(d, s, t, q[i]) \in a.edges
<1>1. \A c \in to : c \in Usable(d, s) /\ OtherEnd(d, c) = t
  BY DEF UsableTo
<1>2. \A c \in to : c[3] \in Ranges /\ Edge(d, s, t, c[3]) = c
  BY <1>1, UsableFacts
<1>3. /\ R \in SUBSET Ranges /\ R \in SUBSET Nat /\ IsFiniteSet(R)
      /\ \A r \in R : Edge(d, s, t, r) \in to
  <2>1. R \in SUBSET Ranges
    BY <1>2 DEF RangesTo
  <2> QED BY <1>2, <2>1, Sites, FS_Subset DEF RangesTo
<1> HIDE DEF to, R
<1>4. /\ n \in Nat /\ DOMAIN q = 1..n /\ \A i \in 1..n : q[i] \in R
      /\ \A x \in R : \E i \in 1..n : q[i] = x
  BY <1>3, InOrderFacts
<1> HIDE DEF q, n
<1>6. PICK g : /\ AddEdges(d, s, acc, t) = g[n]
               /\ g[0] = acc
               /\ \A k \in Nat : k + 1 <= n => g[k + 1] = AddEdge(d, s, g[k], t, q[k + 1])
  <2>1. \A i \in 1..n : q[i] \in Ranges
    BY <1>3, <1>4
  <2>2. q = InOrder(RangesTo(d, s, t))
    BY DEF q, R
  <2> HIDE DEF Sound
  <2>3. EdgeRun(d, s, t, acc, q, n)
    BY <1>4, <2>1, <2>2, EdgeSteps
  <2> QED BY <2>3 DEF EdgeRun
<1> DEFINE T == {k \in Nat : k <= n => Sound(g[k], k)}
<1>7. 0 \in T
  BY <1>6
<1>8. ASSUME NEW k \in Nat, k + 1 <= n, Sound(g[k], k) PROVE Sound(g[k + 1], k + 1)
  <2> DEFINE a == g[k]  b == g[k + 1]  e == Edge(d, s, t, q[k + 1])
             note == <<"edge-budget-exhausted", FileOf[s]>>
  <2>1. q[k + 1] \in R /\ q[k + 1] \in Ranges /\ e \in to
    <3>1. k + 1 \in 1..n
      BY <1>4, <1>8
    <3>2. q[k + 1] \in R
      BY <1>4, <3>1
    <3> QED BY <1>3, <3>2
  <2>2. b = AddEdge(d, s, a, t, q[k + 1])
    BY <1>6, <1>8
  <2>3. b \in Gathered
    BY <1>8, <2>1, <2>2, AddEdgeIsGathered
  <2>4. \A i \in 1..k + 1 : i \in 1..k \/ i = k + 1
    OBVIOUS
  <2>5. a \in Gathered /\ Sound(a, k)
    BY <1>8
  <2> HIDE DEF a, b
  <2>6. CASE a.full
    <3>1. b = a
      BY <2>2, <2>6 DEF AddEdge
    <3> QED BY <2>3, <2>5, <2>6, <3>1 DEF a, b
  <2>7. CASE ~a.full /\ Cardinality(a.edges) >= limits.edges
    <3>1. b = [a EXCEPT !.full = TRUE, !.notes = @ \cup {note}]
      BY <2>2, <2>7 DEF AddEdge
    <3>2. /\ b.full /\ b.notes = a.notes \cup {note} /\ b.edges = a.edges
          /\ b.nodes = a.nodes /\ b.related = a.related /\ b.next = a.next
      BY <2>5, <3>1 DEF Gathered
    <3> QED BY <2>3, <2>5, <3>2 DEF a, b
  <2>8. CASE ~a.full /\ ~(Cardinality(a.edges) >= limits.edges)
    <3>1. b = [a EXCEPT !.edges = @ \cup {e}]
      BY <2>2, <2>8 DEF AddEdge
    <3>2. /\ b.full = a.full /\ b.notes = a.notes /\ b.edges = a.edges \cup {e}
          /\ b.nodes = a.nodes /\ b.related = a.related /\ b.next = a.next
      BY <2>5, <3>1 DEF Gathered
    <3> HIDE DEF e
    <3>3. \A i \in 1..k + 1 : Edge(d, s, t, q[i]) \in b.edges
      BY <2>4, <2>5, <2>8, <3>2 DEF e
    <3> QED BY <2>1, <2>3, <2>5, <3>2, <3>3 DEF a, b
  <2> QED BY <2>6, <2>7, <2>8
<1>9. n \in T
  <2> HIDE DEF Sound
  <2>1. \A k \in Nat : k \in T => k + 1 \in T
    BY <1>8, <1>4
  <2> HIDE DEF T
  <2> QED BY <1>4, <1>7, <2>1, SetInduction
<1>10. Sound(g[n], n)
  BY <1>4, <1>9
<1>11. \A c \in to : \E i \in 1..n : Edge(d, s, t, q[i]) = c
  <2>1. \A c \in to : c[3] \in R
    BY DEF R, RangesTo, to
  <2> QED BY <1>2, <1>4, <2>1
<1> QED BY <1>6, <1>10, <1>11 DEF to, EdgesIn

\* One target takes a node or leaves a note; what it adds to the edges are its calls, and
\* without a note it is taken as a whole.
TargetIn(d, s, t, a, b) ==
    /\ b \in Gathered
    /\ a.nodes \subseteq b.nodes /\ b.nodes \subseteq a.nodes \cup {t}
    /\ b.related = a.related \cup (b.nodes \ a.nodes)
    /\ a.next \subseteq b.next /\ b.next \subseteq a.next \cup (b.nodes \cap {t})
    /\ a.edges \subseteq b.edges /\ b.edges \subseteq a.edges \cup UsableTo(d, s, t)
    /\ b.edges # a.edges => t \in b.nodes
    /\ a.notes \subseteq b.notes
    /\ b.notes = {} => /\ t \in b.nodes /\ UsableTo(d, s, t) \subseteq b.edges
                       /\ depth + 1 < limits.depth => t \in b.next \cup {s}

LEMMA TargetAdded ==
    ASSUME graph \subseteq SiteCalls, NEW d \in Directions, NEW s \in Symbols,
           NEW t \in Symbols, NEW a \in Gathered
    PROVE  TargetIn(d, s, t, a, AddTarget(d, s, a, t))
<1> DEFINE b == AddTarget(d, s, a, t)
           with == [a EXCEPT !.nodes = @ \cup {t}, !.full = FALSE,
                             !.related = IF t \in a.nodes THEN @ ELSE @ \cup {t},
                             !.next = IF depth + 1 < limits.depth /\ t # s
                                      THEN @ \cup {t} ELSE @]
           over == [a EXCEPT !.notes = @ \cup {<<"node-budget-exhausted", FileOf[t]>>}]
           full == t \notin a.nodes /\ Cardinality(a.nodes) >= limits.nodes
<1>1. b = IF full THEN over ELSE AddEdges(d, s, with, t)
  BY DEF AddTarget
<1>2. /\ with \in Gathered /\ with.full = FALSE
      /\ with.nodes = a.nodes \cup {t} /\ with.edges = a.edges /\ with.notes = a.notes
      /\ with.related = IF t \in a.nodes THEN a.related ELSE a.related \cup {t}
      /\ with.next = IF depth + 1 < limits.depth /\ t # s THEN a.next \cup {t} ELSE a.next
  BY DEF Gathered
<1>3. /\ over \in Gathered
      /\ over.nodes = a.nodes /\ over.edges = a.edges /\ over.related = a.related
      /\ over.next = a.next /\ over.notes # {} /\ a.notes \subseteq over.notes
  <2>1. <<"node-budget-exhausted", FileOf[t]>> \in Notes \X Files
    BY Sites DEF Notes
  <2> QED BY <2>1 DEF Gathered
<1> HIDE DEF b, with, over
<1>4. CASE full
  <2>1. b = over
    BY <1>1, <1>4
  <2> QED BY <1>3, <2>1 DEF b, TargetIn
<1>5. CASE ~full
  <2>1. b = AddEdges(d, s, with, t)
    BY <1>1, <1>5
  <2>2. /\ b \in Gathered
        /\ b.nodes = with.nodes /\ b.related = with.related /\ b.next = with.next
        /\ with.edges \subseteq b.edges
        /\ b.edges \subseteq with.edges \cup UsableTo(d, s, t)
        /\ with.notes \subseteq b.notes
        /\ b.notes = {} => UsableTo(d, s, t) \subseteq b.edges
    <3>1. EdgesIn(d, s, t, with, AddEdges(d, s, with, t))
      BY <1>2, EdgesAdded
    <3> QED BY <2>1, <3>1 DEF EdgesIn
  <2> HIDE DEF full
  <2>3. b.related = a.related \cup (b.nodes \ a.nodes)
    BY <1>2, <2>2
  <2>4. a.next \subseteq b.next /\ b.next \subseteq a.next \cup (b.nodes \cap {t})
    BY <1>2, <2>2
  <2>5. depth + 1 < limits.depth => t \in b.next \cup {s}
    BY <1>2, <2>2
  <2> QED BY <1>2, <2>2, <2>3, <2>4, <2>5 DEF b, TargetIn
<1> QED BY <1>4, <1>5

\* The symbols at the other ends of the usable calls; what has been found so far.
TargetsOf(d, s) == {OtherEnd(d, c) : c \in Usable(d, s)}
Found == [nodes |-> nodes, related |-> related, edges |-> edges, next |-> next,
          notes |-> {}, full |-> FALSE]

\* Taken takes the targets one after the other.
TargetRun(d, s, q, n) ==
    \E g : /\ Taken(d, s) = g[n]
           /\ g[0] = Found
           /\ \A k \in Nat : k + 1 <= n => g[k + 1] = AddTarget(d, s, g[k], q[k + 1])

LEMMA TargetSteps ==
    ASSUME graph \subseteq SiteCalls, Found \in Gathered, NEW d \in Directions, NEW s \in Symbols,
           NEW q, q = InOrder(TargetsOf(d, s)),
           NEW n \in Nat, DOMAIN q = 1..n, \A i \in 1..n : q[i] \in Symbols
    PROVE  TargetRun(d, s, q, n)
<1> DEFINE Op(a, t) == AddTarget(d, s, a, t)
           F(g, u) == IF u = {} THEN Found ELSE Op(g[u \ {Max(u)}], q[Max(u)])
           iter == CHOOSE g : g = [u \in SUBSET (1..n) |-> F(g, u)]
           step == [p \in Gathered \X Symbols |-> Op(p[1], p[2])]
<1>1. Taken(d, s) = iter[1..n]
  BY DEF Taken, Found, TargetsOf, FoldLeft, MapThenFoldSet
<1>2. step \in [Gathered \X Symbols -> Gathered]
  <2>1. ASSUME NEW a \in Gathered, NEW t \in Symbols PROVE Op(a, t) \in Gathered
    <3>1. TargetIn(d, s, t, a, AddTarget(d, s, a, t))
      BY TargetAdded
    <3> QED BY <3>1 DEF TargetIn
  <2> QED BY <2>1
<1>3. \A a \in Gathered, t \in Symbols : step[<<a, t>>] = Op(a, t)
  OBVIOUS
<1> HIDE DEF Op, step
<1>4. PICK g \in [SUBSET (1..n) -> Gathered] : Folding(step, Found, q, n, g)
  BY <1>2, FoldExists
<1>5. ASSUME NEW u \in SUBSET (1..n) PROVE g[u] = F(g, u)
  <2>1. CASE u = {}
    BY <1>4, <2>1 DEF Folding
  <2>2. CASE u # {}
    <3>1. Max(u) \in u /\ g[u \ {Max(u)}] \in Gathered /\ q[Max(u)] \in Symbols
      BY <2>2, LastIndex
    <3>2. g[u] = step[<<g[u \ {Max(u)}], q[Max(u)]>>]
      BY <1>4, <2>2 DEF Folding
    <3> QED BY <1>3, <2>2, <3>1, <3>2
  <2> QED BY <2>1, <2>2
<1> HIDE DEF F
<1>6. g = [u \in SUBSET (1..n) |-> F(g, u)]
  BY <1>5
<1>7. iter = [u \in SUBSET (1..n) |-> F(iter, u)]
  BY <1>6
<1> HIDE DEF iter
<1> DEFINE G == [k \in 0..n |-> iter[1..k]]
<1>8. G[0] = Found /\ G[n] = iter[1..n]
  <2>1. 1..0 = {} /\ 1..0 \in SUBSET (1..n)
    OBVIOUS
  <2>2. iter[1..0] = Found
    BY <1>7, <2>1 DEF F
  <2> QED BY <2>2
<1>9. ASSUME NEW k \in Nat, k + 1 <= n PROVE G[k + 1] = Op(G[k], q[k + 1])
  <2> DEFINE B == 1..k + 1
  <2>1. B \in SUBSET (1..n) /\ B # {} /\ Max(B) = k + 1 /\ B \ {k + 1} = 1..k
    <3>1. B \in SUBSET (1..n)
      BY <1>9
    <3>2. B # {} /\ Max(B) = k + 1 /\ B \ {k + 1} = 1..k
      BY Prefix
    <3> QED BY <3>1, <3>2
  <2>2. G[k + 1] = iter[B] /\ G[k] = iter[1..k]
    BY <1>9
  <2> HIDE DEF B, G
  <2>3. iter[B] = F(iter, B)
    BY <1>7, <2>1
  <2>4. iter[B] = Op(iter[B \ {Max(B)}], q[Max(B)])
    BY <2>1, <2>3 DEF F
  <2> QED BY <2>1, <2>2, <2>4
<1> HIDE DEF G
<1> QED BY <1>1, <1>8, <1>9 DEF Op, TargetRun

\* What an answer adds: nodes of its targets, its calls between nodes, targets for the
\* next level; and without a note all of it.
TakenIn(d, s, b) ==
    /\ b \in Gathered
    /\ nodes \subseteq b.nodes /\ b.nodes \subseteq nodes \cup TargetsOf(d, s)
    /\ b.related = related \cup (b.nodes \ nodes)
    /\ next \subseteq b.next /\ b.next \subseteq next \cup (b.nodes \cap TargetsOf(d, s))
    /\ edges \subseteq b.edges /\ b.edges \subseteq edges \cup Usable(d, s)
    /\ \A e \in b.edges \ edges : OtherEnd(d, e) \in b.nodes
    /\ b.notes = {} => /\ TargetsOf(d, s) \subseteq b.nodes /\ Usable(d, s) \subseteq b.edges
                       /\ depth + 1 < limits.depth => TargetsOf(d, s) \subseteq b.next \cup {s}

LEMMA AnswerTaken ==
    ASSUME graph \subseteq SiteCalls, Found \in Gathered, NEW d \in Directions, NEW s \in Symbols
    PROVE  TakenIn(d, s, Taken(d, s))
<1> DEFINE R == TargetsOf(d, s)
           q == InOrder(R)
           n == Cardinality(R)
           Whole(a, t) == /\ t \in a.nodes /\ UsableTo(d, s, t) \subseteq a.edges
                          /\ depth + 1 < limits.depth => t \in a.next \cup {s}
           Sound(a, k) ==
             /\ a \in Gathered
             /\ nodes \subseteq a.nodes /\ a.nodes \subseteq nodes \cup R
             /\ a.related = related \cup (a.nodes \ nodes)
             /\ next \subseteq a.next /\ a.next \subseteq next \cup (a.nodes \cap R)
             /\ edges \subseteq a.edges /\ a.edges \subseteq edges \cup Usable(d, s)
             /\ \A e \in a.edges \ edges : OtherEnd(d, e) \in a.nodes
             /\ a.notes = {} => \A i \in 1..k : Whole(a, q[i])
<1>1. R \in SUBSET Symbols
  BY UsableFacts DEF TargetsOf
<1>2. /\ n \in Nat /\ DOMAIN q = 1..n /\ \A i \in 1..n : q[i] \in R
      /\ \A x \in R : \E i \in 1..n : q[i] = x
  <2>1. R \in SUBSET Nat /\ IsFiniteSet(R)
    BY <1>1, Sites, FS_Subset
  <2> HIDE DEF R
  <2> QED BY <2>1, InOrderFacts
<1> HIDE DEF R, q, n, Whole
<1>3. PICK g : /\ Taken(d, s) = g[n]
               /\ g[0] = Found
               /\ \A k \in Nat : k + 1 <= n => g[k + 1] = AddTarget(d, s, g[k], q[k + 1])
  <2> HIDE DEF Sound
  <2>1. \A i \in 1..n : q[i] \in Symbols
    BY <1>1, <1>2
  <2>2. q = InOrder(TargetsOf(d, s))
    BY DEF q, R
  <2>3. TargetRun(d, s, q, n)
    BY <1>2, <2>1, <2>2, TargetSteps
  <2> QED BY <2>3 DEF TargetRun
<1> DEFINE T == {k \in Nat : k <= n => Sound(g[k], k)}
<1>4. Sound(g[0], 0)
  BY <1>3 DEF Found
<1>5. ASSUME NEW k \in Nat, k + 1 <= n, Sound(g[k], k) PROVE Sound(g[k + 1], k + 1)
  <2> DEFINE a == g[k]  b == g[k + 1]  t == q[k + 1]
  <2>1. k + 1 \in 1..n /\ \A i \in 1..k + 1 : i \in 1..k \/ i = k + 1
    BY <1>2, <1>5
  <2>2. t \in R /\ t \in Symbols
    BY <1>1, <1>2, <2>1
  <2>3. Sound(a, k) /\ a \in Gathered
    BY <1>5
  <2>4. b = AddTarget(d, s, a, t)
    BY <1>3, <1>5
  <2> HIDE DEF a, b, t
  <2>5. TargetIn(d, s, t, a, b)
    <3> HIDE DEF Sound
    <3> QED BY <2>2, <2>3, <2>4, TargetAdded
  <2>6. /\ b \in Gathered
        /\ nodes \subseteq b.nodes /\ b.nodes \subseteq nodes \cup R
        /\ b.related = related \cup (b.nodes \ nodes)
        /\ next \subseteq b.next /\ b.next \subseteq next \cup (b.nodes \cap R)
    BY <2>2, <2>3, <2>5 DEF TargetIn
  <2>7. /\ edges \subseteq b.edges /\ b.edges \subseteq edges \cup Usable(d, s)
        /\ \A e \in b.edges \ edges : OtherEnd(d, e) \in b.nodes
    BY <2>2, <2>3, <2>5 DEF TargetIn, UsableTo
  <2>8. ASSUME b.notes = {}, NEW i \in 1..k + 1 PROVE Whole(b, q[i])
    <3>1. a.notes = {}
      BY <2>5, <2>8 DEF TargetIn
    <3>2. CASE i = k + 1
      BY <2>5, <2>8, <3>2 DEF TargetIn, Whole, t
    <3>3. CASE i \in 1..k
      <4>1. Whole(a, q[i])
        BY <2>3, <3>1, <3>3
      <4> QED BY <2>5, <4>1 DEF TargetIn, Whole
    <3> QED BY <2>1, <3>2, <3>3
  <2> QED BY <2>6, <2>7, <2>8 DEF b
<1>6. Sound(g[n], n)
  <2> HIDE DEF Sound
  <2>1. 0 \in T /\ \A k \in Nat : k \in T => k + 1 \in T
    BY <1>2, <1>4, <1>5
  <2>2. n \in T
    <3> HIDE DEF T
    <3> QED BY <1>2, <2>1, SetInduction
  <2> QED BY <1>2, <2>2
<1>7. g[n].notes = {} => \A x \in R : Whole(g[n], x)
  BY <1>2, <1>6
<1>8. \A c \in Usable(d, s) : c \in UsableTo(d, s, OtherEnd(d, c)) /\ OtherEnd(d, c) \in R
  BY DEF UsableTo, R, TargetsOf
<1>9. g[n].notes = {} => /\ R \subseteq g[n].nodes /\ Usable(d, s) \subseteq g[n].edges
                         /\ depth + 1 < limits.depth => R \subseteq g[n].next \cup {s}
  BY <1>7, <1>8 DEF Whole
<1> QED BY <1>3, <1>6, <1>9 DEF TakenIn, R

-----------------------------------------------------------------------------
(* The invariant. *)

\* Limitations are about the files of symbols and of seeds.
Marks == Notes \X (Files \cup {seeds[k].file : k \in DOMAIN seeds})
Statuses == {"none", "completed", "partial", "failed", "invalid-output", "ReportInvalid"}

WalkTyped ==
    /\ graph \in Graphs /\ seeds \in Requested /\ nature \in Natures /\ limits \in Budgets
    /\ asked \in (SUBSET Directions) \ {{}}
    /\ phase \in {"open", "prepare", "walk", "done"} /\ at \in 1..Len(seeds)
    /\ attempt \in 0..Attempts - 1 /\ requests \in 0..limits.requests
    /\ nodes \subseteq Symbols /\ edges \subseteq SiteCalls /\ limitations \subseteq Marks
    /\ seedOf \in [DOMAIN seedOf -> nodes] /\ DOMAIN seedOf \subseteq DOMAIN seeds
    /\ frontier \subseteq nodes /\ next \subseteq nodes /\ visited \subseteq asked \X nodes
    /\ depth \in 0..1 /\ depth < limits.depth
    /\ report.status \in Statuses

\* Nodes are seeds or related, and never both; edges are between nodes.
Shaped ==
    /\ nodes = Range(seedOf) \cup related /\ Range(seedOf) \cap related = {}
    /\ \A e \in edges : e[1] \in nodes /\ e[2] \in nodes

\* Each attempt for a seed is one request, and so is each visit; the request a walk
\* ends with may be none of them.
WalkCounted ==
    /\ phase = "open" => requests = 0 /\ attempt = 0
    /\ phase = "prepare" => requests <= Attempts * (at - 1) + attempt
    /\ phase = "walk" => requests <= Attempts * Len(seeds) + Cardinality(visited)
    /\ phase = "done" => requests <= Attempts * Len(seeds) + Cardinality(visited) + 1

\* Until the walk begins there is nothing but resolved seeds.
Preparing ==
    /\ phase \in {"open", "prepare"} => /\ related = {} /\ edges = {} /\ next = {}
                                     /\ visited = {} /\ depth = 0 /\ frontier = nodes
    /\ phase = "open" => DOMAIN seedOf = {}
    /\ phase = "prepare" => DOMAIN seedOf \subseteq 1..at - 1
    /\ phase = "prepare" /\ limitations = {} => DOMAIN seedOf = 1..at - 1
    /\ phase = "walk" /\ limitations = {} => DOMAIN seedOf = DOMAIN seeds

\* The symbols at most k requests away from the seeds, and the calls there are at some.
Around(set) == set \cup {t \in Symbols : \E d \in asked, s \in set : t \in TargetsOf(d, s)}
Near(k) == IF k = 0 THEN Range(seedOf)
           ELSE IF k = 1 THEN Around(Range(seedOf)) ELSE Around(Around(Range(seedOf)))
CallsAt(set) == {c \in graph : \E d \in asked, s \in set : c \in Usable(d, s)}

\* The walk is as deep as it says; and as long as nothing is noted, a visited symbol is
\* in the report with all its calls and leads to the next level, and a symbol of this
\* level was visited or is still to be.
Layered ==
    phase = "walk" =>
        /\ frontier \subseteq Near(depth) /\ next \subseteq Near(depth + 1)
        /\ visited \subseteq asked \X Near(depth) /\ related \subseteq Near(depth + 1)
        /\ edges \subseteq CallsAt(Near(depth))
        /\ limitations = {} =>
             /\ \A d \in asked, s \in Near(depth) :
                  <<d, s>> \in visited =>
                    /\ Usable(d, s) \subseteq edges /\ TargetsOf(d, s) \subseteq nodes
                    /\ depth + 1 < limits.depth => TargetsOf(d, s) \subseteq next \cup {s}
             /\ \A s \in Near(depth) : s \in frontier \/ \A d \in asked : <<d, s>> \in visited

\* What a report says was found.
Truthful ==
    /\ phase # "done" => report = NoReport
    /\ report.status = "completed" =>
         /\ DOMAIN seedOf = DOMAIN seeds
         /\ report.edges = CallsAt(Near(limits.depth - 1))
         /\ report.related = Near(limits.depth) \ Range(seedOf)
    /\ report.status = "partial" =>
         /\ report.edges \subseteq CallsAt(Near(limits.depth - 1))
         /\ report.related \subseteq Near(limits.depth)
    /\ AlwaysReportable

WalkInv == WalkTyped /\ Shaped /\ WalkCounted /\ Preparing /\ Layered /\ Truthful

\* The inputs.
LEMMA Inputs ==
    ASSUME WalkTyped
    PROVE  /\ graph \subseteq SiteCalls
           /\ seeds # <<>> /\ Len(seeds) \in Nat \ {0} /\ DOMAIN seeds = 1..Len(seeds)
           /\ \A k \in DOMAIN seeds : seeds[k].file \in Nat /\ seeds[k].places \subseteq Symbols
           /\ limits.depth \in 1..2 /\ limits.requests \in Nat /\ Attempts \in Nat \ {0}
           /\ MaxLimitations \in Nat /\ asked \in (SUBSET Directions) \ {{}}
<1>1. graph \subseteq SiteCalls
  BY WalkAssumption DEF WalkTyped, SiteCalls
<1>2. seeds \in Seq([file : Nat, places : SUBSET Symbols, opaque : BOOLEAN]) /\ seeds # <<>>
  BY WalkAssumption DEF WalkTyped
<1>3. limits \in [depth : 1..2, nodes : Nat, edges : Nat, requests : Nat]
  BY WalkAssumption DEF WalkTyped
<1>4. Len(seeds) \in Nat \ {0} /\ DOMAIN seeds = 1..Len(seeds)
  BY <1>2
<1>5. \A k \in DOMAIN seeds : seeds[k].file \in Nat /\ seeds[k].places \subseteq Symbols
  <2> DEFINE S == [file : Nat, places : SUBSET Symbols, opaque : BOOLEAN]
  <2>1. \A x \in S : x.file \in Nat /\ x.places \subseteq Symbols
    OBVIOUS
  <2>2. seeds \in Seq(S)
    BY <1>2
  <2> HIDE DEF S
  <2>3. \A k \in DOMAIN seeds : seeds[k] \in S
    BY <2>2
  <2> QED BY <2>1, <2>3
<1> QED BY <1>1, <1>2, <1>3, <1>4, <1>5, WalkAssumption DEF WalkTyped

\* The image of a finite set is finite.
LEMMA Images ==
    ASSUME NEW S, IsFiniteSet(S), NEW f
    PROVE  IsFiniteSet({f[x] : x \in S})
<1> DEFINE T == {f[x] : x \in S}  h == [x \in S |-> f[x]]
<1>1. h \in Surjection(S, T)
  BY DEF Surjection
<1> HIDE DEF T, h
<1>2. IsFiniteSet(T)
  BY <1>1, FS_Surjection
<1> QED BY <1>2 DEF T

\* There are only so many limitations.
LEMMA LimitationsAreFinite ==
    ASSUME WalkTyped
    PROVE  /\ IsFiniteSet(limitations) /\ Cardinality(limitations) \in Nat
           /\ limitations \subseteq Notes \X Nat
<1>1. IsFiniteSet(Files) /\ Files \subseteq Nat
  <2>1. IsFiniteSet(Files)
    <3>1. IsFiniteSet(Symbols)
      BY Sites
    <3>2. IsFiniteSet({FileOf[s] : s \in Symbols})
      BY <3>1, Images
    <3> QED BY <3>2 DEF Files
  <2>2. FileOf \in [Symbols -> Nat]
    BY WalkAssumption
  <2> QED BY <2>1, <2>2 DEF Files
<1> DEFINE f == [k \in DOMAIN seeds |-> seeds[k].file]
           G == {f[k] : k \in DOMAIN seeds}
<1>2. G = {seeds[k].file : k \in DOMAIN seeds} /\ G \subseteq Nat
  BY Inputs
<1>3. IsFiniteSet(G)
  <2>1. IsFiniteSet(DOMAIN seeds)
    <3>1. 1 \in Int /\ Len(seeds) \in Int /\ DOMAIN seeds = 1..Len(seeds)
      BY Inputs
    <3> QED BY <3>1, FS_Interval
  <2> HIDE DEF f
  <2> QED BY <2>1, Images
<1> HIDE DEF G
<1>4. IsFiniteSet(Files \cup G) /\ Files \cup G \subseteq Nat
  BY <1>1, <1>2, <1>3, FS_Union
<1>5. IsFiniteSet(Notes)
  <2> DEFINE C0 == {"macro-invocation-partial"}
             C1 == C0 \cup {"provider-call-kind-invalid"}
             C2 == C1 \cup {"seed-unresolved"}
             C3 == C2 \cup {"seed-ambiguous"}
             C4 == C3 \cup {"seed-symbol-duplicate"}
             C5 == C4 \cup {"edge-budget-exhausted"}
             C6 == C5 \cup {"node-budget-exhausted"}
             C7 == C6 \cup {"call-range-invalid"}
             C8 == C7 \cup {"call-hierarchy-request-failed"}
  <2>1. C8 = Notes
    <3>1. \A x : x \in C8 <=> x \in Notes
      BY DEF Notes
    <3> HIDE DEF C8
    <3> QED BY <3>1
  <2> HIDE DEF C8
  <2>2. IsFiniteSet(C0)
    BY FS_Singleton
  <2> HIDE DEF C0
  <2>3. IsFiniteSet(C1) /\ IsFiniteSet(C2) /\ IsFiniteSet(C3) /\ IsFiniteSet(C4)
    BY <2>2, FS_AddElement
  <2> HIDE DEF C4
  <2>4. IsFiniteSet(C5) /\ IsFiniteSet(C6) /\ IsFiniteSet(C7)
    BY <2>3, FS_AddElement
  <2> HIDE DEF C7
  <2>5. IsFiniteSet(C8)
    BY <2>4, FS_AddElement DEF C8
  <2> QED BY <2>1, <2>5
<1>6. Marks = Notes \X (Files \cup G)
  BY <1>2 DEF Marks
<1>7. IsFiniteSet(Marks) /\ Marks \subseteq Notes \X Nat
  BY <1>4, <1>5, <1>6, FS_Product
<1> QED BY <1>7, FS_Subset, FS_CardinalityType DEF WalkTyped

\* What is near is the same as long as the input is and the seeds are.
LEMMA SameNear ==
    ASSUME UNCHANGED <<graph, nature, asked, seedOf>>
    PROVE  /\ \A d, s : Usable(d, s)' = Usable(d, s)
           /\ \A d, s : TargetsOf(d, s)' = TargetsOf(d, s)
           /\ \A k : Near(k)' = Near(k)
           /\ \A S : CallsAt(S)' = CallsAt(S)
<1>1. \A d, s : Usable(d, s)' = Usable(d, s)
  BY DEF Usable, Calls
<1>2. \A d, s : TargetsOf(d, s)' = TargetsOf(d, s)
  BY <1>1 DEF TargetsOf
<1>3. \A S : Around(S)' = Around(S)
  BY <1>2 DEF Around
<1>4. Range(seedOf)' = Range(seedOf)
  BY DEF Range
<1>5. \A k : Near(k)' = Near(k)
  BY <1>3, <1>4 DEF Near
<1>6. \A S : CallsAt(S)' = CallsAt(S)
  BY <1>1 DEF CallsAt
<1> QED BY <1>1, <1>2, <1>5, <1>6

\* Each distance is the one before and what its calls lead to.
LEMMA NearFacts ==
    ASSUME WalkTyped
    PROVE  /\ Near(0) = Range(seedOf)
           /\ \A k \in 0..2 : Near(k) \subseteq Symbols
           /\ \A k \in 0..1 : Near(k) \subseteq Near(k + 1)
           /\ \A k \in 0..1 : \A d \in asked, s \in Near(k) : TargetsOf(d, s) \subseteq Near(k + 1)
           /\ \A k \in 0..1 : \A t \in Near(k + 1) :
                 t \in Near(k) \/ \E d \in asked, s \in Near(k) : t \in TargetsOf(d, s)
           /\ \A S, T : S \subseteq T => CallsAt(S) \subseteq CallsAt(T)
           /\ \A S : \A d \in asked, s \in S : Usable(d, s) \subseteq CallsAt(S)
<1>1. Near(0) = Range(seedOf) /\ Range(seedOf) \subseteq Symbols
  BY DEF Near, Range, WalkTyped
<1>2. Near(1) = Around(Near(0)) /\ Near(2) = Around(Near(1))
  BY DEF Near
<1>3. \A S : S \subseteq Around(S) /\ (S \subseteq Symbols => Around(S) \subseteq Symbols)
  BY DEF Around
<1>4. \A k \in 0..1 : Near(k + 1) = Around(Near(k))
  BY <1>2
<1>5. \A d \in asked, s \in Symbols : TargetsOf(d, s) \subseteq Symbols
  BY Inputs, UsableFacts DEF TargetsOf
<1>6. \A S : S \subseteq Symbols => \A d \in asked, s \in S : TargetsOf(d, s) \subseteq Around(S)
  BY <1>5 DEF Around
<1>7. \A S : \A t \in Around(S) : t \in S \/ \E d \in asked, s \in S : t \in TargetsOf(d, s)
  BY DEF Around
<1>8. \A S, T : S \subseteq T => CallsAt(S) \subseteq CallsAt(T)
  BY DEF CallsAt
<1>9. \A S : \A d \in asked, s \in S : Usable(d, s) \subseteq CallsAt(S)
  BY DEF CallsAt, Usable, Calls
<1>10. \A k \in 0..2 : Near(k) \subseteq Symbols
  BY <1>1, <1>2, <1>3
<1>11. \A k \in 0..1 : Near(k) \subseteq Near(k + 1)
  BY <1>3, <1>4
<1>12. \A k \in 0..1 : \A d \in asked, s \in Near(k) : TargetsOf(d, s) \subseteq Near(k + 1)
  BY <1>4, <1>6, <1>10
<1>13. \A k \in 0..1 : \A t \in Near(k + 1) :
         t \in Near(k) \/ \E d \in asked, s \in Near(k) : t \in TargetsOf(d, s)
  BY <1>4, <1>7
<1> QED BY <1>1, <1>8, <1>9, <1>10, <1>11, <1>12, <1>13

\* A bound on attempts grows with the seeds.
LEMMA Times ==
    ASSUME NEW a \in Nat, NEW b \in Nat, NEW c \in Nat, b <= c
    PROVE  a * b \in Nat /\ a * (b + 1) = a * b + a /\ a * b <= a * c
<1>1. a * c = a * b + a * (c - b) /\ a * (c - b) >= 0
  OBVIOUS
<1> QED BY <1>1

\* There are two visits to a node at most.
LEMMA Visits ==
    ASSUME WalkTyped
    PROVE  /\ IsFiniteSet(visited) /\ Cardinality(visited) \in Nat
           /\ Cardinality(asked) \in Nat /\ Cardinality(nodes) \in Nat
           /\ Cardinality(visited) <= Cardinality(asked) * Cardinality(nodes)
           /\ \A v : v \notin visited => Cardinality(visited \cup {v}) = Cardinality(visited) + 1
           /\ Cardinality({}) = 0
<1>1. IsFiniteSet(asked)
  <2>1. Directions = {"incoming"} \cup {"outgoing"}
    BY DEF Directions
  <2>2. IsFiniteSet({"incoming"} \cup {"outgoing"})
    BY FS_Singleton, FS_AddElement
  <2> QED BY <2>1, <2>2, FS_Subset DEF WalkTyped
<1>2. IsFiniteSet(nodes)
  BY Sites, FS_Subset DEF WalkTyped
<1>3. /\ IsFiniteSet(asked \X nodes)
      /\ Cardinality(asked \X nodes) = Cardinality(asked) * Cardinality(nodes)
  BY <1>1, <1>2, FS_Product
<1>4. visited \subseteq asked \X nodes
  BY DEF WalkTyped
<1>5. IsFiniteSet(visited) /\ Cardinality(visited) <= Cardinality(asked \X nodes)
  BY <1>3, <1>4, FS_Subset
<1>6. \A v : v \notin visited => Cardinality(visited \cup {v}) = Cardinality(visited) + 1
  BY <1>5, FS_AddElement
<1> QED BY <1>1, <1>2, <1>3, <1>5, <1>6, FS_CardinalityType, FS_EmptySet

-----------------------------------------------------------------------------
(* The steps. *)

\* A walk that failed is over, and its report says nothing.
LEMMA FailsIsOver ==
    ASSUME NEW code, Fails(code)
    PROVE  /\ phase' = "done" /\ report'.status \in {"failed", "invalid-output"}
           /\ Preparing' /\ Layered' /\ Truthful'
<1>1. phase' = "done" /\ report'.status \in {"failed", "invalid-output"}
  BY DEF Fails, NoReport
<1>2. Preparing'
  BY <1>1 DEF Preparing
<1>3. Layered'
  BY <1>1 DEF Layered
<1>4. Truthful'
  BY <1>1 DEF Truthful, AlwaysReportable
<1> QED BY <1>1, <1>2, <1>3, <1>4

\* So a failure keeps the invariant when it changes nothing but what was asked.
LEMMA FailureKeeps ==
    ASSUME WalkInv, NEW code, Fails(code),
           UNCHANGED <<input, at, attempt, nodes, seedOf, related, edges, limitations,
                       frontier, next, depth>>,
           visited' \subseteq asked \X nodes, requests' \in 0..limits.requests,
           requests' <= Attempts * Len(seeds) + Cardinality(visited') + 1
    PROVE  WalkInv'
<1>1. /\ phase' = "done" /\ report'.status \in {"failed", "invalid-output"}
      /\ Preparing' /\ Layered' /\ Truthful'
  BY FailsIsOver
<1>2. WalkTyped'
  BY <1>1 DEF WalkInv, WalkTyped, input, Marks, Statuses
<1>3. Shaped'
  BY DEF WalkInv, Shaped, Range
<1>4. WalkCounted'
  BY <1>1 DEF WalkCounted, input
<1> QED BY <1>1, <1>2, <1>3, <1>4 DEF WalkInv

\* Before the first request.
LEMMA OpenKeeps == ASSUME WalkInv, Open PROVE WalkInv'
<1>1. /\ phase = "open" /\ requests = 0 /\ attempt = 0
      /\ UNCHANGED <<input, attempt, requests, nodes, seedOf, related, edges, level, report>>
      /\ \/ phase' = "open" /\ at' = at + 1 /\ at # Len(seeds)
         \/ phase' = "prepare" /\ at' = 1
  <2>1. /\ phase = "open" /\ requests = 0 /\ attempt = 0
    BY DEF Open, WalkInv, WalkCounted
  <2>2. \/ phase' = "open" /\ at' = at + 1 /\ at # Len(seeds)
        \/ phase' = "prepare" /\ at' = 1
    BY <2>1 DEF Open
  <2> QED BY <2>1, <2>2 DEF Open
<1>2. limitations \subseteq limitations' /\ limitations' \subseteq Marks
  <2>1. at \in DOMAIN seeds
    BY Inputs DEF WalkInv, WalkTyped
  <2>2. <<"macro-invocation-partial", seeds[at].file>> \in Marks
    BY <2>1 DEF Marks, Notes
  <2>3. \/ limitations' = limitations
        \/ limitations' = limitations \cup {<<"macro-invocation-partial", seeds[at].file>>}
    BY DEF Open
  <2> QED BY <2>2, <2>3 DEF WalkInv, WalkTyped
<1>3. WalkTyped'
  <2>1. Marks' = Marks
    BY <1>1 DEF Marks, input
  <2>2. at' \in 1..Len(seeds)
    BY <1>1, Inputs DEF WalkInv, WalkTyped
  <2> QED BY <1>1, <1>2, <2>1, <2>2 DEF WalkInv, WalkTyped, input, level
<1>4. Shaped'
  BY <1>1 DEF WalkInv, Shaped, Range
<1>5. WalkCounted'
  BY <1>1, Inputs DEF WalkInv, WalkCounted
<1>6. Preparing'
  BY <1>1, Inputs DEF WalkInv, WalkTyped, Preparing, level
<1>7. Layered' /\ Truthful'
  BY <1>1 DEF WalkInv, Layered, Truthful, AlwaysReportable, NoReport
<1> QED BY <1>3, <1>4, <1>5, <1>6, <1>7 DEF WalkInv

LEMMA OpenFailsKeeps == ASSUME WalkInv, OpenFails PROVE WalkInv'
<1>1. /\ phase = "open" /\ Fails("provider-snapshot-boundary")
      /\ UNCHANGED <<input, at, attempt, requests, found, level>> /\ requests = 0
  BY DEF OpenFails, WalkInv, WalkCounted
<1>2. requests <= Attempts * Len(seeds) + Cardinality(visited) + 1
  <2> DEFINE y == Attempts * Len(seeds)  n == Cardinality(visited)
  <2>1. y \in Nat /\ n \in Nat
    BY Inputs, Visits, Times DEF WalkInv
  <2> HIDE DEF y, n
  <2>2. requests <= y + n + 1
    BY <1>1, <2>1
  <2> QED BY <2>2 DEF y, n
<1> QED BY <1>1, <1>2, FailureKeeps DEF WalkInv, WalkTyped, found, level, input

\* A prepare request is one more attempt.
LEMMA PrepareCount ==
    ASSUME WalkInv, phase = "prepare"
    PROVE  /\ requests + 1 <= Attempts * at /\ Attempts * at <= Attempts * Len(seeds)
           /\ Cardinality(visited) = 0 /\ Attempts * (at - 1) + Attempts = Attempts * at
           /\ Attempts * at \in Nat /\ Attempts * Len(seeds) \in Nat
           /\ Attempts * (at - 1) \in Nat
<1>1. /\ at \in Nat /\ at - 1 \in Nat /\ at <= Len(seeds) /\ Len(seeds) \in Nat
      /\ Attempts \in Nat /\ attempt + 1 <= Attempts /\ attempt \in Nat /\ requests \in Nat
  BY Inputs DEF WalkInv, WalkTyped
<1>2. Attempts * (at - 1) \in Nat /\ Attempts * ((at - 1) + 1) = Attempts * (at - 1) + Attempts
  BY <1>1, Times
<1>3. Attempts * at \in Nat /\ Attempts * at <= Attempts * Len(seeds)
  BY <1>1, Times
<1>4. Attempts * Len(seeds) \in Nat
  BY <1>1, Times
<1>5. (at - 1) + 1 = at
  BY <1>1
<1>6. requests <= Attempts * (at - 1) + attempt
  BY DEF WalkInv, WalkCounted
<1>7. Cardinality(visited) = 0
  BY Visits DEF WalkInv, Preparing
<1>8. Attempts * (at - 1) + Attempts = Attempts * at
  BY <1>2, <1>5
<1> DEFINE x == Attempts * (at - 1)  y == Attempts * at
<1>9. requests <= x + attempt /\ x \in Nat /\ x + Attempts = y
  BY <1>2, <1>6, <1>8
<1> HIDE DEF x, y
<1>10. requests + 1 <= y
  BY <1>1, <1>9
<1> QED BY <1>2, <1>3, <1>4, <1>7, <1>8, <1>10 DEF y

LEMMA PrepareAgainKeeps == ASSUME WalkInv, PrepareAgain PROVE WalkInv'
<1>1. /\ phase = "prepare" /\ requests < limits.requests /\ requests' = requests + 1
      /\ attempt + 1 < Attempts /\ attempt' = attempt + 1
      /\ UNCHANGED <<input, phase, at, found, level, report>>
  BY DEF PrepareAgain, Asks
<1>2. WalkTyped'
  <2>1. attempt' \in 0..Attempts - 1 /\ requests' \in 0..limits.requests
    BY <1>1, Inputs DEF WalkInv, WalkTyped
  <2> QED BY <1>1, <2>1 DEF WalkInv, WalkTyped, input, found, level, Marks
<1>3. Shaped' /\ Preparing'
  BY <1>1 DEF WalkInv, Shaped, Range, Preparing, input, found, level
<1>4. WalkCounted'
  <2>1. requests <= Attempts * (at - 1) + attempt /\ Attempts * (at - 1) \in Nat
    BY <1>1, PrepareCount DEF WalkInv, WalkCounted
  <2> DEFINE x == Attempts * (at - 1)
  <2>2. requests <= x + attempt /\ x \in Nat /\ requests \in Nat /\ attempt \in Nat
    BY <2>1, Inputs DEF WalkInv, WalkTyped
  <2> HIDE DEF x
  <2>3. requests + 1 <= x + (attempt + 1)
    BY <2>2
  <2> QED BY <1>1, <2>3 DEF WalkCounted, x, input
<1>5. Layered' /\ Truthful'
  BY <1>1 DEF WalkInv, Layered, Truthful, AlwaysReportable, NoReport
<1> QED BY <1>2, <1>3, <1>4, <1>5 DEF WalkInv

LEMMA PrepareFailsKeeps == ASSUME WalkInv, PrepareFails PROVE WalkInv'
<1>1. PICK code \in {"provider-server-error", "provider-call-hierarchy-invalid"} : Fails(code)
  BY DEF PrepareFails
<1>2. /\ phase = "prepare" /\ requests < limits.requests /\ requests' = requests + 1
      /\ UNCHANGED <<input, at, attempt, found, level>>
  BY DEF PrepareFails, Asks
<1>3. /\ requests' \in 0..limits.requests
      /\ requests' <= Attempts * Len(seeds) + Cardinality(visited) + 1
  <2> DEFINE x == Attempts * at  y == Attempts * Len(seeds)
  <2>1. requests + 1 <= x /\ x <= y /\ Cardinality(visited) = 0 /\ x \in Nat /\ y \in Nat
    BY <1>2, PrepareCount
  <2> HIDE DEF x, y
  <2>2. requests' <= y + Cardinality(visited) + 1 /\ requests' \in 0..limits.requests
    BY <1>2, <2>1, Inputs DEF WalkInv, WalkTyped
  <2> QED BY <2>2 DEF y
<1> QED BY <1>1, <1>2, <1>3, FailureKeeps DEF WalkInv, WalkTyped, found, level, input

LEMMA OutOfRequestsKeeps == ASSUME WalkInv, OutOfRequests PROVE WalkInv'
<1>1. /\ phase \in {"prepare", "walk"} /\ Fails("provider-request-limit")
      /\ UNCHANGED <<input, at, attempt, requests, found, level>>
  BY DEF OutOfRequests
<1>2. requests <= Attempts * Len(seeds) + Cardinality(visited) + 1
  <2> DEFINE x == Attempts * at  y == Attempts * Len(seeds)  n == Cardinality(visited)
  <2>1. n \in Nat /\ requests \in Nat
    BY Visits, Inputs DEF WalkInv, WalkTyped
  <2>2. CASE phase = "prepare"
    <3>1. requests + 1 <= x /\ x <= y /\ x \in Nat /\ y \in Nat
      BY <2>2, PrepareCount
    <3> HIDE DEF x, y, n
    <3>2. requests <= y + n + 1
      BY <2>1, <3>1
    <3> QED BY <3>2 DEF y, n
  <2>3. CASE phase = "walk"
    <3>1. requests <= y + n /\ y \in Nat
      BY <2>3, Inputs, Times DEF WalkInv, WalkCounted
    <3> HIDE DEF y, n
    <3>2. requests <= y + n + 1
      BY <2>1, <3>1
    <3> QED BY <3>2 DEF y, n
  <2> QED BY <1>1, <2>2, <2>3
<1> QED BY <1>1, <1>2, FailureKeeps DEF WalkInv, WalkTyped, found, level, input

\* An answer resolves the seed in hand to a new node, or something is noted.
LEMMA SeedAnswered ==
    ASSUME WalkInv, phase = "prepare", NEW items \in SUBSET Symbols, Resolved(items)
    PROVE  /\ limitations \subseteq limitations' /\ limitations' \subseteq Marks
           /\ \/ \E s \in Symbols :
                    /\ s \notin Range(seedOf)
                    /\ seedOf' = [k \in DOMAIN seedOf \cup {at} |-> IF k = at THEN s ELSE seedOf[k]]
                    /\ nodes' = nodes \cup {s} /\ frontier' = frontier \cup {s}
              \/ limitations' # {} /\ UNCHANGED <<seedOf, nodes, frontier>>
<1> DEFINE file == seeds[at].file
           matches == Matches(seeds[at], Plain(items))
           s == CHOOSE m \in matches : TRUE
           left == LeftOut(items, file)
<1>1. file \in {seeds[k].file : k \in DOMAIN seeds}
  <2>1. at \in DOMAIN seeds
    BY Inputs DEF WalkInv, WalkTyped
  <2> QED BY <2>1
<1>2. \A code \in Notes : <<code, file>> \in Marks
  BY <1>1 DEF Marks
<1>3. left \subseteq Marks
  BY <1>2 DEF LeftOut, Notes
<1>4. matches \subseteq Symbols
  BY DEF Matches, Plain
<1>5. Cardinality(matches) = 1 => s \in matches
  BY FS_EmptySet
<1>6. limitations \subseteq Marks
  BY DEF WalkInv, WalkTyped
<1> DEFINE Noted == \E code \in {"seed-unresolved", "seed-ambiguous", "seed-symbol-duplicate"} :
                       limitations' = limitations \cup left \cup {<<code, file>>}
<1>7. \/ /\ Cardinality(matches) = 1 /\ s \notin Range(seedOf)
         /\ seedOf' = [k \in DOMAIN seedOf \cup {at} |-> IF k = at THEN s ELSE seedOf[k]]
         /\ nodes' = nodes \cup {s} /\ frontier' = frontier \cup {s}
         /\ limitations' = limitations \cup left
      \/ Noted /\ UNCHANGED <<seedOf, nodes, frontier>>
  BY DEF Resolved
<1> HIDE DEF file, matches, s, left
<1>8. CASE Noted /\ UNCHANGED <<seedOf, nodes, frontier>>
  <2>1. PICK code \in {"seed-unresolved", "seed-ambiguous", "seed-symbol-duplicate"} :
           limitations' = limitations \cup left \cup {<<code, file>>}
    BY <1>8
  <2>2. <<code, file>> \in Marks
    BY <1>2 DEF Notes
  <2> QED BY <1>3, <1>6, <1>8, <2>1, <2>2
<1>9. CASE /\ Cardinality(matches) = 1 /\ s \notin Range(seedOf)
           /\ seedOf' = [k \in DOMAIN seedOf \cup {at} |-> IF k = at THEN s ELSE seedOf[k]]
           /\ nodes' = nodes \cup {s} /\ frontier' = frontier \cup {s}
           /\ limitations' = limitations \cup left
  <2>1. s \in Symbols
    BY <1>4, <1>5, <1>9
  <2> QED BY <1>3, <1>6, <1>9, <2>1
<1> QED BY <1>7, <1>8, <1>9

LEMMA PrepareKeeps == ASSUME WalkInv, Prepare PROVE WalkInv'
<1>1. PICK items \in SUBSET Symbols :
         IF Outside(items)
         THEN /\ Fails("provider-snapshot-boundary")
              /\ UNCHANGED <<at, attempt, nodes, seedOf, limitations, frontier>>
         ELSE Resolved(items) /\ NextSeed /\ UNCHANGED report
  BY DEF Prepare
<1>2. /\ phase = "prepare" /\ requests < limits.requests /\ requests' = requests + 1
      /\ UNCHANGED <<input, related, edges, next, visited, depth>>
  BY DEF Prepare, Asks
<1>3. /\ requests' \in 0..limits.requests /\ requests' <= Attempts * at
      /\ requests' <= Attempts * Len(seeds) + Cardinality(visited)
      /\ requests' <= Attempts * Len(seeds) + Cardinality(visited) + 1
  <2> DEFINE x == Attempts * at  y == Attempts * Len(seeds)
  <2>1. requests + 1 <= x /\ x <= y /\ Cardinality(visited) = 0 /\ x \in Nat /\ y \in Nat
    BY <1>2, PrepareCount
  <2> HIDE DEF x, y
  <2>2. /\ requests' <= y + Cardinality(visited) + 1 /\ requests' <= y + Cardinality(visited)
        /\ requests' <= x /\ requests' \in 0..limits.requests
    BY <1>2, <2>1, Inputs DEF WalkInv, WalkTyped
  <2> QED BY <2>2 DEF x, y
<1>4. CASE Outside(items)
  BY <1>1, <1>2, <1>3, <1>4, FailureKeeps DEF WalkInv, WalkTyped
<1>5. CASE ~Outside(items)
  <2>1. /\ Resolved(items) /\ NextSeed /\ UNCHANGED report
        /\ related = {} /\ edges = {} /\ next = {} /\ visited = {} /\ depth = 0
        /\ frontier = nodes /\ DOMAIN seedOf \subseteq 1..at - 1
        /\ limitations = {} => DOMAIN seedOf = 1..at - 1
    BY <1>1, <1>2, <1>5 DEF WalkInv, Preparing
  <2>2. /\ attempt' = 0
        /\ \/ at = Len(seeds) /\ phase' = "walk" /\ at' = at
           \/ at # Len(seeds) /\ phase' = "prepare" /\ at' = at + 1
    BY <2>1 DEF NextSeed
  <2>3. at \in 1..Len(seeds) /\ at' \in 1..Len(seeds) /\ Len(seeds) \in Nat
        /\ DOMAIN seeds = 1..Len(seeds)
    BY <2>2, Inputs DEF WalkInv, WalkTyped
  <2>3a. at \in Int
    BY <2>3
  <2>3b. attempt' = 0 /\ (phase' = "prepare" => at' - 1 = at)
    <3>1. phase' = "prepare" => at' = at + 1
      BY <2>2
    <3> QED BY <2>2, <2>3a, <3>1
  <2>4. /\ limitations \subseteq limitations' /\ limitations' \subseteq Marks
        /\ \/ \E s \in Symbols :
                 /\ s \notin Range(seedOf)
                 /\ seedOf' = [k \in DOMAIN seedOf \cup {at} |-> IF k = at THEN s ELSE seedOf[k]]
                 /\ nodes' = nodes \cup {s} /\ frontier' = frontier \cup {s}
           \/ limitations' # {} /\ UNCHANGED <<seedOf, nodes, frontier>>
    BY <1>2, <2>1, SeedAnswered
  <2>5. nodes = Range(seedOf) /\ seedOf \in [DOMAIN seedOf -> nodes] /\ nodes \subseteq Symbols
    BY <2>1 DEF WalkInv, Shaped, WalkTyped
  <2>6. /\ nodes' = Range(seedOf)' /\ frontier' = nodes' /\ nodes' \subseteq Symbols
        /\ seedOf' \in [DOMAIN seedOf' -> nodes'] /\ DOMAIN seedOf' \subseteq 1..at
        /\ limitations' = {} => DOMAIN seedOf' = 1..at
    <3>1. CASE limitations' # {} /\ UNCHANGED <<seedOf, nodes, frontier>>
      BY <2>1, <2>3, <2>5, <3>1 DEF Range
    <3>2. CASE \E s \in Symbols :
                 /\ s \notin Range(seedOf)
                 /\ seedOf' = [k \in DOMAIN seedOf \cup {at} |-> IF k = at THEN s ELSE seedOf[k]]
                 /\ nodes' = nodes \cup {s} /\ frontier' = frontier \cup {s}
      <4>1. PICK s \in Symbols :
                 /\ seedOf' = [k \in DOMAIN seedOf \cup {at} |-> IF k = at THEN s ELSE seedOf[k]]
                 /\ nodes' = nodes \cup {s} /\ frontier' = frontier \cup {s}
        BY <3>2
      <4>2. /\ DOMAIN seedOf' = DOMAIN seedOf \cup {at} /\ seedOf'[at] = s
            /\ \A k \in DOMAIN seedOf : seedOf'[k] = seedOf[k]
        BY <2>1, <2>3, <4>1
      <4>3. Range(seedOf)' = Range(seedOf) \cup {s}
        BY <4>2 DEF Range
      <4>4. limitations' = {} => DOMAIN seedOf' = 1..at
        BY <2>1, <2>3, <2>4, <4>2
      <4>5. seedOf' \in [DOMAIN seedOf' -> nodes'] /\ DOMAIN seedOf' \subseteq 1..at
        BY <2>1, <2>3, <2>5, <4>1, <4>2
      <4> QED BY <2>1, <2>5, <4>1, <4>3, <4>4, <4>5
    <3> QED BY <2>4, <3>1, <3>2
  <2>7. WalkTyped'
    <3>1. Marks' = Marks
      BY <1>2 DEF Marks, input
    <3>2. DOMAIN seedOf' \subseteq DOMAIN seeds /\ attempt' \in 0..Attempts - 1
      BY <2>2, <2>3, <2>6, Inputs DEF WalkInv
    <3>3. /\ edges' \subseteq SiteCalls /\ next' \subseteq nodes'
          /\ visited' \subseteq asked' \X nodes'
      BY <1>2, <2>1
    <3> QED BY <1>2, <1>3, <2>1, <2>2, <2>3, <2>4, <2>6, <3>1, <3>2, <3>3 DEF WalkInv, WalkTyped, input
  <2>8. Shaped'
    BY <1>2, <2>1, <2>6 DEF Shaped
  <2>9. WalkCounted'
    <3>1. phase' = "prepare" => at' - 1 = at /\ attempt' = 0
      BY <2>3b
    <3>2. CASE phase' = "prepare"
      <4>1. requests' <= Attempts * (at' - 1)
        BY <1>3, <3>1, <3>2
      <4>2. Attempts * (at' - 1) + attempt' = Attempts * (at' - 1)
        BY <3>1, <3>2, PrepareCount, <1>2
      <4> QED BY <1>2, <3>2, <4>1, <4>2 DEF WalkCounted, input
    <3>3. CASE phase' = "walk"
      BY <1>2, <1>3, <3>3 DEF WalkCounted, input
    <3> QED BY <2>2, <3>2, <3>3
  <2>10. Preparing'
    <3>1. phase' = "prepare" => at' - 1 = at
      BY <2>3b
    <3>2. phase' # "open" /\ (phase' = "walk" => DOMAIN seeds = 1..at) /\ seeds' = seeds
      BY <1>2, <2>2, <2>3 DEF input
    <3>3. related' = {} /\ edges' = {} /\ next' = {} /\ visited' = {} /\ depth' = 0
      BY <1>2, <2>1
    <3> QED BY <2>6, <3>1, <3>2, <3>3 DEF Preparing
  <2>11. Layered'
    <3>1. Near(0)' = Range(seedOf)' /\ depth' = 0
      BY <1>2, <2>1 DEF Near
    <3> QED BY <1>2, <2>1, <2>6, <3>1 DEF Layered
  <2>12. Truthful'
    BY <1>2, <2>1, <2>2 DEF WalkInv, Truthful, AlwaysReportable, NoReport
  <2> QED BY <2>7, <2>8, <2>9, <2>10, <2>11, <2>12 DEF WalkInv
<1> QED BY <1>4, <1>5

\* A request to walk on is for a visit that was not made yet.
LEMMA VisitCount ==
    ASSUME WalkInv, phase = "walk", requests < limits.requests, requests' = requests + 1,
           UNCHANGED <<seeds, limits>>,
           NEW d \in asked, NEW s \in frontier, <<d, s>> \notin visited
    PROVE  /\ d \in Directions /\ s \in Symbols /\ s \in Near(depth) /\ depth \in 0..1
           /\ visited \cup {<<d, s>>} \subseteq asked \X nodes
           /\ requests' \in 0..limits.requests
           /\ requests' <= Attempts * Len(seeds) + Cardinality(visited \cup {<<d, s>>})
           /\ requests' <= Attempts * Len(seeds) + Cardinality(visited \cup {<<d, s>>}) + 1
           /\ requests' <= Attempts * Len(seeds) + Cardinality(visited) + 1
<1>1. /\ d \in Directions /\ s \in Symbols /\ s \in Near(depth) /\ depth \in 0..1
      /\ visited \cup {<<d, s>>} \subseteq asked \X nodes
  BY DEF WalkInv, WalkTyped, Layered
<1> DEFINE y == Attempts * Len(seeds)  n == Cardinality(visited)
           m == Cardinality(visited \cup {<<d, s>>})
<1>2. requests <= y + n /\ y \in Nat /\ n \in Nat /\ m = n + 1
  <2>1. requests <= y + n
    BY DEF WalkInv, WalkCounted
  <2>2. y \in Nat
    BY Inputs, Times DEF WalkInv
  <2>3. n \in Nat /\ m = n + 1
    BY Visits DEF WalkInv
  <2> QED BY <2>1, <2>2, <2>3
<1>3. requests' \in 0..limits.requests /\ requests \in Nat
  BY Inputs DEF WalkInv, WalkTyped
<1> HIDE DEF y, n, m
<1>4. requests' <= y + m /\ requests' <= y + m + 1 /\ requests' <= y + n + 1
  BY <1>2, <1>3
<1> QED BY <1>1, <1>3, <1>4 DEF y, n, m

LEMMA QueryMalformedKeeps == ASSUME WalkInv, QueryMalformed PROVE WalkInv'
<1>1. /\ phase = "walk" /\ requests < limits.requests /\ requests' = requests + 1
      /\ Fails("provider-call-hierarchy-invalid")
      /\ UNCHANGED <<input, at, attempt, found, level>>
  BY DEF QueryMalformed, Asks
<1>2. PICK d \in asked, s \in frontier : <<d, s>> \notin visited
  BY DEF QueryMalformed, IsNext
<1>3. /\ requests' \in 0..limits.requests
      /\ requests' <= Attempts * Len(seeds) + Cardinality(visited) + 1
  BY <1>1, <1>2, VisitCount DEF input
<1> QED BY <1>1, <1>3, FailureKeeps DEF WalkInv, WalkTyped, found, level, input

LEMMA QueryRefusedKeeps == ASSUME WalkInv, QueryRefused PROVE WalkInv'
<1>1. PICK d \in asked, s \in frontier :
         /\ <<d, s>> \notin visited /\ visited' = visited \cup {<<d, s>>}
         /\ limitations' = limitations \cup {<<"call-hierarchy-request-failed", FileOf[s]>>}
  BY DEF QueryRefused, IsNext
<1>2. /\ phase = "walk" /\ requests < limits.requests /\ requests' = requests + 1
      /\ UNCHANGED <<input, phase, at, attempt, nodes, seedOf, related, edges, frontier, next,
                     depth, report>>
  BY DEF QueryRefused, Asks
<1>3. /\ s \in Symbols /\ s \in Near(depth) /\ visited' \subseteq asked \X nodes
      /\ requests' \in 0..limits.requests
      /\ requests' <= Attempts * Len(seeds) + Cardinality(visited')
  BY <1>1, <1>2, VisitCount DEF input
<1>4. limitations' \subseteq Marks /\ limitations' # {}
  <2>1. <<"call-hierarchy-request-failed", FileOf[s]>> \in Marks
    BY <1>3, Sites DEF Marks, Notes
  <2> QED BY <1>1, <2>1 DEF WalkInv, WalkTyped
<1>5. WalkTyped'
  BY <1>2, <1>3, <1>4 DEF WalkInv, WalkTyped, input, Marks
<1>6. Shaped' /\ Preparing'
  BY <1>2, <1>4 DEF WalkInv, Shaped, Preparing, Range
<1>7. WalkCounted'
  BY <1>2, <1>3 DEF WalkCounted, input
<1>8. Layered'
  <2>1. /\ \A k : Near(k)' = Near(k)
        /\ \A S : CallsAt(S)' = CallsAt(S)
    BY <1>2, SameNear DEF input
  <2>2. visited' \subseteq asked \X Near(depth)
    BY <1>1, <1>2, <1>3 DEF WalkInv, Layered
  <2> QED BY <1>2, <1>4, <2>1, <2>2 DEF WalkInv, Layered, input
<1>9. Truthful'
  BY <1>2 DEF WalkInv, Truthful, AlwaysReportable, NoReport
<1> QED BY <1>5, <1>6, <1>7, <1>8, <1>9 DEF WalkInv

\* An answer that is taken.
LEMMA QueryKeeps == ASSUME WalkInv, Query PROVE WalkInv'
<1>1. PICK d \in asked, s \in frontier :
         /\ <<d, s>> \notin visited /\ visited' = visited \cup {<<d, s>>}
         /\ \E items, bad :
              /\ bad \subseteq Calls(d, s)
              /\ items = {OtherEnd(d, c) : c \in Calls(d, s)}
              /\ IF Outside(items)
                 THEN /\ Fails("provider-snapshot-boundary")
                      /\ UNCHANGED <<nodes, related, edges, limitations, next>>
                 ELSE /\ nodes' = Taken(d, s).nodes /\ related' = Taken(d, s).related
                      /\ edges' = Taken(d, s).edges /\ next' = Taken(d, s).next
                      /\ limitations' = limitations
                            \cup LeftOut(items, FileOf[s])
                            \cup {<<"call-range-invalid", FileOf[c[1]]>> : c \in bad}
                            \cup Taken(d, s).notes
                      /\ UNCHANGED <<phase, report>>
  BY DEF Query, IsNext
<1>2. /\ phase = "walk" /\ requests < limits.requests /\ requests' = requests + 1
      /\ UNCHANGED <<input, at, attempt, seedOf, frontier, depth>>
  BY DEF Query, Asks
<1>3. /\ d \in Directions /\ s \in Symbols /\ s \in Near(depth) /\ depth \in 0..1
      /\ visited' \subseteq asked \X nodes
      /\ requests' \in 0..limits.requests
      /\ requests' <= Attempts * Len(seeds) + Cardinality(visited')
      /\ requests' <= Attempts * Len(seeds) + Cardinality(visited') + 1
  BY <1>1, <1>2, VisitCount DEF input
<1>4. PICK items, bad :
         /\ bad \subseteq Calls(d, s)
         /\ items = {OtherEnd(d, c) : c \in Calls(d, s)}
         /\ IF Outside(items)
            THEN /\ Fails("provider-snapshot-boundary")
                 /\ UNCHANGED <<nodes, related, edges, limitations, next>>
            ELSE /\ nodes' = Taken(d, s).nodes /\ related' = Taken(d, s).related
                 /\ edges' = Taken(d, s).edges /\ next' = Taken(d, s).next
                 /\ limitations' = limitations
                       \cup LeftOut(items, FileOf[s])
                       \cup {<<"call-range-invalid", FileOf[c[1]]>> : c \in bad}
                       \cup Taken(d, s).notes
                 /\ UNCHANGED <<phase, report>>
  BY <1>1
<1>5. CASE Outside(items)
  BY <1>2, <1>3, <1>4, <1>5, FailureKeeps
<1>6. CASE ~Outside(items)
  <2> DEFINE b == Taken(d, s)
             left == LeftOut(items, FileOf[s])
             ranges == {<<"call-range-invalid", FileOf[c[1]]>> : c \in bad}
  <2>1. /\ nodes' = b.nodes /\ related' = b.related /\ edges' = b.edges /\ next' = b.next
        /\ limitations' = limitations \cup left \cup ranges \cup b.notes
        /\ UNCHANGED <<phase, report>>
    BY <1>4, <1>6
  <2>2. graph \subseteq SiteCalls /\ seeds' = seeds
    BY <1>2, Inputs DEF WalkInv, input
  <2>3. Found \in Gathered
    <3>1. related \subseteq Symbols
      BY DEF WalkInv, Shaped, WalkTyped
    <3> QED BY <3>1 DEF WalkInv, WalkTyped, Found, Gathered
  <2>4. TakenIn(d, s, b)
    BY <1>3, <2>2, <2>3, AnswerTaken
  <2>5. left \subseteq Notes \X Files
    BY <1>3, Sites DEF LeftOut, Notes
  <2>6. ranges \subseteq Notes \X Files
    <3>1. \A c \in bad : c[1] \in Symbols
      BY <1>4, <2>2 DEF Calls, SiteCalls
    <3> QED BY <3>1, Sites DEF Notes
  <2> HIDE DEF b, left, ranges
  <2>7. /\ b.nodes \subseteq Symbols /\ b.edges \subseteq SiteCalls
        /\ b.notes \subseteq Notes \X Files
    BY <2>4 DEF TakenIn, Gathered
  <2>8. limitations' \subseteq Marks
    BY <2>1, <2>5, <2>6, <2>7 DEF WalkInv, WalkTyped, Marks
  <2>9. /\ nodes \subseteq nodes' /\ nodes' \subseteq nodes \cup TargetsOf(d, s)
        /\ related' = related \cup (nodes' \ nodes)
        /\ next \subseteq next' /\ next' \subseteq next \cup (nodes' \cap TargetsOf(d, s))
        /\ edges \subseteq edges' /\ edges' \subseteq edges \cup Usable(d, s)
        /\ \A e \in edges' \ edges : OtherEnd(d, e) \in nodes'
    BY <2>1, <2>4 DEF TakenIn
  <2>10. limitations' = {} =>
           /\ limitations = {}
           /\ TargetsOf(d, s) \subseteq nodes' /\ Usable(d, s) \subseteq edges'
           /\ depth + 1 < limits.depth => TargetsOf(d, s) \subseteq next' \cup {s}
    BY <2>1, <2>4 DEF TakenIn
  <2>11. WalkTyped'
    <3>1. Marks' = Marks
      BY <1>2 DEF Marks, input
    <3>2. seedOf' \in [DOMAIN seedOf' -> nodes'] /\ DOMAIN seedOf' \subseteq DOMAIN seeds'
      BY <1>2, <2>9 DEF WalkInv, WalkTyped, input
    <3>3. frontier' \subseteq nodes' /\ next' \subseteq nodes' /\ visited' \subseteq asked \X nodes'
      BY <1>2, <1>3, <2>9 DEF WalkInv, WalkTyped
    <3>4. nodes' \subseteq Symbols /\ edges' \subseteq SiteCalls
      BY <2>1, <2>7
    <3> QED BY <1>2, <1>3, <2>1, <2>8, <3>1, <3>2, <3>3, <3>4 DEF WalkInv, WalkTyped, input
  <2>12. Shaped'
    <3>1. Range(seedOf)' = Range(seedOf)
      BY <1>2 DEF Range
    <3>2. nodes' = Range(seedOf) \cup related' /\ Range(seedOf) \cap related' = {}
      BY <2>9 DEF WalkInv, Shaped
    <3>3. \A e \in edges' : e[1] \in nodes' /\ e[2] \in nodes'
      <4>1. SUFFICES ASSUME NEW e \in edges' PROVE e[1] \in nodes' /\ e[2] \in nodes'
        OBVIOUS
      <4>2. CASE e \in edges
        BY <2>9, <4>2 DEF WalkInv, Shaped
      <4>3. CASE e \notin edges
        <5>1. e \in Usable(d, s) /\ OtherEnd(d, e) \in nodes'
          <6>1. e \in edges' \ edges
            BY <4>1, <4>3
          <6> QED BY <2>9, <6>1
        <5>2. {e[1], e[2]} = {s, OtherEnd(d, e)}
          <6>1. d \in Directions /\ s \in Symbols /\ graph \subseteq SiteCalls
            BY <1>3, <2>2
          <6> QED BY <5>1, <6>1, UsableFacts
        <5>3. s \in nodes'
          BY <2>9 DEF WalkInv, WalkTyped
        <5> QED BY <5>1, <5>2, <5>3
      <4> QED BY <4>2, <4>3
    <3> QED BY <3>1, <3>2, <3>3 DEF Shaped
  <2>13. WalkCounted'
    BY <1>2, <1>3, <2>1 DEF WalkCounted, input
  <2>14. Preparing'
    BY <1>2, <2>1, <2>2, <2>10 DEF WalkInv, Preparing
  <2>15. Layered'
    <3>1. /\ \A k : Near(k)' = Near(k)
          /\ \A S : CallsAt(S)' = CallsAt(S)
          /\ \A e, t : Usable(e, t)' = Usable(e, t)
          /\ \A e, t : TargetsOf(e, t)' = TargetsOf(e, t)
      BY <1>2, SameNear DEF input
    <3>2. TargetsOf(d, s) \subseteq Near(depth + 1) /\ Usable(d, s) \subseteq CallsAt(Near(depth))
      BY <1>3, NearFacts DEF WalkInv
    <3>3. /\ frontier' \subseteq Near(depth) /\ next' \subseteq Near(depth + 1)
          /\ visited' \subseteq asked \X Near(depth) /\ related' \subseteq Near(depth + 1)
          /\ edges' \subseteq CallsAt(Near(depth))
      BY <1>1, <1>2, <1>3, <2>9, <3>2 DEF WalkInv, Layered
    <3>4. ASSUME limitations' = {}, NEW e \in asked, NEW t \in Near(depth), <<e, t>> \in visited'
          PROVE  /\ Usable(e, t) \subseteq edges' /\ TargetsOf(e, t) \subseteq nodes'
                 /\ depth + 1 < limits.depth => TargetsOf(e, t) \subseteq next' \cup {t}
      <4>1. CASE <<e, t>> \in visited
        BY <1>2, <2>9, <2>10, <3>4, <4>1 DEF WalkInv, Layered
      <4>2. CASE e = d /\ t = s
        BY <2>10, <3>4, <4>2
      <4> QED BY <1>1, <3>4, <4>1, <4>2
    <3>5. limitations' = {} =>
            \A t \in Near(depth) : t \in frontier' \/ \A e \in asked : <<e, t>> \in visited'
      BY <1>1, <1>2, <2>10 DEF WalkInv, Layered
    <3>6. depth' = depth /\ asked' = asked /\ limits' = limits
      BY <1>2 DEF input
    <3> QED BY <3>1, <3>3, <3>4, <3>5, <3>6 DEF Layered
  <2>16. Truthful'
    BY <1>2, <2>1 DEF WalkInv, Truthful, AlwaysReportable, NoReport
  <2> QED BY <2>11, <2>12, <2>13, <2>14, <2>15, <2>16 DEF WalkInv
<1> QED BY <1>5, <1>6

\* The level is done: the facts of the report.
LEMMA AllAround ==
    ASSUME WalkInv, phase = "walk", \A d \in asked, s \in frontier : <<d, s>> \in visited,
           ~(depth + 1 < limits.depth /\ next # {})
    PROVE  /\ edges \subseteq CallsAt(Near(limits.depth - 1))
           /\ related \subseteq Near(limits.depth)
           /\ limitations = {} => /\ DOMAIN seedOf = DOMAIN seeds
                                  /\ edges = CallsAt(Near(limits.depth - 1))
                                  /\ related = Near(limits.depth) \ Range(seedOf)
<1> DEFINE n == limits.depth
<1>1. n \in 1..2 /\ depth \in 0..1 /\ depth < n
  BY Inputs DEF WalkInv, WalkTyped
<1>2. \/ n = depth + 1
      \/ n = 2 /\ depth = 0 /\ next = {}
  BY <1>1
<1> HIDE DEF n
<1>3. /\ edges \subseteq CallsAt(Near(depth)) /\ related \subseteq Near(depth + 1)
      /\ visited \subseteq asked \X Near(depth)
  BY DEF WalkInv, Layered
<1>4. n - 1 = depth \/ n - 1 = depth + 1
  BY <1>1, <1>2
<1>5. /\ Near(depth) \subseteq Near(depth + 1) /\ depth + 1 \in 1..2
      /\ CallsAt(Near(depth)) \subseteq CallsAt(Near(depth + 1))
  BY <1>1, NearFacts DEF WalkInv
<1>6. edges \subseteq CallsAt(Near(n - 1))
  BY <1>3, <1>4, <1>5
<1>7. related \subseteq Near(n)
  <2>1. CASE n = depth + 1
    BY <1>3, <2>1
  <2>2. CASE n = 2 /\ depth = 0
    <3>1. Near(1) \subseteq Near(2)
      BY NearFacts DEF WalkInv
    <3> QED BY <1>3, <2>2, <3>1
  <2> QED BY <1>2, <2>1, <2>2
<1>8. ASSUME limitations = {}
      PROVE  /\ DOMAIN seedOf = DOMAIN seeds /\ edges = CallsAt(Near(n - 1))
             /\ related = Near(n) \ Range(seedOf)
  <2>1. DOMAIN seedOf = DOMAIN seeds
    BY <1>8 DEF WalkInv, Preparing
  <2>2. \A s \in Near(depth) : \A d \in asked : <<d, s>> \in visited
    BY <1>8 DEF WalkInv, Layered
  <2>3. \A d \in asked, s \in Near(depth) :
           /\ Usable(d, s) \subseteq edges /\ TargetsOf(d, s) \subseteq nodes
           /\ depth + 1 < n => TargetsOf(d, s) \subseteq next \cup {s}
    BY <1>8, <2>2 DEF WalkInv, Layered, n
  <2>4. CallsAt(Near(depth)) \subseteq edges
    BY <2>3 DEF CallsAt
  <2>5. Near(depth) \subseteq nodes
    <3>1. PICK d \in asked : TRUE
      BY Inputs DEF WalkInv
    <3>2. \A s \in Near(depth) : <<d, s>> \in asked \X nodes
      BY <2>2, <3>1 DEF WalkInv, WalkTyped
    <3> QED BY <3>2
  <2>6. Near(depth + 1) \subseteq nodes
    <3>1. \A t \in Near(depth + 1) :
             t \in Near(depth) \/ \E d \in asked, s \in Near(depth) : t \in TargetsOf(d, s)
      BY <1>1, NearFacts DEF WalkInv
    <3> QED BY <2>3, <2>5, <3>1
  <2>7. n = 2 /\ depth = 0 /\ next = {} => Near(1) = Near(0) /\ Near(2) = Near(1)
    <3>1. SUFFICES ASSUME n = 2, depth = 0, next = {} PROVE Near(1) = Near(0) /\ Near(2) = Near(1)
      OBVIOUS
    <3>2. \A d \in asked, s \in Near(0) : TargetsOf(d, s) \subseteq {s}
      BY <2>3, <3>1
    <3>3. \A t \in Near(1) : t \in Near(0) \/ \E d \in asked, s \in Near(0) : t \in TargetsOf(d, s)
      <4>1. 0 \in 0..1 /\ 0 + 1 = 1
        OBVIOUS
      <4> QED BY <4>1, NearFacts DEF WalkInv
    <3>4. Near(1) = Near(0)
      <4>1. Near(0) \subseteq Near(1)
        BY <1>5, <3>1
      <4> QED BY <3>2, <3>3, <4>1
    <3>5. Near(2) = Around(Near(1)) /\ Near(1) = Around(Near(0))
      BY DEF Near
    <3> QED BY <3>4, <3>5
  <2>8. Near(n - 1) = Near(depth) /\ Near(n) = Near(depth + 1)
    <3>1. CASE n = depth + 1
      BY <1>1, <3>1
    <3>2. CASE n = 2 /\ depth = 0 /\ next = {}
      BY <2>7, <3>2
    <3> QED BY <1>2, <3>1, <3>2
  <2>9. edges = CallsAt(Near(n - 1))
    BY <1>6, <2>4, <2>8
  <2>10. related = Near(n) \ Range(seedOf)
    BY <1>7, <2>6, <2>8 DEF WalkInv, Shaped
  <2> QED BY <2>1, <2>9, <2>10
<1> QED BY <1>6, <1>7, <1>8 DEF n

\* One element more makes a finite set larger by one at most.
LEMMA OneMore ==
    ASSUME NEW S, IsFiniteSet(S), NEW x
    PROVE  Cardinality(S \cup {x}) \in Nat /\ Cardinality(S \cup {x}) <= Cardinality(S) + 1
<1>1. Cardinality(S) \in Nat
  BY FS_CardinalityType
<1>2. Cardinality(S \cup {x}) = IF x \in S THEN Cardinality(S) ELSE Cardinality(S) + 1
  BY FS_AddElement
<1> QED BY <1>1, <1>2

\* Such a report is refused for its limitations only.
LEMMA MadeFacts ==
    ASSUME WalkInv, NEW warned \in BOOLEAN
    PROVE  LET made == Made(warned)
           IN  /\ made.status \in {"completed", "partial", "ReportInvalid"}
               /\ made.status = "ReportInvalid" => Cardinality(limitations) + 1 > MaxLimitations
               /\ made.status = "completed" => limitations = {}
               /\ made.status \in {"completed", "partial"} =>
                     made.edges = edges /\ made.related = related
<1> DEFINE warning == <<"rust-analyzer-readiness-warning", 0>>
           all == IF warned THEN limitations \cup {warning} ELSE limitations
           r == [status      |-> IF all = {} THEN "completed" ELSE "partial",
                 seeds       |-> Range(seedOf),
                 related     |-> related,
                 edges       |-> edges,
                 limitations |-> all,
                 complete    |-> all = {}]
           refused == [NoReport EXCEPT !.status = "ReportInvalid"]
<1>1. /\ r.status = (IF all = {} THEN "completed" ELSE "partial")
      /\ r.seeds = Range(seedOf) /\ r.related = related /\ r.edges = edges
      /\ r.limitations = all /\ r.complete = (all = {})
  OBVIOUS
<1>2. refused.status = "ReportInvalid"
  BY DEF NoReport
<1>3. Made(warned) = IF Valid(r) THEN r ELSE refused
  BY DEF Made
<1>4. all = {} => limitations = {}
  OBVIOUS
<1>5. Cardinality(all) \in Nat /\ Cardinality(all) <= Cardinality(limitations) + 1
      /\ Cardinality(limitations) \in Nat /\ MaxLimitations \in Nat
  <2>1. IsFiniteSet(limitations) /\ Cardinality(limitations) \in Nat /\ MaxLimitations \in Nat
    BY LimitationsAreFinite, Inputs DEF WalkInv
  <2>2. /\ Cardinality(limitations \cup {warning}) \in Nat
        /\ Cardinality(limitations \cup {warning}) <= Cardinality(limitations) + 1
    BY <2>1, OneMore
  <2> QED BY <2>1, <2>2
<1> HIDE DEF r, refused, all
<1>6. Cardinality(all) <= MaxLimitations => Valid(r)
  <2>1. r.complete <=> r.status = "completed"
    BY <1>1
  <2>2. r.status \in HasFacts
    BY <1>1 DEF HasFacts
  <2>3. /\ r.seeds \cap r.related = {}
        /\ \A e \in r.edges : {e[1], e[2]} \subseteq r.seeds \cup r.related
    BY <1>1 DEF WalkInv, Shaped
  <2> QED BY <1>1, <2>1, <2>2, <2>3 DEF Valid
<1>7. ~(Cardinality(all) <= MaxLimitations) => Cardinality(limitations) + 1 > MaxLimitations
  BY <1>5
<1> QED BY <1>1, <1>2, <1>3, <1>4, <1>6, <1>7

LEMMA AdvanceKeeps == ASSUME WalkInv, Advance PROVE WalkInv'
<1>1. /\ phase = "walk" /\ \A d \in asked, s \in frontier : <<d, s>> \in visited
      /\ UNCHANGED <<input, at, attempt, requests, found, visited>>
  BY DEF Advance
<1>2. depth \in 0..1 /\ limits.depth \in 1..2 /\ depth < limits.depth
  BY Inputs DEF WalkInv, WalkTyped
<1>3. /\ \A k : Near(k)' = Near(k)
      /\ \A S : CallsAt(S)' = CallsAt(S)
      /\ \A d, s : Usable(d, s)' = Usable(d, s)
      /\ \A d, s : TargetsOf(d, s)' = TargetsOf(d, s)
  BY <1>1, SameNear DEF input, found
<1>4. Shaped'
  BY <1>1 DEF WalkInv, Shaped, Range, found
<1>5. CASE depth + 1 < limits.depth /\ next # {}
  <2>1. /\ frontier' = next /\ next' = {} /\ depth' = depth + 1
        /\ UNCHANGED <<phase, report>>
    BY <1>5 DEF Advance
  <2>2. depth = 0 /\ depth' = 1 /\ limits.depth = 2 /\ depth + 1 = 1
    BY <1>2, <1>5, <2>1
  <2>3. WalkTyped'
    BY <1>1, <2>1, <2>2 DEF WalkInv, WalkTyped, input, found, Marks
  <2>4. WalkCounted' /\ Preparing'
    BY <1>1, <2>1 DEF WalkInv, WalkCounted, Preparing, input, found
  <2>5. Near(0) \subseteq Near(1) /\ Near(1) \subseteq Near(2)
        /\ CallsAt(Near(0)) \subseteq CallsAt(Near(1))
    BY NearFacts DEF WalkInv
  <2>6. /\ frontier' \subseteq Near(1) /\ next' \subseteq Near(2)
        /\ visited' \subseteq asked \X Near(0) /\ related' \subseteq Near(2)
        /\ edges' \subseteq CallsAt(Near(1))
    BY <1>1, <2>1, <2>2, <2>5 DEF WalkInv, Layered, found
  <2>7. ASSUME limitations' = {} PROVE
          /\ \A d \in asked, s \in Near(1) :
               <<d, s>> \in visited' =>
                 /\ Usable(d, s) \subseteq edges' /\ TargetsOf(d, s) \subseteq nodes'
          /\ \A s \in Near(1) : s \in frontier' \/ \A d \in asked : <<d, s>> \in visited'
    <3>1. limitations = {} /\ visited' = visited /\ edges' = edges /\ nodes' = nodes
      BY <1>1, <2>7 DEF found
    <3>2. \A d \in asked, s \in Near(0) :
            <<d, s>> \in visited =>
              /\ Usable(d, s) \subseteq edges /\ TargetsOf(d, s) \subseteq nodes
              /\ TargetsOf(d, s) \subseteq next \cup {s}
      BY <1>1, <1>5, <2>2, <3>1 DEF WalkInv, Layered
    <3>3. \A s \in Near(0) : \A d \in asked : <<d, s>> \in visited
      BY <1>1, <2>2, <3>1 DEF WalkInv, Layered
    <3>4. \A d \in asked, s \in Near(1) : <<d, s>> \in visited => s \in Near(0)
      BY <2>6, <3>1
    <3>5. \A s \in Near(1) : s \in Near(0) \/ \E d \in asked, t \in Near(0) : s \in TargetsOf(d, t)
      <4>1. 0 \in 0..1 /\ 0 + 1 = 1
        OBVIOUS
      <4> QED BY <4>1, NearFacts DEF WalkInv
    <3>6. \A s \in Near(1) : s \in Near(0) \/ s \in next
      BY <3>2, <3>3, <3>5
    <3> QED BY <2>1, <3>1, <3>2, <3>3, <3>4, <3>6
  <2>8. Layered'
    <3>1. asked' = asked /\ limits' = limits /\ depth' = 1 /\ depth' + 1 = 2 /\ ~(2 < limits.depth)
      BY <1>1, <2>2 DEF input
    <3>2. /\ Near(depth)' = Near(1) /\ Near(depth + 1)' = Near(2)
          /\ CallsAt(Near(depth))' = CallsAt(Near(1))
      BY <1>3, <3>1
    <3>3. /\ frontier' \subseteq Near(depth)' /\ next' \subseteq Near(depth + 1)'
          /\ visited' \subseteq asked' \X Near(depth)' /\ related' \subseteq Near(depth + 1)'
          /\ edges' \subseteq CallsAt(Near(depth))'
      BY <2>5, <2>6, <3>1, <3>2
    <3>4. ~(depth' + 1 < limits.depth')
      BY <3>1
    <3>5. limitations' = {} =>
            /\ \A d \in asked', s \in Near(depth)' :
                 <<d, s>> \in visited' =>
                   Usable(d, s)' \subseteq edges' /\ TargetsOf(d, s)' \subseteq nodes'
            /\ \A s \in Near(depth)' : s \in frontier' \/ \A d \in asked' : <<d, s>> \in visited'
      BY <1>3, <2>7, <3>1, <3>2
    <3> QED BY <3>3, <3>4, <3>5 DEF Layered
  <2>9. Truthful'
    BY <1>1, <2>1 DEF WalkInv, Truthful, AlwaysReportable, NoReport
  <2> QED BY <1>4, <2>3, <2>4, <2>8, <2>9 DEF WalkInv
<1>6. CASE ~(depth + 1 < limits.depth /\ next # {})
  <2>0. PICK warned \in BOOLEAN : report' = Made(warned)
    BY <1>6 DEF Advance
  <2>1. phase' = "done" /\ UNCHANGED <<frontier, next, depth>>
    BY <1>6 DEF Advance
  <2>2. report'.status \in Statuses
    BY <2>0, MadeFacts DEF Statuses
  <2>3. WalkTyped'
    BY <1>1, <2>1, <2>2 DEF WalkInv, WalkTyped, input, found, Marks, Statuses
  <2>4. WalkCounted'
    <3> DEFINE x == Attempts * Len(seeds) + Cardinality(visited)
    <3>1. requests <= x
      BY <1>1 DEF WalkInv, WalkCounted
    <3>2. x \in Nat /\ requests \in Nat
      <4>1. Attempts * Len(seeds) \in Nat /\ Cardinality(visited) \in Nat
        BY Inputs, Times, Visits DEF WalkInv
      <4> QED BY <4>1, Inputs DEF WalkInv, WalkTyped
    <3> HIDE DEF x
    <3>3. requests <= x + 1
      BY <3>1, <3>2
    <3> QED BY <1>1, <2>1, <3>3 DEF WalkCounted, x, input
  <2>5. Preparing' /\ Layered'
    BY <2>1 DEF Preparing, Layered
  <2>6. Truthful'
    <3>1. Range(seedOf)' = Range(seedOf)
      BY <1>1 DEF Range, found
    <3>2. limits' = limits /\ limitations' = limitations /\ DOMAIN seedOf' = DOMAIN seedOf
          /\ DOMAIN seeds' = DOMAIN seeds
      BY <1>1 DEF input, found
    <3>3. /\ report'.status = "completed" =>
               /\ DOMAIN seedOf = DOMAIN seeds
               /\ report'.edges = CallsAt(Near(limits.depth - 1))
               /\ report'.related = Near(limits.depth) \ Range(seedOf)
          /\ report'.status = "partial" =>
               /\ report'.edges \subseteq CallsAt(Near(limits.depth - 1))
               /\ report'.related \subseteq Near(limits.depth)
          /\ report'.status = "ReportInvalid" => Cardinality(limitations) + 1 > MaxLimitations
      BY <1>1, <1>6, <2>0, <2>1, AllAround, MadeFacts
    <3> QED BY <1>3, <2>1, <3>1, <3>2, <3>3 DEF Truthful, AlwaysReportable
  <2> QED BY <1>4, <2>3, <2>4, <2>5, <2>6 DEF WalkInv
<1> QED BY <1>5, <1>6

\* The walk starts with nothing.
LEMMA Starts == ASSUME WalkInit PROVE WalkInv
<1>1. /\ graph \in Graphs /\ seeds \in Requested /\ nature \in Natures /\ limits \in Budgets
      /\ asked \in (SUBSET Directions) \ {{}}
      /\ phase = "open" /\ at = 1 /\ attempt = 0 /\ requests = 0
      /\ nodes = {} /\ seedOf = <<>> /\ related = {} /\ edges = {} /\ limitations = {}
      /\ frontier = {} /\ next = {} /\ visited = {} /\ depth = 0 /\ report = NoReport
  BY DEF WalkInit
<1>2. seeds \in Seq([file : Nat, places : SUBSET Symbols, opaque : BOOLEAN]) /\ seeds # <<>>
  BY <1>1, WalkAssumption
<1>3. Len(seeds) \in Nat \ {0}
  BY <1>2
<1>4. limits \in [depth : 1..2, nodes : Nat, edges : Nat, requests : Nat] /\ Attempts \in Nat \ {0}
  BY <1>1, WalkAssumption
<1>5. DOMAIN seedOf = {} /\ Range(seedOf) = {} /\ seedOf \in [DOMAIN seedOf -> nodes]
  BY <1>1 DEF Range
<1>6. report.status = "none"
  BY <1>1 DEF NoReport
<1>7. WalkTyped
  BY <1>1, <1>3, <1>4, <1>5, <1>6 DEF WalkTyped, Statuses
<1>8. Shaped /\ WalkCounted /\ Preparing
  BY <1>1, <1>5 DEF Shaped, WalkCounted, Preparing
<1>9. Layered /\ Truthful
  BY <1>1, <1>6 DEF Layered, Truthful, AlwaysReportable
<1> QED BY <1>7, <1>8, <1>9 DEF WalkInv

LEMMA StutterKeeps == ASSUME WalkInv, UNCHANGED walkVars PROVE WalkInv'
<1>1. UNCHANGED <<graph, seeds, nature, limits, asked, phase, at, attempt, requests, nodes, seedOf,
                  related, edges, limitations, frontier, next, visited, depth, report>>
  BY DEF walkVars, input, found, level
<1>2. /\ \A k : Near(k)' = Near(k)
      /\ \A S : CallsAt(S)' = CallsAt(S)
      /\ \A d, s : Usable(d, s)' = Usable(d, s)
      /\ \A d, s : TargetsOf(d, s)' = TargetsOf(d, s)
  BY <1>1, SameNear
<1>3. WalkTyped'
  BY <1>1 DEF WalkInv, WalkTyped, Marks
<1>4. Shaped' /\ WalkCounted' /\ Preparing'
  BY <1>1 DEF WalkInv, Shaped, Range, WalkCounted, Preparing
<1>5. Layered'
  BY <1>1, <1>2 DEF WalkInv, Layered
<1>6. Truthful'
  <2>1. Range(seedOf)' = Range(seedOf)
    BY <1>1 DEF Range
  <2> QED BY <1>1, <1>2, <2>1 DEF WalkInv, Truthful, AlwaysReportable
<1> QED BY <1>3, <1>4, <1>5, <1>6 DEF WalkInv

\* Whatever the server answers, whatever it refuses and wherever a budget ends it, a walk
\* stays within its type, keeps its nodes and edges together, pays for every visit once and
\* holds, level by level, what the calls of its graph lead to (rust_analyzer.rs,
\* traverse_call_hierarchy; mod.rs, report_from_traversal).
THEOREM WalkInvariance == WalkSpec => []WalkInv
<1>1. WalkInit => WalkInv
  BY Starts
<1>2. WalkInv /\ [WalkNext]_walkVars => WalkInv'
  <2>1. SUFFICES ASSUME WalkInv, [WalkNext]_walkVars PROVE WalkInv'
    OBVIOUS
  <2>2. CASE Open
    BY <2>1, <2>2, OpenKeeps
  <2>3. CASE OpenFails
    BY <2>1, <2>3, OpenFailsKeeps
  <2>4. CASE PrepareAgain
    BY <2>1, <2>4, PrepareAgainKeeps
  <2>5. CASE Prepare
    BY <2>1, <2>5, PrepareKeeps
  <2>6. CASE PrepareFails
    BY <2>1, <2>6, PrepareFailsKeeps
  <2>7. CASE OutOfRequests
    BY <2>1, <2>7, OutOfRequestsKeeps
  <2>8. CASE Query
    BY <2>1, <2>8, QueryKeeps
  <2>9. CASE QueryRefused
    BY <2>1, <2>9, QueryRefusedKeeps
  <2>10. CASE QueryMalformed
    BY <2>1, <2>10, QueryMalformedKeeps
  <2>11. CASE Advance
    BY <2>1, <2>11, AdvanceKeeps
  <2>12. CASE UNCHANGED walkVars
    BY <2>1, <2>12, StutterKeeps
  <2> QED BY <2>1, <2>2, <2>3, <2>4, <2>5, <2>6, <2>7, <2>8, <2>9, <2>10, <2>11, <2>12 DEF WalkNext
<1> QED BY <1>1, <1>2, PTL DEF WalkSpec

-----------------------------------------------------------------------------
(* What the runs check. *)

\* No walk builds a report that its own validation refuses, short of too many limitations
\* (contract.rs, validate).
THEOREM ReportsArePublishable == WalkSpec => []AlwaysReportable
<1>1. WalkInv => AlwaysReportable
  BY DEF WalkInv, Truthful
<1> QED BY <1>1, WalkInvariance, PTL

\* A walk sends no more requests than the attempts for its seeds and one for each direction
\* of each node, and one more when it ends with it (rust_analyzer.rs, visited).
THEOREM RequestsStayBounded == WalkSpec => []RequestsAreBounded
<1>1. WalkInv => RequestsAreBounded
  <2> SUFFICES ASSUME WalkInv PROVE RequestsAreBounded
    OBVIOUS
  <2>2. limitations \subseteq Notes \X Nat
    BY LimitationsAreFinite DEF WalkInv
  <2>3. related \subseteq nodes
    BY DEF WalkInv, Shaped
  <2>4. at \in 1..(Len(seeds) + 1) /\ attempt \in 0..Attempts /\ depth \in 0..2
    BY Inputs DEF WalkInv, WalkTyped
  <2>5. visited \subseteq Directions \X Symbols
    BY DEF WalkInv, WalkTyped
  <2>6. WalkTypeOK
    BY <2>2, <2>3, <2>4, <2>5 DEF WalkInv, WalkTyped, WalkTypeOK, SiteCalls, Statuses
  <2> DEFINE y == Attempts * Len(seeds)  n == Cardinality(visited)
             m == Cardinality(asked) * Cardinality(nodes)
  <2>7. y \in Nat
    BY Inputs, Times DEF WalkInv
  <2>8. n \in Nat /\ n <= m
    BY Visits DEF WalkInv
  <2>9. m \in Nat
    BY Visits, Times DEF WalkInv
  <2>10. requests <= y + n + 1
    <3>1. requests \in Nat
      BY Inputs DEF WalkInv, WalkTyped
    <3>2. phase = "open" => requests = 0
      BY DEF WalkInv, WalkCounted
    <3>3. phase = "prepare" => requests + 1 <= y
      <4>1. ASSUME phase = "prepare" PROVE requests + 1 <= y
        <5> DEFINE x == Attempts * at
        <5>1. requests + 1 <= x /\ x <= y /\ x \in Nat
          BY <4>1, PrepareCount
        <5> HIDE DEF x, y
        <5> QED BY <2>7, <3>1, <5>1
      <4> QED BY <4>1
    <3>4. (phase = "walk" => requests <= y + n) /\ (phase = "done" => requests <= y + n + 1)
      BY DEF WalkInv, WalkCounted
    <3>5. phase \in {"open", "prepare", "walk", "done"}
      BY DEF WalkInv, WalkTyped
    <3> HIDE DEF y, n
    <3> QED BY <2>7, <2>8, <3>1, <3>2, <3>3, <3>4, <3>5
  <2>11. requests <= y + m + 1
    <3>1. requests \in Nat
      BY Inputs DEF WalkInv, WalkTyped
    <3> HIDE DEF y, n, m
    <3> QED BY <2>7, <2>8, <2>9, <2>10, <3>1
  <2> QED BY <2>6, <2>11 DEF RequestsAreBounded
<1> QED BY <1>1, WalkInvariance, PTL

\* The model's own account of what is near is this module's.
LEMMA WithinIs ==
    ASSUME WalkTyped
    PROVE  /\ Within[0] = Near(0) /\ Within[1] = Near(1) /\ Within[2] = Near(2)
<1> DEFINE F(g, k) == IF k = 0 THEN Range(seedOf)
                      ELSE g[k - 1] \cup UNION {Ends(d, g[k - 1]) : d \in asked}
           h == [k \in 0..2 |-> Near(k)]
<1>1. \A d, S : Ends(d, S) = UNION {TargetsOf(d, s) : s \in S}
  BY DEF Ends, TargetsOf
<1>2. \A S : S \subseteq Symbols =>
        Around(S) = S \cup UNION {Ends(d, S) : d \in asked}
  <2>1. \A d \in asked, s \in Symbols : TargetsOf(d, s) \subseteq Symbols
    BY Inputs, UsableFacts DEF TargetsOf
  <2> QED BY <1>1, <2>1 DEF Around
<1>3. Near(1) = Around(Near(0)) /\ Near(2) = Around(Near(1)) /\ Near(0) = Range(seedOf)
  BY DEF Near
<1>4. Near(0) \subseteq Symbols /\ Near(1) \subseteq Symbols
  BY NearFacts
<1>5. h[0] = Near(0) /\ h[1] = Near(1) /\ h[2] = Near(2)
  OBVIOUS
<1>6. \A k \in 0..2 : h[k] = F(h, k)
  <2>1. h[0] = F(h, 0)
    BY <1>3, <1>5
  <2>2. h[1] = F(h, 1)
    <3> HIDE DEF h
    <3> QED BY <1>2, <1>3, <1>4, <1>5
  <2>3. h[2] = F(h, 2)
    <3> HIDE DEF h
    <3> QED BY <1>2, <1>3, <1>4, <1>5
  <2> HIDE DEF h, F
  <2> QED BY <2>1, <2>2, <2>3
<1>7. h = [k \in 0..2 |-> F(h, k)]
  <2>1. h = [k \in 0..2 |-> h[k]]
    OBVIOUS
  <2> HIDE DEF h, F
  <2> QED BY <1>6, <2>1
<1> DEFINE W == CHOOSE g : g = [k \in 0..2 |-> F(g, k)]
<1>8. Within = W
  BY DEF Within
<1>9. W = [k \in 0..2 |-> F(W, k)]
  <2> HIDE DEF h, F
  <2>1. \E g : g = [k \in 0..2 |-> F(g, k)]
    BY <1>7
  <2> QED BY <2>1
<1> HIDE DEF W
<1>10. W[0] = Near(0)
  BY <1>3, <1>9
<1>11. W[1] = Near(1)
  <2>1. W[1] = W[0] \cup UNION {Ends(d, W[0]) : d \in asked}
    BY <1>9
  <2> QED BY <1>2, <1>3, <1>4, <1>10, <2>1
<1>12. W[2] = Near(2)
  <2>1. W[2] = W[1] \cup UNION {Ends(d, W[1]) : d \in asked}
    <3>1. 2 \in 0..2 /\ 2 # 0 /\ 2 - 1 = 1
      OBVIOUS
    <3>2. W[2] = F(W, 2)
      <4> HIDE DEF F
      <4> QED BY <1>9, <3>1
    <3>3. \A k : k # 0 => F(W, k) = W[k - 1] \cup UNION {Ends(d, W[k - 1]) : d \in asked}
      OBVIOUS
    <3> HIDE DEF F
    <3>4. W[2] = W[2 - 1] \cup UNION {Ends(d, W[2 - 1]) : d \in asked}
      BY <3>1, <3>2, <3>3
    <3> QED BY <3>1, <3>4
  <2> QED BY <1>2, <1>3, <1>4, <1>11, <2>1
<1> QED BY <1>8, <1>10, <1>11, <1>12

\* A report is "completed" only when every seed was resolved and every call within the
\* asked depth is in it; a partial one holds nothing that lies further out (mod.rs,
\* report_from_traversal).
THEOREM VerdictsAreTrue == WalkSpec => []VerdictIsTrue
<1>1. WalkInv => VerdictIsTrue
  <2> SUFFICES ASSUME WalkInv PROVE VerdictIsTrue
    OBVIOUS
  <2>2. limits.depth \in 1..2
    BY Inputs DEF WalkInv
  <2>3. /\ Within[limits.depth] = Near(limits.depth)
        /\ Within[limits.depth - 1] = Near(limits.depth - 1)
    <3> DEFINE n == limits.depth
    <3>1. n \in 1..2
      BY <2>2
    <3> HIDE DEF n
    <3>2. Within[n] = Near(n) /\ Within[n - 1] = Near(n - 1)
      BY <3>1, WithinIs DEF WalkInv
    <3> QED BY <3>2 DEF n
  <2>4. \A d, s : Usable(d, s) \subseteq graph
    BY DEF Usable, Calls
  <2>5. Neighbourhood = CallsAt(Near(limits.depth - 1))
    <3> DEFINE S == Near(limits.depth - 1)
    <3>1. Neighbourhood = UNION {Usable(d, s) : d \in asked, s \in S}
      BY <2>3 DEF Neighbourhood
    <3> HIDE DEF S
    <3>2. \A c : c \in UNION {Usable(d, s) : d \in asked, s \in S}
                <=> \E d \in asked, s \in S : c \in Usable(d, s)
      OBVIOUS
    <3>3. \A c : c \in CallsAt(S) <=> \E d \in asked, s \in S : c \in Usable(d, s)
      BY <2>4 DEF CallsAt
    <3> QED BY <3>1, <3>2, <3>3 DEF S
  <2>6. CompletedMeansAll
    BY <2>3, <2>5 DEF WalkInv, Truthful, CompletedMeansAll
  <2>7. PartialIsSound
    BY <2>3, <2>5 DEF WalkInv, Truthful, PartialIsSound
  <2> QED BY <2>6, <2>7 DEF VerdictIsTrue
<1> QED BY <1>1, WalkInvariance, PTL
=============================================================================
