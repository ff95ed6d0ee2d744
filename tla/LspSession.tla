----------------------------- MODULE LspSession -----------------------------
(***************************************************************************)
(* One call of the repository context provider (mod.rs) and the managed    *)
(* language server session it drives (session.rs, json_rpc.rs): the        *)
(* calling thread, the reader threads of the server's stdout and stderr,   *)
(* the thread that samples the memory of the process tree                  *)
(* (provider_resources.rs), the server process, and the deadline and the   *)
(* cancellation that may reach any of them at any time.                    *)
(*                                                                         *)
(* The server is not trusted.  It writes any frame, answers requests it    *)
(* was never sent, fills its stderr, stops reading its stdin, changes the  *)
(* candidate, starts a descendant that leaves its process group, or exits. *)
(***************************************************************************)
EXTENDS Naturals, Sequences

CONSTANTS
    QueueCapacity,    \* events the stdout channel holds
    StdinCapacity,    \* units the stdin pipe holds before a write blocks
    StdoutCapacity,   \* frames the stdout pipe holds
    OpenSize,         \* units of a didOpen notification; other frames take one
    MaxRequests,      \* requests the limits allow
    MaxMessages,      \* inbound messages the limits allow
    MaxStderr,        \* stderr units the limits allow
    MaxOutput,        \* units of both streams the limits allow
    MaxFrames,        \* bound: frames the server writes
    MaxDisturbances       \* bound: cancellation, stderr, drift, descendants

ASSUME SessionAssumption ==
    /\ {QueueCapacity, StdinCapacity, StdoutCapacity, OpenSize, MaxRequests,
        MaxMessages} \subseteq Nat \ {0}
    /\ {MaxStderr, MaxOutput, MaxFrames, MaxDisturbances} \subseteq Nat

VARIABLES
    pc,        \* where the calling thread stands
    stage,     \* what the adapter does with the session
    awaited,   \* the request it waits for, 0 when none
    unwritten, \* units of the frame it is writing
    event,     \* the event it holds from the receive to the second check, or 0
    result,    \* "none", "ok" or the code of the session's error
    outcome,   \* what the provider call returns
    pending, nextId, messages,           \* the correlation state
    queue,     \* the stdout channel
    stdoutReader, stderrReader,          \* "reading" or "gone"
    seen, stderrSeen,                    \* units each reader has counted
    stdoutOverflow,                      \* the channel was full
    monitor, rss, stopAsked,             \* the sampling thread and its state
    server,    \* "none", "live", "zombie" or "reaped"
    stray,     \* a descendant that left the group: seen or not, with a pipe or not
    stdin, stdinOpen, stdout,            \* the pipes; stderr is read as it is written
    cancelled, late, drifted,            \* the flag, the deadline, the candidate
    disturbances, got                    \* how many so far; the last frame delivered

callerVars == <<pc, stage, awaited, unwritten, event, result, outcome>>
correlation == <<pending, nextId, messages>>
readerVars == <<queue, stdoutReader, stderrReader, seen, stderrSeen, stdoutOverflow>>
monitorVars == <<monitor, rss, stopAsked>>
serverVars == <<server, stray, drifted, disturbances>>
pipes == <<stdin, stdinOpen, stdout>>
outside == <<cancelled, late>>
vars == <<callerVars, correlation, readerVars, monitorVars, serverVars, pipes, outside, got>>

-----------------------------------------------------------------------------
(***************************************************************************)
(* A frame is known by its position in what the server writes.  What it    *)
(* says is chosen where the program first looks at it: the server may have *)
(* written anything.                                                       *)
(***************************************************************************)
Ids == 0..MaxRequests
Frames == 1..MaxFrames
(* The other two events of a reader: the end of the stream and an error. *)
Eof == MaxFrames + 1
Torn == MaxFrames + 2
Events == Frames \cup {Eof, Torn}

ResourceCodes == {"process-tree-rss-limit", "process-tree-rss-accounting-unavailable"}
FrameCodes == {"provider-frame-limit", "provider-message-limit"}
InvalidCodes == {"provider-message-invalid", "provider-response-id-invalid"}
OtherCodes == {"provider-cancelled", "provider-output-limit", "provider-stderr-limit",
               "provider-timeout", "provider-child-exited", "provider-child-eof",
               "provider-request-limit", "provider-write-failed",
               "provider-server-error", "provider-initialize-failed",
               "provider-shutdown-failed", "provider-readiness-unavailable"}

TypeOK ==
    /\ pc \in {"spawn", "idle", "write", "wait", "check", "exiting", "exited",
               "joinExited", "stop", "kill", "join", "verify", "publish", "done"}
    /\ stage \in {"initialize", "gate", "open", "calls", "shutdown", "exit"}
    /\ awaited \in Ids /\ unwritten \in Nat
    /\ event \in Events \cup {0}
    /\ result \in ResourceCodes \cup FrameCodes \cup InvalidCodes \cup OtherCodes
                     \cup {"none", "ok"}
    /\ outcome \in {"none", "facts", "timeout", "unavailable", "invalid-output", "failed",
                    "Preflight", "Cancelled", "StaleBinding", "DeadlineExceeded"}
    /\ pending \subseteq Ids /\ nextId \in 1..(MaxRequests + 1) /\ messages \in 0..MaxMessages
    /\ queue \in Seq(Events) /\ Len(queue) <= QueueCapacity
    /\ {stdoutReader, stderrReader} \subseteq {"reading", "gone"}
    /\ seen \in 0..MaxFrames /\ stderrSeen \in 0..MaxDisturbances
    /\ {stdoutOverflow, stopAsked, stdinOpen, cancelled, late, drifted} \subseteq BOOLEAN
    /\ monitor \in {"none", "up", "over", "gone"}
    /\ rss \in {"available", "limit", "unavailable"}
    /\ server \in {"none", "live", "zombie", "reaped"}
    /\ stray \in {"none", "unseen", "tracked", "detached", "followed"}
    /\ stdin \in 0..StdinCapacity /\ stdout \in 0..StdoutCapacity
    /\ disturbances \in 0..MaxDisturbances /\ got \in 0..MaxFrames

Init ==
    /\ pc = "spawn" /\ stage = "initialize" /\ awaited = 0 /\ unwritten = 0
    /\ event = 0 /\ result = "none" /\ outcome = "none"
    /\ pending = {} /\ nextId = 1 /\ messages = 0
    /\ queue = <<>> /\ stdoutReader = "gone" /\ stderrReader = "gone"
    /\ seen = 0 /\ stderrSeen = 0 /\ stdoutOverflow = FALSE
    /\ monitor = "none" /\ rss = "available" /\ stopAsked = FALSE
    /\ server = "none" /\ stray = "none" /\ drifted = FALSE /\ disturbances = 0
    /\ stdin = 0 /\ stdinOpen = FALSE /\ stdout = 0
    /\ cancelled = FALSE /\ late = FALSE /\ got = 0

-----------------------------------------------------------------------------
(* Mutant: the deadline is looked at only by the caller of the provider. *)
LimitError_NoDeadline ==
    IF rss = "unavailable" THEN "process-tree-rss-accounting-unavailable"
    ELSE IF rss = "limit" THEN "process-tree-rss-limit"
    ELSE IF cancelled THEN "provider-cancelled"
    ELSE IF stdoutOverflow \/ seen + stderrSeen > MaxOutput THEN "provider-output-limit"
    ELSE IF stderrSeen > MaxStderr THEN "provider-stderr-limit"
    ELSE "none"

(* What check_limits finds first. *)
LimitError ==
    IF rss = "unavailable" THEN "process-tree-rss-accounting-unavailable"
    ELSE IF rss = "limit" THEN "process-tree-rss-limit"
    ELSE IF cancelled THEN "provider-cancelled"
    ELSE IF stdoutOverflow \/ seen + stderrSeen > MaxOutput THEN "provider-output-limit"
    ELSE IF stderrSeen > MaxStderr THEN "provider-stderr-limit"
    ELSE IF late THEN "provider-timeout"
    ELSE "none"

(* The report status a session error turns into: one rule for the handshake,
   another for the walk and the shutdown. *)
HandshakeStatus(code) ==
    CASE code = "provider-timeout" -> "timeout"
      [] code = "provider-readiness-unavailable" -> "unavailable"
      [] code \in InvalidCodes -> "invalid-output"
      [] OTHER -> "failed"

SessionStatus(code) ==
    CASE code = "provider-timeout" -> "timeout"
      [] code \in InvalidCodes \cup FrameCodes -> "invalid-output"
      [] OTHER -> "failed"

Status ==
    IF result = "ok" THEN "facts"
    ELSE IF stage \in {"initialize", "gate"} THEN HandshakeStatus(result)
    ELSE SessionStatus(result)

(* The provider call returns; dropping the session terminates what is left. *)
Return(o) == /\ outcome' = o
             /\ pc' = "stop"

(* A session call fails.  The handshake and the walk terminate the session at
   once, as check_limits does for a resource error and the wait for the exit
   does for every error; any other error of the shutdown leaves the server to
   the drop at the end of the call. *)
Fail(code) ==
    /\ result' = code
    /\ IF stage \notin {"shutdown", "exit"} \/ code \in ResourceCodes \/ pc = "exiting"
       THEN pc' = "stop" /\ UNCHANGED outcome
       ELSE IF code = "provider-cancelled" THEN Return("Cancelled")
       ELSE pc' = "verify" /\ UNCHANGED outcome

-----------------------------------------------------------------------------
(* run_repository_context_provider: the checks before the spawn fail. *)
PreflightFails ==
    /\ pc = "spawn"
    /\ outcome' = IF cancelled THEN "Cancelled" ELSE "Preflight"
    /\ pc' = "done"
    /\ UNCHANGED <<stage, awaited, unwritten, event, result, correlation, readerVars,
                   monitorVars, serverVars, pipes, outside, got>>

(* The first sample of the process tree fails: the child is killed and reaped
   by its own drop, and the call reports the failure. *)
AccountingMissing ==
    /\ pc = "spawn" /\ ~cancelled
    /\ server' = "reaped" /\ result' = "process-tree-rss-accounting-unavailable"
    /\ pc' = "verify"
    /\ UNCHANGED <<stage, awaited, unwritten, event, outcome, correlation, readerVars,
                   monitorVars, stray, drifted, disturbances, pipes, outside, got>>

(* spawn_with_policy: a first sample over the limit kills the tree at once. *)
Spawn ==
    /\ pc = "spawn" /\ ~cancelled
    /\ \/ server' = "live" /\ rss' = rss
       \/ server' = "zombie" /\ rss' = "limit"
    /\ monitor' = "up" /\ stdinOpen' = TRUE
    /\ stdoutReader' = "reading" /\ stderrReader' = "reading"
    /\ pc' = "idle"
    /\ UNCHANGED <<stage, awaited, unwritten, event, result, outcome, correlation, queue,
                   seen, stderrSeen, stdoutOverflow, stopAsked, stray, drifted, disturbances,
                   stdin, stdout, outside, got>>

(* send_request: reserve_request, then the frame is written. *)
SendRequest ==
    /\ pc = "idle" /\ stage \in {"initialize", "calls", "shutdown"} /\ LimitError = "none"
    /\ IF nextId > MaxRequests
       THEN Fail("provider-request-limit") /\ UNCHANGED <<awaited, unwritten, correlation>>
       ELSE /\ awaited' = nextId /\ nextId' = nextId + 1 /\ pending' = pending \cup {nextId}
            /\ unwritten' = 1 /\ pc' = "write"
            /\ UNCHANGED <<result, outcome, messages>>
    /\ UNCHANGED <<stage, event, readerVars, monitorVars, serverVars, pipes, outside, got>>

(* send_notification: "initialized", one didOpen with the whole text of a seed
   file, and "exit". *)
SendNotification ==
    /\ pc = "idle" /\ stage \in {"gate", "open", "exit"} /\ LimitError = "none"
    /\ unwritten' = IF stage = "open" THEN OpenSize ELSE 1
    /\ stage' = IF stage = "open" THEN "calls" ELSE stage
    /\ pc' = "write"
    /\ UNCHANGED <<awaited, event, result, outcome, correlation, readerVars, monitorVars,
                   serverVars, pipes, outside, got>>

(* check_limits at the head of a send, of next_message or of the retry wait. *)
LimitReached ==
    /\ pc \in {"idle", "wait", "check", "exiting"} /\ LimitError # "none"
    /\ ~(pc = "exiting" /\ server = "zombie")
    /\ Fail(LimitError)
    /\ event' = 0
    /\ UNCHANGED <<stage, awaited, unwritten, correlation, readerVars, monitorVars,
                   serverVars, pipes, outside, got>>

(* The walk has asked what it wanted to know. *)
FinishCalls ==
    /\ pc = "idle" /\ stage = "calls"
    /\ stage' = "shutdown"
    /\ UNCHANGED <<pc, awaited, unwritten, event, result, outcome, correlation, readerVars,
                   monitorVars, serverVars, pipes, outside, got>>

(* write_frame: a blocking write of the whole frame.  It looks at no limit.
   After "exit" the pipe is closed. *)
WriteUnit ==
    /\ pc = "write" /\ stdin < StdinCapacity
    /\ server = "live" \/ stray \in {"unseen", "tracked"}
    /\ stdin' = stdin + 1 /\ unwritten' = unwritten - 1
    /\ pc' = IF unwritten > 1 THEN "write"
             ELSE IF stage = "exit" THEN "exiting"
             ELSE IF stage = "calls" /\ awaited = 0 THEN "idle" ELSE "wait"
    /\ stdinOpen' = (pc' # "exiting")
    /\ UNCHANGED <<stage, awaited, event, result, outcome, correlation, readerVars,
                   monitorVars, serverVars, stdout, outside, got>>

WriteFails ==
    /\ pc = "write" /\ server # "live" /\ stray \notin {"unseen", "tracked"}
    /\ unwritten' = 0
    /\ Fail("provider-write-failed")
    /\ UNCHANGED <<stage, awaited, event, correlation, readerVars, monitorVars, serverVars,
                   pipes, outside, got>>

-----------------------------------------------------------------------------
(* next_message: the check, then one receive of at most ten milliseconds. *)
Receive ==
    /\ pc = "wait" /\ LimitError = "none"
    /\ \/ /\ queue # <<>>
          /\ event' = Head(queue) /\ queue' = Tail(queue) /\ pc' = "check"
          /\ UNCHANGED <<result, outcome>>
       \/ /\ queue = <<>> /\ stdoutReader = "gone"
          /\ Fail("provider-child-exited") /\ UNCHANGED <<event, queue>>
    /\ UNCHANGED <<stage, awaited, unwritten, correlation, stdoutReader, stderrReader, seen,
                   stderrSeen, stdoutOverflow, monitorVars, serverVars, pipes, outside, got>>

(* What the adapter does with an answer to the request it waits for. *)
Answered(kind) ==
    /\ awaited' = 0
    /\ \/ /\ kind = "result"
          /\ stage' = CASE stage = "initialize" -> "gate"
                        [] stage = "shutdown" -> "exit"
                        [] OTHER -> stage
          /\ pc' = "idle" /\ UNCHANGED <<result, outcome>>
       \/ /\ kind = "error" /\ UNCHANGED stage
          /\ Fail(CASE stage = "initialize" -> "provider-initialize-failed"
                    [] stage = "shutdown" -> "provider-shutdown-failed"
                    [] OTHER -> "provider-server-error")
       \/ /\ kind = "error" /\ stage = "calls"        \* a call request: a limitation
          /\ pc' = "idle" /\ UNCHANGED <<stage, result, outcome>>

(* wait_for_quiescent: the server is still loading, is ready, or is unhealthy. *)
Readiness ==
    \/ pc' = "wait" /\ UNCHANGED <<stage, result, outcome>>
    \/ stage' = "open" /\ pc' = "idle" /\ UNCHANGED <<result, outcome>>
    \/ Fail("provider-readiness-unavailable") /\ UNCHANGED stage

(* The event after the second check: the frame is parsed, counted and
   correlated, and the message handed to the adapter. *)
Deliver ==
    /\ event \in Frames /\ messages < MaxMessages
    /\ got' = event /\ messages' = messages + 1
    /\ \/ \E id \in pending, kind \in {"result", "error"} :
             /\ pending' = pending \ {id}
             /\ Answered(kind) /\ UNCHANGED unwritten
       \/ /\ unwritten' = 1 /\ pc' = "write"           \* a request of the server
          /\ UNCHANGED <<stage, awaited, result, outcome, pending>>
       \/ /\ stage = "gate" /\ Readiness
          /\ UNCHANGED <<awaited, unwritten, pending>>
       \/ /\ pc' = "wait"                              \* any other notification
          /\ UNCHANGED <<stage, awaited, unwritten, result, outcome, pending>>

(* The stream has ended, is refused by the decoder, or holds a body that is no
   message or answers no pending request; or one message too many. *)
Refuse ==
    /\ UNCHANGED <<stage, awaited, unwritten, pending, got>>
    /\ \/ event = Eof /\ Fail("provider-child-eof") /\ UNCHANGED messages
       \/ /\ event # Eof /\ messages = MaxMessages
          /\ Fail("provider-message-limit") /\ UNCHANGED messages
       \/ /\ event # Eof /\ messages < MaxMessages /\ messages' = messages + 1
          /\ \E code \in IF event = Torn THEN {"provider-frame-limit"} ELSE InvalidCodes :
                Fail(code)

TakeEvent ==
    /\ pc = "check" /\ LimitError = "none"
    /\ event' = 0
    /\ Deliver \/ Refuse
    /\ UNCHANGED <<nextId, readerVars, monitorVars, serverVars, pipes, outside>>

-----------------------------------------------------------------------------
(* shutdown_and_reap after "exit": poll the child; once it is reaped the
   monitor is stopped, the readers joined and the accounting read. *)
Reap ==
    /\ pc = "exiting" /\ server = "zombie"
    /\ server' = "reaped" /\ pc' = "exited"
    /\ UNCHANGED <<stage, awaited, unwritten, event, result, outcome, correlation,
                   readerVars, monitorVars, stray, drifted, disturbances, pipes, outside,
                   got>>

StopAfterExit ==
    /\ pc = "exited"
    /\ stopAsked' = TRUE /\ pc' = "joinExited"
    /\ UNCHANGED <<stage, awaited, unwritten, event, result, outcome, correlation,
                   readerVars, monitor, rss, serverVars, pipes, outside, got>>

(* Mutant: the accounting is read while the monitor still samples. *)
JoinAfterExit_Early ==
    /\ pc = "joinExited" /\ stdoutReader = "gone" /\ stderrReader = "gone"
    /\ result' = CASE rss = "unavailable" -> "process-tree-rss-accounting-unavailable"
                   [] rss = "limit" -> "process-tree-rss-limit"
                   [] OTHER -> "ok"
    /\ pc' = "verify"
    /\ UNCHANGED <<stage, awaited, unwritten, event, outcome, correlation, readerVars,
                   monitorVars, serverVars, pipes, outside, got>>

JoinAfterExit ==
    /\ pc = "joinExited" /\ monitor = "gone" /\ stdoutReader = "gone" /\ stderrReader = "gone"
    /\ result' = CASE rss = "unavailable" -> "process-tree-rss-accounting-unavailable"
                   [] rss = "limit" -> "process-tree-rss-limit"
                   [] OTHER -> "ok"
    /\ pc' = "verify"
    /\ UNCHANGED <<stage, awaited, unwritten, event, outcome, correlation, readerVars,
                   monitorVars, serverVars, pipes, outside, got>>

(* terminate: stop the monitor and wait for its thread, close stdin, kill the
   group and reap the child, join the readers. *)
Stop ==
    /\ pc = "stop"
    /\ stopAsked' = TRUE /\ pc' = "kill"
    /\ UNCHANGED <<stage, awaited, unwritten, event, result, outcome, correlation,
                   readerVars, monitor, rss, serverVars, pipes, outside, got>>

Kill ==
    /\ pc = "kill" /\ monitor \in {"none", "gone"}
    /\ server' = IF server = "none" THEN "none" ELSE "reaped"
    /\ stdinOpen' = FALSE /\ pc' = "join"
    /\ UNCHANGED <<stage, awaited, unwritten, event, result, outcome, correlation,
                   readerVars, monitorVars, stray, drifted, disturbances, stdin, stdout, outside, got>>

(* Mutant: terminate joins the stdout reader only. *)
Join_StdoutOnly ==
    /\ pc = "join" /\ stdoutReader = "gone"
    /\ pc' = IF outcome = "none" THEN "verify" ELSE "done"
    /\ UNCHANGED <<stage, awaited, unwritten, event, result, outcome, correlation,
                   readerVars, monitorVars, serverVars, pipes, outside, got>>

Join ==
    /\ pc = "join" /\ stdoutReader = "gone" /\ stderrReader = "gone"
    /\ pc' = IF outcome = "none" THEN "verify" ELSE "done"
    /\ UNCHANGED <<stage, awaited, unwritten, event, result, outcome, correlation,
                   readerVars, monitorVars, serverVars, pipes, outside, got>>

(* check_runtime_deadline: cancellation, then the deadline of the request, or
   the hard maximum when the report is itself about a timeout. *)
RunsOut ==
    \/ cancelled /\ Return("Cancelled")
    \/ ~cancelled /\ (late \/ Status = "timeout") /\ Return("DeadlineExceeded")

(* postflight: the candidate, the model, the profile and the executable are
   compared again with what the request named. *)
Verify ==
    /\ pc = "verify"
    /\ \/ RunsOut
       \/ /\ ~cancelled /\ (~late \/ Status = "timeout")
          /\ IF drifted THEN Return("StaleBinding") ELSE pc' = "publish" /\ UNCHANGED outcome
    /\ UNCHANGED <<stage, awaited, unwritten, event, result, correlation, readerVars,
                   monitorVars, serverVars, pipes, outside, got>>

(* finalize_report *)
Publish ==
    /\ pc = "publish"
    /\ \/ RunsOut
       \/ ~cancelled /\ (~late \/ Status = "timeout") /\ Return(Status)
    /\ UNCHANGED <<stage, awaited, unwritten, event, result, correlation, readerVars,
                   monitorVars, serverVars, pipes, outside, got>>

Caller == \/ PreflightFails \/ AccountingMissing \/ Spawn
          \/ SendRequest \/ SendNotification \/ LimitReached \/ FinishCalls
          \/ WriteUnit \/ WriteFails
          \/ Receive \/ TakeEvent
          \/ Reap \/ StopAfterExit \/ JoinAfterExit
          \/ Stop \/ Kill \/ Join \/ Verify \/ Publish

-----------------------------------------------------------------------------

(* The stdout reader: one frame, or a stretch of frames that the decoder
   refuses as a whole because of a broken one in the same read.  try_send
   never waits: a full channel is an overflow, a lost error or end is silent. *)
Offer(e) == queue' = IF Len(queue) < QueueCapacity THEN Append(queue, e) ELSE queue

ReadFrame ==
    /\ stdoutReader = "reading" /\ stdout > 0
    /\ stdout' = stdout - 1 /\ seen' = seen + 1
    /\ IF seen + 1 + stderrSeen > MaxOutput
       THEN stdoutReader' = "gone" /\ UNCHANGED <<queue, stdoutOverflow>>
       ELSE /\ Offer(seen + 1)
            /\ stdoutOverflow' = (Len(queue) = QueueCapacity)
            /\ stdoutReader' = IF Len(queue) = QueueCapacity THEN "gone" ELSE "reading"
    /\ UNCHANGED <<callerVars, correlation, stderrReader, stderrSeen, monitorVars,
                   serverVars, stdin, stdinOpen, outside, got>>

ReadBroken ==
    /\ stdoutReader = "reading" /\ stdout > 0
    /\ Offer(Torn) /\ stdoutReader' = "gone" /\ stdout' = 0
    /\ UNCHANGED <<callerVars, correlation, stderrReader, seen, stderrSeen, stdoutOverflow,
                   monitorVars, serverVars, stdin, stdinOpen, outside, got>>

(* No process holds the write ends of the pipes any more. *)
PipesClosed == server # "live" /\ stray \notin {"unseen", "tracked"}

StdoutEnds ==
    /\ stdoutReader = "reading" /\ stdout = 0 /\ PipesClosed
    /\ \/ Offer(Eof)
       \/ Offer(Torn)          \* the stream stopped inside a frame
    /\ stdoutReader' = "gone"
    /\ UNCHANGED <<callerVars, correlation, stderrReader, seen, stderrSeen, stdoutOverflow,
                   monitorVars, serverVars, pipes, outside, got>>

StderrEnds ==
    /\ stderrReader = "reading" /\ PipesClosed
    /\ stderrReader' = "gone"
    /\ UNCHANGED <<callerVars, correlation, queue, stdoutReader, seen, stderrSeen,
                   stdoutOverflow, monitorVars, serverVars, pipes, outside, got>>

StdoutThread == ReadFrame \/ ReadBroken \/ StdoutEnds

-----------------------------------------------------------------------------
(* The monitor knows the descendant, whether it still holds a pipe or not. *)
Tracked == stray \in {"tracked", "followed"}

(* The monitor.  A sample of a live tree counts its bytes, notices descendants
   of the live server, or fails. *)
Sample ==
    /\ monitor = "up" /\ ~stopAsked
    /\ server = "live" \/ Tracked
    /\ \/ /\ stray \in {"unseen", "detached"} /\ server = "live"
          /\ stray' = IF stray = "unseen" THEN "tracked" ELSE "followed"
          /\ UNCHANGED <<monitor, rss>>
       \/ rss' \in {"limit", "unavailable"} /\ monitor' = "over" /\ UNCHANGED stray
    /\ UNCHANGED <<callerVars, correlation, readerVars, stopAsked, server, drifted,
                   disturbances, pipes, outside, got>>

(* A tree whose only member is an exited, not yet reaped child cannot be
   accounted on Linux; an empty one ends the thread. *)
SampleDead ==
    /\ monitor = "up" /\ ~stopAsked
    /\ server \in {"zombie", "reaped"} /\ ~Tracked
    /\ IF server = "zombie" THEN rss' = "unavailable" /\ monitor' = "over"
                            ELSE monitor' = "gone" /\ UNCHANGED rss
    /\ UNCHANGED <<callerVars, correlation, readerVars, stopAsked, serverVars, pipes,
                   outside, got>>

(* sampler.terminate: the group and the tracked descendants are killed; a
   descendant that cannot be signalled leaves the tree unaccounted. *)
KillTree ==
    /\ monitor = "over" \/ (monitor = "up" /\ stopAsked)
    /\ server' = IF server = "live" THEN "zombie" ELSE server
    /\ \/ stray' = (IF Tracked THEN "none" ELSE stray) /\ UNCHANGED rss
       \/ Tracked /\ rss' = "unavailable" /\ UNCHANGED stray
    /\ monitor' = "gone"
    /\ UNCHANGED <<callerVars, correlation, readerVars, stopAsked, drifted, disturbances,
                   pipes, outside, got>>

Monitor == Sample \/ SampleDead \/ KillTree

-----------------------------------------------------------------------------
(* The server and what it started.  What it writes to stderr its reader counts
   without ever waiting. *)
ServerWrites ==
    /\ server = "live" /\ stdoutReader = "reading"
    /\ seen + stdout < MaxFrames /\ stdout < StdoutCapacity
    /\ stdout' = stdout + 1
    /\ UNCHANGED <<callerVars, correlation, readerVars, monitorVars, serverVars, stdin,
                   stdinOpen, outside, got>>

ServerReads ==
    /\ server = "live" /\ stdin > 0
    /\ stdin' = stdin - 1
    /\ UNCHANGED <<callerVars, correlation, readerVars, monitorVars, serverVars, stdinOpen,
                   stdout, outside, got>>

(* The candidate may change by the server, by what it left behind or by the
   user, as long as it is still going to be looked at. *)
Disturb ==
    /\ disturbances < MaxDisturbances
    /\ disturbances' = disturbances + 1
    /\ \/ server = "live" /\ stderrSeen' = stderrSeen + 1 /\ UNCHANGED <<stray, drifted>>
       \/ /\ server = "live" /\ stray = "none" /\ stray' = "unseen"
          /\ UNCHANGED <<drifted, stderrSeen>>
       \/ pc # "publish" /\ outcome = "none" /\ drifted' = TRUE /\ UNCHANGED <<stray, stderrSeen>>
    /\ UNCHANGED <<callerVars, correlation, queue, stdoutReader, stderrReader, seen,
                   stdoutOverflow, monitorVars, server, pipes, outside, got>>

ServerExits ==
    /\ server = "live"
    /\ server' = "zombie"
    /\ UNCHANGED <<callerVars, correlation, readerVars, monitorVars, stray, drifted,
                   disturbances, pipes, outside, got>>

StrayLetsGo ==
    /\ \/ stray = "unseen" /\ stray' \in {"none", "detached"}
       \/ stray = "tracked" /\ stray' \in {"none", "followed"}
    /\ UNCHANGED <<callerVars, correlation, readerVars, monitorVars, server, drifted,
                   disturbances, pipes, outside, got>>

Tick == /\ pc \notin {"spawn", "done"} /\ ~late
        /\ late' = TRUE
        /\ UNCHANGED <<callerVars, correlation, readerVars, monitorVars, serverVars, pipes,
                       cancelled, got>>

Cancel == /\ pc # "done" /\ ~cancelled /\ disturbances < MaxDisturbances
          /\ cancelled' = TRUE /\ disturbances' = disturbances + 1
          /\ UNCHANGED <<callerVars, correlation, readerVars, monitorVars, server, stray,
                         drifted, pipes, late, got>>

Server == ServerWrites \/ ServerReads \/ Disturb \/ ServerExits \/ StrayLetsGo
Next == Caller \/ StdoutThread \/ StderrEnds \/ Monitor \/ Server \/ Tick \/ Cancel

Spec == Init /\ [][Next]_vars

(* The program's own threads run and the deadline arrives; nothing is assumed
   of the server. *)
FairSpec == /\ Spec
            /\ WF_vars(Caller) /\ WF_vars(StdoutThread) /\ WF_vars(StderrEnds)
            /\ WF_vars(SampleDead) /\ WF_vars(KillTree) /\ WF_vars(Tick)

-----------------------------------------------------------------------------
(* Frames reach the adapter in the order they were written and without a gap:
   a frame that is lost is the last the session ever looks at (session.rs: the
   readers return on overflow, next_message). *)
DeliveredInOrder == [][got' # got => got' = got + 1]_vars

(* When the provider call has returned, the server is reaped, its pipes are
   closed and no thread of the session is left (session.rs, Drop). *)
NothingIsLeft ==
    pc = "done" => /\ server \in {"none", "reaped"} /\ ~stdinOpen
                   /\ monitor \in {"none", "gone"}
                   /\ stdoutReader = "gone" /\ stderrReader = "gone"

(* Facts are published only of a session that answered every request, ended by
   itself after the shutdown, was accounted to the end, and left the candidate
   as the request bound it (mod.rs: the order of the shutdown, the checks after
   it and the publication). *)
FactsAreBound ==
    outcome = "facts" => /\ result = "ok" /\ stage = "exit" /\ pending = {}
                         /\ server = "reaped" /\ rss = "available" /\ ~drifted

(* What a call answers is sound: every variable keeps its type, the channel and
   the pipes their capacity; facts are bound; and they rest on frames of which
   none before the last was lost. *)
FactsAreSound == [](TypeOK /\ FactsAreBound) /\ DeliveredInOrder

(* A write that finds the pipe full waits for the server, and a join waits for
   a descendant that left the group, escaped the monitor or could not be
   signalled, and still holds a pipe. *)
Held == \/ pc = "write" /\ stdin = StdinCapacity
        \/ pc \in {"join", "joinExited"} /\ stray \in {"unseen", "tracked"}

(* The call comes to an end unless it is held for ever in one of these two ways:
   the deadline, a dead server, a full channel, a silent reader or a killed tree
   always get it out of every other wait (session.rs, mod.rs). *)
EndsUnlessHeld == <>(pc = "done") \/ <>[]Held

(* "Kill and reap rust-analyzer and its descendants after completion, timeout,
   crash, invalid output, or caller cancellation": every call ends. False of the
   code: see Divergences in the README. *)
ProviderCallEnds == <>(pc = "done")
=============================================================================
