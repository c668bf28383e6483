---------------------------- MODULE VenueCommands ----------------------------
(***************************************************************************)
(* The command path of one Venue: threads that submit a command and wait   *)
(* on its Future (scenario/venue.py), and the VenueEngine thread that is   *)
(* the only consumer of the queue (engine/venue_engine.py).                *)
(*                                                                         *)
(* One action is one critical section of the submission lock, one          *)
(* transition of a Future, or one step of the engine that other threads    *)
(* can observe.  What a command does to the EventList and the agenda is    *)
(* abstracted to its place in "ledger".  Switching to the agenda that is   *)
(* current counts as an effect, though it appends and publishes nothing.   *)
(***************************************************************************)
EXTENDS Naturals, Sequences

CONSTANTS
  Command,      \* one element per call of a Venue operation
  Submission,   \* the commands that are EventSubmissions
  Recording,    \* those that append an Event: submissions and agenda changes
  EventOf,      \* the Event object each submission carries
  Engine,       \* the VenueEngine thread
  Stop,         \* _STOP_EVENT_PROCESSING
  None          \* no command

ASSUME CommandAssumption ==
  /\ Submission \subseteq Recording /\ Recording \subseteq Command
  /\ {Engine, Stop, None} \cap Command = {}
  /\ DOMAIN EventOf = Submission

VARIABLES
  processing,   \* __event_processing.is_set()
  threadId,     \* __event_thread_id is the engine thread's
  failure,      \* __event_failure: "none", "timeout" or "crash"
  queue,        \* __event_queue
  pending,      \* __pending_results
  claimed,      \* the events whose __submission_claimed is set
  future,       \* the state of each command's Future
  caller,       \* where each submitting thread is
  answer,       \* what the Venue operation returned or raised
  report,       \* what the caller's tool executor made of it
  toFail,       \* the futures _finish_event_processing has left to fail
  stage,        \* where the engine thread is
  current,      \* the command it is processing
  fault,        \* the engine is unwinding from an exception
  ledger,       \* the commands that took effect, in order
  published,    \* the commands whose observation was delivered
  accepted      \* history: the commands let in, in order

vars == <<processing, threadId, failure, queue, pending, claimed, future,
          caller, answer, report, toFail, stage, current, fault, ledger,
          published, accepted>>

gateVars   == <<processing, threadId, failure, queue, pending, toFail>>
callVars   == <<caller, answer, report>>
engineVars == <<stage, current, fault, ledger, published>>

Resolved == {"ok", "error", "stopped"}

In(c, seq) == \E i \in 1..Len(seq) : seq[i] = c

\* Slip: a queue that serves the newest entry first.
EnqueueFirst(q, e) == <<e>> \o q

\* Queue.put.
Enqueue(q, e) == Append(q, e)

-----------------------------------------------------------------------------
Init ==
  /\ processing = FALSE
  /\ threadId = FALSE
  /\ failure = "none"
  /\ queue = <<>>
  /\ pending = {}
  /\ claimed = {}
  /\ future = [c \in Command |-> "new"]
  /\ caller = [c \in Command |-> "idle"]
  /\ answer = [c \in Command |-> "none"]
  /\ report = [c \in Command |-> "none"]
  /\ toFail = [p \in Command \cup {Engine} |-> {}]
  /\ stage = "off"
  /\ current = None
  /\ fault = FALSE
  /\ ledger = <<>>
  /\ published = {}
  /\ accepted = <<>>

-----------------------------------------------------------------------------
(* The submitting threads.                                                 *)

\* ToolExecutor.execute: VenueEngineStoppedError is re-raised into the agent
\* loop, every other exception becomes an {"ok": false} result for the model.
ToolReport(a) ==
  IF a = "ok" THEN "ok" ELSE IF a = "stopped" THEN "raised" ELSE "toolError"

Reply(c, a) ==
  /\ caller' = [caller EXCEPT ![c] = "done"]
  /\ answer' = [answer EXCEPT ![c] = a]
  /\ report' = [report EXCEPT ![c] = ToolReport(a)]

AlreadyClaimed(c) == c \in Submission /\ EventOf[c] \in claimed

SubmitRefused(c) ==
  /\ caller[c] = "idle"
  /\ ~processing
  /\ Reply(c, "stopped")
  /\ UNCHANGED <<gateVars, engineVars, claimed, future, accepted>>

SubmitDuplicate(c) ==
  /\ caller[c] = "idle"
  /\ processing
  /\ AlreadyClaimed(c)
  /\ Reply(c, "duplicate")
  /\ UNCHANGED <<gateVars, engineVars, claimed, future, accepted>>

Submit(c) ==
  /\ caller[c] = "idle"
  /\ processing
  /\ ~AlreadyClaimed(c)
  /\ claimed' = claimed \cup (IF c \in Submission THEN {EventOf[c]} ELSE {})
  /\ pending' = pending \cup {c}
  /\ future' = [future EXCEPT ![c] = "pending"]
  /\ queue' = Enqueue(queue, c)
  /\ accepted' = Append(accepted, c)
  /\ caller' = [caller EXCEPT ![c] = "waiting"]
  /\ UNCHANGED <<processing, threadId, failure, toFail, answer, report,
                 engineVars>>

\* Future.result(timeout) returns or raises what the future holds.
Receive(c) ==
  /\ caller[c] = "waiting"
  /\ future[c] \in Resolved
  /\ Reply(c, future[c])
  /\ UNCHANGED <<gateVars, engineVars, claimed, future, accepted>>

\* Slip: Future.result() without a timeout.
NeverExpire(c) == FALSE

\* Future.result(timeout) raises TimeoutError.
Expire(c) ==
  /\ caller[c] = "waiting"
  /\ future[c] \notin Resolved
  /\ caller' = [caller EXCEPT ![c] = "expired"]
  /\ UNCHANGED <<gateVars, engineVars, answer, report, claimed, future, accepted>>

\* The future was resolved between the deadline and the second look at it.
ReceiveLate(c) ==
  /\ caller[c] = "expired"
  /\ future[c] \in Resolved
  /\ Reply(c, future[c])
  /\ UNCHANGED <<gateVars, engineVars, claimed, future, accepted>>

DecideToClose(c) ==
  /\ caller[c] = "expired"
  /\ future[c] \notin Resolved
  /\ caller' = [caller EXCEPT ![c] = "closing"]
  /\ UNCHANGED <<gateVars, engineVars, answer, report, claimed, future, accepted>>

\* Slip: the pending futures are forgotten instead of failed.
FinishQuietly(p, why) ==
  /\ processing' = FALSE
  /\ threadId' = FALSE
  /\ failure' = IF failure = "none" THEN why ELSE failure
  /\ pending' = {}
  /\ queue' = IF why # "none" /\ processing THEN Enqueue(queue, Stop) ELSE queue
  /\ UNCHANGED toFail

\* The critical section of _finish_event_processing, run by thread p.
Finish(p, why) ==
  /\ processing' = FALSE
  /\ threadId' = FALSE
  /\ failure' = IF failure = "none" THEN why ELSE failure
  /\ toFail' = [toFail EXCEPT ![p] = pending]
  /\ pending' = {}
  /\ queue' = IF why # "none" /\ processing THEN Enqueue(queue, Stop) ELSE queue

CloseVenue(c) ==
  /\ caller[c] = "closing"
  /\ Finish(c, "timeout")
  /\ caller' = [caller EXCEPT ![c] = "failing"]
  /\ UNCHANGED <<engineVars, answer, report, claimed, future, accepted>>

\* One round of the loop of _finish_event_processing, outside the lock: a
\* future that is done by now is left alone.
FailNext(p) ==
  \E d \in toFail[p] :
    /\ toFail' = [toFail EXCEPT ![p] = @ \ {d}]
    /\ future' = [future EXCEPT ![d] = IF @ \in Resolved THEN @ ELSE "stopped"]
    /\ UNCHANGED <<processing, threadId, failure, queue, pending, callVars,
                   engineVars, claimed, accepted>>

FailPending(c) == caller[c] = "failing" /\ FailNext(c)

RaiseTimeout(c) ==
  /\ caller[c] = "failing"
  /\ toFail[c] = {}
  /\ Reply(c, "timeout")
  /\ UNCHANGED <<gateVars, engineVars, claimed, future, accepted>>

-----------------------------------------------------------------------------
(* VenueEngine.stop, called by the Simulator: a no-op once the gate is shut. *)

RequestStop ==
  /\ processing
  /\ processing' = FALSE
  /\ queue' = Enqueue(queue, Stop)
  /\ UNCHANGED <<threadId, failure, pending, toFail, callVars, engineVars,
                 claimed, future, accepted>>

-----------------------------------------------------------------------------
(* The engine thread.                                                      *)

EngineStart ==
  /\ stage = "off"
  /\ ~processing /\ failure = "none"
  /\ processing' = TRUE
  /\ threadId' = TRUE
  /\ stage' = "idle"
  /\ UNCHANGED <<failure, queue, pending, toFail, current, fault, ledger,
                 published, callVars, claimed, future, accepted>>

\* Slip: the stop marker is taken for a command.
TakeUnchecked ==
  /\ stage = "idle"
  /\ queue # <<>>
  /\ queue' = Tail(queue)
  /\ stage' = "taken"
  /\ current' = Head(queue)
  /\ UNCHANGED <<processing, threadId, failure, pending, toFail, fault, ledger,
                 published, callVars, claimed, future, accepted>>

Take ==
  /\ stage = "idle"
  /\ queue # <<>>
  /\ queue' = Tail(queue)
  /\ IF Head(queue) = Stop
       THEN stage' = "closing" /\ current' = None
       ELSE stage' = "taken" /\ current' = Head(queue)
  /\ UNCHANGED <<processing, threadId, failure, pending, toFail, fault, ledger,
                 published, callVars, claimed, future, accepted>>

\* _start_result: a future that somebody already failed is skipped, so its
\* command is dropped without taking effect.
Skip ==
  /\ stage = "taken"
  /\ future[current] \in Resolved
  /\ stage' = "idle"
  /\ current' = None
  /\ UNCHANGED <<gateVars, callVars, fault, ledger, published, claimed, future,
                 accepted>>

\* Slip: the command runs whatever its future says.
StartAnyway ==
  /\ stage = "taken"
  /\ stage' = "running"
  /\ UNCHANGED <<gateVars, callVars, current, fault, ledger, published, claimed,
                 future, accepted>>

StartCommand ==
  /\ stage = "taken"
  /\ future[current] \notin Resolved
  /\ future' = [future EXCEPT ![current] = "running"]
  /\ stage' = "running"
  /\ UNCHANGED <<gateVars, callVars, current, fault, ledger, published, claimed,
                 accepted>>

\* The commit raised before it changed anything.
Reject ==
  /\ stage = "running"
  /\ stage' = "refusing"
  /\ UNCHANGED <<gateVars, callVars, current, fault, ledger, published, claimed,
                 future, accepted>>

TakeEffect ==
  /\ stage = "running"
  /\ ledger' = Append(ledger, current)
  /\ stage' = "effective"
  /\ UNCHANGED <<gateVars, callVars, current, fault, published, claimed, future,
                 accepted>>

\* EventList calls the listeners after the append; an Exception of theirs goes
\* to the submitter and the observation is never published.
ListenerFails ==
  /\ stage = "effective"
  /\ current \in Recording
  /\ stage' = "refusing"
  /\ UNCHANGED <<gateVars, callVars, current, fault, ledger, published, claimed,
                 future, accepted>>

\* A listener submits to its own Venue on the engine thread: the call raises
\* before it touches the claim or the queue, and the listener lets the error
\* through or swallows it.
ListenerReenters(d) ==
  /\ stage = "effective"
  /\ current \in Recording
  /\ caller[d] = "idle"
  /\ threadId \/ ~processing
  /\ caller' = [caller EXCEPT ![d] = "done"]
  /\ answer' = [answer EXCEPT ![d] = IF threadId THEN "reentry" ELSE "stopped"]
  /\ stage' \in {"effective", "refusing"}
  /\ UNCHANGED <<gateVars, report, current, fault, ledger, published, claimed,
                 future, accepted>>

\* A BaseException of a listener, or any exception of _publish_event.
Crash ==
  /\ stage = "effective"
  /\ stage' = "closing"
  /\ fault' = TRUE
  /\ current' = None
  /\ UNCHANGED <<gateVars, callVars, ledger, published, claimed, future, accepted>>

\* Slip: the sender is answered before the observers are.
AnswerFirst ==
  /\ stage = "effective"
  /\ stage' = "answering"
  /\ UNCHANGED <<gateVars, callVars, current, fault, ledger, published, claimed,
                 future, accepted>>

Publish ==
  /\ stage = "effective"
  /\ published' = published \cup {current}
  /\ stage' = "answering"
  /\ UNCHANGED <<gateVars, callVars, current, fault, ledger, claimed, future,
                 accepted>>

\* Slip: a future that was failed meanwhile cannot be resolved again.
ResolvePendingOnly ==
  /\ stage \in {"answering", "refusing"}
  /\ future[current] \notin Resolved
  /\ future' = [future EXCEPT ![current] =
                  IF stage = "answering" THEN "ok" ELSE "error"]
  /\ pending' = pending \ {current}
  /\ stage' = "idle"
  /\ current' = None
  /\ UNCHANGED <<processing, threadId, failure, queue, toFail, callVars, fault,
                 ledger, published, claimed, accepted>>

\* _set_result and _set_exception: no effect on a future already resolved; its
\* done callback takes it out of the pending set.
Resolve ==
  /\ stage \in {"answering", "refusing"}
  /\ future' = [future EXCEPT ![current] =
                  IF @ \in Resolved THEN @
                  ELSE IF stage = "answering" THEN "ok" ELSE "error"]
  /\ pending' = pending \ {current}
  /\ stage' = "idle"
  /\ current' = None
  /\ UNCHANGED <<processing, threadId, failure, queue, toFail, callVars, fault,
                 ledger, published, claimed, accepted>>

EngineFinish ==
  /\ stage = "closing"
  /\ Finish(Engine, IF fault THEN "crash" ELSE "none")
  /\ stage' = "failing"
  /\ UNCHANGED <<callVars, current, fault, ledger, published, claimed, future,
                 accepted>>

EngineFailPending == stage = "failing" /\ FailNext(Engine)

EngineExit ==
  /\ stage = "failing"
  /\ toFail[Engine] = {}
  /\ stage' = "dead"
  /\ UNCHANGED <<gateVars, callVars, current, fault, ledger, published, claimed,
                 future, accepted>>

-----------------------------------------------------------------------------
\* One step of the thread that called a Venue operation.
CallerStep(c) ==
  \/ Receive(c) \/ Expire(c) \/ ReceiveLate(c) \/ DecideToClose(c)
  \/ CloseVenue(c) \/ FailPending(c) \/ RaiseTimeout(c)

SubmitStep(c) == SubmitRefused(c) \/ SubmitDuplicate(c) \/ Submit(c)

EngineStep ==
  \/ EngineStart \/ Take \/ Skip \/ StartCommand \/ Reject \/ TakeEffect
  \/ ListenerFails \/ Crash \/ Publish \/ Resolve
  \/ EngineFinish \/ EngineFailPending \/ EngineExit
  \/ \E d \in Command : ListenerReenters(d)

Next ==
  \/ \E c \in Command : SubmitStep(c) \/ CallerStep(c)
  \/ RequestStop
  \/ EngineStep

Spec == Init /\ [][Next]_vars

\* The engine has found its stop marker ahead of it, or is past its loop.
Ending == In(Stop, queue) \/ stage \in {"closing", "failing"}

\* A thread blocked in Future.result wakes up at its deadline and then runs on.
\* The engine thread is only assumed to go on, and its listeners to return, once
\* it is to end: before that a listener may block it for ever.
Fairness ==
  /\ \A c \in Command : WF_vars(CallerStep(c))
  /\ WF_vars(Ending /\ EngineStep)

FairSpec == Spec /\ Fairness

-----------------------------------------------------------------------------
(* Properties.                                                             *)

Unresolved(c) == future[c] \in {"pending", "running"}

\* p is inside _finish_event_processing with futures left to fail.
Closing(p) == IF p = Engine THEN stage = "failing" ELSE caller[p] = "failing"

\* Every variable stays within the values the code can give it.
TypeOK ==
  /\ processing \in BOOLEAN /\ threadId \in BOOLEAN /\ fault \in BOOLEAN
  /\ failure \in {"none", "timeout", "crash"}
  /\ queue \in Seq(Command \cup {Stop})
  /\ pending \subseteq Command
  /\ claimed \subseteq {EventOf[c] : c \in Submission}
  /\ future \in [Command -> {"new", "pending", "running"} \cup Resolved]
  /\ caller \in [Command -> {"idle", "waiting", "expired", "closing",
                             "failing", "done"}]
  /\ answer \in [Command -> {"none", "ok", "error", "stopped", "timeout",
                             "duplicate", "reentry"}]
  /\ report \in [Command -> {"none", "ok", "toolError", "raised"}]
  /\ toFail \in [Command \cup {Engine} -> SUBSET Command]
  /\ stage \in {"off", "idle", "taken", "running", "effective", "answering",
                "refusing", "closing", "failing", "dead"}
  /\ current \in Command \cup {None}
  /\ ledger \in Seq(Command)
  /\ published \subseteq Command
  /\ accepted \in Seq(Command)

\* However its senders race, time out or collide with a stop, a command takes
\* effect at most once and an Event object enters the EventList at most once
\* (Event._claim_submission inside Venue._submit_command).
AppliedOnce ==
  \A i, j \in 1..Len(ledger) :
    \/ i = j
    \/ /\ ledger[i] # ledger[j]
       /\ {ledger[i], ledger[j]} \subseteq Submission =>
            EventOf[ledger[i]] # EventOf[ledger[j]]

\* A sender that was told "ok" finds its change in the EventList and every
\* observer was already notified (_publish_event runs before _set_result).
OkMeansDone ==
  \A c \in Command : answer[c] = "ok" => In(c, ledger) /\ c \in published

\* A command accepted but not yet resolved is never forgotten: it is registered
\* with an engine that will still run its finish, or is about to be failed by a
\* thread inside _finish_event_processing.  Nobody waits on a dead engine.
NoOrphan ==
  \A c \in Command : Unresolved(c) =>
    \/ c \in pending /\ stage \notin {"off", "failing", "dead"}
    \/ \E p \in Command \cup {Engine} : Closing(p) /\ c \in toFail[p]

\* An Event is locked against resubmission only by a submission that is in the
\* queue or came out of it (_release_submission_claim, and the reentry and
\* stopped checks that precede the claim).
ClaimsAreBacked ==
  \A e \in claimed : \E c \in Submission : EventOf[c] = e /\ In(c, accepted)

\* Simulator.stop without a failure drains: every accepted command was carried
\* out or rejected by the engine itself, none was dropped (scenario-schema.md).
CleanStopDrains ==
  stage = "dead" /\ failure = "none" =>
    \A c \in Command : In(c, accepted) => future[c] \in {"ok", "error"}

\* When a submitter gets VenueCommandTimeoutError the Venue is shut, and every
\* other unresolved command is being failed by another thread.
TimeoutShutsVenue ==
  \A c \in Command : answer[c] = "timeout" =>
    /\ ~processing /\ failure # "none"
    /\ \A d \in Command : Unresolved(d) =>
         \E p \in (Command \cup {Engine}) \ {c} : Closing(p) /\ d \in toFail[p]

\* A command that was failed while it was still queued never takes effect, not
\* even later when the engine comes to it (VenueEngine._start_result).
FailedInQueueStaysOut ==
  \A c \in Command :
    [](In(c, queue) /\ future[c] \in Resolved => []~In(c, ledger))

\* What a sender is told of its command, and what the lock on its Event says, is
\* what has become of the command.
CommandsHonest == AppliedOnce /\ OkMeansDone /\ ClaimsAreBacked

\* However a venue ends, by a stop, a timeout or a crash, each accepted command
\* has somebody to resolve it, and a stop without a failure drops none.
ShutdownComplete == NoOrphan /\ CleanStopDrains /\ TimeoutShutsVenue

\* No submitter waits for ever, even behind a listener that never returns.
EveryCallAnswered ==
  \A c \in Command : caller[c] = "waiting" ~> caller[c] = "done"

\* Once the stop marker is in the queue the engine thread ends.
StopEndsEngine == In(Stop, queue) ~> stage = "dead"

-----------------------------------------------------------------------------
(* The abstract service.  The gate is open while commands are accepted, and *)
(* a closed gate never reopens.                                            *)

Service == INSTANCE CommandService WITH
  phase <- IF stage = "off" THEN "new" ELSE IF processing THEN "open" ELSE "closed"

ServiceSpec == Service!Spec
=============================================================================
