------------------------------ MODULE AgentTurn ------------------------------
(***************************************************************************)
(* One agent thread (a representative, a chair or a DM), its Inbox and its *)
(* LLM client, with the two threads that call into it: the VenueEngine,    *)
(* which notifies it of observations, and whoever stops the simulation.    *)
(* LLM.stop is two steps, since the client clears its stop flag and        *)
(* registers its task between them when a stream opens.                    *)
(***************************************************************************)
EXTENDS Naturals, Sequences

CONSTANTS
  Roles,         \* the kinds of agent considered
  Last,          \* observations are 1 .. Last, by their sequence number
  Urgent,        \* those that are URGENT and activate the agent
  Idle,          \* those that do not activate it
  MaxRounds,     \* max_tool_rounds
  MaxCalls       \* bound on the tool calls of one answer

Observation == 1..Last

ASSUME AgentAssumption ==
  /\ Roles \subseteq {"representative", "chair", "dm"} /\ Roles # {}
  /\ Last \in Nat /\ MaxRounds \in Nat \ {0} /\ MaxCalls \in Nat
  /\ Urgent \subseteq Observation /\ Idle \subseteq Observation \ Urgent

VARIABLES
  role,          \* what this agent is
  inbox,         \* AgentInbox.__items
  closed,        \* AgentInbox.__closed
  sent,          \* observations the VenueEngine has passed to notify
  stopEvent,     \* the Simulator's stop event
  interrupted,   \* __turn_interrupted
  active,        \* __turn_active
  llmStop,       \* LLM._stop_event
  open,          \* a stream has registered itself as the active one
  cancel,        \* task.cancel is scheduled on the task of this step
  at,            \* where the two calling threads are
  pc,            \* where the agent thread is
  batch,         \* the observations in hand
  rounds, calls, \* LLM rounds and tool calls left
  outcome,       \* how the last step ended
  shown,         \* history: observations that reached a prompt, in order
  swallowed,     \* history: those whose step raised before it began
  late           \* history: tools started in this step after it was called off

vars == <<role, inbox, closed, sent, stopEvent, interrupted, active, llmStop, open,
          cancel, at, pc, batch, rounds, calls, outcome, shown, swallowed, late>>

llmVars   == <<llmStop, open, cancel>>
turnVars  == <<interrupted, active>>
inboxVars == <<inbox, closed, sent>>
workVars  == <<batch, rounds, calls, outcome, shown, swallowed, late>>

Caller == {"engine", "stopper"}

Members(seq) == {seq[i] : i \in 1..Len(seq)}

Init ==
  /\ role \in Roles
  /\ inbox = <<>> /\ closed = FALSE /\ sent = 0
  /\ stopEvent = FALSE /\ interrupted = FALSE /\ active = FALSE
  /\ llmStop = FALSE /\ open = FALSE /\ cancel = FALSE
  /\ at = [t \in Caller |-> "outside"]
  /\ pc = "waiting"
  /\ batch = <<>> /\ rounds = 0 /\ calls = 0 /\ outcome = "none"
  /\ shown = <<>> /\ swallowed = {} /\ late = 0

-----------------------------------------------------------------------------
(* The VenueEngine thread, in notify.                                      *)

\* Only agents built with interrupt_on_urgent let an observation break a turn.
Interrupts(o) == role # "dm" /\ o \in Urgent

Notify ==
  /\ at["engine"] = "outside"
  /\ sent < Last
  /\ sent' = sent + 1
  /\ IF closed
       THEN UNCHANGED <<inbox, at>>
       ELSE /\ inbox' = Append(inbox, sent + 1)
            /\ at' = [at EXCEPT !["engine"] =
                        IF Interrupts(sent + 1) THEN "flagging" ELSE "outside"]
  /\ UNCHANGED <<closed, stopEvent, turnVars, llmVars, pc, workVars>>

FlagTurn ==
  /\ at["engine"] = "flagging"
  /\ interrupted' = (interrupted \/ active)
  /\ at' = [at EXCEPT !["engine"] = IF active THEN "stopping" ELSE "outside"]
  /\ UNCHANGED <<inboxVars, stopEvent, active, llmVars, pc, workVars>>

-----------------------------------------------------------------------------
(* LLM.stop, called by either thread.                                      *)

SetLLMStop(t) ==
  /\ at[t] = "stopping"
  /\ llmStop' = TRUE
  /\ at' = [at EXCEPT ![t] = "cancelling"]
  /\ UNCHANGED <<inboxVars, stopEvent, turnVars, open, cancel, pc, workVars>>

\* Whatever task is registered by now is the one that gets cancelled.
CancelTask(t) ==
  /\ at[t] = "cancelling"
  /\ cancel' = (cancel \/ open)
  /\ at' = [at EXCEPT ![t] = IF t = "engine" THEN "outside" ELSE "finished"]
  /\ UNCHANGED <<inboxVars, stopEvent, turnVars, llmStop, open, pc, workVars>>

-----------------------------------------------------------------------------
(* The thread that stops the simulation, in stop.                          *)

RequestStop ==
  /\ at["stopper"] = "outside"
  /\ stopEvent' = TRUE
  /\ at' = [at EXCEPT !["stopper"] = "closing"]
  /\ UNCHANGED <<inboxVars, turnVars, llmVars, pc, workVars>>

\* Slip: the inbox is closed but the observations in it are kept.
CloseKeeping ==
  /\ at["stopper"] = "closing"
  /\ at' = [at EXCEPT !["stopper"] = "stopping"]
  /\ UNCHANGED <<inboxVars, stopEvent, turnVars, llmVars, pc, workVars>>

CloseInbox ==
  /\ at["stopper"] = "closing"
  /\ closed' = TRUE
  /\ inbox' = <<>>
  /\ at' = [at EXCEPT !["stopper"] = "stopping"]
  /\ UNCHANGED <<sent, stopEvent, turnVars, llmVars, pc, workVars>>

-----------------------------------------------------------------------------
(* The agent thread between turns.                                         *)

\* The loop test of run.
LoopTest ==
  /\ pc = "waiting"
  /\ pc' = IF stopEvent THEN "ended" ELSE "blocked"
  /\ UNCHANGED <<inboxVars, stopEvent, turnVars, llmVars, at, workVars>>

\* take_batch: the window after the first observation ends at an arbitrary
\* moment, at once when an urgent one is there.
TakeBatch ==
  /\ pc = "blocked"
  /\ inbox # <<>>
  /\ batch' = inbox
  /\ inbox' = <<>>
  /\ pc' = "deciding"
  /\ UNCHANGED <<closed, sent, stopEvent, turnVars, llmVars, at, rounds, calls,
                 outcome, shown, swallowed, late>>

\* take_batch returns None.
TakeClosed ==
  /\ pc = "blocked"
  /\ closed
  /\ pc' = "ended"
  /\ UNCHANGED <<inboxVars, stopEvent, turnVars, llmVars, at, workVars>>

\* The rest of the batch, or what take_ready finds.
NextBatch(rest) ==
  /\ pc' = "deciding"
  /\ IF rest = <<>>
       THEN batch' = inbox /\ inbox' = <<>>
       ELSE batch' = rest /\ UNCHANGED inbox

\* The DM takes one task per turn, the others the whole batch.
Activation == IF role = "dm" THEN <<Head(batch)>> ELSE batch

\* Slip: what is left of a batch is dropped.
RestDropped == <<>>

Rest == IF role = "dm" THEN Tail(batch) ELSE <<>>

\* What UnchairedActivityController may answer: a batch with an urgent member
\* is taken up, one with nothing to act on is not, the others depend on the
\* phase and on the public wave.  System agents take up every batch.
MayActivate == role # "representative" \/ Members(batch) \ Idle # {}
MayPass     == role = "representative" /\ Members(batch) \cap Urgent = {}

LeaveInner ==
  /\ pc = "deciding"
  /\ batch = <<>> \/ stopEvent
  /\ pc' = "waiting"
  /\ batch' = <<>>
  /\ UNCHANGED <<inboxVars, stopEvent, turnVars, llmVars, at, rounds, calls,
                 outcome, shown, swallowed, late>>

PassOver ==
  /\ pc \in {"deciding", "merged"}
  /\ batch # <<>> /\ MayPass
  /\ pc = "deciding" => ~stopEvent
  /\ NextBatch(<<>>)
  /\ UNCHANGED <<closed, sent, stopEvent, turnVars, llmVars, at, rounds, calls,
                 outcome, shown, swallowed, late>>

CoolDown ==
  /\ pc = "deciding"
  /\ batch # <<>> /\ ~stopEvent
  /\ MayPass /\ MayActivate
  /\ pc' = "cooling"
  /\ UNCHANGED <<inboxVars, stopEvent, turnVars, llmVars, at, workVars>>

\* Slip: merge_during puts the new observations in front.
MergeInFront ==
  /\ pc = "cooling"
  /\ pc' = IF closed THEN "ended" ELSE "merged"
  /\ batch' = inbox \o batch
  /\ inbox' = <<>>
  /\ UNCHANGED <<closed, sent, stopEvent, turnVars, llmVars, at, rounds, calls,
                 outcome, shown, swallowed, late>>

\* merge_during: a closed inbox ends the thread.
Merge ==
  /\ pc = "cooling"
  /\ pc' = IF closed THEN "ended" ELSE "merged"
  /\ batch' = batch \o inbox
  /\ inbox' = <<>>
  /\ UNCHANGED <<closed, sent, stopEvent, turnVars, llmVars, at, rounds, calls,
                 outcome, shown, swallowed, late>>

Activate ==
  /\ pc \in {"deciding", "merged"}
  /\ batch # <<>> /\ MayActivate
  /\ pc = "deciding" => ~stopEvent
  /\ pc' = "entering"
  /\ UNCHANGED <<inboxVars, stopEvent, turnVars, llmVars, at, workVars>>

-----------------------------------------------------------------------------
(* step: one turn of the LLM and its tools.                                *)

EnterStopped ==
  /\ pc = "entering"
  /\ stopEvent
  /\ pc' = "ended"
  /\ UNCHANGED <<inboxVars, stopEvent, turnVars, llmVars, at, workVars>>

\* Slip: a representative checks first as well.
ChecksAlways == TRUE

\* The system agents look at the flag of the turn before they clear it.
ChecksBeforeClearing == role # "representative"

EnterRefused ==
  /\ pc = "entering"
  /\ ~stopEvent /\ interrupted /\ ChecksBeforeClearing
  /\ swallowed' = swallowed \cup Members(Activation)
  /\ NextBatch(Rest)
  /\ UNCHANGED <<closed, sent, stopEvent, turnVars, llmVars, at, rounds, calls,
                 outcome, shown, late>>

Enter ==
  /\ pc = "entering"
  /\ ~stopEvent
  /\ interrupted => ~ChecksBeforeClearing
  /\ interrupted' = FALSE
  /\ active' = TRUE
  /\ rounds' = MaxRounds
  /\ late' = 0
  /\ shown' = shown \o Activation
  /\ pc' = "round"
  /\ UNCHANGED <<inboxVars, stopEvent, llmVars, at, batch, calls, outcome,
                 swallowed>>

CalledOff == stopEvent \/ interrupted

Leave(why) ==
  /\ pc' = "leaving"
  /\ outcome' = why
  /\ UNCHANGED <<inboxVars, stopEvent, turnVars, llmVars, at, batch, rounds,
                 calls, shown, swallowed, late>>

\* _require_current_turn raises.
CalledOffOutcome == IF stopEvent THEN "stopped" ELSE "interrupted"

Abandon ==
  /\ pc \in {"round", "streaming", "answered", "tools"}
  /\ pc = "round" => rounds > 0
  /\ pc = "tools" => calls > 0
  /\ CalledOff
  /\ Leave(CalledOffOutcome)

\* The last round is used up, or the answer has no tool calls.
Complete ==
  /\ \/ pc = "round" /\ rounds = 0
     \/ pc = "answered" /\ calls = 0 /\ ~CalledOff
  /\ Leave("completed")

\* Slip: nothing counts the rounds.
BeginRoundUncounted ==
  /\ pc = "round"
  /\ ~CalledOff
  /\ rounds' = rounds - 1
  /\ pc' = "calling"
  /\ UNCHANGED <<inboxVars, stopEvent, turnVars, llmVars, at, batch, calls,
                 outcome, shown, swallowed, late>>

BeginRound ==
  /\ pc = "round"
  /\ rounds > 0 /\ ~CalledOff
  /\ rounds' = rounds - 1
  /\ pc' = "calling"
  /\ UNCHANGED <<inboxVars, stopEvent, turnVars, llmVars, at, batch, calls,
                 outcome, shown, swallowed, late>>

OpenStream ==
  /\ pc = "calling"
  /\ llmStop' = FALSE
  /\ open' = TRUE
  /\ pc' = "streaming"
  /\ UNCHANGED <<inboxVars, stopEvent, turnVars, cancel, at, workVars>>

\* The stream notices its own flag: LLMCancelledError, which step translates
\* if it knows why.
StreamStopped ==
  /\ pc = "streaming"
  /\ llmStop
  /\ Leave(IF CalledOff THEN CalledOffOutcome ELSE "cancelled")

\* The scheduled cancel arrives at an await; without the flag the bare
\* CancelledError leaves the step.
StreamCancelled ==
  /\ pc = "streaming"
  /\ cancel
  /\ Leave(IF llmStop /\ CalledOff THEN CalledOffOutcome ELSE "cancelled")

StreamFails ==
  /\ pc = "streaming"
  /\ Leave("failed")

StreamEnds ==
  /\ pc = "streaming"
  /\ ~llmStop
  /\ open' = FALSE
  /\ calls' \in 0..MaxCalls
  /\ pc' = "answered"
  /\ UNCHANGED <<inboxVars, stopEvent, turnVars, llmStop, cancel, at, batch,
                 rounds, outcome, shown, swallowed, late>>

TakeUpCalls ==
  /\ pc = "answered"
  /\ calls > 0 /\ ~CalledOff
  /\ pc' = "tools"
  /\ UNCHANGED <<inboxVars, stopEvent, turnVars, llmVars, at, workVars>>

\* Slip: the tool calls of an answer run to the end once taken up.
BeginToolAnyway ==
  /\ pc = "tools" /\ calls > 0
  /\ pc' = "executing"
  /\ UNCHANGED <<inboxVars, stopEvent, turnVars, llmVars, at, workVars>>

BeginTool ==
  /\ pc = "tools" /\ calls > 0 /\ ~CalledOff
  /\ pc' = "executing"
  /\ UNCHANGED <<inboxVars, stopEvent, turnVars, llmVars, at, workVars>>

ExecuteTool ==
  /\ pc = "executing"
  /\ late' = IF CalledOff THEN late + 1 ELSE late
  /\ calls' = calls - 1
  /\ pc' = "tools"
  /\ UNCHANGED <<inboxVars, stopEvent, turnVars, llmVars, at, batch, rounds,
                 outcome, shown, swallowed>>

\* VenueEngineStoppedError goes through the tool layer.
ToolRaises ==
  /\ pc = "executing"
  /\ Leave("failed")

ToolsDone ==
  /\ pc = "tools" /\ calls = 0
  /\ pc' = "round"
  /\ UNCHANGED <<inboxVars, stopEvent, turnVars, llmVars, at, workVars>>

\* The finally clause of step, and what run makes of the exception.
Finish ==
  /\ pc = "leaving"
  /\ active' = FALSE
  /\ open' = FALSE
  /\ cancel' = FALSE
  /\ calls' = 0 /\ rounds' = 0
  /\ IF outcome \in {"completed", "interrupted"}
       THEN NextBatch(Rest)
       ELSE /\ pc' = IF outcome = "stopped" THEN "ended" ELSE "dead"
            /\ UNCHANGED <<batch, inbox>>
  /\ UNCHANGED <<closed, sent, stopEvent, interrupted, llmStop, at, outcome,
                 shown, swallowed, late>>

-----------------------------------------------------------------------------
\* The rest of a call to notify, and of a call to stop.
NotifyOn == FlagTurn \/ SetLLMStop("engine") \/ CancelTask("engine")
StopOn   == CloseInbox \/ SetLLMStop("stopper") \/ CancelTask("stopper")

EngineStep  == (Notify \/ NotifyOn) /\ UNCHANGED role
StopperStep == (RequestStop \/ StopOn) /\ UNCHANGED role

LoopStep ==
  \/ LoopTest \/ TakeBatch \/ TakeClosed \/ LeaveInner \/ PassOver \/ CoolDown \/ Merge
  \/ Activate

TurnStep ==
  \/ EnterStopped \/ EnterRefused \/ Enter \/ Abandon \/ Complete \/ BeginRound
  \/ OpenStream \/ StreamStopped \/ StreamCancelled \/ StreamFails
  \/ StreamEnds \/ TakeUpCalls \/ BeginTool \/ ExecuteTool \/ ToolRaises
  \/ ToolsDone \/ Finish

AgentStep == (LoopStep \/ TurnStep) /\ UNCHANGED role

Next == EngineStep \/ StopperStep \/ AgentStep

Spec == Init /\ [][Next]_vars

\* Both calling threads run on inside notify and stop, and the agent thread is
\* scheduled: the coalescing window ends, the LLM client has a read timeout and
\* the tools return or raise.  Nobody is obliged to send or to stop.
Fairness ==
  /\ WF_vars(AgentStep)
  /\ WF_vars(NotifyOn /\ UNCHANGED role)
  /\ WF_vars(StopOn /\ UNCHANGED role)

FairSpec == Spec /\ Fairness

-----------------------------------------------------------------------------
(* Properties.                                                             *)

Over == pc \in {"ended", "dead"}

\* Every variable stays in its range, the counters of rounds and calls included
\* (step counts them down and never below zero).
TypeOK ==
  /\ inbox \in Seq(Observation) /\ batch \in Seq(Observation)
  /\ shown \in Seq(Observation) /\ swallowed \subseteq Observation
  /\ sent \in 0..Last /\ rounds \in 0..MaxRounds /\ calls \in 0..MaxCalls
  /\ {closed, stopEvent, interrupted, active, llmStop, open, cancel}
       \subseteq BOOLEAN
  /\ at \in [Caller -> {"outside", "flagging", "stopping", "cancelling",
                        "closing", "finished"}]
  /\ pc \in {"waiting", "blocked", "deciding", "cooling", "merged", "entering", "round",
             "calling", "streaming", "answered", "tools", "executing",
             "leaving", "ended", "dead"}
  /\ outcome \in {"none", "completed", "interrupted", "stopped", "cancelled",
                  "failed"}
  /\ late \in 0..(MaxRounds * MaxCalls)

Increasing(seq) == \A i, j \in 1..Len(seq) : i < j => seq[i] < seq[j]

\* Through batches, cooling and take_ready, no observation reaches two prompts
\* and none overtakes another (AgentInbox.take_batch, merge_during, take_ready).
PromptsInOrder == Increasing(shown) /\ Increasing(batch \o inbox)

\* Once a turn is called off, by an urgent observation or by a stop, at most the
\* one tool that had passed its check still runs (_require_current_turn).
LateWorkBounded == late <= 1

\* A representative loses no observation to the interruption of an earlier turn,
\* and neither does a DM, whose turns nothing interrupts.
NothingSwallowed == role # "chair" => swallowed = {}

\* The places with a batch still to be shown, and within a step, where its activation
\* has been shown.
Choosing == {"deciding", "cooling", "merged", "entering"}
InStep == {"round", "calling", "streaming", "answered", "tools", "executing", "leaving"}

InHand == CASE pc \in Choosing -> batch
            [] pc \in InStep -> Rest
            [] OTHER -> <<>>
Waiting == IF Over THEN <<>> ELSE InHand \o inbox

\* Although observations are batched, merged, taken apart and put back while others
\* come in and interrupt, the agent has one mailbox, from which only a chair loses
\* what it should have seen before it is stopped or dies (AgentInbox,
\* EventDrivenSystemAgent.step, RepresentativeAgent.step).
Mail == INSTANCE Mailbox WITH
  pending <- Waiting, stopped <- stopEvent, over <- Over

MailSpec == Mail!Spec

\* An urgent observation accepted by a representative, and any task accepted by
\* a DM, reaches a prompt unless the agent stops or dies first.
Promised == CASE role = "dm" -> Observation
              [] role = "representative" -> Urgent
              [] OTHER -> {}

ReachesPrompt ==
  \A o \in Observation :
    o \in Promised \cap Members(inbox) ~> (o \in Members(shown) \/ closed \/ Over)

\* A stop ends the agent thread, wherever it finds it: blocked in take_batch,
\* cooling down, opening a stream or inside a tool.
StopEndsAgent == stopEvent ~> Over

\* system_agent.py: a turn given up for newer state starts over with it, so no
\* observation is refused for an interruption that is over.
InterruptionPasses == swallowed = {}

\* rep_agent.py and agent-loop.md: an urgent observation interrupts the turn; the
\* cancellation it asks of the LLM never ends the agent.
CancelUnderstood == outcome # "cancelled"
=============================================================================
