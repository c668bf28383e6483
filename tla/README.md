# MUNagent, verified

MUNagent simulates a Model United Nations committee: every delegate, the chair
and the director (the DM, who decides crises and personal instructions) is an
agent in a thread of its own that talks to a language model; every venue has an
engine thread that carries out the commands of the agents; a service starts,
stops and archives the whole meeting. The program is some eleven thousand lines of
Python, and most of what can go wrong in it is an order of steps of several
threads, or a failure between two of them. This directory models those orders in
TLA+, checks them with TLC on small instances and proves the safety properties for
instances of every size with TLAPS.

Paths below are relative to the repository's `src/` directory.

## 1. The system

### 1.1 Components, their state and their operations

| Component | Source | State | Operations |
|---|---|---|---|
| Venue command queue | `scenario/venue.py` | gate `__event_processing`, `__event_queue`, `__pending_results`, `__event_failure`, the engine's thread id; one `Future` per command | `_submit_command` and the operations built on it, `_start_/_stop_/_finish_event_processing` |
| VenueEngine | `engine/venue_engine.py` | its thread, the command in hand | `start`, `stop`, `join`, one handler per kind of command, `_publish_event` |
| EventList, Event | `event/eventlist.py`, `event/event.py` | committed events in order, pending ids; status, scope, content, ballots and the claim of every event | commit, edit, verdict; drafts changed by their owner |
| Observation routing | `engine/simulator.py` | none of its own | who is notified of which change; the DM's tasks |
| Agent turn, Inbox | `agent/inbox.py`, `agent/rep_agent.py`, `agent/system_agent.py` | inbox, closed flag, turn flags `__turn_active`, `__turn_interrupted` | `notify`, `take_batch`, `merge_during`, `take_ready`, `run`, `step`, `stop` |
| LLM client | `llm/llm.py`, `llm/stream.py` | `_stop_event`, the active task and loop | `stream`, `stop` |
| Activity control, representative tools | `agent/activity.py`, `agent/rep_agent_tools.py`, `scenario/representative.py` | whether the public answer is used up; the budgets of the turn | `evaluate`, `begin_turn`, `record_tools`; the tools |
| Chair tools | `agent/chair_agent.py`, `agent/chair_tools.py` | the actions of the turn | record a vote, decide, switch phase and agenda |
| DM tools | `agent/dm_agent.py`, `agent/dm_tools.py` | the task of the turn, adjudications, publications | adjudicate, publish, move the time |
| Story clock | `scenario/scenario.py`, `condition/` | story time, events and crises waiting for it | `update_time`, `stamp` |
| Agenda | `agenda/agenda.py`, `scenario/venue.py` | current, todo and finished items | switch, add |
| Phases | `scenario/venue.py`, `PhaseSwitchEvent` | `session_phase` | `switch_phase`, `decide_switch_phase` |
| Simulator, MeetingRun | `engine/simulator.py`, `service/meeting_service.py` | engines, agent threads, stop event, outcome; state and archive of the run | `start`, `stop`, `join`, `run`, supervisor, archive |
| End conditions | `engine/end_conditions.py` | matches, judge | `check` after each commit |
| FileSystem | `filesystem/filesystem.py` | files, manifest, permissions, versions | read, write, submit |
| Memory, prompts, loading, configuration, HTTP, console | the rest | private or none | text, parsing, I/O |

### 1.2 How they interact

```
 agent threads --command--> Venue queue --> VenueEngine thread --> EventList, Agenda
      ^    (wait on a Future)                    |  listeners: phase, end condition
      |                                          v
   Inbox <-- notify, LLM.stop -- Simulator._publish_event_observation
 DM thread --update_time--> Scenario clock --due events--> every Venue
 service thread --start/stop/join--> Simulator --> all of the above
```

Agents, the clock and the end-condition monitor call the Venue and wait for the
answer. The engine calls back: listeners of the EventList run inside the commit
and `notify` runs inside the publication, both on the engine thread, and
`notify` may reach into the turn and the LLM client of another thread. Stopping
goes to all engines and all agents at once.

### 1.3 What is hard here, and what correct means

- *Commands.* A sender may time out, be told that the engine stopped, or race
  the stop and a crash. Correct: each command takes effect at most once and in
  order, each sender gets exactly one answer and "ok" only for what was done and
  announced, nobody waits on a dead engine, a clean stop drops nothing.
- *Events.* A command was legal when it was asked for, not when it is carried
  out. Correct: a verdict is final, ballots stay legal, the pending list agrees
  with the statuses, agents are told exactly of what their scope lets them see.
- *Turns.* Observations pass through four places before a prompt, while urgent
  ones interrupt turns and a stop may hit any step. Correct: each observation is
  used at most once and in order, interruptions lose nothing, little is done
  after a turn was called off, a stop always ends the thread.
- *Two-step operations.* A vote and its verdict, a decision and its audit, the
  agenda and its event, the clock and the events due, a file and its manifest.
  Correct: the second step follows unless the venue was closed, or the write
  failed, between the two, and what is left then is still legal.
- *Discussion.* Each speech sets the others off. Correct: nobody answers the same
  wave twice, and without other news the venue falls silent.
- *Lifecycle.* A start that fails half way, a stop during the start, a worker
  that dies during the stop, an end condition that matches during a stop. Correct:
  what the run says of its end is true, on disk, and does not change.

PROJECT.json lists each of these at its line under `hazards`.

## 2. Modules

| Module | What it is |
|---|---|
| `CommandService` | abstract: what a Venue promises to senders, without queue, futures, locks or engine |
| `VenueCommands` | the command path with its engine thread; implements `CommandService` |
| `VenueCommandsProofs` | its type and safety invariants, and that it implements `CommandService`, proved |
| `MeetingRecord` | abstract: the record of a venue as its members and the DM know it, without queue, ids or a moment between a change and the news of it |
| `EventLedger` | events, their list, edits and verdicts, and who is told of them; implements `MeetingRecord` |
| `EventLedgerProofs` | its type and safety invariants, and that it implements `MeetingRecord`, proved |
| `Mailbox` | abstract: what an agent owes the observations it is sent, without inbox, batch or turn |
| `AgentTurn` | one agent thread with inbox, turn and LLM client, an engine and a stopper; implements `Mailbox` |
| `AgentTurnProofs` | its type and safety invariants, and that it implements `Mailbox`, proved |
| `RunReport` | abstract: what a run says of itself to those who wait for it, and in its directory |
| `MeetingRun` | a run from start to archive: starter, operator, supervisor, archiver, engines, agents, monitor; implements `RunReport` |
| `MeetingRunProofs` | its type and safety invariants, and that it implements `RunReport`, proved |
| `StoryClock` | abstract: the one story time of all venues and what they are told when it is due, without DMs, lock or queue |
| `CrisisDirection` | the DMs of all venues and the story clock they share; implements `StoryClock` |
| `CrisisDirectionProofs` | its type and safety invariants, and that it implements `StoryClock`, proved |
| `Deliberation` | abstract: what is decided in a venue, at one stroke, without queue, tools or a moment between the two commands of a call |
| `ChairDecisions` | the chair of a venue: votes, decisions, phases, agenda; the end condition monitor against it; implements `Deliberation` |
| `ChairDecisionsProofs` | its type and safety invariants, and that it implements `Deliberation`, proved |
| `SharedFiles` | abstract: the files as representatives see them and as a crash gives them back, without manifest or order of writes |
| `FileStore` | the run directory, the file tools, submissions; failing writes and crashes; implements `SharedFiles` |
| `FileStoreProofs` | its type and safety invariants, and that it implements `SharedFiles`, proved |
| `PublicWave` | who answers whom in the phase without a chair |
| `PublicWaveProofs` | its type invariant and `OneSpeechPerWave`, proved |
| `MC*` | the instances that TLC checks |

Operators with a comment that begins with *Slip* stand for a plausible mistake
in one definition of the code. No specification uses them: they show that a
property can fail (each property has one that violates it).

### 2.1 VenueCommands

`Command` has one element per call of a Venue operation, `Submission` those that
submit an Event (several may carry the same Event object), `Recording` those
that append one to the EventList and so call its listeners.

| Code | Model |
|---|---|
| `_submit_command` under the lock: gate, reentry, claim, register, put | `SubmitRefused`, `SubmitDuplicate`, `Submit` |
| `future.result(timeout)`, its deadline, the second look, `_finish_event_processing`, the raise | `Receive`, `Expire`, `ReceiveLate`, `DecideToClose`, `CloseVenue`, `FailPending`, `RaiseTimeout` |
| `VenueEngine.run`: get, `_start_result`, commit, publish, answer | `Take`, `Skip`, `StartCommand`, `TakeEffect` or `Reject`, `Publish`, `Resolve` |
| a listener raises, submits to its own venue, or brings the engine down | `ListenerFails`, `ListenerReenters`, `Crash` |
| the engine's `finally` | `EngineFinish`, `EngineFailPending`, `EngineExit` |
| `VenueEngine.stop` | `RequestStop` |

One action is one critical section of the submission lock, one transition of a
Future, or one engine step that others can observe. The futures are failed one
by one outside the lock, as in the code, and more than one thread may be doing
it. What a command does to the EventList is only its place in `ledger`;
`accepted` is a history variable.

`CommandService` has a gate, the accepted and the applied commands and the
answers. Its `Record` may happen to a command whose sender was already told of a
stop or a timeout, since the code allows just that, but not after an error or a
refusal.

### 2.2 EventLedger

`DraftStep` is the owner of an unclaimed Event changing it directly, `AskStep`
are threads that submit, edit or decide, `EngineStep` the engine carrying the
commands out. `Editable`, `ValidEdit` and `ValidStatus` are `_require_editable`,
`_validate_edit` and `_validate_status`; they are evaluated on execution, so
`AskEdit` and `AskStatus` have no such guard (the early check of the public
setters only refuses sooner what the engine may refuse later). `Publish` is
`_publish_event` and `Simulator._publish_event_observation`: scopes, chair, DM.
`scopes` and `entered` are history variables. `ChairSees` is `_chair_can_observe` for
the kinds there are: notes, chats and system events to some of the seats, which it
keeps from the chair, are not among them. How a command travels, times out
or fails is left to `VenueCommands`; here the queue is a plain sequence.

Content is the number of its edits, and `Edit` ranges over a small set of
scopes and voters. Record events (speeches, audits) are one kind that
enters completed.

`MeetingRecord` has an Event as draft, handed in, or on record, and each seat's last
version of it. A commit and its publication are one step there: a seat knows what is
in the publication under way already (`Knows`), and so does the DM (`Given`). What is
asked, queued or rejected is a stutter. So it says that an Event enters the
record as it was handed in, that it changes only on record and before its verdict,
and that each version reaches the seats before and after the change. The chair agent
is not in it: whether it hears of a change depends on who asked for it.

### 2.3 AgentTurn

One agent of a kind (`representative`, `chair`, `dm`), with the engine thread in
`notify` and the thread that stops the simulation. `Notify`, `FlagTurn`,
`SetLLMStop`, `CancelTask` are the steps of `notify` and `LLM.stop` that other
threads can come between; `LoopTest` to `Activate` are `run` with `take_batch`,
`merge_during` and `take_ready`; `Enter` to `Finish` are `step` with its rounds
and tool calls. The answers of the activity controller and of the LLM are
nondeterministic within what the code can give. A call `LLM.stop` cancels the
task that is registered when its second half runs. Only the first call of
`stop` is modelled: later ones find everything closed already.

`Mailbox` has what waits (`Waiting`: the inbox behind what is in hand and not yet in a
prompt), what was shown, and whether the agent was told to stop or has ended. A step
shows the first part of what waits; a representative may pass over a first part without
urgent members, a chair may refuse one after something urgent has come, a stopped
agent may give up any part. All else, the whole of a turn after its prompt
included, is a stutter. It is the safety side of `ReachesPrompt`: whatever is promised
is still waiting, in its place, until it is shown.

### 2.4 MeetingRun

Every thread has a place in `at`. `StarterStep` is `MeetingRun.start` with
`Simulator.start` inside: engines one by one, each awaited; agents one by one;
the first events; the monitor. `SupervisorStep` is `_supervise` with `join`: its
rounds, its grace period, and the order in which it collects the failures of the
venues, looks at the threads and reads the errors. `RequestStop(p)` is
`_request_stop`, which any thread may be in: the flag first, then inboxes and
gates. `Archive(p)` is `persist_archive`: a snapshot under the lock, two files.
Engines, agents and the monitor are reduced to how they end: served out, with an
exception, refused by an engine that stopped, timed out, hung. Representatives,
chairs and DMs are one kind of thread.

A command is one step here (`Greet`, `Announce`) that succeeds, is refused or
times out. `Init` lets the scenario begin with venues that have ended, and run
without an LLM. `main.py` calls `stop` only after `start` has returned or raised,
so does `StopRun`; the archive `main.py` writes once more when it leaves is not
modelled. Only the monitor changes phases here: a chair that ends the session of a
venue itself is in `ChairDecisions`.

`RunReport` has the outcome, the report in the directory and the one about to be
written, and of the threads only who works, who filed an error and whether patience
was lost. Its `Settle` is one step with one look at all of that; in the code the
supervisor looks at threads, errors and venues one after the other while the others go
on. `InHand` maps the snapshots: that of the supervisor counts before that of the
archiver, as only one of them holds the archive lock. The rounds of `join`, the stop
and its ways to the threads stutter.

### 2.5 CrisisDirection

A DM goes by the name of its venue. `turn[d]` holds what `DMToolExecutor` keeps of
the task in hand and the arguments of the call under way; `record` and `told`
are the DM's own events and the due events in the EventList of each venue.

| Code | Model |
|---|---|
| the engine notifies the DM; `before_step` | `Arrive`, `TakeUp` |
| `_adjudicate_instruction`: decide, then audit, then remember | `Adjudicate`, `DecisionMade`, `AuditMade` |
| `_publish_crisis_update` | `Publish`, `CrisisMade` |
| `_advance_time`, `time_pass`, `update_time` with its loop over due events and venues | `Advance`, `TimePass`, `UpdateTime`, `DueEventMade` |
| the last answer of the model, or its last round; `after_step` | `EndTurn` |
| a command: accepted or refused, answered, timed out | `Ask` or `Refused`, `EngineStep`, `CommandTimesOut` |
| an engine that dies, or is shut by the timeout of somebody else | `EngineFails` |
| an LLM error; the stop | `LLMFails`; `RequestStop`, `StopVenue`, `Leave` |

The command path is reduced to what `VenueCommands` is checked to promise, with
the command in hand at a failure taking effect or not. The model may call the tools
in any order and with any task's outcome; calls that a guard of a tool refuses
change nothing and are left out, as are the two tools that only read. That
`time_pass` reads the clock and `update_time` writes it are separate steps, held
together by the update lock. The thread that moved the clock keeps this lock until
every venue has its due events, and gives it up on any exception, with the rest
of the due events lost: `DueEventsDelivered` therefore speaks only of a meeting in
which no venue has failed or is being stopped.

`StoryClock` has the time, all that has passed so far, and which events are still owed
to which venues: in the program, what the one DM that delivers has left (`Owed`).
Time passes only when nothing is owed, and what is told is the first of what is
owed, with the time it is then. A venue may be shut at any step, more than once; the
step may tell it the event it was about to be told, and may set the others free of
what is owed. That is how `StoryClock` says which losses the code allows: what is
owed is lost, to all venues, only with a failing or stopping venue that was next
to hear of it, never because two DMs wanted the clock. All that DMs do besides is a stutter.

### 2.6 ChairDecisions

One venue with its chair's thread and the end condition monitor, which share the
command queue.

| Code | Model |
|---|---|
| `execute`, `action_limit` | `InTurn`, `acted` |
| `_record_vote`: the VoteEvent, then the verdict | `RecordVote`, `SendVerdict` |
| `_vote_passed`, `_seat_set` and the checks on the boxes | `VotePassed`, `WellCast` |
| `_decide_resolution`, `_decide`: the status, then the audit | `DecideResolution`, `SendAudit` |
| `_switch_phase`, `PhaseSwitchEvent` | `SwitchPhase` |
| `_set_current_agenda`, `_add_agenda`, `AgendaManager` | `SetAgenda`, `AddAgenda`, `TakeUp` |
| the other tools, one event each that asks nothing of the state | `Notice`, `RequestVote` |
| the engine carries a command out and answers | `Execute` |
| `_finish_for_end_condition`, `_request_stop`, `VenueEngine.stop` | `ConditionHolds`, `RequestStop`, `CloseGate` |
| an engine that dies; the chair's own timeout | `EngineFails`, `ChairTimesOut` |

`call` holds the arguments of the call under way: `from` is the phase that the
event was built with, which may be another one when the command is carried out.
A tool that refuses its arguments changes nothing and is a step that is not
taken, as in `CrisisDirection`. What is not obvious in the code and kept: `_decide`
takes the word `pending` for a decision, leaves the status as it is and audits it;
a chair's switch that is queued behind the monitor's takes the venue out of the
end again, so that `PhaseChain` allows the chair's events after it.

`Deliberation` has no calls. A motion or resolution stands where its status says,
except that one whose decision is half done (`HalfDone`: a vote without its verdict, or
a status without its audit) stands at `pending` while the call on it is under way
and at `broken` when it is not (`Standing`); the ballots count once the vote has its
verdict (`DecidedBy`). So each decision is the one step of the second command, and its
legality is a guard: the ballots carry it, or the chair has the power. The
broken decision is the exception that the code has: `_record_vote` and `_decide`
undo nothing when the venue closes upon them. At most one is left so, and nothing is
decided, submitted or switched after it; only the end may still be announced.

### 2.7 FileStore

One action is one operation under the lock of the `FileSystem`, with the write
that fails as a parameter (`stage`): none, the content, or the manifest. A crash
between the two writes of an operation leaves the disk as a failing second write
does, so `Reopen` need only happen between operations; it is
`FileSystem(path, scenario)` on a directory that has a manifest. The program itself
always begins a new run directory: reopening is what `_load_manifest` is for and what
the tests of the file system do (`test_manifest_roundtrip`).

| Code | Model |
|---|---|
| `create_file`, `write_file`, `add_scope`, `add_owner`, `set_description` | the action of the same name, `AddOwnerRefused` for a set with somebody who may not be one |
| `_ensure_submission`, `can_submit`, `submit`, `_register` | `Submit`, `SubmitCopy`, `Submittable`, `Register` |
| the instruction or resolution is submitted, or refused | `PaperEnters`, `PaperRefused` |
| `_load_manifest` | `Reopen` |

Names matter only for being one's own and for having a `+`.
`_latest_submission` looks for the last copy with `_parse_submission_name`, whose
pattern (`filesystem/filesystem.py:39`) takes as much as it can for the owner: of a
file with a `+` in its name it finds no copy, and such a file has one version only,
the second being refused. `File.submit` and `docs/scenario-schema.md:57` promise a new
version to every file that has changed (section 6); `SeriesGoOn`, a part of
`DiskCanBeTrusted`, says for which files the promise is kept, and where it ends. The
code keys a series by the last part of the path (`filesystem/filesystem.py:241`), the
model by the file: they differ only for files in directories, of which the agents
are told to create none (`agent/rep_agent_tools.py:453`). Kept as
well: memory is changed before the disk and not changed back, except by a
registration; a creation or submission that fails after its content was written
leaves a file that blocks the name, or the next version; a refused paper leaves its
copy. `owed` is a history variable: what the answers so far have promised of a file.
A bare file name picks the first visible file of that name, which is somebody
else's perhaps; the model names files by owner and name.

`SharedFiles` has each file twice, as it is seen (`Seen`: content and access in
memory) and as it is kept (`Kept`: the file on disk, with the access of the
manifest, if it is listed). A call that is answered with ok makes what is kept like
what is seen, but not the contents that failing calls have left in memory; a call
that fails changes what is seen nevertheless, and may change the kept content. A crash
is one step: what is seen becomes what is kept.

### 2.8 PublicWave

The loop of `rep_agent.py` reduced to what `UnchairedActivityController` and the
budgets see of it: `Take`, `Evaluate`, `Merge`, `Evaluate` again, `BeginTurn`,
tools, `EndTurn`. Observations have one of two kinds, speeches of others and
anything else; only those that activate their receiver count
(`docs/agent-loop.md:76-85`). The phase is read at three places (`evaluate`,
`begin_turn`, `record_tools`) and may be switched between any two. `ahead` is a
history variable: speeches in turns with budgets less the news had or caused,
counted up to 2, one more than there may be. A tool that is answered with an error
although its command was carried out is left out: the venue is shut then.

## 3. Runs

| Run | Instance | Shows |
|---|---|---|
| `venue` | three commands, two of which submit the same Event | the safety of the command path, that it implements `CommandService`, that every sender is answered and a stop ends the engine |
| `ledger` | two Events (one instruction or resolution, one vote), two seats, two asked changes and one draft change | the safety of events, ballots, pending list, scopes and tasks, and that the venue implements `MeetingRecord` |
| `turn` | all three kinds of agent, four observations, two urgent, one to be passed over, two rounds with up to two tools | implements `Mailbox` (order, no loss of observations), little late work, progress, stop |
| `meeting` | two venues, two agents, one fault | what the final state of a run says is true and archived, and that the run implements `RunReport` |
| `meeting_live` | one venue, one agent, one fault | a stop ends the run and reaches every thread |
| `direction` | two DMs with three tasks, two due events, one fault | that the shared clock implements `StoryClock`, consequences follow verdicts, outcomes are on record, no DM waits for the clock for ever |
| `chair` | four seats, one motion, one resolution, five polls, three phases, three agenda items, a turn of three actions, one fault, all powers | votes, verdicts, decisions and audits go together, phases and agenda follow their events, and that the chair implements `Deliberation` |
| `files` | two representatives of two venues, a file each, two failing writes, one crash | the directory can be reopened and keeps what was answered, and that it implements `SharedFiles` |
| `wave` | two representatives, one speech and three actions a turn, five events other than speeches | one speech per wave, the discussion rests |
| `turn_cancel_finding`, `turn_chair_finding`, `direction_twice_finding` | small | the disagreements in section 6 |

A property of a run is often a conjunction (`CommandsHonest`, `VerdictsOnRecord`,
`FinalStateHonest`, ...) whose parts are defined and commented one by one.

Why the bounds are enough to be of interest:

- *Three commands.* One in hand, one queued behind it and one that arrives late
  is the smallest instance in which a timeout of one sender, the stop and the
  crash all concern different commands; two carry one Event so that claims
  collide, and the third is no submission. The theorems of section 5 remove the
  bound for all safety properties.
- *Ledger.* Two changes asked of the engine can both be legal when asked and
  illegal when executed (two ballot edits of one voter, a verdict and an edit),
  and an edit of the scope may be followed by another. Draft edits are bounded
  by one since they are settled at once.
- *Turn.* Four observations put one in hand, one in the inbox, one into
  the next batch and one urgent after it; two rounds of up to two calls put an
  interruption between rounds and between tools.
- *Meeting.* Two venues and two agents let one be started, told or stopped while
  the other is not. `MaxFaults` bounds exceptions, timeouts, hung turns and failed
  writes together: with one, each kind meets every other step; agents refused by
  a stopped engine are not counted, so a fault may still have consequences. The
  operator stops once (a second call finds the stop requested), and an archive
  that would write what is on disk already is left out. Liveness is checked
  on one venue and one agent, which has every kind of thread.
- *Direction.* Both DMs can move the clock, one of them with two tasks in a row, of
  which one is an instruction; resolutions may be accepted or rejected. Each move
  is of one unit, so that an event is due at the very time a move reaches, and
  two moves fall into each other. `MaxUpdates` is 1 instead of 4, the smallest number
  at which a publication can be missing, present and refused. Section 5 removes
  these bounds for all but liveness.
- *Chair.* Three actions make a vote, the switch it allows and another switch or
  decision behind it; that they fall into one turn matters only for the limit, as a
  turn leaves nothing to the next but an empty count. The polls are a tie, a majority that abstentions
  would undo, two thirds, none for or against, and a ballot of somebody who may not
  see the paper. One fault closes the venue between the two commands of a call;
  the powers of the chair are chosen at the start. Section 5 removes these bounds.
- *Files.* `InUse` has one file of each kind of name, with an owner of each
  venue; one of them exists at a time, which leaves the scopes, the owners and the
  series of the other venue. Two copies need a second version, two failing writes
  meet in one file, and a crash comes after both. Section 5 removes these bounds.
- *Wave.* Two representatives answer each other; five other events are enough for
  each to be set free twice, and for a switch of the phase into a turn and back.
  The speech limit of the program is 0 or 1.

`CHECK_DEADLOCK FALSE` is set in each run: a meeting may end, and agents and
engines then stop.

## 4. Fairness

`VenueCommands!Fairness`: a thread that waits on a Future with a timeout wakes
up at its deadline and goes on; the engine thread is only assumed to go on once
it has its stop marker ahead of it, so listeners must return only then.
`EveryCallAnswered` thus holds behind a listener that never returns. No fairness
is assumed for submitting, for stopping or for a crash.

`AgentTurn!Fairness`: the agent thread is scheduled (its LLM client has a read
timeout, tools return or raise), and so are the two callers once they are
inside `notify` or `stop`. Nobody is obliged to send an observation or to stop.

`MeetingRun!Fairness`: each thread goes on when it can, a turn that does not
hang ends (LLM and commands have timeouts), the grace period passes (strong, as
`join` comes back to it every round), and the supervisor gets the archive lock
(strong: the archiver lets go of it for `archive_interval_s`). Nobody has to stop the
run, wake an agent or let a condition match.

`CrisisDirection!Fairness`: the thread of a DM goes on, or else the engine whose
answer it waits for does; a model ends its turn, since rounds are limited. The
timeouts that the code has are not needed. Nobody has to submit, stop or fail.
The update lock needs no strong fairness: a task moves the clock finitely often.

`PublicWave!Fairness`: a representative's thread is scheduled, its cooling time
passes, and its turn ends, as it has at most `max_tool_rounds` rounds. Nobody is
obliged to say anything. `DiscussionRests` supposes that the phase without a chair
stays; that news ends is the bound `MaxNews`.

The other modules have safety properties only, for which no fairness is needed.

## 5. Proofs

### 5.1 VenueCommands

`VenueCommandsProofs` proves, for any sets of commands and Event objects and
with no other assumption than `CommandAssumption`, that the specification keeps
`TypeOK`, `CommandsHonest` and `ShutdownComplete` (each with a theorem for its
parts too), and the temporal property `FailedInQueueStaysOut`.

None of those is inductive. The inductive invariant `IInv` has six parts:

- `TypeInv`: types, and the engine holds a command exactly while it is busy
  (otherwise `ledger` could receive `None`);
- `Callers`: how the place of a sender, its answer and its future agree;
- `Places`: a command is in one place only, in the queue, in hand or behind it,
  with the state of future that fits. `AppliedOnce` rests on it: what is queued
  or newly in hand is not in the ledger;
- `Gate`: what an open gate implies: the engine lives, nothing failed, no stop
  marker. The marker is last in the queue, which is why a clean stop drains;
- `Resolvers`: `NoOrphan` with the facts that make it inductive: the pending set
  holds the unresolved only, is disjoint from what closing threads
  are failing, and is empty once there is a failure. The last gives
  `TimeoutShutsVenue`;
- `Claims`: accepted submissions claim their Event, and no two claim the same.

There is one lemma per part (`TypeStep` to `ClaimsStep`), in each one step per
action, and small lemmas on membership in a queue. `DroppedStaysOut` goes
through `Out(c)`, which every step keeps once it holds, under `IInv`.

The second half of the module proves `Spec => ServiceSpec` under the mapping written
in `VenueCommands`. Most steps stutter or are one abstract step each. The hard
case is that the abstract `Record` takes effects in the order of acceptance. This
needs `Ordered`: what is in the ledger was accepted before the command in hand,
this before what is queued, and the queue is in the order of acceptance; with
`IInv` it is inductive.

### 5.2 EventLedger

`EventLedgerProofs` proves, for any events, seats, roles and bounds that satisfy
`LedgerAssumption`, that the specification keeps `TypeOK`, `PendingListExact`,
`BallotsStayLegal`, `RightOnesTold` (`ScopeIsInformed` and `NothingLeaks`) and
`DMTaskedOnce`, and implements `MeetingRecord`. The inductive invariant consists of
`BallotsStayLegal`, `NothingLeaks`, `PendingListExact` and six more parts:

- `TypeInv`: types, those of the queue and the publication in hand included;
- `Order`: each claimed event is committed or has one submission in the queue,
  and an edit or verdict is queued behind the submission it belongs to;
- `Record`: an event is committed exactly if it is on the list, there once, and the
  publication in hand goes to agents that may see it;
- `Informed`: whoever may see a revision was told of it or is in the
  publication in hand, from which `ScopeIsInformed` follows;
- `ToldOfPast`: nobody was told of a revision that is not there;
- `Tasked`: the DM has a task exactly for the events that are due one and whose
  publication is over, each once.

`Spec => RecordSpec` needs `TypeInv`, `Order` and `Record` only. `Order` has what the head of the
queue submits handed in and not on record, and what it changes on record; the
commit then makes the new version and its news in one step (`VersionIsKnown`), after
which the publication is a stutter (`NewsIsOut`). An owner changes a draft while the
engine publishes something else, which `Record` says cannot be that draft.
`VerdictIsFinal` is derived from `MeetingRecord`, which has no step that changes what
is decided.

### 5.3 MeetingRun

`MeetingRunProofs` proves, for any venues and agents and any number of faults, that
the specification keeps `TypeOK`, `FinalStateArchived` and `FinalStateHonest`, and
implements `RunReport`. `RunAssumption` has at least one venue and one agent: `start`
refuses any other scenario (`engine/simulator.py:236-239`), and must, as `join` takes a
run without agents for one whose agents are through and stops it, before the monitor
is. The inductive invariant:

- `Roles`: where each thread can be;
- `Course`: who is there at which place of the starter, what the state of the run
  is meanwhile, and that one thread at most is archiving. With `done` set there is no
  place left from which the state is changed;
- `Findings`: what the supervisor has found stays true until it settles, and is the
  reason of the outcome it settles on. It rests on the order of `join`, threads first
  and errors second: an error is filed only by a thread that is alive;
- `Written`: when the supervisor is through, what is on disk and what anybody is
  about to write tells the end;
- `Causes`: every stop goes back to a failure, the operator, the missing LLM, or an
  end condition that all venues were told of. `Tainted` and `AllTold` do
  not go away (`BlameStays`). With the others it gives `EndedMeansAnnounced`.

There is one lemma per part, with one step per action.

`Spec => ReportSpec` is proved role by role (`WorkersReport`, `ArchiveReports`,
`OutcomeReports`), under `IInv`. The hard case is `Settle`: in `RunReport` a clean
outcome needs that nobody works and nothing is filed at that very step, while the
supervisor has looked before; `Findings` says that it is still so. `Finish` needs
`Written`: the report of a supervised run is in the directory, and whoever is about to
write another one writes the same. `DoneIsFinal` is derived from `RunReport`, where a
step that changes the outcome of a run that is done is easily seen not to exist.

### 5.4 ChairDecisions

`ChairDecisionsProofs` proves, for any seats, papers, phases, polls, items and
limits that satisfy `ChairAssumption`, that the specification keeps `TypeOK`,
`DecisionsOnRecord`, `DecisionsLegal`, `PhaseChain` and `AgendaOnRecord`, and
implements `Deliberation`. `IInv` adds to these whose commands can be in the queue (`QueueOK`: chair and monitor have one
each at most), what each place of a call knows of paper and phase (`CallOK`), where
the monitor's event can be (`MonitorOK`), that recorded votes are well cast
(`PollsOK`), and that the chair has begun no other call once a decision was left half
done (`CutShort`). `CountIsMajority` is the arithmetic apart: the products and sums of
`_vote_passed` say what the modes are called, whoever abstains.

For `Spec => DeliberationSpec` the second command of a call is the step that counts
(`PaperCommand`): `CallOK` knows at that place what the first has left, and gives the
guards of the abstract decision. Where a call is given up (`CallDropped`), by a refusal,
the death of the engine or a timeout, what was half done breaks, in the
same step as the command that may still take effect; `CutShort` says that it is the
only one (`NoneBroken`). The monitor's command is `Announce`, whatever it does to the
chair (`EndDecided`). Everything before a first command takes effect, and the first
command itself, is a stutter. `DecisionsLegal`, which a run need not check any
more, stays a theorem beside it.

### 5.5 FileStore

`FileStoreProofs` proves, for any representatives, files and contents and any
number of failing writes and crashes, that the specification keeps `TypeOK` and
`DiskCanBeTrusted`, and implements `SharedFiles`. `IInv` says what memory, manifest and
working files have in common (`Listed`), that an entry in either goes back on no answer
(`AnswersHold`; memory is needed for the next manifest, the manifest for the next
crash), that manifest, memory and disk agree about the copies (`Filed`), and that the
disk has no copy beyond them unless a write has failed (`Continued`, for
`SeriesGoOn`).

For `Spec => SharedSpec` there are three lemmas on the mapping: what becomes of `Seen`
when one entry changes (`SeenAnew`), and of `Kept` when the manifest is written
(`KeptAsSeen`) and when it is not (`KeptSame`); then one lemma per action. `Listed` is
what the mapping needs: memory and manifest know the same files, and what they know is
on disk, so that a manifest written for one file keeps the others. A crash maps to one
step since the registered copies are a prefix of those on disk (`ReopenCopies`).
`CopiesStay` is derived from `SharedFiles`.

### 5.6 PublicWave

`PublicWaveProofs` proves `TypeOK` and `OneSpeechPerWave`, for any set of
representatives. The invariant is a balance: without a chair, what a
representative is ahead is covered by the flag, or by the speech that will set it,
less the news on its way that will take the flag back; with a chair, a turn that
still has its speech owes one more.

### 5.7 AgentTurn

`AgentTurnProofs` proves, for each kind of agent, any number of observations,
whichever of them are urgent, and any limits of rounds and calls, that the
specification keeps `TypeOK`, `PromptsInOrder`, `LateWorkBounded` and
`NothingSwallowed`, and implements `Mailbox`. These rest on separate facts, so `IInv`
has four parts beside the types:

- `Order`: what was shown comes before what is in hand, and this before what is in
  the inbox, each in order. The exception is a step under way, whose activation is
  both shown and in hand; of the batch only the rest must still be to come;
- `Lateness`: no tool of a called-off turn begins but the one that had passed its
  check, and what was late leaves the turn called off to its end;
- `Refusals`: nothing interrupts a DM, and only a chair refuses what it has in hand;
- `Causes`: the inbox is closed only to stop the agent, a turn is interrupted only
  after something urgent, and an agent that has been in a turn was shown something.

For `Spec => MailSpec` what waits is read off the place of the agent (`WaitingIs`): the
batch and the inbox while it chooses, the rest and the inbox in a turn, the inbox
between. `PartDropped` says what it means that the first part goes; `Enter`,
`EnterRefused` and `PassOver` each drop one, and their guards, with `Refusals` and
`Causes`, give those of `Show`, `Refuse` and `PassOver`. `Merge`, `TakeBatch` and
`Finish` move observations from one place to the next and leave what waits as it was.
The runs check `MailSpec`; that prompts come in order (`PromptsInOrder`) is proved
from `IInv` alone.

### 5.8 CrisisDirection

`CrisisDirectionProofs` proves, for any venues, tasks and due events and any number
of failing engines and timeouts, that the specification keeps `TypeOK`, `TimeKept`
and `VerdictsOnRecord`, and implements `StoryClock`. `IInv` adds to the parts of these

- `Lock`: the update lock is held exactly by the DM that moves the clock or delivers
  what is due, and the time it has read is still the time. `MinutesAddUp` follows;
- `Telling`: nobody was told of an event that is waiting or is still to be delivered
  there; of the latter others were told at the time it is now; and what is due is
  delivered or being delivered, unless a venue has failed or was stopped. With `Lock`,
  there is nothing to be delivered once the lock is free: `DueEventsDelivered`;
- `Places`: a task is ahead of its DM, in its turn or past it, and in one place only;
- `Memory`: what `DMToolExecutor` remembers of its turn, and the place of a call
  under way, agree with the record;
- `Recorded`: a task that no DM has taken up has left no trace.

For `Spec => StorySpec` each action of the DMs is shown to be a step of `StoryClock` or a
stutter, under `IInv`. `Lock` says that the deliveries of the DM with the lock are
all that is owed, so that none is while another DM moves the clock, and that the
time this DM has read is the one it adds to. A failing engine takes the command it
has in hand with it: if that was a delivery the step is the `Shut` that gives up what is
owed, else the one that changes nothing more; of the two only one DM can be
delivering. `TimeKept`, which a run need not check any more, stays a theorem beside it.

The order in which due events are delivered (`FirstOf`) needs a least element, which
comes before none of the rest (`FirstIsNext`); that a
set of numbers has one is `LeastNat`, from the well-foundedness of `<`.

### 5.9 Model-checked only

All safety properties of all runs, type invariants, action properties and
refinements, are proved. Liveness is out of the prover's reach:
`EveryCallAnswered`, `StopEndsEngine`, `ReachesPrompt`, `StopEndsAgent`, `StopEndsRun`,
`StopReachesAll`, `DMsComeToRest` and `DiscussionRests` are checked by TLC only, on the
instances of section 3. So are the violations of section 6.

## 6. Where the code and its documents disagree

- `turn_chair_finding`: a chair whose turn was interrupted looks at that
  turn's flag before it clears it (`agent/system_agent.py:171`), and so refuses
  the urgent observation, and every later one.
- `turn_cancel_finding`: the two halves of `LLM.stop` can fall on both sides of a
  new stream; the bare cancellation then leaves `step` as an error and ends the
  agent (`agent/rep_agent.py:232`).
- `direction_twice_finding`: `docs/agent-loop.md:166` allows one move of the clock per
  task; a timeout while the due events are delivered is told to the DM's model as a
  failed call after the clock has moved, and it may move it again
  (`agent/dm_tools.py:467`).

Each of the three has a run. Other places where a document or a message says
otherwise, met while modelling; the models have what the code does, and no run of
its own is given to them:

- `docs/scenario-schema.md:57` and `filesystem/filesystem.py:261` give a file that has
  changed the next version; one with a `+` in its name is refused its second
  (`filesystem/filesystem.py:39`; `Found`, section 2.7).
- `docs/scenario-schema.md:57` and `:59` say that representatives cannot find a copy by
  its path, but only through an event they see; `_resolve_file` lets everybody name
  one by its path and bind an event to it, though not read or change it
  (`agent/rep_agent_tools.py:88`; `SubmitCopy`).
- `docs/scenario-schema.md:61` says that the tool layer does not turn an engine
  failure into a tool error; a `VenueCommandTimeoutError` becomes one
  (`agent/rep_agent_tools.py:702`).
- `VenueEngineStoppedError` says that the command was not completed
  (`scenario/venue.py:133`), but of the command in hand its sender is told so while
  the engine carries it out (`CommandService!Record`).

What else the models show, and no document plainly denies:

- A run that fails to start is done before its archive is written
  (`FailedStartDone`).
- A run that is stopped while an agent is in a tool call may count as failed,
  because the refusal by the stopped engine is filed as an error (`AgentRefused`).
- `join` can miss the failure of a venue whose closing event timed out in the
  monitor during a stop (`CommandTimesOut`), as it collects those before it looks
  at the threads.
- An end that the monitor has announced can be left by a chair's switch behind it
  (section 2.6).

## 7. Not modelled, and why

- *Prompts, contexts, message text, HTTP, console output, the assembly of LLM
  deltas*: no state that others depend on.
- *Scenario loading and configuration*: parse and validate before any thread runs.
- *Agent memory*: one table behind one lock, private to its agent's thread. Which
  entries are kept and shown is a ranking of texts, and nothing else depends on it.
- *End conditions*: that one matches, and when, is an arbitrary choice; the judge's
  prompt and the parsing of its answer are not modelled.
- *Stamps*: that an event cannot be stamped is a rejected command (`VenueCommands`);
  the story times of events other than due ones are not kept.
- *The reading tools* of all agents change nothing.

## 8. What is left

The composition of `AgentTurn` with `PublicWave`: cooling and merging are in both,
with the inbox of the one and the phases of the other.
