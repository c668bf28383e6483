------------------------------ MODULE MeetingRun ------------------------------
(***************************************************************************)
(* The life of one meeting: MeetingRun (service/meeting_service.py) starts *)
(* a Simulator (engine/simulator.py), which starts an engine thread per    *)
(* venue, a thread per agent and the end condition monitor; a supervisor   *)
(* joins them, settles the final state and archives it.                    *)
(*                                                                         *)
(* Representatives, chairs and DMs are one kind of thread here: they wait  *)
(* in their inbox, take turns, and end on a stop or with an exception.     *)
(* What they do in a turn is AgentTurn's; how a command travels and how an *)
(* engine drains is VenueCommands'.  Only the monitor changes phases here. *)
(***************************************************************************)
EXTENDS Naturals

CONSTANTS
  Venue,        \* the venues, which name their engine threads too
  Agent,        \* the agents, which name their threads too
  Starter,      \* the thread in MeetingRun.start
  Operator,     \* a thread that calls MeetingRun.stop
  Supervisor,   \* run-supervisor
  Archiver,     \* run-archive
  Monitor,      \* end-conditions
  None,
  MaxFaults     \* bound: exceptions, timeouts and failed writes in one run

Worker == Venue \cup Agent \cup {Monitor}
Thread == Worker \cup {Starter, Operator, Supervisor, Archiver}

ASSUME RunAssumption ==
  /\ Venue \cap Agent = {}
  /\ {Starter, Operator, Supervisor, Archiver, Monitor, None}
       \cap (Venue \cup Agent) = {}
  /\ LET parts == <<Starter, Operator, Supervisor, Archiver, Monitor, None>>
     IN \A i, j \in 1..6 : parts[i] = parts[j] => i = j
  /\ Venue # {} /\ Agent # {}  \* Simulator.start refuses any other scenario
  /\ MaxFaults \in Nat

VARIABLES
  at,           \* where each thread is
  stopEvent,    \* Simulator.__stop_event
  gate,         \* the gate of each venue's command queue
  closed,       \* the agents whose inbox is closed
  errors,       \* the workers with an entry in the error dictionaries
  failures,     \* the venues whose event_failure is set
  match,        \* __end_condition_match is set
  ended,        \* the venues in phase MEETING_ENDED
  greeted,      \* the venues that have their MeetingStartEvent
  announced,    \* the venues the monitor is through with
  llm,          \* agents have an LLM (--no-llm)
  runState,     \* MeetingRun.__state
  reason,       \* __manual_stop_reason is set
  done,         \* __done
  verdict,      \* what join found: some threads left, and it failed
  disk,         \* what run.json and events.jsonl say
  archiving,    \* the snapshot of the thread in persist_archive
  lost,         \* history: the supervisor could not write the archive
  faults        \* exceptions, timeouts and failed writes so far

simVars == <<stopEvent, gate, closed, errors, failures, match, ended,
             greeted, announced, llm>>
runVars == <<runState, reason, done, verdict, disk, archiving, lost>>
vars == <<at, simVars, runVars, faults>>

Final == {"ended", "stopped", "failed"}

Alive(p) == at[p] \notin {"none", "dead"}

Go(p, place) == at' = [at EXCEPT ![p] = place]

Fault == faults < MaxFaults /\ faults' = faults + 1

Snapshot == [state |-> runState, ended |-> ended]

Init ==
  /\ at = [p \in Thread |-> IF p = Starter THEN "new"
                            ELSE IF p = Operator THEN "idle" ELSE "none"]
  /\ stopEvent = FALSE
  /\ gate = [v \in Venue |-> "new"]
  /\ closed = {} /\ errors = {} /\ failures = {}
  /\ match = FALSE
  /\ ended \in {{}, Venue}
  /\ greeted = {} /\ announced = {}
  /\ llm \in BOOLEAN
  /\ runState = "starting"
  /\ reason = FALSE
  /\ done = FALSE
  /\ verdict = [left |-> FALSE, failed |-> FALSE]
  /\ disk = [state |-> "none", ended |-> {}]
  /\ archiving = [p \in Thread |-> None]
  /\ lost = FALSE
  /\ faults = 0

-----------------------------------------------------------------------------
(* Simulator._request_stop, which any thread may run, and repeat.          *)

\* Where a thread goes on after _request_stop.
AfterStop(p) ==
  IF p = Starter THEN "reaping"
  ELSE IF p = Operator THEN "idle"
  ELSE IF p = Supervisor THEN "waiting" ELSE "dead"

RaiseFlag(p) ==
  /\ at[p] = "flag"
  /\ Go(p, "stopping")
  /\ stopEvent' = TRUE
  /\ UNCHANGED <<gate, closed, errors, failures, match, ended, greeted,
                 announced, llm, runVars, faults>>

\* Slip: the engines are forgotten.
StopAgents(p) ==
  /\ at[p] = "stopping"
  /\ Go(p, AfterStop(p))
  /\ closed' = {a \in Agent : at[a] # "none"}
  /\ UNCHANGED <<stopEvent, gate, errors, failures, match, ended,
                 greeted, announced, llm, runVars, faults>>

\* agent.stop() closes the inbox of every agent there is (one that is started
\* later sees the flag); engine.stop() does nothing unless the gate is open.
StopAll(p) ==
  /\ at[p] = "stopping"
  /\ Go(p, AfterStop(p))
  /\ closed' = {a \in Agent : at[a] # "none"}
  /\ gate' = [v \in Venue |-> IF gate[v] = "open" THEN "draining" ELSE gate[v]]
  /\ UNCHANGED <<stopEvent, errors, failures, match, ended,
                 greeted, announced, llm, runVars, faults>>

RequestStop(p) ==
  RaiseFlag(p) \/ StopAll(p)

-----------------------------------------------------------------------------
(* MeetingRun.start and, inside it, Simulator.start.                       *)

\* Scenario.initialize fails, perhaps before there is a run directory: then
\* there is nothing to archive.
InitializeFails ==
  /\ at[Starter] = "new"
  /\ Fault
  /\ runState' = "failed"
  /\ \E dir \in BOOLEAN :
       /\ Go(Starter, IF dir THEN "failed" ELSE "dirless")
       /\ done' = ~dir
  /\ UNCHANGED <<simVars, lost, reason, verdict, disk, archiving>>

Initialize ==
  /\ at[Starter] = "new"
  /\ Go(Starter, "venues")
  /\ stopEvent' = FALSE
  /\ UNCHANGED <<gate, closed, errors, failures, match, ended, greeted,
                 announced, llm, runVars, faults>>

\* _start_venue_thread: the engines are started one after the other, each
\* awaited until its gate is open.
SpawnEngine(v) ==
  /\ at[Starter] = "venues"
  /\ at[v] = "none"
  /\ \A w \in Venue : at[w] # "opening"
  /\ Go(v, "opening")
  /\ UNCHANGED <<simVars, runVars, faults>>

EnginesStarted ==
  /\ at[Starter] = "venues"
  /\ \A v \in Venue : at[v] \notin {"none", "opening"}
  /\ Go(Starter, "agents")
  /\ UNCHANGED <<simVars, runVars, faults>>

SpawnAgent(a) ==
  /\ at[Starter] = "agents"
  /\ at[a] = "none"
  /\ Go(a, "looping")
  /\ UNCHANGED <<simVars, runVars, faults>>

AgentsStarted ==
  /\ at[Starter] = "agents"
  /\ \A a \in Agent : at[a] # "none"
  /\ Go(Starter, IF stopEvent THEN "begin" ELSE "greeting")
  /\ UNCHANGED <<simVars, runVars, faults>>

\* _submit_startup_events; a venue whose meeting has ended gets none.
Greet(v) ==
  /\ at[Starter] = "greeting"
  /\ v \notin greeted \cup ended
  /\ IF gate[v] = "open"
       THEN greeted' = greeted \cup {v} /\ UNCHANGED at
       ELSE Go(Starter, "flag") /\ UNCHANGED greeted
  /\ UNCHANGED <<stopEvent, gate, closed, errors, failures, match,
                 ended, announced, llm, runVars, faults>>

StartMonitor ==
  /\ at[Starter] = "greeting"
  /\ Venue \subseteq greeted \cup ended
  /\ at' = [at EXCEPT ![Starter] = "begin", ![Monitor] = "watching"]
  /\ UNCHANGED <<simVars, runVars, faults>>

\* An LLM factory raises, an engine does not come up in time, Ctrl-C.
StartFails ==
  /\ at[Starter] \in {"venues", "agents", "greeting"}
  /\ Fault
  /\ Go(Starter, "flag")
  /\ UNCHANGED <<simVars, runVars>>

\* _join_started_threads waits for a while, and start raises.
StartRaises ==
  /\ at[Starter] = "reaping"
  /\ runState' = "failed"
  /\ Go(Starter, "failed")
  /\ UNCHANGED <<simVars, lost, reason, done, verdict, disk, archiving, faults>>

FailedStartDone ==
  /\ at[Starter] = "failed"
  /\ done' = TRUE
  /\ Go(Starter, "lastArchive")
  /\ UNCHANGED <<simVars, lost, runState, reason, verdict, disk, archiving,
                 faults>>

Begin ==
  /\ at[Starter] = "begin"
  /\ runState' = "running"
  /\ Go(Starter, "firstArchive")
  /\ UNCHANGED <<simVars, lost, reason, done, verdict, disk, archiving, faults>>

StarterStep ==
  \/ InitializeFails \/ Initialize \/ EnginesStarted \/ AgentsStarted
  \/ StartMonitor \/ StartFails \/ StartRaises \/ FailedStartDone \/ Begin
  \/ \E v \in Venue : SpawnEngine(v) \/ Greet(v)
  \/ \E a \in Agent : SpawnAgent(a)
  \/ RequestStop(Starter)

-----------------------------------------------------------------------------
(* persist_archive: one thread at a time takes a snapshot and writes it.   *)

Archiving(p) == at[p] \in {"firstArchive", "lastArchive", "archiving"}

\* Slip: the snapshot does not wait for the thread that is writing.
BeginUnlocked(p) ==
  /\ Archiving(p)
  /\ archiving' = [archiving EXCEPT ![p] = Snapshot]
  /\ UNCHANGED <<at, simVars, lost, runState, reason, done, verdict, disk,
                 faults>>

BeginArchive(p) ==
  /\ Archiving(p)
  /\ \A q \in Thread : archiving[q] = None
  /\ archiving' = [archiving EXCEPT ![p] = Snapshot]
  /\ UNCHANGED <<at, simVars, lost, runState, reason, done, verdict, disk,
                 faults>>

\* The first archive of a run is followed by the start of the run's own threads.
Archived(p) ==
  at' = [q \in Thread |->
           IF at[p] = "firstArchive"
             THEN IF q = p THEN "over"
                  ELSE IF q = Supervisor THEN "joining"
                  ELSE IF q = Archiver THEN "resting" ELSE at[q]
           ELSE IF q # p THEN at[q]
           ELSE IF p = Supervisor THEN "finishing"
           ELSE IF at[p] = "archiving" THEN "resting" ELSE "dead"]

EndArchive(p) ==
  /\ archiving[p] # None
  /\ disk' = archiving[p]
  /\ archiving' = [archiving EXCEPT ![p] = None]
  /\ Archived(p)
  /\ UNCHANGED <<simVars, lost, runState, reason, done, verdict, faults>>

\* Of the two files the first may have been written.  The supervisor goes on
\* with a failed run; other threads end with the exception.
ArchiveFails(p) ==
  /\ archiving[p] # None
  /\ Fault
  /\ disk' \in {disk, [disk EXCEPT !.state = archiving[p].state]}
  /\ archiving' = [archiving EXCEPT ![p] = None]
  /\ Go(p, IF p = Supervisor THEN "finishing" ELSE "dead")
  /\ runState' = IF p = Supervisor THEN "failed" ELSE runState
  /\ lost' = (lost \/ p = Supervisor)
  /\ UNCHANGED <<simVars, reason, done, verdict>>

Archive(p) == BeginArchive(p) \/ EndArchive(p) \/ ArchiveFails(p)

\* _archive_loop: every interval, and once more when the run is done.  (Bound: an
\* archive that would write what the disk says already is left out.)
ArchiverRests ==
  /\ at[Archiver] = "resting"
  /\ done \/ disk # Snapshot
  /\ Go(Archiver, IF done THEN "lastArchive" ELSE "archiving")
  /\ UNCHANGED <<simVars, runVars, faults>>

-----------------------------------------------------------------------------
(* MeetingRun.stop.                                                        *)

\* (Bound: called once; a second call finds the stop requested, or about to be.)
StopRun ==
  /\ at[Operator] = "idle" /\ ~reason
  /\ at[Starter] \in {"over", "dead"}
  /\ runState \notin Final
  /\ reason' = TRUE
  /\ Go(Operator, "asking")
  /\ UNCHANGED <<simVars, lost, runState, done, verdict, disk, archiving, faults>>

AskSimulator ==
  /\ at[Operator] = "asking"
  /\ Go(Operator, IF stopEvent THEN "idle" ELSE "flag")
  /\ UNCHANGED <<simVars, runVars, faults>>

-----------------------------------------------------------------------------
(* Simulator.join and MeetingRun._supervise.                               *)

AliveThreads == {w \in Worker : Alive(w)}

\* One round of the loop of join: failures of the venues are collected, and an
\* error or the end of all agents is a reason to request the stop, again if
\* need be.
JoinRound ==
  /\ at[Supervisor] = "joining"
  /\ AliveThreads # {}
  /\ errors' = errors \cup failures
  /\ Go(Supervisor, IF errors' # {} \/ \A a \in Agent : ~Alive(a)
                      THEN "flag" ELSE "waiting")
  /\ UNCHANGED <<stopEvent, gate, closed, failures, match, ended,
                 greeted, announced, llm, runVars, faults>>

JoinAgain ==
  /\ at[Supervisor] = "waiting"
  /\ Go(Supervisor, "joining")
  /\ UNCHANGED <<simVars, runVars, faults>>

\* Slip: the supervisor waits for the threads however long it takes.
WaitForEver == FALSE /\ UNCHANGED vars

\* shutdown_grace_s has passed since the stop was seen.
GraceOver ==
  /\ at[Supervisor] = "waiting"
  /\ stopEvent
  /\ Go(Supervisor, "counting")
  /\ UNCHANGED <<simVars, runVars, faults>>

AllJoined ==
  /\ at[Supervisor] = "joining"
  /\ AliveThreads = {}
  /\ Go(Supervisor, "counting")
  /\ UNCHANGED <<simVars, runVars, faults>>

CollectLast ==
  /\ at[Supervisor] = "counting"
  /\ errors' = errors \cup failures
  /\ Go(Supervisor, "listing threads")
  /\ UNCHANGED <<stopEvent, gate, closed, failures, match, ended,
                 greeted, announced, llm, runVars, faults>>

LookAtThreads ==
  /\ at[Supervisor] = "listing threads"
  /\ verdict' = [verdict EXCEPT !.left = AliveThreads # {}]
  /\ Go(Supervisor, "reading errors")
  /\ UNCHANGED <<simVars, lost, runState, reason, done, disk, archiving, faults>>

\* Slip: the monitor's error is forgotten.
ReadRoleErrors ==
  /\ at[Supervisor] = "reading errors"
  /\ verdict' = [verdict EXCEPT !.failed = verdict.left \/ errors \ {Monitor} # {}]
  /\ Go(Supervisor, "settling")
  /\ UNCHANGED <<simVars, lost, runState, reason, done, disk, archiving, faults>>

ReadErrors ==
  /\ at[Supervisor] = "reading errors"
  /\ verdict' = [verdict EXCEPT !.failed = verdict.left \/ errors # {}]
  /\ Go(Supervisor, "settling")
  /\ UNCHANGED <<simVars, lost, runState, reason, done, disk, archiving, faults>>

\* An end condition comes before the operator, a failure before both.
Outcome ==
  IF verdict.failed THEN "failed"
  ELSE IF match \/ ~reason THEN "ended" ELSE "stopped"

\* Slip: the run is done when its state is settled.
SettleDone ==
  /\ at[Supervisor] = "settling"
  /\ runState' = Outcome
  /\ done' = TRUE
  /\ Go(Supervisor, "archiving")
  /\ UNCHANGED <<simVars, lost, reason, verdict, disk, archiving, faults>>

Settle ==
  /\ at[Supervisor] = "settling"
  /\ runState' = Outcome
  /\ Go(Supervisor, "archiving")
  /\ UNCHANGED <<simVars, lost, reason, done, verdict, disk, archiving, faults>>

SupervisorDone ==
  /\ at[Supervisor] = "finishing"
  /\ done' = TRUE
  /\ Go(Supervisor, "dead")
  /\ UNCHANGED <<simVars, lost, runState, reason, verdict, disk, archiving,
                 faults>>

SupervisorStep ==
  \/ JoinRound \/ JoinAgain \/ GraceOver \/ AllJoined \/ CollectLast
  \/ LookAtThreads \/ ReadErrors \/ Settle \/ SupervisorDone
  \/ RequestStop(Supervisor) \/ Archive(Supervisor)

-----------------------------------------------------------------------------
(* The workers.                                                            *)

\* _run_venue, _run_agent, _run_end_condition_monitor: the exception is filed
\* before the stop is requested.
Raise(w) ==
  /\ errors' = errors \cup {w}
  /\ Go(w, "flag")

\* Somebody waits for a command of the venue.
InUse(v) ==
  \/ \E a \in Agent : at[a] = "busy"
  \/ at[Starter] = "greeting" \/ at[Monitor] = "announcing"

EngineOpens(v) ==
  /\ at[v] = "opening"
  /\ Go(v, "serving")
  /\ gate' = [gate EXCEPT ![v] = "open"]
  /\ UNCHANGED <<stopEvent, closed, errors, failures, match, ended,
                 greeted, announced, llm, runVars, faults>>

\* Slip: the venue is not shut.
CrashQuietly(v) ==
  /\ at[v] = "serving"
  /\ gate[v] \in {"open", "draining"}
  /\ InUse(v)
  /\ Fault
  /\ failures' = failures \cup {v}
  /\ Raise(v)
  /\ UNCHANGED <<stopEvent, gate, closed, match, ended, greeted, announced,
                 llm, runVars>>

EngineCrashes(v) ==
  /\ at[v] = "serving"
  /\ gate[v] \in {"open", "draining"}
  /\ InUse(v)
  /\ Fault
  /\ gate' = [gate EXCEPT ![v] = "failed"]
  /\ failures' = failures \cup {v}
  /\ Raise(v)
  /\ UNCHANGED <<stopEvent, closed, match, ended, greeted, announced,
                 llm, runVars>>

\* Whoever waited too long for a command shuts the venue, whose engine will
\* find its marker, and gets the exception; the monitor drops it if a stop is
\* under way.
CommandTimesOut(v) ==
  /\ at[v] = "serving"
  /\ gate[v] \in {"open", "draining"}
  /\ Fault
  /\ gate' = [gate EXCEPT ![v] = "failed"]
  /\ failures' = failures \cup {v}
  /\ \/ \E a \in Agent : at[a] = "busy" /\ Raise(a) /\ UNCHANGED announced
     \/ /\ at[Starter] = "greeting" /\ v \notin greeted \cup ended
        /\ Go(Starter, "flag")
        /\ UNCHANGED <<errors, announced>>
     \/ /\ at[Monitor] = "announcing" /\ v \notin announced \cup ended
        /\ IF stopEvent
             THEN announced' = announced \cup {v} /\ UNCHANGED <<at, errors>>
             ELSE Raise(Monitor) /\ UNCHANGED announced
  /\ UNCHANGED <<stopEvent, closed, match, ended, greeted, llm, runVars>>

EngineEnds(v) ==
  /\ at[v] = "serving"
  /\ gate[v] \in {"draining", "failed"}
  /\ Go(v, "dead")
  /\ UNCHANGED <<simVars, runVars, faults>>

EngineStep(v) ==
  \/ EngineOpens(v) \/ EngineCrashes(v) \/ CommandTimesOut(v) \/ EngineEnds(v)
  \/ RequestStop(v)

\* An agent without an LLM returns at once.
AgentLoops(a) ==
  /\ at[a] = "looping"
  /\ Go(a, IF stopEvent \/ ~llm THEN "dead" ELSE "waiting")
  /\ UNCHANGED <<simVars, runVars, faults>>

AgentWakes(a) ==
  /\ at[a] = "waiting"
  /\ a \notin closed
  /\ Go(a, "busy")
  /\ UNCHANGED <<simVars, runVars, faults>>

AgentReturns(a) ==
  /\ at[a] = "waiting"
  /\ a \in closed
  /\ Go(a, "dead")
  /\ UNCHANGED <<simVars, runVars, faults>>

\* The turn is over, or it ends with AgentStoppedError, which is no error.
AgentRests(a) ==
  /\ at[a] = "busy"
  /\ Go(a, IF stopEvent THEN "dead" ELSE "looping")
  /\ UNCHANGED <<simVars, runVars, faults>>

\* VenueEngineStoppedError comes out of the turn and is an error, stop or not.
AgentRefused(a) ==
  /\ at[a] = "busy"
  /\ \E v \in Venue : gate[v] # "open"
  /\ Raise(a)
  /\ UNCHANGED <<stopEvent, gate, closed, failures, match, ended,
                 greeted, announced, llm, runVars, faults>>

AgentFails(a) ==
  /\ at[a] = "busy"
  /\ Fault
  /\ Raise(a)
  /\ UNCHANGED <<stopEvent, gate, closed, failures, match, ended,
                 greeted, announced, llm, runVars>>

\* The turn never ends: a call of the agent's does not come back.
AgentHangs(a) ==
  /\ at[a] = "busy"
  /\ Fault
  /\ Go(a, "hung")
  /\ UNCHANGED <<simVars, runVars>>

AgentProgress(a) ==
  \/ AgentLoops(a) \/ AgentReturns(a) \/ AgentRests(a) \/ AgentRefused(a)
  \/ AgentFails(a) \/ RequestStop(a)

MonitorLeaves ==
  /\ at[Monitor] = "watching"
  /\ stopEvent
  /\ Go(Monitor, "dead")
  /\ UNCHANGED <<simVars, runVars, faults>>

Match ==
  /\ at[Monitor] = "watching"
  /\ ~stopEvent
  /\ match' = TRUE
  /\ Go(Monitor, "announcing")
  /\ UNCHANGED <<stopEvent, gate, closed, errors, failures, ended,
                 greeted, announced, llm, runVars, faults>>

Announce(v) ==
  /\ at[Monitor] = "announcing"
  /\ v \notin announced
  /\ v \in ended \/ gate[v] = "open"
  /\ announced' = announced \cup {v}
  /\ ended' = ended \cup {v}
  /\ UNCHANGED <<at, stopEvent, gate, closed, errors, failures, match,
                 greeted, llm, runVars, faults>>

\* The venue refuses: with a stop under way the next venue is tried.
AnnounceRefused(v) ==
  /\ at[Monitor] = "announcing"
  /\ v \notin announced \cup ended
  /\ gate[v] # "open"
  /\ IF stopEvent
       THEN announced' = announced \cup {v} /\ UNCHANGED <<at, errors>>
       ELSE Raise(Monitor) /\ UNCHANGED announced
  /\ UNCHANGED <<stopEvent, gate, closed, failures, match, ended,
                 greeted, llm, runVars, faults>>

AllAnnounced ==
  /\ at[Monitor] = "announcing"
  /\ announced = Venue
  /\ Go(Monitor, "flag")
  /\ UNCHANGED <<simVars, runVars, faults>>

MonitorFails ==
  /\ at[Monitor] = "watching"
  /\ Fault
  /\ Raise(Monitor)
  /\ UNCHANGED <<stopEvent, gate, closed, failures, match, ended,
                 greeted, announced, llm, runVars>>

MonitorStep ==
  \/ MonitorLeaves \/ Match \/ AllAnnounced \/ MonitorFails
  \/ \E v \in Venue : Announce(v) \/ AnnounceRefused(v)
  \/ RequestStop(Monitor)

-----------------------------------------------------------------------------
ArchiverStep == ArchiverRests \/ Archive(Archiver)

OperatorStep == AskSimulator \/ RequestStop(Operator)

Next ==
  \/ StarterStep \/ Archive(Starter)
  \/ StopRun \/ OperatorStep
  \/ SupervisorStep
  \/ ArchiverStep
  \/ MonitorStep
  \/ \E v \in Venue : EngineStep(v)
  \/ \E a \in Agent : AgentWakes(a) \/ AgentHangs(a) \/ AgentProgress(a)

Spec == Init /\ [][Next]_vars

\* Threads that have something to do go on, and a turn that does not hang ends.
\* Time passes for the supervisor, and the lock of the archive, which the
\* archiver lets go for archive_interval_s, comes to it.  Nobody has to stop the
\* run, and no agent has to be woken.
Fairness ==
  /\ WF_vars(StarterStep \/ Archive(Starter))
  /\ WF_vars(OperatorStep)
  /\ WF_vars(SupervisorStep)
  /\ SF_vars(GraceOver)
  /\ SF_vars(BeginArchive(Supervisor))
  /\ WF_vars(ArchiverStep)
  /\ WF_vars(MonitorStep)
  /\ \A v \in Venue : WF_vars(EngineStep(v))
  /\ \A a \in Agent : WF_vars(AgentProgress(a))

FairSpec == Spec /\ Fairness

-----------------------------------------------------------------------------
(* Properties.                                                             *)

Place == {"none", "dead", "flag", "stopping",
          "new", "dirless", "venues", "agents", "greeting", "reaping", "failed",
          "begin", "firstArchive", "lastArchive", "over",
          "idle", "asking", "joining", "waiting", "counting", "listing threads",
          "reading errors", "settling", "archiving", "finishing", "resting",
          "opening", "serving", "looping", "busy", "hung", "watching", "announcing"}

Files == [state : {"none", "starting", "running"} \cup Final, ended : SUBSET Venue]

\* Every variable stays within the values the code can give it, and a venue has
\* an event_failure exactly if its gate was shut for it.
TypeOK ==
  /\ at \in [Thread -> Place]
  /\ stopEvent \in BOOLEAN /\ match \in BOOLEAN /\ llm \in BOOLEAN
  /\ reason \in BOOLEAN /\ done \in BOOLEAN
  /\ gate \in [Venue -> {"new", "open", "draining", "failed"}]
  /\ closed \subseteq Agent
  /\ errors \subseteq Worker
  /\ failures = {v \in Venue : gate[v] = "failed"} /\ ended \subseteq Venue
  /\ greeted \subseteq Venue /\ announced \subseteq Venue
  /\ runState \in {"starting", "running"} \cup Final
  /\ lost \in BOOLEAN
  /\ verdict \in [left : BOOLEAN, failed : BOOLEAN]
  /\ disk \in Files
  /\ archiving \in [Thread -> Files \cup {None}]
  /\ faults \in 0..MaxFaults

\* A run that has settled without a failure has left no thread behind: engines,
\* agents and monitor are over (Simulator.join).
NoStragglers ==
  runState \in {"ended", "stopped"} => \A w \in Worker : ~Alive(w)

\* An exception that ended a worker fails the run, however late it was raised
\* (the order in which Simulator.join looks at threads and errors).
NoFailureHidden == runState \in {"ended", "stopped"} => errors = {}

\* When a supervised run is done, its directory holds the final state and the
\* final phases, whatever the archive thread is writing at the time, unless a
\* write failed (MeetingRun._supervise, persist_archive).
FinalStateArchived ==
  done /\ at[Supervisor] = "dead" /\ ~lost =>
    /\ disk.state = runState
    /\ runState \in {"ended", "stopped"} => disk.ended = ended

\* A run that ended by an end condition has told every venue so, unless the
\* operator's stop or the end of all agents came between
\* (Simulator._finish_for_end_condition).
EndedMeansAnnounced ==
  runState = "ended" /\ match /\ llm /\ ~reason => ended = Venue

\* What a run says of its end is true: no thread is left, nothing failed, and the
\* venues know.
FinalStateHonest == NoStragglers /\ NoFailureHidden /\ EndedMeansAnnounced

\* What MeetingRun.wait() reported stays: a run that is done keeps its state.
DoneIsFinal == [][done => runState' = runState /\ done']_vars

\* The report about to be written: these threads write it, one at a time.
InHand ==
  LET writing == {p \in {Starter, Supervisor, Archiver} : archiving[p] # None}
  IN IF writing = {} THEN None ELSE archiving[CHOOSE p \in writing : TRUE]

\* What a run reports to those who wait for it and to those who read its directory
\* is an outcome settled at once, although the supervisor puts it together in
\* several steps while threads end, errors are filed and others write
\* (Simulator.join, MeetingRun._supervise, persist_archive).
Report == INSTANCE RunReport WITH
  state <- runState, working <- AliveThreads, overdue <- verdict.left,
  asked <- reason, matched <- match, draft <- InHand, written <- disk,
  supervised <- at[Starter] = "over"

ReportSpec == Report!Spec

\* Once the run is under way, a stop by anybody leads to its end, even if an
\* agent never comes back from its turn (MeetingRun.stop, Simulator.join).
StopEndsRun == at[Starter] = "over" /\ (stopEvent \/ reason) ~> done

\* A stop reaches every thread of a started run that does not hang, those too
\* that were not there yet when it was asked for (Simulator._request_stop, join).
StopReachesAll ==
  at[Starter] = "over" /\ stopEvent ~> \A w \in Worker : Alive(w) => at[w] = "hung"
=============================================================================
