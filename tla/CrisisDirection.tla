--------------------------- MODULE CrisisDirection ---------------------------
(***************************************************************************)
(* The DMs of all venues (agent/dm_agent.py, agent/dm_tools.py) and the    *)
(* story clock they share (scenario/scenario.py).  A DM takes up one       *)
(* instruction or decided resolution at a time; its model calls tools in   *)
(* any order: decide an instruction, publish crisis updates, move the      *)
(* clock.  Whoever moves the clock submits the events that are due to      *)
(* every venue, one command after the other, while others wait.            *)
(*                                                                         *)
(* A venue is what VenueCommands promises: an accepted command is carried  *)
(* out, or its sender learns of the failure, and of the commands at hand   *)
(* when a venue fails one may still take effect.                           *)
(***************************************************************************)
EXTENDS Naturals, Sequences, Functions

CONSTANTS
  Venues,       \* Scenario.venues, in order; a DM goes by the name of its venue
  Task,         \* formal submissions
  Instruction,  \* those that are instructions, the others are resolutions
  VenueOf,      \* the venue of each task
  Pool,         \* the time events of Scenario.event_pool, in order
  Due,          \* the story time of each, the start being 0
  Minutes,      \* bound: by how much a tool call moves the clock
  MaxUpdates,   \* DMToolExecutor.max_updates_per_task
  MaxFaults,    \* bound: failing engines and timeouts in one run
  None

Venue == {Venues[i] : i \in 1..Len(Venues)}
PullUp == {Pool[i] : i \in 1..Len(Pool)}

ASSUME DirectionAssumption ==
  /\ Venues \in Seq(Venue) /\ Venues # <<>> /\ IsInjective(Venues)
  /\ Pool \in Seq(PullUp) /\ IsInjective(Pool)
  /\ Instruction \subseteq Task
  /\ VenueOf \in [Task -> Venue]
  /\ Due \in [PullUp -> Nat]
  /\ Minutes \subseteq Nat \ {0}
  /\ MaxUpdates \in Nat \ {0} /\ MaxFaults \in Nat
  /\ None \notin Venue \cup Task

VARIABLES
  clock,        \* Scenario.__time
  pullups,      \* Scenario.__pullup_events
  holder,       \* the DM that holds __time_update_lock
  gate,         \* the gate of each venue's command queue
  asked,        \* the DMs waiting for the answer to an accepted command
  status,       \* the status of each task's event
  record,       \* the audits and crisis updates in each venue's EventList
  told,         \* the due events in each venue's EventList
  at,           \* where each DM is
  turn,         \* the turn of each DM
  inbox,        \* the tasks in each DM's inbox
  processed,    \* the tasks with an outcome
  stopping,     \* the stop event
  moves,        \* history: for which task the clock was moved, by how much, to when
  faults        \* failing engines and timeouts so far

clockVars == <<clock, pullups, moves>>
venueVars == <<gate, status, record, told>>
vars == <<clockVars, venueVars, holder, asked, at, turn, inbox, processed,
          stopping, faults>>

\* What a DM keeps during a turn: its task, the answers it remembers of its
\* tools, and the arguments of the call under way.
NoTurn == [task |-> None, verdict |-> None, adjudicated |-> FALSE,
           published |-> 0, advanced |-> FALSE,
           minutes |-> 0, base |-> 0, left |-> {}]

Init ==
  /\ clock = 0
  /\ pullups = PullUp
  /\ holder = None
  /\ gate = [v \in Venue |-> "open"]
  /\ asked = {}
  /\ status = [t \in Task |-> "none"]
  /\ record = [v \in Venue |-> <<>>]
  /\ told = [v \in Venue |-> <<>>]
  /\ at = [d \in Venue |-> "waiting"]
  /\ turn = [d \in Venue |-> NoTurn]
  /\ inbox = [d \in Venue |-> <<>>]
  /\ processed = {}
  /\ stopping = FALSE
  /\ moves = <<>>
  /\ faults = 0

Fault == faults < MaxFaults /\ faults' = faults + 1

Go(d, place) == at' = [at EXCEPT ![d] = place]

-----------------------------------------------------------------------------
(* How tool calls and turns end.                                           *)

\* Slip: the update lock is released only after a call that succeeds.
KeepLock(D) == UNCHANGED holder

\* "with __time_update_lock" lets it go whatever happens.
Release(D) == holder' = IF holder \in D THEN None ELSE holder

\* The calls of the DMs in Out end with an exception that ends their threads,
\* which requests the stop; those of Back with one that the model is told of.
Give(Out, Back) ==
  /\ Release(Out \cup Back)
  /\ asked' = asked \ (Out \cup Back)
  /\ at' = [d \in Venue |-> IF d \in Out THEN "dead"
                            ELSE IF d \in Back THEN "turn" ELSE at[d]]
  /\ turn' = [d \in Venue |->
                IF d \in Out THEN NoTurn
                ELSE IF d \in Back THEN [turn[d] EXCEPT !.left = {},
                                           !.minutes = 0, !.base = 0,
                                           !.verdict = None]
                ELSE turn[d]]
  /\ stopping' = (stopping \/ Out # {})

Calls == {"deciding", "auditing", "publishing", "delivering"}

\* Where e is in a sequence without duplicates.
Position(seq, e) == CHOOSE i \in 1..Len(seq) : seq[i] = e

\* The due events are delivered in the order of the list, each to every venue in
\* turn.
FirstOf(left) ==
  CHOOSE x \in left : \A y \in left :
    \/ Position(Pool, x[1]) < Position(Pool, y[1])
    \/ x[1] = y[1] /\ Position(Venues, x[2]) <= Position(Venues, y[2])

\* The venue that the command of d is for.
Target(d) == IF at[d] = "delivering" THEN FirstOf(turn[d].left)[2] ELSE d

TakesEffect(d) ==
  LET t == turn[d].task IN
  /\ status' = IF at[d] = "deciding"
                 THEN [status EXCEPT ![t] = turn[d].verdict] ELSE status
  /\ record' = IF at[d] = "auditing"
                 THEN [record EXCEPT ![d] = Append(@, <<"audit", t>>)]
               ELSE IF at[d] = "publishing"
                 THEN [record EXCEPT ![d] = Append(@, <<"crisis", t>>)]
               ELSE record
  /\ told' = IF at[d] = "delivering"
               THEN [told EXCEPT ![Target(d)] =
                       Append(@, <<FirstOf(turn[d].left)[1], clock>>)]
             ELSE told

Senders(v) == {d \in asked : Target(d) = v}

\* The command in hand may still take effect, the others do not.
Shut(v) ==
  /\ gate' = [gate EXCEPT ![v] = "failed"]
  /\ \/ UNCHANGED <<status, record, told>>
     \/ \E d \in Senders(v) : TakesEffect(d)

\* The engine dies, or a command of somebody else's times out.
EngineFails(v) ==
  /\ gate[v] # "failed"
  /\ Fault
  /\ Shut(v)
  /\ Give(Senders(v), {})
  /\ UNCHANGED <<clockVars, inbox, processed>>

\* VenueCommandTimeoutError is a tool error to DMToolExecutor.execute, unlike
\* the VenueEngineStoppedError that other senders get.
CommandTimesOut(d) ==
  /\ d \in asked
  /\ Fault
  /\ Shut(Target(d))
  /\ Give(Senders(Target(d)) \ {d}, {d})
  /\ UNCHANGED <<clockVars, inbox, processed>>

\* _submit_command: accepted, or refused with VenueEngineStoppedError.
Ask(d) ==
  /\ at[d] \in Calls
  /\ d \notin asked
  /\ gate[Target(d)] = "open"
  /\ asked' = asked \cup {d}
  /\ UNCHANGED <<clockVars, venueVars, holder, at, turn, inbox, processed,
                 stopping, faults>>

Refused(d) ==
  /\ at[d] \in Calls
  /\ d \notin asked
  /\ gate[Target(d)] # "open"
  /\ Give({d}, {})
  /\ UNCHANGED <<clockVars, venueVars, inbox, processed, faults>>

-----------------------------------------------------------------------------
(* Tasks and turns.                                                        *)

\* An instruction is created, a resolution decided; the engine notifies the DM.
Arrive(t) ==
  /\ status[t] = "none"
  /\ gate[VenueOf[t]] = "open"
  /\ \E s \in IF t \in Instruction THEN {"pending"} ELSE {"accepted", "rejected"} :
       status' = [status EXCEPT ![t] = s]
  /\ inbox' = [inbox EXCEPT ![VenueOf[t]] =
                 IF stopping THEN @ ELSE Append(@, t)]
  /\ UNCHANGED <<clockVars, gate, record, told, holder, asked, at, turn,
                 processed, stopping, faults>>

\* before_step: an instruction that is not pending any more ends the thread.
TakeUp(d) ==
  /\ at[d] = "waiting"
  /\ inbox[d] # <<>>
  /\ ~stopping
  /\ LET t == Head(inbox[d]) IN
     IF t \in Instruction /\ status[t] # "pending"
       THEN Go(d, "dead") /\ stopping' = TRUE /\ UNCHANGED turn
       ELSE /\ Go(d, "turn")
            /\ turn' = [turn EXCEPT ![d] = [NoTurn EXCEPT !.task = t]]
            /\ UNCHANGED stopping
  /\ inbox' = [inbox EXCEPT ![d] = Tail(@)]
  /\ UNCHANGED <<clockVars, venueVars, holder, asked, processed, faults>>

\* after_step demands a decision of an instruction, and a publication unless
\* the resolution was rejected.
Finished(d) ==
  LET t == turn[d].task IN
  /\ t \in Instruction => turn[d].adjudicated
  /\ t \in Instruction \/ status[t] = "accepted" => turn[d].published > 0

\* Slip: the task stays bound.
EndTurnBound(d) ==
  /\ at[d] = "turn"
  /\ ~stopping
  /\ Finished(d)
  /\ processed' = processed \cup {turn[d].task}
  /\ Go(d, "waiting")
  /\ UNCHANGED <<clockVars, venueVars, holder, asked, turn, inbox, stopping, faults>>

\* The model is through, or has used up its rounds.
EndTurn(d) ==
  /\ at[d] = "turn"
  /\ ~stopping
  /\ turn' = [turn EXCEPT ![d] = NoTurn]
  /\ IF Finished(d)
       THEN /\ processed' = processed \cup {turn[d].task}
            /\ Go(d, "waiting")
            /\ UNCHANGED stopping
       ELSE Go(d, "dead") /\ stopping' = TRUE /\ UNCHANGED processed
  /\ UNCHANGED <<clockVars, venueVars, holder, asked, inbox, faults>>

LLMFails(d) ==
  /\ at[d] = "turn"
  /\ Give({d}, {})
  /\ UNCHANGED <<clockVars, venueVars, inbox, processed, faults>>

\* SystemAgentStoppedError between two calls, or the closed inbox.
Leave(d) ==
  /\ at[d] \in {"waiting", "turn"}
  /\ stopping
  /\ Give({d}, {})
  /\ UNCHANGED <<clockVars, venueVars, inbox, processed, faults>>

-----------------------------------------------------------------------------
(* The tools, in a turn that is not called off.                            *)

\* Slip: any instruction that is not pending counts as decided.
ReadyByStatus(d) == status[turn[d].task] # "pending"

\* _require_source_ready: what counts is the adjudication this turn remembers.
Ready(d) == turn[d].task \in Instruction => turn[d].adjudicated

InTurn(d) == at[d] = "turn" /\ ~stopping

\* _adjudicate_instruction; the roll against the probability of the model's tier
\* may go either way.
Adjudicate(d) ==
  /\ InTurn(d)
  /\ turn[d].task \in Instruction
  /\ status[turn[d].task] = "pending"
  /\ ~turn[d].adjudicated
  /\ \E s \in {"completed", "failed"} :
       turn' = [turn EXCEPT ![d].verdict = s]
  /\ Go(d, "deciding")
  /\ UNCHANGED <<clockVars, venueVars, holder, asked, inbox, processed,
                 stopping, faults>>

DecisionMade(d) ==
  /\ d \in asked /\ at[d] = "deciding"
  /\ TakesEffect(d)
  /\ asked' = asked \ {d}
  /\ Go(d, "auditing")
  /\ turn' = [turn EXCEPT ![d].verdict = None]
  /\ UNCHANGED <<clockVars, gate, holder, inbox, processed, stopping, faults>>

AuditMade(d) ==
  /\ d \in asked /\ at[d] = "auditing"
  /\ TakesEffect(d)
  /\ asked' = asked \ {d}
  /\ Go(d, "turn")
  /\ turn' = [turn EXCEPT ![d].adjudicated = TRUE]
  /\ UNCHANGED <<clockVars, gate, holder, inbox, processed, stopping, faults>>

\* _publish_crisis_update
Publish(d) ==
  /\ InTurn(d)
  /\ Ready(d)
  /\ turn[d].published < MaxUpdates
  /\ Go(d, "publishing")
  /\ UNCHANGED <<clockVars, venueVars, holder, asked, turn, inbox, processed,
                 stopping, faults>>

CrisisMade(d) ==
  /\ d \in asked /\ at[d] = "publishing"
  /\ TakesEffect(d)
  /\ asked' = asked \ {d}
  /\ Go(d, "turn")
  /\ turn' = [turn EXCEPT ![d].published = @ + 1]
  /\ UNCHANGED <<clockVars, gate, holder, inbox, processed, stopping, faults>>

\* _advance_time
Advance(d) ==
  /\ InTurn(d)
  /\ Ready(d)
  /\ status[turn[d].task] # "rejected"
  /\ ~turn[d].advanced
  /\ \E m \in Minutes : turn' = [turn EXCEPT ![d].minutes = m]
  /\ Go(d, "locking")
  /\ UNCHANGED <<clockVars, venueVars, holder, asked, inbox, processed,
                 stopping, faults>>

-----------------------------------------------------------------------------
(* Scenario.time_pass and update_time.                                     *)

\* Slip: time_pass reads the clock without the lock.
ReadUnlocked(d) ==
  /\ at[d] = "locking"
  /\ Go(d, "moving")
  /\ turn' = [turn EXCEPT ![d].base = clock]
  /\ UNCHANGED <<clockVars, venueVars, holder, asked, inbox, processed,
                 stopping, faults>>

TimePass(d) ==
  /\ at[d] = "locking"
  /\ holder = None
  /\ holder' = d
  /\ Go(d, "moving")
  /\ turn' = [turn EXCEPT ![d].base = clock]
  /\ UNCHANGED <<clockVars, venueVars, asked, inbox, processed, stopping, faults>>

DueBy(time) == {p \in pullups : Due[p] <= time}

\* Every due event, to every venue.
Deliveries(due) == due \X Venue

\* The call of d has moved the clock and returns.
Advanced(d) ==
  /\ holder' = None
  /\ Go(d, "turn")
  /\ turn' = [turn EXCEPT ![d] = [@ EXCEPT !.minutes = 0, !.base = 0, !.left = {},
                                           !.advanced = TRUE]]

\* update_time: the lock is reentrant; going back is an error of the tool.
UpdateTime(d) ==
  LET time == turn[d].base + turn[d].minutes IN
  /\ at[d] = "moving"
  /\ holder \in {None, d}
  /\ IF time < clock
       THEN Give({}, {d}) /\ UNCHANGED clockVars
       ELSE /\ clock' = time
            /\ moves' = Append(moves, [task |-> turn[d].task,
                                       minutes |-> turn[d].minutes, time |-> time])
            /\ pullups' = pullups \ DueBy(time)
            /\ IF DueBy(time) = {} THEN Advanced(d)
               ELSE /\ holder' = d
                    /\ Go(d, "delivering")
                    /\ turn' = [turn EXCEPT ![d].left = Deliveries(DueBy(time))]
            /\ UNCHANGED <<asked, stopping>>
  /\ UNCHANGED <<venueVars, inbox, processed, faults>>

DueEventMade(d) ==
  /\ d \in asked /\ at[d] = "delivering"
  /\ TakesEffect(d)
  /\ asked' = asked \ {d}
  /\ IF turn[d].left = {FirstOf(turn[d].left)} THEN Advanced(d)
     ELSE /\ turn' = [turn EXCEPT ![d].left = @ \ {FirstOf(@)}]
          /\ UNCHANGED <<at, holder>>
  /\ UNCHANGED <<clockVars, gate, inbox, processed, stopping, faults>>

-----------------------------------------------------------------------------
(* The stop: the event first, then one venue after the other.              *)

RequestStop ==
  /\ ~stopping
  /\ stopping' = TRUE
  /\ UNCHANGED <<clockVars, venueVars, holder, asked, at, turn, inbox,
                 processed, faults>>

StopVenue(v) ==
  /\ stopping
  /\ gate[v] = "open"
  /\ gate' = [gate EXCEPT ![v] = "draining"]
  /\ UNCHANGED <<clockVars, status, record, told, holder, asked, at, turn,
                 inbox, processed, stopping, faults>>

-----------------------------------------------------------------------------
EngineStep(d) ==
  DecisionMade(d) \/ AuditMade(d) \/ CrisisMade(d) \/ DueEventMade(d)

DMStep(d) ==
  \/ TakeUp(d) \/ EndTurn(d) \/ Leave(d) \/ Ask(d) \/ Refused(d)
  \/ TimePass(d) \/ UpdateTime(d)

ToolCall(d) == Adjudicate(d) \/ Publish(d) \/ Advance(d)

Next ==
  \/ \E t \in Task : Arrive(t)
  \/ \E d \in Venue : EngineStep(d) \/ DMStep(d) \/ ToolCall(d) \/ LLMFails(d)
                      \/ CommandTimesOut(d)
  \/ \E v \in Venue : EngineFails(v) \/ StopVenue(v)
  \/ RequestStop

Spec == Init /\ [][Next]_vars

\* A DM goes on, or the engine whose answer it waits for carries out the command;
\* its model stops calling tools, at the latest when its rounds are used up.
\* Nobody has to submit, stop or fail.
Fairness == \A d \in Venue : WF_vars(EngineStep(d) \/ DMStep(d))

FairSpec == Spec /\ Fairness

-----------------------------------------------------------------------------
(* Properties.                                                             *)

Undisturbed == \A v \in Venue : gate[v] = "open"

Entries(what, t) ==
  {i \in 1..Len(record[VenueOf[t]]) : record[VenueOf[t]][i] = <<what, t>>}

MovesFor(t) == {i \in 1..Len(moves) : moves[i].task = t}

AtMostOne(S) == \A i, j \in S : i = j

Copies(p, v) == {i \in 1..Len(told[v]) : told[v][i][1] = p}

Turn == [task : Task \cup {None}, verdict : {None, "completed", "failed"},
         adjudicated : BOOLEAN, published : 0..MaxUpdates, advanced : BOOLEAN,
         minutes : Minutes \cup {0}, base : Nat, left : SUBSET (PullUp \X Venue)]

\* Every variable stays within the values the code can give it; a DM keeps a task
\* exactly while it is in a turn, and waits for an answer only inside a call.
TypeOK ==
  /\ clock \in Nat
  /\ pullups \subseteq PullUp
  /\ holder \in Venue \cup {None}
  /\ gate \in [Venue -> {"open", "draining", "failed"}]
  /\ asked \subseteq {d \in Venue : at[d] \in Calls}
  /\ status \in [Task -> {"none", "pending", "completed", "failed",
                          "accepted", "rejected"}]
  /\ record \in [Venue -> Seq({"audit", "crisis"} \X Task)]
  /\ told \in [Venue -> Seq(PullUp \X Nat)]
  /\ at \in [Venue -> Calls \cup {"waiting", "turn", "locking", "moving", "dead"}]
  /\ turn \in [Venue -> Turn]
  /\ \A d \in Venue : (turn[d].task # None) <=> (at[d] \notin {"waiting", "dead"})
  /\ inbox \in [Venue -> Seq(Task)]
  /\ processed \subseteq Task
  /\ stopping \in BOOLEAN
  /\ moves \in Seq([task : Task, minutes : Minutes, time : Nat])
  /\ faults \in 0..MaxFaults

\* However many DMs move the clock at once, none of their minutes is lost
\* (Scenario.time_pass reads the time and adds to it).
MinutesAddUp ==
  /\ \A i \in 1..Len(moves) :
       moves[i].time = moves[i].minutes + IF i = 1 THEN 0 ELSE moves[i - 1].time
  /\ clock = IF moves = <<>> THEN 0 ELSE moves[Len(moves)].time

\* A venue is told of a due event once, not before its time, and all venues with
\* the same story time (scenario-schema.md, Scenario.update_time), also after a
\* delivery that broke off.
DueTogether ==
  \A p \in PullUp, v \in Venue :
    /\ AtMostOne(Copies(p, v))
    /\ \A i \in Copies(p, v) :
         /\ Due[p] <= told[v][i][2]
         /\ \A w \in Venue : \A j \in Copies(p, w) : told[w][j][2] = told[v][i][2]

\* Once the clock has moved to or past its time, an event is delivered to every
\* venue before anybody can move the clock again, unless a venue has failed or
\* was stopped (Scenario.update_time).
DueEventsDelivered ==
  Undisturbed /\ holder = None /\ clock > 0 =>
    \A p \in PullUp, v \in Venue : Due[p] <= clock => Copies(p, v) # {}

\* The story time and the events due in it agree in all venues.
TimeKept == MinutesAddUp /\ DueTogether /\ DueEventsDelivered

Passed == [i \in 1..Len(moves) |-> moves[i].minutes]
Owed == UNION {turn[d].left : d \in Venue}
NotOpen == {v \in Venue : gate[v] # "open"}

\* Although many DMs want to move the clock, and the venues are told by commands one
\* by one, each of which may fail, the venues have one clock that passes, and due
\* events that are told in order before it passes on (Scenario.time_pass,
\* update_time).
Story == INSTANCE StoryClock WITH
  time <- clock, passed <- Passed, waiting <- pullups, owed <- Owed, shut <- NotOpen

StorySpec == Story!Spec

\* An instruction has consequences, crisis updates and passing time, only when
\* the one audit of its decision is on record, before them
\* (DMToolExecutor._adjudicate_instruction, _require_source_ready).
VerdictFirst ==
  \A t \in Instruction :
    /\ AtMostOne(Entries("audit", t))
    /\ \A j \in Entries("crisis", t) : \E i \in Entries("audit", t) : i < j
    /\ MovesFor(t) # {} => Entries("audit", t) # {}
    /\ Entries("audit", t) # {} => status[t] \in {"completed", "failed"}

\* A task with an outcome left its traces where the delegates can see them: the
\* decision and a crisis update of an instruction, a crisis update of an accepted
\* resolution, and no lapse of time for a rejected one (DMAgent.after_step).
OutcomeOnRecord ==
  \A t \in processed :
    /\ status[t] # "rejected" => Entries("crisis", t) # {}
    /\ t \in Instruction => Entries("audit", t) # {}
    /\ status[t] = "rejected" => MovesFor(t) = {}

\* Decisions, their consequences and their traces go together.
VerdictsOnRecord == VerdictFirst /\ OutcomeOnRecord

\* As the tasks come to an end, so do the DMs with them: no DM waits for the clock
\* or for a venue for ever, nor leaves a task in its inbox while its thread lives
\* (EventDrivenSystemAgent.run, Scenario.time_pass).
DMsComeToRest ==
  <>[](\A d \in Venue : at[d] = "dead" \/ (at[d] = "waiting" /\ inbox[d] = <<>>))

\* agent-loop.md: every task moves the time at most once.
AdvancedOnce == \A t \in Task : AtMostOne(MovesFor(t))
=============================================================================
