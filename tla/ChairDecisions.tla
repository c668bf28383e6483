---------------------------- MODULE ChairDecisions ----------------------------
(***************************************************************************)
(* The chair of a venue (agent/chair_tools.py): the votes it records, the  *)
(* resolutions it decides, the phases and agenda items it switches.  Some  *)
(* of its tools need two commands of the venue; the end condition monitor  *)
(* (engine/simulator.py) announces the end of the meeting through the same *)
(* queue while a call of the chair may be under way.                       *)
(*                                                                         *)
(* The venue is what VenueCommands promises: it carries out the accepted   *)
(* commands in order; when it fails, the one in hand may still take effect *)
(* and the others do not.  What a tool refuses changes nothing and is a    *)
(* step that is not taken here.  It implements Deliberation, in which a    *)
(* decision is one act.                                                    *)
(***************************************************************************)
EXTENDS Naturals, Sequences, FiniteSets, SequencesExt

CONSTANTS
  Seat,         \* Venue.seats
  Chair,        \* the representative in the chair, None for the neutral chair
  Motion,       \* the motions to switch the phase
  Resolution,   \* the resolutions
  Target,       \* MotionSwitchEvent.target_phase
  Scope,        \* who sees a motion or resolution
  Phase,        \* the phases in use
  FirstPhase,   \* the one the venue starts in
  Ended,        \* SessionPhase.MEETING_ENDED
  Poll,         \* the arguments of record_vote in use
  Opening,      \* the items of the agenda, in order
  FirstItem,    \* initial_agenda
  Extra,        \* items the chair may come up with
  ActionLimit,  \* ChairToolExecutor.action_limit
  MaxTurns,     \* bound: turns of the chair
  MaxFaults,    \* bound: failing engines and timeouts
  None

Paper == Motion \cup Resolution
Item == {Opening[i] : i \in 1..Len(Opening)} \cup Extra
Mode == {"simple_majority", "two_thirds", "unanimous"}
Power == {"decide_resolution", "decide_switch_phase"}
Decision == {"accepted", "rejected", "pending"}

\* What the scenario loader and the parameter schema of record_vote ensure.
Ballots == [for : SUBSET Seat, against : SUBSET Seat,
            abstained : SUBSET Seat, mode : Mode]

ASSUME ChairAssumption ==
  /\ IsFiniteSet(Seat)
  /\ Chair \in Seat \cup {None}
  /\ Motion \cap Resolution = {}
  /\ Target \in [Motion -> Phase]
  /\ Scope \in [Paper -> SUBSET Seat]
  /\ FirstPhase \in Phase /\ Ended \in Phase
  /\ Poll \subseteq Ballots
  /\ Opening \in Seq(Item) /\ IsInjective(Opening)
  /\ FirstItem \in {Opening[i] : i \in 1..Len(Opening)}
  /\ ActionLimit \in Nat /\ MaxTurns \in Nat /\ MaxFaults \in Nat
  /\ None \notin Seat \cup Paper \cup Phase \cup Item \cup Poll

VARIABLES
  power,        \* Venue.chair_power: what the chair may decide alone
  status,       \* the status of each motion and resolution
  votes,        \* the VoteEvents on each
  audits,       \* how many audit events on each tell of which decision
  phase,        \* Venue.session_phase
  phases,       \* the PhaseSwitchEvents
  agenda,       \* the AgendaManager
  switches,     \* the SetAgendaEvents
  additions,    \* the items of the AddAgendaEvents
  gate,         \* whether the venue takes commands
  queue,        \* the senders of the accepted commands
  at,           \* where the chair is
  call,         \* the arguments of its call under way
  acted,        \* __action_count
  turns,        \* the turns it has had
  monitor,      \* where the end condition monitor is, and its phase event
  stopping,     \* the stop event
  faults        \* failing engines and timeouts so far

paperVars == <<status, votes, audits>>
phaseVars == <<phase, phases>>
agendaVars == <<agenda, switches, additions>>
venueVars == <<paperVars, phaseVars, agendaVars>>
chairVars == <<at, call, acted, turns>>
vars == <<power, venueVars, gate, queue, chairVars, monitor, stopping, faults>>

NoCall == [paper |-> None, poll |-> None, word |-> None, from |-> None,
           to |-> None, item |-> None, finished |-> FALSE]

Init ==
  /\ power \in SUBSET Power
  /\ status = [p \in Paper |-> "none"]
  /\ votes = [p \in Paper |-> <<>>]
  /\ audits = [p \in Paper |-> [s \in Decision |-> 0]]
  /\ phase = FirstPhase
  /\ phases = <<>>
  /\ \E k \in 1..Len(Opening) :
       /\ Opening[k] = FirstItem
       /\ agenda = [current |-> FirstItem, finished |-> <<>>,
                    todo |-> RemoveAt(Opening, k)]
  /\ switches = <<>> /\ additions = <<>>
  /\ gate = "open"
  /\ queue = <<>>
  /\ at = "waiting"
  /\ call = NoCall
  /\ acted = 0 /\ turns = 0
  /\ monitor = [at |-> "watching", from |-> None]
  /\ stopping = FALSE
  /\ faults = 0

-----------------------------------------------------------------------------
(* What the chair works out by itself.                                     *)

\* can_read_event, of motions and resolutions
Readable(p) == Chair = None \/ Chair \in Scope[p]

Cast(b) == b.for \cup b.against \cup b.abstained

\* _seat_set and the checks of _record_vote on the ballot boxes
WellCast(p, b) ==
  /\ b.for \cap b.against = {}
  /\ (b.for \cup b.against) \cap b.abstained = {}
  /\ Cast(b) # {}
  /\ Cast(b) \subseteq Scope[p]

\* _vote_passed
VotePassed(b) ==
  LET voting == Cardinality(b.for) + Cardinality(b.against) IN
  /\ voting # 0
  /\ \/ b.mode = "simple_majority" /\ Cardinality(b.for) * 2 > voting
     \/ b.mode = "two_thirds" /\ Cardinality(b.for) * 3 >= voting * 2
     \/ b.mode = "unanimous" /\ Cardinality(b.for) = voting

Verdict(passed) == IF passed THEN "accepted" ELSE "rejected"

-----------------------------------------------------------------------------
(* Commands: how they are sent, what they do, how their senders go on.     *)

\* The chair's command is accepted, or VenueEngineStoppedError ends its thread.
Send(place, arguments) ==
  IF gate = "open"
    THEN /\ queue' = Append(queue, "chair")
         /\ at' = place
         /\ call' = arguments
    ELSE /\ at' = "gone"
         /\ call' = NoCall
         /\ UNCHANGED queue

Record(p, event) == votes' = [votes EXCEPT ![p] = Append(@, event)]
SetStatus(p, s) == status' = [status EXCEPT ![p] = s]
SwitchTo(to, event) == phase' = to /\ phases' = Append(phases, event)

\* Slip: the item that was current stays on the list too.
TakeUpTwice(k, finished) ==
  agenda' = [current |-> agenda.todo[k],
             finished |-> IF finished THEN Append(agenda.finished, agenda.current)
                          ELSE agenda.finished,
             todo |-> RemoveAt(Append(agenda.todo, agenda.current), k)]

\* AgendaManager.set_current_agenda, for the item in place k of the list
TakeUp(k, finished) ==
  agenda' = [current |-> agenda.todo[k],
             finished |-> IF finished THEN Append(agenda.finished, agenda.current)
                          ELSE agenda.finished,
             todo |-> RemoveAt(IF finished THEN agenda.todo
                               ELSE Append(agenda.todo, agenda.current), k)]

Known(item) == item \in {agenda.current} \cup ToSet(agenda.todo)
                                          \cup ToSet(agenda.finished)

\* The item of a switch must be on the list, that of an addition must be new;
\* to switch to the current item is to do nothing.
Feasible ==
  /\ at = "advancing" =>
       call.item = agenda.current \/ call.item \in ToSet(agenda.todo)
  /\ at = "adding" => ~Known(call.item)

\* What the chair's command does, in VenueEngine.
ChairCommand ==
  \/ /\ at = "noting"
     /\ UNCHANGED venueVars
  \/ /\ at = "voting"
     /\ Record(call.paper, [poll |-> call.poll, passed |-> VotePassed(call.poll)])
     /\ UNCHANGED <<status, audits, phaseVars, agendaVars>>
  \/ /\ at \in {"verdict", "deciding"}
     /\ SetStatus(call.paper, call.word)
     /\ UNCHANGED <<votes, audits, phaseVars, agendaVars>>
  \/ /\ at = "auditing"
     /\ audits' = [audits EXCEPT ![call.paper][call.word] = @ + 1]
     /\ UNCHANGED <<status, votes, phaseVars, agendaVars>>
  \/ /\ at = "switching"
     /\ SwitchTo(call.to, [from |-> call.from, to |-> call.to, by |-> "chair"])
     /\ UNCHANGED <<paperVars, agendaVars>>
  \/ /\ at = "advancing"
     /\ IF Feasible /\ call.item # agenda.current
          THEN /\ \E k \in 1..Len(agenda.todo) :
                    agenda.todo[k] = call.item /\ TakeUp(k, call.finished)
               /\ switches' = Append(switches, [item |-> call.item,
                                                finished |-> call.finished,
                                                previous |-> agenda.current])
               /\ UNCHANGED additions
          ELSE UNCHANGED agendaVars
     /\ UNCHANGED <<paperVars, phaseVars>>
  \/ /\ at = "adding"
     /\ IF Feasible
          THEN /\ agenda' = [agenda EXCEPT !.todo = Append(@, call.item)]
               /\ additions' = Append(additions, call.item)
               /\ UNCHANGED switches
          ELSE UNCHANGED agendaVars
     /\ UNCHANGED <<paperVars, phaseVars>>

EndCommand ==
  /\ SwitchTo(Ended, [from |-> monitor.from, to |-> Ended, by |-> "monitor"])
  /\ UNCHANGED <<paperVars, agendaVars>>

TakesEffect == IF Head(queue) = "chair" THEN ChairCommand ELSE EndCommand

\* The answers: a call of two commands goes on to the second, others are over.
ChairAnswered ==
  /\ at' = CASE at = "voting" -> "voted"
             [] at = "deciding" -> "decided"
             [] OTHER -> "turn"
  /\ IF at \in {"voting", "deciding"}
       THEN UNCHANGED <<call, acted>>
       ELSE call' = NoCall /\ acted' = acted + (IF Feasible THEN 1 ELSE 0)
  /\ UNCHANGED <<turns, monitor>>

\* The venue carries out the command at the head of its queue.
Execute ==
  /\ gate # "failed"
  /\ queue # <<>>
  /\ TakesEffect
  /\ queue' = Tail(queue)
  /\ IF Head(queue) = "chair"
       THEN ChairAnswered
       ELSE /\ monitor' = [at |-> "announced", from |-> None]
            /\ UNCHANGED chairVars
  /\ UNCHANGED <<power, gate, stopping, faults>>

-----------------------------------------------------------------------------
(* The chair's turns and tools.                                            *)

\* A representative's motion or resolution enters the EventList.
Submit(p) ==
  /\ status[p] = "none"
  /\ gate = "open"
  /\ SetStatus(p, "pending")
  /\ UNCHANGED <<power, votes, audits, phaseVars, agendaVars, gate, queue,
                 chairVars, monitor, stopping, faults>>

BeginTurn ==
  /\ at = "waiting"
  /\ ~stopping
  /\ turns < MaxTurns
  /\ at' = "turn"
  /\ turns' = turns + 1
  /\ acted' = 0
  /\ UNCHANGED <<power, venueVars, gate, queue, call, monitor, stopping, faults>>

EndTurn ==
  /\ at = "turn"
  /\ ~stopping
  /\ at' = "waiting"
  /\ UNCHANGED <<power, venueVars, gate, queue, call, acted, turns, monitor,
                 stopping, faults>>

\* The thread ends: told to stop between two calls, or its model fails.
Leave ==
  /\ at = "turn" \/ (at = "waiting" /\ stopping)
  /\ at' = "gone"
  /\ UNCHANGED <<power, venueVars, gate, queue, call, acted, turns, monitor,
                 stopping, faults>>

\* Slip: the budget of the turn is not looked at.
InTurnUnbounded == at = "turn" /\ ~stopping

\* execute: the model calls a tool.
InTurn == at = "turn" /\ ~stopping /\ acted < ActionLimit

ToolFrame == UNCHANGED <<power, venueVars, gate, acted, turns, monitor,
                         stopping, faults>>

\* publish_notice and call_speaker: one event that asks nothing of the state
Notice ==
  /\ InTurn
  /\ Send("noting", NoCall)
  /\ ToolFrame

RequestVote(p) ==
  /\ InTurn
  /\ Readable(p) /\ status[p] = "pending"
  /\ Send("noting", NoCall)
  /\ ToolFrame

RecordVote(p, b) ==
  /\ InTurn
  /\ Readable(p) /\ status[p] = "pending"
  /\ WellCast(p, b)
  /\ Send("voting", [NoCall EXCEPT !.paper = p, !.poll = b])
  /\ ToolFrame

\* _record_vote, once the VoteEvent is on record
SendVerdict ==
  /\ at = "voted"
  /\ Send("verdict", [call EXCEPT !.word = Verdict(VotePassed(call.poll))])
  /\ ToolFrame

\* Slip: the power is not asked for.
DecideAnyway(r, s) ==
  /\ InTurn
  /\ Readable(r) /\ status[r] = "pending"
  /\ Send("deciding", [NoCall EXCEPT !.paper = r, !.word = s])
  /\ ToolFrame

\* _decide_resolution: any EventStatus will do for the tool; the list refuses
\* all but these three, and "pending" leaves the resolution as it is.
DecideResolution(r, s) ==
  /\ InTurn
  /\ "decide_resolution" \in power
  /\ Readable(r) /\ status[r] = "pending"
  /\ Send("deciding", [NoCall EXCEPT !.paper = r, !.word = s])
  /\ ToolFrame

\* Slip: the audit is part of the next turn's business.
SendAuditLater ==
  /\ at = "decided"
  /\ at' = "turn" /\ call' = NoCall
  /\ UNCHANGED queue
  /\ ToolFrame

\* _decide, once the status has changed
SendAudit ==
  /\ at = "decided"
  /\ Send("auditing", call)
  /\ ToolFrame

\* Slip: the phase event starts from the phase the meeting started in.
SwitchFromFirst(to) ==
  /\ InTurn
  /\ \/ "decide_switch_phase" \in power
     \/ \E m \in Motion : /\ Readable(m)
                          /\ status[m] = "accepted"
                          /\ Target[m] = to
  /\ Send("switching", [NoCall EXCEPT !.from = FirstPhase, !.to = to])
  /\ ToolFrame

\* _switch_phase: without the power it takes an accepted motion to that effect;
\* PhaseSwitchEvent keeps the phase at hand as its previous one.
SwitchPhase(to) ==
  /\ InTurn
  /\ \/ "decide_switch_phase" \in power
     \/ \E m \in Motion : /\ Readable(m)
                          /\ status[m] = "accepted"
                          /\ Target[m] = to
  /\ Send("switching", [NoCall EXCEPT !.from = phase, !.to = to])
  /\ ToolFrame

\* _set_current_agenda: the item must be known
SetAgenda(i, finished) ==
  /\ InTurn
  /\ Known(i)
  /\ Send("advancing", [NoCall EXCEPT !.item = i, !.finished = finished])
  /\ ToolFrame

AddAgenda(i) ==
  /\ InTurn
  /\ Send("adding", [NoCall EXCEPT !.item = i])
  /\ ToolFrame

-----------------------------------------------------------------------------
(* The end of the meeting, stops and failures.                             *)

\* _finish_for_end_condition, up to the command for this venue
ConditionHolds ==
  /\ monitor.at = "watching"
  /\ ~stopping
  /\ \/ /\ phase = Ended
        /\ monitor' = [at |-> "announced", from |-> None]
        /\ UNCHANGED queue
     \/ /\ phase # Ended
        /\ gate = "open"
        /\ queue' = Append(queue, "monitor")
        /\ monitor' = [at |-> "announcing", from |-> phase]
     \/ /\ phase # Ended
        /\ gate # "open"
        /\ monitor' = [at |-> "announced", from |-> None]
        /\ UNCHANGED queue
  /\ UNCHANGED <<power, venueVars, gate, chairVars, stopping, faults>>

\* _request_stop: the monitor's, an operator's, or the supervisor's after a
\* failure
RequestStop ==
  /\ ~stopping
  /\ stopping' = TRUE
  /\ UNCHANGED <<power, venueVars, gate, queue, chairVars, monitor, faults>>

\* VenueEngine.stop, later on in _request_stop
CloseGate ==
  /\ stopping
  /\ gate = "open"
  /\ gate' = "draining"
  /\ UNCHANGED <<power, venueVars, queue, chairVars, monitor, stopping, faults>>

\* The senders of the commands that the failing venue had accepted are told;
\* only a timeout of its own leaves the chair in its turn.
Fail(place) ==
  /\ faults < MaxFaults
  /\ faults' = faults + 1
  /\ gate' = "failed"
  /\ queue' = <<>>
  /\ \/ UNCHANGED venueVars
     \/ queue # <<>> /\ TakesEffect
  /\ IF "chair" \in ToSet(queue)
       THEN at' = place /\ call' = NoCall
       ELSE UNCHANGED <<at, call>>
  /\ monitor' = IF "monitor" \in ToSet(queue)
                  THEN [at |-> "announced", from |-> None] ELSE monitor
  /\ UNCHANGED <<power, acted, turns, stopping>>

EngineFails ==
  /\ gate # "failed"
  /\ Fail("gone")

ChairTimesOut ==
  /\ "chair" \in ToSet(queue)
  /\ Fail("turn")

-----------------------------------------------------------------------------
ChairActs ==
  \/ BeginTurn \/ EndTurn \/ Leave \/ Notice
  \/ SendVerdict \/ SendAudit
  \/ \E p \in Paper : RequestVote(p)
  \/ \E p \in Paper, b \in Poll : RecordVote(p, b)
  \/ \E r \in Resolution, s \in Decision : DecideResolution(r, s)
  \/ \E to \in Phase : SwitchPhase(to)
  \/ \E i \in Item, finished \in BOOLEAN : SetAgenda(i, finished)
  \/ \E i \in Item : AddAgenda(i)

Next ==
  \/ Execute \/ ChairActs
  \/ \E p \in Paper : Submit(p)
  \/ ConditionHolds \/ RequestStop \/ CloseGate
  \/ EngineFails \/ ChairTimesOut

Spec == Init /\ [][Next]_vars

-----------------------------------------------------------------------------
(* Properties.                                                             *)

Places == {"waiting", "turn", "noting", "voting", "voted", "verdict",
           "deciding", "decided", "auditing", "switching",
           "advancing", "adding", "gone"}

\* The types of the variables.
TypeOK ==
  /\ power \subseteq Power
  /\ status \in [Paper -> {"none", "pending", "accepted", "rejected"}]
  /\ votes \in [Paper -> Seq([poll : Poll, passed : BOOLEAN])]
  /\ audits \in [Paper -> [Decision -> Nat]]
  /\ phase \in Phase
  /\ phases \in Seq([from : Phase, to : Phase, by : {"chair", "monitor"}])
  /\ agenda \in [current : Item, finished : Seq(Item), todo : Seq(Item)]
  /\ switches \in Seq([item : Item, finished : BOOLEAN, previous : Item])
  /\ additions \in Seq(Item)
  /\ gate \in {"open", "draining", "failed"}
  /\ queue \in Seq({"chair", "monitor"})
  /\ at \in Places
  /\ call \in [paper : Paper \cup {None}, poll : Poll \cup {None},
               word : Decision \cup {None},
               from : Phase \cup {None}, to : Phase \cup {None},
               item : Item \cup {None}, finished : BOOLEAN]
  /\ acted \in 0..ActionLimit
  /\ turns \in 0..MaxTurns
  /\ monitor \in [at : {"watching", "announcing", "announced"},
                  from : Phase \cup {None}]
  /\ stopping \in BOOLEAN
  /\ faults \in 0..MaxFaults

Decided(p) == status[p] \in {"accepted", "rejected"}
Voted(p) == votes[p] # <<>>

\* Whether the chair is between the two commands of a call on p.
Between(p, places) == at \in places /\ call.paper = p

\* A motion or resolution is voted on at most once, and the verdict on it is
\* that of the vote; only where the venue was closed between the two commands
\* does a vote stand without its verdict.
VoteMatchesVerdict ==
  \A p \in Paper :
    /\ Len(votes[p]) <= 1
    /\ Voted(p) => \/ status[p] = Verdict(votes[p][1].passed)
                   \/ /\ status[p] = "pending"
                      /\ \/ Between(p, {"voted", "verdict"})
                         \/ gate # "open"

\* A decision of the chair alone has exactly one audit event that tells of it,
\* unless the venue was closed before it came; a vote needs none.
DecisionAudited ==
  \A p \in Paper :
    /\ \A s \in {"accepted", "rejected"} : audits[p][s] > 0 =>
         audits[p][s] = 1 /\ status[p] = s /\ ~Voted(p)
    /\ Decided(p) /\ ~Voted(p) =>
         \/ audits[p][status[p]] = 1
         \/ Between(p, {"decided", "auditing"}) \/ gate # "open"

\* Both calls of two commands (_record_vote, _decide) leave what they promise
\* although the venue may close, or time out, between the commands.
DecisionsOnRecord == VoteMatchesVerdict /\ DecisionAudited

\* A vote passes when more seats are for than against, for two thirds when at
\* least twice as many, for unanimity when none is against; some seat is for it
\* in any case, and who abstains does not count.
PassedAsDefined ==
  \A p \in Paper : \A i \in 1..Len(votes[p]) :
    LET box == votes[p][i].poll
        for == Cardinality(box.for)
        against == Cardinality(box.against)
    IN votes[p][i].passed <=>
         /\ box.for # {}
         /\ box.mode = "simple_majority" => for > against
         /\ box.mode = "two_thirds" => for >= 2 * against
         /\ box.mode = "unanimous" => box.against = {}

\* docs/agent-loop.md:127: a chair without the power to decide resolutions has
\* them voted on; one without the power to switch the phase switches only where
\* a motion to that effect was voted for.  Motions are always voted on.
PowerRespected ==
  /\ \A p \in Paper :
       Decided(p) /\ (p \in Motion \/ "decide_resolution" \notin power) => Voted(p)
  /\ "decide_switch_phase" \notin power =>
       \A i \in 1..Len(phases) :
         phases[i].by = "chair" =>
           \E m \in Motion : /\ Target[m] = phases[i].to
                             /\ status[m] = "accepted"
                             /\ Voted(m) /\ votes[m][1].passed

\* No decision without a vote that carries it, or the power to take it.
DecisionsLegal == PassedAsDefined /\ PowerRespected

\* The phase is the one the last phase event led to, and an event starts where
\* the one before it led, unless chair and monitor sent theirs at the same time.
\* The end is announced at most once and never where the meeting has ended
\* for all the monitor knew; only the chair's events can follow it.
PhaseChain ==
  /\ phase = IF phases = <<>> THEN FirstPhase ELSE Last(phases).to
  /\ \A i \in 1..Len(phases) :
       /\ \/ phases[i].from = IF i = 1 THEN FirstPhase ELSE phases[i - 1].to
          \/ i > 1 /\ phases[i].by # phases[i - 1].by
       /\ phases[i].by = "monitor" =>
            /\ phases[i].from # Ended
            /\ \A j \in (i + 1)..Len(phases) : phases[j].by = "chair"

\* Every item known to the agenda is in one place, once; what the chair comes
\* up with is known from its addition on.
AgendaPartition ==
  LET todo == ToSet(agenda.todo)
      finished == ToSet(agenda.finished)
  IN /\ IsInjective(agenda.todo) /\ IsInjective(agenda.finished)
     /\ todo \cap finished = {} /\ agenda.current \notin todo \cup finished
     /\ {agenda.current} \cup todo \cup finished = ToSet(Opening) \cup ToSet(additions)

\* The agenda events give the agenda: each switch starts from the item the one
\* before it led to, and the finished items are those that a switch finished.
AgendaRecorded ==
  /\ agenda.current = IF switches = <<>> THEN FirstItem ELSE Last(switches).item
  /\ \A i \in 1..Len(switches) :
       switches[i].previous = IF i = 1 THEN FirstItem ELSE switches[i - 1].item
  /\ ToSet(agenda.finished) =
       {switches[i].previous : i \in {j \in 1..Len(switches) : switches[j].finished}}

\* The agenda (AgendaManager) and its events agree, and no item is lost.
AgendaOnRecord == AgendaPartition /\ AgendaRecorded

-----------------------------------------------------------------------------
(* What is decided, as Deliberation has it.                                *)

\* The first of the two commands of a decision on p has been carried out, the
\* second has not.
VoteOpen(p) == Voted(p) /\ status[p] = "pending"
DecisionOpen(p) == Decided(p) /\ ~Voted(p) /\ audits[p][status[p]] # 1
HalfDone(p) == VoteOpen(p) \/ DecisionOpen(p)

UnderWay(p) == Between(p, {"voted", "verdict", "decided", "auditing"})

\* Until the second command a decision is open, if it is still to come.
Standing ==
  [p \in Paper |-> IF HalfDone(p) THEN IF UnderWay(p) THEN "pending" ELSE "broken"
                   ELSE status[p]]

DecidedBy ==
  [p \in Paper |-> IF Voted(p) /\ Decided(p) THEN votes[p][1].poll ELSE None]

Announced == \E i \in 1..Len(phases) : phases[i].by = "monitor"

\* A decision and what it rests on are one act, although they are two commands that
\* others come between, and the venue may close upon: then one decision at most is
\* left half done, and the chair decides nothing after it (_record_vote, _decide,
\* _decide_resolution, _switch_phase, _vote_passed, AgendaManager).
Decisions == INSTANCE Deliberation WITH
  standing <- Standing, vote <- DecidedBy, announced <- Announced,
  Listed <- ToSet(Opening), current <- agenda.current,
  todo <- ToSet(agenda.todo), finished <- ToSet(agenda.finished)

DeliberationSpec == Decisions!Spec
=============================================================================
