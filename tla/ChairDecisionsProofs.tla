------------------------- MODULE ChairDecisionsProofs -------------------------
(***************************************************************************)
(* Theorems about ChairDecisions, for any seats, papers, phases, polls,    *)
(* items and limits.  IInv is the inductive invariant: whose commands are  *)
(* queued (QueueOK), what each place of a call knows of the papers and the *)
(* phase (CallOK), where the monitor's event can be (MonitorOK), that      *)
(* votes are well cast (PollsOK), that nothing follows a decision left     *)
(* half done (CutShort), and the properties themselves.  The last part     *)
(* shows that ChairDecisions implements Deliberation.                      *)
(***************************************************************************)
EXTENDS ChairDecisions, FiniteSetTheorems, SequenceTheorems, TLAPS

Commanding == {"noting", "voting", "verdict", "deciding", "auditing",
               "switching", "advancing", "adding"}

QueueOK ==
  /\ queue \in {<<>>, <<"chair">>, <<"monitor">>,
                <<"chair", "monitor">>, <<"monitor", "chair">>}
  /\ at \in Commanding <=> queue \notin {<<>>, <<"monitor">>}
  /\ monitor.at = "announcing" <=> queue \notin {<<>>, <<"chair">>}
  /\ monitor.at = "announcing" => monitor.from \in Phase \ {Ended}

\* The chair's event was built before the monitor's was carried out.
Crossed(sender) == phases # <<>> /\ phases[Len(phases)].by = sender

Backed(to) ==
  \/ "decide_switch_phase" \in power
  \/ \E m \in Motion : status[m] = "accepted" /\ Target[m] = to

\* What holds of the arguments c of a call that has come to a place.
VoteFits(place, c) ==
  /\ place \in {"voting", "voted", "verdict"} =>
       /\ c.paper \in Paper /\ c.poll \in Poll
       /\ WellCast(c.paper, c.poll)
       /\ status[c.paper] = "pending"
  /\ place = "voting" => votes[c.paper] = <<>>
  /\ place \in {"voted", "verdict"} =>
       /\ Len(votes[c.paper]) = 1
       /\ votes[c.paper][1].passed = VotePassed(c.poll)
  /\ place = "verdict" => c.word = Verdict(VotePassed(c.poll))

DecisionFits(place, c) ==
  /\ place \in {"deciding", "decided", "auditing"} =>
       /\ c.paper \in Resolution /\ c.word \in Decision
       /\ "decide_resolution" \in power
       /\ votes[c.paper] = <<>>
       /\ audits[c.paper]["accepted"] = 0
       /\ audits[c.paper]["rejected"] = 0
  /\ place = "deciding" => status[c.paper] = "pending"
  /\ place \in {"decided", "auditing"} => status[c.paper] = c.word

SwitchFits(place, c) ==
  /\ place = "switching" =>
       /\ c.from \in Phase /\ c.to \in Phase
       /\ Backed(c.to)
       /\ c.from = phase \/ Crossed("monitor")
  /\ place \in {"advancing", "adding"} => c.item \in Item

CallOK ==
  /\ VoteFits(at, call) /\ DecisionFits(at, call) /\ SwitchFits(at, call)
  /\ at \notin {"waiting", "turn", "gone"} => acted < ActionLimit

MonitorOK ==
  /\ monitor.at # "announced" =>
       \A i \in 1..Len(phases) : phases[i].by = "chair"
  /\ monitor.at = "announcing" => monitor.from = phase \/ Crossed("chair")

\* What may be recorded as a vote on p.
LegalVotes(p) ==
  {v \in [poll : Poll, passed : BOOLEAN] :
     WellCast(p, v.poll) /\ v.passed = VotePassed(v.poll)}

PollsOK ==
  \A p \in Paper : \A i \in 1..Len(votes[p]) : votes[p][i] \in LegalVotes(p)

\* Between its turns and calls, or gone for good.
Resting == {"waiting", "turn", "gone"}

\* When a decision was left half done, the chair has made no other call since.
CutShort ==
  \A p \in Paper : HalfDone(p) /\ ~UnderWay(p) => at \in Resting

IInv ==
  /\ TypeOK /\ QueueOK /\ CallOK /\ MonitorOK /\ PollsOK /\ CutShort
  /\ VoteMatchesVerdict /\ DecisionAudited
  /\ PowerRespected /\ PhaseChain /\ AgendaOnRecord

-----------------------------------------------------------------------------
(* What a step may change.                                                 *)

\* The events, statuses and the agenda change only by a submission or a command.
LEMMA VenueSteps ==
  ASSUME [Next]_vars
  PROVE  /\ power' = power
         /\ \/ UNCHANGED venueVars
            \/ \E p \in Paper : Submit(p)
            \/ queue # <<>> /\ TakesEffect
<1> USE DEF vars, venueVars, paperVars, phaseVars, agendaVars, chairVars
<1>1. CASE UNCHANGED vars
  BY <1>1
<1>2. CASE Execute
  BY <1>2 DEF Execute
<1>3. CASE ChairActs
  BY <1>3 DEF ChairActs, BeginTurn, EndTurn, Leave, Notice, SendVerdict, SendAudit,
       RequestVote, RecordVote, DecideResolution, SwitchPhase, SetAgenda, AddAgenda,
       ToolFrame
<1>4. CASE \E p \in Paper : Submit(p)
  BY <1>4 DEF Submit
<1>5. CASE ConditionHolds \/ RequestStop \/ CloseGate
  BY <1>5 DEF ConditionHolds, RequestStop, CloseGate
<1>6. CASE EngineFails \/ ChairTimesOut
  BY <1>6 DEF EngineFails, ChairTimesOut, Fail
<1> QED
  BY <1>1, <1>2, <1>3, <1>4, <1>5, <1>6 DEF Next

\* The effects of the chair's commands on the papers.
EffectOnPapers ==
  \/ /\ at = "voting"
     /\ Record(call.paper, [poll |-> call.poll, passed |-> VotePassed(call.poll)])
     /\ UNCHANGED <<status, audits>>
  \/ /\ at \in {"verdict", "deciding"}
     /\ SetStatus(call.paper, call.word)
     /\ UNCHANGED <<votes, audits>>
  \/ /\ at = "auditing"
     /\ audits' = [audits EXCEPT ![call.paper][call.word] = @ + 1]
     /\ UNCHANGED <<status, votes>>
  \/ at \notin {"voting", "verdict", "deciding", "auditing"} /\ UNCHANGED paperVars

LEMMA EffectPapers ==
  ASSUME TakesEffect
  PROVE  IF Head(queue) = "chair" THEN EffectOnPapers ELSE UNCHANGED paperVars
BY DEF TakesEffect, ChairCommand, EndCommand, EffectOnPapers, venueVars, paperVars

-----------------------------------------------------------------------------
(* Votes are well cast and their results are those of the count.           *)

LEMMA PollsKept ==
  ASSUME IInv, [Next]_vars PROVE PollsOK'
<1>1. votes \in [Paper -> Seq([poll : Poll, passed : BOOLEAN])]
  BY DEF IInv, TypeOK
<1>2. PollsOK
  BY DEF IInv
<1>3. CASE UNCHANGED votes
  BY <1>2, <1>3 DEF PollsOK
<1>4. CASE at = "voting"
           /\ Record(call.paper, [poll |-> call.poll, passed |-> VotePassed(call.poll)])
  <2>1. call.paper \in Paper /\ call.poll \in Poll /\ WellCast(call.paper, call.poll)
    BY <1>4 DEF IInv, CallOK, VoteFits
  <2> DEFINE e == [poll |-> call.poll, passed |-> VotePassed(call.poll)]
  <2>2. votes' = [votes EXCEPT ![call.paper] = Append(@, e)]
    BY <1>4 DEF Record
  <2>3. e \in LegalVotes(call.paper)
    BY <2>1 DEF LegalVotes, VotePassed
  <2> HIDE DEF e
  <2> SUFFICES ASSUME NEW p \in Paper, NEW i \in 1..Len(votes'[p])
               PROVE  votes'[p][i] \in LegalVotes(p)
    BY DEF PollsOK
  <2>4. CASE p # call.paper
    <3>1. votes'[p] = votes[p]
      BY <1>1, <2>2, <2>4
    <3> QED
      BY <1>2, <3>1 DEF PollsOK
  <2>5. CASE p = call.paper
    <3>1. votes'[p] = Append(votes[p], e) /\ votes[p] \in Seq([poll : Poll, passed : BOOLEAN])
      BY <1>1, <2>2, <2>5
    <3>2. i <= Len(votes[p]) => votes'[p][i] = votes[p][i]
      BY <3>1
    <3>3. i > Len(votes[p]) => votes'[p][i] = e
      BY <3>1
    <3>4. Len(votes[p]) \in Nat
      BY <3>1
    <3>5. CASE i <= Len(votes[p])
      BY <1>2, <3>2, <3>4, <3>5 DEF PollsOK
    <3>6. CASE i > Len(votes[p])
      BY <2>3, <2>5, <3>3, <3>6
    <3> QED
      BY <3>4, <3>5, <3>6
  <2> QED
    BY <2>4, <2>5
<1> QED
  BY <1>3, <1>4, VenueSteps, EffectPapers
     DEF EffectOnPapers, venueVars, paperVars, Submit

-----------------------------------------------------------------------------
(* Types.                                                                  *)

\* What is left of a sequence when the element in place k is taken out.
LEMMA RemoveAtType ==
  ASSUME NEW S, NEW s \in Seq(S), NEW k \in 1..Len(s)
  PROVE  /\ RemoveAt(s, k) \in Seq(S)
         /\ Len(RemoveAt(s, k)) = Len(s) - 1
         /\ \A i \in 1..(Len(s) - 1) :
              RemoveAt(s, k)[i] = IF i < k THEN s[i] ELSE s[i + 1]
<1> DEFINE a == SubSeq(s, 1, k - 1)
           b == SubSeq(s, k + 1, Len(s))
<1>1. a \in Seq(S) /\ Len(a) = k - 1 /\ \A i \in 1..(k - 1) : a[i] = s[i]
  OBVIOUS
<1>2. b \in Seq(S) /\ Len(b) = Len(s) - k /\ \A i \in 1..(Len(s) - k) : b[i] = s[k + i]
  OBVIOUS
<1>3. RemoveAt(s, k) = a \o b
  BY DEF RemoveAt
<1> HIDE DEF a, b
<1>4. RemoveAt(s, k) \in Seq(S) /\ Len(RemoveAt(s, k)) = Len(a) + Len(b)
  BY <1>1, <1>2, <1>3, ConcatProperties
<1>5. ASSUME NEW i \in 1..(Len(s) - 1)
      PROVE  RemoveAt(s, k)[i] = IF i < k THEN s[i] ELSE s[i + 1]
  <2>1. RemoveAt(s, k)[i] = IF i <= Len(a) THEN a[i] ELSE b[i - Len(a)]
    BY <1>1, <1>2, <1>3, ConcatProperties
  <2>2. k \in Nat /\ Len(s) \in Nat /\ k <= Len(s)
    OBVIOUS
  <2>3. CASE i < k
    BY <1>1, <2>1, <2>2, <2>3
  <2>4. CASE ~(i < k)
    <3>1. i - (k - 1) \in 1..(Len(s) - k) /\ k + (i - (k - 1)) = i + 1
      BY <2>2, <2>4
    <3> QED
      BY <1>1, <1>2, <2>1, <2>2, <2>4, <3>1
  <2> QED
    BY <2>3, <2>4
<1>6. Len(a) + Len(b) = Len(s) - 1
  BY <1>1, <1>2
<1> QED
  BY <1>4, <1>5, <1>6

CallType ==
  [paper : Paper \cup {None}, poll : Poll \cup {None}, word : Decision \cup {None},
   from : Phase \cup {None}, to : Phase \cup {None}, item : Item \cup {None},
   finished : BOOLEAN]

AgendaType == [current : Item, finished : Seq(Item), todo : Seq(Item)]

LEMMA TakeUpType ==
  ASSUME agenda \in AgendaType, NEW k \in 1..Len(agenda.todo),
         NEW finished \in BOOLEAN, TakeUp(k, finished)
  PROVE  agenda' \in AgendaType
<1> DEFINE list == IF finished THEN agenda.todo ELSE Append(agenda.todo, agenda.current)
<1>1. list \in Seq(Item) /\ k \in 1..Len(list)
  BY DEF AgendaType
<1>2. RemoveAt(list, k) \in Seq(Item)
  BY <1>1, RemoveAtType
<1>3. agenda' = [current |-> agenda.todo[k],
                 finished |-> IF finished THEN Append(agenda.finished, agenda.current)
                              ELSE agenda.finished,
                 todo |-> RemoveAt(list, k)]
  BY DEF TakeUp
<1> HIDE DEF list
<1> QED
  BY <1>2, <1>3 DEF AgendaType

VenueTypeOK ==
  /\ status \in [Paper -> {"none", "pending", "accepted", "rejected"}]
  /\ votes \in [Paper -> Seq([poll : Poll, passed : BOOLEAN])]
  /\ audits \in [Paper -> [Decision -> Nat]]
  /\ phase \in Phase
  /\ phases \in Seq([from : Phase, to : Phase, by : {"chair", "monitor"}])
  /\ agenda \in AgendaType
  /\ switches \in Seq([item : Item, finished : BOOLEAN, previous : Item])
  /\ additions \in Seq(Item)

LEMMA EffectTyped ==
  ASSUME IInv, queue # <<>>, TakesEffect PROVE VenueTypeOK'
<1>0. Ended \in Phase
  BY ChairAssumption DEF ChairAssumption
<1>1. VenueTypeOK /\ call \in CallType
  BY DEF IInv, TypeOK, VenueTypeOK, AgendaType, CallType
<1>2. CASE at = "voting" /\ ChairCommand
  <2>1. call.paper \in Paper /\ call.poll \in Poll
    BY <1>2 DEF IInv, CallOK, VoteFits
  <2>2. votes' = [votes EXCEPT ![call.paper] =
                    Append(@, [poll |-> call.poll, passed |-> VotePassed(call.poll)])]
        /\ UNCHANGED <<status, audits, phase, phases, agenda, switches, additions>>
    BY <1>2 DEF ChairCommand, Record, phaseVars, agendaVars
  <2> DEFINE V == [poll : Poll, passed : BOOLEAN]
             e == [poll |-> call.poll, passed |-> VotePassed(call.poll)]
  <2>3. e \in V
    BY <2>1 DEF VotePassed
  <2>4. votes' = [votes EXCEPT ![call.paper] = Append(@, e)]
    BY <2>2
  <2> HIDE DEF V, e
  <2>5. votes \in [Paper -> Seq(V)]
    BY <1>1 DEF VenueTypeOK, V
  <2>6. Append(votes[call.paper], e) \in Seq(V)
    BY <2>1, <2>3, <2>5
  <2>7. votes' \in [Paper -> Seq(V)]
    BY <2>4, <2>5, <2>6
  <2> QED
    BY <1>1, <2>2, <2>7 DEF VenueTypeOK, V
<1>3. CASE at \in {"verdict", "deciding"} /\ ChairCommand
  <2>1. /\ call.paper \in Paper
        /\ call.word \in Decision
    BY <1>3 DEF IInv, CallOK, VoteFits, DecisionFits, Paper, Verdict, Decision
  <2>2. status' = [status EXCEPT ![call.paper] = call.word]
        /\ UNCHANGED <<votes, audits, phase, phases, agenda, switches, additions>>
    BY <1>3 DEF ChairCommand, SetStatus, phaseVars, agendaVars
  <2>3. status' \in [Paper -> {"none", "pending", "accepted", "rejected"}]
    BY <1>1, <2>1, <2>2 DEF VenueTypeOK, Decision
  <2> QED
    BY <1>1, <2>2, <2>3 DEF VenueTypeOK
<1>4. CASE at = "auditing" /\ ChairCommand
  <2>1. call.paper \in Paper /\ call.word \in Decision
    BY <1>4 DEF IInv, CallOK, DecisionFits, Paper
  <2>2. audits' = [audits EXCEPT ![call.paper][call.word] = @ + 1]
        /\ UNCHANGED <<votes, status, phase, phases, agenda, switches, additions>>
    BY <1>4 DEF ChairCommand, phaseVars, agendaVars
  <2>3. audits' \in [Paper -> [Decision -> Nat]]
    BY <1>1, <2>1, <2>2 DEF VenueTypeOK
  <2> QED
    BY <1>1, <2>2, <2>3 DEF VenueTypeOK
<1>5. CASE at = "switching" /\ ChairCommand
  <2>1. call.from \in Phase /\ call.to \in Phase
    BY <1>5 DEF IInv, CallOK, SwitchFits
  <2>2. phase' = call.to
        /\ phases' = Append(phases, [from |-> call.from, to |-> call.to, by |-> "chair"])
        /\ UNCHANGED <<votes, status, audits, agenda, switches, additions>>
    BY <1>5 DEF ChairCommand, SwitchTo, paperVars, agendaVars
  <2> DEFINE E == [from : Phase, to : Phase, by : {"chair", "monitor"}]
             e == [from |-> call.from, to |-> call.to, by |-> "chair"]
  <2>3. e \in E
    BY <1>0, <2>1
  <2>4. phases' = Append(phases, e)
    BY <2>2
  <2> HIDE DEF E, e
  <2>5. phases \in Seq(E)
    BY <1>1 DEF VenueTypeOK, E
  <2>6. phases' \in Seq(E)
    BY <2>3, <2>4, <2>5
  <2>7. phase' \in Phase
    BY <1>0, <2>1, <2>2
  <2> QED
    BY <1>1, <2>2, <2>6, <2>7 DEF VenueTypeOK, E
<1>6. CASE at = "advancing" /\ ChairCommand
  <2>1. UNCHANGED <<votes, status, audits, phase, phases, additions>>
    BY <1>6 DEF ChairCommand, paperVars, phaseVars, agendaVars
  <2>2. \/ UNCHANGED <<agenda, switches>>
        \/ /\ \E k \in 1..Len(agenda.todo) :
                agenda.todo[k] = call.item /\ TakeUp(k, call.finished)
           /\ switches' = Append(switches, [item |-> call.item,
                                            finished |-> call.finished,
                                            previous |-> agenda.current])
    BY <1>6 DEF ChairCommand, agendaVars
  <2>3. call.item \in Item /\ call.finished \in BOOLEAN
    BY <1>1, <1>6 DEF IInv, CallOK, SwitchFits, CallType
  <2>4. agenda' \in AgendaType
    BY <1>1, <2>2, <2>3, TakeUpType DEF VenueTypeOK
  <2> DEFINE S == [item : Item, finished : BOOLEAN, previous : Item]
             e == [item |-> call.item, finished |-> call.finished,
                   previous |-> agenda.current]
  <2>5. e \in S
    BY <1>1, <2>3 DEF VenueTypeOK, AgendaType
  <2>6. switches' = switches \/ switches' = Append(switches, e)
    BY <2>2
  <2> HIDE DEF S, e
  <2>7. switches \in Seq(S)
    BY <1>1 DEF VenueTypeOK, S
  <2>8. switches' \in Seq(S)
    BY <2>5, <2>6, <2>7
  <2> QED
    BY <1>1, <2>1, <2>4, <2>8 DEF VenueTypeOK, S
<1>7. CASE at = "adding" /\ ChairCommand
  <2>1. UNCHANGED <<votes, status, audits, phase, phases, switches>>
    BY <1>7 DEF ChairCommand, paperVars, phaseVars, agendaVars
  <2>2. \/ UNCHANGED <<agenda, additions>>
        \/ /\ agenda' = [agenda EXCEPT !.todo = Append(@, call.item)]
           /\ additions' = Append(additions, call.item)
    BY <1>7 DEF ChairCommand, agendaVars
  <2>3. call.item \in Item
    BY <1>7 DEF IInv, CallOK, SwitchFits
  <2>4. additions' \in Seq(Item)
    <3>1. additions \in Seq(Item)
      BY <1>1 DEF VenueTypeOK
    <3> HIDE DEF Item
    <3> QED
      BY <2>2, <2>3, <3>1
  <2>5. agenda' \in AgendaType
    <3>1. Append(agenda.todo, call.item) \in Seq(Item)
      BY <1>1, <2>3 DEF VenueTypeOK, AgendaType
    <3> QED
      BY <1>1, <2>2, <3>1 DEF VenueTypeOK, AgendaType
  <2> QED
    BY <1>1, <2>1, <2>4, <2>5 DEF VenueTypeOK
<1>8. CASE at = "noting" /\ ChairCommand
  BY <1>1, <1>8 DEF ChairCommand, VenueTypeOK, venueVars, paperVars, phaseVars, agendaVars
<1>9. CASE Head(queue) # "chair" /\ EndCommand
  <2>1. monitor.from \in Phase
    BY <1>9 DEF IInv, QueueOK
  <2>2. phase' = Ended
        /\ phases' = Append(phases, [from |-> monitor.from, to |-> Ended, by |-> "monitor"])
        /\ UNCHANGED <<votes, status, audits, agenda, switches, additions>>
    BY <1>9 DEF EndCommand, SwitchTo, paperVars, agendaVars
  <2> DEFINE E == [from : Phase, to : Phase, by : {"chair", "monitor"}]
             e == [from |-> monitor.from, to |-> Ended, by |-> "monitor"]
  <2>3. e \in E
    BY <1>0, <2>1
  <2>4. phases' = Append(phases, e)
    BY <2>2
  <2> HIDE DEF E, e
  <2>5. phases \in Seq(E)
    BY <1>1 DEF VenueTypeOK, E
  <2>6. phases' \in Seq(E)
    BY <2>3, <2>4, <2>5
  <2>7. phase' \in Phase
    BY <1>0, <2>1, <2>2
  <2> QED
    BY <1>1, <2>2, <2>6, <2>7 DEF VenueTypeOK, E
<1> QED
  BY <1>2, <1>3, <1>4, <1>5, <1>6, <1>7, <1>8, <1>9 DEF TakesEffect, ChairCommand

-----------------------------------------------------------------------------
(* What the chair asks for.                                                *)

\* Every command of the chair fits the state it is sent in, and the second
\* command of a call is about the paper of the first.
LEMMA Asks ==
  ASSUME IInv, ChairActs
  PROVE  \/ BeginTurn \/ EndTurn \/ Leave
         \/ \E place \in Commanding, c \in CallType :
              /\ at \notin Commanding \cup {"waiting", "gone"}
              /\ acted < ActionLimit
              /\ Send(place, c) /\ ToolFrame
              /\ at = "voted" => place = "verdict" /\ c.paper = call.paper
              /\ at = "decided" => place = "auditing" /\ c.paper = call.paper
              /\ gate = "open" =>
                   VoteFits(place, c) /\ DecisionFits(place, c) /\ SwitchFits(place, c)
<1> DEFINE Ask(place, c) ==
             /\ at \notin Commanding \cup {"waiting", "gone"}
             /\ acted < ActionLimit
             /\ Send(place, c) /\ ToolFrame
             /\ at = "voted" => place = "verdict" /\ c.paper = call.paper
             /\ at = "decided" => place = "auditing" /\ c.paper = call.paper
             /\ gate = "open" =>
                  VoteFits(place, c) /\ DecisionFits(place, c) /\ SwitchFits(place, c)
           Goal == \E place \in Commanding, c \in CallType : Ask(place, c)
<1>0. /\ call \in CallType /\ phase \in Phase /\ NoCall \in CallType
      /\ status \in [Paper -> {"none", "pending", "accepted", "rejected"}]
      /\ audits \in [Paper -> [Decision -> Nat]]
  BY DEF IInv, TypeOK, CallType, NoCall
<1>1. ASSUME NEW c \in CallType, InTurn, Send("noting", c), ToolFrame PROVE Goal
  <2>1. Ask("noting", c)
    BY <1>1 DEF InTurn, Commanding, VoteFits, DecisionFits, SwitchFits
  <2> QED
    BY <1>1, <2>1 DEF Commanding
<1>2. ASSUME NEW p \in Paper, status[p] = "pending", gate = "open" PROVE
        /\ ~(at \in {"voting", "voted", "verdict"} /\ call.paper = p) =>
             votes[p] = <<>>
        /\ audits[p]["accepted"] = 0 /\ audits[p]["rejected"] = 0
  <2>1. audits[p]["accepted"] \in Nat /\ audits[p]["rejected"] \in Nat
    BY <1>0 DEF Decision
  <2>2. audits[p]["accepted"] = 0 /\ audits[p]["rejected"] = 0
    BY <1>2, <2>1 DEF IInv, DecisionAudited
  <2>3. Verdict(votes[p][1].passed) # "pending"
    BY DEF Verdict
  <2> QED
    BY <1>2, <2>2, <2>3 DEF IInv, VoteMatchesVerdict, Voted, Between
<1>3. ASSUME NEW p \in Paper, NEW b \in Poll, RecordVote(p, b) PROVE Goal
  <2> DEFINE c == [NoCall EXCEPT !.paper = p, !.poll = b]
  <2>1. c \in CallType /\ c.paper = p /\ c.poll = b
    BY <1>0 DEF NoCall, CallType
  <2>2. gate = "open" => votes[p] = <<>>
    BY <1>2, <1>3 DEF RecordVote, InTurn
  <2> HIDE DEF c
  <2>3. Ask("voting", c)
    BY <1>3, <2>1, <2>2
       DEF RecordVote, InTurn, Commanding, VoteFits, DecisionFits, SwitchFits, c
  <2> QED
    BY <2>1, <2>3 DEF Commanding
<1>4. ASSUME SendVerdict PROVE Goal
  <2> DEFINE c == [call EXCEPT !.word = Verdict(VotePassed(call.poll))]
  <2>1. /\ c \in CallType /\ c.paper = call.paper /\ c.poll = call.poll
        /\ c.word = Verdict(VotePassed(call.poll))
    BY <1>0 DEF CallType, Verdict, Decision
  <2> HIDE DEF c
  <2>2. at = "voted" /\ Send("verdict", c) /\ ToolFrame
    BY <1>4 DEF SendVerdict, c
  <2>3. VoteFits("voted", call) /\ acted < ActionLimit
    BY <2>2 DEF IInv, CallOK
  <2>4. Ask("verdict", c)
    BY <2>1, <2>2, <2>3 DEF Commanding, VoteFits, DecisionFits, SwitchFits
  <2> QED
    BY <2>1, <2>4 DEF Commanding
<1>5. ASSUME NEW q \in Resolution, NEW w \in Decision, DecideResolution(q, w) PROVE Goal
  <2> DEFINE c == [NoCall EXCEPT !.paper = q, !.word = w]
  <2>0. q \in Paper
    BY DEF Paper
  <2>1. c \in CallType /\ c.paper = q /\ c.word = w
    BY <1>0, <2>0 DEF NoCall, CallType
  <2>2. gate = "open" => /\ votes[q] = <<>>
                         /\ audits[q]["accepted"] = 0 /\ audits[q]["rejected"] = 0
    BY <1>2, <1>5, <2>0 DEF DecideResolution, InTurn
  <2> HIDE DEF c
  <2>3. Ask("deciding", c)
    BY <1>5, <2>1, <2>2
       DEF DecideResolution, InTurn, Commanding, VoteFits, DecisionFits, SwitchFits, c
  <2> QED
    BY <2>1, <2>3 DEF Commanding
<1>6. ASSUME SendAudit PROVE Goal
  <2>1. at = "decided" /\ Send("auditing", call) /\ ToolFrame
    BY <1>6 DEF SendAudit
  <2>2. DecisionFits("decided", call) /\ acted < ActionLimit
    BY <2>1 DEF IInv, CallOK
  <2>3. Ask("auditing", call)
    BY <2>1, <2>2 DEF Commanding, VoteFits, DecisionFits, SwitchFits
  <2> QED
    BY <1>0, <2>3 DEF Commanding
<1>7. ASSUME NEW to \in Phase, SwitchPhase(to) PROVE Goal
  <2> DEFINE c == [NoCall EXCEPT !.from = phase, !.to = to]
  <2>1. c \in CallType /\ c.from = phase /\ c.to = to
    BY <1>0 DEF NoCall, CallType
  <2>2. Backed(to)
    BY <1>7 DEF SwitchPhase, Backed
  <2> HIDE DEF c
  <2>3. Ask("switching", c)
    BY <1>0, <1>7, <2>1, <2>2
       DEF SwitchPhase, InTurn, Commanding, VoteFits, DecisionFits, SwitchFits, c
  <2> QED
    BY <2>1, <2>3 DEF Commanding
<1>8. ASSUME NEW i \in Item, NEW f \in BOOLEAN, SetAgenda(i, f) PROVE Goal
  <2> DEFINE c == [NoCall EXCEPT !.item = i, !.finished = f]
  <2>1. c \in CallType /\ c.item = i
    BY <1>0 DEF NoCall, CallType
  <2> HIDE DEF c
  <2>3. Ask("advancing", c)
    BY <1>8, <2>1
       DEF SetAgenda, InTurn, Commanding, VoteFits, DecisionFits, SwitchFits, c
  <2> QED
    BY <2>1, <2>3 DEF Commanding
<1>9. ASSUME NEW i \in Item, AddAgenda(i) PROVE Goal
  <2> DEFINE c == [NoCall EXCEPT !.item = i]
  <2>1. c \in CallType /\ c.item = i
    BY <1>0 DEF NoCall, CallType
  <2> HIDE DEF c
  <2>3. Ask("adding", c)
    BY <1>9, <2>1
       DEF AddAgenda, InTurn, Commanding, VoteFits, DecisionFits, SwitchFits, c
  <2> QED
    BY <2>1, <2>3 DEF Commanding
<1>10. ASSUME Notice \/ \E p \in Paper : RequestVote(p) PROVE Goal
  <2>1. InTurn /\ Send("noting", NoCall) /\ ToolFrame
    BY <1>10 DEF Notice, RequestVote
  <2> HIDE DEF Goal
  <2> QED
    BY <1>0, <1>1, <2>1
<1> HIDE DEF Ask, Goal
<1>11. Goal \/ BeginTurn \/ EndTurn \/ Leave
  BY <1>3, <1>4, <1>5, <1>6, <1>7, <1>8, <1>9, <1>10 DEF ChairActs
<1> QED
  BY <1>11 DEF Ask, Goal

-----------------------------------------------------------------------------
(* The queue, the chair and the monitor.                                   *)

ControlTypeOK ==
  /\ power \subseteq Power
  /\ gate \in {"open", "draining", "failed"}
  /\ at \in Places
  /\ call \in CallType
  /\ acted \in 0..ActionLimit
  /\ turns \in 0..MaxTurns
  /\ monitor \in [at : {"watching", "announcing", "announced"},
                  from : Phase \cup {None}]
  /\ stopping \in BOOLEAN
  /\ faults \in 0..MaxFaults

\* A failing venue drops the queue, and who waited in it goes on.
LEMMA FailSteps ==
  ASSUME EngineFails \/ ChairTimesOut
  PROVE  \E place \in {"gone", "turn"} : Fail(place)
BY DEF EngineFails, ChairTimesOut

LEMMA ControlTyped ==
  ASSUME IInv, [Next]_vars PROVE ControlTypeOK'
<1>0. ActionLimit \in Nat /\ MaxTurns \in Nat /\ MaxFaults \in Nat
  BY ChairAssumption DEF ChairAssumption
<1>1. ControlTypeOK /\ phase \in Phase
  BY DEF IInv, TypeOK, ControlTypeOK, CallType
<1>2. NoCall \in CallType
  BY DEF NoCall, CallType
<1>3. CASE UNCHANGED vars
  BY <1>1, <1>3 DEF ControlTypeOK, vars, chairVars
<1>4. CASE Execute
  <2>1. acted + (IF Feasible THEN 1 ELSE 0) \in 0..ActionLimit
        \/ at \in {"waiting", "turn", "gone"}
    BY <1>0, <1>1 DEF IInv, CallOK, ControlTypeOK
  <2>2. Head(queue) = "chair" => at \in Commanding
    BY <1>4 DEF IInv, QueueOK, Execute
  <2>3. at' \in Places /\ call' \in CallType /\ acted' \in 0..ActionLimit
    BY <1>1, <1>2, <1>4, <2>1, <2>2
       DEF Execute, ChairAnswered, ControlTypeOK, Places, Commanding, chairVars
  <2>4. monitor' \in [at : {"watching", "announcing", "announced"},
                      from : Phase \cup {None}]
    BY <1>1, <1>4 DEF Execute, ChairAnswered, ControlTypeOK
  <2> QED
    BY <1>1, <1>4, <2>3, <2>4 DEF Execute, ChairAnswered, ControlTypeOK, chairVars
<1>5. CASE BeginTurn \/ EndTurn \/ Leave
  BY <1>0, <1>1, <1>5
     DEF BeginTurn, EndTurn, Leave, ControlTypeOK, Places
<1>6. ASSUME NEW place \in Commanding, NEW c \in CallType, Send(place, c), ToolFrame
      PROVE  ControlTypeOK'
  BY <1>1, <1>2, <1>6 DEF Send, ToolFrame, ControlTypeOK, Commanding, Places
<1>7. CASE ChairActs
  BY <1>5, <1>6, <1>7, Asks
<1>8. CASE \E p \in Paper : Submit(p)
  BY <1>1, <1>8 DEF Submit, ControlTypeOK, chairVars
<1>9. CASE ConditionHolds
  BY <1>1, <1>9 DEF ConditionHolds, ControlTypeOK, chairVars
<1>10. CASE RequestStop \/ CloseGate
  BY <1>1, <1>10 DEF RequestStop, CloseGate, ControlTypeOK, chairVars
<1>11. ASSUME NEW place \in {"gone", "turn"}, Fail(place) PROVE ControlTypeOK'
  BY <1>0, <1>1, <1>2, <1>11 DEF Fail, ControlTypeOK, Places
<1> QED
  BY <1>3, <1>4, <1>7, <1>8, <1>9, <1>10, <1>11, FailSteps DEF Next

Senders == {"chair", "monitor"}

\* What the operations on sequences make of the values of the queue.
LEMMA QueueValues ==
  /\ Tail(<<"chair">>) = <<>> /\ Tail(<<"monitor">>) = <<>>
  /\ Tail(<<"chair", "monitor">>) = <<"monitor">>
  /\ Tail(<<"monitor", "chair">>) = <<"chair">>
  /\ Append(<<>>, "chair") = <<"chair">> /\ Append(<<>>, "monitor") = <<"monitor">>
  /\ Append(<<"monitor">>, "chair") = <<"monitor", "chair">>
  /\ Append(<<"chair">>, "monitor") = <<"chair", "monitor">>
  /\ <<"chair">> # <<>> /\ <<"monitor">> # <<>> /\ <<"chair">> # <<"monitor">>
  /\ \A q \in {<<"chair", "monitor">>, <<"monitor", "chair">>} :
       q \notin {<<>>, <<"chair">>, <<"monitor">>}
  /\ {<<>>, <<"chair">>, <<"monitor">>, <<"chair", "monitor">>, <<"monitor", "chair">>}
       \subseteq Seq(Senders)
<1>1. /\ Tail(<<"chair">>) = <<>> /\ Tail(<<"monitor">>) = <<>>
      /\ Append(<<>>, "chair") = <<"chair">> /\ Append(<<>>, "monitor") = <<"monitor">>
  OBVIOUS
<1>2. Tail(<<"chair", "monitor">>) = <<"monitor">>
  OBVIOUS
<1>3. Tail(<<"monitor", "chair">>) = <<"chair">>
  OBVIOUS
<1>4. ASSUME NEW a \in Senders, NEW b \in Senders PROVE Append(<<a>>, b) = <<a, b>>
  <2>1. <<a>> \in Seq(Senders) /\ <<a, b>> \in Seq(Senders)
    OBVIOUS
  <2>2. /\ Append(<<a>>, b) \in Seq(Senders) /\ Len(Append(<<a>>, b)) = 2
        /\ Append(<<a>>, b)[1] = a /\ Append(<<a>>, b)[2] = b
    BY <2>1, AppendProperties, SMT
  <2>3. Len(<<a, b>>) = 2 /\ <<a, b>>[1] = a /\ <<a, b>>[2] = b
    OBVIOUS
  <2>4. \A i \in 1..2 : i = 1 \/ i = 2
    OBVIOUS
  <2> QED
    BY <2>1, <2>2, <2>3, <2>4, SeqEqual
<1>5. /\ Append(<<"monitor">>, "chair") = <<"monitor", "chair">>
      /\ Append(<<"chair">>, "monitor") = <<"chair", "monitor">>
  BY <1>4 DEF Senders
<1>6. <<"chair">> # <<>> /\ <<"monitor">> # <<>> /\ <<"chair">> # <<"monitor">>
  OBVIOUS
<1>7. ASSUME NEW q \in {<<"chair", "monitor">>, <<"monitor", "chair">>}
      PROVE  q \notin {<<>>, <<"chair">>, <<"monitor">>}
  <2>1. Len(q) = 2
    OBVIOUS
  <2>2. Len(<<>>) = 0 /\ Len(<<"chair">>) = 1 /\ Len(<<"monitor">>) = 1
    OBVIOUS
  <2> QED
    BY <2>1, <2>2
<1>8. {<<>>, <<"chair">>, <<"monitor">>, <<"chair", "monitor">>, <<"monitor", "chair">>}
        \subseteq Seq(Senders)
  BY DEF Senders
<1> QED
  BY <1>1, <1>2, <1>3, <1>4, <1>5, <1>6, <1>7, <1>8

LEMMA QueueKept ==
  ASSUME IInv, [Next]_vars PROVE QueueOK'
<1>1. QueueOK /\ phase \in Phase
  BY DEF IInv, TypeOK
<1>2. CASE UNCHANGED vars
  BY <1>1, <1>2 DEF QueueOK, vars, chairVars
<1>3. CASE Execute
  <2>1. CASE Head(queue) = "chair"
    <3>1. queue \in {<<"chair">>, <<"chair", "monitor">>} /\ queue' = Tail(queue)
          /\ at' \in {"voted", "decided", "turn"} /\ monitor' = monitor
      BY <1>1, <1>3, <2>1 DEF QueueOK, Execute, ChairAnswered
    <3> QED
      BY <1>1, <3>1, QueueValues DEF QueueOK, Commanding
  <2>2. CASE Head(queue) # "chair"
    <3>1. queue \in {<<"monitor">>, <<"monitor", "chair">>} /\ queue' = Tail(queue)
          /\ at' = at /\ monitor' = [at |-> "announced", from |-> None]
      BY <1>1, <1>3, <2>2 DEF QueueOK, Execute, chairVars
    <3> QED
      BY <1>1, <3>1, QueueValues DEF QueueOK, Commanding
  <2> QED
    BY <2>1, <2>2
<1>4. CASE BeginTurn \/ EndTurn \/ Leave
  BY <1>1, <1>4 DEF BeginTurn, EndTurn, Leave, QueueOK, Commanding
<1>5. ASSUME NEW place \in Commanding, NEW c, at \notin Commanding,
             Send(place, c), ToolFrame
      PROVE  QueueOK'
  <2>1. queue \in {<<>>, <<"monitor">>} /\ monitor' = monitor
    BY <1>1, <1>5 DEF QueueOK, ToolFrame
  <2>2. CASE gate = "open"
    <3>1. queue' = Append(queue, "chair") /\ at' \in Commanding
      BY <1>5, <2>2 DEF Send
    <3> QED
      BY <1>1, <2>1, <3>1, QueueValues DEF QueueOK
  <2>3. CASE gate # "open"
    <3>1. queue' = queue /\ at' = "gone"
      BY <1>5, <2>3 DEF Send
    <3> QED
      BY <1>1, <2>1, <3>1 DEF QueueOK, Commanding
  <2> QED
    BY <2>2, <2>3
<1>6. CASE ChairActs
  BY <1>4, <1>5, <1>6, Asks
<1>7. CASE \E p \in Paper : Submit(p)
  BY <1>1, <1>7 DEF Submit, QueueOK, chairVars
<1>8. CASE ConditionHolds
  <2>1. queue \in {<<>>, <<"chair">>} /\ at' = at
    BY <1>1, <1>8 DEF ConditionHolds, QueueOK, chairVars
  <2>2. \/ monitor' = [at |-> "announced", from |-> None] /\ queue' = queue
        \/ /\ monitor' = [at |-> "announcing", from |-> phase]
           /\ phase # Ended /\ queue' = Append(queue, "monitor")
    BY <1>8 DEF ConditionHolds
  <2> QED
    <3>1. CASE queue' = queue /\ monitor' = [at |-> "announced", from |-> None]
      BY <1>1, <2>1, <3>1 DEF QueueOK
    <3>2. CASE /\ queue' = Append(queue, "monitor") /\ phase # Ended
               /\ monitor' = [at |-> "announcing", from |-> phase]
      <4>1. queue' = IF queue = <<>> THEN <<"monitor">> ELSE <<"chair", "monitor">>
        BY <2>1, <3>2, QueueValues
      <4>2. monitor'.at = "announcing" /\ monitor'.from \in Phase \ {Ended}
        BY <1>1, <3>2
      <4> QED
        BY <1>1, <2>1, <4>1, <4>2, QueueValues DEF QueueOK
    <3> QED
      BY <2>2, <3>1, <3>2
<1>9. CASE RequestStop \/ CloseGate
  BY <1>1, <1>9 DEF RequestStop, CloseGate, QueueOK, chairVars
<1>10. ASSUME NEW place \in {"gone", "turn"}, Fail(place) PROVE QueueOK'
  <2>1. queue' = <<>>
    BY <1>10 DEF Fail
  <2>2. at' \notin Commanding
    <3>1. "chair" \in ToSet(queue) => at' = place
      BY <1>10 DEF Fail
    <3>2. "chair" \notin ToSet(queue) => at' = at /\ queue \in {<<>>, <<"monitor">>}
      BY <1>1, <1>10 DEF Fail, QueueOK, ToSet
    <3> QED
      BY <1>1, <3>1, <3>2 DEF QueueOK, Commanding
  <2>3. monitor'.at # "announcing"
    <3>1. "monitor" \in ToSet(queue) => monitor'.at = "announced"
      BY <1>10 DEF Fail
    <3>2. "monitor" \notin ToSet(queue) => monitor' = monitor /\ queue \in {<<>>, <<"chair">>}
      BY <1>1, <1>10 DEF Fail, QueueOK, ToSet
    <3> QED
      BY <1>1, <3>1, <3>2 DEF QueueOK
  <2> QED
    BY <2>1, <2>2, <2>3 DEF QueueOK
<1> QED
  BY <1>2, <1>3, <1>6, <1>7, <1>8, <1>9, <1>10, FailSteps DEF Next

LEMMA TypeKept ==
  ASSUME IInv, [Next]_vars PROVE TypeOK'
<1>1. VenueTypeOK
  BY DEF IInv, TypeOK, VenueTypeOK, AgendaType
<1>2. ASSUME UNCHANGED venueVars PROVE VenueTypeOK'
  BY <1>1, <1>2 DEF VenueTypeOK, venueVars, paperVars, phaseVars, agendaVars
<1>3. ASSUME NEW p \in Paper, Submit(p) PROVE VenueTypeOK'
  BY <1>1, <1>3 DEF Submit, SetStatus, VenueTypeOK, phaseVars, agendaVars
<1>4. VenueTypeOK'
  BY <1>2, <1>3, VenueSteps, EffectTyped
<1>5. queue' \in Seq({"chair", "monitor"})
  BY QueueKept, QueueValues DEF QueueOK, Senders
<1> QED
  BY <1>4, <1>5, ControlTyped DEF TypeOK, VenueTypeOK, ControlTypeOK, AgendaType, CallType

-----------------------------------------------------------------------------
(* What the places of a call know.                                         *)

LEMMA HeadAndPlace ==
  ASSUME IInv, queue # <<>>
  PROVE  /\ Head(queue) = "chair" => at \in Commanding
         /\ Head(queue) # "chair" => monitor.at = "announcing"
         /\ "chair" \in ToSet(queue) <=> at \in Commanding
         /\ "monitor" \in ToSet(queue) <=> monitor.at = "announcing"
<1>1. QueueOK
  BY DEF IInv
<1>2. queue \in {<<"chair">>, <<"monitor">>, <<"chair", "monitor">>, <<"monitor", "chair">>}
  BY <1>1 DEF QueueOK
<1>3. CASE queue = <<"chair">>
  BY <1>1, <1>3, QueueValues DEF QueueOK, ToSet
<1>4. CASE queue = <<"monitor">>
  BY <1>1, <1>4, QueueValues DEF QueueOK, ToSet
<1>5. CASE queue = <<"chair", "monitor">>
  BY <1>1, <1>5, QueueValues DEF QueueOK, ToSet
<1>6. CASE queue = <<"monitor", "chair">>
  BY <1>1, <1>6, QueueValues DEF QueueOK, ToSet
<1> QED
  BY <1>2, <1>3, <1>4, <1>5, <1>6

\* A call waiting at a place is not touched by what leaves the papers alone.
LEMMA CallStays ==
  ASSUME CallOK, UNCHANGED <<power, paperVars, at, call, acted>>,
         \/ at # "switching"
         \/ UNCHANGED phaseVars
         \/ Crossed("monitor")'
  PROVE  CallOK'
<1>1. VoteFits(at, call)'
  BY DEF CallOK, VoteFits, paperVars
<1>2. DecisionFits(at, call)'
  BY DEF CallOK, DecisionFits, paperVars
<1>3. SwitchFits(at, call)'
  BY DEF CallOK, SwitchFits, Backed, Crossed, paperVars, phaseVars
<1> QED
  BY <1>1, <1>2, <1>3 DEF CallOK

\* The end of the meeting is announced by the last of the phase events.
LEMMA EndIsLast ==
  ASSUME IInv, queue # <<>>, Head(queue) # "chair", EndCommand
  PROVE  /\ phases' # <<>> /\ Len(phases') = Len(phases) + 1
         /\ phases'[Len(phases')].by = "monitor"
<1> DEFINE E == [from : Phase, to : Phase, by : {"chair", "monitor"}]
           e == [from |-> monitor.from, to |-> Ended, by |-> "monitor"]
<1>1. e \in E /\ e.by = "monitor"
  BY HeadAndPlace, ChairAssumption DEF IInv, QueueOK, ChairAssumption
<1>2. phases \in Seq(E) /\ phases' = Append(phases, e)
  BY DEF IInv, TypeOK, EndCommand, SwitchTo
<1> HIDE DEF E, e
<1>3. phases' # <<>> /\ Len(phases') = Len(phases) + 1 /\ phases'[Len(phases) + 1] = e
  BY <1>1, <1>2, AppendProperties
<1> QED
  BY <1>1, <1>3

LEMMA CallKept ==
  ASSUME IInv, [Next]_vars PROVE CallOK'
<1>1. CallOK
  BY DEF IInv
<1>2. ASSUME at' \in {"waiting", "turn", "gone"} PROVE CallOK'
  BY <1>2 DEF CallOK, VoteFits, DecisionFits, SwitchFits
<1>3. CASE UNCHANGED vars
  BY <1>1, <1>3, CallStays DEF vars, venueVars, chairVars
<1>4. CASE Execute /\ Head(queue) = "chair"
  <2>1. at \in Commanding /\ ChairCommand /\ ChairAnswered /\ power' = power
    BY <1>4, HeadAndPlace DEF Execute, TakesEffect
  <2>2. CASE at = "voting"
    <3>1. /\ at' = "voted" /\ call' = call /\ acted' = acted /\ status' = status
          /\ votes' = [votes EXCEPT ![call.paper] =
                         Append(@, [poll |-> call.poll, passed |-> VotePassed(call.poll)])]
      BY <2>1, <2>2 DEF ChairCommand, ChairAnswered, Record
    <3>2. /\ call.paper \in Paper /\ call.poll \in Poll /\ votes[call.paper] = <<>>
          /\ WellCast(call.paper, call.poll) /\ status[call.paper] = "pending"
          /\ acted < ActionLimit
      BY <1>1, <2>2 DEF CallOK, VoteFits
    <3>3. votes'[call.paper] = <<[poll |-> call.poll, passed |-> VotePassed(call.poll)]>>
      BY <3>1, <3>2 DEF IInv, TypeOK
    <3>4. Len(votes'[call.paper]) = 1 /\ votes'[call.paper][1].passed = VotePassed(call.poll)
      BY <3>3
    <3> QED
      BY <3>1, <3>2, <3>4 DEF CallOK, VoteFits, DecisionFits, SwitchFits
  <2>3. CASE at = "deciding"
    <3>1. /\ at' = "decided" /\ call' = call /\ acted' = acted
          /\ votes' = votes /\ audits' = audits
          /\ status' = [status EXCEPT ![call.paper] = call.word]
      BY <2>1, <2>3 DEF ChairCommand, ChairAnswered, SetStatus
    <3>2. DecisionFits("deciding", call) /\ acted < ActionLimit
      BY <1>1, <2>3 DEF CallOK
    <3>3. status'[call.paper] = call.word
      BY <3>1, <3>2 DEF DecisionFits, IInv, TypeOK, Paper
    <3> QED
      BY <2>1, <3>1, <3>2, <3>3 DEF CallOK, VoteFits, DecisionFits, SwitchFits
  <2>4. CASE at \notin {"voting", "deciding"}
    BY <1>2, <2>1, <2>4 DEF ChairAnswered
  <2> QED
    BY <2>2, <2>3, <2>4
<1>5. CASE Execute /\ Head(queue) # "chair"
  <2>1. EndCommand /\ UNCHANGED <<power, at, call, acted>> /\ queue # <<>>
    BY <1>5 DEF Execute, TakesEffect, chairVars
  <2>2. Crossed("monitor")'
    BY <1>5, <2>1, EndIsLast DEF Crossed
  <2> QED
    BY <1>1, <2>1, <2>2, CallStays DEF EndCommand
<1>6. CASE BeginTurn \/ EndTurn \/ Leave
  BY <1>2, <1>6 DEF BeginTurn, EndTurn, Leave
<1>7. ASSUME NEW place \in Commanding, NEW c \in CallType,
             Send(place, c), ToolFrame, acted < ActionLimit,
             gate = "open" =>
               VoteFits(place, c) /\ DecisionFits(place, c) /\ SwitchFits(place, c)
      PROVE  CallOK'
  <2>1. CASE gate # "open"
    BY <1>2, <1>7, <2>1 DEF Send
  <2>2. CASE gate = "open"
    <3>1. at' = place /\ call' = c /\ acted' = acted /\ power' = power
          /\ UNCHANGED <<status, votes, audits, phase, phases>>
      BY <1>7, <2>2 DEF Send, ToolFrame, venueVars, paperVars, phaseVars
    <3>2. VoteFits(place, c) /\ DecisionFits(place, c) /\ SwitchFits(place, c)
      BY <1>7, <2>2
    <3>3. VoteFits(at, call)'
      BY <3>1, <3>2 DEF VoteFits
    <3>4. DecisionFits(at, call)'
      BY <3>1, <3>2 DEF DecisionFits
    <3>5. SwitchFits(at, call)'
      BY <3>1, <3>2 DEF SwitchFits, Backed, Crossed
    <3> QED
      BY <1>7, <3>1, <3>3, <3>4, <3>5 DEF CallOK
  <2> QED
    BY <2>1, <2>2
<1>8. CASE ChairActs
  BY <1>6, <1>7, <1>8, Asks
<1>9. ASSUME NEW p \in Paper, Submit(p) PROVE CallOK'
  <2>1. /\ status[p] = "none" /\ status' = [status EXCEPT ![p] = "pending"]
        /\ UNCHANGED <<power, votes, audits, phase, phases, at, call, acted>>
    BY <1>9 DEF Submit, SetStatus, phaseVars, chairVars
  <2>2. \A r \in Paper : status[r] # "none" => status'[r] = status[r]
    BY <2>1 DEF IInv, TypeOK
  <2>3. VoteFits(at, call)'
    BY <1>1, <2>1, <2>2 DEF CallOK, VoteFits
  <2>4. DecisionFits(at, call)'
    BY <1>1, <2>1, <2>2 DEF CallOK, DecisionFits, Paper, Decision
  <2>5. SwitchFits(at, call)'
    BY <1>1, <2>1, <2>2 DEF CallOK, SwitchFits, Backed, Crossed, Paper
  <2> QED
    BY <1>1, <2>1, <2>3, <2>4, <2>5 DEF CallOK
<1>10. CASE ConditionHolds \/ RequestStop \/ CloseGate
  BY <1>1, <1>10, CallStays
     DEF ConditionHolds, RequestStop, CloseGate, venueVars, chairVars
<1>11. ASSUME NEW place \in {"gone", "turn"}, Fail(place) PROVE CallOK'
  <2>1. CASE "chair" \in ToSet(queue)
    BY <1>2, <1>11, <2>1 DEF Fail
  <2>2. CASE "chair" \notin ToSet(queue)
    <3>1. UNCHANGED <<power, at, call, acted>>
      BY <1>11, <2>2 DEF Fail
    <3>2. at \notin Commanding
      BY <2>2, HeadAndPlace DEF IInv, QueueOK
    <3>3. UNCHANGED venueVars \/ EndCommand
      BY <1>11, <3>2, HeadAndPlace DEF Fail, TakesEffect
    <3> QED
      BY <1>1, <3>1, <3>2, <3>3, CallStays DEF EndCommand, venueVars, Commanding
  <2> QED
    BY <2>1, <2>2
<1> QED
  BY <1>3, <1>4, <1>5, <1>8, <1>9, <1>10, <1>11, FailSteps DEF Next

-----------------------------------------------------------------------------
(* The phase events.                                                       *)

PhaseEvent == [from : Phase, to : Phase, by : {"chair", "monitor"}]

\* One step adds at most one phase event, the chair's or the monitor's.
LEMMA PhaseSteps ==
  ASSUME IInv, [Next]_vars
  PROVE  \/ UNCHANGED phaseVars
         \/ \E e \in PhaseEvent :
              /\ SwitchTo(e.to, e)
              /\ \/ /\ at = "switching" /\ Head(queue) = "chair" /\ queue # <<>>
                    /\ e.by = "chair" /\ e.from = call.from
                    /\ e.to = call.to /\ UNCHANGED <<status, votes>>
                 \/ /\ monitor.at = "announcing" /\ Head(queue) # "chair" /\ queue # <<>>
                    /\ e.by = "monitor" /\ e.from = monitor.from
                    /\ e.to = Ended /\ UNCHANGED <<status, votes>>
<1>1. CASE UNCHANGED venueVars \/ \E p \in Paper : Submit(p)
  BY <1>1 DEF venueVars, Submit
<1>2. CASE queue # <<>> /\ TakesEffect /\ Head(queue) = "chair"
  <2>1. ChairCommand
    BY <1>2 DEF TakesEffect
  <2>2. CASE at # "switching"
    BY <2>1, <2>2 DEF ChairCommand, venueVars
  <2>3. CASE at = "switching"
    <3> DEFINE e == [from |-> call.from, to |-> call.to, by |-> "chair"]
    <3>1. SwitchTo(call.to, e) /\ UNCHANGED <<status, votes>>
      BY <2>1, <2>3 DEF ChairCommand, paperVars
    <3>2. e \in PhaseEvent /\ e.to = call.to /\ e.from = call.from /\ e.by = "chair"
      BY <2>3 DEF IInv, CallOK, SwitchFits, PhaseEvent
    <3> HIDE DEF e
    <3> QED
      BY <1>2, <2>3, <3>1, <3>2
  <2> QED
    BY <2>2, <2>3
<1>3. CASE queue # <<>> /\ TakesEffect /\ Head(queue) # "chair"
  <2> DEFINE e == [from |-> monitor.from, to |-> Ended, by |-> "monitor"]
  <2>1. monitor.at = "announcing" /\ SwitchTo(Ended, e) /\ UNCHANGED <<status, votes>>
    BY <1>3, HeadAndPlace DEF TakesEffect, EndCommand, paperVars
  <2>2. e \in PhaseEvent /\ e.to = Ended /\ e.from = monitor.from /\ e.by = "monitor"
    BY <2>1, ChairAssumption DEF IInv, QueueOK, PhaseEvent, ChairAssumption
  <2> HIDE DEF e
  <2> QED
    BY <1>3, <2>1, <2>2
<1> QED
  BY <1>1, <1>2, <1>3, VenueSteps

\* The monitor starts to announce with the phase at hand, and is done when its
\* event is carried out or the venue has failed.
LEMMA MonitorSteps ==
  ASSUME IInv, [Next]_vars
  PROVE  \/ monitor' = monitor /\ ~(queue # <<>> /\ Head(queue) # "chair"
                                    /\ phases' # phases)
         \/ monitor'.at = "announced"
         \/ monitor.at = "watching" /\ monitor'.from = phase /\ UNCHANGED phaseVars
<1>1. CASE UNCHANGED vars \/ ChairActs
  <2>1. monitor' = monitor /\ phases' = phases
    BY <1>1 DEF vars, venueVars, phaseVars, ChairActs, BeginTurn, EndTurn, Leave, Notice,
         SendVerdict, SendAudit, RequestVote, RecordVote, DecideResolution,
         SwitchPhase, SetAgenda, AddAgenda, ToolFrame
  <2> QED
    BY <2>1
<1>2. CASE Execute
  BY <1>2 DEF Execute, ChairAnswered
<1>3. CASE \E p \in Paper : Submit(p)
  BY <1>3 DEF Submit, phaseVars
<1>4. CASE ConditionHolds
  BY <1>4 DEF ConditionHolds, venueVars, phaseVars
<1>5. CASE RequestStop \/ CloseGate
  BY <1>5 DEF RequestStop, CloseGate, venueVars, phaseVars
<1>6. ASSUME NEW place \in {"gone", "turn"}, Fail(place)
      PROVE  \/ monitor'.at = "announced"
             \/ monitor' = monitor /\ ~(queue # <<>> /\ Head(queue) # "chair")
  BY <1>6, HeadAndPlace DEF Fail
<1> QED
  BY <1>1, <1>2, <1>3, <1>4, <1>5, <1>6, FailSteps DEF Next

LEMMA MonitorKept ==
  ASSUME IInv, [Next]_vars PROVE MonitorOK'
<1>1. MonitorOK /\ phases \in Seq(PhaseEvent)
  BY DEF IInv, TypeOK, PhaseEvent
<1>2. CASE monitor'.at = "announced"
  BY <1>2 DEF MonitorOK
<1>3. CASE UNCHANGED phaseVars /\ monitor' = monitor
  BY <1>1, <1>3 DEF MonitorOK, Crossed, phaseVars
<1>4. CASE monitor.at = "watching" /\ monitor'.from = phase /\ UNCHANGED phaseVars
  BY <1>1, <1>4 DEF MonitorOK, phaseVars
<1>5. CASE monitor' = monitor /\ phases' # phases
           /\ ~(queue # <<>> /\ Head(queue) # "chair" /\ phases' # phases)
  <2>1. PICK e \in PhaseEvent : phases' = Append(phases, e) /\ e.by = "chair"
    BY <1>5, PhaseSteps DEF SwitchTo, phaseVars
  <2>2. /\ phases' # <<>> /\ Len(phases') = Len(phases) + 1
        /\ phases'[Len(phases) + 1] = e /\ Len(phases) \in Nat
        /\ \A i \in 1..Len(phases) : phases'[i] = phases[i]
    BY <1>1, <2>1, AppendProperties, LenProperties
  <2>3. Crossed("chair")'
    BY <2>1, <2>2 DEF Crossed
  <2>4. ASSUME monitor.at # "announced", NEW i \in 1..Len(phases')
        PROVE  phases'[i].by = "chair"
    <3>1. i \in 1..Len(phases) \/ i = Len(phases) + 1
      BY <2>2
    <3> QED
      BY <1>1, <2>1, <2>2, <2>4, <3>1 DEF MonitorOK
  <2> QED
    BY <1>5, <2>3, <2>4 DEF MonitorOK
<1>6. CASE monitor' = monitor /\ phases' = phases
  <2>1. UNCHANGED phaseVars
    <3>1. ASSUME NEW e \in PhaseEvent PROVE Append(phases, e) # phases
      <4>1. Len(Append(phases, e)) = Len(phases) + 1 /\ Len(phases) \in Nat
        BY <1>1, AppendProperties, LenProperties
      <4> QED
        BY <4>1
    <3> QED
      BY <1>6, <3>1, PhaseSteps DEF SwitchTo
  <2> QED
    BY <1>3, <1>6, <2>1
<1> QED
  BY <1>2, <1>4, <1>5, <1>6, MonitorSteps

LEMMA ChainKept ==
  ASSUME IInv, [Next]_vars PROVE PhaseChain'
<1>1. PhaseChain /\ phases \in Seq(PhaseEvent)
  BY DEF IInv, TypeOK, PhaseEvent
<1>2. CASE UNCHANGED phaseVars
  BY <1>1, <1>2 DEF PhaseChain, phaseVars, Last
<1>3. ASSUME NEW e \in PhaseEvent, SwitchTo(e.to, e),
             \/ /\ at = "switching" /\ e.by = "chair" /\ e.from = call.from
             \/ /\ monitor.at = "announcing" /\ e.by = "monitor" /\ e.from = monitor.from
      PROVE  PhaseChain'
  <2> DEFINE n == Len(phases)
  <2>1. /\ phases' # <<>> /\ Len(phases') = n + 1 /\ n \in Nat
        /\ phases'[n + 1] = e /\ \A i \in 1..n : phases'[i] = phases[i]
    BY <1>1, <1>3, AppendProperties, LenProperties DEF SwitchTo
  <2>2. phase' = Last(phases').to
    BY <1>3, <2>1 DEF SwitchTo, Last
  <2>3. \/ e.from = phase
        \/ phases # <<>> /\ phases[n].by # e.by
    BY <1>3 DEF IInv, CallOK, SwitchFits, MonitorOK, Crossed
  <2>4. \/ e.from = IF n + 1 = 1 THEN FirstPhase ELSE phases[n].to
        \/ n + 1 > 1 /\ e.by # phases[n].by
    <3>1. CASE phases = <<>>
      BY <1>1, <2>1, <2>3, <3>1 DEF PhaseChain
    <3>2. CASE phases # <<>>
      <4>1. n > 0 /\ phase = phases[n].to
        BY <1>1, <2>1, <3>2, EmptySeq DEF PhaseChain, Last
      <4> QED
        BY <2>1, <2>3, <4>1
    <3> QED
      BY <3>1, <3>2
  <2>5. e.by = "monitor" => e.from # Ended /\ \A j \in 1..n : phases[j].by = "chair"
    BY <1>3 DEF IInv, QueueOK, MonitorOK
  <2>6. e.by = "chair" \/ e.by = "monitor"
    BY DEF PhaseEvent
  <2> HIDE DEF n
  <2>7. ASSUME NEW i \in 1..(n + 1)
        PROVE  /\ \/ phases'[i].from = IF i = 1 THEN FirstPhase ELSE phases'[i - 1].to
                  \/ i > 1 /\ phases'[i].by # phases'[i - 1].by
               /\ phases'[i].by = "monitor" =>
                    /\ phases'[i].from # Ended
                    /\ \A j \in (i + 1)..(n + 1) : phases'[j].by = "chair"
    <3>1. CASE i = n + 1
      <4>1. n + 1 > 1 => phases'[n] = phases[n]
        BY <2>1
      <4> QED
        BY <2>1, <2>4, <2>5, <3>1, <4>1
    <3>2. CASE i \in 1..n
      <4>1. phases'[i] = phases[i] /\ (i > 1 => phases'[i - 1] = phases[i - 1])
        BY <2>1, <3>2
      <4>2. /\ \/ phases[i].from = IF i = 1 THEN FirstPhase ELSE phases[i - 1].to
               \/ i > 1 /\ phases[i].by # phases[i - 1].by
            /\ phases[i].by = "monitor" =>
                 /\ phases[i].from # Ended
                 /\ \A j \in (i + 1)..n : phases[j].by = "chair"
        BY <1>1, <3>2 DEF PhaseChain, n
      <4>3. ASSUME phases[i].by = "monitor", NEW j \in (i + 1)..(n + 1)
            PROVE  phases'[j].by = "chair"
        <5>1. CASE j = n + 1
          BY <2>1, <2>5, <2>6, <3>2, <4>3, <5>1
        <5>2. CASE j # n + 1
          <6>1. j \in (i + 1)..n /\ j \in 1..n
            BY <2>1, <3>2, <5>2
          <6> QED
            BY <2>1, <4>2, <4>3, <6>1
        <5> QED
          BY <5>1, <5>2
      <4>4. i = 1 \/ i > 1
        BY <3>2
      <4> QED
        BY <4>1, <4>2, <4>3, <4>4
    <3> QED
      BY <2>1, <3>1, <3>2
  <2>8. Len(phases') = n + 1
    BY <2>1
  <2> QED
    BY <2>1, <2>2, <2>7, <2>8 DEF PhaseChain
<1> QED
  BY <1>2, <1>3, PhaseSteps

-----------------------------------------------------------------------------
(* Votes, verdicts, decisions and audits.                                  *)

\* What stands of a motion or resolution wherever the chair is.
Core(p) ==
  /\ Len(votes[p]) <= 1
  /\ Voted(p) => status[p] \in {Verdict(votes[p][1].passed), "pending"}
  /\ \A s \in {"accepted", "rejected"} : audits[p][s] > 0 =>
       audits[p][s] = 1 /\ status[p] = s /\ ~Voted(p)

\* An effect opens a vote or decision only at the first command of a call, and
\* the second command of that call closes it.
EffectLeaves(p) ==
  /\ Core(p)'
  /\ VoteOpen(p)' => \/ VoteOpen(p) /\ ~(at = "verdict" /\ p = call.paper)
                     \/ at = "voting" /\ p = call.paper
  /\ DecisionOpen(p)' => \/ DecisionOpen(p) /\ ~(at = "auditing" /\ p = call.paper)
                         \/ at = "deciding" /\ p = call.paper

\* The papers a call is about, by its place.
LEMMA CallPapers ==
  ASSUME IInv
  PROVE  /\ at \in {"voting", "verdict"} =>
              call.paper \in Paper /\ call.poll \in Poll /\ status[call.paper] = "pending"
         /\ at = "voting" => votes[call.paper] = <<>>
         /\ at = "verdict" =>
              /\ Len(votes[call.paper]) = 1
              /\ call.word = Verdict(votes[call.paper][1].passed)
         /\ at \in {"deciding", "auditing"} =>
              /\ call.paper \in Paper /\ call.paper \in Resolution
              /\ call.word \in Decision
              /\ "decide_resolution" \in power
              /\ votes[call.paper] = <<>>
              /\ audits[call.paper]["accepted"] = 0
              /\ audits[call.paper]["rejected"] = 0
         /\ at = "deciding" => status[call.paper] = "pending"
         /\ at = "auditing" => status[call.paper] = call.word
BY DEF IInv, CallOK, VoteFits, DecisionFits, Paper

LEMMA CoreOK ==
  ASSUME IInv, NEW p \in Paper
  PROVE  /\ Core(p)
         /\ VoteOpen(p) => Between(p, {"voted", "verdict"}) \/ gate # "open"
         /\ DecisionOpen(p) => Between(p, {"decided", "auditing"}) \/ gate # "open"
         /\ votes[p] \in Seq([poll : Poll, passed : BOOLEAN])
         /\ audits[p] \in [Decision -> Nat]
         /\ \A b \in BOOLEAN : Verdict(b) \in {"accepted", "rejected"}
<1>1. VoteMatchesVerdict /\ DecisionAudited /\ TypeOK
  BY DEF IInv
<1>2. \A b \in BOOLEAN : Verdict(b) \in {"accepted", "rejected"}
  BY DEF Verdict
<1>3. votes[p] \in Seq([poll : Poll, passed : BOOLEAN]) /\ audits[p] \in [Decision -> Nat]
  BY <1>1 DEF TypeOK
<1>4. Voted(p) => votes[p][1].passed \in BOOLEAN
  <2>1. ASSUME NEW S, NEW s \in Seq(S), s # <<>> PROVE s[1] \in S
    BY <2>1
  <2>2. Voted(p) => votes[p][1] \in [poll : Poll, passed : BOOLEAN]
    BY <1>3, <2>1 DEF Voted
  <2> QED
    BY <2>2
<1>5. Core(p)
  BY <1>1 DEF Core, VoteMatchesVerdict, DecisionAudited
<1>6. VoteOpen(p) => Between(p, {"voted", "verdict"}) \/ gate # "open"
  BY <1>1, <1>2, <1>4 DEF VoteOpen, VoteMatchesVerdict
<1>7. DecisionOpen(p) => Between(p, {"decided", "auditing"}) \/ gate # "open"
  BY <1>1 DEF DecisionOpen, DecisionAudited
<1> QED
  BY <1>2, <1>3, <1>5, <1>6, <1>7

LEMMA EffectPapersOK ==
  ASSUME IInv, EffectOnPapers, NEW p \in Paper
  PROVE  EffectLeaves(p)
<1>1. Core(p) /\ votes[p] \in Seq([poll : Poll, passed : BOOLEAN])
      /\ audits[p] \in [Decision -> Nat]
  BY CoreOK
<1>2. /\ votes \in [Paper -> Seq([poll : Poll, passed : BOOLEAN])]
      /\ status \in [Paper -> {"none", "pending", "accepted", "rejected"}]
      /\ audits \in [Paper -> [Decision -> Nat]]
  BY DEF IInv, TypeOK
<1>3. ASSUME votes'[p] = votes[p], status'[p] = status[p], audits'[p] = audits[p],
             ~(at = "verdict" /\ p = call.paper), ~(at = "auditing" /\ p = call.paper)
      PROVE  EffectLeaves(p)
  BY <1>1, <1>3 DEF EffectLeaves, Core, VoteOpen, DecisionOpen, Voted, Decided
<1>4. CASE UNCHANGED paperVars /\ at \notin {"voting", "verdict", "deciding", "auditing"}
  BY <1>3, <1>4 DEF paperVars
<1>5. CASE /\ at = "voting" /\ UNCHANGED <<status, audits>>
           /\ Record(call.paper, [poll |-> call.poll, passed |-> VotePassed(call.poll)])
  <2>1. call.paper \in Paper /\ status[call.paper] = "pending" /\ votes[call.paper] = <<>>
    BY <1>5, CallPapers
  <2>2. CASE p # call.paper
    <3>1. votes'[p] = votes[p]
      BY <1>2, <1>5, <2>2 DEF Record
    <3> QED
      BY <1>3, <1>5, <3>1
  <2>3. CASE p = call.paper
    <3>1. votes'[p] = <<[poll |-> call.poll, passed |-> VotePassed(call.poll)]>>
      BY <1>2, <1>5, <2>1, <2>3 DEF Record
    <3>2. Len(votes'[p]) = 1 /\ votes'[p] # <<>> /\ status'[p] = "pending"
      BY <1>5, <2>1, <2>3, <3>1
    <3>3. \A s \in {"accepted", "rejected"} : audits'[p][s] = audits[p][s] /\ ~(audits[p][s] > 0)
      BY <1>1, <1>5, <2>1, <2>3 DEF Core
    <3> QED
      BY <1>5, <2>3, <3>2, <3>3
         DEF EffectLeaves, Core, VoteOpen, DecisionOpen, Voted, Decided
  <2> QED
    BY <2>2, <2>3
<1>6. CASE at \in {"verdict", "deciding"} /\ UNCHANGED <<votes, audits>>
           /\ SetStatus(call.paper, call.word)
  <2>1. call.paper \in Paper /\ status[call.paper] = "pending"
    BY <1>6, CallPapers
  <2>2. CASE p # call.paper
    <3>1. status'[p] = status[p]
      BY <1>2, <1>6, <2>2 DEF SetStatus
    <3> QED
      BY <1>3, <1>6, <2>2, <3>1
  <2>3. CASE p = call.paper
    <3>1. status'[p] = call.word
      BY <1>2, <1>6, <2>1, <2>3 DEF SetStatus
    <3>2. \A s \in {"accepted", "rejected"} : audits'[p][s] = audits[p][s] /\ ~(audits[p][s] > 0)
      BY <1>1, <1>6, <2>1, <2>3 DEF Core
    <3>3. CASE at = "verdict"
      <4>1. /\ votes'[p] = votes[p] /\ Len(votes[p]) = 1 /\ votes[p] # <<>>
            /\ status'[p] = Verdict(votes[p][1].passed)
        BY <1>6, <2>3, <3>1, <3>3, CallPapers
      <4>2. status'[p] # "pending"
        BY <4>1 DEF Verdict
      <4> QED
        BY <3>2, <4>1, <4>2
           DEF EffectLeaves, Core, VoteOpen, DecisionOpen, Voted, Decided
    <3>4. CASE at = "deciding"
      <4>1. votes'[p] = <<>>
        BY <1>6, <2>3, <3>4, CallPapers
      <4> QED
        BY <2>3, <3>2, <3>4, <4>1
           DEF EffectLeaves, Core, VoteOpen, DecisionOpen, Voted, Decided
    <3> QED
      BY <1>6, <3>3, <3>4
  <2> QED
    BY <2>2, <2>3
<1>7. CASE at = "auditing" /\ UNCHANGED <<status, votes>>
           /\ audits' = [audits EXCEPT ![call.paper][call.word] = @ + 1]
  <2>1. /\ call.paper \in Paper /\ call.word \in Decision
        /\ votes[call.paper] = <<>> /\ status[call.paper] = call.word
        /\ audits[call.paper]["accepted"] = 0 /\ audits[call.paper]["rejected"] = 0
    BY <1>7, CallPapers
  <2>2. CASE p # call.paper
    <3>1. audits'[p] = audits[p]
      BY <1>2, <1>7, <2>2
    <3> QED
      BY <1>3, <1>7, <2>2, <3>1
  <2>3. CASE p = call.paper
    <3>1. audits'[p] = [audits[p] EXCEPT ![call.word] = @ + 1]
      BY <1>2, <1>7, <2>1, <2>3
    <3>2. \A s \in {"accepted", "rejected"} :
            audits'[p][s] = IF s = call.word THEN 1 ELSE 0
      BY <1>1, <2>1, <2>3, <3>1 DEF Decision
    <3>3. votes'[p] = <<>> /\ status'[p] = call.word
      BY <1>7, <2>1, <2>3
    <3> QED
      BY <3>2, <3>3 DEF EffectLeaves, Core, VoteOpen, DecisionOpen, Voted, Decided
  <2> QED
    BY <2>2, <2>3
<1> QED
  BY <1>4, <1>5, <1>6, <1>7 DEF EffectOnPapers

\* What has to be shown of one motion or resolution.
PaperOK(p) ==
  /\ Core(p)
  /\ VoteOpen(p) => Between(p, {"voted", "verdict"}) \/ gate # "open"
  /\ DecisionOpen(p) => Between(p, {"decided", "auditing"}) \/ gate # "open"

LEMMA PaperKept ==
  ASSUME IInv, [Next]_vars, NEW p \in Paper PROVE PaperOK(p)'
<1>1. PaperOK(p)
  BY CoreOK DEF PaperOK
<1>2. ASSUME UNCHANGED paperVars PROVE Core(p)' /\ VoteOpen(p)' = VoteOpen(p)
                                       /\ DecisionOpen(p)' = DecisionOpen(p)
  BY <1>1, <1>2 DEF PaperOK, Core, VoteOpen, DecisionOpen, Voted, Decided, paperVars
<1>3. ASSUME UNCHANGED paperVars, gate' # "open" PROVE PaperOK(p)'
  BY <1>2, <1>3 DEF PaperOK
<1>4. ASSUME UNCHANGED <<paperVars, gate, at, call>> PROVE PaperOK(p)'
  BY <1>1, <1>2, <1>4 DEF PaperOK, Between
<1>5. CASE UNCHANGED vars
  BY <1>4, <1>5 DEF vars, venueVars, chairVars
<1>6. CASE Execute /\ Head(queue) = "chair"
  <2>1. EffectLeaves(p) /\ at \in Commanding /\ ChairAnswered /\ gate' = gate
    BY <1>6, EffectPapers, EffectPapersOK, HeadAndPlace DEF Execute
  <2>2. VoteOpen(p)' => Between(p, {"voted", "verdict"})' \/ gate' # "open"
    BY <1>1, <2>1 DEF EffectLeaves, PaperOK, Between, Commanding, ChairAnswered
  <2>3. DecisionOpen(p)' => Between(p, {"decided", "auditing"})' \/ gate' # "open"
    BY <1>1, <2>1 DEF EffectLeaves, PaperOK, Between, Commanding, ChairAnswered
  <2> QED
    BY <2>1, <2>2, <2>3 DEF PaperOK, EffectLeaves
<1>7. CASE Execute /\ Head(queue) # "chair"
  BY <1>4, <1>7, EffectPapers DEF Execute, chairVars
<1>8. CASE BeginTurn \/ EndTurn \/ Leave
  <2>1. at \in {"waiting", "turn"} /\ gate' = gate /\ UNCHANGED paperVars
    BY <1>8 DEF BeginTurn, EndTurn, Leave, venueVars
  <2> QED
    BY <1>1, <1>2, <2>1 DEF PaperOK, Between
<1>9. ASSUME NEW place \in Commanding, NEW c \in CallType, at \notin Commanding,
             Send(place, c), ToolFrame,
             at = "voted" => place = "verdict" /\ c.paper = call.paper,
             at = "decided" => place = "auditing" /\ c.paper = call.paper
      PROVE  PaperOK(p)'
  <2>1. gate' = gate /\ UNCHANGED paperVars
    BY <1>9 DEF ToolFrame, venueVars
  <2>2. CASE gate # "open"
    BY <1>3, <2>1, <2>2
  <2>3. CASE gate = "open"
    <3>1. at' = place /\ call' = c
      BY <1>9, <2>3 DEF Send
    <3> QED
      BY <1>1, <1>2, <1>9, <2>1, <2>3, <3>1 DEF PaperOK, Between, Commanding
  <2> QED
    BY <2>2, <2>3
<1>10. CASE ChairActs
  BY <1>8, <1>9, <1>10, Asks
<1>11. ASSUME NEW r \in Paper, Submit(r) PROVE PaperOK(p)'
  <2>1. /\ status[r] = "none" /\ status' = [status EXCEPT ![r] = "pending"]
        /\ UNCHANGED <<votes, audits, gate, at, call>>
    BY <1>11 DEF Submit, SetStatus, chairVars
  <2>2. CASE p # r
    <3>1. status'[p] = status[p]
      BY <2>1, <2>2 DEF IInv, TypeOK
    <3> QED
      BY <1>1, <2>1, <3>1 DEF PaperOK, Core, VoteOpen, DecisionOpen, Voted, Decided, Between
  <2>3. CASE p = r
    <3>1. status'[p] = "pending"
      BY <2>1, <2>3 DEF IInv, TypeOK
    <3>2. ~Voted(p)
      <4>1. Voted(p) => votes[p][1].passed \in BOOLEAN
        <5>1. ASSUME NEW S, NEW s \in Seq(S), s # <<>> PROVE s[1] \in S
          BY <5>1
        <5>2. Voted(p) => votes[p][1] \in [poll : Poll, passed : BOOLEAN]
          BY CoreOK, <5>1 DEF Voted
        <5> QED
          BY <5>2
      <4>2. Voted(p) => status[p] \in {"accepted", "rejected", "pending"}
        BY <1>1, <4>1, CoreOK DEF PaperOK, Core
      <4> QED
        BY <2>1, <2>3, <4>2
    <3>3. \A s \in {"accepted", "rejected"} : ~(audits[p][s] > 0)
      BY <1>1, <2>1, <2>3 DEF PaperOK, Core
    <3> QED
      BY <1>1, <2>1, <3>1, <3>2, <3>3
         DEF PaperOK, Core, VoteOpen, DecisionOpen, Voted, Decided
  <2> QED
    BY <2>2, <2>3
<1>12. CASE ConditionHolds \/ RequestStop
  BY <1>4, <1>12 DEF ConditionHolds, RequestStop, venueVars, chairVars
<1>13. CASE CloseGate
  BY <1>3, <1>13 DEF CloseGate, venueVars
<1>14. ASSUME NEW place \in {"gone", "turn"}, Fail(place) PROVE PaperOK(p)'
  <2>1. gate' = "failed"
    BY <1>14 DEF Fail
  <2>2. Core(p)'
    BY <1>2, <1>14, EffectPapers, EffectPapersOK DEF Fail, venueVars, EffectLeaves
  <2> QED
    BY <2>1, <2>2 DEF PaperOK
<1> QED
  BY <1>5, <1>6, <1>7, <1>10, <1>11, <1>12, <1>13, <1>14, FailSteps DEF Next

LEMMA PapersKept ==
  ASSUME IInv, [Next]_vars PROVE DecisionsOnRecord'
<1>1. \A p \in Paper : PaperOK(p)'
  BY PaperKept
<1>2. VoteMatchesVerdict'
  BY <1>1 DEF VoteMatchesVerdict, PaperOK, Core, VoteOpen
<1>3. DecisionAudited'
  BY <1>1 DEF DecisionAudited, PaperOK, Core, DecisionOpen
<1> QED
  BY <1>2, <1>3 DEF DecisionsOnRecord

-----------------------------------------------------------------------------
(* What a venue that closes leaves half done.                              *)

LEMMA CutKept ==
  ASSUME IInv, [Next]_vars PROVE CutShort'
<1> SUFFICES ASSUME NEW p \in Paper, HalfDone(p)', ~UnderWay(p)' PROVE at' \in Resting
  BY DEF CutShort
<1>1. gate' # "open"
  BY PaperKept DEF PaperOK, HalfDone, UnderWay, Between
<1>2. CutShort
  BY DEF IInv
<1>3. ASSUME UNCHANGED <<paperVars, at, call>> PROVE at' \in Resting
  BY <1>2, <1>3 DEF CutShort, HalfDone, VoteOpen, DecisionOpen, Voted, Decided, UnderWay,
                    Between, paperVars
<1>4. CASE UNCHANGED vars
  BY <1>3, <1>4 DEF vars, venueVars, chairVars
<1>5. CASE Execute /\ Head(queue) = "chair"
  <2>1. EffectLeaves(p) /\ ChairAnswered
    BY <1>5, EffectPapers, EffectPapersOK DEF Execute
  <2>2. CASE at \notin {"voting", "deciding"}
    BY <2>1, <2>2 DEF ChairAnswered, Resting
  <2>3. CASE at \in {"voting", "deciding"}
    <3>1. at' \in {"voted", "decided"} /\ call' = call
      BY <2>1, <2>3 DEF ChairAnswered
    <3>2. p # call.paper
      BY <3>1 DEF UnderWay, Between
    <3>3. HalfDone(p)
      BY <2>1, <3>2 DEF EffectLeaves, HalfDone
    <3> QED
      BY <1>2, <2>3, <3>3 DEF CutShort, UnderWay, Between, Resting
  <2> QED
    BY <2>2, <2>3
<1>6. CASE Execute /\ Head(queue) # "chair"
  BY <1>3, <1>6, EffectPapers DEF Execute, chairVars
<1>7. CASE BeginTurn \/ EndTurn \/ Leave
  BY <1>7 DEF BeginTurn, EndTurn, Leave, Resting
<1>8. ASSUME NEW place, NEW c, Send(place, c), ToolFrame PROVE at' \in Resting
  BY <1>1, <1>8 DEF Send, ToolFrame, Resting
<1>9. CASE ChairActs
  BY <1>7, <1>8, <1>9, Asks
<1>10. CASE \E q \in Paper : Submit(q)
  BY <1>1, <1>10 DEF Submit
<1>11. CASE ConditionHolds \/ RequestStop \/ CloseGate
  BY <1>3, <1>11 DEF ConditionHolds, RequestStop, CloseGate, venueVars, chairVars
<1>12. ASSUME NEW place \in {"gone", "turn"}, Fail(place) PROVE at' \in Resting
  <2>1. CASE "chair" \in ToSet(queue)
    BY <1>12, <2>1 DEF Fail, Resting
  <2>2. CASE "chair" \notin ToSet(queue)
    <3>1. UNCHANGED <<at, call>>
      BY <1>12, <2>2 DEF Fail
    <3>2. UNCHANGED paperVars
      BY <1>12, <2>2, HeadAndPlace, EffectPapers DEF Fail, venueVars
    <3> QED
      BY <1>3, <3>1, <3>2
  <2> QED
    BY <2>1, <2>2
<1> QED
  BY <1>4, <1>5, <1>6, <1>9, <1>10, <1>11, <1>12, FailSteps DEF Next

-----------------------------------------------------------------------------
(* Powers.                                                                 *)

\* A motion that a vote accepted; it stays one.
VotedFor(m) == status[m] = "accepted" /\ Voted(m) /\ votes[m][1].passed

\* How the papers may change, by the commands and submissions.
LEMMA PaperSteps ==
  ASSUME IInv, [Next]_vars, NEW p \in Paper
  PROVE  \/ status'[p] = status[p] /\ votes'[p] = votes[p]
         \/ status[p] = "none" /\ status'[p] = "pending" /\ votes'[p] = votes[p]
         \/ /\ votes[p] = <<>> /\ status[p] = "pending"
            /\ status'[p] = status[p] /\ votes'[p] # <<>>
         \/ status[p] = "pending" /\ Voted(p) /\ votes'[p] = votes[p]
         \/ /\ status[p] = "pending" /\ votes'[p] = votes[p]
            /\ p \in Resolution /\ "decide_resolution" \in power
<1>1. /\ votes \in [Paper -> Seq([poll : Poll, passed : BOOLEAN])]
      /\ status \in [Paper -> {"none", "pending", "accepted", "rejected"}]
  BY DEF IInv, TypeOK
<1>2. CASE UNCHANGED paperVars
  BY <1>2 DEF paperVars
<1>3. CASE \E r \in Paper : Submit(r)
  BY <1>1, <1>3 DEF Submit, SetStatus
<1>4. CASE EffectOnPapers
  <2>1. CASE at = "voting"
    <3>1. /\ call.paper \in Paper /\ call.poll \in Poll
          /\ status[call.paper] = "pending" /\ votes[call.paper] = <<>>
      BY <2>1, CallPapers
    <3>2. status' = status
          /\ votes' = [votes EXCEPT ![call.paper] =
                         Append(@, [poll |-> call.poll, passed |-> VotePassed(call.poll)])]
      BY <1>4, <2>1 DEF EffectOnPapers, Record
    <3>3. p = call.paper => votes'[p] = <<[poll |-> call.poll, passed |-> VotePassed(call.poll)]>>
      BY <1>1, <3>1, <3>2
    <3>4. p = call.paper => votes'[p] # <<>>
      BY <3>3
    <3>5. p # call.paper => votes'[p] = votes[p]
      BY <1>1, <3>2
    <3> QED
      BY <3>1, <3>2, <3>4, <3>5
  <2>2. CASE at \in {"verdict", "deciding"}
    <3>1. /\ call.paper \in Paper /\ status[call.paper] = "pending"
          /\ at = "verdict" => Len(votes[call.paper]) = 1
          /\ at = "deciding" => call.paper \in Resolution /\ "decide_resolution" \in power
      BY <2>2, CallPapers
    <3>2. votes' = votes /\ status' = [status EXCEPT ![call.paper] = call.word]
      BY <1>4, <2>2 DEF EffectOnPapers, SetStatus
    <3>3. at = "verdict" => Voted(call.paper)
      <4>1. ASSUME NEW s, Len(s) = 1 PROVE s # <<>>
        BY <4>1
      <4> QED
        BY <3>1, <4>1 DEF Voted
    <3> QED
      BY <1>1, <2>2, <3>1, <3>2, <3>3
  <2>3. CASE at \notin {"voting", "verdict", "deciding"}
    BY <1>4, <2>3 DEF EffectOnPapers, paperVars
  <2> QED
    BY <2>1, <2>2, <2>3
<1> QED
  BY <1>2, <1>3, <1>4, VenueSteps, EffectPapers DEF venueVars

LEMMA PowerKept ==
  ASSUME IInv, [Next]_vars PROVE PowerRespected'
<1>1. PowerRespected /\ power' = power /\ Motion \cap Resolution = {}
  BY VenueSteps, ChairAssumption DEF IInv, ChairAssumption
<1>2. ASSUME NEW p \in Paper, Decided(p)', p \in Motion \/ "decide_resolution" \notin power
      PROVE  Voted(p)'
  BY <1>1, <1>2, PaperSteps DEF PowerRespected, Decided, Voted
<1>3. ASSUME NEW m \in Motion, status[m] = "accepted", Voted(m) PROVE votes[m][1].passed
  <2>1. m \in Paper
    BY DEF Paper
  <2>2. votes[m][1].passed \in BOOLEAN
    <3>1. ASSUME NEW S, NEW s \in Seq(S), s # <<>> PROVE s[1] \in S
      BY <3>1
    <3>2. votes[m][1] \in [poll : Poll, passed : BOOLEAN]
      BY <1>3, <2>1, CoreOK, <3>1 DEF Voted
    <3> QED
      BY <3>2
  <2>3. status[m] = Verdict(votes[m][1].passed)
    BY <1>3, <2>1, CoreOK DEF Core
  <2> QED
    BY <1>3, <2>2, <2>3 DEF Verdict
<1>4. ASSUME NEW m \in Motion, VotedFor(m)
      PROVE  status'[m] = "accepted" /\ Voted(m)' /\ votes'[m][1].passed
  <2>1. m \in Paper
    BY DEF Paper
  <2>2. status'[m] = status[m] /\ votes'[m] = votes[m]
    BY <1>4, <2>1, PaperSteps DEF VotedFor, Voted
  <2> QED
    BY <1>4, <2>2 DEF VotedFor, Voted
<1>5. ASSUME NEW to, "decide_switch_phase" \notin power, Backed(to)
      PROVE  \E m \in Motion : Target[m] = to /\ VotedFor(m)
  <2>1. PICK m \in Motion : status[m] = "accepted" /\ Target[m] = to
    BY <1>5 DEF Backed
  <2>2. Voted(m)
    BY <1>1, <2>1 DEF PowerRespected, Decided, Paper
  <2> QED
    BY <1>3, <2>1, <2>2 DEF VotedFor
<1>6. ASSUME "decide_switch_phase" \notin power, NEW i \in 1..Len(phases'),
             phases'[i].by = "chair"
      PROVE  \E m \in Motion : Target[m] = phases'[i].to /\ VotedFor(m)
  <2>1. phases \in Seq(PhaseEvent)
    BY DEF IInv, TypeOK, PhaseEvent
  <2>2. ASSUME NEW j \in 1..Len(phases), phases[j].by = "chair"
        PROVE  \E m \in Motion : Target[m] = phases[j].to /\ VotedFor(m)
    BY <1>1, <1>6, <2>2 DEF PowerRespected, VotedFor
  <2>3. CASE phases' = phases
    BY <1>6, <2>2, <2>3
  <2>4. ASSUME NEW e \in PhaseEvent, phases' = Append(phases, e),
               e.by = "chair" => at = "switching" /\ e.to = call.to
        PROVE  \E m \in Motion : Target[m] = phases'[i].to /\ VotedFor(m)
    <3>1. /\ Len(phases') = Len(phases) + 1 /\ Len(phases) \in Nat
          /\ phases'[Len(phases) + 1] = e
          /\ \A j \in 1..Len(phases) : phases'[j] = phases[j]
      BY <2>1, <2>4, AppendProperties, LenProperties
    <3>2. CASE i \in 1..Len(phases)
      BY <1>6, <2>2, <3>1, <3>2
    <3>3. CASE i \notin 1..Len(phases)
      <4>1. phases'[i] = e
        BY <1>6, <3>1, <3>3
      <4>2. at = "switching" /\ e.to = call.to
        BY <1>6, <2>4, <4>1
      <4>3. Backed(call.to)
        BY <4>2 DEF IInv, CallOK, SwitchFits
      <4> QED
        BY <1>5, <1>6, <4>1, <4>2, <4>3
    <3> QED
      BY <3>2, <3>3
  <2> QED
    BY <2>3, <2>4, PhaseSteps DEF SwitchTo, phaseVars
<1>7. \A p \in Paper :
        Decided(p)' /\ (p \in Motion \/ "decide_resolution" \notin power) => Voted(p)'
  BY <1>2
<1>8. "decide_switch_phase" \notin power =>
        \A i \in 1..Len(phases') : phases'[i].by = "chair" =>
           \E m \in Motion : /\ Target[m] = phases'[i].to
                             /\ status'[m] = "accepted"
                             /\ Voted(m)' /\ votes'[m][1].passed
  BY <1>4, <1>6
<1> QED
  BY <1>1, <1>7, <1>8 DEF PowerRespected

-----------------------------------------------------------------------------
(* The agenda.                                                             *)

\* Taking one element out of a list without repetitions.
LEMMA RemoveAtSet ==
  ASSUME NEW S, NEW s \in Seq(S), IsInjective(s), NEW k \in 1..Len(s)
  PROVE  /\ IsInjective(RemoveAt(s, k))
         /\ ToSet(RemoveAt(s, k)) = ToSet(s) \ {s[k]}
<1> DEFINE r == RemoveAt(s, k)
           n == Len(s)
           at_(i) == IF i < k THEN i ELSE i + 1
<1>1. /\ r \in Seq(S) /\ Len(r) = n - 1 /\ n \in Nat
      /\ \A i \in 1..(n - 1) : r[i] = s[at_(i)]
  BY RemoveAtType, LenProperties
<1> HIDE DEF r
<1>2. DOMAIN r = 1..(n - 1) /\ DOMAIN s = 1..n
  BY <1>1
<1>3. \A a, b \in 1..n : s[a] = s[b] => a = b
  BY <1>2 DEF IsInjective
<1>4. \A i \in 1..(n - 1) : at_(i) \in 1..n /\ at_(i) # k
  BY <1>1
<1>5. ASSUME NEW a \in 1..(n - 1), NEW b \in 1..(n - 1), r[a] = r[b] PROVE a = b
  <2>1. at_(a) = at_(b)
    BY <1>1, <1>3, <1>4, <1>5
  <2> QED
    BY <2>1
<1>6. \A j \in 1..n : j # k => \E i \in 1..(n - 1) : at_(i) = j
  <2> SUFFICES ASSUME NEW j \in 1..n, j # k PROVE \E i \in 1..(n - 1) : at_(i) = j
    OBVIOUS
  <2>1. CASE j < k
    <3>1. j \in 1..(n - 1) /\ at_(j) = j
      BY <1>1, <2>1
    <3> QED
      BY <3>1
  <2>2. CASE ~(j < k)
    <3>1. j - 1 \in 1..(n - 1) /\ at_(j - 1) = j
      BY <1>1, <2>2
    <3> QED
      BY <3>1
  <2> QED
    BY <2>1, <2>2
<1> HIDE DEF at_, n
<1>7. ToSet(r) = ToSet(s) \ {s[k]}
  <2>1. ASSUME NEW i \in 1..(n - 1) PROVE r[i] \in ToSet(s) \ {s[k]}
    <3>1. r[i] = s[at_(i)] /\ at_(i) \in 1..n /\ at_(i) # k /\ k \in 1..n
      BY <1>1, <1>4 DEF n
    <3> QED
      BY <1>2, <1>3, <3>1 DEF ToSet
  <2>2. ASSUME NEW j \in 1..n, s[j] # s[k] PROVE s[j] \in ToSet(r)
    BY <1>1, <1>2, <1>6, <2>2 DEF ToSet
  <2> QED
    BY <1>2, <2>1, <2>2 DEF ToSet
<1>8. IsInjective(r)
  BY <1>2, <1>5 DEF IsInjective
<1> QED
  BY <1>7, <1>8 DEF r

\* Adding one element to a list.
LEMMA AppendSet ==
  ASSUME NEW S, NEW s \in Seq(S), NEW e \in S
  PROVE  /\ ToSet(Append(s, e)) = ToSet(s) \cup {e}
         /\ IsInjective(s) /\ e \notin ToSet(s) => IsInjective(Append(s, e))
<1> DEFINE r == Append(s, e)
           n == Len(s)
<1>1. /\ r \in Seq(S) /\ Len(r) = n + 1 /\ n \in Nat /\ r[n + 1] = e
      /\ \A i \in 1..n : r[i] = s[i]
  BY AppendProperties, LenProperties
<1> HIDE DEF r
<1>2. DOMAIN r = 1..(n + 1) /\ DOMAIN s = 1..n
  BY <1>1
<1> HIDE DEF n
<1>3. \A i \in 1..(n + 1) : i \in 1..n \/ i = n + 1
  BY <1>1
<1>4. 1..n \subseteq 1..(n + 1) /\ n + 1 \in 1..(n + 1)
  BY <1>1
<1>5. ToSet(r) = ToSet(s) \cup {e}
  BY <1>1, <1>2, <1>3, <1>4 DEF ToSet
<1>6. ASSUME IsInjective(s), e \notin ToSet(s) PROVE IsInjective(r)
  BY <1>1, <1>2, <1>3, <1>6 DEF IsInjective, ToSet
<1> QED
  BY <1>5, <1>6 DEF r

SwitchEvent == [item : Item, finished : BOOLEAN, previous : Item]

\* One step adds at most one event of the agenda.
LEMMA AgendaSteps ==
  ASSUME IInv, [Next]_vars
  PROVE  \/ UNCHANGED agendaVars
         \/ \E k \in 1..Len(agenda.todo), e \in SwitchEvent :
              /\ TakeUp(k, e.finished) /\ e.item = agenda.todo[k]
              /\ e.previous = agenda.current
              /\ switches' = Append(switches, e) /\ additions' = additions
         \/ \E i \in Item :
              /\ ~Known(i) /\ agenda' = [agenda EXCEPT !.todo = Append(@, i)]
              /\ additions' = Append(additions, i) /\ switches' = switches
<1>1. CASE UNCHANGED venueVars \/ \E p \in Paper : Submit(p)
  BY <1>1 DEF venueVars, Submit
<1>2. CASE TakesEffect /\ Head(queue) # "chair"
  BY <1>2 DEF TakesEffect, EndCommand
<1>3. CASE ChairCommand
  <2>1. CASE at = "advancing"
    <3>1. call.item \in Item /\ call.finished \in BOOLEAN /\ agenda.current \in Item
      BY <2>1 DEF IInv, CallOK, SwitchFits, TypeOK
    <3> DEFINE e == [item |-> call.item, finished |-> call.finished,
                     previous |-> agenda.current]
    <3>2. \/ UNCHANGED agendaVars
          \/ /\ \E k \in 1..Len(agenda.todo) :
                  agenda.todo[k] = call.item /\ TakeUp(k, call.finished)
             /\ switches' = Append(switches, e) /\ additions' = additions
      BY <1>3, <2>1 DEF ChairCommand
    <3>3. /\ e \in SwitchEvent /\ e.item = call.item /\ e.finished = call.finished
          /\ e.previous = agenda.current
      BY <3>1 DEF SwitchEvent
    <3> HIDE DEF e
    <3> QED
      BY <3>2, <3>3
  <2>2. CASE at = "adding"
    <3>1. call.item \in Item
      BY <2>2 DEF IInv, CallOK, SwitchFits
    <3>2. \/ UNCHANGED agendaVars
          \/ /\ ~Known(call.item) /\ agenda' = [agenda EXCEPT !.todo = Append(@, call.item)]
             /\ additions' = Append(additions, call.item) /\ switches' = switches
      BY <1>3, <2>2 DEF ChairCommand, Feasible
    <3> QED
      BY <3>1, <3>2
  <2>3. CASE at \notin {"advancing", "adding"}
    BY <1>3, <2>3 DEF ChairCommand, venueVars
  <2> QED
    BY <2>1, <2>2, <2>3
<1> QED
  BY <1>1, <1>2, <1>3, VenueSteps DEF TakesEffect

\* An item is taken up from what is to come; the one before goes back there, or is
\* done with.
LEMMA TakeUpSets ==
  ASSUME IInv, NEW k \in 1..Len(agenda.todo), NEW finished \in BOOLEAN,
         TakeUp(k, finished)
  PROVE  LET old == agenda.current
             new == agenda.todo[k]
         IN /\ new \in ToSet(agenda.todo) /\ agenda'.current = new
            /\ IsInjective(agenda'.todo) /\ IsInjective(agenda'.finished)
            /\ ToSet(agenda'.todo) =
                 (ToSet(agenda.todo) \ {new}) \cup (IF finished THEN {} ELSE {old})
            /\ ToSet(agenda'.finished) =
                 ToSet(agenda.finished) \cup (IF finished THEN {old} ELSE {})
<1> DEFINE todo == agenda.todo
           old == agenda.current
           new == agenda.todo[k]
           list == IF finished THEN todo ELSE Append(todo, old)
<1>1. /\ AgendaPartition
      /\ todo \in Seq(Item) /\ agenda.finished \in Seq(Item) /\ old \in Item
  BY DEF IInv, AgendaOnRecord, TypeOK
<1>2. /\ agenda'.current = new
      /\ agenda'.finished = IF finished THEN Append(agenda.finished, old)
                            ELSE agenda.finished
      /\ agenda'.todo = RemoveAt(list, k)
  BY DEF TakeUp
<1>3. /\ list \in Seq(Item) /\ k \in 1..Len(list) /\ list[k] = new
      /\ IsInjective(list)
      /\ ToSet(list) = ToSet(todo) \cup (IF finished THEN {} ELSE {old})
  <2>1. IsInjective(todo) /\ old \notin ToSet(todo)
    BY <1>1 DEF AgendaPartition
  <2>2. CASE finished
    BY <1>1, <2>1, <2>2
  <2>3. CASE ~finished
    <3>1. list = Append(todo, old)
      BY <2>3
    <3>2. /\ list \in Seq(Item) /\ Len(list) = Len(todo) + 1
          /\ list[k] = todo[k]
      BY <1>1, <3>1, AppendProperties
    <3>3. IsInjective(list) /\ ToSet(list) = ToSet(todo) \cup {old}
      BY <1>1, <2>1, <3>1, AppendSet
    <3>4. k \in 1..Len(list)
      BY <1>1, <3>2, LenProperties
    <3> HIDE DEF list
    <3> QED
      BY <2>3, <3>2, <3>3, <3>4
  <2> QED
    BY <2>2, <2>3
<1> HIDE DEF list
<1>4. IsInjective(agenda'.todo) /\ ToSet(agenda'.todo) = ToSet(list) \ {new}
  BY <1>2, <1>3, RemoveAtSet
<1>5. new \in ToSet(todo)
  BY <1>1 DEF ToSet
<1>6. /\ IsInjective(agenda'.finished)
      /\ ToSet(agenda'.finished) =
           ToSet(agenda.finished) \cup (IF finished THEN {old} ELSE {})
  <2>1. IsInjective(agenda.finished) /\ old \notin ToSet(agenda.finished)
    BY <1>1 DEF AgendaPartition
  <2> QED
    BY <1>1, <1>2, <2>1, AppendSet
<1>7. ToSet(agenda'.todo) = (ToSet(todo) \ {new}) \cup (IF finished THEN {} ELSE {old})
  <2>1. old # new
    BY <1>1, <1>5 DEF AgendaPartition
  <2> QED
    BY <1>3, <1>4, <2>1
<1> QED
  BY <1>2, <1>4, <1>5, <1>6, <1>7

LEMMA TakeUpKeeps ==
  ASSUME IInv, NEW k \in 1..Len(agenda.todo), NEW e \in SwitchEvent,
         TakeUp(k, e.finished), e.item = agenda.todo[k], e.previous = agenda.current,
         switches' = Append(switches, e), additions' = additions
  PROVE  AgendaOnRecord'
<1> DEFINE todo == agenda.todo
           old == agenda.current
           new == agenda.todo[k]
<1>1. /\ AgendaPartition /\ AgendaRecorded
      /\ switches \in Seq(SwitchEvent) /\ e.finished \in BOOLEAN
  BY DEF IInv, AgendaOnRecord, TypeOK, SwitchEvent
<1>2. /\ new \in ToSet(todo) /\ agenda'.current = new
      /\ IsInjective(agenda'.todo) /\ IsInjective(agenda'.finished)
      /\ ToSet(agenda'.todo) =
           (ToSet(todo) \ {new}) \cup (IF e.finished THEN {} ELSE {old})
      /\ ToSet(agenda'.finished) =
           ToSet(agenda.finished) \cup (IF e.finished THEN {old} ELSE {})
  BY <1>1, TakeUpSets
<1> HIDE DEF new, old, todo
<1>3. AgendaPartition'
  <2>1. /\ ToSet(todo) \cap ToSet(agenda.finished) = {}
        /\ old \notin ToSet(todo) \cup ToSet(agenda.finished)
        /\ {old} \cup ToSet(todo) \cup ToSet(agenda.finished)
             = ToSet(Opening) \cup ToSet(additions)
    BY <1>1 DEF AgendaPartition, todo, old
  <2>2. /\ ToSet(agenda'.todo) \cap ToSet(agenda'.finished) = {}
        /\ agenda'.current \notin ToSet(agenda'.todo) \cup ToSet(agenda'.finished)
    BY <1>1, <1>2, <2>1
  <2>3. {agenda'.current} \cup ToSet(agenda'.todo) \cup ToSet(agenda'.finished)
          = ToSet(Opening) \cup ToSet(additions)
    BY <1>1, <1>2, <2>1
  <2> QED
    BY <1>2, <2>2, <2>3 DEF AgendaPartition
<1>4. AgendaRecorded'
  <2> DEFINE n == Len(switches)
  <2>1. /\ Len(switches') = n + 1 /\ n \in Nat /\ switches'[n + 1] = e
        /\ switches' # <<>> /\ \A i \in 1..n : switches'[i] = switches[i]
    BY <1>1, AppendProperties, LenProperties
  <2>2. /\ old = IF switches = <<>> THEN FirstItem ELSE switches[n].item
        /\ \A i \in 1..n :
             switches[i].previous = IF i = 1 THEN FirstItem ELSE switches[i - 1].item
        /\ ToSet(agenda.finished) =
             {switches[i].previous : i \in {j \in 1..n : switches[j].finished}}
    BY <1>1 DEF AgendaRecorded, Last, old
  <2>3. agenda'.current = Last(switches').item
    BY <1>2, <2>1 DEF Last, new
  <2>4. switches = <<>> <=> n = 0
    BY <1>1, EmptySeq
  <2> HIDE DEF n
  <2>5. ASSUME NEW i \in 1..(n + 1)
        PROVE  switches'[i].previous = IF i = 1 THEN FirstItem ELSE switches'[i - 1].item
    <3>1. CASE i = n + 1
      <4>1. i # 1 => n \in 1..n /\ i - 1 = n
        BY <2>1, <3>1
      <4>2. switches'[i].previous = old
        BY <2>1, <3>1 DEF old
      <4> QED
        BY <2>1, <2>2, <2>4, <3>1, <4>1, <4>2
    <3>2. CASE i \in 1..n
      <4>1. i # 1 => i - 1 \in 1..n
        BY <2>1, <3>2
      <4> QED
        BY <2>1, <2>2, <3>2, <4>1
    <3> QED
      BY <2>1, <3>1, <3>2
  <2>6. \A j \in 1..(n + 1) : j \in 1..n \/ j = n + 1
    BY <2>1
  <2>7. 1..n \subseteq 1..(n + 1) /\ n + 1 \in 1..(n + 1)
    BY <2>1
  <2>8. {switches'[i].previous : i \in {j \in 1..(n + 1) : switches'[j].finished}}
          = {switches[i].previous : i \in {j \in 1..n : switches[j].finished}}
              \cup (IF e.finished THEN {old} ELSE {})
    BY <2>1, <2>6, <2>7 DEF old
  <2>9. Len(switches') = n + 1
    BY <2>1
  <2> QED
    BY <1>2, <2>1, <2>2, <2>3, <2>5, <2>8, <2>9 DEF AgendaRecorded
<1> QED
  BY <1>3, <1>4 DEF AgendaOnRecord

LEMMA AgendaKept ==
  ASSUME IInv, [Next]_vars PROVE AgendaOnRecord'
<1>1. /\ AgendaPartition /\ AgendaRecorded
      /\ agenda.todo \in Seq(Item) /\ additions \in Seq(Item)
      /\ agenda \in AgendaType
  BY DEF IInv, AgendaOnRecord, TypeOK, AgendaType
<1>2. CASE UNCHANGED agendaVars
  BY <1>1, <1>2 DEF agendaVars, AgendaOnRecord, AgendaPartition, AgendaRecorded
<1>3. ASSUME NEW i \in Item, ~Known(i), agenda' = [agenda EXCEPT !.todo = Append(@, i)],
             additions' = Append(additions, i), switches' = switches
      PROVE  AgendaOnRecord'
  <2>1. /\ agenda'.current = agenda.current /\ agenda'.finished = agenda.finished
        /\ agenda'.todo = Append(agenda.todo, i)
    BY <1>1, <1>3 DEF AgendaType
  <2>2. /\ i # agenda.current /\ i \notin ToSet(agenda.todo)
        /\ i \notin ToSet(agenda.finished)
    BY <1>3 DEF Known
  <2>3. /\ IsInjective(agenda'.todo)
        /\ ToSet(agenda'.todo) = ToSet(agenda.todo) \cup {i}
        /\ ToSet(additions') = ToSet(additions) \cup {i}
    BY <1>1, <1>3, <2>1, <2>2, AppendSet DEF AgendaPartition
  <2>4. AgendaPartition'
    BY <1>1, <2>1, <2>2, <2>3 DEF AgendaPartition
  <2>5. AgendaRecorded'
    BY <1>1, <1>3, <2>1 DEF AgendaRecorded
  <2> QED
    BY <2>4, <2>5 DEF AgendaOnRecord
<1> QED
  BY <1>2, <1>3, TakeUpKeeps, AgendaSteps

-----------------------------------------------------------------------------
(* The theorems.                                                           *)

LEMMA InitOK ==
  ASSUME Init PROVE IInv
<1>0. /\ FirstPhase \in Phase /\ Opening \in Seq(Item) /\ IsInjective(Opening)
      /\ ActionLimit \in Nat /\ MaxTurns \in Nat /\ MaxFaults \in Nat
  BY ChairAssumption DEF ChairAssumption
<1>1. PICK k \in 1..Len(Opening) :
        /\ Opening[k] = FirstItem
        /\ agenda = [current |-> FirstItem, finished |-> <<>>, todo |-> RemoveAt(Opening, k)]
  BY DEF Init
<1>2. RemoveAt(Opening, k) \in Seq(Item) /\ FirstItem \in Item
  <2>1. ASSUME NEW S, NEW s \in Seq(S), NEW j \in 1..Len(s) PROVE s[j] \in S
    OBVIOUS
  <2>2. Opening[k] \in Item
    BY <1>0, <2>1
  <2> QED
    BY <1>0, <1>1, <2>2, RemoveAtType
<1>3. agenda \in [current : Item, finished : Seq(Item), todo : Seq(Item)]
  <2>1. <<>> \in Seq(Item)
    OBVIOUS
  <2> HIDE DEF Item
  <2> QED
    BY <1>1, <1>2, <2>1
<1>4. NoCall \in CallType
  BY DEF NoCall, CallType
<1>5. TypeOK
  <2>1. /\ phases \in Seq([from : Phase, to : Phase, by : {"chair", "monitor"}])
        /\ switches \in Seq([item : Item, finished : BOOLEAN, previous : Item])
        /\ additions \in Seq(Item) /\ queue \in Seq({"chair", "monitor"})
        /\ votes \in [Paper -> Seq([poll : Poll, passed : BOOLEAN])]
    BY DEF Init
  <2>2. /\ power \subseteq Power /\ phase \in Phase /\ at \in Places
        /\ gate \in {"open", "draining", "failed"} /\ stopping \in BOOLEAN
    BY <1>0 DEF Init, Places
  <2>4. acted \in 0..ActionLimit /\ turns \in 0..MaxTurns /\ faults \in 0..MaxFaults
    BY <1>0 DEF Init
  <2>5. /\ monitor \in [at : {"watching", "announcing", "announced"},
                        from : Phase \cup {None}]
        /\ status \in [Paper -> {"none", "pending", "accepted", "rejected"}]
        /\ audits \in [Paper -> [Decision -> Nat]]
    BY DEF Init
  <2>3. call \in CallType
    BY <1>4 DEF Init
  <2> QED
    BY <1>3, <2>1, <2>2, <2>3, <2>4, <2>5 DEF TypeOK, CallType
<1>6. QueueOK
  BY QueueValues DEF Init, QueueOK, Commanding
<1>7. CallOK
  BY DEF Init, CallOK, VoteFits, DecisionFits, SwitchFits
<1>8. MonitorOK
  BY DEF Init, MonitorOK
<1>9. PollsOK
  BY DEF Init, PollsOK
<1>10. VoteMatchesVerdict /\ DecisionAudited
  BY DEF Init, VoteMatchesVerdict, DecisionAudited, Voted, Decided, Decision
<1>11. PowerRespected
  BY DEF Init, PowerRespected, Decided
<1>12. PhaseChain
  BY DEF Init, PhaseChain
<1>13. AgendaPartition
  <2>1. /\ IsInjective(RemoveAt(Opening, k))
        /\ ToSet(RemoveAt(Opening, k)) = ToSet(Opening) \ {FirstItem}
    BY <1>0, <1>1, RemoveAtSet
  <2>2. FirstItem \in ToSet(Opening)
    <3>1. ASSUME NEW S, NEW s \in Seq(S), NEW j \in 1..Len(s) PROVE s[j] \in ToSet(s)
      BY DEF ToSet
    <3> QED
      BY <1>0, <1>1, <3>1
  <2>3. ToSet(<<>>) = {} /\ IsInjective(<<>>) /\ additions = <<>>
    BY DEF Init, ToSet, IsInjective
  <2>4. /\ agenda.current = FirstItem /\ agenda.finished = <<>>
        /\ agenda.todo = RemoveAt(Opening, k)
    BY <1>1
  <2> QED
    BY <2>1, <2>2, <2>3, <2>4 DEF AgendaPartition
<1>14. AgendaRecorded
  <2>1. agenda.current = FirstItem /\ agenda.finished = <<>> /\ switches = <<>>
    BY <1>1 DEF Init
  <2>2. ToSet(<<>>) = {}
    BY DEF ToSet
  <2> QED
    BY <2>1, <2>2 DEF AgendaRecorded
<1>15. CutShort
  BY DEF Init, CutShort, Resting
<1> QED
  BY <1>5, <1>6, <1>7, <1>8, <1>9, <1>10, <1>11, <1>12, <1>13, <1>14, <1>15
     DEF IInv, AgendaOnRecord

LEMMA Invariance == Spec => []IInv
<1>1. Init => IInv
  BY InitOK
<1>2. IInv /\ [Next]_vars => IInv'
  <2> SUFFICES ASSUME IInv, [Next]_vars PROVE IInv'
    OBVIOUS
  <2>1. TypeOK' /\ QueueOK' /\ CallOK'
    BY TypeKept, QueueKept, CallKept
  <2>2. MonitorOK' /\ PollsOK' /\ PhaseChain'
    BY MonitorKept, PollsKept, ChainKept
  <2>3. VoteMatchesVerdict' /\ DecisionAudited'
    BY PapersKept DEF DecisionsOnRecord
  <2>4. PowerRespected' /\ AgendaOnRecord'
    BY PowerKept, AgendaKept
  <2>5. CutShort'
    BY CutKept
  <2> QED
    BY <2>1, <2>2, <2>3, <2>4, <2>5 DEF IInv
<1> QED
  BY <1>1, <1>2, PTL DEF Spec

\* The variables keep their types: a turn never takes more actions than the
\* chair's limit, and no more than the two commands of the chair and the
\* monitor wait in the venue (ChairToolExecutor.execute, Venue._submit_command).
THEOREM TypeCorrect == Spec => []TypeOK
<1>1. IInv => TypeOK
  BY DEF IInv
<1> QED
  BY <1>1, Invariance, PTL

\* A vote and its verdict, a decision and its audit agree whenever the venue is
\* open and the chair is not between the two (_record_vote, _decide).
THEOREM DecisionsCorrect == Spec => []DecisionsOnRecord
<1>1. IInv => DecisionsOnRecord
  BY DEF IInv, DecisionsOnRecord
<1> QED
  BY <1>1, Invariance, PTL

\* Without the power the chair decides nothing that was not voted for, and
\* switches to no phase without a motion (_decide_resolution, _switch_phase).
THEOREM PowersCorrect == Spec => []PowerRespected
<1>1. IInv => PowerRespected
  BY DEF IInv
<1> QED
  BY <1>1, Invariance, PTL

\* The phase events are a chain but where the chair's and the monitor's crossed,
\* and the end is announced once (PhaseSwitchEvent, _finish_for_end_condition).
THEOREM PhasesCorrect == Spec => []PhaseChain
<1>1. IInv => PhaseChain
  BY DEF IInv
<1> QED
  BY <1>1, Invariance, PTL

\* No item of the agenda is lost or doubled, and the agenda events tell what
\* happened to it (AgendaManager, _commit_agenda_switch).
THEOREM AgendaCorrect == Spec => []AgendaOnRecord
<1>1. IInv => AgendaOnRecord
  BY DEF IInv
<1> QED
  BY <1>1, Invariance, PTL

-----------------------------------------------------------------------------
(* What a vote counts.                                                     *)

\* The count of _vote_passed and the definition in words agree on any ballots.
THEOREM CountIsMajority ==
  ASSUME NEW b \in Ballots
  PROVE  VotePassed(b) <=>
           /\ b.for # {}
           /\ b.mode = "simple_majority" => Cardinality(b.for) > Cardinality(b.against)
           /\ b.mode = "two_thirds" => Cardinality(b.for) >= 2 * Cardinality(b.against)
           /\ b.mode = "unanimous" => b.against = {}
<1>1. IsFiniteSet(Seat) /\ b.for \subseteq Seat /\ b.against \subseteq Seat /\ b.mode \in Mode
  BY ChairAssumption DEF ChairAssumption, Ballots
<1>2. IsFiniteSet(b.for) /\ IsFiniteSet(b.against)
  BY <1>1, FS_Subset
<1>3. Cardinality(b.for) \in Nat /\ Cardinality(b.against) \in Nat
  BY <1>2, FS_CardinalityType
<1>4. /\ Cardinality(b.for) = 0 <=> b.for = {}
      /\ Cardinality(b.against) = 0 <=> b.against = {}
  BY <1>2, FS_EmptySet
<1> DEFINE for == Cardinality(b.for)
           against == Cardinality(b.against)
<1>5. VotePassed(b) <=>
        /\ for + against # 0
        /\ \/ b.mode = "simple_majority" /\ for * 2 > for + against
           \/ b.mode = "two_thirds" /\ for * 3 >= (for + against) * 2
           \/ b.mode = "unanimous" /\ for = for + against
  BY DEF VotePassed
<1> HIDE DEF for, against
<1>6. for \in Nat /\ against \in Nat
  BY <1>3 DEF for, against
<1>7. VotePassed(b) <=>
        /\ for # 0
        /\ b.mode = "simple_majority" => for > against
        /\ b.mode = "two_thirds" => for >= 2 * against
        /\ b.mode = "unanimous" => against = 0
  BY <1>1, <1>5, <1>6 DEF Mode
<1> QED
  BY <1>4, <1>7 DEF for, against

\* A vote on record passed when more seats were for than against, twice as many
\* for two thirds, none against for unanimity (_record_vote, _vote_passed).
THEOREM VotesCorrect == Spec => []PassedAsDefined
<1>1. IInv => PassedAsDefined
  <2> SUFFICES ASSUME IInv, NEW p \in Paper, NEW i \in 1..Len(votes[p])
               PROVE  LET box == votes[p][i].poll
                          for == Cardinality(box.for)
                          against == Cardinality(box.against)
                      IN votes[p][i].passed <=>
                           /\ box.for # {}
                           /\ box.mode = "simple_majority" => for > against
                           /\ box.mode = "two_thirds" => for >= 2 * against
                           /\ box.mode = "unanimous" => box.against = {}
    BY DEF PassedAsDefined
  <2>1. votes[p][i] \in LegalVotes(p)
    BY DEF IInv, PollsOK
  <2>2. votes[p][i].poll \in Ballots /\ votes[p][i].passed = VotePassed(votes[p][i].poll)
    BY <2>1, ChairAssumption DEF LegalVotes, ChairAssumption
  <2> QED
    BY <2>2, CountIsMajority
<1> QED
  BY <1>1, Invariance, PTL

\* Every decision has a vote that carries it, or is the chair's to take.
THEOREM DecisionsAreLegal == Spec => []DecisionsLegal
BY VotesCorrect, PowersCorrect, PTL DEF DecisionsLegal

-----------------------------------------------------------------------------
(* ChairDecisions implements Deliberation.                                 *)

\* What a paper stands at, by how far a decision on it has come.
LEMMA StandingIs ==
  ASSUME NEW p \in Paper
  PROVE  /\ ~HalfDone(p) => Standing[p] = status[p]
         /\ HalfDone(p) /\ UnderWay(p) => Standing[p] = "pending"
         /\ HalfDone(p) /\ ~UnderWay(p) => Standing[p] = "broken"
         /\ DecidedBy[p] = IF Voted(p) /\ Decided(p) THEN votes[p][1].poll ELSE None
BY DEF Standing, DecidedBy

LEMMA StandingBecomes ==
  ASSUME NEW p \in Paper
  PROVE  /\ ~HalfDone(p)' => Standing'[p] = status'[p]
         /\ HalfDone(p)' /\ UnderWay(p)' => Standing'[p] = "pending"
         /\ HalfDone(p)' /\ ~UnderWay(p)' => Standing'[p] = "broken"
         /\ DecidedBy'[p] = IF Voted(p)' /\ Decided(p)' THEN votes'[p][1].poll ELSE None
BY DEF Standing, DecidedBy

LEMMA SameCount == \A S : Decisions!Cardinality(S) = Cardinality(S)
BY DEF Cardinality, Decisions!Cardinality

\* While the venue is open, or the chair is at a call, no decision is left half done.
LEMMA NoneBroken ==
  ASSUME IInv, gate = "open" \/ at \notin Resting
  PROVE  Decisions!Whole /\ \A p \in Paper : HalfDone(p) => UnderWay(p)
<1>1. ASSUME NEW p \in Paper, HalfDone(p) PROVE UnderWay(p)
  <2>1. ~UnderWay(p) => gate # "open"
    BY <1>1, CoreOK DEF HalfDone, UnderWay, Between
  <2>2. ~UnderWay(p) => at \in Resting
    BY <1>1 DEF IInv, CutShort
  <2> QED BY <2>1, <2>2
<1>2. ASSUME NEW p \in Paper PROVE Standing[p] # "broken"
  <2>1. status[p] # "broken"
    BY DEF IInv, TypeOK
  <2> QED BY <1>1, <2>1, StandingIs
<1> QED BY <1>1, <1>2 DEF Decisions!Whole, Decisions!Paper, Paper

\* A paper that is left alone stands as it did, wherever the call on it has come to.
LEMMA PaperStays ==
  ASSUME NEW p \in Paper, status'[p] = status[p], votes'[p] = votes[p],
         audits'[p] = audits[p], HalfDone(p) => (UnderWay(p)' <=> UnderWay(p))
  PROVE  Standing'[p] = Standing[p] /\ DecidedBy'[p] = DecidedBy[p]
<1>1. /\ HalfDone(p)' <=> HalfDone(p)
      /\ Voted(p)' /\ Decided(p)' <=> Voted(p) /\ Decided(p)
  BY DEF HalfDone, VoteOpen, DecisionOpen, Voted, Decided
<1> QED BY <1>1, StandingIs, StandingBecomes

LEMMA AllStay ==
  ASSUME \A p \in Paper : Standing'[p] = Standing[p] /\ DecidedBy'[p] = DecidedBy[p]
  PROVE  UNCHANGED <<Standing, DecidedBy>>
<1>1. /\ Standing = [p \in Paper |-> Standing[p]]
      /\ Standing' = [p \in Paper |-> Standing'[p]]
  BY DEF Standing
<1>2. /\ DecidedBy = [p \in Paper |-> DecidedBy[p]]
      /\ DecidedBy' = [p \in Paper |-> DecidedBy'[p]]
  BY DEF DecidedBy
<1> QED BY <1>1, <1>2

LEMMA OneMoves ==
  ASSUME NEW q \in Paper,
         \A p \in Paper \ {q} : Standing'[p] = Standing[p] /\ DecidedBy'[p] = DecidedBy[p]
  PROVE  /\ Standing' = [Standing EXCEPT ![q] = Standing'[q]]
         /\ DecidedBy' = [DecidedBy EXCEPT ![q] = DecidedBy'[q]]
         /\ DecidedBy'[q] = DecidedBy[q] => DecidedBy' = DecidedBy
<1>1. /\ Standing = [p \in Paper |-> Standing[p]]
      /\ Standing' = [p \in Paper |-> Standing'[p]]
  BY DEF Standing
<1>2. /\ DecidedBy = [p \in Paper |-> DecidedBy[p]]
      /\ DecidedBy' = [p \in Paper |-> DecidedBy'[p]]
  BY DEF DecidedBy
<1> QED BY <1>1, <1>2

\* The call under way is given up: what it has half done is broken.
LEMMA CallDropped ==
  ASSUME IInv, UNCHANGED paperVars, at' \in Resting
  PROVE  /\ DecidedBy' = DecidedBy
         /\ \/ Standing' = Standing
            \/ Decisions!Whole /\ \E p \in Paper : Decisions!BreakOff(p)
<1>1. \A p \in Paper : ~UnderWay(p)'
  BY DEF UnderWay, Between, Resting
<1>2. UNCHANGED <<status, votes, audits>>
  BY DEF paperVars
<1>3. CASE \A p \in Paper : HalfDone(p) => ~UnderWay(p)
  BY <1>1, <1>2, <1>3, PaperStays, AllStay
<1>4. ASSUME NEW q \in Paper, HalfDone(q), UnderWay(q)
      PROVE  DecidedBy' = DecidedBy /\ Decisions!Whole /\ Decisions!BreakOff(q)
  <2>1. at \notin Resting /\ \A p \in Paper \ {q} : ~UnderWay(p)
    BY <1>4 DEF UnderWay, Between, Resting
  <2>2. \A p \in Paper \ {q} : Standing'[p] = Standing[p] /\ DecidedBy'[p] = DecidedBy[p]
    BY <1>1, <1>2, <2>1, PaperStays
  <2>3. /\ HalfDone(q)'
        /\ Voted(q)' /\ Decided(q)' <=> Voted(q) /\ Decided(q)
    BY <1>2, <1>4 DEF HalfDone, VoteOpen, DecisionOpen, Voted, Decided
  <2>4. Standing[q] = "pending" /\ Standing'[q] = "broken" /\ DecidedBy'[q] = DecidedBy[q]
    BY <1>1, <1>2, <1>4, <2>3, StandingIs, StandingBecomes
  <2>5. Decisions!Whole
    BY <2>1, NoneBroken
  <2> QED BY <2>2, <2>4, <2>5, OneMoves DEF Decisions!BreakOff, Decisions!Stands
<1> QED BY <1>3, <1>4

\* Where the chair is once its command has been carried out: at the second command
\* of the call, or done with it.
Onwards ==
  \/ at' \in Resting
  \/ at = "voting" /\ at' = "voted" /\ call' = call
  \/ at = "deciding" /\ at' = "decided" /\ call' = call

\* The chair's commands on the papers: the first of two commands changes nothing yet,
\* the second decides.
LEMMA PaperCommand ==
  ASSUME IInv, ChairCommand, Onwards, at \in {"voting", "verdict", "deciding", "auditing"},
         UNCHANGED power
  PROVE  Decisions!Next \/ UNCHANGED <<Standing, DecidedBy>>
<1>q. PICK q \in Paper : q = call.paper
  BY CallPapers
<1>1. Decisions!Whole /\ EffectOnPapers
  <2>1. EffectOnPapers
    BY DEF ChairCommand, EffectOnPapers
  <2>2. at \notin Resting
    BY DEF Resting
  <2> QED BY <2>1, <2>2, NoneBroken
<1>2. /\ votes \in [Paper -> Seq([poll : Poll, passed : BOOLEAN])]
      /\ status \in [Paper -> {"none", "pending", "accepted", "rejected"}]
      /\ audits \in [Paper -> [Decision -> Nat]]
  BY DEF IInv, TypeOK
<1>3. UNCHANGED <<power, phase, Announced, agenda>>
  <2>1. UNCHANGED <<phase, phases, agenda>>
    BY DEF ChairCommand, phaseVars, agendaVars
  <2>2. Announced' = Announced
    BY <2>1 DEF Announced
  <2> QED BY <2>1, <2>2
<1>4. \A p \in Paper \ {q} : Standing'[p] = Standing[p] /\ DecidedBy'[p] = DecidedBy[p]
  <2> SUFFICES ASSUME NEW p \in Paper \ {q}
               PROVE  Standing'[p] = Standing[p] /\ DecidedBy'[p] = DecidedBy[p]
    OBVIOUS
  <2>1. status'[p] = status[p] /\ votes'[p] = votes[p] /\ audits'[p] = audits[p]
    BY <1>q, <1>1, <1>2 DEF EffectOnPapers, Record, SetStatus
  <2>2. ~UnderWay(p) /\ ~UnderWay(p)'
    BY <1>q DEF UnderWay, Between, Onwards, Resting
  <2> QED BY <2>1, <2>2, PaperStays
<1>5. Core(q) /\ votes[q] \in Seq([poll : Poll, passed : BOOLEAN])
  BY <1>1, CoreOK
<1>6. CASE at = "voting"
  <2>1. status[q] = "pending" /\ votes[q] = <<>>
    BY <1>q, <1>6, CallPapers
  <2>2. status' = status /\ votes'[q] # <<>>
    <3>1. votes'[q] = Append(votes[q], [poll |-> call.poll, passed |-> VotePassed(call.poll)])
      BY <1>q, <1>1, <1>2, <1>6 DEF EffectOnPapers, Record
    <3>2. status' = status
      BY <1>1, <1>6 DEF EffectOnPapers
    <3> QED BY <2>1, <3>1, <3>2
  <2>3. Standing[q] = "pending" /\ DecidedBy[q] = None
    BY <1>1, <2>1, StandingIs DEF HalfDone, VoteOpen, DecisionOpen, Voted, Decided
  <2>4. HalfDone(q)' /\ DecidedBy'[q] = None
    BY <1>1, <2>1, <2>2, StandingBecomes DEF HalfDone, VoteOpen, Voted, Decided
  <2>5. CASE UnderWay(q)'
    BY <1>1, <1>4, <2>3, <2>4, <2>5, StandingBecomes, AllStay
  <2>6. CASE ~UnderWay(q)'
    <3>1. Standing'[q] = "broken"
      BY <1>1, <2>4, <2>6, StandingBecomes
    <3>2. Decisions!BreakOff(q) /\ DecidedBy' = DecidedBy
      BY <1>1, <1>4, <2>3, <2>4, <3>1, OneMoves DEF Decisions!BreakOff, Decisions!Stands
    <3> QED BY <1>1, <1>3, <3>2 DEF Decisions!Next, Decisions!Close, Decisions!items,
                                    Decisions!Paper, Paper
  <2> QED BY <2>5, <2>6
<1>7. CASE at = "verdict"
  <2>1. /\ status[q] = "pending" /\ Len(votes[q]) = 1 /\ votes[q] # <<>>
        /\ call.word = Verdict(votes[q][1].passed)
    BY <1>q, <1>7, CallPapers
  <2>2. status'[q] = Verdict(votes[q][1].passed) /\ votes' = votes
    BY <1>q, <1>1, <1>2, <1>7, <2>1 DEF EffectOnPapers, SetStatus
  <2>b. PICK b : b = votes[q][1].poll
    OBVIOUS
  <2>3. /\ b \in Poll /\ WellCast(q, b) /\ votes[q][1].passed = VotePassed(b)
    <3>1. votes[q][1] \in LegalVotes(q)
      BY <1>1, <2>1 DEF IInv, PollsOK
    <3> QED BY <2>b, <3>1 DEF LegalVotes
  <2>4. Decisions!Entitled(q, b) /\ (VotePassed(b) <=> Decisions!Carried(b))
    <3>1. b \in Ballots
      BY <2>3, ChairAssumption DEF ChairAssumption
    <3>2. VotePassed(b) <=> Decisions!Carried(b)
      BY <3>1, CountIsMajority, SameCount DEF Decisions!Carried
    <3>3. Decisions!Entitled(q, b)
      BY <2>3 DEF Decisions!Entitled, WellCast, Cast
    <3> QED BY <3>2, <3>3
  <2>5. Standing[q] = "pending"
    <3>1. HalfDone(q) /\ UnderWay(q)
      BY <1>q, <1>7, <2>1 DEF HalfDone, VoteOpen, Voted, UnderWay, Between
    <3> QED BY <1>1, <3>1, StandingIs
  <2>6. /\ Standing'[q] = IF Decisions!Carried(b) THEN "accepted" ELSE "rejected"
        /\ DecidedBy'[q] = b
    <3>1. status'[q] = IF Decisions!Carried(b) THEN "accepted" ELSE "rejected"
      BY <2>2, <2>3, <2>4 DEF Verdict
    <3>2. ~HalfDone(q)' /\ Voted(q)' /\ Decided(q)'
      BY <2>1, <2>2, <3>1 DEF HalfDone, VoteOpen, DecisionOpen, Voted, Decided
    <3> QED BY <1>1, <2>b, <2>2, <3>1, <3>2, StandingBecomes
  <2>7. Decisions!DecideByVote(q)
    BY <1>1, <1>3, <1>4, <2>3, <2>4, <2>5, <2>6, OneMoves
       DEF Decisions!DecideByVote, Decisions!Stands, Decisions!items
  <2> QED BY <1>1, <1>3, <2>3, <2>7 DEF Decisions!Next, Decisions!Paper, Paper
<1>8. CASE at = "deciding"
  <2>1. /\ status[q] = "pending" /\ votes[q] = <<>> /\ call.word \in Decision
        /\ audits[q]["accepted"] = 0 /\ audits[q]["rejected"] = 0
    BY <1>q, <1>8, CallPapers
  <2>2. status'[q] = call.word /\ votes' = votes /\ audits' = audits
    BY <1>q, <1>1, <1>2, <1>8 DEF EffectOnPapers, SetStatus
  <2>3. Standing[q] = "pending" /\ DecidedBy[q] = None /\ DecidedBy'[q] = None
    BY <1>1, <2>1, <2>2, StandingIs, StandingBecomes
       DEF HalfDone, VoteOpen, DecisionOpen, Voted, Decided
  <2>4. CASE call.word = "pending"
    <3>1. Standing'[q] = "pending"
      BY <1>1, <2>1, <2>2, <2>4, StandingBecomes
         DEF HalfDone, VoteOpen, DecisionOpen, Voted, Decided
    <3> QED BY <1>1, <1>4, <2>3, <3>1, AllStay
  <2>5. CASE call.word # "pending"
    <3>1. HalfDone(q)'
      BY <2>1, <2>2, <2>5 DEF HalfDone, DecisionOpen, Voted, Decided, Decision
    <3>2. CASE UnderWay(q)'
      BY <1>1, <1>4, <2>3, <3>1, <3>2, StandingBecomes, AllStay
    <3>3. CASE ~UnderWay(q)'
      <4>1. Standing'[q] = "broken"
        BY <1>1, <3>1, <3>3, StandingBecomes
      <4>2. Decisions!BreakOff(q) /\ DecidedBy' = DecidedBy
        BY <1>1, <1>4, <2>3, <4>1, OneMoves DEF Decisions!BreakOff, Decisions!Stands
      <4> QED BY <1>1, <1>3, <4>2 DEF Decisions!Next, Decisions!Close, Decisions!items,
                                      Decisions!Paper, Paper
    <3> QED BY <3>2, <3>3
  <2> QED BY <2>4, <2>5
<1>9. CASE at = "auditing"
  <2>1. /\ q \in Resolution /\ "decide_resolution" \in power
        /\ status[q] = call.word /\ votes[q] = <<>> /\ call.word \in Decision
        /\ audits[q]["accepted"] = 0 /\ audits[q]["rejected"] = 0
    BY <1>q, <1>9, CallPapers
  <2>2. /\ status' = status /\ votes' = votes
        /\ audits'[q][call.word] = audits[q][call.word] + 1
    BY <1>q, <1>1, <1>2, <1>9, <2>1 DEF EffectOnPapers
  <2>3. DecidedBy[q] = None /\ DecidedBy'[q] = None
    BY <1>1, <2>1, <2>2, StandingIs, StandingBecomes DEF Voted
  <2>4. Standing'[q] = call.word
    <3>1. ~HalfDone(q)'
      BY <2>1, <2>2 DEF HalfDone, VoteOpen, DecisionOpen, Voted, Decided
    <3> QED BY <1>1, <2>1, <2>2, <3>1, StandingBecomes
  <2>5. Standing[q] = "pending"
    <3>1. CASE call.word = "pending"
      BY <1>1, <2>1, <3>1, StandingIs DEF HalfDone, VoteOpen, DecisionOpen, Voted, Decided
    <3>2. CASE call.word # "pending"
      <4>1. HalfDone(q) /\ UnderWay(q)
        BY <1>q, <1>9, <2>1, <3>2
           DEF HalfDone, DecisionOpen, Voted, Decided, Decision, UnderWay, Between
      <4> QED BY <1>1, <4>1, StandingIs
    <3> QED BY <3>1, <3>2
  <2>6. CASE call.word = "pending"
    BY <1>1, <1>4, <2>3, <2>4, <2>5, <2>6, AllStay
  <2>7. CASE call.word # "pending"
    <3>1. Decisions!DecideAlone(q, call.word)
      BY <1>1, <1>3, <1>4, <2>1, <2>3, <2>4, <2>5, OneMoves
         DEF Decisions!DecideAlone, Decisions!Stands, Decisions!items
    <3>2. call.word \in {"accepted", "rejected"}
      BY <2>1, <2>7 DEF Decision
    <3> QED BY <1>1, <1>3, <2>1, <3>1, <3>2 DEF Decisions!Next
  <2> QED BY <2>6, <2>7
<1> QED BY <1>6, <1>7, <1>8, <1>9

\* A phase event of the chair's announces nothing; the monitor's is the first of its kind.
LEMMA PhaseAnnounced ==
  ASSUME IInv, NEW e \in PhaseEvent, SwitchTo(e.to, e)
  PROVE  /\ e.by = "chair" => Announced' = Announced
         /\ e.by = "monitor" => Announced'
<1>1. /\ Len(phases') = Len(phases) + 1 /\ Len(phases) \in Nat
      /\ phases'[Len(phases) + 1] = e
      /\ \A j \in 1..Len(phases) : phases'[j] = phases[j]
  BY AppendProperties, LenProperties DEF IInv, TypeOK, PhaseEvent, SwitchTo
<1>2. /\ \A i \in 1..Len(phases') : i \in 1..Len(phases) \/ i = Len(phases) + 1
      /\ 1..Len(phases) \subseteq 1..Len(phases')
      /\ Len(phases) + 1 \in 1..Len(phases')
  BY <1>1
<1>3. e.by = "chair" => (Announced' <=> Announced)
  BY <1>1, <1>2 DEF Announced
<1>4. e.by = "monitor" => Announced'
  BY <1>1, <1>2 DEF Announced
<1>5. Announced \in BOOLEAN /\ Announced' \in BOOLEAN
  BY DEF Announced
<1> QED BY <1>3, <1>4, <1>5

\* The chair's commands on the phase and the agenda.
LEMMA VenueCommand ==
  ASSUME IInv, ChairCommand, at' \in Resting, at \in {"noting", "switching", "advancing", "adding"},
         UNCHANGED power
  PROVE  Decisions!Next \/ UNCHANGED Decisions!vars
<1>1. UNCHANGED <<Standing, DecidedBy>>
  <2>1. UNCHANGED <<status, votes, audits>>
    BY DEF ChairCommand, venueVars, paperVars
  <2>2. \A p \in Paper : ~UnderWay(p) /\ ~UnderWay(p)'
    BY DEF UnderWay, Between, Resting
  <2> QED BY <2>1, <2>2, PaperStays, AllStay
<1>2. Decisions!Whole
  BY NoneBroken DEF Resting
<1>3. ASSUME UNCHANGED phases PROVE Announced' = Announced
  BY <1>3 DEF Announced
<1>4. CASE at = "noting"
  BY <1>1, <1>3, <1>4
     DEF ChairCommand, venueVars, phaseVars, agendaVars, Decisions!vars
<1>5. CASE at = "switching"
  <2> DEFINE e == [from |-> call.from, to |-> call.to, by |-> "chair"]
  <2>1. SwitchTo(call.to, e) /\ UNCHANGED agenda
    BY <1>5 DEF ChairCommand, agendaVars
  <2>2. /\ e \in PhaseEvent /\ e.by = "chair" /\ e.to = call.to
        /\ Backed(call.to) /\ call.to \in Phase
    BY <1>5 DEF IInv, CallOK, SwitchFits, PhaseEvent
  <2>3. Announced' = Announced /\ phase' = call.to
    BY <2>1, <2>2, PhaseAnnounced DEF SwitchTo
  <2>4. \/ "decide_switch_phase" \in power
        \/ \E m \in Motion : Standing[m] = "accepted" /\ Target[m] = call.to
    <3>1. ASSUME NEW m \in Motion, status[m] = "accepted" PROVE Standing[m] = "accepted"
      <4>1. m \in Paper /\ Voted(m)
        BY <3>1 DEF Paper, IInv, PowerRespected, Decided
      <4>2. ~HalfDone(m)
        BY <3>1, <4>1 DEF HalfDone, VoteOpen, DecisionOpen
      <4> QED BY <3>1, <4>1, <4>2, StandingIs
    <3> QED BY <2>2, <3>1 DEF Backed
  <2>5. Decisions!Switch(call.to)
    BY <1>1, <1>2, <2>1, <2>3, <2>4 DEF Decisions!Switch, Decisions!items
  <2> QED BY <1>2, <2>2, <2>5 DEF Decisions!Next
<1>6. CASE at = "advancing"
  <2>1. UNCHANGED <<phase, phases>> /\ call.item \in Item /\ call.finished \in BOOLEAN
    BY <1>6 DEF ChairCommand, phaseVars, IInv, CallOK, SwitchFits, TypeOK
  <2>2. CASE UNCHANGED agenda
    BY <1>1, <1>3, <2>1, <2>2 DEF Decisions!vars
  <2>3. ASSUME NEW k \in 1..Len(agenda.todo), agenda.todo[k] = call.item,
               TakeUp(k, call.finished)
        PROVE  Decisions!TakeUp(call.item, call.finished)
    BY <1>1, <1>2, <1>3, <2>1, <2>3, TakeUpSets DEF Decisions!TakeUp
  <2> QED BY <1>2, <1>6, <2>1, <2>2, <2>3 DEF ChairCommand, agendaVars, Decisions!Next
<1>7. CASE at = "adding"
  <2>1. UNCHANGED <<phase, phases>> /\ call.item \in Item
    BY <1>7 DEF ChairCommand, phaseVars, IInv, CallOK, SwitchFits
  <2>2. CASE UNCHANGED agenda
    BY <1>1, <1>3, <2>1, <2>2 DEF Decisions!vars
  <2>3. ASSUME ~Known(call.item), agenda' = [agenda EXCEPT !.todo = Append(@, call.item)]
        PROVE  Decisions!Add(call.item)
    <3>1. /\ agenda'.current = agenda.current /\ agenda'.finished = agenda.finished
          /\ agenda'.todo = Append(agenda.todo, call.item) /\ agenda.todo \in Seq(Item)
      BY <2>3 DEF IInv, TypeOK
    <3>2. ToSet(agenda'.todo) = ToSet(agenda.todo) \cup {call.item}
      BY <2>1, <3>1, AppendSet
    <3> QED BY <1>1, <1>2, <1>3, <2>1, <2>3, <3>1, <3>2 DEF Decisions!Add, Known
  <2> QED BY <1>2, <1>7, <2>1, <2>2, <2>3
         DEF ChairCommand, agendaVars, Feasible, Decisions!Next
<1> QED BY <1>4, <1>5, <1>6, <1>7

\* The monitor's command, whatever becomes of the call under way.
LEMMA EndDecided ==
  ASSUME IInv, queue # <<>>, Head(queue) # "chair", EndCommand, UNCHANGED power,
         UNCHANGED <<at, call>> \/ at' \in Resting
  PROVE  Decisions!Next
<1> DEFINE e == [from |-> monitor.from, to |-> Ended, by |-> "monitor"]
<1>1. e \in PhaseEvent /\ e.to = Ended /\ e.by = "monitor" /\ SwitchTo(Ended, e)
  BY HeadAndPlace, ChairAssumption
     DEF IInv, QueueOK, ChairAssumption, PhaseEvent, EndCommand
<1>2. ~Announced
  BY HeadAndPlace DEF IInv, MonitorOK, Announced
<1>3. Announced' = TRUE /\ phase' = Ended
  BY <1>1, PhaseAnnounced DEF SwitchTo, Announced
<1>4. UNCHANGED <<paperVars, agenda>>
  BY DEF EndCommand, agendaVars
<1>5. /\ DecidedBy' = DecidedBy
      /\ \/ Standing' = Standing
         \/ Decisions!Whole /\ \E p \in Paper : Decisions!BreakOff(p)
  <2>1. CASE UNCHANGED <<at, call>>
    <3>1. \A p \in Paper : UnderWay(p)' <=> UnderWay(p)
      BY <2>1 DEF UnderWay, Between
    <3> QED BY <1>4, <3>1, PaperStays, AllStay DEF paperVars
  <2>2. CASE at' \in Resting
    BY <1>4, <2>2, CallDropped
  <2> QED BY <2>1, <2>2
<1> QED BY <1>2, <1>3, <1>4, <1>5
        DEF Decisions!Next, Decisions!Announce, Decisions!items, Decisions!Paper, Paper

\* Where nothing is carried out, only a call that is given up matters.
LEMMA NothingDone ==
  ASSUME IInv, UNCHANGED <<power, venueVars>>,
         \/ UNCHANGED <<at, call>>
         \/ at' \in Resting
         \/ \A p \in Paper : HalfDone(p) => UnderWay(p) /\ UnderWay(p)'
  PROVE  [Decisions!Next]_(Decisions!vars)
<1>1. UNCHANGED <<phase, phases, agenda, paperVars>> /\ Announced' = Announced
  <2>1. UNCHANGED <<phase, phases, agenda, paperVars>>
    BY DEF venueVars, phaseVars, agendaVars
  <2>2. Announced' = Announced
    BY <2>1 DEF Announced
  <2> QED BY <2>1, <2>2
<1>2. CASE at' \in Resting
  BY <1>1, <1>2, CallDropped
     DEF Decisions!Next, Decisions!Close, Decisions!items, Decisions!vars,
         Decisions!Paper, Paper
<1>3. CASE \A p \in Paper : HalfDone(p) => (UnderWay(p)' <=> UnderWay(p))
  BY <1>1, <1>3, PaperStays, AllStay DEF paperVars, Decisions!vars
<1>4. CASE UNCHANGED <<at, call>>
  <2>1. \A p \in Paper : UnderWay(p)' <=> UnderWay(p)
    BY <1>4 DEF UnderWay, Between
  <2> QED BY <1>3, <2>1
<1> QED BY <1>2, <1>3, <1>4

\* The chair's command is carried out, if only as the venue fails.
LEMMA ChairDone ==
  ASSUME IInv, ChairCommand, Onwards, UNCHANGED power
  PROVE  [Decisions!Next]_(Decisions!vars)
<1>1. CASE at \in {"voting", "verdict", "deciding", "auditing"}
  <2>1. UNCHANGED <<phase, phases, agenda>>
    BY <1>1 DEF ChairCommand, phaseVars, agendaVars
  <2>2. Announced' = Announced
    BY <2>1 DEF Announced
  <2> QED BY <1>1, <2>1, <2>2, PaperCommand DEF Decisions!vars
<1>2. CASE at \in {"noting", "switching", "advancing", "adding"}
  BY <1>2, VenueCommand DEF Onwards
<1> QED BY <1>1, <1>2 DEF ChairCommand

\* A motion or resolution is submitted.
LEMMA SubmissionMade ==
  ASSUME IInv, NEW q \in Paper, Submit(q)
  PROVE  Decisions!Whole /\ power' = power /\ Decisions!Submit(q)
<1>1. /\ status[q] = "none" /\ gate = "open" /\ status' = [status EXCEPT ![q] = "pending"]
      /\ UNCHANGED <<power, votes, audits, phase, phases, agenda, at, call>>
  BY DEF Submit, SetStatus, phaseVars, agendaVars, chairVars
<1>2. status'[q] = "pending" /\ \A p \in Paper \ {q} : status'[p] = status[p]
  BY <1>1 DEF IInv, TypeOK
<1>3. ~Voted(q)
  <2>1. Voted(q) => votes[q][1] \in LegalVotes(q)
    <3>1. ASSUME Voted(q) PROVE 1 \in 1..Len(votes[q])
      BY <3>1, CoreOK, EmptySeq DEF Voted
    <3> QED BY <3>1 DEF IInv, PollsOK
  <2>2. Voted(q) => status[q] \in {"accepted", "rejected", "pending"}
    BY <2>1, CoreOK DEF Core, LegalVotes
  <2> QED BY <1>1, <2>2
<1>4. \A p \in Paper \ {q} : Standing'[p] = Standing[p] /\ DecidedBy'[p] = DecidedBy[p]
  <2>1. \A p \in Paper : UnderWay(p)' <=> UnderWay(p)
    BY <1>1 DEF UnderWay, Between
  <2> QED BY <1>1, <1>2, <2>1, PaperStays
<1>5. /\ Standing[q] = "none" /\ Standing'[q] = "pending"
      /\ DecidedBy[q] = None /\ DecidedBy'[q] = None
  BY <1>1, <1>2, <1>3, StandingIs, StandingBecomes
     DEF HalfDone, VoteOpen, DecisionOpen, Voted, Decided
<1>6. Decisions!Whole
  BY <1>1, NoneBroken
<1>7. Announced' = Announced
  BY <1>1 DEF Announced
<1> QED BY <1>1, <1>4, <1>5, <1>6, <1>7, OneMoves
        DEF Decisions!Submit, Decisions!Stands, Decisions!items

\* Every step is one of Deliberation, or none.
LEMMA StepDecides ==
  ASSUME IInv, [Next]_vars
  PROVE  [Decisions!Next]_(Decisions!vars)
<1>1. CASE UNCHANGED vars
  BY <1>1, NothingDone DEF vars, chairVars
<1>2. CASE Execute
  <2>1. power' = power /\ queue # <<>>
    BY <1>2 DEF Execute
  <2>2. CASE Head(queue) = "chair"
    <3>1. ChairCommand /\ Onwards
      BY <1>2, <2>2 DEF Execute, TakesEffect, ChairAnswered, Onwards, Resting
    <3> QED BY <2>1, <3>1, ChairDone
  <2>3. CASE Head(queue) # "chair"
    <3>1. EndCommand /\ UNCHANGED <<at, call>>
      BY <1>2, <2>3 DEF Execute, TakesEffect, chairVars
    <3> QED BY <2>1, <2>3, <3>1, EndDecided
  <2> QED BY <2>2, <2>3
<1>3. CASE ChairActs
  <2>1. CASE BeginTurn \/ EndTurn \/ Leave
    BY <2>1, NothingDone DEF BeginTurn, EndTurn, Leave, Resting
  <2>2. ASSUME NEW place, NEW c, Send(place, c), ToolFrame, at \notin {"waiting", "gone"},
               at \notin Commanding,
               at = "voted" => place = "verdict" /\ c.paper = call.paper,
               at = "decided" => place = "auditing" /\ c.paper = call.paper
        PROVE  [Decisions!Next]_(Decisions!vars)
    <3>1. UNCHANGED <<power, venueVars>>
      BY <2>2 DEF ToolFrame
    <3>2. CASE gate # "open"
      BY <2>2, <3>1, <3>2, NothingDone DEF Send, Resting
    <3>3. CASE gate = "open"
      <4>1. at' = place /\ call' = c
        BY <2>2, <3>3 DEF Send
      <4>2. \A p \in Paper : HalfDone(p) => UnderWay(p)
        BY <3>3, NoneBroken
      <4>3. \A p \in Paper : UnderWay(p) => UnderWay(p)'
        BY <2>2, <4>1 DEF UnderWay, Between, Commanding
      <4> QED BY <3>1, <4>2, <4>3, NothingDone
    <3> QED BY <3>2, <3>3
  <2> QED BY <1>3, <2>1, <2>2, Asks
<1>4. CASE \E q \in Paper : Submit(q)
  BY <1>4, SubmissionMade DEF Decisions!Next, Decisions!Paper, Paper
<1>5. CASE ConditionHolds \/ RequestStop \/ CloseGate
  BY <1>5, NothingDone DEF ConditionHolds, RequestStop, CloseGate, chairVars
<1>6. ASSUME NEW place \in {"gone", "turn"}, Fail(place)
      PROVE  [Decisions!Next]_(Decisions!vars)
  <2>1. power' = power /\ (at' \in Resting \/ UNCHANGED <<at, call>>)
    BY <1>6 DEF Fail, Resting
  <2>2. CASE UNCHANGED venueVars
    BY <2>1, <2>2, NothingDone
  <2>3. CASE queue # <<>> /\ TakesEffect /\ Head(queue) = "chair"
    <3>1. "chair" \in ToSet(queue)
      BY <2>3, HeadAndPlace
    <3>2. at' \in Resting
      BY <1>6, <3>1 DEF Fail, Resting
    <3> QED BY <2>1, <2>3, <3>2, ChairDone DEF TakesEffect, Onwards
  <2>4. CASE queue # <<>> /\ TakesEffect /\ Head(queue) # "chair"
    BY <2>1, <2>4, EndDecided DEF TakesEffect
  <2> QED BY <1>6, <2>2, <2>3, <2>4 DEF Fail
<1> QED BY <1>1, <1>2, <1>3, <1>4, <1>5, <1>6, FailSteps DEF Next

LEMMA DecisionsBegin ==
  ASSUME Init
  PROVE  Decisions!Init
<1>1. /\ status = [p \in Paper |-> "none"] /\ votes = [p \in Paper |-> <<>>]
      /\ phases = <<>> /\ phase = FirstPhase /\ power \in SUBSET Power
  BY DEF Init
<1>2. \A p \in Paper : ~Voted(p) /\ ~HalfDone(p)
  BY <1>1 DEF HalfDone, VoteOpen, DecisionOpen, Voted, Decided
<1>3. Standing = [p \in Paper |-> "none"] /\ DecidedBy = [p \in Paper |-> None]
  BY <1>1, <1>2 DEF Standing, DecidedBy
<1>4. Announced = FALSE
  BY <1>1 DEF Announced
<1>5. PICK k \in 1..Len(Opening) :
        /\ Opening[k] = FirstItem
        /\ agenda = [current |-> FirstItem, finished |-> <<>>, todo |-> RemoveAt(Opening, k)]
  BY DEF Init
<1>6. ToSet(RemoveAt(Opening, k)) = ToSet(Opening) \ {FirstItem} /\ ToSet(<<>>) = {}
  <2>1. Opening \in Seq(Item) /\ IsInjective(Opening)
    BY ChairAssumption DEF ChairAssumption
  <2>2. ToSet(<<>>) = {}
    BY DEF ToSet
  <2> QED BY <1>5, <2>1, <2>2, RemoveAtSet
<1> QED BY <1>1, <1>3, <1>4, <1>5, <1>6 DEF Decisions!Init, Decisions!Paper, Paper, Power

\* A venue decides as Deliberation does: each motion and resolution at one stroke, by a
\* vote that carries it or by the chair's power, with one decision at most left broken
\* when the venue closes, and nothing decided after it (_record_vote, _decide,
\* _switch_phase, AgendaManager, _finish_for_end_condition).
THEOREM ImplementsDeliberation == Spec => DeliberationSpec
<1>1. Init => Decisions!Init
  BY DecisionsBegin
<1>2. IInv /\ [Next]_vars => [Decisions!Next]_(Decisions!vars)
  BY StepDecides
<1> QED BY <1>1, <1>2, Invariance, PTL DEF Spec, DeliberationSpec, Decisions!Spec
=============================================================================
