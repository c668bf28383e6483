----------------------- MODULE CrisisDirectionProofs -----------------------
(***************************************************************************)
(* What CrisisDirection keeps for any venues, tasks and due events, and    *)
(* any number of faults.  The clock is moved by one DM at a time (Lock),   *)
(* which is why minutes add up and due events are told once (Telling); a   *)
(* task is in one place at a time (Places), which is why its traces are    *)
(* in order (Traces).  Under it, every step is one of StoryClock or none.  *)
(***************************************************************************)
EXTENDS CrisisDirection, SequenceTheorems, WellFoundedInduction, TLAPS

DMPlace == Calls \cup {"waiting", "turn", "locking", "moving", "dead"}

Move == [task : Task, minutes : Minutes, time : Nat]

\* The types, by who owns the variables, and what the arguments of a call under way
\* can be.
ClockTypes == clock \in Nat /\ pullups \subseteq PullUp /\ moves \in Seq(Move)

VenueTypes ==
  /\ gate \in [Venue -> {"open", "draining", "failed"}]
  /\ status \in [Task -> {"none", "pending", "completed", "failed",
                          "accepted", "rejected"}]
  /\ record \in [Venue -> Seq({"audit", "crisis"} \X Task)]
  /\ told \in [Venue -> Seq(PullUp \X Nat)]

RestTypes ==
  /\ inbox \in [Venue -> Seq(Task)] /\ processed \subseteq Task
  /\ stopping \in BOOLEAN /\ faults \in 0..MaxFaults

\* A DM at this place with this turn.
Fits(place, new) ==
  /\ place \in DMPlace /\ new \in Turn
  /\ new.task # None <=> place \notin {"waiting", "dead"}
  /\ place = "deciding" => new.verdict \in {"completed", "failed"}
  /\ place \in {"locking", "moving"} => new.minutes \in Minutes
  /\ place = "publishing" => new.published < MaxUpdates
  /\ place = "delivering" <=> new.left # {}

DMTypes ==
  /\ holder \in Venue \cup {None}
  /\ asked \subseteq {d \in Venue : at[d] \in Calls}
  /\ at \in [Venue -> DMPlace] /\ turn \in [Venue -> Turn]
  /\ \A d \in Venue : Fits(at[d], turn[d])

TypeInv == ClockTypes /\ VenueTypes /\ DMTypes /\ RestTypes

\* The update lock is held by the DM that moves the clock or delivers what is due,
\* and by nobody else; what it has read of the clock is still so.
Lock ==
  /\ \A d \in Venue : at[d] \in {"moving", "delivering"} => holder = d
  /\ holder # None => at[holder] \in {"moving", "delivering"}
  /\ \A d \in Venue : at[d] = "moving" => turn[d].base = clock

\* Nobody was told of an event that is still waiting, nor of one that is still to be
\* delivered to that venue; of the latter others were told at the time it is now.
\* What is due has left the list, and is delivered or being so.
Telling ==
  /\ \A p \in pullups, v \in Venue : Copies(p, v) = {}
  /\ \A d \in Venue : \A x \in turn[d].left :
       /\ x[1] \notin pullups /\ Copies(x[1], x[2]) = {} /\ Due[x[1]] <= clock
       /\ \A w \in Venue : \A j \in Copies(x[1], w) : told[w][j][2] = clock
  /\ clock > 0 => \A p \in pullups : clock < Due[p]
  /\ Undisturbed => \A p \in PullUp \ pullups, v \in Venue :
       Copies(p, v) # {} \/ \E d \in Venue : <<p, v>> \in turn[d].left
  /\ DueTogether

\* An instruction is decided by a DM, a resolution before it gets there.  A task is
\* in the inbox of its venue's DM, in its turn, or past, and in one of them only.
Places ==
  /\ \A t \in Task : status[t] \in
       {"none"} \cup IF t \in Instruction THEN {"pending", "completed", "failed"}
                     ELSE {"accepted", "rejected"}
  /\ \A d \in Venue :
       /\ \A i \in 1..Len(inbox[d]) :
            /\ VenueOf[inbox[d][i]] = d /\ status[inbox[d][i]] # "none"
            /\ inbox[d][i] # turn[d].task /\ inbox[d][i] \notin processed
            /\ \A j \in 1..Len(inbox[d]) : inbox[d][i] = inbox[d][j] => i = j
       /\ turn[d].task # None =>
            /\ VenueOf[turn[d].task] = d /\ status[turn[d].task] # "none"
            /\ turn[d].task \notin processed
  /\ \A t \in processed : status[t] # "none"

\* A task that no DM has taken up yet, and one that has no consequences.
Ahead(t) ==
  status[t] = "none" \/ \E d \in Venue : \E i \in 1..Len(inbox[d]) : inbox[d][i] = t

Traceless(t) == Entries("audit", t) = {} /\ Entries("crisis", t) = {} /\ MovesFor(t) = {}

\* What a DM remembers in a turn, and the place of the call under way, agree with
\* the record.
Remembered(d) ==
  LET t == turn[d].task IN
  /\ turn[d].adjudicated => t \in Instruction /\ Entries("audit", t) # {}
  /\ turn[d].published > 0 => Entries("crisis", t) # {}
  /\ at[d] = "deciding" => t \in Instruction /\ status[t] = "pending"
  /\ at[d] = "auditing" => /\ t \in Instruction /\ status[t] \in {"completed", "failed"}
                           /\ Entries("audit", t) = {}
  /\ at[d] \in {"publishing", "locking", "moving"} => Ready(d)
  /\ at[d] \in {"locking", "moving"} => status[t] # "rejected"

Memory == \A d \in Venue : turn[d].task # None => Remembered(d)

Recorded ==
  /\ \A t \in Task : Ahead(t) => Traceless(t)
  /\ \A t \in Task : status[t] = "rejected" => MovesFor(t) = {}
  /\ VerdictFirst
  /\ OutcomeOnRecord

Traces == Memory /\ Recorded

IInv == TypeInv /\ Lock /\ Telling /\ MinutesAddUp /\ Places /\ Traces

-----------------------------------------------------------------------------
(* Helpers.                                                                *)

\* A set of natural numbers has a least one.
LEMMA LeastNat ==
  ASSUME NEW S, S \subseteq Nat, S # {}
  PROVE  \E m \in S : \A n \in S : m <= n
<1>1. PICK m \in S : \A n \in S : ~(<<n, m>> \in OpToRel(<, Nat))
  BY WFMin, NatLessThanWellFounded
<1>2. \A n \in S : <<n, m>> \in OpToRel(<, Nat) <=> n < m
  BY DEF OpToRel
<1>3. \A n \in S : ~(n < m)
  BY <1>1, <1>2, Zenon
<1>4. \A n \in S : m <= n
  BY <1>3
<1> QED BY <1>4, Zenon

\* An element of a sequence has a position in it.
LEMMA PositionInRange ==
  ASSUME NEW seq, NEW S, seq \in Seq(S), NEW e \in {seq[i] : i \in 1..Len(seq)}
  PROVE  Position(seq, e) \in Nat /\ seq[Position(seq, e)] = e
<1>1. \E i \in 1..Len(seq) : seq[i] = e
  OBVIOUS
<1>2. Position(seq, e) \in 1..Len(seq) /\ seq[Position(seq, e)] = e
  BY <1>1 DEF Position
<1> QED BY <1>2

\* While something is left, what comes first is among it.
LEMMA FirstIsLeft ==
  ASSUME NEW left, left \subseteq PullUp \X Venue, left # {}
  PROVE  /\ FirstOf(left) \in left
         /\ FirstOf(left)[1] \in PullUp /\ FirstOf(left)[2] \in Venue
         /\ FirstOf(left) = <<FirstOf(left)[1], FirstOf(left)[2]>>
         /\ \A y \in left : \/ Position(Pool, FirstOf(left)[1]) < Position(Pool, y[1])
                            \/ FirstOf(left)[1] = y[1]
<1> DEFINE E(x) == Position(Pool, x[1])
           V(x) == Position(Venues, x[2])
           Best(x) == \A y \in left : E(x) < E(y) \/ (x[1] = y[1] /\ V(x) <= V(y))
<1>1. \A x \in left : /\ x[1] \in PullUp /\ x[2] \in Venue /\ x = <<x[1], x[2]>>
  OBVIOUS
<1>2. \A x \in left : E(x) \in Nat /\ Pool[E(x)] = x[1] /\ V(x) \in Nat
  BY <1>1, PositionInRange, DirectionAssumption DEF PullUp, Venue
<1> HIDE DEF E, V
<1> DEFINE Where == {E(x) : x \in left}
<1>3. \E m \in Where : \A n \in Where : m <= n
  <2>1. Where \subseteq Nat /\ Where # {}
    BY <1>2
  <2> HIDE DEF Where
  <2> QED BY <2>1, LeastNat
<1>4. PICK a \in left : \A y \in left : E(a) <= E(y)
  BY <1>3
<1> DEFINE Same == {x \in left : E(x) = E(a)}
<1>5. \E m \in {V(x) : x \in Same} : \A n \in {V(x) : x \in Same} : m <= n
  <2>1. {V(x) : x \in Same} \subseteq Nat /\ {V(x) : x \in Same} # {}
    BY <1>2, <1>4
  <2> HIDE DEF Same
  <2> QED BY <2>1, LeastNat
<1>6. PICK b \in Same : \A y \in Same : V(b) <= V(y)
  BY <1>5
<1>7. b \in left /\ Best(b)
  <2>1. SUFFICES ASSUME NEW y \in left
                 PROVE  E(b) < E(y) \/ (b[1] = y[1] /\ V(b) <= V(y))
    OBVIOUS
  <2>2. CASE E(y) = E(a)
    BY <1>2, <1>6, <2>2
  <2>3. CASE E(y) # E(a)
    BY <1>2, <1>4, <1>6, <2>3
  <2> QED BY <2>2, <2>3
<1>8. FirstOf(left) = CHOOSE x \in left : Best(x)
  BY DEF FirstOf, E, V
<1> HIDE DEF Best
<1>9. FirstOf(left) \in left /\ Best(FirstOf(left))
  BY <1>7, <1>8
<1>10. \A y \in left : E(FirstOf(left)) < E(y) \/ FirstOf(left)[1] = y[1]
  BY <1>9 DEF Best
<1> QED BY <1>1, <1>9, <1>10 DEF E

\* Of the DMs only d goes anywhere.
Becomes(d, place, new) ==
  \A e \in Venue : /\ at'[e] = IF e = d THEN place ELSE at[e]
                   /\ turn'[e] = IF e = d THEN new ELSE turn[e]

\* The types of the DMs survive one of them moving on.
LEMMA OneMoves ==
  ASSUME DMTypes, NEW d \in Venue, NEW place, NEW new, Fits(place, new),
         at' = [at EXCEPT ![d] = place], turn' = [turn EXCEPT ![d] = new],
         holder' \in Venue \cup {None}, asked' \subseteq asked,
         d \in asked' => place \in Calls
  PROVE  DMTypes' /\ Becomes(d, place, new)
<1>1. Becomes(d, place, new)
  BY DEF Becomes, DMTypes
<1>2. place \in DMPlace /\ new \in Turn
  BY DEF Fits
<1>3. at' \in [Venue -> DMPlace] /\ turn' \in [Venue -> Turn]
  BY <1>2 DEF DMTypes
<1>4. asked' \subseteq {e \in Venue : at'[e] \in Calls}
  BY <1>1 DEF DMTypes, Becomes
<1>5. ASSUME NEW e \in Venue
      PROVE  Fits(at'[e], turn'[e])
  BY <1>1 DEF Becomes, DMTypes
<1> QED BY <1>1, <1>3, <1>4, <1>5 DEF DMTypes

\* What happens to the calls of others when a venue fails, and to those of a DM that
\* gives up.
LEMMA GivenUp ==
  ASSUME DMTypes, NEW Out \in SUBSET Venue, NEW Back \in SUBSET Venue, Give(Out, Back),
         \A d \in Back : at[d] \notin {"waiting", "dead"}
  PROVE  /\ DMTypes' /\ stopping' \in BOOLEAN
         /\ \A d \in Venue :
              \/ at'[d] = "dead" /\ turn'[d] = NoTurn /\ d \in Out
              \/ /\ at'[d] = "turn" /\ turn'[d].left = {} /\ d \in Back
                 /\ turn'[d].task = turn[d].task
                 /\ turn'[d].adjudicated = turn[d].adjudicated
                 /\ turn'[d].published = turn[d].published
              \/ at'[d] = at[d] /\ turn'[d] = turn[d] /\ d \notin Out \cup Back
<1> DEFINE Back1(d) == [turn[d] EXCEPT !.left = {}, !.minutes = 0, !.base = 0,
                                       !.verdict = None]
<1>1. NoTurn \in Turn /\ NoTurn.task = None /\ NoTurn.left = {}
  BY DirectionAssumption DEF NoTurn, Turn
<1>2. \A d \in Venue : /\ Back1(d) \in Turn /\ Back1(d).left = {}
                       /\ Back1(d).task = turn[d].task
                       /\ Back1(d).adjudicated = turn[d].adjudicated
                       /\ Back1(d).published = turn[d].published
  BY DEF DMTypes, Turn
<1>3. \A d \in Venue : /\ at'[d] = IF d \in Out THEN "dead"
                                   ELSE IF d \in Back THEN "turn" ELSE at[d]
                       /\ turn'[d] = IF d \in Out THEN NoTurn
                                     ELSE IF d \in Back THEN Back1(d) ELSE turn[d]
  BY DEF Give
<1>4. at' \in [Venue -> DMPlace]
  BY DEF Give, DMTypes, DMPlace
<1> HIDE DEF Back1
<1>5. turn' \in [Venue -> Turn]
  <2>1. turn' = [d \in Venue |-> IF d \in Out THEN NoTurn
                                 ELSE IF d \in Back THEN Back1(d) ELSE turn[d]]
    BY DEF Give, Back1
  <2> QED BY <1>1, <1>2, <2>1 DEF DMTypes
<1>6. ASSUME NEW d \in Venue
      PROVE  Fits(at'[d], turn'[d])
  <2>1. CASE d \in Out
    BY <1>1, <1>3, <2>1 DEF Fits, DMPlace
  <2>2. CASE d \notin Out /\ d \in Back
    <3>1. turn[d].task # None
      BY <2>2 DEF DMTypes, Fits
    <3> QED BY <1>2, <1>3, <2>2, <3>1 DEF Fits, DMPlace
  <2>3. CASE d \notin Out /\ d \notin Back
    BY <1>3, <2>3 DEF DMTypes
  <2> QED BY <2>1, <2>2, <2>3
<1>7. holder' \in Venue \cup {None}
  BY DEF Give, Release, DMTypes
<1>8. asked' \subseteq {d \in Venue : at'[d] \in Calls}
  BY <1>3 DEF Give, DMTypes
<1>9. DMTypes'
  BY <1>4, <1>5, <1>6, <1>7, <1>8 DEF DMTypes
<1>10. stopping' \in BOOLEAN
  BY DEF Give
<1> QED BY <1>2, <1>3, <1>9, <1>10

\* The same of one DM that leaves.
LEMMA OneGivesUp ==
  ASSUME DMTypes, NEW d \in Venue, Give({d}, {})
  PROVE  DMTypes' /\ stopping' = TRUE /\ Becomes(d, "dead", NoTurn)
<1> DEFINE Out == {d}
           Back == {}
<1>1. Out \in SUBSET Venue /\ Back \in SUBSET Venue /\ Give(Out, Back) /\ d \in Out
      /\ \A e \in Back : at[e] \notin {"waiting", "dead"}
  OBVIOUS
<1>2. \A e \in Venue : e \in Out \cup Back <=> e = d
  OBVIOUS
<1>3. stopping' = TRUE
  BY DEF Give
<1> HIDE DEF Out, Back
<1>4. DMTypes'
  BY <1>1, GivenUp
<1>5. \A e \in Venue : /\ at'[e] = IF e \in Out THEN "dead"
                                   ELSE IF e \in Back THEN "turn" ELSE at[e]
                       /\ e \in Out => turn'[e] = NoTurn
                       /\ e \notin Out /\ e \notin Back => turn'[e] = turn[e]
  BY <1>1 DEF Give
<1>6. Becomes(d, "dead", NoTurn)
  BY <1>1, <1>2, <1>5 DEF Becomes
<1> QED BY <1>3, <1>4, <1>6

\* The turns that the tools leave.
LEMMA TurnUpdates ==
  ASSUME NEW r \in Turn
  PROVE  /\ \A x \in {None, "completed", "failed"} : [r EXCEPT !.verdict = x] \in Turn
         /\ [r EXCEPT !.adjudicated = TRUE] \in Turn
         /\ r.published < MaxUpdates => [r EXCEPT !.published = @ + 1] \in Turn
         /\ \A x \in Minutes : [r EXCEPT !.minutes = x] \in Turn
         /\ \A x \in Nat : [r EXCEPT !.base = x] \in Turn
         /\ \A x \in SUBSET (PullUp \X Venue) : [r EXCEPT !.left = x] \in Turn
         /\ [r EXCEPT !.minutes = 0, !.base = 0, !.left = {}, !.advanced = TRUE] \in Turn
         /\ \A x \in Task : [NoTurn EXCEPT !.task = x] \in Turn
<1>1. \A x \in {None, "completed", "failed"} : [r EXCEPT !.verdict = x] \in Turn
  BY DEF Turn
<1>2. [r EXCEPT !.adjudicated = TRUE] \in Turn
  BY DEF Turn
<1>3. ASSUME r.published < MaxUpdates
      PROVE  [r EXCEPT !.published = @ + 1] \in Turn
  <2>1. r.published + 1 \in 0..MaxUpdates
    BY <1>3, DirectionAssumption DEF Turn
  <2> QED BY <2>1 DEF Turn
<1>4. \A x \in Minutes : [r EXCEPT !.minutes = x] \in Turn
  BY DEF Turn
<1>5. \A x \in Nat : [r EXCEPT !.base = x] \in Turn
  BY DEF Turn
<1>6. \A x \in SUBSET (PullUp \X Venue) : [r EXCEPT !.left = x] \in Turn
  BY DEF Turn
<1>7. [r EXCEPT !.minutes = 0, !.base = 0, !.left = {}, !.advanced = TRUE] \in Turn
  BY DEF Turn
<1>8. ASSUME NEW x \in Task
      PROVE  [NoTurn EXCEPT !.task = x] \in Turn
  <2>1. NoTurn \in Turn
    BY DirectionAssumption DEF NoTurn, Turn
  <2> QED BY <2>1 DEF Turn
<1> QED BY <1>1, <1>2, <1>3, <1>4, <1>5, <1>6, <1>7, <1>8

\* What they leave alone.
LEMMA AdvancedTurn ==
  ASSUME NEW r \in Turn
  PROVE  LET new == [r EXCEPT !.minutes = 0, !.base = 0, !.left = {}, !.advanced = TRUE] IN
         /\ new.task = r.task /\ new.left = {}
         /\ new.adjudicated = r.adjudicated /\ new.published = r.published
<1> DEFINE a == [r EXCEPT !.minutes = 0]
           b == [a EXCEPT !.base = 0]
           c == [b EXCEPT !.left = {}]
           new == [c EXCEPT !.advanced = TRUE]
<1>1. a \in Turn
      /\ a.task = r.task /\ a.adjudicated = r.adjudicated /\ a.published = r.published
  BY DEF Turn
<1> HIDE DEF a
<1>2. b \in Turn
      /\ b.task = r.task /\ b.adjudicated = r.adjudicated /\ b.published = r.published
  BY <1>1 DEF Turn
<1> HIDE DEF b
<1>3. c \in Turn
      /\ c.task = r.task /\ c.adjudicated = r.adjudicated /\ c.published = r.published
      /\ c.left = {}
  BY <1>2 DEF Turn
<1> HIDE DEF c
<1>4. /\ new.task = r.task /\ new.left = {}
      /\ new.adjudicated = r.adjudicated /\ new.published = r.published
  BY <1>3 DEF Turn
<1> QED BY <1>4 DEF a, b, c

\* The turn that before_step begins.
LEMMA TakenTurn ==
  ASSUME NEW x \in Task
  PROVE  LET new == [NoTurn EXCEPT !.task = x] IN
         /\ new.task = x /\ new.left = {} /\ new.published = 0 /\ new.adjudicated = FALSE
         /\ x # None
BY DirectionAssumption DEF NoTurn

-----------------------------------------------------------------------------
(* Types.                                                                  *)

\* What a command does, by its kind.
LEMMA EffectKinds ==
  ASSUME TypeInv, NEW d \in asked, TakesEffect(d)
  PROVE  \/ /\ at[d] = "deciding" /\ UNCHANGED <<record, told>>
            /\ status' = [status EXCEPT ![turn[d].task] = turn[d].verdict]
         \/ /\ at[d] = "auditing" /\ UNCHANGED <<status, told>>
            /\ record' = [record EXCEPT ![d] = Append(@, <<"audit", turn[d].task>>)]
         \/ /\ at[d] = "publishing" /\ UNCHANGED <<status, told>>
            /\ record' = [record EXCEPT ![d] = Append(@, <<"crisis", turn[d].task>>)]
         \/ /\ at[d] = "delivering" /\ UNCHANGED <<status, record>>
            /\ told' = [told EXCEPT ![FirstOf(turn[d].left)[2]] =
                          Append(@, <<FirstOf(turn[d].left)[1], clock>>)]
<1>1. at[d] \in Calls
  BY DEF TypeInv, DMTypes
<1> QED BY <1>1 DEF TakesEffect, Calls, Target

\* Whoever waits for an answer has a task, and something to deliver if delivering.
LEMMA SenderFacts ==
  ASSUME TypeInv, NEW d \in asked
  PROVE  /\ d \in Venue /\ at[d] \in Calls /\ turn[d] \in Turn /\ turn[d].task \in Task
         /\ at[d] = "delivering" =>
              /\ FirstOf(turn[d].left) \in turn[d].left
              /\ FirstOf(turn[d].left)[1] \in PullUp
              /\ FirstOf(turn[d].left)[2] \in Venue
<1>1. d \in Venue /\ at[d] \in Calls
  BY DEF TypeInv, DMTypes
<1>2. Fits(at[d], turn[d])
  BY <1>1 DEF TypeInv, DMTypes
<1>3. turn[d] \in Turn /\ turn[d].task \in Task
  BY <1>1, <1>2 DEF Fits, Turn, Calls
<1>4. turn[d].left \subseteq PullUp \X Venue
  BY <1>3 DEF Turn
<1> QED BY <1>1, <1>2, <1>3, <1>4, FirstIsLeft DEF Fits

\* A command that takes effect keeps the types of the venue.
LEMMA EffectTypes ==
  ASSUME TypeInv, NEW d \in asked, TakesEffect(d),
         gate' \in [Venue -> {"open", "draining", "failed"}]
  PROVE  VenueTypes'
<1> DEFINE t == turn[d].task
           x == FirstOf(turn[d].left)
<1>1. d \in Venue /\ t \in Task /\ turn[d] \in Turn
  BY SenderFacts
<1>2. VenueTypes
  BY DEF TypeInv
<1>3. CASE /\ at[d] = "deciding" /\ UNCHANGED <<record, told>>
           /\ status' = [status EXCEPT ![t] = turn[d].verdict]
  <2>1. turn[d].verdict \in {"completed", "failed"}
    BY <1>1, <1>3 DEF TypeInv, DMTypes, Fits
  <2> QED BY <1>1, <1>2, <1>3, <2>1 DEF VenueTypes
<1>4. CASE /\ at[d] = "auditing" /\ UNCHANGED <<status, told>>
           /\ record' = [record EXCEPT ![d] = Append(@, <<"audit", t>>)]
  <2>1. Append(record[d], <<"audit", t>>) \in Seq({"audit", "crisis"} \X Task)
    BY <1>1, <1>2 DEF VenueTypes
  <2> QED BY <1>1, <1>2, <1>4, <2>1 DEF VenueTypes
<1>5. CASE /\ at[d] = "publishing" /\ UNCHANGED <<status, told>>
           /\ record' = [record EXCEPT ![d] = Append(@, <<"crisis", t>>)]
  <2>1. Append(record[d], <<"crisis", t>>) \in Seq({"audit", "crisis"} \X Task)
    BY <1>1, <1>2 DEF VenueTypes
  <2> QED BY <1>1, <1>2, <1>5, <2>1 DEF VenueTypes
<1>6. CASE /\ at[d] = "delivering" /\ UNCHANGED <<status, record>>
           /\ told' = [told EXCEPT ![x[2]] = Append(@, <<x[1], clock>>)]
  <2>1. x[1] \in PullUp /\ x[2] \in Venue
    BY <1>6, SenderFacts
  <2>2. Append(told[x[2]], <<x[1], clock>>) \in Seq(PullUp \X Nat)
    BY <1>2, <2>1 DEF TypeInv, VenueTypes, ClockTypes
  <2> QED BY <1>2, <1>6, <2>1, <2>2 DEF VenueTypes
<1> QED BY <1>3, <1>4, <1>5, <1>6, EffectKinds

\* A venue that fails leaves everything well typed.
LEMMA ShutTypes ==
  ASSUME TypeInv, NEW v \in Venue, NEW Back \in SUBSET Senders(v),
         Shut(v), Give(Senders(v) \ Back, Back), faults' \in 0..MaxFaults,
         UNCHANGED <<clockVars, inbox, processed>>
  PROVE  TypeInv'
<1>1. Senders(v) \subseteq asked /\ asked \subseteq Venue
  BY DEF Senders, TypeInv, DMTypes
<1>2. \A d \in Back : at[d] \notin {"waiting", "dead"}
  BY <1>1, SenderFacts DEF Calls
<1>3. DMTypes' /\ stopping' \in BOOLEAN
  BY <1>1, <1>2, GivenUp DEF TypeInv
<1>4. gate' \in [Venue -> {"open", "draining", "failed"}]
  BY DEF Shut, TypeInv, VenueTypes
<1>5. VenueTypes'
  <2>1. CASE UNCHANGED <<status, record, told>>
    BY <1>4, <2>1 DEF TypeInv, VenueTypes
  <2>2. CASE \E d \in Senders(v) : TakesEffect(d)
    BY <1>1, <1>4, <2>2, EffectTypes
  <2> QED BY <2>1, <2>2 DEF Shut
<1>6. ClockTypes' /\ RestTypes'
  BY <1>3 DEF TypeInv, clockVars, ClockTypes, RestTypes
<1> QED BY <1>3, <1>5, <1>6 DEF TypeInv

\* Every step keeps the types.
LEMMA TypesStep ==
  ASSUME TypeInv, [Next]_vars
  PROVE  TypeInv'
<1>0. /\ ClockTypes /\ VenueTypes /\ DMTypes /\ RestTypes
      /\ \A d \in Venue : Fits(at[d], turn[d]) /\ turn[d] \in Turn
  BY DEF TypeInv, DMTypes
<1>1. CASE UNCHANGED vars
  <2>1. ClockTypes' /\ VenueTypes' /\ RestTypes'
    BY <1>0, <1>1 DEF vars, clockVars, venueVars, ClockTypes, VenueTypes, RestTypes
  <2>2. DMTypes'
    BY <1>0, <1>1 DEF vars, DMTypes
  <2> QED BY <2>1, <2>2 DEF TypeInv
<1>2. ASSUME NEW t \in Task, Arrive(t)
      PROVE  TypeInv'
  <2>1. DMTypes' /\ ClockTypes'
    BY <1>0, <1>2 DEF Arrive, DMTypes, ClockTypes, clockVars
  <2>2. VenueTypes'
    BY <1>0, <1>2 DEF Arrive, VenueTypes
  <2>3. RestTypes'
    <3>1. VenueOf[t] \in Venue /\ Append(inbox[VenueOf[t]], t) \in Seq(Task)
      BY <1>0, DirectionAssumption DEF RestTypes
    <3> QED BY <1>0, <1>2, <3>1 DEF Arrive, RestTypes, TypeInv
  <2> QED BY <2>1, <2>2, <2>3 DEF TypeInv
<1>3. ASSUME NEW d \in Venue, DecisionMade(d)
      PROVE  TypeInv'
  <2>1. [turn[d] EXCEPT !.verdict = None] \in Turn
    BY <1>0, <1>3, TurnUpdates DEF DecisionMade, Fits
  <2>2. Fits("auditing", [turn[d] EXCEPT !.verdict = None])
    BY <1>0, <1>3, <2>1, DirectionAssumption DEF DecisionMade, Fits, Turn, DMPlace, Calls,
       InTurn
  <2>3. /\ at' = [at EXCEPT ![d] = "auditing"]
        /\ turn' = [turn EXCEPT ![d] = [turn[d] EXCEPT !.verdict = None]]
    BY <1>0, <1>3, SMT DEF DecisionMade, Go, DMTypes
  <2>4. /\ holder' \in Venue \cup {None} /\ asked' \subseteq asked
        /\ d \in asked' => "auditing" \in Calls
    BY <1>0, <1>3 DEF DecisionMade, DMTypes, InTurn, Calls
  <2>5. DMTypes'
    BY <1>0, <2>2, <2>3, <2>4, OneMoves
  <2>6. VenueTypes'
    BY <1>0, <1>3, EffectTypes DEF DecisionMade, VenueTypes
  <2>7. ClockTypes' /\ RestTypes'
    BY <1>0, <1>3 DEF DecisionMade, clockVars, ClockTypes, RestTypes
  <2> QED BY <2>5, <2>6, <2>7 DEF TypeInv
<1>4. ASSUME NEW d \in Venue, AuditMade(d)
      PROVE  TypeInv'
  <2>1. [turn[d] EXCEPT !.adjudicated = TRUE] \in Turn
    BY <1>0, <1>4, TurnUpdates DEF AuditMade, Fits
  <2>2. Fits("turn", [turn[d] EXCEPT !.adjudicated = TRUE])
    BY <1>0, <1>4, <2>1, DirectionAssumption DEF AuditMade, Fits, Turn, DMPlace, Calls,
       InTurn
  <2>3. /\ at' = [at EXCEPT ![d] = "turn"]
        /\ turn' = [turn EXCEPT ![d] = [turn[d] EXCEPT !.adjudicated = TRUE]]
    BY <1>0, <1>4, SMT DEF AuditMade, Go, DMTypes
  <2>4. /\ holder' \in Venue \cup {None} /\ asked' \subseteq asked
        /\ d \in asked' => "turn" \in Calls
    BY <1>0, <1>4 DEF AuditMade, DMTypes, InTurn, Calls
  <2>5. DMTypes'
    BY <1>0, <2>2, <2>3, <2>4, OneMoves
  <2>6. VenueTypes'
    BY <1>0, <1>4, EffectTypes DEF AuditMade, VenueTypes
  <2>7. ClockTypes' /\ RestTypes'
    BY <1>0, <1>4 DEF AuditMade, clockVars, ClockTypes, RestTypes
  <2> QED BY <2>5, <2>6, <2>7 DEF TypeInv
<1>5. ASSUME NEW d \in Venue, CrisisMade(d)
      PROVE  TypeInv'
  <2>1. [turn[d] EXCEPT !.published = @ + 1] \in Turn
    BY <1>0, <1>5, TurnUpdates DEF CrisisMade, Fits
  <2>2. Fits("turn", [turn[d] EXCEPT !.published = @ + 1])
    BY <1>0, <1>5, <2>1, DirectionAssumption DEF CrisisMade, Fits, Turn, DMPlace, Calls,
       InTurn
  <2>3. /\ at' = [at EXCEPT ![d] = "turn"]
        /\ turn' = [turn EXCEPT ![d] = [turn[d] EXCEPT !.published = @ + 1]]
    BY <1>0, <1>5, SMT DEF CrisisMade, Go, DMTypes
  <2>4. /\ holder' \in Venue \cup {None} /\ asked' \subseteq asked
        /\ d \in asked' => "turn" \in Calls
    BY <1>0, <1>5 DEF CrisisMade, DMTypes, InTurn, Calls
  <2>5. DMTypes'
    BY <1>0, <2>2, <2>3, <2>4, OneMoves
  <2>6. VenueTypes'
    BY <1>0, <1>5, EffectTypes DEF CrisisMade, VenueTypes
  <2>7. ClockTypes' /\ RestTypes'
    BY <1>0, <1>5 DEF CrisisMade, clockVars, ClockTypes, RestTypes
  <2> QED BY <2>5, <2>6, <2>7 DEF TypeInv
<1>6. ASSUME NEW d \in Venue, DueEventMade(d)
      PROVE  TypeInv'
  <2>1. VenueTypes'
    BY <1>0, <1>6, EffectTypes DEF DueEventMade, VenueTypes
  <2>2. ClockTypes' /\ RestTypes'
    BY <1>0, <1>6 DEF DueEventMade, clockVars, ClockTypes, RestTypes
  <2>3. asked' = asked \ {d} /\ at[d] = "delivering"
    BY <1>6 DEF DueEventMade
  <2>4. CASE turn[d].left = {FirstOf(turn[d].left)}
    <3> DEFINE new == [turn[d] EXCEPT !.minutes = 0, !.base = 0, !.left = {},
                                      !.advanced = TRUE]
    <3>0. new \in Turn /\ new.task = turn[d].task /\ new.left = {}
      BY <1>0, TurnUpdates, AdvancedTurn
    <3>1. Fits("turn", new)
      BY <1>0, <2>3, <3>0 DEF Fits, DMPlace
    <3>2. Advanced(d)
      BY <1>6, <2>4 DEF DueEventMade
    <3>3. /\ at' = [at EXCEPT ![d] = "turn"] /\ turn' = [turn EXCEPT ![d] = new]
          /\ holder' = None
      BY <3>2, SMT DEF Advanced, Go
    <3> HIDE DEF new
    <3> QED BY <1>0, <2>1, <2>2, <2>3, <3>1, <3>3, OneMoves DEF TypeInv
  <2>5. CASE turn[d].left # {FirstOf(turn[d].left)}
    <3> DEFINE new == [turn[d] EXCEPT !.left = @ \ {FirstOf(@)}]
    <3>1. turn[d].left \ {FirstOf(turn[d].left)} # {}
      BY <1>0, <2>3, <2>5 DEF Fits
    <3>2. Fits("delivering", new)
      BY <1>0, <2>3, <3>1, DirectionAssumption DEF Fits, Turn, DMPlace, Calls
    <3>3. /\ at' = [at EXCEPT ![d] = "delivering"] /\ turn' = [turn EXCEPT ![d] = new]
          /\ holder' = holder
      BY <1>0, <1>6, <2>3, <2>5, SMT DEF DueEventMade, DMTypes
    <3> HIDE DEF new
    <3>4. holder' \in Venue \cup {None} /\ "delivering" \in Calls
      BY <1>0, <3>3 DEF DMTypes, Calls
    <3> QED BY <1>0, <2>1, <2>2, <2>3, <3>2, <3>3, <3>4, OneMoves DEF TypeInv
  <2> QED BY <2>4, <2>5 DEF TypeInv
<1>7. ASSUME NEW d \in Venue, TakeUp(d)
      PROVE  TypeInv'
  <2> DEFINE t == Head(inbox[d])
  <2>1. t \in Task /\ Tail(inbox[d]) \in Seq(Task)
    BY <1>0, <1>7 DEF TakeUp, RestTypes
  <2>2. ClockTypes' /\ VenueTypes' /\ RestTypes'
    BY <1>0, <1>7, <2>1 DEF TakeUp, clockVars, venueVars, ClockTypes, VenueTypes,
       RestTypes
  <2>3. /\ holder' = holder /\ asked' = asked /\ at[d] = "waiting" /\ d \notin asked
    BY <1>0, <1>7 DEF TakeUp, DMTypes, Calls
  <2>4. CASE t \in Instruction /\ status[t] # "pending"
    <3>1. Fits("dead", turn[d])
      BY <1>0, <2>3 DEF Fits, DMPlace
    <3>2. at' = [at EXCEPT ![d] = "dead"] /\ turn' = [turn EXCEPT ![d] = turn[d]]
      BY <1>0, <1>7, <2>4 DEF TakeUp, Go, DMTypes
    <3> QED BY <1>0, <2>2, <2>3, <3>1, <3>2, OneMoves DEF DMTypes, TypeInv
  <2>5. CASE ~(t \in Instruction /\ status[t] # "pending")
    <3> DEFINE new == [NoTurn EXCEPT !.task = t]
    <3>0. new \in Turn /\ new.task = t /\ new.left = {} /\ t # None
      BY <1>0, <2>1, TurnUpdates, TakenTurn
    <3>1. Fits("turn", new)
      BY <3>0 DEF Fits, DMPlace
    <3>2. at' = [at EXCEPT ![d] = "turn"] /\ turn' = [turn EXCEPT ![d] = new]
      BY <1>0, <1>7, <2>5 DEF TakeUp, Go, DMTypes
    <3> HIDE DEF new
    <3> QED BY <1>0, <2>2, <2>3, <3>1, <3>2, OneMoves DEF DMTypes, TypeInv
  <2> QED BY <2>4, <2>5 DEF TypeInv
<1>8. ASSUME NEW d \in Venue, EndTurn(d)
      PROVE  TypeInv'
  <2>1. PICK place \in {"waiting", "dead"} : Go(d, place)
    BY <1>8 DEF EndTurn
  <2>2. Fits(place, NoTurn)
    BY DirectionAssumption DEF Fits, Turn, DMPlace, NoTurn
  <2>3. /\ at' = [at EXCEPT ![d] = place] /\ turn' = [turn EXCEPT ![d] = NoTurn]
        /\ holder' \in Venue \cup {None} /\ asked' = asked /\ d \notin asked
    BY <1>0, <1>8, <2>1 DEF EndTurn, Go, DMTypes, Calls
  <2>4. DMTypes'
    BY <1>0, <2>2, <2>3, OneMoves
  <2>5. turn[d].task \in Task
    BY <1>0, <1>8 DEF EndTurn, Fits, Turn
  <2>6. ClockTypes' /\ VenueTypes' /\ RestTypes'
    BY <1>0, <1>8, <2>5 DEF EndTurn, clockVars, venueVars, ClockTypes, VenueTypes,
       RestTypes
  <2> QED BY <2>4, <2>6 DEF TypeInv
<1>9. ASSUME NEW d \in Venue, Leave(d)
      PROVE  TypeInv'
  <2>1. Give({d}, {}) /\ UNCHANGED <<clockVars, venueVars, inbox, processed, faults>>
    BY <1>9 DEF Leave
  <2>2. DMTypes' /\ stopping' = TRUE
    BY <1>0, <2>1, OneGivesUp
  <2> QED BY <1>0, <2>1, <2>2 DEF clockVars, venueVars, ClockTypes, VenueTypes, RestTypes,
             TypeInv
<1>10. ASSUME NEW d \in Venue, Ask(d)
      PROVE  TypeInv'
  <2>1. asked' \subseteq {e \in Venue : at'[e] \in Calls}
    BY <1>0, <1>10 DEF Ask, DMTypes
  <2>2. DMTypes'
    BY <1>0, <1>10, <2>1 DEF Ask, DMTypes
  <2> QED BY <1>0, <1>10, <2>2 DEF Ask, clockVars, venueVars, ClockTypes, VenueTypes,
             RestTypes, TypeInv
<1>11. ASSUME NEW d \in Venue, Refused(d)
      PROVE  TypeInv'
  <2>1. Give({d}, {}) /\ UNCHANGED <<clockVars, venueVars, inbox, processed, faults>>
    BY <1>11 DEF Refused
  <2>2. DMTypes' /\ stopping' = TRUE
    BY <1>0, <2>1, OneGivesUp
  <2> QED BY <1>0, <2>1, <2>2 DEF clockVars, venueVars, ClockTypes, VenueTypes, RestTypes,
             TypeInv
<1>12. ASSUME NEW d \in Venue, TimePass(d)
      PROVE  TypeInv'
  <2>1. [turn[d] EXCEPT !.base = clock] \in Turn
    BY <1>0, <1>12, TurnUpdates DEF TimePass, ClockTypes, Fits, ClockTypes
  <2>2. Fits("moving", [turn[d] EXCEPT !.base = clock])
    BY <1>0, <1>12, <2>1, DirectionAssumption DEF TimePass, ClockTypes, Fits, Turn,
       DMPlace, Calls, InTurn
  <2>3. /\ at' = [at EXCEPT ![d] = "moving"]
        /\ turn' = [turn EXCEPT ![d] = [turn[d] EXCEPT !.base = clock]]
    BY <1>0, <1>12, SMT DEF TimePass, Go, DMTypes
  <2>4. /\ holder' \in Venue \cup {None} /\ asked' \subseteq asked
        /\ d \in asked' => "moving" \in Calls
    BY <1>0, <1>12 DEF TimePass, DMTypes, InTurn, Calls
  <2>5. DMTypes'
    BY <1>0, <2>2, <2>3, <2>4, OneMoves
  <2>6. ClockTypes' /\ VenueTypes' /\ RestTypes'
    BY <1>0, <1>12 DEF TimePass, clockVars, venueVars, ClockTypes, VenueTypes, RestTypes
  <2> QED BY <2>5, <2>6 DEF TypeInv
<1>13. ASSUME NEW d \in Venue, UpdateTime(d)
      PROVE  TypeInv'
  <2> DEFINE time == turn[d].base + turn[d].minutes
             due == DueBy(time)
  <2>1. VenueTypes' /\ at[d] = "moving" /\ UNCHANGED <<inbox, processed, faults>>
    BY <1>0, <1>13 DEF UpdateTime, venueVars, VenueTypes
  <2>2. time \in Nat /\ turn[d].task \in Task /\ turn[d].minutes \in Minutes
    <3>1. Fits("moving", turn[d]) /\ turn[d].base \in Nat
      BY <1>0, <2>1 DEF Turn
    <3>2. turn[d].minutes \in Minutes /\ turn[d].task # None
      BY <3>1 DEF Fits
    <3>3. turn[d].task \in Task
      BY <1>0, <3>2 DEF Turn
    <3>4. turn[d].minutes \in Nat
      BY <3>2, DirectionAssumption
    <3> QED BY <3>1, <3>2, <3>3, <3>4
  <2>3. CASE time < clock
    <3>1. Give({}, {d}) /\ UNCHANGED clockVars
      BY <1>13, <2>3 DEF UpdateTime
    <3>2. {} \in SUBSET Venue /\ {d} \in SUBSET Venue
          /\ \A e \in {d} : at[e] \notin {"waiting", "dead"}
      BY <2>1
    <3>3. DMTypes' /\ stopping' \in BOOLEAN
      BY <1>0, <3>1, <3>2, GivenUp
    <3> QED BY <1>0, <2>1, <3>1, <3>3 DEF clockVars, ClockTypes, RestTypes, TypeInv
  <2>4. CASE ~(time < clock)
    <3>1. /\ clock' = time /\ pullups' = pullups \ due
          /\ moves' = Append(moves, [task |-> turn[d].task, minutes |-> turn[d].minutes,
                                     time |-> time])
          /\ UNCHANGED <<asked, stopping>>
      BY <1>13, <2>4 DEF UpdateTime
    <3>2. [task |-> turn[d].task, minutes |-> turn[d].minutes, time |-> time] \in Move
      BY <2>2 DEF Move
    <3>3. ClockTypes' /\ RestTypes'
      BY <1>0, <2>1, <2>2, <3>1, <3>2 DEF ClockTypes, RestTypes
    <3>4. d \notin asked
      BY <1>0, <2>1 DEF DMTypes, Calls
    <3>5. CASE due = {}
      <4> DEFINE new == [turn[d] EXCEPT !.minutes = 0, !.base = 0, !.left = {},
                                        !.advanced = TRUE]
      <4>0. new \in Turn /\ new.task = turn[d].task /\ new.left = {}
        BY <1>0, TurnUpdates, AdvancedTurn
      <4>1. Fits("turn", new)
        BY <1>0, <2>1, <4>0 DEF Fits, DMPlace
      <4>4. Advanced(d)
        BY <1>13, <2>4, <3>5 DEF UpdateTime
      <4>2. /\ at' = [at EXCEPT ![d] = "turn"] /\ turn' = [turn EXCEPT ![d] = new]
            /\ holder' = None
        BY <4>4, SMT DEF Advanced, Go
      <4> HIDE DEF new
      <4>3. DMTypes'
        BY <1>0, <3>1, <3>4, <4>1, <4>2, OneMoves
      <4> QED BY <2>1, <3>3, <4>3 DEF TypeInv
    <3>6. CASE due # {}
      <4> DEFINE new == [turn[d] EXCEPT !.left = Deliveries(due)]
      <4>1. Deliveries(due) # {} /\ Deliveries(due) \subseteq PullUp \X Venue
        <5>1. due \subseteq PullUp
          BY <1>0 DEF DueBy, ClockTypes
        <5>2. PICK x \in due : TRUE
          BY <3>6
        <5>3. <<x, d>> \in due \X Venue
          BY <5>2
        <5> HIDE DEF due
        <5> QED BY <5>1, <5>3 DEF Deliveries
      <4>5. new \in Turn
        BY <1>0, <4>1, TurnUpdates
      <4>2. Fits("delivering", new)
        BY <1>0, <2>1, <4>1, <4>5 DEF Fits, Turn, DMPlace, Calls
      <4>3. /\ at' = [at EXCEPT ![d] = "delivering"] /\ turn' = [turn EXCEPT ![d] = new]
            /\ holder' = d
        BY <1>0, <1>13, <2>4, <3>6, SMT DEF UpdateTime, Go, DMTypes
      <4> HIDE DEF new
      <4>4. DMTypes'
        BY <1>0, <3>1, <3>4, <4>2, <4>3, OneMoves
      <4> QED BY <2>1, <3>3, <4>4 DEF TypeInv
    <3> QED BY <3>5, <3>6 DEF TypeInv
  <2> QED BY <2>3, <2>4 DEF TypeInv
<1>14. ASSUME NEW d \in Venue, Adjudicate(d)
      PROVE  TypeInv'
  <2>1. PICK s \in {"completed", "failed"} : turn' = [turn EXCEPT ![d].verdict = s] /\ Go(d, "deciding")
    BY <1>14 DEF Adjudicate, Go
  <2>2. [turn[d] EXCEPT !.verdict = s] \in Turn
    BY <1>0, <1>14, <2>1, TurnUpdates DEF Adjudicate, Fits
  <2>3. Fits("deciding", [turn[d] EXCEPT !.verdict = s])
    BY <1>0, <1>14, <2>1, <2>2, DirectionAssumption DEF Adjudicate, Fits, Turn, DMPlace,
       Calls, InTurn
  <2>4. /\ at' = [at EXCEPT ![d] = "deciding"]
        /\ turn' = [turn EXCEPT ![d] = [turn[d] EXCEPT !.verdict = s]]
    BY <1>0, <2>1, SMT DEF Adjudicate, Go, DMTypes
  <2>5. /\ holder' \in Venue \cup {None} /\ asked' \subseteq asked
        /\ d \in asked' => "deciding" \in Calls
    BY <1>0, <1>14 DEF Adjudicate, DMTypes, InTurn, Calls
  <2>6. DMTypes'
    BY <1>0, <2>3, <2>4, <2>5, OneMoves
  <2>7. ClockTypes' /\ VenueTypes' /\ RestTypes'
    BY <1>0, <1>14 DEF Adjudicate, clockVars, venueVars, ClockTypes, VenueTypes, RestTypes
  <2> QED BY <2>6, <2>7 DEF TypeInv
<1>15. ASSUME NEW d \in Venue, Publish(d)
      PROVE  TypeInv'
  <2>1. turn[d] \in Turn
    BY <1>0, <1>15, TurnUpdates DEF Publish, Fits
  <2>2. Fits("publishing", turn[d])
    BY <1>0, <1>15, <2>1, DirectionAssumption DEF Publish, Fits, Turn, DMPlace, Calls,
       InTurn
  <2>3. /\ at' = [at EXCEPT ![d] = "publishing"]
        /\ turn' = [turn EXCEPT ![d] = turn[d]]
    BY <1>0, <1>15, SMT DEF Publish, Go, DMTypes
  <2>4. /\ holder' \in Venue \cup {None} /\ asked' \subseteq asked
        /\ d \in asked' => "publishing" \in Calls
    BY <1>0, <1>15 DEF Publish, DMTypes, InTurn, Calls
  <2>5. DMTypes'
    BY <1>0, <2>2, <2>3, <2>4, OneMoves
  <2>6. ClockTypes' /\ VenueTypes' /\ RestTypes'
    BY <1>0, <1>15 DEF Publish, clockVars, venueVars, ClockTypes, VenueTypes, RestTypes
  <2> QED BY <2>5, <2>6 DEF TypeInv
<1>16. ASSUME NEW d \in Venue, Advance(d)
      PROVE  TypeInv'
  <2>1. PICK m \in Minutes : turn' = [turn EXCEPT ![d].minutes = m] /\ Go(d, "locking")
    BY <1>16 DEF Advance, Go
  <2>2. [turn[d] EXCEPT !.minutes = m] \in Turn
    BY <1>0, <1>16, <2>1, TurnUpdates DEF Advance, Fits
  <2>3. Fits("locking", [turn[d] EXCEPT !.minutes = m])
    BY <1>0, <1>16, <2>1, <2>2, DirectionAssumption DEF Advance, Fits, Turn, DMPlace,
       Calls, InTurn
  <2>4. /\ at' = [at EXCEPT ![d] = "locking"]
        /\ turn' = [turn EXCEPT ![d] = [turn[d] EXCEPT !.minutes = m]]
    BY <1>0, <2>1, SMT DEF Advance, Go, DMTypes
  <2>5. /\ holder' \in Venue \cup {None} /\ asked' \subseteq asked
        /\ d \in asked' => "locking" \in Calls
    BY <1>0, <1>16 DEF Advance, DMTypes, InTurn, Calls
  <2>6. DMTypes'
    BY <1>0, <2>3, <2>4, <2>5, OneMoves
  <2>7. ClockTypes' /\ VenueTypes' /\ RestTypes'
    BY <1>0, <1>16 DEF Advance, clockVars, venueVars, ClockTypes, VenueTypes, RestTypes
  <2> QED BY <2>6, <2>7 DEF TypeInv
<1>17. ASSUME NEW d \in Venue, LLMFails(d)
      PROVE  TypeInv'
  <2>1. Give({d}, {}) /\ UNCHANGED <<clockVars, venueVars, inbox, processed, faults>>
    BY <1>17 DEF LLMFails
  <2>2. DMTypes' /\ stopping' = TRUE
    BY <1>0, <2>1, OneGivesUp
  <2> QED BY <1>0, <2>1, <2>2 DEF clockVars, venueVars, ClockTypes, VenueTypes, RestTypes,
             TypeInv
<1>18. ASSUME NEW d \in Venue, CommandTimesOut(d)
      PROVE  TypeInv'
  <2> DEFINE v == Target(d)
  <2>1. d \in Senders(v) /\ v \in Venue
    BY <1>0, <1>18, SenderFacts DEF CommandTimesOut, Senders, Target
  <2>2. faults' \in 0..MaxFaults
    BY <1>0, <1>18, DirectionAssumption DEF CommandTimesOut, Fault, RestTypes
  <2> QED BY <1>18, <2>1, <2>2, ShutTypes DEF CommandTimesOut, TypeInv
<1>19. ASSUME NEW v \in Venue, EngineFails(v)
      PROVE  TypeInv'
  <2>1. faults' \in 0..MaxFaults
    BY <1>0, <1>19, DirectionAssumption DEF EngineFails, Fault, RestTypes
  <2>2. Give(Senders(v) \ {}, {}) /\ {} \in SUBSET Senders(v)
    BY <1>19 DEF EngineFails
  <2> QED BY <1>19, <2>1, <2>2, ShutTypes DEF EngineFails, TypeInv
<1>20. ASSUME NEW v \in Venue, StopVenue(v)
      PROVE  TypeInv'
  <2>1. DMTypes' /\ ClockTypes' /\ RestTypes'
    BY <1>0, <1>20 DEF StopVenue, DMTypes, ClockTypes, clockVars, RestTypes
  <2>2. VenueTypes'
    BY <1>0, <1>20 DEF StopVenue, VenueTypes
  <2> QED BY <2>1, <2>2 DEF TypeInv
<1>21. ASSUME RequestStop
      PROVE  TypeInv'
  <2>1. ClockTypes' /\ VenueTypes' /\ RestTypes'
    BY <1>0, <1>21 DEF RequestStop, clockVars, venueVars, ClockTypes, VenueTypes,
       RestTypes
  <2>2. DMTypes'
    BY <1>0, <1>21 DEF RequestStop, DMTypes
  <2> QED BY <2>1, <2>2 DEF TypeInv
<1> QED BY <1>1, <1>2, <1>3, <1>4, <1>5, <1>6, <1>7, <1>8, <1>9, <1>10, <1>11, <1>12,
           <1>13, <1>14, <1>15, <1>16, <1>17, <1>18, <1>19, <1>20, <1>21
       DEF Next, EngineStep, DMStep, ToolCall
-----------------------------------------------------------------------------
(* What each step does to the DMs.                                         *)

\* Of the DMs only d goes anywhere, to this place with this task, these deliveries
\* and these answers to remember.
Goes(d, place, task, left, adjudicated, published) ==
  /\ \A e \in Venue : e # d => at'[e] = at[e] /\ turn'[e] = turn[e]
  /\ at'[d] = place /\ turn'[d].task = task /\ turn'[d].left = left
  /\ turn'[d].adjudicated = adjudicated /\ turn'[d].published = published

\* The same, where it keeps all of these.
Stays(d, place) ==
  Goes(d, place, turn[d].task, turn[d].left, turn[d].adjudicated, turn[d].published)

\* It is through with its turn.
Quits(d, place) == Goes(d, place, None, {}, FALSE, 0)

\* What is remembered outside of turns: nothing.
LEMMA NoTurnFields ==
  /\ NoTurn.task = None /\ NoTurn.left = {} /\ NoTurn.adjudicated = FALSE
  /\ NoTurn.published = 0
BY DEF NoTurn

\* The steps of one DM that end in one way.
LEMMA Shapes ==
  ASSUME TypeInv, NEW d \in Venue
  PROVE  /\ Adjudicate(d) => Stays(d, "deciding")
         /\ DecisionMade(d) => Stays(d, "auditing")
         /\ AuditMade(d) => Goes(d, "turn", turn[d].task, turn[d].left, TRUE,
                                 turn[d].published)
         /\ Publish(d) => Stays(d, "publishing")
         /\ CrisisMade(d) => Goes(d, "turn", turn[d].task, turn[d].left,
                                  turn[d].adjudicated, turn[d].published + 1)
         /\ Advance(d) => Stays(d, "locking")
         /\ TimePass(d) => Stays(d, "moving") /\ turn'[d].base = clock
         /\ EndTurn(d) => Quits(d, "waiting") \/ Quits(d, "dead")
         /\ Leave(d) \/ Refused(d) \/ LLMFails(d) => Quits(d, "dead")
<1>1. at \in [Venue -> DMPlace] /\ turn \in [Venue -> Turn] /\ turn[d] \in Turn
  BY DEF TypeInv, DMTypes
<1>2. ASSUME Adjudicate(d) PROVE Stays(d, "deciding")
  <2>1. PICK s \in {"completed", "failed"} :
          turn' = [turn EXCEPT ![d].verdict = s] /\ Go(d, "deciding")
    BY <1>2 DEF Adjudicate
  <2> QED BY <1>1, <2>1 DEF Stays, Goes, Go, Turn
<1>3. ASSUME DecisionMade(d) PROVE Stays(d, "auditing")
  BY <1>1, <1>3 DEF DecisionMade, Go, Stays, Goes, Turn
<1>4. ASSUME AuditMade(d) PROVE Goes(d, "turn", turn[d].task, turn[d].left, TRUE, turn[d].published)
  BY <1>1, <1>4 DEF AuditMade, Go, Stays, Goes, Turn
<1>5. ASSUME Publish(d) PROVE Stays(d, "publishing")
  BY <1>1, <1>5 DEF Publish, Go, Stays, Goes, Turn
<1>6. ASSUME CrisisMade(d) PROVE Goes(d, "turn", turn[d].task, turn[d].left, turn[d].adjudicated,
                          turn[d].published + 1)
  BY <1>1, <1>6 DEF CrisisMade, Go, Stays, Goes, Turn
<1>7. ASSUME Advance(d) PROVE Stays(d, "locking")
  <2>1. PICK m \in Minutes : turn' = [turn EXCEPT ![d].minutes = m] /\ Go(d, "locking")
    BY <1>7 DEF Advance
  <2> QED BY <1>1, <2>1 DEF Stays, Goes, Go, Turn
<1>8. ASSUME TimePass(d) PROVE Stays(d, "moving") /\ turn'[d].base = clock
  BY <1>1, <1>8 DEF TimePass, Go, Stays, Goes, Turn
<1>9. ASSUME EndTurn(d) PROVE Quits(d, "waiting") \/ Quits(d, "dead")
  BY <1>1, <1>9, NoTurnFields DEF EndTurn, Go, Quits, Goes
<1>10. ASSUME Leave(d) \/ Refused(d) \/ LLMFails(d) PROVE Quits(d, "dead")
  <2>1. Give({d}, {})
    BY <1>10 DEF Leave, Refused, LLMFails
  <2>2. Becomes(d, "dead", NoTurn)
    BY <2>1, OneGivesUp DEF TypeInv
  <2> QED BY <2>2, NoTurnFields DEF Becomes, Quits, Goes
<1> QED BY <1>2, <1>3, <1>4, <1>5, <1>6, <1>7, <1>8, <1>9, <1>10

\* The beginning of a turn, or the end of a thread whose instruction is decided.
LEMMA TakeUpShape ==
  ASSUME TypeInv, NEW d \in Venue, TakeUp(d)
  PROVE  \/ Stays(d, "dead") /\ turn[d].task = None /\ turn[d].left = {}
         \/ /\ Goes(d, "turn", Head(inbox[d]), {}, FALSE, 0)
            /\ Head(inbox[d]) \in Instruction => status[Head(inbox[d])] = "pending"
<1> DEFINE t == Head(inbox[d])
           new == [NoTurn EXCEPT !.task = t]
<1>1. /\ at \in [Venue -> DMPlace] /\ turn \in [Venue -> Turn] /\ Fits("waiting", turn[d])
      /\ t \in Task
  BY DEF TypeInv, DMTypes, RestTypes, TakeUp
<1>2. CASE t \in Instruction /\ status[t] # "pending"
  <2>1. Go(d, "dead") /\ turn' = turn
    BY <1>2 DEF TakeUp
  <2> QED BY <1>1, <2>1 DEF Go, Stays, Goes, Fits
<1>3. CASE ~(t \in Instruction /\ status[t] # "pending")
  <2>1. Go(d, "turn") /\ turn' = [turn EXCEPT ![d] = new]
    BY <1>3 DEF TakeUp
  <2>2. /\ new.task = t /\ new.left = {} /\ new.published = 0 /\ new.adjudicated = FALSE
    BY <1>1, TakenTurn
  <2> HIDE DEF new
  <2> QED BY <1>1, <1>3, <2>1, <2>2 DEF Go, Goes
<1> QED BY <1>2, <1>3

\* Going back is refused; otherwise the clock moves, and there is something due or not.
LEMMA UpdateTimeShape ==
  ASSUME TypeInv, NEW d \in Venue, UpdateTime(d)
  PROVE  LET time == turn[d].base + turn[d].minutes IN
         \/ /\ time < clock /\ UNCHANGED clockVars /\ Give({}, {d})
            /\ Goes(d, "turn", turn[d].task, {}, turn[d].adjudicated, turn[d].published)
         \/ /\ time >= clock /\ clock' = time /\ pullups' = pullups \ DueBy(time)
            /\ moves' = Append(moves, [task |-> turn[d].task, minutes |-> turn[d].minutes,
                                       time |-> time])
            /\ \/ /\ DueBy(time) = {} /\ holder' = None
                  /\ Goes(d, "turn", turn[d].task, {}, turn[d].adjudicated,
                          turn[d].published)
               \/ /\ DueBy(time) # {} /\ holder' = d
                  /\ Goes(d, "delivering", turn[d].task, Deliveries(DueBy(time)),
                          turn[d].adjudicated, turn[d].published)
<1> DEFINE time == turn[d].base + turn[d].minutes
<1>1. /\ at \in [Venue -> DMPlace] /\ turn \in [Venue -> Turn] /\ turn[d] \in Turn
      /\ clock \in Nat /\ Fits("moving", turn[d]) /\ at[d] = "moving"
  BY DEF TypeInv, DMTypes, ClockTypes, UpdateTime
<1>2. time \in Nat
  <2>1. turn[d].base \in Nat /\ turn[d].minutes \in Minutes
    BY <1>1 DEF Fits, Turn
  <2>2. turn[d].minutes \in Nat
    BY <2>1, DirectionAssumption
  <2> QED BY <2>1, <2>2
<1>3. CASE time < clock
  <2>1. Give({}, {d}) /\ UNCHANGED clockVars
    BY <1>3 DEF UpdateTime
  <2>2. at' = [e \in Venue |-> IF e \in {} THEN "dead" ELSE IF e \in {d} THEN "turn"
                               ELSE at[e]]
    BY <2>1 DEF Give
  <2>3. turn' = [e \in Venue |->
                   IF e \in {} THEN NoTurn
                   ELSE IF e \in {d} THEN [turn[e] EXCEPT !.left = {}, !.minutes = 0,
                                             !.base = 0, !.verdict = None]
                   ELSE turn[e]]
    BY <2>1 DEF Give
  <2>4. /\ turn'[d] = [turn[d] EXCEPT !.left = {}, !.minutes = 0, !.base = 0,
                                      !.verdict = None]
        /\ \A e \in Venue : e # d => turn'[e] = turn[e]
    BY <2>3
  <2>5. /\ turn'[d].task = turn[d].task /\ turn'[d].left = {}
        /\ turn'[d].adjudicated = turn[d].adjudicated
        /\ turn'[d].published = turn[d].published
    BY <1>1, <2>4 DEF Turn
  <2> QED BY <1>3, <2>1, <2>2, <2>4, <2>5 DEF Goes
<1>4. CASE ~(time < clock)
  <2> DEFINE new == [turn[d] EXCEPT !.minutes = 0, !.base = 0, !.left = {},
                                    !.advanced = TRUE]
  <2>1. /\ clock' = time /\ pullups' = pullups \ DueBy(time) /\ time >= clock
        /\ moves' = Append(moves, [task |-> turn[d].task, minutes |-> turn[d].minutes,
                                   time |-> time])
    BY <1>1, <1>2, <1>4 DEF UpdateTime
  <2>2. CASE DueBy(time) = {}
    <3>1. Advanced(d)
      BY <1>4, <2>2 DEF UpdateTime
    <3>2. turn' = [turn EXCEPT ![d] = new] /\ at' = [at EXCEPT ![d] = "turn"]
          /\ holder' = None
      BY <3>1 DEF Advanced, Go
    <3>3. /\ new.task = turn[d].task /\ new.left = {}
          /\ new.adjudicated = turn[d].adjudicated /\ new.published = turn[d].published
      BY <1>1, AdvancedTurn
    <3> HIDE DEF new
    <3>4. Goes(d, "turn", turn[d].task, {}, turn[d].adjudicated, turn[d].published)
      BY <1>1, <3>2, <3>3 DEF Goes
    <3> HIDE DEF time
    <3> QED BY <2>1, <2>2, <3>2, <3>4 DEF time
  <2>3. CASE DueBy(time) # {}
    <3>1. /\ holder' = d /\ Go(d, "delivering")
          /\ turn' = [turn EXCEPT ![d].left = Deliveries(DueBy(time))]
      BY <1>4, <2>3 DEF UpdateTime
    <3> HIDE DEF time
    <3>2. Goes(d, "delivering", turn[d].task, Deliveries(DueBy(time)),
               turn[d].adjudicated, turn[d].published)
      BY <1>1, <3>1 DEF Goes, Go, Turn
    <3> QED BY <2>1, <2>3, <3>1, <3>2 DEF time
  <2> QED BY <2>2, <2>3
<1> QED BY <1>3, <1>4

\* One more due event at one more venue, the last one or not.
LEMMA DueEventShape ==
  ASSUME TypeInv, NEW d \in Venue, DueEventMade(d)
  PROVE  LET left == turn[d].left IN
         \/ /\ left = {FirstOf(left)} /\ holder' = None
            /\ Goes(d, "turn", turn[d].task, {}, turn[d].adjudicated, turn[d].published)
         \/ /\ left # {FirstOf(left)} /\ UNCHANGED holder
            /\ Goes(d, "delivering", turn[d].task, left \ {FirstOf(left)},
                    turn[d].adjudicated, turn[d].published)
<1>1. /\ at \in [Venue -> DMPlace] /\ turn \in [Venue -> Turn] /\ turn[d] \in Turn
      /\ at[d] = "delivering"
  BY DEF TypeInv, DMTypes, DueEventMade
<1> DEFINE new == [turn[d] EXCEPT !.minutes = 0, !.base = 0, !.left = {},
                                  !.advanced = TRUE]
<1>2. CASE turn[d].left = {FirstOf(turn[d].left)}
  <2>1. Advanced(d)
    BY <1>2 DEF DueEventMade
  <2>2. turn' = [turn EXCEPT ![d] = new] /\ at' = [at EXCEPT ![d] = "turn"]
        /\ holder' = None
    BY <2>1 DEF Advanced, Go
  <2>3. /\ new.task = turn[d].task /\ new.left = {}
        /\ new.adjudicated = turn[d].adjudicated /\ new.published = turn[d].published
    BY <1>1, AdvancedTurn
  <2> HIDE DEF new
  <2>4. Goes(d, "turn", turn[d].task, {}, turn[d].adjudicated, turn[d].published)
    BY <1>1, <2>2, <2>3 DEF Goes
  <2> QED BY <1>2, <2>2, <2>4
<1>3. CASE turn[d].left # {FirstOf(turn[d].left)}
  <2>1. /\ turn' = [turn EXCEPT ![d].left = @ \ {FirstOf(@)}] /\ UNCHANGED <<at, holder>>
    BY <1>3 DEF DueEventMade
  <2>2. Goes(d, "delivering", turn[d].task, turn[d].left \ {FirstOf(turn[d].left)},
             turn[d].adjudicated, turn[d].published)
    BY <1>1, <2>1 DEF Goes, Turn
  <2> QED BY <1>3, <2>1, <2>2
<1> QED BY <1>2, <1>3

\* The DMs when a venue fails: Out are those whose threads end, Back the one whose
\* command timed out.
LEMMA FailureShape ==
  ASSUME TypeInv, NEW v \in Venue, NEW Back \in SUBSET Senders(v),
         Give(Senders(v) \ Back, Back)
  PROVE  \A d \in Venue :
           \/ /\ at'[d] = "dead" /\ turn'[d] = NoTurn /\ d \in Senders(v)
           \/ /\ at'[d] = "turn" /\ turn'[d].left = {} /\ d \in Senders(v)
              /\ turn'[d].task = turn[d].task
              /\ turn'[d].adjudicated = turn[d].adjudicated
              /\ turn'[d].published = turn[d].published
           \/ at'[d] = at[d] /\ turn'[d] = turn[d] /\ d \notin Senders(v)
<1>1. Senders(v) \subseteq asked /\ asked \subseteq Venue
  BY DEF Senders, TypeInv, DMTypes
<1>2. \A d \in Back : at[d] \notin {"waiting", "dead"}
  BY <1>1, SenderFacts DEF Calls
<1> DEFINE Out == Senders(v) \ Back
<1>3. Out \in SUBSET Venue /\ Back \in SUBSET Venue /\ Out \subseteq Senders(v)
      /\ Back \subseteq Senders(v) /\ Senders(v) = Out \cup Back
  BY <1>1
<1> HIDE DEF Out
<1>4. Give(Out, Back) /\ DMTypes
  BY DEF Out, TypeInv
<1>5. \A d \in Venue :
        \/ at'[d] = "dead" /\ turn'[d] = NoTurn /\ d \in Out
        \/ /\ at'[d] = "turn" /\ turn'[d].left = {} /\ d \in Back
           /\ turn'[d].task = turn[d].task
           /\ turn'[d].adjudicated = turn[d].adjudicated
           /\ turn'[d].published = turn[d].published
        \/ at'[d] = at[d] /\ turn'[d] = turn[d] /\ d \notin Out \cup Back
  BY <1>2, <1>3, <1>4, GivenUp
<1> QED
  <2>1. SUFFICES ASSUME NEW d \in Venue
                 PROVE  \/ at'[d] = "dead" /\ turn'[d] = NoTurn /\ d \in Senders(v)
                        \/ /\ at'[d] = "turn" /\ turn'[d].left = {} /\ d \in Senders(v)
                           /\ turn'[d].task = turn[d].task
                           /\ turn'[d].adjudicated = turn[d].adjudicated
                           /\ turn'[d].published = turn[d].published
                        \/ at'[d] = at[d] /\ turn'[d] = turn[d] /\ d \notin Senders(v)
    OBVIOUS
  <2> QED BY <1>3, <1>5

\* Both ways in which a venue fails.
LEMMA Failures ==
  ASSUME TypeInv
  PROVE  /\ \A v \in Venue : EngineFails(v) =>
              \E Back \in SUBSET Senders(v) :
                /\ Shut(v) /\ Give(Senders(v) \ Back, Back)
                /\ UNCHANGED <<clockVars, inbox, processed>>
         /\ \A d \in Venue : CommandTimesOut(d) =>
              \E v \in Venue : \E Back \in SUBSET Senders(v) :
                /\ Shut(v) /\ Give(Senders(v) \ Back, Back)
                /\ UNCHANGED <<clockVars, inbox, processed>>
<1>1. ASSUME NEW v \in Venue, EngineFails(v)
      PROVE  \E Back \in SUBSET Senders(v) :
               /\ Shut(v) /\ Give(Senders(v) \ Back, Back)
               /\ UNCHANGED <<clockVars, inbox, processed>>
  <2>1. Senders(v) \ {} = Senders(v) /\ {} \in SUBSET Senders(v)
    OBVIOUS
  <2> QED BY <1>1, <2>1 DEF EngineFails
<1>2. ASSUME NEW d \in Venue, CommandTimesOut(d)
      PROVE  \E v \in Venue : \E Back \in SUBSET Senders(v) :
               /\ Shut(v) /\ Give(Senders(v) \ Back, Back)
               /\ UNCHANGED <<clockVars, inbox, processed>>
  <2>1. d \in asked /\ Target(d) \in Venue
    BY <1>2, SenderFacts DEF CommandTimesOut, Target
  <2>2. {d} \in SUBSET Senders(Target(d))
    BY <2>1 DEF Senders
  <2> QED BY <1>2, <2>1, <2>2 DEF CommandTimesOut
<1> QED BY <1>1, <1>2

-----------------------------------------------------------------------------
(* The clock and its lock.                                                 *)

\* A DM that neither gets nor loses the lock.
LEMMA LockKept ==
  ASSUME Lock, TypeInv, NEW d \in Venue,
         \A e \in Venue : e # d => at'[e] = at[e] /\ turn'[e] = turn[e],
         UNCHANGED <<clock, holder>>,
         at[d] \notin {"moving", "delivering"}, at'[d] \notin {"moving", "delivering"}
  PROVE  Lock'
<1>1. holder \in Venue \cup {None}
  BY DEF TypeInv, DMTypes
<1>2. \A e \in Venue : at'[e] \in {"moving", "delivering"} =>
        e # d /\ at[e] = at'[e] /\ turn'[e] = turn[e]
  OBVIOUS
<1>3. ASSUME holder # None PROVE holder # d /\ at'[holder] \in {"moving", "delivering"}
  BY <1>1, <1>3 DEF Lock
<1> QED BY <1>2, <1>3 DEF Lock

\* Whoever gives up a call lets go of the lock.
LEMMA LockGiven ==
  ASSUME Lock, DMTypes, NEW Out \in SUBSET Venue, NEW Back \in SUBSET Venue,
         Give(Out, Back), \A e \in Back : at[e] \notin {"waiting", "dead"},
         UNCHANGED clock
  PROVE  Lock'
<1>0. \A d \in Venue :
        \/ at'[d] = "dead" /\ turn'[d] = NoTurn /\ d \in Out
        \/ /\ at'[d] = "turn" /\ turn'[d].left = {} /\ d \in Back
           /\ turn'[d].task = turn[d].task
           /\ turn'[d].adjudicated = turn[d].adjudicated
           /\ turn'[d].published = turn[d].published
        \/ at'[d] = at[d] /\ turn'[d] = turn[d] /\ d \notin Out \cup Back
  BY GivenUp
<1>1. \A d \in Venue : \/ at'[d] \in {"dead", "turn"} /\ d \in Out \cup Back
                       \/ at'[d] = at[d] /\ turn'[d] = turn[d] /\ d \notin Out \cup Back
  BY <1>0
<1>2. holder' = IF holder \in Out \cup Back THEN None ELSE holder
  BY DEF Give, Release
<1>3. holder \in Venue \cup {None} /\ None \notin Venue
  BY DirectionAssumption DEF DMTypes
<1>4. ASSUME NEW d \in Venue, at'[d] \in {"moving", "delivering"}
      PROVE  holder' = d /\ (at'[d] = "moving" => turn'[d].base = clock')
  BY <1>1, <1>2, <1>4 DEF Lock
<1>5. ASSUME holder' # None PROVE at'[holder'] \in {"moving", "delivering"}
  BY <1>1, <1>2, <1>3, <1>5 DEF Lock
<1> QED BY <1>4, <1>5 DEF Lock

\* One DM at a time moves the clock, and knows where it is.
LEMMA LockStep ==
  ASSUME TypeInv, Lock, [Next]_vars
  PROVE  Lock'
<1>1. CASE UNCHANGED vars
  BY <1>1 DEF vars, clockVars, Lock
<1>2. ASSUME NEW t \in Task, Arrive(t)
      PROVE  Lock'
  BY <1>2 DEF Arrive, Lock, clockVars
<1>3. ASSUME NEW d \in Venue, DecisionMade(d)
      PROVE  Lock'
  <2>1. UNCHANGED <<clock, holder>>
    BY <1>3 DEF DecisionMade, clockVars
  <2>2. at[d] \notin {"moving", "delivering"}
    BY <1>3 DEF DecisionMade, InTurn
  <2>3. /\ at'[d] \notin {"moving", "delivering"}
        /\ \A e \in Venue : e # d => at'[e] = at[e] /\ turn'[e] = turn[e]
    BY <1>3, Shapes DEF Stays, Quits, Goes
  <2> QED BY <2>1, <2>2, <2>3, LockKept
<1>4. ASSUME NEW d \in Venue, AuditMade(d)
      PROVE  Lock'
  <2>1. UNCHANGED <<clock, holder>>
    BY <1>4 DEF AuditMade, clockVars
  <2>2. at[d] \notin {"moving", "delivering"}
    BY <1>4 DEF AuditMade, InTurn
  <2>3. /\ at'[d] \notin {"moving", "delivering"}
        /\ \A e \in Venue : e # d => at'[e] = at[e] /\ turn'[e] = turn[e]
    BY <1>4, Shapes DEF Stays, Quits, Goes
  <2> QED BY <2>1, <2>2, <2>3, LockKept
<1>5. ASSUME NEW d \in Venue, CrisisMade(d)
      PROVE  Lock'
  <2>1. UNCHANGED <<clock, holder>>
    BY <1>5 DEF CrisisMade, clockVars
  <2>2. at[d] \notin {"moving", "delivering"}
    BY <1>5 DEF CrisisMade, InTurn
  <2>3. /\ at'[d] \notin {"moving", "delivering"}
        /\ \A e \in Venue : e # d => at'[e] = at[e] /\ turn'[e] = turn[e]
    BY <1>5, Shapes DEF Stays, Quits, Goes
  <2> QED BY <2>1, <2>2, <2>3, LockKept
<1>6. ASSUME NEW d \in Venue, DueEventMade(d)
      PROVE  Lock'
  <2>1. at[d] = "delivering" /\ holder = d /\ None \notin Venue /\ clock' = clock
    BY <1>6, DirectionAssumption DEF DueEventMade, Lock, clockVars
  <2>2. \A e \in Venue : at[e] \in {"moving", "delivering"} => e = d
    BY <2>1 DEF Lock
  <2>3. CASE holder' = None /\ \A e \in Venue : at'[e] = IF e = d THEN "turn" ELSE at[e]
    BY <2>2, <2>3 DEF Lock
  <2>4. CASE /\ holder' = d
             /\ \A e \in Venue : at'[e] = IF e = d THEN "delivering" ELSE at[e]
    BY <2>2, <2>4 DEF Lock
  <2> QED BY <1>6, <2>1, <2>3, <2>4, DueEventShape DEF Goes
<1>7. ASSUME NEW d \in Venue, TakeUp(d)
      PROVE  Lock'
  <2>1. UNCHANGED <<clock, holder>> /\ at[d] \notin {"moving", "delivering"}
    BY <1>7 DEF TakeUp, clockVars
  <2>2. /\ at'[d] \notin {"moving", "delivering"}
        /\ \A e \in Venue : e # d => at'[e] = at[e] /\ turn'[e] = turn[e]
    BY <1>7, TakeUpShape DEF Stays, Goes
  <2> QED BY <2>1, <2>2, LockKept
<1>8. ASSUME NEW d \in Venue, EndTurn(d)
      PROVE  Lock'
  <2>1. UNCHANGED <<clock, holder>>
    BY <1>8 DEF EndTurn, clockVars
  <2>2. at[d] \notin {"moving", "delivering"}
    BY <1>8 DEF EndTurn, InTurn
  <2>3. /\ at'[d] \notin {"moving", "delivering"}
        /\ \A e \in Venue : e # d => at'[e] = at[e] /\ turn'[e] = turn[e]
    BY <1>8, Shapes DEF Stays, Quits, Goes
  <2> QED BY <2>1, <2>2, <2>3, LockKept
<1>9. ASSUME NEW d \in Venue, Leave(d)
      PROVE  Lock'
  <2>1. Give({d}, {}) /\ UNCHANGED clockVars
    BY <1>9 DEF Leave
  <2>2. {d} \in SUBSET Venue /\ {} \in SUBSET Venue
        /\ \A e \in {} : at[e] \notin {"waiting", "dead"}
    OBVIOUS
  <2> QED BY <2>1, <2>2, LockGiven DEF TypeInv, clockVars
<1>10. ASSUME NEW d \in Venue, Ask(d)
      PROVE  Lock'
  BY <1>10 DEF Ask, Lock, clockVars
<1>11. ASSUME NEW d \in Venue, Refused(d)
      PROVE  Lock'
  <2>1. Give({d}, {}) /\ UNCHANGED clockVars
    BY <1>11 DEF Refused
  <2>2. {d} \in SUBSET Venue /\ {} \in SUBSET Venue
        /\ \A e \in {} : at[e] \notin {"waiting", "dead"}
    OBVIOUS
  <2> QED BY <2>1, <2>2, LockGiven DEF TypeInv, clockVars
<1>12. ASSUME NEW d \in Venue, TimePass(d)
      PROVE  Lock'
  <2>1. Stays(d, "moving") /\ turn'[d].base = clock
    BY <1>12, Shapes
  <2>2. holder = None /\ holder' = d /\ clock' = clock
    BY <1>12 DEF TimePass, clockVars
  <2>3. d # None /\ \A e \in Venue : at[e] \notin {"moving", "delivering"}
    BY <2>2, DirectionAssumption DEF Lock
  <2> QED BY <2>1, <2>2, <2>3 DEF Stays, Goes, Lock
<1>13. ASSUME NEW d \in Venue, UpdateTime(d)
      PROVE  Lock'
  <2>1. at[d] = "moving" /\ holder = d /\ None \notin Venue
    BY <1>13, DirectionAssumption DEF UpdateTime, Lock
  <2>2. \A e \in Venue : at[e] \in {"moving", "delivering"} => e = d
    BY <2>1 DEF Lock
  <2>3. CASE Give({}, {d}) /\ UNCHANGED clockVars
    <3>1. {d} \in SUBSET Venue /\ {} \in SUBSET Venue
          /\ \A e \in {d} : at[e] \notin {"waiting", "dead"}
      BY <2>1
    <3> QED BY <2>3, <3>1, LockGiven DEF TypeInv, clockVars
  <2>4. CASE holder' = None /\ \A e \in Venue : at'[e] = IF e = d THEN "turn" ELSE at[e]
    BY <2>2, <2>4 DEF Lock
  <2>5. CASE /\ holder' = d
             /\ \A e \in Venue : at'[e] = IF e = d THEN "delivering" ELSE at[e]
    BY <2>2, <2>5 DEF Lock
  <2> QED BY <1>13, <2>3, <2>4, <2>5, UpdateTimeShape DEF Goes
<1>14. ASSUME NEW d \in Venue, Adjudicate(d)
      PROVE  Lock'
  <2>1. UNCHANGED <<clock, holder>>
    BY <1>14 DEF Adjudicate, clockVars
  <2>2. at[d] \notin {"moving", "delivering"}
    BY <1>14 DEF Adjudicate, InTurn
  <2>3. /\ at'[d] \notin {"moving", "delivering"}
        /\ \A e \in Venue : e # d => at'[e] = at[e] /\ turn'[e] = turn[e]
    BY <1>14, Shapes DEF Stays, Quits, Goes
  <2> QED BY <2>1, <2>2, <2>3, LockKept
<1>15. ASSUME NEW d \in Venue, Publish(d)
      PROVE  Lock'
  <2>1. UNCHANGED <<clock, holder>>
    BY <1>15 DEF Publish, clockVars
  <2>2. at[d] \notin {"moving", "delivering"}
    BY <1>15 DEF Publish, InTurn
  <2>3. /\ at'[d] \notin {"moving", "delivering"}
        /\ \A e \in Venue : e # d => at'[e] = at[e] /\ turn'[e] = turn[e]
    BY <1>15, Shapes DEF Stays, Quits, Goes
  <2> QED BY <2>1, <2>2, <2>3, LockKept
<1>16. ASSUME NEW d \in Venue, Advance(d)
      PROVE  Lock'
  <2>1. UNCHANGED <<clock, holder>>
    BY <1>16 DEF Advance, clockVars
  <2>2. at[d] \notin {"moving", "delivering"}
    BY <1>16 DEF Advance, InTurn
  <2>3. /\ at'[d] \notin {"moving", "delivering"}
        /\ \A e \in Venue : e # d => at'[e] = at[e] /\ turn'[e] = turn[e]
    BY <1>16, Shapes DEF Stays, Quits, Goes
  <2> QED BY <2>1, <2>2, <2>3, LockKept
<1>17. ASSUME NEW d \in Venue, LLMFails(d)
      PROVE  Lock'
  <2>1. Give({d}, {}) /\ UNCHANGED clockVars
    BY <1>17 DEF LLMFails
  <2>2. {d} \in SUBSET Venue /\ {} \in SUBSET Venue
        /\ \A e \in {} : at[e] \notin {"waiting", "dead"}
    OBVIOUS
  <2> QED BY <2>1, <2>2, LockGiven DEF TypeInv, clockVars
<1>18. ASSUME NEW d \in Venue, CommandTimesOut(d)
      PROVE  Lock'
  <2>0. PICK v \in Venue : \E Back \in SUBSET Senders(v) :
          Give(Senders(v) \ Back, Back) /\ UNCHANGED clockVars
    BY <1>18, Failures
  <2>1. PICK Back \in SUBSET Senders(v) :
          Give(Senders(v) \ Back, Back) /\ UNCHANGED clockVars
    BY <2>0
  <2>2. Senders(v) \ Back \in SUBSET Venue /\ Back \in SUBSET Venue
        /\ \A e \in Back : at[e] \notin {"waiting", "dead"}
    BY SenderFacts DEF Senders, Calls
  <2> QED BY <2>1, <2>2, LockGiven DEF TypeInv, clockVars
<1>19. ASSUME NEW v \in Venue, EngineFails(v)
      PROVE  Lock'
  <2>1. PICK Back \in SUBSET Senders(v) :
          Give(Senders(v) \ Back, Back) /\ UNCHANGED clockVars
    BY <1>19, Failures
  <2>2. Senders(v) \ Back \in SUBSET Venue /\ Back \in SUBSET Venue
        /\ \A e \in Back : at[e] \notin {"waiting", "dead"}
    BY SenderFacts DEF Senders, Calls
  <2> QED BY <2>1, <2>2, LockGiven DEF TypeInv, clockVars
<1>20. ASSUME NEW v \in Venue, StopVenue(v)
      PROVE  Lock'
  BY <1>20 DEF StopVenue, Lock, clockVars
<1>21. ASSUME RequestStop
      PROVE  Lock'
  BY <1>21 DEF RequestStop, Lock, clockVars
<1> QED BY <1>1, <1>2, <1>3, <1>4, <1>5, <1>6, <1>7, <1>8, <1>9, <1>10, <1>11, <1>12,
           <1>13, <1>14, <1>15, <1>16, <1>17, <1>18, <1>19, <1>20, <1>21
       DEF Next, EngineStep, DMStep, ToolCall

\* No minutes are lost.
LEMMA MinutesStep ==
  ASSUME TypeInv, Lock, MinutesAddUp, [Next]_vars
  PROVE  MinutesAddUp'
<1>1. CASE UNCHANGED vars
  BY <1>1 DEF vars, clockVars, MinutesAddUp
<1>2. ASSUME NEW t \in Task, Arrive(t)
      PROVE  MinutesAddUp'
  BY <1>2 DEF Arrive, clockVars, MinutesAddUp
<1>3. ASSUME NEW d \in Venue, DecisionMade(d)
      PROVE  MinutesAddUp'
  BY <1>3 DEF DecisionMade, clockVars, MinutesAddUp
<1>4. ASSUME NEW d \in Venue, AuditMade(d)
      PROVE  MinutesAddUp'
  BY <1>4 DEF AuditMade, clockVars, MinutesAddUp
<1>5. ASSUME NEW d \in Venue, CrisisMade(d)
      PROVE  MinutesAddUp'
  BY <1>5 DEF CrisisMade, clockVars, MinutesAddUp
<1>6. ASSUME NEW d \in Venue, DueEventMade(d)
      PROVE  MinutesAddUp'
  BY <1>6 DEF DueEventMade, clockVars, MinutesAddUp
<1>7. ASSUME NEW d \in Venue, TakeUp(d)
      PROVE  MinutesAddUp'
  BY <1>7 DEF TakeUp, clockVars, MinutesAddUp
<1>8. ASSUME NEW d \in Venue, EndTurn(d)
      PROVE  MinutesAddUp'
  BY <1>8 DEF EndTurn, clockVars, MinutesAddUp
<1>9. ASSUME NEW d \in Venue, Leave(d)
      PROVE  MinutesAddUp'
  BY <1>9 DEF Leave, clockVars, MinutesAddUp
<1>10. ASSUME NEW d \in Venue, Ask(d)
      PROVE  MinutesAddUp'
  BY <1>10 DEF Ask, clockVars, MinutesAddUp
<1>11. ASSUME NEW d \in Venue, Refused(d)
      PROVE  MinutesAddUp'
  BY <1>11 DEF Refused, clockVars, MinutesAddUp
<1>12. ASSUME NEW d \in Venue, TimePass(d)
      PROVE  MinutesAddUp'
  BY <1>12 DEF TimePass, clockVars, MinutesAddUp
<1>13. ASSUME NEW d \in Venue, UpdateTime(d)
      PROVE  MinutesAddUp'
  <2> DEFINE time == turn[d].base + turn[d].minutes
             move == [task |-> turn[d].task, minutes |-> turn[d].minutes, time |-> time]
  <2>1. turn[d].base = clock /\ moves \in Seq(Move) /\ clock \in Nat
    BY <1>13 DEF UpdateTime, Lock, TypeInv, ClockTypes
  <2>2. turn[d].minutes \in Nat
    <3>1. Fits("moving", turn[d])
      BY <1>13 DEF UpdateTime, TypeInv, DMTypes
    <3> QED BY <3>1, DirectionAssumption DEF Fits
  <2>3. CASE UNCHANGED clockVars
    BY <2>3 DEF clockVars, MinutesAddUp
  <2>4. CASE clock' = time /\ moves' = Append(moves, move)
    <3>1. /\ Len(moves') = Len(moves) + 1 /\ Len(moves) \in Nat /\ moves' # <<>>
          /\ moves'[Len(moves) + 1] = move
          /\ \A i \in 1..Len(moves) : moves'[i] = moves[i]
      BY <2>1, <2>4
    <3>2. move.minutes = turn[d].minutes /\ move.time = clock + turn[d].minutes
      BY <2>1
    <3>3. moves = <<>> <=> Len(moves) = 0
      BY <2>1
    <3> HIDE DEF move
    <3>4. ASSUME NEW i \in 1..Len(moves')
          PROVE  moves'[i].time =
                   moves'[i].minutes + IF i = 1 THEN 0 ELSE moves'[i - 1].time
      <4>1. CASE i \in 1..Len(moves)
        <5>1. i = 1 \/ i - 1 \in 1..Len(moves)
          BY <4>1
        <5> QED BY <3>1, <4>1, <5>1 DEF MinutesAddUp
      <4>2. CASE i = Len(moves) + 1 /\ moves = <<>>
        BY <2>1, <2>2, <3>1, <3>2, <3>3, <4>2 DEF MinutesAddUp
      <4>3. CASE i = Len(moves) + 1 /\ moves # <<>>
        <5>1. i # 1 /\ i - 1 = Len(moves) /\ Len(moves) \in 1..Len(moves)
          BY <3>1, <3>3, <4>3
        <5>2. moves'[i - 1].time = clock
          BY <3>1, <4>3, <5>1 DEF MinutesAddUp
        <5> QED BY <2>1, <2>2, <3>1, <3>2, <4>3, <5>1, <5>2
      <4> QED BY <3>1, <4>1, <4>2, <4>3
    <3>5. clock' = moves'[Len(moves')].time
      BY <2>1, <2>4, <3>1, <3>2
    <3> QED BY <3>1, <3>4, <3>5 DEF MinutesAddUp
  <2> QED BY <1>13, <2>3, <2>4, UpdateTimeShape
<1>14. ASSUME NEW d \in Venue, Adjudicate(d)
      PROVE  MinutesAddUp'
  BY <1>14 DEF Adjudicate, clockVars, MinutesAddUp
<1>15. ASSUME NEW d \in Venue, Publish(d)
      PROVE  MinutesAddUp'
  BY <1>15 DEF Publish, clockVars, MinutesAddUp
<1>16. ASSUME NEW d \in Venue, Advance(d)
      PROVE  MinutesAddUp'
  BY <1>16 DEF Advance, clockVars, MinutesAddUp
<1>17. ASSUME NEW d \in Venue, LLMFails(d)
      PROVE  MinutesAddUp'
  BY <1>17 DEF LLMFails, clockVars, MinutesAddUp
<1>18. ASSUME NEW d \in Venue, CommandTimesOut(d)
      PROVE  MinutesAddUp'
  BY <1>18 DEF CommandTimesOut, clockVars, MinutesAddUp
<1>19. ASSUME NEW v \in Venue, EngineFails(v)
      PROVE  MinutesAddUp'
  BY <1>19 DEF EngineFails, clockVars, MinutesAddUp
<1>20. ASSUME NEW v \in Venue, StopVenue(v)
      PROVE  MinutesAddUp'
  BY <1>20 DEF StopVenue, clockVars, MinutesAddUp
<1>21. ASSUME RequestStop
      PROVE  MinutesAddUp'
  BY <1>21 DEF RequestStop, clockVars, MinutesAddUp
<1> QED BY <1>1, <1>2, <1>3, <1>4, <1>5, <1>6, <1>7, <1>8, <1>9, <1>10, <1>11, <1>12,
           <1>13, <1>14, <1>15, <1>16, <1>17, <1>18, <1>19, <1>20, <1>21
       DEF Next, EngineStep, DMStep, ToolCall

-----------------------------------------------------------------------------
(* The due events.                                                         *)

\* Only whoever holds the lock has something to deliver.
LEMMA HolderDelivers ==
  ASSUME TypeInv, Lock, NEW d \in Venue, at[d] \in {"moving", "delivering"}
  PROVE  \A e \in Venue : e # d => turn[e].left = {}
<1>1. \A e \in Venue : e # d => at[e] # "delivering"
  BY DEF Lock
<1> QED BY <1>1 DEF TypeInv, DMTypes, Fits

\* Steps that tell nobody anything, and give up deliveries at most when a venue is
\* closed.
LEMMA TellingKept ==
  ASSUME Telling, UNCHANGED <<clock, pullups, told>>,
         \A e \in Venue : turn'[e].left \in {turn[e].left, {}},
         Undisturbed' => Undisturbed /\ \A e \in Venue : turn'[e].left = turn[e].left
  PROVE  Telling'
<1>1. \A d \in Venue : turn'[d].left \subseteq turn[d].left
  OBVIOUS
<1>2. \A d \in Venue : \A x \in turn'[d].left :
        /\ x[1] \notin pullups /\ Copies(x[1], x[2]) = {} /\ Due[x[1]] <= clock
        /\ \A w \in Venue : \A j \in Copies(x[1], w) : told[w][j][2] = clock
  BY <1>1 DEF Telling
<1>3. Undisturbed' => \A p \in PullUp \ pullups, v \in Venue :
        Copies(p, v) # {} \/ \E d \in Venue : <<p, v>> \in turn'[d].left
  BY DEF Telling
<1>4. /\ \A p \in pullups, v \in Venue : Copies(p, v) = {}
      /\ clock > 0 => \A p \in pullups : clock < Due[p]
      /\ DueTogether
  BY DEF Telling
<1>5. DueTogether'
  BY <1>4 DEF DueTogether, Copies, AtMostOne
<1> QED BY <1>2, <1>3, <1>4, <1>5 DEF Telling, Copies

\* A venue is told of what comes first among what is left.
LEMMA ToldMore ==
  ASSUME VenueTypes, NEW x \in PullUp \X Venue,
         told' = [told EXCEPT ![x[2]] = Append(@, <<x[1], clock>>)]
  PROVE  \A p \in PullUp, v \in Venue :
           /\ p # x[1] \/ v # x[2] => Copies(p, v)' = Copies(p, v)
           /\ p = x[1] /\ v = x[2] =>
                /\ Copies(p, v)' = Copies(p, v) \cup {Len(told[v]) + 1}
                /\ told'[v][Len(told[v]) + 1][2] = clock
           /\ \A i \in Copies(p, v) : told'[v][i] = told[v][i]
<1>1. SUFFICES ASSUME NEW p \in PullUp, NEW v \in Venue
               PROVE  /\ p # x[1] \/ v # x[2] => Copies(p, v)' = Copies(p, v)
                      /\ p = x[1] /\ v = x[2] =>
                           /\ Copies(p, v)' = Copies(p, v) \cup {Len(told[v]) + 1}
                           /\ told'[v][Len(told[v]) + 1][2] = clock
                      /\ \A i \in Copies(p, v) : told'[v][i] = told[v][i]
  OBVIOUS
<1>2. x[1] \in PullUp /\ x[2] \in Venue /\ x = <<x[1], x[2]>>
  OBVIOUS
<1>3. told[v] \in Seq(PullUp \X Nat) /\ Len(told[v]) \in Nat
  BY DEF VenueTypes
<1>4. CASE v # x[2]
  <2>1. told'[v] = told[v]
    BY <1>2, <1>4 DEF VenueTypes
  <2> QED BY <1>2, <1>4, <2>1 DEF Copies
<1>5. CASE v = x[2]
  <2> DEFINE n == Len(told[v]) + 1
             e == <<x[1], clock>>
  <2>1. told'[v] = Append(told[v], e)
    BY <1>2, <1>5 DEF VenueTypes
  <2> HIDE DEF e
  <2>2. /\ Len(told'[v]) = n /\ told'[v][n] = e
        /\ \A i \in 1..Len(told[v]) : told'[v][i] = told[v][i]
    BY <1>3, <2>1
  <2>3. \A i : i \in 1..n <=> i \in 1..Len(told[v]) \/ i = n
    BY <1>3
  <2>4. e[1] = x[1] /\ e[2] = clock
    BY DEF e
  <2> HIDE DEF n
  <2>5. \A i : i \in Copies(p, v)' <=> i \in Copies(p, v) \/ (i = n /\ p = x[1])
    BY <2>2, <2>3, <2>4 DEF Copies
  <2>6. p # x[1] => Copies(p, v)' = Copies(p, v)
    BY <2>5
  <2>7. p = x[1] => Copies(p, v)' = Copies(p, v) \cup {n}
    BY <2>5
  <2>8. \A i \in Copies(p, v) : told'[v][i] = told[v][i]
    BY <2>2 DEF Copies
  <2> QED BY <1>5, <2>2, <2>4, <2>6, <2>7, <2>8 DEF n
<1> QED BY <1>4, <1>5

\* It was not told before, whoever else was told learned of the same time, and it is
\* not delivered again.
LEMMA ToldStep ==
  ASSUME TypeInv, Lock, Telling, NEW d \in Venue, at[d] = "delivering",
         NEW x \in turn[d].left, UNCHANGED <<clock, pullups>>,
         told' = [told EXCEPT ![x[2]] = Append(@, <<x[1], clock>>)],
         turn'[d].left \subseteq turn[d].left \ {x},
         \A e \in Venue : e # d => turn'[e].left \subseteq turn[e].left,
         Undisturbed' => Undisturbed /\ turn'[d].left = turn[d].left \ {x}
  PROVE  Telling'
<1>1. /\ \A e \in Venue : e # d => turn[e].left = {} /\ turn'[e].left = {}
      /\ turn[d].left \subseteq PullUp \X Venue
  <2>1. turn[d] \in Turn
    BY DEF TypeInv, DMTypes
  <2>2. \A e \in Venue : e # d => turn[e].left = {}
    BY HolderDelivers
  <2> QED BY <2>1, <2>2 DEF Turn
<1>2. x \in PullUp \X Venue /\ VenueTypes /\ clock \in Nat /\ pullups \subseteq PullUp
  BY <1>1 DEF TypeInv, ClockTypes
<1> DEFINE n == Len(told[x[2]]) + 1
<1>0. PICK q \in PullUp, u \in Venue : q = x[1] /\ u = x[2]
  BY <1>2
<1>3. /\ x = <<q, u>>
      /\ q \notin pullups /\ Copies(q, u) = {} /\ Due[q] <= clock
      /\ \A w \in Venue : \A j \in Copies(q, w) : told[w][j][2] = clock
  BY <1>0, <1>2 DEF Telling
<1>4. /\ \A p \in PullUp, v \in Venue :
           /\ p # q \/ v # u => Copies(p, v)' = Copies(p, v)
           /\ \A i \in Copies(p, v) : told'[v][i] = told[v][i]
      /\ Copies(q, u)' = {n} /\ told'[u][n][2] = clock
  <2>1. \A p \in PullUp, v \in Venue :
           /\ p # x[1] \/ v # x[2] => Copies(p, v)' = Copies(p, v)
           /\ p = x[1] /\ v = x[2] =>
                /\ Copies(p, v)' = Copies(p, v) \cup {Len(told[v]) + 1}
                /\ told'[v][Len(told[v]) + 1][2] = clock
           /\ \A i \in Copies(p, v) : told'[v][i] = told[v][i]
    BY <1>2, ToldMore
  <2>2. Copies(q, u)' = Copies(q, u) \cup {n} /\ told'[u][n][2] = clock
    BY <1>0, <2>1
  <2>3. {} \cup {n} = {n}
    OBVIOUS
  <2> HIDE DEF n
  <2>4. Copies(q, u)' = {n}
    BY <1>3, <2>2, <2>3
  <2>5. \A p \in PullUp, v \in Venue :
           /\ p # q \/ v # u => Copies(p, v)' = Copies(p, v)
           /\ \A i \in Copies(p, v) : told'[v][i] = told[v][i]
    BY <1>0, <2>1
  <2> QED BY <2>2, <2>4, <2>5
<1> HIDE DEF n
<1>5. \A w \in Venue : \A j \in Copies(q, w)' : told'[w][j][2] = clock
  <2>1. SUFFICES ASSUME NEW w \in Venue, NEW j \in Copies(q, w)'
                 PROVE  told'[w][j][2] = clock
    OBVIOUS
  <2>2. CASE w # u
    <3>1. j \in Copies(q, w) /\ told'[w][j] = told[w][j]
      BY <1>3, <1>4, <2>1, <2>2
    <3> QED BY <1>3, <3>1
  <2>3. CASE w = u
    BY <1>4, <2>1, <2>3
  <2> QED BY <2>2, <2>3
<1>6. \A p \in PullUp, v \in Venue : p # q =>
        Copies(p, v)' = Copies(p, v) /\ \A i \in Copies(p, v) : told'[v][i] = told[v][i]
  BY <1>4
<1>7. \A p \in pullups', v \in Venue : Copies(p, v)' = {}
  BY <1>2, <1>3, <1>6 DEF Telling
<1>8. ASSUME NEW e \in Venue, NEW y \in turn'[e].left
      PROVE  /\ y[1] \notin pullups' /\ Copies(y[1], y[2])' = {} /\ Due[y[1]] <= clock'
             /\ \A w \in Venue : \A j \in Copies(y[1], w)' : told'[w][j][2] = clock'
  <2>1. e = d /\ y \in turn[d].left /\ y # x
    BY <1>1, <1>8
  <2>2. y[1] \in PullUp /\ y[2] \in Venue /\ y = <<y[1], y[2]>>
    BY <1>1, <2>1
  <2>3. y[1] \notin pullups /\ Copies(y[1], y[2]) = {} /\ Due[y[1]] <= clock
        /\ \A w \in Venue : \A j \in Copies(y[1], w) : told[w][j][2] = clock
    BY <2>1 DEF Telling
  <2>4. Copies(y[1], y[2])' = {}
    <3>1. y[1] # q \/ y[2] # u
      BY <1>3, <2>1, <2>2
    <3> QED BY <1>4, <2>2, <2>3, <3>1
  <2>5. CASE y[1] = q
    BY <1>5, <2>3, <2>4, <2>5
  <2>6. CASE y[1] # q
    <3>0. PICK r \in PullUp : r = y[1]
      BY <2>2
    <3>1. r # q /\ r \notin pullups /\ Due[r] <= clock
          /\ \A w \in Venue : \A j \in Copies(r, w) : told[w][j][2] = clock
      BY <3>0, <2>3, <2>6
    <3>2. ASSUME NEW w \in Venue, NEW j \in Copies(r, w)'
          PROVE  told'[w][j][2] = clock
      <4>1. j \in Copies(r, w) /\ told'[w][j] = told[w][j]
        <5>1. Copies(r, w)' = Copies(r, w)
          BY <1>6, <3>1
        <5>2. \A i \in Copies(r, w) : told'[w][i] = told[w][i]
          BY <1>6, <3>1
        <5>3. j \in Copies(r, w)
          BY <3>2, <5>1
        <5> QED BY <5>2, <5>3
      <4>2. told[w][j][2] = clock
        BY <3>1, <4>1
      <4> QED BY <4>1, <4>2
    <3> QED BY <2>4, <3>0, <3>1, <3>2
  <2> QED BY <2>5, <2>6
<1>9. clock' > 0 => \A p \in pullups' : clock' < Due[p]
  BY DEF Telling
<1>10. ASSUME Undisturbed', NEW p \in PullUp \ pullups', NEW v \in Venue
       PROVE  Copies(p, v)' # {} \/ \E e \in Venue : <<p, v>> \in turn'[e].left
  <2>1. Copies(p, v) # {} \/ \E e \in Venue : <<p, v>> \in turn[e].left
    BY <1>10 DEF Telling
  <2>2. CASE Copies(p, v) # {}
    BY <1>3, <1>4, <2>2
  <2>3. CASE <<p, v>> \in turn[d].left /\ <<p, v>> = x
    <3>1. p = q /\ v = u
      BY <1>3, <2>3
    <3> QED BY <1>4, <3>1
  <2>4. CASE <<p, v>> \in turn[d].left /\ <<p, v>> # x
    BY <1>10, <2>4
  <2> QED BY <1>1, <2>1, <2>2, <2>3, <2>4
<1>11. DueTogether'
  <2>1. SUFFICES ASSUME NEW p \in PullUp, NEW v \in Venue
                 PROVE  /\ AtMostOne(Copies(p, v)')
                        /\ \A i \in Copies(p, v)' :
                             /\ Due[p] <= told'[v][i][2]
                             /\ \A w \in Venue : \A j \in Copies(p, w)' :
                                  told'[w][j][2] = told'[v][i][2]
    BY DEF DueTogether, AtMostOne
  <2>2. CASE p # q
    <3>1. /\ AtMostOne(Copies(p, v))
          /\ \A i \in Copies(p, v) :
               /\ Due[p] <= told[v][i][2]
               /\ \A w \in Venue : \A j \in Copies(p, w) : told[w][j][2] = told[v][i][2]
      BY DEF Telling, DueTogether
    <3>2. \A w \in Venue :
            Copies(p, w)' = Copies(p, w) /\ \A i \in Copies(p, w) : told'[w][i] = told[w][i]
      BY <1>6, <2>2
    <3>5. AtMostOne(Copies(p, v)')
      BY <3>1, <3>2
    <3>6. \A i \in Copies(p, v) : told'[v][i] = told[v][i]
      BY <3>2
    <3>7. Copies(p, v)' = Copies(p, v)
      BY <3>2
    <3>3. SUFFICES ASSUME NEW i \in Copies(p, v)
                   PROVE  /\ Due[p] <= told'[v][i][2]
                          /\ \A w \in Venue : \A j \in Copies(p, w)' :
                               told'[w][j][2] = told'[v][i][2]
      BY <3>5, <3>7
    <3>4. ASSUME NEW w \in Venue, NEW j \in Copies(p, w)'
          PROVE  told'[w][j][2] = told[v][i][2]
      <4>1. j \in Copies(p, w) /\ told'[w][j] = told[w][j]
        BY <3>2, <3>4
      <4>2. told[w][j][2] = told[v][i][2]
        BY <3>1, <4>1
      <4> QED BY <4>1, <4>2
    <3>8. told'[v][i] = told[v][i]
      BY <3>6
    <3>9. Due[p] <= told[v][i][2]
      BY <3>1
    <3> QED BY <3>4, <3>8, <3>9
  <2>3. CASE p = q
    <3>1. AtMostOne(Copies(p, v)')
      <4>1. AtMostOne(Copies(p, v))
        BY DEF Telling, DueTogether
      <4>2. CASE v = u
        <5>1. Copies(p, v)' = {n}
          BY <1>4, <2>3, <4>2
        <5> QED BY <5>1 DEF AtMostOne
      <4>3. CASE v # u
        <5>1. Copies(p, v)' = Copies(p, v)
          BY <1>4, <4>3
        <5> QED BY <4>1, <5>1
      <4> QED BY <4>2, <4>3
    <3>2. \A w \in Venue : \A j \in Copies(p, w)' : told'[w][j][2] = clock
      BY <1>5, <2>3
    <3>3. Due[p] <= clock
      BY <1>3, <2>3
    <3> QED BY <3>1, <3>2, <3>3
  <2> QED BY <2>2, <2>3
<1> QED BY <1>7, <1>8, <1>9, <1>10, <1>11 DEF Telling

\* The clock moves, and what is due leaves the list.
LEMMA DueStep ==
  ASSUME TypeInv, Lock, Telling, NEW d \in Venue, at[d] = "moving",
         NEW time \in Nat, time >= clock, clock' = time, pullups' = pullups \ DueBy(time),
         UNCHANGED <<told, gate>>, turn'[d].left = Deliveries(DueBy(time)),
         \A e \in Venue : e # d => turn'[e].left = turn[e].left
  PROVE  Telling'
<1>1. \A e \in Venue : turn[e].left = {}
  <2>1. turn[d].left = {}
    BY DEF TypeInv, DMTypes, Fits
  <2> QED BY <2>1, HolderDelivers
<1>2. pullups \subseteq PullUp /\ clock \in Nat /\ Due \in [PullUp -> Nat]
  BY DirectionAssumption DEF TypeInv, ClockTypes
<1>3. \A p \in PullUp, v \in Venue : Copies(p, v)' = Copies(p, v)
  BY DEF Copies
<1>4. \A p \in pullups, v \in Venue : Copies(p, v) = {}
  BY DEF Telling
<1>5. \A p : p \in DueBy(time) <=> p \in pullups /\ Due[p] <= time
  BY DEF DueBy
<1>6. \A p \in pullups', v \in Venue : Copies(p, v)' = {}
  BY <1>2, <1>3, <1>4
<1>7. ASSUME NEW e \in Venue, NEW x \in turn'[e].left
      PROVE  /\ x[1] \notin pullups' /\ Copies(x[1], x[2])' = {} /\ Due[x[1]] <= clock'
             /\ \A w \in Venue : \A j \in Copies(x[1], w)' : told'[w][j][2] = clock'
  <2>1. x[1] \in DueBy(time) /\ x[2] \in Venue
    BY <1>1, <1>7 DEF Deliveries
  <2> QED BY <1>2, <1>3, <1>4, <1>5, <2>1
<1>8. clock' > 0 => \A p \in pullups' : clock' < Due[p]
  BY <1>2, <1>5
<1>9. ASSUME Undisturbed', NEW p \in PullUp \ pullups', NEW v \in Venue
      PROVE  Copies(p, v)' # {} \/ \E e \in Venue : <<p, v>> \in turn'[e].left
  <2>1. Undisturbed
    BY <1>9 DEF Undisturbed
  <2>2. CASE p \in DueBy(time)
    BY <2>2 DEF Deliveries
  <2>3. CASE p \notin pullups
    BY <1>1, <1>3, <2>1, <2>3 DEF Telling
  <2> QED BY <1>9, <2>2, <2>3
<1>10. DueTogether'
  BY <1>3 DEF Telling, DueTogether, Copies, AtMostOne
<1> QED BY <1>6, <1>7, <1>8, <1>9, <1>10 DEF Telling

\* A venue fails, with the command in hand done or not.
LEMMA TellingShut ==
  ASSUME TypeInv, Lock, Telling, NEW v \in Venue, NEW Back \in SUBSET Senders(v),
         Shut(v), Give(Senders(v) \ Back, Back), UNCHANGED clockVars
  PROVE  Telling'
<1>1. ~Undisturbed'
  <2>1. gate' = [gate EXCEPT ![v] = "failed"] /\ gate \in [Venue -> {"open", "draining", "failed"}]
    BY DEF Shut, TypeInv, VenueTypes
  <2> QED BY <2>1 DEF Undisturbed
<1>2. \A e \in Venue : /\ turn'[e].left \in {turn[e].left, {}}
                       /\ e \in Senders(v) => turn'[e].left = {}
  BY FailureShape, NoTurnFields
<1>3. UNCHANGED <<clock, pullups>>
  BY DEF clockVars
<1>4. CASE UNCHANGED told
  BY <1>1, <1>2, <1>3, <1>4, TellingKept
<1>5. CASE ~UNCHANGED told
  <2>1. PICK d \in Senders(v) : TakesEffect(d)
    BY <1>5 DEF Shut
  <2>2. d \in asked
    BY <2>1 DEF Senders
  <2> DEFINE x == FirstOf(turn[d].left)
  <2>3. /\ at[d] = "delivering"
        /\ told' = [told EXCEPT ![x[2]] = Append(@, <<x[1], clock>>)]
    BY <1>5, <2>1, <2>2, EffectKinds
  <2>4. d \in Venue /\ x \in turn[d].left
    BY <2>2, <2>3, SenderFacts
  <2> HIDE DEF x
  <2>5. turn'[d].left \subseteq turn[d].left \ {x}
        /\ \A e \in Venue : e # d => turn'[e].left \subseteq turn[e].left
    BY <1>2, <2>1, <2>4
  <2> QED BY <1>1, <1>3, <2>3, <2>4, <2>5, ToldStep
<1> QED BY <1>4, <1>5

\* Due events are told once, in time, and all at the same time.
LEMMA TellingStep ==
  ASSUME TypeInv, Lock, Telling, [Next]_vars
  PROVE  Telling'
<1>1. CASE UNCHANGED vars
  <2>1. UNCHANGED <<clock, pullups, told, turn, gate>>
    BY <1>1 DEF vars, clockVars, venueVars
  <2> QED BY <2>1, TellingKept DEF Undisturbed
<1>2. ASSUME NEW t \in Task, Arrive(t)
      PROVE  Telling'
  <2>1. UNCHANGED <<clock, pullups, told, turn, gate>>
    BY <1>2 DEF Arrive, clockVars, venueVars
  <2> QED BY <2>1, TellingKept DEF Undisturbed
<1>3. ASSUME NEW d \in Venue, DecisionMade(d)
      PROVE  Telling'
  <2>1. UNCHANGED <<clock, pullups, told, gate>>
    BY <1>3, EffectKinds DEF DecisionMade, clockVars
  <2>2. \A e \in Venue : turn'[e].left = turn[e].left
    BY <1>3, Shapes DEF Stays, Goes
  <2> QED BY <2>1, <2>2, TellingKept DEF Undisturbed
<1>4. ASSUME NEW d \in Venue, AuditMade(d)
      PROVE  Telling'
  <2>1. UNCHANGED <<clock, pullups, told, gate>>
    BY <1>4, EffectKinds DEF AuditMade, clockVars
  <2>2. \A e \in Venue : turn'[e].left = turn[e].left
    BY <1>4, Shapes DEF Stays, Goes
  <2> QED BY <2>1, <2>2, TellingKept DEF Undisturbed
<1>5. ASSUME NEW d \in Venue, CrisisMade(d)
      PROVE  Telling'
  <2>1. UNCHANGED <<clock, pullups, told, gate>>
    BY <1>5, EffectKinds DEF CrisisMade, clockVars
  <2>2. \A e \in Venue : turn'[e].left = turn[e].left
    BY <1>5, Shapes DEF Stays, Goes
  <2> QED BY <2>1, <2>2, TellingKept DEF Undisturbed
<1>6. ASSUME NEW d \in Venue, DueEventMade(d)
      PROVE  Telling'
  <2> DEFINE x == FirstOf(turn[d].left)
  <2>1. d \in asked /\ at[d] = "delivering" /\ UNCHANGED <<clock, pullups, gate>>
        /\ TakesEffect(d)
    BY <1>6 DEF DueEventMade, clockVars
  <2>2. told' = [told EXCEPT ![x[2]] = Append(@, <<x[1], clock>>)] /\ x \in turn[d].left
    BY <2>1, EffectKinds, SenderFacts
  <2> HIDE DEF x
  <2>3. turn'[d].left = turn[d].left \ {x} /\ \A e \in Venue : e # d => turn'[e] = turn[e]
    <3>1. turn[d].left = {x} => turn[d].left \ {x} = {}
      OBVIOUS
    <3> QED BY <1>6, <3>1, DueEventShape DEF Goes, x
  <2> QED BY <2>1, <2>2, <2>3, ToldStep DEF Undisturbed
<1>7. ASSUME NEW d \in Venue, TakeUp(d)
      PROVE  Telling'
  <2>1. UNCHANGED <<clock, pullups, told, gate>>
    BY <1>7 DEF TakeUp, clockVars, venueVars
  <2>2. turn[d].left = {}
    BY <1>7 DEF TakeUp, TypeInv, DMTypes, Fits
  <2>3. \A e \in Venue : turn'[e].left = turn[e].left
    BY <1>7, <2>2, TakeUpShape DEF Stays, Goes
  <2> QED BY <2>1, <2>3, TellingKept DEF Undisturbed
<1>8. ASSUME NEW d \in Venue, EndTurn(d)
      PROVE  Telling'
  <2>1. UNCHANGED <<clock, pullups, told, gate>>
    BY <1>8 DEF EndTurn, clockVars, venueVars
  <2>2. turn[d].left = {}
    BY <1>8 DEF EndTurn, TypeInv, DMTypes, Fits
  <2>3. \A e \in Venue : turn'[e].left = turn[e].left
    BY <1>8, <2>2, Shapes DEF Quits, Goes
  <2> QED BY <2>1, <2>3, TellingKept DEF Undisturbed
<1>9. ASSUME NEW d \in Venue, Leave(d)
      PROVE  Telling'
  <2>1. UNCHANGED <<clock, pullups, told, gate>>
    BY <1>9 DEF Leave, clockVars, venueVars
  <2>2. turn[d].left = {}
    BY <1>9 DEF Leave, TypeInv, DMTypes, Fits
  <2>3. \A e \in Venue : turn'[e].left = turn[e].left
    BY <1>9, <2>2, Shapes DEF Quits, Goes
  <2> QED BY <2>1, <2>3, TellingKept DEF Undisturbed
<1>10. ASSUME NEW d \in Venue, Ask(d)
      PROVE  Telling'
  <2>1. UNCHANGED <<clock, pullups, told, turn, gate>>
    BY <1>10 DEF Ask, clockVars, venueVars
  <2> QED BY <2>1, TellingKept DEF Undisturbed
<1>11. ASSUME NEW d \in Venue, Refused(d)
      PROVE  Telling'
  <2>1. UNCHANGED <<clock, pullups, told, gate>>
    BY <1>11 DEF Refused, clockVars, venueVars
  <2>2. Target(d) \in Venue
    <3>1. CASE at[d] # "delivering"
      BY <3>1 DEF Target
    <3>2. CASE at[d] = "delivering"
      <4>1. turn[d].left \subseteq PullUp \X Venue /\ turn[d].left # {}
        BY <3>2 DEF TypeInv, DMTypes, Fits, Turn
      <4> QED BY <3>2, <4>1, FirstIsLeft DEF Target
    <3> QED BY <3>1, <3>2
  <2>3. ~Undisturbed'
    BY <1>11, <2>1, <2>2 DEF Refused, Undisturbed
  <2>4. \A e \in Venue : turn'[e].left \in {turn[e].left, {}}
    BY <1>11, Shapes DEF Quits, Goes
  <2> QED BY <2>1, <2>3, <2>4, TellingKept
<1>12. ASSUME NEW d \in Venue, TimePass(d)
      PROVE  Telling'
  <2>1. UNCHANGED <<clock, pullups, told, gate>>
    BY <1>12 DEF TimePass, clockVars, venueVars
  <2>2. \A e \in Venue : turn'[e].left = turn[e].left
    BY <1>12, Shapes DEF Stays, Goes
  <2> QED BY <2>1, <2>2, TellingKept DEF Undisturbed
<1>13. ASSUME NEW d \in Venue, UpdateTime(d)
      PROVE  Telling'
  <2> DEFINE time == turn[d].base + turn[d].minutes
  <2>1. at[d] = "moving" /\ UNCHANGED <<told, gate>>
    BY <1>13 DEF UpdateTime, venueVars
  <2>2. turn[d].left = {} /\ time \in Nat
    <3>1. Fits("moving", turn[d])
      BY <2>1 DEF TypeInv, DMTypes
    <3>2. turn[d].base \in Nat /\ turn[d].minutes \in Nat
      BY <3>1, DirectionAssumption DEF Fits, Turn
    <3>3. turn[d].left = {}
      BY <3>1 DEF Fits
    <3> QED BY <3>2, <3>3
  <2> HIDE DEF time
  <2>3. CASE UNCHANGED clockVars /\ \A e \in Venue : turn'[e].left = turn[e].left
    BY <2>1, <2>3, TellingKept DEF clockVars, Undisturbed
  <2>4. CASE /\ time >= clock /\ clock' = time /\ pullups' = pullups \ DueBy(time)
             /\ turn'[d].left = Deliveries(DueBy(time))
             /\ \A e \in Venue : e # d => turn'[e].left = turn[e].left
    BY <2>1, <2>2, <2>4, DueStep
  <2>5. DueBy(time) = {} => Deliveries(DueBy(time)) = {}
    BY DEF Deliveries
  <2> QED BY <1>13, <2>2, <2>3, <2>4, <2>5, UpdateTimeShape DEF Goes, time
<1>14. ASSUME NEW d \in Venue, Adjudicate(d)
      PROVE  Telling'
  <2>1. UNCHANGED <<clock, pullups, told, gate>>
    BY <1>14 DEF Adjudicate, clockVars, venueVars
  <2>2. \A e \in Venue : turn'[e].left = turn[e].left
    BY <1>14, Shapes DEF Stays, Goes
  <2> QED BY <2>1, <2>2, TellingKept DEF Undisturbed
<1>15. ASSUME NEW d \in Venue, Publish(d)
      PROVE  Telling'
  <2>1. UNCHANGED <<clock, pullups, told, gate>>
    BY <1>15 DEF Publish, clockVars, venueVars
  <2>2. \A e \in Venue : turn'[e].left = turn[e].left
    BY <1>15, Shapes DEF Stays, Goes
  <2> QED BY <2>1, <2>2, TellingKept DEF Undisturbed
<1>16. ASSUME NEW d \in Venue, Advance(d)
      PROVE  Telling'
  <2>1. UNCHANGED <<clock, pullups, told, gate>>
    BY <1>16 DEF Advance, clockVars, venueVars
  <2>2. \A e \in Venue : turn'[e].left = turn[e].left
    BY <1>16, Shapes DEF Stays, Goes
  <2> QED BY <2>1, <2>2, TellingKept DEF Undisturbed
<1>17. ASSUME NEW d \in Venue, LLMFails(d)
      PROVE  Telling'
  <2>1. UNCHANGED <<clock, pullups, told, gate>>
    BY <1>17 DEF LLMFails, clockVars, venueVars
  <2>2. turn[d].left = {}
    BY <1>17 DEF LLMFails, TypeInv, DMTypes, Fits
  <2>3. \A e \in Venue : turn'[e].left = turn[e].left
    BY <1>17, <2>2, Shapes DEF Quits, Goes
  <2> QED BY <2>1, <2>3, TellingKept DEF Undisturbed
<1>18. ASSUME NEW d \in Venue, CommandTimesOut(d)
      PROVE  Telling'
  <2>1. PICK v \in Venue : \E Back \in SUBSET Senders(v) :
          Shut(v) /\ Give(Senders(v) \ Back, Back) /\ UNCHANGED clockVars
    BY <1>18, Failures
  <2>2. PICK Back \in SUBSET Senders(v) :
          Shut(v) /\ Give(Senders(v) \ Back, Back) /\ UNCHANGED clockVars
    BY <2>1
  <2> QED BY <2>2, TellingShut
<1>19. ASSUME NEW v \in Venue, EngineFails(v)
      PROVE  Telling'
  <2>1. PICK Back \in SUBSET Senders(v) :
          Shut(v) /\ Give(Senders(v) \ Back, Back) /\ UNCHANGED clockVars
    BY <1>19, Failures
  <2> QED BY <2>1, TellingShut
<1>20. ASSUME NEW v \in Venue, StopVenue(v)
      PROVE  Telling'
  <2>1. UNCHANGED <<clock, pullups, told, turn>>
    BY <1>20 DEF StopVenue, clockVars
  <2>2. ~Undisturbed'
    <3>1. gate' = [gate EXCEPT ![v] = "draining"]
      BY <1>20 DEF StopVenue
    <3> QED BY <3>1 DEF Undisturbed, TypeInv, VenueTypes
  <2> QED BY <2>1, <2>2, TellingKept
<1>21. ASSUME RequestStop
      PROVE  Telling'
  <2>1. UNCHANGED <<clock, pullups, told, turn, gate>>
    BY <1>21 DEF RequestStop, clockVars, venueVars
  <2> QED BY <2>1, TellingKept DEF Undisturbed
<1> QED BY <1>1, <1>2, <1>3, <1>4, <1>5, <1>6, <1>7, <1>8, <1>9, <1>10, <1>11, <1>12,
           <1>13, <1>14, <1>15, <1>16, <1>17, <1>18, <1>19, <1>20, <1>21
       DEF Next, EngineStep, DMStep, ToolCall

-----------------------------------------------------------------------------
(* Where the tasks are.                                                    *)

\* The status of a task stays, or is decided by the DM.
Decided(t) ==
  t \in Instruction /\ status[t] = "pending" /\ status'[t] \in {"completed", "failed"}

StatusKept == \A t \in Task : status'[t] = status[t] \/ Decided(t)

\* What a command that takes effect decides and records is about the task in hand.
LEMMA EffectOnTask ==
  ASSUME TypeInv, Memory, NEW d \in asked, TakesEffect(d)
  PROVE  /\ StatusKept
         /\ \A t \in Task : t # turn[d].task => status'[t] = status[t]
<1>1. turn[d].task \in Task /\ turn[d].task # None /\ d \in Venue
  BY SenderFacts, DirectionAssumption
<1>2. CASE /\ at[d] = "deciding"
           /\ status' = [status EXCEPT ![turn[d].task] = turn[d].verdict]
  <2>1. /\ turn[d].task \in Instruction /\ status[turn[d].task] = "pending"
        /\ turn[d].verdict \in {"completed", "failed"}
    BY <1>1, <1>2 DEF Memory, Remembered, TypeInv, DMTypes, Fits
  <2>2. status \in [Task -> {"none", "pending", "completed", "failed",
                             "accepted", "rejected"}]
    BY DEF TypeInv, VenueTypes
  <2> QED BY <1>1, <1>2, <2>1, <2>2 DEF StatusKept, Decided
<1>3. CASE UNCHANGED status
  BY <1>3 DEF StatusKept
<1> QED BY <1>2, <1>3, EffectKinds

\* The same when a venue fails.
LEMMA ShutStatus ==
  ASSUME TypeInv, Memory, NEW v \in Venue, Shut(v)
  PROVE  StatusKept
<1>1. CASE UNCHANGED status
  BY <1>1 DEF StatusKept
<1>2. CASE \E d \in Senders(v) : TakesEffect(d)
  BY <1>2, EffectOnTask DEF Senders
<1> QED BY <1>1, <1>2 DEF Shut

\* Steps that hand no task on.
LEMMA PlacesKept ==
  ASSUME TypeInv, Places, StatusKept, UNCHANGED <<inbox, processed>>,
         \A e \in Venue : turn'[e].task \in {turn[e].task, None}
  PROVE  Places'
<1>1. \A t \in Task : status'[t] = "none" <=> status[t] = "none"
  BY DEF StatusKept, Decided
<1>2. \A t \in Task : status'[t] \in
        {"none"} \cup IF t \in Instruction THEN {"pending", "completed", "failed"}
                      ELSE {"accepted", "rejected"}
  BY DEF Places, StatusKept, Decided
<1>3. \A e \in Venue : /\ inbox[e] \in Seq(Task)
                       /\ turn[e].task \in Task \cup {None}
  BY DEF TypeInv, RestTypes, DMTypes, Turn
<1>4. None \notin Task /\ processed \subseteq Task
  BY DirectionAssumption DEF TypeInv, RestTypes
<1>5. ASSUME NEW e \in Venue, NEW i \in 1..Len(inbox[e])
      PROVE  /\ VenueOf[inbox[e][i]] = e /\ status'[inbox[e][i]] # "none"
             /\ inbox[e][i] # turn'[e].task /\ inbox[e][i] \notin processed
             /\ \A j \in 1..Len(inbox[e]) : inbox[e][i] = inbox[e][j] => i = j
  <2>1. inbox[e][i] \in Task
    BY <1>3
  <2> QED BY <1>1, <1>4, <2>1 DEF Places
<1>6. ASSUME NEW e \in Venue, turn'[e].task # None
      PROVE  /\ VenueOf[turn'[e].task] = e /\ status'[turn'[e].task] # "none"
             /\ turn'[e].task \notin processed
  BY <1>1, <1>3, <1>6 DEF Places
<1>7. \A t \in processed : status'[t] # "none"
  BY <1>1, <1>4 DEF Places
<1> QED BY <1>2, <1>5, <1>6, <1>7 DEF Places

\* A venue that fails hands no task on.
LEMMA PlacesShut ==
  ASSUME TypeInv, Memory, Places, NEW v \in Venue, NEW Back \in SUBSET Senders(v),
         Shut(v), Give(Senders(v) \ Back, Back), UNCHANGED <<inbox, processed>>
  PROVE  Places'
<1>1. \A e \in Venue : turn'[e].task \in {turn[e].task, None}
  BY FailureShape, NoTurnFields
<1> QED BY <1>1, ShutStatus, PlacesKept

\* A task is in one place.
LEMMA PlacesStep ==
  ASSUME TypeInv, Memory, Places, [Next]_vars
  PROVE  Places'
<1>1. CASE UNCHANGED vars
  <2>1. UNCHANGED <<status, turn, inbox, processed>>
    BY <1>1 DEF vars, venueVars
  <2> QED BY <2>1, PlacesKept DEF StatusKept
<1>2. ASSUME NEW t \in Task, Arrive(t)
      PROVE  Places'
  <2>1. PICK s \in IF t \in Instruction THEN {"pending"} ELSE {"accepted", "rejected"} :
          status' = [status EXCEPT ![t] = s]
    BY <1>2 DEF Arrive
  <2>2. /\ status[t] = "none" /\ UNCHANGED <<turn, processed>> /\ VenueOf[t] \in Venue
        /\ inbox' = [inbox EXCEPT ![VenueOf[t]] = IF stopping THEN @ ELSE Append(@, t)]
    BY <1>2, DirectionAssumption DEF Arrive
  <2>3. /\ status'[t] = s /\ \A u \in Task : u # t => status'[u] = status[u]
    BY <2>1 DEF TypeInv, VenueTypes
  <2>4. /\ inbox \in [Venue -> Seq(Task)] /\ processed \subseteq Task /\ None \notin Task
        /\ \A e \in Venue : turn[e].task \in Task \cup {None}
    BY DirectionAssumption DEF TypeInv, RestTypes, DMTypes, Turn
  <2>5. ASSUME NEW e \in Venue
        PROVE  /\ \A i \in 1..Len(inbox'[e]) :
                    /\ VenueOf[inbox'[e][i]] = e /\ status'[inbox'[e][i]] # "none"
                    /\ inbox'[e][i] # turn'[e].task /\ inbox'[e][i] \notin processed'
                    /\ \A j \in 1..Len(inbox'[e]) : inbox'[e][i] = inbox'[e][j] => i = j
    <3>1. \A i \in 1..Len(inbox[e]) :
            /\ inbox[e][i] \in Task /\ inbox[e][i] # t
            /\ VenueOf[inbox[e][i]] = e /\ status'[inbox[e][i]] # "none"
            /\ inbox[e][i] # turn'[e].task /\ inbox[e][i] \notin processed'
            /\ \A j \in 1..Len(inbox[e]) : inbox[e][i] = inbox[e][j] => i = j
      <4>1. \A i \in 1..Len(inbox[e]) : inbox[e][i] \in Task
        BY <2>4
      <4> QED BY <2>2, <2>3, <4>1 DEF Places
    <3>2. CASE inbox'[e] = inbox[e]
      BY <3>1, <3>2
    <3>3. CASE e = VenueOf[t] /\ inbox'[e] = Append(inbox[e], t)
      <4>1. /\ Len(inbox[e]) \in Nat /\ Len(inbox'[e]) = Len(inbox[e]) + 1
            /\ inbox'[e][Len(inbox[e]) + 1] = t
            /\ \A i \in 1..Len(inbox[e]) : inbox'[e][i] = inbox[e][i]
        BY <2>4, <3>3
      <4>2. t # turn[e].task /\ t \notin processed /\ s # "none"
        BY <2>1, <2>2, <2>4 DEF Places
      <4>3. \A i \in 1..Len(inbox'[e]) : i \in 1..Len(inbox[e]) \/ i = Len(inbox[e]) + 1
        BY <4>1
      <4>4. ASSUME NEW i \in 1..Len(inbox'[e])
            PROVE  /\ VenueOf[inbox'[e][i]] = e /\ status'[inbox'[e][i]] # "none"
                   /\ inbox'[e][i] # turn'[e].task /\ inbox'[e][i] \notin processed'
        BY <2>2, <2>3, <3>1, <3>3, <4>1, <4>2, <4>3
      <4>5. ASSUME NEW i \in 1..Len(inbox'[e]), NEW j \in 1..Len(inbox'[e]),
                   inbox'[e][i] = inbox'[e][j]
            PROVE  i = j
        BY <3>1, <4>1, <4>3, <4>5
      <4> QED BY <4>4, <4>5
    <3> QED BY <2>2, <2>4, <3>2, <3>3
  <2>6. \A e \in Venue : turn'[e].task # None =>
          /\ VenueOf[turn'[e].task] = e /\ status'[turn'[e].task] # "none"
          /\ turn'[e].task \notin processed'
    BY <2>2, <2>3, <2>4 DEF Places
  <2>7. \A u \in processed' : status'[u] # "none"
    BY <2>2, <2>3, <2>4 DEF Places
  <2>8. \A u \in Task : status'[u] \in
          {"none"} \cup IF u \in Instruction THEN {"pending", "completed", "failed"}
                        ELSE {"accepted", "rejected"}
    BY <2>1, <2>3 DEF Places
  <2> QED BY <2>5, <2>6, <2>7, <2>8 DEF Places
<1>3. ASSUME NEW d \in Venue, DecisionMade(d)
      PROVE  Places'
  <2>1. UNCHANGED <<inbox, processed>> /\ StatusKept
    BY <1>3, EffectOnTask DEF DecisionMade
  <2>2. \A e \in Venue : turn'[e].task = turn[e].task
    BY <1>3, Shapes DEF Stays, Goes
  <2> QED BY <2>1, <2>2, PlacesKept
<1>4. ASSUME NEW d \in Venue, AuditMade(d)
      PROVE  Places'
  <2>1. UNCHANGED <<inbox, processed>> /\ StatusKept
    BY <1>4, EffectOnTask DEF AuditMade
  <2>2. \A e \in Venue : turn'[e].task = turn[e].task
    BY <1>4, Shapes DEF Stays, Goes
  <2> QED BY <2>1, <2>2, PlacesKept
<1>5. ASSUME NEW d \in Venue, CrisisMade(d)
      PROVE  Places'
  <2>1. UNCHANGED <<inbox, processed>> /\ StatusKept
    BY <1>5, EffectOnTask DEF CrisisMade
  <2>2. \A e \in Venue : turn'[e].task = turn[e].task
    BY <1>5, Shapes DEF Stays, Goes
  <2> QED BY <2>1, <2>2, PlacesKept
<1>6. ASSUME NEW d \in Venue, DueEventMade(d)
      PROVE  Places'
  <2>1. UNCHANGED <<inbox, processed>> /\ StatusKept
    BY <1>6, EffectOnTask DEF DueEventMade
  <2>2. \A e \in Venue : turn'[e].task = turn[e].task
    BY <1>6, DueEventShape DEF Goes
  <2> QED BY <2>1, <2>2, PlacesKept
<1>7. ASSUME NEW d \in Venue, TakeUp(d)
      PROVE  Places'
  <2> DEFINE t == Head(inbox[d])
  <2>1. /\ inbox[d] # <<>> /\ UNCHANGED <<status, processed>>
        /\ inbox' = [inbox EXCEPT ![d] = Tail(@)]
    BY <1>7 DEF TakeUp, venueVars
  <2>2. /\ inbox \in [Venue -> Seq(Task)] /\ inbox[d] \in Seq(Task) /\ None \notin Task
    BY DirectionAssumption DEF TypeInv, RestTypes
  <2>3. /\ Len(inbox[d]) \in Nat /\ Len(inbox'[d]) = Len(inbox[d]) - 1
        /\ 1 \in 1..Len(inbox[d]) /\ t = inbox[d][1]
        /\ \A i \in 1..Len(inbox'[d]) : /\ inbox'[d][i] = inbox[d][i + 1]
                                        /\ i + 1 \in 1..Len(inbox[d]) /\ i + 1 # 1
        /\ \A e \in Venue : e # d => inbox'[e] = inbox[e]
    BY <2>1, <2>2
  <2>4. /\ VenueOf[t] = d /\ status[t] # "none" /\ t \notin processed
        /\ \A i \in 1..Len(inbox[d]) : inbox[d][i] = t => i = 1
    BY <2>3 DEF Places
  <2>5. /\ turn'[d].task \in {t, None} /\ \A e \in Venue : e # d => turn'[e] = turn[e]
    BY <1>7, TakeUpShape DEF Stays, Goes
  <2> HIDE DEF t
  <2>6. ASSUME NEW e \in Venue, NEW i \in 1..Len(inbox'[e])
        PROVE  /\ VenueOf[inbox'[e][i]] = e /\ status'[inbox'[e][i]] # "none"
               /\ inbox'[e][i] # turn'[e].task /\ inbox'[e][i] \notin processed'
               /\ \A j \in 1..Len(inbox'[e]) : inbox'[e][i] = inbox'[e][j] => i = j
    <3>1. CASE e # d
      BY <2>1, <2>3, <2>5, <3>1 DEF Places
    <3>2. CASE e = d
      <4>1. inbox'[d][i] = inbox[d][i + 1] /\ i + 1 \in 1..Len(inbox[d]) /\ i + 1 # 1
        BY <2>3, <3>2
      <4>2. inbox[d][i + 1] \in Task
        BY <2>2, <4>1
      <4>3. /\ VenueOf[inbox'[d][i]] = d /\ status'[inbox'[d][i]] # "none"
            /\ inbox'[d][i] # turn'[d].task /\ inbox'[d][i] \notin processed'
        BY <2>1, <2>2, <2>4, <2>5, <4>1, <4>2 DEF Places
      <4>4. ASSUME NEW j \in 1..Len(inbox'[d]), inbox'[d][i] = inbox'[d][j]
            PROVE  i = j
        <5>1. inbox[d][j + 1] = inbox[d][i + 1] /\ j + 1 \in 1..Len(inbox[d])
          BY <2>3, <4>1, <4>4
        <5>2. i + 1 = j + 1
          BY <4>1, <5>1 DEF Places
        <5> QED BY <3>2, <5>2
      <4> QED BY <3>2, <4>3, <4>4
    <3> QED BY <3>1, <3>2
  <2>7. \A e \in Venue : turn'[e].task # None =>
          /\ VenueOf[turn'[e].task] = e /\ status'[turn'[e].task] # "none"
          /\ turn'[e].task \notin processed'
    BY <2>1, <2>4, <2>5 DEF Places
  <2> QED BY <2>1, <2>6, <2>7 DEF Places
<1>8. ASSUME NEW d \in Venue, EndTurn(d)
      PROVE  Places'
  <2> DEFINE t == turn[d].task
  <2>1. UNCHANGED <<status, inbox>> /\ processed' \in {processed, processed \cup {t}}
    BY <1>8 DEF EndTurn, venueVars
  <2>2. /\ turn'[d].task = None /\ \A e \in Venue : e # d => turn'[e] = turn[e]
    BY <1>8, Shapes DEF Quits, Goes
  <2>3. t \in Task /\ None \notin Task /\ t # None /\ inbox \in [Venue -> Seq(Task)]
    BY <1>8, DirectionAssumption DEF EndTurn, TypeInv, DMTypes, RestTypes, Fits, Turn
  <2>4. VenueOf[t] = d /\ status[t] # "none"
    BY <2>3 DEF Places
  <2>5. ASSUME NEW e \in Venue, NEW i \in 1..Len(inbox[e])
        PROVE  inbox[e][i] # t /\ inbox[e][i] # None
    <3>1. inbox[e][i] \in Task
      BY <2>3
    <3> QED BY <2>3, <2>4, <3>1 DEF Places
  <2>6. \A e \in Venue : turn'[e].task # None => e # d /\ turn'[e].task # t
    BY <2>2, <2>4 DEF Places
  <2> HIDE DEF t
  <2>7. \A e \in Venue : turn'[e].task # None =>
          /\ VenueOf[turn'[e].task] = e /\ status'[turn'[e].task] # "none"
          /\ turn'[e].task \notin processed'
    BY <2>1, <2>2, <2>6 DEF Places
  <2>8. \A e \in Venue : \A i \in 1..Len(inbox'[e]) :
          /\ VenueOf[inbox'[e][i]] = e /\ status'[inbox'[e][i]] # "none"
          /\ inbox'[e][i] # turn'[e].task /\ inbox'[e][i] \notin processed'
          /\ \A j \in 1..Len(inbox'[e]) : inbox'[e][i] = inbox'[e][j] => i = j
    <3>1. \A e \in Venue : turn'[e].task \in {turn[e].task, None}
      BY <2>2
    <3> QED BY <2>1, <2>5, <3>1 DEF Places
  <2>9. \A u \in processed' : status'[u] # "none"
    BY <2>1, <2>4 DEF Places
  <2> QED BY <2>1, <2>7, <2>8, <2>9 DEF Places
<1>9. ASSUME NEW d \in Venue, Leave(d)
      PROVE  Places'
  <2>1. UNCHANGED <<status, inbox, processed>>
    BY <1>9 DEF Leave, venueVars
  <2>2. \A e \in Venue : turn'[e].task \in {turn[e].task, None}
    BY <1>9, Shapes DEF Stays, Quits, Goes
  <2> QED BY <2>1, <2>2, PlacesKept DEF StatusKept
<1>10. ASSUME NEW d \in Venue, Ask(d)
      PROVE  Places'
  <2>1. UNCHANGED <<status, turn, inbox, processed>>
    BY <1>10 DEF Ask, venueVars
  <2> QED BY <2>1, PlacesKept DEF StatusKept
<1>11. ASSUME NEW d \in Venue, Refused(d)
      PROVE  Places'
  <2>1. UNCHANGED <<status, inbox, processed>>
    BY <1>11 DEF Refused, venueVars
  <2>2. \A e \in Venue : turn'[e].task \in {turn[e].task, None}
    BY <1>11, Shapes DEF Stays, Quits, Goes
  <2> QED BY <2>1, <2>2, PlacesKept DEF StatusKept
<1>12. ASSUME NEW d \in Venue, TimePass(d)
      PROVE  Places'
  <2>1. UNCHANGED <<status, inbox, processed>>
    BY <1>12 DEF TimePass, venueVars
  <2>2. \A e \in Venue : turn'[e].task \in {turn[e].task, None}
    BY <1>12, Shapes DEF Stays, Quits, Goes
  <2> QED BY <2>1, <2>2, PlacesKept DEF StatusKept
<1>13. ASSUME NEW d \in Venue, UpdateTime(d)
      PROVE  Places'
  <2>1. UNCHANGED <<status, inbox, processed>>
    BY <1>13 DEF UpdateTime, venueVars
  <2>2. \A e \in Venue : turn'[e].task \in {turn[e].task, None}
    BY <1>13, UpdateTimeShape DEF Goes
  <2> QED BY <2>1, <2>2, PlacesKept DEF StatusKept
<1>14. ASSUME NEW d \in Venue, Adjudicate(d)
      PROVE  Places'
  <2>1. UNCHANGED <<status, inbox, processed>>
    BY <1>14 DEF Adjudicate, venueVars
  <2>2. \A e \in Venue : turn'[e].task \in {turn[e].task, None}
    BY <1>14, Shapes DEF Stays, Quits, Goes
  <2> QED BY <2>1, <2>2, PlacesKept DEF StatusKept
<1>15. ASSUME NEW d \in Venue, Publish(d)
      PROVE  Places'
  <2>1. UNCHANGED <<status, inbox, processed>>
    BY <1>15 DEF Publish, venueVars
  <2>2. \A e \in Venue : turn'[e].task \in {turn[e].task, None}
    BY <1>15, Shapes DEF Stays, Quits, Goes
  <2> QED BY <2>1, <2>2, PlacesKept DEF StatusKept
<1>16. ASSUME NEW d \in Venue, Advance(d)
      PROVE  Places'
  <2>1. UNCHANGED <<status, inbox, processed>>
    BY <1>16 DEF Advance, venueVars
  <2>2. \A e \in Venue : turn'[e].task \in {turn[e].task, None}
    BY <1>16, Shapes DEF Stays, Quits, Goes
  <2> QED BY <2>1, <2>2, PlacesKept DEF StatusKept
<1>17. ASSUME NEW d \in Venue, LLMFails(d)
      PROVE  Places'
  <2>1. UNCHANGED <<status, inbox, processed>>
    BY <1>17 DEF LLMFails, venueVars
  <2>2. \A e \in Venue : turn'[e].task \in {turn[e].task, None}
    BY <1>17, Shapes DEF Stays, Quits, Goes
  <2> QED BY <2>1, <2>2, PlacesKept DEF StatusKept
<1>18. ASSUME NEW d \in Venue, CommandTimesOut(d)
      PROVE  Places'
  <2>1. PICK v \in Venue : \E Back \in SUBSET Senders(v) :
          Shut(v) /\ Give(Senders(v) \ Back, Back) /\ UNCHANGED <<inbox, processed>>
    BY <1>18, Failures
  <2> QED BY <2>1, PlacesShut
<1>19. ASSUME NEW v \in Venue, EngineFails(v)
      PROVE  Places'
  <2>1. PICK Back \in SUBSET Senders(v) :
          Shut(v) /\ Give(Senders(v) \ Back, Back) /\ UNCHANGED <<inbox, processed>>
    BY <1>19, Failures
  <2> QED BY <2>1, PlacesShut
<1>20. ASSUME NEW v \in Venue, StopVenue(v)
      PROVE  Places'
  <2>1. UNCHANGED <<status, turn, inbox, processed>>
    BY <1>20 DEF StopVenue, venueVars
  <2> QED BY <2>1, PlacesKept DEF StatusKept
<1>21. ASSUME RequestStop
      PROVE  Places'
  <2>1. UNCHANGED <<status, turn, inbox, processed>>
    BY <1>21 DEF RequestStop, venueVars
  <2> QED BY <2>1, PlacesKept DEF StatusKept
<1> QED BY <1>1, <1>2, <1>3, <1>4, <1>5, <1>6, <1>7, <1>8, <1>9, <1>10, <1>11, <1>12,
           <1>13, <1>14, <1>15, <1>16, <1>17, <1>18, <1>19, <1>20, <1>21
       DEF Next, EngineStep, DMStep, ToolCall

-----------------------------------------------------------------------------
(* The traces of the tasks.                                                *)

Kinds == {"audit", "crisis"}

\* What an append adds to the entries of a task.
LEMMA EntriesMore ==
  ASSUME VenueTypes, NEW t \in Task, NEW what \in Kinds,
         record' = [record EXCEPT ![VenueOf[t]] = Append(@, <<what, t>>)]
  PROVE  /\ \A w \in Kinds, u \in Task :
              w # what \/ u # t => Entries(w, u)' = Entries(w, u)
         /\ Entries(what, t)' = Entries(what, t) \cup {Len(record[VenueOf[t]]) + 1}
         /\ \A w \in Kinds : \A i \in Entries(w, t) : i < Len(record[VenueOf[t]]) + 1
<1> DEFINE v == VenueOf[t]
           n == Len(record[v]) + 1
           e == <<what, t>>
<1>1. v \in Venue /\ record \in [Venue -> Seq({"audit", "crisis"} \X Task)]
      /\ VenueOf \in [Task -> Venue]
  BY DirectionAssumption DEF VenueTypes
<1>2. record'[v] = Append(record[v], e) /\ \A x \in Venue : x # v => record'[x] = record[x]
  BY <1>1
<1>3. record[v] \in Seq({"audit", "crisis"} \X Task) /\ Len(record[v]) \in Nat
  BY <1>1
<1> HIDE DEF e
<1>4. /\ Len(record'[v]) = n /\ record'[v][n] = e
      /\ \A i \in 1..Len(record[v]) : record'[v][i] = record[v][i] /\ i < n
  BY <1>2, <1>3
<1>5. \A i : i \in 1..n <=> i \in 1..Len(record[v]) \/ i = n
  BY <1>3
<1> HIDE DEF n
<1>6. \A w \in Kinds, u \in Task : e = <<w, u>> <=> w = what /\ u = t
  BY DEF e
<1>7. ASSUME NEW w \in Kinds, NEW u \in Task
      PROVE  \A i : i \in Entries(w, u)' <=>
                      i \in Entries(w, u) \/ (i = n /\ w = what /\ u = t)
  <2>1. CASE VenueOf[u] = v
    BY <1>4, <1>5, <1>6, <2>1 DEF Entries
  <2>2. CASE VenueOf[u] # v
    <3>1. u # t /\ record'[VenueOf[u]] = record[VenueOf[u]]
      BY <1>1, <1>2, <2>2
    <3> QED BY <3>1 DEF Entries
  <2> QED BY <2>1, <2>2
<1>8. \A w \in Kinds, u \in Task : w # what \/ u # t => Entries(w, u)' = Entries(w, u)
  BY <1>7
<1>9. Entries(what, t)' = Entries(what, t) \cup {n}
  BY <1>7
<1>10. \A w \in Kinds : \A i \in Entries(w, t) : i < n
  BY <1>4 DEF Entries
<1> QED BY <1>8, <1>9, <1>10 DEF n

\* What a command that takes effect does to the record.
LEMMA EffectOnRecord ==
  ASSUME TypeInv, Places, NEW d \in asked, TakesEffect(d),
         NEW t \in Task, t = turn[d].task
  PROVE  \/ UNCHANGED record
         \/ \E what \in Kinds :
              /\ at[d] = IF what = "audit" THEN "auditing" ELSE "publishing"
              /\ UNCHANGED status
              /\ \A w \in Kinds, u \in Task :
                   w # what \/ u # t => Entries(w, u)' = Entries(w, u)
              /\ Entries(what, t)' = Entries(what, t) \cup {Len(record[VenueOf[t]]) + 1}
              /\ \A w \in Kinds : \A i \in Entries(w, t) : i < Len(record[VenueOf[t]]) + 1
<1>1. d \in Venue /\ t # None /\ VenueTypes
  BY SenderFacts, DirectionAssumption DEF TypeInv
<1>2. VenueOf[t] = d
  BY <1>1 DEF Places
<1>3. CASE /\ at[d] = "auditing" /\ UNCHANGED status
           /\ record' = [record EXCEPT ![d] = Append(@, <<"audit", t>>)]
  <2> DEFINE what == "audit"
  <2>1. what \in Kinds /\ record' = [record EXCEPT ![VenueOf[t]] = Append(@, <<what, t>>)]
    BY <1>2, <1>3 DEF Kinds
  <2>2. at[d] = IF what = "audit" THEN "auditing" ELSE "publishing"
    BY <1>3
  <2> HIDE DEF what
  <2>3. /\ \A w \in Kinds, u \in Task :
             w # what \/ u # t => Entries(w, u)' = Entries(w, u)
        /\ Entries(what, t)' = Entries(what, t) \cup {Len(record[VenueOf[t]]) + 1}
        /\ \A w \in Kinds : \A i \in Entries(w, t) : i < Len(record[VenueOf[t]]) + 1
    BY <1>1, <2>1, EntriesMore
  <2> QED BY <1>3, <2>1, <2>2, <2>3
<1>4. CASE /\ at[d] = "publishing" /\ UNCHANGED status
           /\ record' = [record EXCEPT ![d] = Append(@, <<"crisis", t>>)]
  <2> DEFINE what == "crisis"
  <2>1. what \in Kinds /\ record' = [record EXCEPT ![VenueOf[t]] = Append(@, <<what, t>>)]
    BY <1>2, <1>4 DEF Kinds
  <2>2. at[d] = IF what = "audit" THEN "auditing" ELSE "publishing"
    BY <1>4
  <2> HIDE DEF what
  <2>3. /\ \A w \in Kinds, u \in Task :
             w # what \/ u # t => Entries(w, u)' = Entries(w, u)
        /\ Entries(what, t)' = Entries(what, t) \cup {Len(record[VenueOf[t]]) + 1}
        /\ \A w \in Kinds : \A i \in Entries(w, t) : i < Len(record[VenueOf[t]]) + 1
    BY <1>1, <2>1, EntriesMore
  <2> QED BY <1>4, <2>1, <2>2, <2>3
<1> QED BY <1>3, <1>4, EffectKinds

\* Steps that leave no traces.
LEMMA RecordedKept ==
  ASSUME TypeInv, Recorded, StatusKept, UNCHANGED <<record, moves, processed>>,
         \A e \in Venue : \A i \in 1..Len(inbox'[e]) :
           \E j \in 1..Len(inbox[e]) : inbox'[e][i] = inbox[e][j]
  PROVE  Recorded'
<1>1. /\ \A w, t : Entries(w, t)' = Entries(w, t)
      /\ \A t : MovesFor(t)' = MovesFor(t)
      /\ \A t : Traceless(t)' = Traceless(t)
  BY DEF Entries, MovesFor, Traceless
<1>2. \A t \in Task :
        /\ status'[t] = "none" => status[t] = "none"
        /\ status'[t] = "rejected" <=> status[t] = "rejected"
        /\ status[t] \in {"completed", "failed"} => status'[t] \in {"completed", "failed"}
  BY DEF StatusKept, Decided
<1>3. Instruction \subseteq Task /\ processed \subseteq Task
  BY DirectionAssumption DEF TypeInv, RestTypes
<1>4. \A t \in Task : Ahead(t)' => Traceless(t)'
  <2>1. \A t \in Task : Ahead(t)' => Ahead(t)
    BY <1>2 DEF Ahead
  <2> QED BY <1>1, <2>1 DEF Recorded
<1>6. \A t \in Task : status'[t] = "rejected" => MovesFor(t)' = {}
  BY <1>1, <1>2 DEF Recorded
<1>7. VerdictFirst'
  BY <1>1, <1>2, <1>3 DEF Recorded, VerdictFirst, AtMostOne
<1>8. OutcomeOnRecord'
  BY <1>1, <1>2, <1>3 DEF Recorded, OutcomeOnRecord
<1> QED BY <1>4, <1>6, <1>7, <1>8 DEF Recorded

\* The task of a DM in a turn.
LEMMA TaskInHand ==
  ASSUME TypeInv, Places, Memory, NEW d \in Venue, at[d] \notin {"waiting", "dead"}
  PROVE  /\ turn[d].task \in Task /\ turn[d].task # None /\ status[turn[d].task] # "none"
         /\ turn[d].task \notin processed /\ Remembered(d)
         /\ \A e \in Venue : \A i \in 1..Len(inbox[e]) :
              inbox[e][i] \in Task /\ inbox[e][i] # turn[d].task
         /\ \A e \in Venue : turn[e].task = turn[d].task => e = d
<1>1. turn[d].task \in Task /\ turn[d].task # None
  BY DEF TypeInv, DMTypes, Fits, Turn
<1>2. VenueOf[turn[d].task] = d /\ status[turn[d].task] # "none" /\ turn[d].task \notin processed
  BY <1>1 DEF Places
<1>3. ASSUME NEW e \in Venue, NEW i \in 1..Len(inbox[e])
      PROVE  inbox[e][i] \in Task /\ inbox[e][i] # turn[d].task
  <2>1. inbox[e] \in Seq(Task)
    BY DEF TypeInv, RestTypes
  <2>2. inbox[e][i] \in Task
    BY <2>1
  <2>3. VenueOf[inbox[e][i]] = e /\ inbox[e][i] # turn[e].task
    BY DEF Places
  <2> QED BY <1>2, <2>2, <2>3
<1>4. \A e \in Venue : turn[e].task = turn[d].task => e = d
  BY <1>1, <1>2 DEF Places
<1> QED BY <1>1, <1>2, <1>3, <1>4 DEF Memory

\* An audit or a crisis update is recorded.
LEMMA RecordedMore ==
  ASSUME TypeInv, Memory, Places, Recorded, NEW d \in Venue,
         NEW t \in Task, t = turn[d].task, NEW what \in Kinds, NEW n \in Nat,
         at[d] = IF what = "audit" THEN "auditing" ELSE "publishing",
         UNCHANGED <<status, moves, processed, inbox>>,
         \A w \in Kinds, u \in Task : w # what \/ u # t => Entries(w, u)' = Entries(w, u),
         Entries(what, t)' = Entries(what, t) \cup {n},
         \A w \in Kinds : \A i \in Entries(w, t) : i < n
  PROVE  Recorded'
<1>1. /\ status[t] # "none" /\ t \notin processed /\ Remembered(d)
      /\ \A e \in Venue : \A i \in 1..Len(inbox[e]) : inbox[e][i] \in Task /\ inbox[e][i] # t
  BY TaskInHand
<1>2. \A u : MovesFor(u)' = MovesFor(u)
  BY DEF MovesFor
<1>3. "audit" \in Kinds /\ "crisis" \in Kinds
  BY DEF Kinds
<1>4. \A u \in Task : u # t => Entries("audit", u)' = Entries("audit", u)
                               /\ Entries("crisis", u)' = Entries("crisis", u)
  BY <1>3
<1>5. Instruction \subseteq Task /\ processed \subseteq Task
  BY DirectionAssumption DEF TypeInv, RestTypes
<1>6. \A u \in Task : u # t => Traceless(u)' = Traceless(u)
  BY <1>2, <1>4 DEF Traceless
<1>7. \A u \in Task : Ahead(u)' => Traceless(u)'
  <2>1. \A u \in Task : Ahead(u)' => Ahead(u) /\ u # t
    BY <1>1 DEF Ahead
  <2> QED BY <1>6, <2>1 DEF Recorded
<1>9. \A u \in Task : status'[u] = "rejected" => MovesFor(u)' = {}
  BY <1>2 DEF Recorded
<1>10. ASSUME NEW u \in Instruction
       PROVE  /\ AtMostOne(Entries("audit", u)')
              /\ \A j \in Entries("crisis", u)' : \E i \in Entries("audit", u)' : i < j
              /\ MovesFor(u)' # {} => Entries("audit", u)' # {}
              /\ Entries("audit", u)' # {} => status'[u] \in {"completed", "failed"}
  <2>1. /\ AtMostOne(Entries("audit", u))
        /\ \A j \in Entries("crisis", u) : \E i \in Entries("audit", u) : i < j
        /\ MovesFor(u) # {} => Entries("audit", u) # {}
        /\ Entries("audit", u) # {} => status[u] \in {"completed", "failed"}
    BY DEF Recorded, VerdictFirst
  <2>2. CASE u # t
    <3>1. Entries("audit", u)' = Entries("audit", u)
          /\ Entries("crisis", u)' = Entries("crisis", u)
      BY <1>4, <1>5, <2>2
    <3> QED BY <1>2, <2>1, <3>1
  <2>3. CASE u = t /\ what = "audit"
    <3>1. status[t] \in {"completed", "failed"} /\ Entries("audit", t) = {}
      BY <1>1, <2>3 DEF Remembered
    <3>2. Entries("audit", t)' = {n} /\ Entries("crisis", t)' = Entries("crisis", t)
      BY <1>3, <2>3, <3>1
    <3>3. Entries("crisis", t) = {}
      BY <2>1, <2>3, <3>1
    <3> QED BY <2>3, <3>1, <3>2, <3>3 DEF AtMostOne
  <2>4. CASE u = t /\ what # "audit"
    <3>1. what = "crisis" /\ at[d] = "publishing"
      BY <2>4 DEF Kinds
    <3>2. Entries("audit", t) # {}
      BY <1>1, <2>4, <3>1 DEF Remembered, Ready
    <3>3. Entries("audit", t)' = Entries("audit", t)
          /\ Entries("crisis", t)' = Entries("crisis", t) \cup {n}
          /\ \A i \in Entries("audit", t) : i < n
      BY <1>3, <3>1
    <3> QED BY <1>2, <2>1, <2>4, <3>2, <3>3
  <2> QED BY <2>2, <2>3, <2>4
<1>11. VerdictFirst'
  BY <1>10 DEF VerdictFirst
<1>12. OutcomeOnRecord'
  BY <1>1, <1>2, <1>4, <1>5 DEF Recorded, OutcomeOnRecord
<1> QED BY <1>7, <1>9, <1>11, <1>12 DEF Recorded

\* A command takes effect.
LEMMA RecordedEffect ==
  ASSUME TypeInv, Memory, Places, Recorded, NEW d \in asked, TakesEffect(d),
         UNCHANGED <<moves, processed, inbox>>
  PROVE  Recorded'
<1>1. d \in Venue /\ turn[d].task \in Task /\ VenueTypes
  BY SenderFacts DEF TypeInv
<1>2. CASE UNCHANGED record
  BY <1>2, EffectOnTask, RecordedKept
<1>3. CASE ~UNCHANGED record
  <2>1. PICK t \in Task : t = turn[d].task
    BY <1>1
  <2>2. PICK what \in Kinds :
              /\ at[d] = IF what = "audit" THEN "auditing" ELSE "publishing"
              /\ UNCHANGED status
              /\ \A w \in Kinds, u \in Task :
                   w # what \/ u # t => Entries(w, u)' = Entries(w, u)
              /\ Entries(what, t)' = Entries(what, t) \cup {Len(record[VenueOf[t]]) + 1}
              /\ \A w \in Kinds : \A i \in Entries(w, t) : i < Len(record[VenueOf[t]]) + 1
    BY <1>3, <2>1, EffectOnRecord
  <2>3. Len(record[VenueOf[t]]) + 1 \in Nat
    <3>1. record[VenueOf[t]] \in Seq({"audit", "crisis"} \X Task)
      BY <1>1, DirectionAssumption DEF VenueTypes
    <3> QED BY <3>1
  <2> QED BY <1>1, <2>1, <2>2, <2>3, RecordedMore
<1> QED BY <1>2, <1>3

\* A venue fails, with the command in hand done or not.
LEMMA RecordedShut ==
  ASSUME TypeInv, Memory, Places, Recorded, NEW v \in Venue, Shut(v),
         UNCHANGED <<clockVars, inbox, processed>>
  PROVE  Recorded'
<1>1. CASE UNCHANGED <<status, record, told>>
  BY <1>1, RecordedKept DEF StatusKept, clockVars
<1>2. CASE \E d \in Senders(v) : TakesEffect(d)
  BY <1>2, RecordedEffect DEF Senders, clockVars
<1> QED BY <1>1, <1>2 DEF Shut

\* The clock is moved for a task.
LEMMA RecordedMoved ==
  ASSUME TypeInv, Memory, Places, Recorded, NEW d \in Venue, at[d] = "moving",
         NEW t \in Task, t = turn[d].task, NEW minutes, NEW time,
         moves' = Append(moves, [task |-> t, minutes |-> minutes, time |-> time]),
         UNCHANGED <<status, record, processed, inbox>>
  PROVE  Recorded'
<1>1. /\ status[t] # "none" /\ t \notin processed /\ Remembered(d)
      /\ \A e \in Venue : \A i \in 1..Len(inbox[e]) : inbox[e][i] \in Task /\ inbox[e][i] # t
  BY TaskInHand
<1>2. \A w, u : Entries(w, u)' = Entries(w, u)
  BY DEF Entries
<1>3. Instruction \subseteq Task /\ processed \subseteq Task /\ moves \in Seq(Move)
  BY DirectionAssumption DEF TypeInv, RestTypes, ClockTypes
<1>4. ASSUME NEW u \in Task, u # t
      PROVE  MovesFor(u)' = MovesFor(u)
  <2> DEFINE m == [task |-> t, minutes |-> minutes, time |-> time]
             n == Len(moves) + 1
  <2>1. m.task = t
    OBVIOUS
  <2>2. moves' = Append(moves, m)
    OBVIOUS
  <2> HIDE DEF m
  <2>3. /\ Len(moves') = n /\ moves'[n] = m
        /\ \A i \in 1..Len(moves) : moves'[i] = moves[i]
        /\ \A i : i \in 1..n <=> i \in 1..Len(moves) \/ i = n
    BY <1>3, <2>2
  <2> HIDE DEF n
  <2> QED BY <1>4, <2>1, <2>3 DEF MovesFor
<1>5. \A u \in Task : u # t => Traceless(u)' = Traceless(u)
  BY <1>2, <1>4 DEF Traceless
<1>6. \A u \in Task : Ahead(u)' => Traceless(u)'
  <2>1. \A u \in Task : Ahead(u)' => Ahead(u) /\ u # t
    BY <1>1 DEF Ahead
  <2> QED BY <1>5, <2>1 DEF Recorded
<1>8. \A u \in Task : status'[u] = "rejected" => MovesFor(u)' = {}
  <2>1. status[t] # "rejected"
    BY <1>1 DEF Remembered
  <2> QED BY <1>4, <2>1 DEF Recorded
<1>9. t \in Instruction => Entries("audit", t) # {}
  BY <1>1 DEF Remembered, Ready
<1>10. VerdictFirst'
  <2>1. SUFFICES ASSUME NEW u \in Instruction
                 PROVE  /\ AtMostOne(Entries("audit", u)')
                        /\ \A j \in Entries("crisis", u)' :
                             \E i \in Entries("audit", u)' : i < j
                        /\ MovesFor(u)' # {} => Entries("audit", u)' # {}
                        /\ Entries("audit", u)' # {} => status'[u] \in {"completed", "failed"}
    BY DEF VerdictFirst
  <2>2. /\ AtMostOne(Entries("audit", u))
        /\ \A j \in Entries("crisis", u) : \E i \in Entries("audit", u) : i < j
        /\ MovesFor(u) # {} => Entries("audit", u) # {}
        /\ Entries("audit", u) # {} => status[u] \in {"completed", "failed"}
    BY DEF Recorded, VerdictFirst
  <2>3. MovesFor(u)' # {} => Entries("audit", u)' # {}
    BY <1>2, <1>3, <1>4, <1>9, <2>2
  <2> QED BY <1>2, <2>2, <2>3
<1>11. OutcomeOnRecord'
  BY <1>1, <1>2, <1>3, <1>4 DEF Recorded, OutcomeOnRecord
<1> QED BY <1>6, <1>8, <1>10, <1>11 DEF Recorded

\* Tasks leave their traces in order.
LEMMA RecordedStep ==
  ASSUME TypeInv, Memory, Places, Recorded, [Next]_vars
  PROVE  Recorded'
<1>1. CASE UNCHANGED vars
  <2>1. UNCHANGED <<status, record, moves, processed, inbox>>
    BY <1>1 DEF vars, venueVars, clockVars
  <2> QED BY <2>1, RecordedKept DEF StatusKept
<1>2. ASSUME NEW t \in Task, Arrive(t)
      PROVE  Recorded'
  <2>1. PICK s \in IF t \in Instruction THEN {"pending"} ELSE {"accepted", "rejected"} :
          status' = [status EXCEPT ![t] = s]
    BY <1>2 DEF Arrive
  <2>2. /\ status[t] = "none" /\ UNCHANGED <<record, moves, processed>> /\ VenueOf[t] \in Venue
        /\ inbox' = [inbox EXCEPT ![VenueOf[t]] = IF stopping THEN @ ELSE Append(@, t)]
    BY <1>2, DirectionAssumption DEF Arrive, clockVars
  <2>3. /\ status'[t] = s /\ \A u \in Task : u # t => status'[u] = status[u]
    BY <2>1 DEF TypeInv, VenueTypes
  <2>4. Traceless(t) /\ t \notin processed
    BY <2>2 DEF Recorded, Places, Ahead
  <2>5. /\ \A w, u : Entries(w, u)' = Entries(w, u)
        /\ \A u : MovesFor(u)' = MovesFor(u)
        /\ \A u : Traceless(u)' = Traceless(u)
    BY <2>2 DEF Entries, MovesFor, Traceless
  <2>6. \A u \in Task : Ahead(u)' => Ahead(u) \/ u = t
    <3>1. SUFFICES ASSUME NEW u \in Task, NEW e \in Venue, NEW i \in 1..Len(inbox'[e]),
                          inbox'[e][i] = u, u # t
                   PROVE  \E j \in 1..Len(inbox[e]) : inbox[e][j] = u
      BY <2>3 DEF Ahead
    <3>2. inbox \in [Venue -> Seq(Task)] /\ inbox[e] \in Seq(Task)
      BY DEF TypeInv, RestTypes
    <3>3. inbox'[e] = inbox[e] \/ inbox'[e] = Append(inbox[e], t)
      BY <2>2, <3>2
    <3> QED BY <3>1, <3>2, <3>3
  <2>7. \A u \in Task : Ahead(u)' => Traceless(u)'
    BY <2>4, <2>5, <2>6 DEF Recorded
  <2>8. \A u \in Task : status'[u] = "rejected" => MovesFor(u)' = {}
    BY <2>3, <2>4, <2>5 DEF Recorded, Traceless
  <2>9. Instruction \subseteq Task /\ processed \subseteq Task
    BY DirectionAssumption DEF TypeInv, RestTypes
  <2>10. VerdictFirst'
    <3>1. \A u \in Instruction : Entries("audit", u) # {} => status'[u] = status[u]
      BY <2>3, <2>4, <2>9 DEF Traceless
    <3> QED BY <2>5, <3>1 DEF Recorded, VerdictFirst, AtMostOne
  <2>11. OutcomeOnRecord'
    <3>1. \A u \in processed : status'[u] = status[u]
      BY <2>3, <2>4, <2>9
    <3> QED BY <2>2, <2>5, <3>1 DEF Recorded, OutcomeOnRecord
  <2> QED BY <2>7, <2>8, <2>10, <2>11 DEF Recorded
<1>3. ASSUME NEW d \in Venue, DecisionMade(d)
      PROVE  Recorded'
  BY <1>3, RecordedEffect DEF DecisionMade, clockVars
<1>4. ASSUME NEW d \in Venue, AuditMade(d)
      PROVE  Recorded'
  BY <1>4, RecordedEffect DEF AuditMade, clockVars
<1>5. ASSUME NEW d \in Venue, CrisisMade(d)
      PROVE  Recorded'
  BY <1>5, RecordedEffect DEF CrisisMade, clockVars
<1>6. ASSUME NEW d \in Venue, DueEventMade(d)
      PROVE  Recorded'
  BY <1>6, RecordedEffect DEF DueEventMade, clockVars
<1>7. ASSUME NEW d \in Venue, TakeUp(d)
      PROVE  Recorded'
  <2>1. /\ UNCHANGED <<status, record, moves, processed>> /\ inbox[d] # <<>>
        /\ inbox' = [inbox EXCEPT ![d] = Tail(@)]
    BY <1>7 DEF TakeUp, venueVars, clockVars
  <2>2. inbox \in [Venue -> Seq(Task)] /\ inbox[d] \in Seq(Task)
    BY DEF TypeInv, RestTypes
  <2>3. /\ \A e \in Venue : e # d => inbox'[e] = inbox[e]
        /\ \A i \in 1..Len(inbox'[d]) : /\ inbox'[d][i] = inbox[d][i + 1]
                                        /\ i + 1 \in 1..Len(inbox[d])
    BY <2>1, <2>2
  <2>4. \A e \in Venue : \A i \in 1..Len(inbox'[e]) :
          \E j \in 1..Len(inbox[e]) : inbox'[e][i] = inbox[e][j]
    BY <2>3
  <2> QED BY <2>1, <2>4, RecordedKept DEF StatusKept
<1>8. ASSUME NEW d \in Venue, EndTurn(d)
      PROVE  Recorded'
  <2>1. at[d] = "turn" /\ UNCHANGED <<status, record, moves, inbox>>
    BY <1>8 DEF EndTurn, venueVars, clockVars
  <2>2. CASE UNCHANGED processed
    BY <2>1, <2>2, RecordedKept DEF StatusKept
  <2>3. CASE ~UNCHANGED processed
    <3>1. PICK t \in Task : t = turn[d].task
      BY <2>1, TaskInHand
    <3>2. Finished(d) /\ processed' = processed \cup {t}
      BY <1>8, <2>3, <3>1 DEF EndTurn
    <3>3. Remembered(d) /\ status[t] # "none"
      BY <2>1, <3>1, TaskInHand
    <3>4. t \in Instruction => Entries("audit", t) # {}
      BY <3>1, <3>2, <3>3 DEF Finished, Remembered
    <3>5. status[t] # "rejected" => Entries("crisis", t) # {}
      <4>1. t \in Instruction \/ status[t] = "accepted" => Entries("crisis", t) # {}
        BY <3>1, <3>2, <3>3 DEF Finished, Remembered
      <4>2. t \notin Instruction => status[t] \in {"accepted", "rejected"}
        BY <3>3 DEF Places
      <4> QED BY <4>1, <4>2
    <3>6. /\ \A w, u : Entries(w, u)' = Entries(w, u)
          /\ \A u : MovesFor(u)' = MovesFor(u)
          /\ \A u : Traceless(u)' = Traceless(u)
      BY <2>1 DEF Entries, MovesFor, Traceless
    <3>7. OutcomeOnRecord'
      BY <2>1, <3>2, <3>4, <3>5, <3>6 DEF Recorded, OutcomeOnRecord
    <3>8. VerdictFirst'
      BY <2>1, <3>6 DEF Recorded, VerdictFirst, AtMostOne
    <3>9. \A u \in Task : Ahead(u)' => Ahead(u)
      BY <2>1 DEF Ahead
    <3> QED BY <2>1, <3>6, <3>7, <3>8, <3>9 DEF Recorded
  <2> QED BY <2>2, <2>3
<1>9. ASSUME NEW d \in Venue, Leave(d)
      PROVE  Recorded'
  <2>1. UNCHANGED <<status, record, moves, processed, inbox>>
    BY <1>9 DEF Leave, venueVars, clockVars
  <2> QED BY <2>1, RecordedKept DEF StatusKept
<1>10. ASSUME NEW d \in Venue, Ask(d)
      PROVE  Recorded'
  <2>1. UNCHANGED <<status, record, moves, processed, inbox>>
    BY <1>10 DEF Ask, venueVars, clockVars
  <2> QED BY <2>1, RecordedKept DEF StatusKept
<1>11. ASSUME NEW d \in Venue, Refused(d)
      PROVE  Recorded'
  <2>1. UNCHANGED <<status, record, moves, processed, inbox>>
    BY <1>11 DEF Refused, venueVars, clockVars
  <2> QED BY <2>1, RecordedKept DEF StatusKept
<1>12. ASSUME NEW d \in Venue, TimePass(d)
      PROVE  Recorded'
  <2>1. UNCHANGED <<status, record, moves, processed, inbox>>
    BY <1>12 DEF TimePass, venueVars, clockVars
  <2> QED BY <2>1, RecordedKept DEF StatusKept
<1>13. ASSUME NEW d \in Venue, UpdateTime(d)
      PROVE  Recorded'
  <2> DEFINE time == turn[d].base + turn[d].minutes
  <2>1. at[d] = "moving" /\ UNCHANGED <<status, record, processed, inbox>>
    BY <1>13 DEF UpdateTime, venueVars
  <2>2. CASE UNCHANGED clockVars
    BY <2>1, <2>2, RecordedKept DEF StatusKept, clockVars
  <2>3. CASE moves' = Append(moves, [task |-> turn[d].task, minutes |-> turn[d].minutes,
                                     time |-> time])
    <3>1. PICK t \in Task : t = turn[d].task
      BY <2>1, TaskInHand
    <3>2. moves' = Append(moves, [task |-> t, minutes |-> turn[d].minutes, time |-> time])
      BY <2>3, <3>1
    <3> HIDE DEF time
    <3> QED BY <2>1, <3>1, <3>2, RecordedMoved
  <2> QED BY <1>13, <2>2, <2>3, UpdateTimeShape
<1>14. ASSUME NEW d \in Venue, Adjudicate(d)
      PROVE  Recorded'
  <2>1. UNCHANGED <<status, record, moves, processed, inbox>>
    BY <1>14 DEF Adjudicate, venueVars, clockVars
  <2> QED BY <2>1, RecordedKept DEF StatusKept
<1>15. ASSUME NEW d \in Venue, Publish(d)
      PROVE  Recorded'
  <2>1. UNCHANGED <<status, record, moves, processed, inbox>>
    BY <1>15 DEF Publish, venueVars, clockVars
  <2> QED BY <2>1, RecordedKept DEF StatusKept
<1>16. ASSUME NEW d \in Venue, Advance(d)
      PROVE  Recorded'
  <2>1. UNCHANGED <<status, record, moves, processed, inbox>>
    BY <1>16 DEF Advance, venueVars, clockVars
  <2> QED BY <2>1, RecordedKept DEF StatusKept
<1>17. ASSUME NEW d \in Venue, LLMFails(d)
      PROVE  Recorded'
  <2>1. UNCHANGED <<status, record, moves, processed, inbox>>
    BY <1>17 DEF LLMFails, venueVars, clockVars
  <2> QED BY <2>1, RecordedKept DEF StatusKept
<1>18. ASSUME NEW d \in Venue, CommandTimesOut(d)
      PROVE  Recorded'
  <2>1. PICK v \in Venue : \E Back \in SUBSET Senders(v) :
          Shut(v) /\ UNCHANGED <<clockVars, inbox, processed>>
    BY <1>18, Failures
  <2> QED BY <2>1, RecordedShut
<1>19. ASSUME NEW v \in Venue, EngineFails(v)
      PROVE  Recorded'
  <2>1. Shut(v) /\ UNCHANGED <<clockVars, inbox, processed>>
    BY <1>19 DEF EngineFails
  <2> QED BY <2>1, RecordedShut
<1>20. ASSUME NEW v \in Venue, StopVenue(v)
      PROVE  Recorded'
  <2>1. UNCHANGED <<status, record, moves, processed, inbox>>
    BY <1>20 DEF StopVenue, venueVars, clockVars
  <2> QED BY <2>1, RecordedKept DEF StatusKept
<1>21. ASSUME RequestStop
      PROVE  Recorded'
  <2>1. UNCHANGED <<status, record, moves, processed, inbox>>
    BY <1>21 DEF RequestStop, venueVars, clockVars
  <2> QED BY <2>1, RecordedKept DEF StatusKept
<1> QED BY <1>1, <1>2, <1>3, <1>4, <1>5, <1>6, <1>7, <1>8, <1>9, <1>10, <1>11, <1>12,
           <1>13, <1>14, <1>15, <1>16, <1>17, <1>18, <1>19, <1>20, <1>21
       DEF Next, EngineStep, DMStep, ToolCall

-----------------------------------------------------------------------------
(* What the DMs remember.                                                  *)

\* Nothing happens to a task, and nothing that it has left is gone.
Same(t) ==
  /\ status'[t] = status[t]
  /\ Entries("audit", t)' = Entries("audit", t)
  /\ Entries("crisis", t)' = Entries("crisis", t)

More(t) ==
  /\ Entries("audit", t) # {} => Entries("audit", t)' # {}
  /\ Entries("crisis", t) # {} => Entries("crisis", t)' # {}

\* Steps that record nothing.
LEMMA NothingRecorded ==
  ASSUME UNCHANGED <<status, record>>
  PROVE  \A t \in Task : Same(t) /\ More(t)
BY DEF Same, More, Entries

\* A command is about one task.
LEMMA EffectElsewhere ==
  ASSUME TypeInv, Memory, Places, NEW d \in asked, TakesEffect(d)
  PROVE  \A u \in Task : More(u) /\ (u # turn[d].task => Same(u))
<1>1. PICK t \in Task : t = turn[d].task
  BY SenderFacts
<1>2. \A u \in Task : u # t => status'[u] = status[u]
  BY <1>1, EffectOnTask
<1>3. CASE UNCHANGED record
  BY <1>1, <1>2, <1>3 DEF Same, More, Entries
<1>4. CASE ~UNCHANGED record
  <2>1. PICK what \in Kinds :
              /\ at[d] = IF what = "audit" THEN "auditing" ELSE "publishing"
              /\ UNCHANGED status
              /\ \A w \in Kinds, u \in Task :
                   w # what \/ u # t => Entries(w, u)' = Entries(w, u)
              /\ Entries(what, t)' = Entries(what, t) \cup {Len(record[VenueOf[t]]) + 1}
              /\ \A w \in Kinds : \A i \in Entries(w, t) : i < Len(record[VenueOf[t]]) + 1
    BY <1>1, <1>4, EffectOnRecord
  <2>2. "audit" \in Kinds /\ "crisis" \in Kinds
    BY DEF Kinds
  <2>3. \A w \in Kinds, u \in Task : Entries(w, u) # {} => Entries(w, u)' # {}
    BY <2>1
  <2> QED BY <1>1, <1>2, <2>1, <2>2, <2>3 DEF Same, More
<1> QED BY <1>3, <1>4

\* A DM that does nothing, about whose task nothing happens.
LEMMA StillRemembered ==
  ASSUME NEW e \in Venue, Remembered(e), NEW t \in Task, t = turn[e].task, Same(t),
         turn'[e] = turn[e], at'[e] = at[e]
  PROVE  Remembered(e)'
<1>1. turn'[e].task = t
  OBVIOUS
<1>2. Ready(e)' <=> Ready(e)
  BY <1>1 DEF Ready
<1> QED BY <1>1, <1>2 DEF Remembered, Same

\* A call that is over, or has nothing left to do but deliveries.
LEMMA AgainRemembered ==
  ASSUME NEW e \in Venue, Remembered(e), NEW t \in Task, t = turn[e].task, More(t),
         turn'[e].task = turn[e].task, turn'[e].adjudicated = turn[e].adjudicated,
         turn'[e].published = turn[e].published, at'[e] \in {"turn", "delivering"}
  PROVE  Remembered(e)'
<1>1. turn'[e].task = t
  OBVIOUS
<1> QED BY <1>1 DEF Remembered, More

\* A step of one DM.
LEMMA MemoryKept ==
  ASSUME TypeInv, Memory, Places, NEW d \in Venue,
         \A e \in Venue : e # d => at'[e] = at[e] /\ turn'[e] = turn[e],
         \A t \in Task : t # turn[d].task => Same(t),
         turn'[d].task # None => Remembered(d)'
  PROVE  Memory'
<1>1. ASSUME NEW e \in Venue, e # d, turn'[e].task # None
      PROVE  Remembered(e)'
  <2>1. turn[e].task \in Task /\ turn'[e] = turn[e] /\ at'[e] = at[e] /\ turn[e].task # None
    BY <1>1 DEF TypeInv, DMTypes, Turn
  <2>2. PICK t \in Task : t = turn[e].task
    BY <2>1
  <2>3. t # turn[d].task
    <3>1. VenueOf[t] = e
      BY <2>1, <2>2 DEF Places
    <3>2. turn[d].task # None => VenueOf[turn[d].task] = d
      BY DEF Places
    <3> QED BY <1>1, <2>1, <2>2, <3>1, <3>2
  <2>4. Remembered(e)
    BY <2>1 DEF Memory
  <2> QED BY <2>1, <2>2, <2>3, <2>4, StillRemembered
<1> QED BY <1>1 DEF Memory

\* A venue fails: its senders have stopped or are back in their turns.
LEMMA MemoryShut ==
  ASSUME TypeInv, Memory, Places, NEW v \in Venue, NEW Back \in SUBSET Senders(v),
         Shut(v), Give(Senders(v) \ Back, Back)
  PROVE  Memory'
<1>1. ASSUME NEW e \in Venue, turn'[e].task # None
      PROVE  Remembered(e)'
  <2>1. \/ /\ at'[e] = "turn" /\ e \in Senders(v)
           /\ turn'[e].task = turn[e].task
           /\ turn'[e].adjudicated = turn[e].adjudicated
           /\ turn'[e].published = turn[e].published
        \/ at'[e] = at[e] /\ turn'[e] = turn[e] /\ e \notin Senders(v)
    BY <1>1, FailureShape, NoTurnFields
  <2>2. turn[e].task \in Task /\ turn[e].task # None
    BY <1>1, <2>1 DEF TypeInv, DMTypes, Turn
  <2>3. PICK t \in Task : t = turn[e].task
    BY <2>2
  <2>4. Remembered(e)
    BY <2>2 DEF Memory
  <2>5. \A u \in Task : More(u)
    BY EffectElsewhere, NothingRecorded DEF Shut, Senders
  <2>6. e \notin Senders(v) => Same(t)
    <3>1. CASE UNCHANGED <<status, record, told>>
      BY <3>1, NothingRecorded
    <3>2. ASSUME NEW d \in Senders(v), TakesEffect(d), e \notin Senders(v)
          PROVE  Same(t)
      <4>1. d \in asked /\ d \in Venue /\ turn[d].task \in Task
        BY SenderFacts DEF Senders
      <4>2. turn[d].task # None /\ d # e
        BY <3>2, <4>1, DirectionAssumption
      <4>3. turn[d].task # t
        BY <2>2, <2>3, <4>1, <4>2 DEF Places
      <4> QED BY <3>2, <4>1, <4>3, EffectElsewhere
    <3> QED BY <3>1, <3>2 DEF Shut
  <2> QED BY <2>1, <2>3, <2>4, <2>5, <2>6, AgainRemembered, StillRemembered
<1> QED BY <1>1 DEF Memory

\* What DMs remember stays true.
LEMMA MemoryStep ==
  ASSUME TypeInv, Memory, Places, Recorded, [Next]_vars
  PROVE  Memory'
<1>1. CASE UNCHANGED vars
  BY <1>1 DEF vars, venueVars, Memory, Remembered, Ready, Entries
<1>2. ASSUME NEW t \in Task, Arrive(t)
      PROVE  Memory'
  <2>1. /\ status[t] = "none" /\ UNCHANGED <<record, at, turn>>
        /\ \A u \in Task : u # t => status'[u] = status[u]
    BY <1>2 DEF Arrive, TypeInv, VenueTypes
  <2>2. ASSUME NEW e \in Venue, turn'[e].task # None
        PROVE  Remembered(e)'
    <3>1. turn[e].task \in Task /\ turn[e].task # None /\ status[turn[e].task] # "none"
      BY <2>1, <2>2 DEF TypeInv, DMTypes, Turn, Places
    <3>2. PICK u \in Task : u = turn[e].task
      BY <3>1
    <3>3. Same(u)
      BY <2>1, <3>1, <3>2 DEF Same, Entries
    <3>4. Remembered(e)
      BY <3>1 DEF Memory
    <3> QED BY <2>1, <3>2, <3>3, <3>4, StillRemembered
  <2> QED BY <2>2 DEF Memory
<1>3. ASSUME NEW d \in Venue, DecisionMade(d)
      PROVE  Memory'
  <2>1. Stays(d, "auditing")
    BY <1>3, Shapes
  <2>2. \A u \in Task : More(u) /\ (u # turn[d].task => Same(u))
    BY <1>3, EffectElsewhere DEF DecisionMade
  <2>3. at[d] \notin {"waiting", "dead"}
    BY <1>3 DEF DecisionMade, InTurn
  <2>4. PICK t \in Task : t = turn[d].task /\ t = turn'[d].task
    BY <2>1, <2>3, TaskInHand DEF Stays, Goes
  <2>5. Remembered(d) /\ status[t] # "none"
    BY <2>3, <2>4, TaskInHand
  <2>8. /\ at[d] = "deciding" /\ UNCHANGED record
        /\ status' = [status EXCEPT ![turn[d].task] = turn[d].verdict]
    BY <1>3, EffectKinds DEF DecisionMade
  <2>9. status'[t] \in {"completed", "failed"}
    <3>1. turn[d].verdict \in {"completed", "failed"}
      BY <1>3, <2>8 DEF TypeInv, DMTypes, Fits
    <3> QED BY <2>4, <2>8, <3>1 DEF TypeInv, VenueTypes
  <2>10. t \in Instruction /\ Entries("audit", t)' = {}
    <3>1. t \in Instruction /\ status[t] = "pending"
      BY <2>4, <2>5, <2>8 DEF Remembered
    <3>2. Entries("audit", t) = {}
      BY <3>1 DEF Recorded, VerdictFirst
    <3> QED BY <2>8, <3>1, <3>2 DEF Entries
  <2>6. Remembered(d)'
    BY <2>1, <2>2, <2>4, <2>5, <2>9, <2>10 DEF Stays, Goes, Remembered, More
  <2>7. \A e \in Venue : e # d => at'[e] = at[e] /\ turn'[e] = turn[e]
    BY <2>1 DEF Stays, Goes
  <2> QED BY <2>2, <2>4, <2>6, <2>7, MemoryKept
<1>4. ASSUME NEW d \in Venue, AuditMade(d)
      PROVE  Memory'
  <2>1. Goes(d, "turn", turn[d].task, turn[d].left, TRUE, turn[d].published)
    BY <1>4, Shapes
  <2>2. \A u \in Task : More(u) /\ (u # turn[d].task => Same(u))
    BY <1>4, EffectElsewhere DEF AuditMade
  <2>3. at[d] \notin {"waiting", "dead"}
    BY <1>4 DEF AuditMade, InTurn
  <2>4. PICK t \in Task : t = turn[d].task /\ t = turn'[d].task
    BY <2>1, <2>3, TaskInHand DEF Stays, Goes
  <2>5. Remembered(d) /\ status[t] # "none"
    BY <2>3, <2>4, TaskInHand
  <2>8. at[d] = "auditing" /\ ~UNCHANGED record
    <3>1. at[d] = "auditing" /\ record' = [record EXCEPT ![d] = Append(@, <<"audit", turn[d].task>>)]
      BY <1>4, EffectKinds DEF AuditMade
    <3>2. record \in [Venue -> Seq({"audit", "crisis"} \X Task)]
      BY DEF TypeInv, VenueTypes
    <3>3. record'[d] = Append(record[d], <<"audit", turn[d].task>>) /\ Len(record[d]) \in Nat
      BY <3>1, <3>2
    <3>4. Len(record'[d]) = Len(record[d]) + 1
      BY <3>2, <3>3
    <3> QED BY <3>1, <3>3, <3>4
  <2>9. Entries("audit", t)' # {}
    <3>1. d \in asked /\ TakesEffect(d)
      BY <1>4 DEF AuditMade
    <3> QED BY <2>4, <2>8, <3>1, EffectOnRecord
  <2>10. t \in Instruction
    BY <2>4, <2>5, <2>8 DEF Remembered
  <2>6. Remembered(d)'
    BY <2>1, <2>2, <2>4, <2>5, <2>9, <2>10 DEF Goes, Remembered, More
  <2>7. \A e \in Venue : e # d => at'[e] = at[e] /\ turn'[e] = turn[e]
    BY <2>1 DEF Stays, Goes
  <2> QED BY <2>2, <2>4, <2>6, <2>7, MemoryKept
<1>5. ASSUME NEW d \in Venue, CrisisMade(d)
      PROVE  Memory'
  <2>1. Goes(d, "turn", turn[d].task, turn[d].left, turn[d].adjudicated,
                  turn[d].published + 1)
    BY <1>5, Shapes
  <2>2. \A u \in Task : More(u) /\ (u # turn[d].task => Same(u))
    BY <1>5, EffectElsewhere DEF CrisisMade
  <2>3. at[d] \notin {"waiting", "dead"}
    BY <1>5 DEF CrisisMade, InTurn
  <2>4. PICK t \in Task : t = turn[d].task /\ t = turn'[d].task
    BY <2>1, <2>3, TaskInHand DEF Stays, Goes
  <2>5. Remembered(d) /\ status[t] # "none"
    BY <2>3, <2>4, TaskInHand
  <2>8. at[d] = "publishing" /\ ~UNCHANGED record
    <3>1. at[d] = "publishing" /\ record' = [record EXCEPT ![d] = Append(@, <<"crisis", turn[d].task>>)]
      BY <1>5, EffectKinds DEF CrisisMade
    <3>2. record \in [Venue -> Seq({"audit", "crisis"} \X Task)]
      BY DEF TypeInv, VenueTypes
    <3>3. record'[d] = Append(record[d], <<"crisis", turn[d].task>>) /\ Len(record[d]) \in Nat
      BY <3>1, <3>2
    <3>4. Len(record'[d]) = Len(record[d]) + 1
      BY <3>2, <3>3
    <3> QED BY <3>1, <3>3, <3>4
  <2>9. Entries("crisis", t)' # {}
    <3>1. d \in asked /\ TakesEffect(d)
      BY <1>5 DEF CrisisMade
    <3> QED BY <2>4, <2>8, <3>1, EffectOnRecord DEF Kinds
  <2>6. Remembered(d)'
    BY <2>1, <2>2, <2>4, <2>5, <2>9 DEF Goes, Remembered, More
  <2>7. \A e \in Venue : e # d => at'[e] = at[e] /\ turn'[e] = turn[e]
    BY <2>1 DEF Stays, Goes
  <2> QED BY <2>2, <2>4, <2>6, <2>7, MemoryKept
<1>6. ASSUME NEW d \in Venue, DueEventMade(d)
      PROVE  Memory'
  <2>1. \A u \in Task : More(u) /\ (u # turn[d].task => Same(u))
    BY <1>6, EffectElsewhere DEF DueEventMade
  <2>2. at[d] = "delivering"
    BY <1>6 DEF DueEventMade
  <2>3. PICK t \in Task : t = turn[d].task
    BY <2>2, TaskInHand
  <2>4. Remembered(d)
    BY <2>2, TaskInHand
  <2>5. /\ turn'[d].task = turn[d].task /\ turn'[d].adjudicated = turn[d].adjudicated
        /\ turn'[d].published = turn[d].published /\ at'[d] \in {"turn", "delivering"}
        /\ \A e \in Venue : e # d => at'[e] = at[e] /\ turn'[e] = turn[e]
    BY <1>6, DueEventShape DEF Goes
  <2>6. Remembered(d)'
    BY <2>1, <2>3, <2>4, <2>5, AgainRemembered
  <2> QED BY <2>1, <2>5, <2>6, MemoryKept
<1>7. ASSUME NEW d \in Venue, TakeUp(d)
      PROVE  Memory'
  <2>1. \A u \in Task : Same(u)
    BY <1>7, NothingRecorded DEF TakeUp, venueVars
  <2>2. \A e \in Venue : e # d => at'[e] = at[e] /\ turn'[e] = turn[e]
    BY <1>7, TakeUpShape DEF Stays, Goes
  <2>3. turn'[d].task # None => Remembered(d)'
    <3>1. CASE Stays(d, "dead") /\ turn[d].task = None
      BY <3>1 DEF Stays, Goes
    <3>2. CASE Goes(d, "turn", Head(inbox[d]), {}, FALSE, 0)
      <4>1. at'[d] = "turn" /\ turn'[d].adjudicated = FALSE /\ turn'[d].published = 0
        BY <3>2 DEF Goes
      <4> QED BY <4>1 DEF Remembered
    <3> QED BY <1>7, <3>1, <3>2, TakeUpShape
  <2> QED BY <2>1, <2>2, <2>3, MemoryKept
<1>8. ASSUME NEW d \in Venue, EndTurn(d)
      PROVE  Memory'
  <2>1. UNCHANGED <<status, record>>
    BY <1>8 DEF EndTurn, venueVars
  <2>2. turn'[d].task = None /\ \A e \in Venue : e # d => at'[e] = at[e] /\ turn'[e] = turn[e]
    BY <1>8, Shapes DEF Quits, Goes
  <2> QED BY <2>1, <2>2, NothingRecorded, MemoryKept
<1>9. ASSUME NEW d \in Venue, Leave(d)
      PROVE  Memory'
  <2>1. UNCHANGED <<status, record>>
    BY <1>9 DEF Leave, venueVars
  <2>2. turn'[d].task = None /\ \A e \in Venue : e # d => at'[e] = at[e] /\ turn'[e] = turn[e]
    BY <1>9, Shapes DEF Quits, Goes
  <2> QED BY <2>1, <2>2, NothingRecorded, MemoryKept
<1>10. ASSUME NEW d \in Venue, Ask(d)
      PROVE  Memory'
  BY <1>10 DEF Ask, venueVars, Memory, Remembered, Ready, Entries
<1>11. ASSUME NEW d \in Venue, Refused(d)
      PROVE  Memory'
  <2>1. UNCHANGED <<status, record>>
    BY <1>11 DEF Refused, venueVars
  <2>2. turn'[d].task = None /\ \A e \in Venue : e # d => at'[e] = at[e] /\ turn'[e] = turn[e]
    BY <1>11, Shapes DEF Quits, Goes
  <2> QED BY <2>1, <2>2, NothingRecorded, MemoryKept
<1>12. ASSUME NEW d \in Venue, TimePass(d)
      PROVE  Memory'
  <2>1. Stays(d, "moving")
    BY <1>12, Shapes
  <2>2. UNCHANGED <<status, record>> /\ \A u \in Task : Same(u) /\ More(u)
    BY <1>12, NothingRecorded DEF TimePass, venueVars
  <2>3. at[d] \notin {"waiting", "dead"}
    BY <1>12 DEF TimePass, InTurn
  <2>4. PICK t \in Task : t = turn[d].task /\ t = turn'[d].task
    BY <2>1, <2>3, TaskInHand DEF Stays, Goes
  <2>5. Remembered(d) /\ status[t] # "none"
    BY <2>3, <2>4, TaskInHand
  <2>6. Remembered(d)'
    BY <1>12, <2>1, <2>2, <2>4, <2>5 DEF TimePass, Stays, Goes, Remembered, Ready, Same
  <2>7. \A e \in Venue : e # d => at'[e] = at[e] /\ turn'[e] = turn[e]
    BY <2>1 DEF Stays, Goes
  <2> QED BY <2>2, <2>4, <2>6, <2>7, MemoryKept
<1>13. ASSUME NEW d \in Venue, UpdateTime(d)
      PROVE  Memory'
  <2>1. \A u \in Task : More(u) /\ Same(u)
    BY <1>13, NothingRecorded DEF UpdateTime, venueVars
  <2>2. at[d] = "moving"
    BY <1>13 DEF UpdateTime
  <2>3. PICK t \in Task : t = turn[d].task
    BY <2>2, TaskInHand
  <2>4. Remembered(d)
    BY <2>2, TaskInHand
  <2>5. /\ turn'[d].task = turn[d].task /\ turn'[d].adjudicated = turn[d].adjudicated
        /\ turn'[d].published = turn[d].published /\ at'[d] \in {"turn", "delivering"}
        /\ \A e \in Venue : e # d => at'[e] = at[e] /\ turn'[e] = turn[e]
    BY <1>13, UpdateTimeShape DEF Goes
  <2>6. Remembered(d)'
    BY <2>1, <2>3, <2>4, <2>5, AgainRemembered
  <2> QED BY <2>1, <2>5, <2>6, MemoryKept
<1>14. ASSUME NEW d \in Venue, Adjudicate(d)
      PROVE  Memory'
  <2>1. Stays(d, "deciding")
    BY <1>14, Shapes
  <2>2. UNCHANGED <<status, record>> /\ \A u \in Task : Same(u) /\ More(u)
    BY <1>14, NothingRecorded DEF Adjudicate, venueVars
  <2>3. at[d] \notin {"waiting", "dead"}
    BY <1>14 DEF Adjudicate, InTurn
  <2>4. PICK t \in Task : t = turn[d].task /\ t = turn'[d].task
    BY <2>1, <2>3, TaskInHand DEF Stays, Goes
  <2>5. Remembered(d) /\ status[t] # "none"
    BY <2>3, <2>4, TaskInHand
  <2>6. Remembered(d)'
    BY <1>14, <2>1, <2>2, <2>4, <2>5 DEF Adjudicate, Stays, Goes, Remembered, Same
  <2>7. \A e \in Venue : e # d => at'[e] = at[e] /\ turn'[e] = turn[e]
    BY <2>1 DEF Stays, Goes
  <2> QED BY <2>2, <2>4, <2>6, <2>7, MemoryKept
<1>15. ASSUME NEW d \in Venue, Publish(d)
      PROVE  Memory'
  <2>1. Stays(d, "publishing")
    BY <1>15, Shapes
  <2>2. UNCHANGED <<status, record>> /\ \A u \in Task : Same(u) /\ More(u)
    BY <1>15, NothingRecorded DEF Publish, venueVars
  <2>3. at[d] \notin {"waiting", "dead"}
    BY <1>15 DEF Publish, InTurn
  <2>4. PICK t \in Task : t = turn[d].task /\ t = turn'[d].task
    BY <2>1, <2>3, TaskInHand DEF Stays, Goes
  <2>5. Remembered(d) /\ status[t] # "none"
    BY <2>3, <2>4, TaskInHand
  <2>6. Remembered(d)'
    BY <1>15, <2>1, <2>2, <2>4, <2>5 DEF Publish, Stays, Goes, Remembered, Ready, Same
  <2>7. \A e \in Venue : e # d => at'[e] = at[e] /\ turn'[e] = turn[e]
    BY <2>1 DEF Stays, Goes
  <2> QED BY <2>2, <2>4, <2>6, <2>7, MemoryKept
<1>16. ASSUME NEW d \in Venue, Advance(d)
      PROVE  Memory'
  <2>1. Stays(d, "locking")
    BY <1>16, Shapes
  <2>2. UNCHANGED <<status, record>> /\ \A u \in Task : Same(u) /\ More(u)
    BY <1>16, NothingRecorded DEF Advance, venueVars
  <2>3. at[d] \notin {"waiting", "dead"}
    BY <1>16 DEF Advance, InTurn
  <2>4. PICK t \in Task : t = turn[d].task /\ t = turn'[d].task
    BY <2>1, <2>3, TaskInHand DEF Stays, Goes
  <2>5. Remembered(d) /\ status[t] # "none"
    BY <2>3, <2>4, TaskInHand
  <2>6. Remembered(d)'
    BY <1>16, <2>1, <2>2, <2>4, <2>5 DEF Advance, Stays, Goes, Remembered, Ready, Same
  <2>7. \A e \in Venue : e # d => at'[e] = at[e] /\ turn'[e] = turn[e]
    BY <2>1 DEF Stays, Goes
  <2> QED BY <2>2, <2>4, <2>6, <2>7, MemoryKept
<1>17. ASSUME NEW d \in Venue, LLMFails(d)
      PROVE  Memory'
  <2>1. UNCHANGED <<status, record>>
    BY <1>17 DEF LLMFails, venueVars
  <2>2. turn'[d].task = None /\ \A e \in Venue : e # d => at'[e] = at[e] /\ turn'[e] = turn[e]
    BY <1>17, Shapes DEF Quits, Goes
  <2> QED BY <2>1, <2>2, NothingRecorded, MemoryKept
<1>18. ASSUME NEW d \in Venue, CommandTimesOut(d)
      PROVE  Memory'
  <2>1. PICK v \in Venue : \E Back \in SUBSET Senders(v) :
          Shut(v) /\ Give(Senders(v) \ Back, Back)
    BY <1>18, Failures
  <2> QED BY <2>1, MemoryShut
<1>19. ASSUME NEW v \in Venue, EngineFails(v)
      PROVE  Memory'
  <2>1. PICK Back \in SUBSET Senders(v) :
          Shut(v) /\ Give(Senders(v) \ Back, Back)
    BY <1>19, Failures
  <2> QED BY <2>1, MemoryShut
<1>20. ASSUME NEW v \in Venue, StopVenue(v)
      PROVE  Memory'
  BY <1>20 DEF StopVenue, venueVars, Memory, Remembered, Ready, Entries
<1>21. ASSUME RequestStop
      PROVE  Memory'
  BY <1>21 DEF RequestStop, venueVars, Memory, Remembered, Ready, Entries
<1> QED BY <1>1, <1>2, <1>3, <1>4, <1>5, <1>6, <1>7, <1>8, <1>9, <1>10, <1>11, <1>12,
           <1>13, <1>14, <1>15, <1>16, <1>17, <1>18, <1>19, <1>20, <1>21
       DEF Next, EngineStep, DMStep, ToolCall

-----------------------------------------------------------------------------
(* CrisisDirection implements StoryClock.                                  *)

\* What comes first among what is left comes before none of it on the list.
LEMMA FirstIsNext ==
  ASSUME NEW left, left \subseteq PullUp \X Venue, left # {}, NEW x \in left
  PROVE  ~Story!Before(x[1], FirstOf(left)[1])
<1> DEFINE first == FirstOf(left)
<1>1. first \in left /\ first[1] \in PullUp /\ x[1] \in PullUp
  BY FirstIsLeft
<1>2. Position(Pool, first[1]) < Position(Pool, x[1]) \/ first[1] = x[1]
  BY FirstIsLeft
<1> HIDE DEF first
<1>3. SUFFICES ASSUME NEW i \in 1..Len(Pool), NEW j \in 1..Len(Pool), i < j,
                      Pool[i] = x[1], Pool[j] = first[1]
               PROVE  FALSE
  BY DEF Story!Before, first
<1>4. /\ Pool \in Seq(PullUp)
      /\ \A m, n \in 1..Len(Pool) : Pool[m] = Pool[n] => m = n
  BY DirectionAssumption DEF IsInjective
<1>5. Position(Pool, x[1]) = i /\ Position(Pool, first[1]) = j
  BY <1>3, <1>4 DEF Position
<1>6. i \in Nat /\ j \in Nat /\ Pool[i] # Pool[j]
  BY <1>3, <1>4
<1> QED BY <1>2, <1>3, <1>5, <1>6

\* One more move of the clock is on the record.
LEMMA PassedMore ==
  ASSUME moves \in Seq(Move), NEW move \in Move, moves' = Append(moves, move)
  PROVE  Passed' = Append(Passed, move.minutes)
<1>1. /\ Len(moves) \in Nat /\ Len(moves') = Len(moves) + 1
      /\ moves'[Len(moves) + 1] = move
      /\ \A i \in 1..Len(moves) : moves'[i] = moves[i] /\ moves[i] \in Move
      /\ move.minutes \in Minutes
  <2>1. /\ Len(moves) \in Nat /\ Len(moves') = Len(moves) + 1
        /\ moves'[Len(moves) + 1] = move
        /\ \A i \in 1..Len(moves) : moves'[i] = moves[i] /\ moves[i] \in Move
    OBVIOUS
  <2>2. move.minutes \in Minutes
    BY DEF Move
  <2> QED BY <2>1, <2>2
<1>2. \A i \in 1..Len(moves) : moves[i].minutes \in Minutes
  BY <1>1 DEF Move
<1>3. Passed \in Seq(Minutes) /\ Len(Passed) = Len(moves)
  BY <1>1, <1>2 DEF Passed
<1>4. Passed' \in Seq(Minutes) /\ Len(Passed') = Len(moves) + 1
  <2>1. \A i \in 1..(Len(moves) + 1) : moves'[i].minutes \in Minutes
    BY <1>1, <1>2
  <2> QED BY <1>1, <2>1 DEF Passed
<1>5. /\ Append(Passed, move.minutes) \in Seq(Minutes)
      /\ Len(Append(Passed, move.minutes)) = Len(moves) + 1
      /\ Append(Passed, move.minutes)[Len(moves) + 1] = move.minutes
      /\ \A i \in 1..Len(moves) : Append(Passed, move.minutes)[i] = Passed[i]
  BY <1>1, <1>3
<1>6. \A i \in 1..(Len(moves) + 1) : Passed'[i] = Append(Passed, move.minutes)[i]
  BY <1>1, <1>5 DEF Passed
<1> QED BY <1>4, <1>5, <1>6, SeqEqual

\* What is owed, when the deliveries of one DM are all there are.
LEMMA OwedByHolder ==
  ASSUME TypeInv, Lock, NEW d \in Venue, at[d] \in {"moving", "delivering"}
  PROVE  Owed = turn[d].left /\ turn[d].left \subseteq PullUp \X Venue
<1>1. \A e \in Venue : e # d => turn[e].left = {}
  BY HolderDelivers
<1>2. turn[d] \in Turn
  BY DEF TypeInv, DMTypes
<1>3. turn[d].left \subseteq PullUp \X Venue
  BY <1>2 DEF Turn
<1> QED BY <1>1, <1>3 DEF Owed

\* The same after a step that only this DM takes.
LEMMA OwedAfter ==
  ASSUME NEW d \in Venue, \A e \in Venue : e # d => turn[e].left = {},
         \A e \in Venue : e # d => turn'[e] = turn[e]
  PROVE  Owed' = turn'[d].left
BY DEF Owed

\* Most steps are about something else.
LEMMA StoryStays ==
  ASSUME UNCHANGED <<clock, moves, pullups, told, gate>>,
         \A e \in Venue : turn'[e].left = turn[e].left
  PROVE  UNCHANGED Story!vars
<1>1. Owed' = Owed
  BY DEF Owed
<1>2. Passed' = Passed /\ NotOpen' = NotOpen
  BY DEF Passed, NotOpen
<1> QED BY <1>1, <1>2 DEF Story!vars

\* The clock moves.
LEMMA TimePasses ==
  ASSUME TypeInv, Lock, NEW d \in Venue, UpdateTime(d)
  PROVE  \E m \in Minutes : Story!Pass(m)
<1> DEFINE m == turn[d].minutes
           time == turn[d].base + m
           move == [task |-> turn[d].task, minutes |-> m, time |-> time]
<1>1. at[d] = "moving"
  BY DEF UpdateTime
<1>2. /\ turn[d].base = clock /\ m \in Minutes /\ m \in Nat /\ clock \in Nat
      /\ turn[d].left = {} /\ turn[d].task \in Task /\ moves \in Seq(Move)
  <2>1. Fits("moving", turn[d]) /\ turn[d] \in Turn
    BY <1>1 DEF TypeInv, DMTypes
  <2>2. m \in Minutes /\ turn[d].left = {} /\ turn[d].task # None
    BY <2>1 DEF Fits
  <2>3. turn[d].task \in Task
    BY <2>1, <2>2 DEF Turn
  <2> QED BY <1>1, <2>2, <2>3, DirectionAssumption DEF Lock, TypeInv, ClockTypes
<1>3. ~(time < clock) /\ time \in Nat /\ time = clock + m
  BY <1>2
<1>4. Owed = {}
  BY <1>1, <1>2, OwedByHolder
<1>5. /\ clock' = clock + m /\ pullups' = pullups \ DueBy(time)
      /\ moves' = Append(moves, move)
      /\ turn'[d].left = IF DueBy(time) = {} THEN {} ELSE Deliveries(DueBy(time))
      /\ \A e \in Venue : e # d => turn'[e] = turn[e]
  BY <1>3, UpdateTimeShape DEF Goes
<1>6. turn'[d].left = DueBy(time) \X Venue
  BY <1>5 DEF Deliveries
<1>7. Owed' = DueBy(time) \X Venue
  BY <1>1, <1>5, <1>6, HolderDelivers, OwedAfter
<1>8. UNCHANGED <<told, gate>>
  BY DEF UpdateTime, venueVars
<1>9. NotOpen' = NotOpen
  BY <1>8 DEF NotOpen
<1>10. Passed' = Append(Passed, m)
  <2>1. move \in Move /\ move.minutes = m
    BY <1>2, <1>3 DEF Move
  <2> HIDE DEF move
  <2> QED BY <1>2, <1>5, <2>1, PassedMore
<1>11. DueBy(time) = {p \in pullups : Due[p] <= clock'}
  BY <1>3, <1>5 DEF DueBy
<1> HIDE DEF m, time, move
<1>12. Story!Pass(m)
  BY <1>4, <1>5, <1>7, <1>8, <1>9, <1>10, <1>11 DEF Story!Pass
<1> QED BY <1>2, <1>12

\* A venue is told.
LEMMA VenueIsTold ==
  ASSUME TypeInv, Lock, NEW d \in Venue, at[d] = "delivering"
  PROVE  LET x == FirstOf(turn[d].left) IN
         x[1] \in PullUp /\ x[2] \in Venue /\ x = <<x[1], x[2]>> /\ Story!IsNext(x[1], x[2])
<1> DEFINE x == FirstOf(turn[d].left)
<1>1. Owed = turn[d].left /\ turn[d].left \subseteq PullUp \X Venue /\ turn[d].left # {}
  BY OwedByHolder DEF TypeInv, DMTypes, Fits
<1>2. x \in turn[d].left /\ x[1] \in PullUp /\ x[2] \in Venue /\ x = <<x[1], x[2]>>
  BY <1>1, FirstIsLeft
<1>3. \A y \in turn[d].left : ~Story!Before(y[1], x[1])
  BY <1>1, FirstIsNext
<1> HIDE DEF x
<1>4. Story!IsNext(x[1], x[2])
  BY <1>1, <1>2, <1>3 DEF Story!IsNext
<1> QED BY <1>2, <1>4 DEF x

LEMMA EventIsTold ==
  ASSUME TypeInv, Lock, NEW d \in Venue, DueEventMade(d)
  PROVE  \E v \in Venue, p \in PullUp : Story!Tell(p, v)
<1> DEFINE x == FirstOf(turn[d].left)
<1>1. d \in asked /\ at[d] = "delivering" /\ TakesEffect(d)
  BY DEF DueEventMade
<1>2. /\ x[1] \in PullUp /\ x[2] \in Venue /\ x = <<x[1], x[2]>>
      /\ Story!IsNext(x[1], x[2])
  BY <1>1, VenueIsTold
<1>3. told' = [told EXCEPT ![x[2]] = Append(@, <<x[1], clock>>)]
  BY <1>1, EffectKinds
<1>4. turn'[d].left = turn[d].left \ {x} /\ \A e \in Venue : e # d => turn'[e] = turn[e]
  BY DueEventShape DEF Goes
<1>5. Owed' = Owed \ {<<x[1], x[2]>>}
  <2>1. Owed = turn[d].left /\ \A e \in Venue : e # d => turn[e].left = {}
    BY <1>1, OwedByHolder, HolderDelivers
  <2>2. Owed' = turn'[d].left
    BY <1>4, <2>1, OwedAfter
  <2> QED BY <1>2, <1>4, <2>1, <2>2
<1>6. UNCHANGED <<clock, moves, pullups, gate>>
  BY DEF DueEventMade, clockVars
<1>7. Passed' = Passed /\ NotOpen' = NotOpen
  BY <1>6 DEF Passed, NotOpen
<1> HIDE DEF x
<1>8. Story!Tell(x[1], x[2])
  BY <1>2, <1>3, <1>5, <1>6, <1>7 DEF Story!Tell, Story!Hears
<1> QED BY <1>2, <1>8

\* A venue fails: whoever was telling it something gives up.
LEMMA VenueIsShut ==
  ASSUME TypeInv, Lock, NEW v \in Venue, NEW Back \in SUBSET Senders(v),
         Shut(v), Give(Senders(v) \ Back, Back), UNCHANGED clockVars
  PROVE  Story!Shut(v)
<1>1. \A e \in Venue : turn'[e].left = IF e \in Senders(v) THEN {} ELSE turn[e].left
  BY FailureShape, NoTurnFields
<1>2. NotOpen' = NotOpen \cup {v}
  <2>1. gate' = [gate EXCEPT ![v] = "failed"] /\ gate \in [Venue -> {"open", "draining", "failed"}]
    BY DEF Shut, TypeInv, VenueTypes
  <2>2. gate'[v] = "failed" /\ \A w \in Venue : w # v => gate'[w] = gate[w]
    BY <2>1
  <2>3. \A w \in Venue : gate'[w] # "open" <=> gate[w] # "open" \/ w = v
    BY <2>2
  <2> QED BY <2>3 DEF NotOpen
<1>3. UNCHANGED <<clock, pullups>> /\ Passed' = Passed
  BY DEF clockVars, Passed
<1>4. CASE \E d \in Senders(v) : at[d] = "delivering"
  <2>1. PICK d \in Senders(v) : at[d] = "delivering"
    BY <1>4
  <2> DEFINE x == FirstOf(turn[d].left)
  <2>2. d \in Venue /\ d \in asked /\ Target(d) = v
    BY <2>1 DEF Senders, TypeInv, DMTypes
  <2>3. x[2] = v
    BY <2>1, <2>2 DEF Target
  <2>4. x[1] \in PullUp /\ Story!IsNext(x[1], v)
    BY <2>1, <2>2, <2>3, VenueIsTold
  <2>5. Owed' = {}
    BY <1>1, <2>1, <2>2, HolderDelivers DEF Owed
  <2>6. UNCHANGED told \/ told' = [told EXCEPT ![v] = Append(@, <<x[1], clock>>)]
    <3>1. CASE UNCHANGED told
      BY <3>1
    <3>2. CASE ~UNCHANGED told
      <4>1. PICK e \in Senders(v) : TakesEffect(e)
        BY <3>2 DEF Shut
      <4>2. e \in asked /\ e \in Venue
        BY <4>1 DEF Senders, TypeInv, DMTypes
      <4>3. /\ at[e] = "delivering"
            /\ told' = [told EXCEPT ![FirstOf(turn[e].left)[2]] =
                          Append(@, <<FirstOf(turn[e].left)[1], clock>>)]
        BY <3>2, <4>1, <4>2, EffectKinds
      <4>4. e = d
        BY <2>1, <2>2, <4>2, <4>3 DEF Lock
      <4> QED BY <2>3, <4>3, <4>4
    <3> QED BY <3>1, <3>2
  <2> HIDE DEF x
  <2> QED BY <1>2, <1>3, <2>4, <2>5, <2>6 DEF Story!Shut, Story!Hears
<1>5. CASE \A d \in Senders(v) : at[d] # "delivering"
  <2>1. \A e \in Venue : turn'[e].left = turn[e].left
    <3>1. \A e \in Senders(v) : turn[e].left = {}
      BY <1>5 DEF Senders, TypeInv, DMTypes, Fits
    <3> QED BY <1>1, <3>1
  <2>2. Owed' = Owed
    BY <2>1 DEF Owed
  <2>3. UNCHANGED told
    <3>1. \A d \in Senders(v) : TakesEffect(d) => UNCHANGED told
      BY <1>5 DEF TakesEffect
    <3> QED BY <3>1 DEF Shut
  <2> QED BY <1>2, <1>3, <2>2, <2>3 DEF Story!Shut
<1> QED BY <1>4, <1>5

\* A venue that is not open refuses what it is told.
LEMMA VenueRefuses ==
  ASSUME TypeInv, Lock, NEW d \in Venue, Refused(d)
  PROVE  UNCHANGED Story!vars \/ \E v \in Venue : Story!Shut(v)
<1>1. /\ UNCHANGED <<clock, moves, pullups, told, gate>>
      /\ turn'[d].left = {} /\ \A e \in Venue : e # d => turn'[e] = turn[e]
      /\ at[d] \in Calls /\ gate[Target(d)] # "open"
  <2>1. Quits(d, "dead")
    BY Shapes
  <2> QED BY <2>1 DEF Refused, clockVars, venueVars, Quits, Goes
<1>2. CASE at[d] # "delivering"
  <2>1. turn[d].left = {}
    BY <1>2 DEF TypeInv, DMTypes, Fits
  <2> QED BY <1>1, <2>1, StoryStays
<1>3. CASE at[d] = "delivering"
  <2> DEFINE x == FirstOf(turn[d].left)
  <2>1. x[1] \in PullUp /\ x[2] \in Venue /\ Story!IsNext(x[1], x[2])
    BY <1>3, VenueIsTold
  <2>2. gate[x[2]] # "open"
    BY <1>1, <1>3 DEF Target
  <2> HIDE DEF x
  <2>3. NotOpen' = NotOpen \cup {x[2]}
    BY <1>1, <2>1, <2>2 DEF NotOpen
  <2>4. Owed' = {}
    BY <1>1, <1>3, HolderDelivers, OwedAfter
  <2>5. Passed' = Passed
    BY <1>1 DEF Passed
  <2>6. Story!Shut(x[2])
    BY <1>1, <2>1, <2>3, <2>4, <2>5 DEF Story!Shut
  <2> QED BY <2>1, <2>6
<1> QED BY <1>2, <1>3

LEMMA VenueStops ==
  ASSUME TypeInv, NEW v \in Venue, StopVenue(v)
  PROVE  Story!Shut(v)
<1>1. UNCHANGED <<clock, moves, pullups, told, turn>>
  BY DEF StopVenue, clockVars
<1>2. Passed' = Passed /\ Owed' = Owed
  BY <1>1 DEF Passed, Owed
<1>3. NotOpen' = NotOpen \cup {v}
  <2>1. gate'[v] = "draining" /\ \A w \in Venue : w # v => gate'[w] = gate[w]
    BY DEF StopVenue, TypeInv, VenueTypes
  <2> QED BY <2>1 DEF NotOpen
<1> QED BY <1>1, <1>2, <1>3 DEF Story!Shut

\* Every step is one of StoryClock, or none.
LEMMA StepTells ==
  ASSUME TypeInv, Lock, [Next]_vars
  PROVE  [Story!Next]_(Story!vars)
<1>1. ASSUME UNCHANGED vars
      PROVE  UNCHANGED Story!vars
  BY <1>1, StoryStays DEF vars, clockVars, venueVars
<1>2. ASSUME NEW t \in Task, Arrive(t)
      PROVE  UNCHANGED Story!vars
  BY <1>2, StoryStays DEF Arrive, clockVars
<1>3. ASSUME NEW d \in Venue, DecisionMade(d) \/ AuditMade(d) \/ CrisisMade(d)
      PROVE  UNCHANGED Story!vars
  <2>1. \A e \in Venue : turn'[e].left = turn[e].left
    BY <1>3, Shapes DEF Stays, Goes
  <2>2. UNCHANGED <<clock, moves, pullups, gate>>
    BY <1>3 DEF DecisionMade, AuditMade, CrisisMade, clockVars
  <2>3. UNCHANGED told
    BY <1>3, EffectKinds DEF DecisionMade, AuditMade, CrisisMade
  <2> QED BY <2>1, <2>2, <2>3, StoryStays
<1>4. ASSUME NEW d \in Venue, TakeUp(d)
      PROVE  UNCHANGED Story!vars
  <2>1. turn[d].left = {}
    BY <1>4 DEF TakeUp, TypeInv, DMTypes, Fits
  <2>2. \A e \in Venue : turn'[e].left = turn[e].left
    BY <1>4, <2>1, TakeUpShape DEF Stays, Goes
  <2> QED BY <1>4, <2>2, StoryStays DEF TakeUp, clockVars, venueVars
<1>5. ASSUME NEW d \in Venue, EndTurn(d) \/ Leave(d) \/ LLMFails(d)
      PROVE  UNCHANGED Story!vars
  <2>1. turn[d].left = {}
    <3>1. at[d] \in {"waiting", "turn"}
      BY <1>5 DEF EndTurn, Leave, LLMFails
    <3> QED BY <3>1 DEF TypeInv, DMTypes, Fits
  <2>2. \A e \in Venue : turn'[e].left = turn[e].left
    BY <1>5, <2>1, Shapes DEF Quits, Goes
  <2>3. UNCHANGED <<clock, moves, pullups, told, gate>>
    BY <1>5 DEF EndTurn, Leave, LLMFails, clockVars, venueVars
  <2> QED BY <2>2, <2>3, StoryStays
<1>6. ASSUME NEW d \in Venue,
             Adjudicate(d) \/ Publish(d) \/ Advance(d) \/ TimePass(d)
      PROVE  UNCHANGED Story!vars
  <2>1. \A e \in Venue : turn'[e].left = turn[e].left
    BY <1>6, Shapes DEF Stays, Goes
  <2>2. UNCHANGED <<clock, moves, pullups, told, gate>>
    BY <1>6 DEF Adjudicate, Publish, Advance, TimePass, clockVars, venueVars
  <2> QED BY <2>1, <2>2, StoryStays
<1>7. ASSUME NEW d \in Venue, Ask(d)
      PROVE  UNCHANGED Story!vars
  BY <1>7, StoryStays DEF Ask, clockVars, venueVars
<1>8. ASSUME RequestStop
      PROVE  UNCHANGED Story!vars
  BY <1>8, StoryStays DEF RequestStop, clockVars, venueVars
<1>9. ASSUME NEW d \in Venue, CommandTimesOut(d)
      PROVE  \E v \in Venue : Story!Shut(v)
  BY <1>9, Failures, VenueIsShut
<1>10. ASSUME NEW v \in Venue, EngineFails(v)
       PROVE  Story!Shut(v)
  BY <1>10, Failures, VenueIsShut
<1> QED BY <1>1, <1>2, <1>3, <1>4, <1>5, <1>6, <1>7, <1>8, <1>9, <1>10,
           TimePasses, EventIsTold, VenueRefuses, VenueStops
        DEF Next, EngineStep, DMStep, ToolCall, Story!Next

-----------------------------------------------------------------------------
(* The theorems.                                                           *)

\* The inductive invariant holds at the start.
LEMMA InitIInv ==
  ASSUME Init
  PROVE  IInv
<1>1. TypeInv
  <2>1. NoTurn \in Turn
    BY DirectionAssumption DEF NoTurn, Turn
  <2>2. ClockTypes
    BY DEF Init, ClockTypes
  <2>3. VenueTypes
    BY DEF Init, VenueTypes
  <2>4. DMTypes
    BY <2>1, NoTurnFields DEF Init, DMTypes, Fits, DMPlace
  <2>5. RestTypes
    <3>1. 0 \in 0..MaxFaults
      BY DirectionAssumption
    <3>2. inbox \in [Venue -> Seq(Task)]
      BY DEF Init
    <3> QED BY <3>1, <3>2 DEF Init, RestTypes
  <2> QED BY <2>2, <2>3, <2>4, <2>5 DEF TypeInv
<1>2. Lock
  BY DEF Init, Lock
<1>3. Telling
  <2>1. \A p, v : v \in Venue => Copies(p, v) = {}
    BY DEF Init, Copies
  <2>2. \A d \in Venue : turn[d].left = {}
    BY NoTurnFields DEF Init
  <2>3. DueTogether
    BY <2>1 DEF DueTogether, AtMostOne
  <2> QED BY <2>1, <2>2, <2>3 DEF Telling, Init
<1>4. MinutesAddUp
  BY DEF Init, MinutesAddUp
<1>5. Places
  BY NoTurnFields DEF Init, Places
<1>6. Memory
  BY NoTurnFields DEF Init, Memory
<1>7. Recorded
  <2>1. \A w : \A t \in Task : Entries(w, t) = {} /\ MovesFor(t) = {}
    BY DirectionAssumption DEF Init, Entries, MovesFor
  <2>2. VerdictFirst /\ OutcomeOnRecord
    BY <2>1, DirectionAssumption DEF VerdictFirst, OutcomeOnRecord, AtMostOne, Init
  <2> QED BY <2>1, <2>2 DEF Recorded, Traceless, Init
<1> QED BY <1>1, <1>2, <1>3, <1>4, <1>5, <1>6, <1>7 DEF IInv, Traces

\* The inductive invariant holds for any venues, tasks and due events, and any number
\* of failing engines and timeouts.
THEOREM Invariance == Spec => []IInv
<1>1. Init => IInv
  BY InitIInv
<1>2. IInv /\ [Next]_vars => IInv'
  BY TypesStep, LockStep, TellingStep, MinutesStep, PlacesStep, RecordedStep, MemoryStep
     DEF IInv, Traces
<1> QED BY <1>1, <1>2, PTL DEF Spec

\* Every variable keeps its type; a DM has a task exactly while it is in a turn, and
\* waits for an answer only inside a call.
THEOREM TypeCorrect == Spec => []TypeOK
<1>1. TypeInv => TypeOK
  <2> SUFFICES ASSUME TypeInv PROVE TypeOK
    OBVIOUS
  <2>1. \A d \in Venue : (turn[d].task # None) <=> (at[d] \notin {"waiting", "dead"})
    BY DEF TypeInv, DMTypes, Fits
  <2> QED BY <2>1 DEF TypeInv, ClockTypes, VenueTypes, DMTypes, RestTypes, Move, DMPlace,
                      TypeOK
<1> QED BY <1>1, Invariance, PTL DEF IInv

\* No minutes are lost, all venues are told of a due event at the same story time, and
\* before the clock moves again, unless a venue has failed or was stopped.
THEOREM ClockKept == Spec => []TimeKept
<1>1. IInv => TimeKept
  <2> SUFFICES ASSUME IInv PROVE TimeKept
    OBVIOUS
  <2>1. DueEventsDelivered
    <3>1. SUFFICES ASSUME Undisturbed, holder = None, clock > 0,
                          NEW p \in PullUp, NEW v \in Venue, Due[p] <= clock
                   PROVE  Copies(p, v) # {}
      BY DEF DueEventsDelivered
    <3>2. p \notin pullups
      <4>1. clock \in Nat /\ Due[p] \in Nat
        BY DirectionAssumption DEF IInv, TypeInv, ClockTypes
      <4>2. p \in pullups => clock < Due[p]
        BY <3>1 DEF IInv, Telling
      <4> QED BY <3>1, <4>1, <4>2
    <3>3. \A d \in Venue : turn[d].left = {}
      <4>1. \A d \in Venue : at[d] # "delivering"
        BY <3>1, DirectionAssumption DEF IInv, Lock
      <4> QED BY <4>1 DEF IInv, TypeInv, DMTypes, Fits
    <3> QED BY <3>1, <3>2, <3>3 DEF IInv, Telling
  <2> QED BY <2>1 DEF IInv, Telling, TimeKept
<1> QED BY <1>1, Invariance, PTL

\* Decisions come before their consequences, and a task with an outcome has left its
\* traces.
THEOREM TracesKept == Spec => []VerdictsOnRecord
<1>1. IInv => VerdictsOnRecord
  BY DEF IInv, Traces, Recorded, VerdictsOnRecord
<1> QED BY <1>1, Invariance, PTL

\* The venues have the clock of StoryClock: it only passes, by what it was asked to,
\* what it passes is told to all venues, in order and at that time, before it passes
\* on, and only a venue that is shut leaves the others without (Scenario.time_pass,
\* update_time).
THEOREM ImplementsStory == Spec => StorySpec
<1>1. ASSUME Init PROVE Story!Init
  <2>1. \A d \in Venue : turn[d].left = {}
    BY <1>1, NoTurnFields DEF Init
  <2>2. Owed = {}
    BY <2>1 DEF Owed
  <2>3. Passed = <<>>
    BY <1>1 DEF Init, Passed
  <2>4. NotOpen = {}
    BY <1>1 DEF Init, NotOpen
  <2> QED BY <1>1, <2>2, <2>3, <2>4 DEF Init, Story!Init
<1>2. IInv /\ [Next]_vars => [Story!Next]_(Story!vars)
  BY StepTells DEF IInv
<1> QED BY <1>1, <1>2, Invariance, PTL DEF Spec, StorySpec, Story!Spec

=============================================================================
