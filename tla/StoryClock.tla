------------------------------ MODULE StoryClock ------------------------------
(***************************************************************************)
(* What the venues of a scenario have in common: the story time, and the   *)
(* events that become due in it.  Time passes from where it is; what it    *)
(* passes is owed to every venue, and told at that time, in order, before  *)
(* it passes on.  Only a venue that is shut sets the others free of what   *)
(* is still owed.  There are no DMs here, no lock, and no queue.           *)
(* CrisisDirection is shown to implement it.                               *)
(***************************************************************************)
EXTENDS Naturals, Sequences

CONSTANTS
  Venue,
  PullUp,   \* the due events
  Pool,     \* their order
  Due,      \* their times
  Minutes   \* by how much time may pass

VARIABLES
  time,
  passed,   \* all that has passed so far
  waiting,  \* the due events that time has not come to
  owed,     \* which events are still to be told to which venues
  told,     \* to each venue, with the time
  shut      \* the venues that are not open any more

vars == <<time, passed, waiting, owed, told, shut>>

Init ==
  /\ time = 0 /\ passed = <<>>
  /\ waiting = PullUp /\ owed = {}
  /\ told = [v \in Venue |-> <<>>]
  /\ shut = {}

Pass(m) ==
  /\ owed = {}
  /\ time' = time + m
  /\ passed' = Append(passed, m)
  /\ LET due == {p \in waiting : Due[p] <= time'} IN
     /\ waiting' = waiting \ due
     /\ owed' = due \X Venue
  /\ UNCHANGED <<told, shut>>

Before(p, q) == \E i, j \in 1..Len(Pool) : i < j /\ Pool[i] = p /\ Pool[j] = q

\* No event is told while one before it is owed to anybody.
IsNext(p, v) == <<p, v>> \in owed /\ \A x \in owed : ~Before(x[1], p)

Hears(v, p) == told' = [told EXCEPT ![v] = Append(@, <<p, time>>)]

Tell(p, v) ==
  /\ IsNext(p, v)
  /\ Hears(v, p)
  /\ owed' = owed \ {<<p, v>>}
  /\ UNCHANGED <<time, passed, waiting, shut>>

\* What is owed next to a venue that is shut may be told a last time; then it is
\* given up, and all that was to follow.
Shut(v) ==
  /\ shut' = shut \cup {v}
  /\ \/ UNCHANGED <<told, owed>>
     \/ /\ owed' = {}
        /\ \E p \in PullUp : IsNext(p, v) /\ (UNCHANGED told \/ Hears(v, p))
  /\ UNCHANGED <<time, passed, waiting>>

Next ==
  \/ \E m \in Minutes : Pass(m)
  \/ \E v \in Venue : Shut(v) \/ \E p \in PullUp : Tell(p, v)

Spec == Init /\ [][Next]_vars
=============================================================================
