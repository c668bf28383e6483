----------------------------- MODULE Deliberation -----------------------------
(***************************************************************************)
(* What is decided in a venue, with no queue, tool, call or turn, and no   *)
(* moment between a decision and what it rests on.  A motion or resolution *)
(* is decided at one stroke, by a vote or where the chair has the power;   *)
(* the phase is switched by a motion or that power; the items of the       *)
(* agenda are taken up one by one.  Only the close of the venue may leave  *)
(* a decision broken, one at most, and then nothing else is decided.       *)
(* ChairDecisions is shown to implement it.                                *)
(***************************************************************************)
EXTENDS Naturals, FiniteSets

CONSTANTS
  Motion,       \* the motions to switch the phase
  Resolution,   \* the resolutions
  Target,       \* the phase a motion asks for
  Scope,        \* who sees a motion or resolution
  Poll,         \* ballots: the seats for, against and abstained, and the mode
  Phase,        \* the phases
  FirstPhase,   \* the one the venue starts in
  Ended,        \* the one it ends in
  Item,         \* items of the agenda
  Listed,       \* those it opens with
  FirstItem,    \* the first of them
  None

Paper == Motion \cup Resolution

VARIABLES
  power,        \* what the chair may decide alone
  standing,     \* where each motion and resolution stands
  vote,         \* the vote that decided it, None if none did
  phase,        \* the phase of the venue
  announced,    \* the end of the meeting was announced
  current,      \* the item taken up
  todo,         \* the items to come
  finished      \* the items done with

vars == <<power, standing, vote, phase, announced, current, todo, finished>>
items == <<current, todo, finished>>

Init ==
  /\ power \in SUBSET {"decide_resolution", "decide_switch_phase"}
  /\ standing = [p \in Paper |-> "none"]
  /\ vote = [p \in Paper |-> None]
  /\ phase = FirstPhase /\ announced = FALSE
  /\ current = FirstItem /\ todo = Listed \ {FirstItem} /\ finished = {}

\* No decision was left broken.
Whole == \A p \in Paper : standing[p] # "broken"

Stands(p, s) == standing' = [standing EXCEPT ![p] = s]

\* Who votes sees what the vote is on, and has one vote.
Entitled(p, b) ==
  /\ b.for \cup b.against \cup b.abstained \subseteq Scope[p]
  /\ b.for \cap b.against = {}
  /\ (b.for \cup b.against) \cap b.abstained = {}

Carried(b) ==
  /\ b.for # {}
  /\ b.mode = "simple_majority" => Cardinality(b.for) > Cardinality(b.against)
  /\ b.mode = "two_thirds" => Cardinality(b.for) >= 2 * Cardinality(b.against)
  /\ b.mode = "unanimous" => b.against = {}

Submit(p) ==
  /\ standing[p] = "none"
  /\ Stands(p, "pending")
  /\ UNCHANGED <<vote, phase, announced, items>>

DecideByVote(p) ==
  /\ standing[p] = "pending"
  /\ \E b \in Poll :
       /\ Entitled(p, b)
       /\ vote' = [vote EXCEPT ![p] = b]
       /\ Stands(p, IF Carried(b) THEN "accepted" ELSE "rejected")
  /\ UNCHANGED <<phase, announced, items>>

DecideAlone(r, s) ==
  /\ "decide_resolution" \in power
  /\ standing[r] = "pending"
  /\ Stands(r, s)
  /\ UNCHANGED <<vote, phase, announced, items>>

BreakOff(p) == standing[p] = "pending" /\ Stands(p, "broken")

\* The venue closes upon a decision.
Close ==
  /\ \E p \in Paper : BreakOff(p)
  /\ UNCHANGED <<vote, phase, announced, items>>

Switch(to) ==
  /\ \/ "decide_switch_phase" \in power
     \/ \E m \in Motion : standing[m] = "accepted" /\ Target[m] = to
  /\ phase' = to
  /\ UNCHANGED <<standing, vote, announced, items>>

TakeUp(i, done) ==
  /\ i \in todo
  /\ current' = i
  /\ todo' = (todo \ {i}) \cup (IF done THEN {} ELSE {current})
  /\ finished' = finished \cup (IF done THEN {current} ELSE {})
  /\ UNCHANGED <<standing, vote, phase, announced>>

Add(i) ==
  /\ i \notin {current} \cup todo \cup finished
  /\ todo' = todo \cup {i}
  /\ UNCHANGED <<standing, vote, phase, announced, current, finished>>

\* The end may be announced after all else, and as the venue closes.
Announce ==
  /\ ~announced
  /\ announced' = TRUE /\ phase' = Ended
  /\ standing' = standing \/ (Whole /\ \E p \in Paper : BreakOff(p))
  /\ UNCHANGED <<vote, items>>

Next ==
  /\ \/ Announce
     \/ /\ Whole
        /\ \/ \E p \in Paper : Submit(p) \/ DecideByVote(p)
           \/ \E r \in Resolution, s \in {"accepted", "rejected"} : DecideAlone(r, s)
           \/ Close
           \/ \E to \in Phase : Switch(to)
           \/ \E i \in Item : Add(i) \/ \E done \in BOOLEAN : TakeUp(i, done)
  /\ UNCHANGED power

Spec == Init /\ [][Next]_vars
=============================================================================
