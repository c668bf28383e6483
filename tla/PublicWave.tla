------------------------------ MODULE PublicWave ------------------------------
(***************************************************************************)
(* The representatives of a venue in discussion: what one of them says     *)
(* sets the others off, and what keeps them from answering each other for  *)
(* ever in the phase without a chair (agent/activity.py, the budgets of    *)
(* agent/rep_agent_tools.py, the loop of agent/rep_agent.py).              *)
(*                                                                         *)
(* Only observations that activate their receiver count here.  An urgent   *)
(* one breaks off a turn; a turn may end after any of its tools anyway.    *)
(* A phase switch is seen by the venue and by its representatives in one   *)
(* step.  How threads and inboxes work is the subject of AgentTurn.        *)
(***************************************************************************)
EXTENDS Integers

CONSTANTS
  Rep,          \* the representatives of the venue
  SpeechLimit,  \* public_message_limit in the phase without a chair
  ActionLimit,  \* event_action_limit in that phase
  MaxNews       \* bound: events other than speeches

ASSUME WaveAssumption ==
  /\ SpeechLimit \in 0..1
  /\ ActionLimit \in Nat /\ MaxNews \in Nat

\* What an observation is to _is_public_observation.
Kind == {"public", "other"}

VARIABLES
  unchaired, \* Venue.session_phase = UNCHAIRED_CORE
  at,        \* where the thread of a representative is in run
  inbox,     \* kinds of the observations in its inbox
  batch,     \* and of those in hand
  used,      \* __public_response_used
  limited,   \* the turn has its budgets: it began in the phase without a chair
  speeches,  \* __public_message_count of a turn with budgets
  actions,   \* __event_action_count of such a turn
  last,      \* the last event tool that has succeeded in the turn
  news,      \* events other than speeches so far
  ahead      \* history: the speeches of a representative in turns with budgets,
             \* less the news it has had or caused

turn == <<limited, speeches, actions, last>>
vars == <<unchaired, at, inbox, batch, used, turn, news, ahead>>

Init ==
  /\ unchaired \in BOOLEAN
  /\ at = [r \in Rep |-> "waiting"]
  /\ inbox = [r \in Rep |-> {}]
  /\ batch = [r \in Rep |-> {}]
  /\ used = [r \in Rep |-> FALSE]
  /\ limited = [r \in Rep |-> FALSE]
  /\ speeches = [r \in Rep |-> 0]
  /\ actions = [r \in Rep |-> 0]
  /\ last = [r \in Rep |-> "none"]
  /\ news = 0
  /\ ahead = [r \in Rep |-> 0]

Go(r, place) == at' = [at EXCEPT ![r] = place]

\* The Simulator routes an event to those in its scope, except its author.
Deliver(kind, to) ==
  inbox' = [r \in Rep |-> IF r \in to THEN inbox[r] \cup {kind} ELSE inbox[r]]

\* An event other than a speech, of this author if there is one.
NewsFor(to, author) ==
  /\ news < MaxNews
  /\ news' = news + 1
  /\ ahead' = [r \in Rep |-> IF r \in to \cup author THEN ahead[r] - 1 ELSE ahead[r]]
  /\ Deliver("other", to)

-----------------------------------------------------------------------------
(* Chair, DM and the world outside.                                        *)

\* A notice, a verdict, an update of the DM, an edit
News(to) ==
  /\ NewsFor(to, {})
  /\ UNCHANGED <<unchaired, at, batch, used, turn>>

SwitchPhase ==
  /\ unchaired' = ~unchaired
  /\ NewsFor(Rep, {})
  /\ UNCHANGED <<at, batch, used, turn>>

-----------------------------------------------------------------------------
(* The loop of a representative.                                           *)

\* take_batch or take_ready
Take(r) ==
  /\ at[r] = "waiting"
  /\ inbox[r] # {}
  /\ batch' = [batch EXCEPT ![r] = inbox[r]]
  /\ inbox' = [inbox EXCEPT ![r] = {}]
  /\ Go(r, "deciding")
  /\ UNCHANGED <<unchaired, used, turn, news, ahead>>

\* Slip: a speech gives the answer back as well.
UsedAfterAny(r) == used[r] /\ unchaired /\ batch[r] = {}

\* The first part of evaluate: another phase, or anything but speeches in the
\* batch, gives the answer back.
UsedAfter(r) == used[r] /\ unchaired /\ batch[r] \subseteq {"public"}

Evaluate(r) ==
  /\ at[r] \in {"deciding", "merged"}
  /\ used' = [used EXCEPT ![r] = UsedAfter(r)]
  /\ \/ /\ UsedAfter(r)
        /\ Go(r, "waiting")
        /\ batch' = [batch EXCEPT ![r] = {}]
     \/ /\ ~UsedAfter(r)
        /\ Go(r, "entering")
        /\ UNCHANGED batch
     \/ /\ ~UsedAfter(r)
        /\ unchaired /\ at[r] = "deciding"
        /\ Go(r, "cooling")
        /\ UNCHANGED batch
  /\ UNCHANGED <<unchaired, inbox, turn, news, ahead>>

\* merge_during
Merge(r) ==
  /\ at[r] = "cooling"
  /\ batch' = [batch EXCEPT ![r] = @ \cup inbox[r]]
  /\ inbox' = [inbox EXCEPT ![r] = {}]
  /\ Go(r, "merged")
  /\ UNCHANGED <<unchaired, used, turn, news, ahead>>

\* step reads the phase again, and begin_turn sets the budgets.
BeginTurn(r) ==
  /\ at[r] = "entering"
  /\ limited' = [limited EXCEPT ![r] = unchaired]
  /\ speeches' = [speeches EXCEPT ![r] = 0]
  /\ actions' = [actions EXCEPT ![r] = 0]
  /\ last' = [last EXCEPT ![r] = "none"]
  /\ batch' = [batch EXCEPT ![r] = {}]
  /\ Go(r, "turn")
  /\ UNCHANGED <<unchaired, inbox, used, news, ahead>>

\* An event tool has succeeded; without budgets nobody looks at the counts.
Succeeds(r, tool) ==
  /\ at[r] = "turn"
  /\ limited[r] => actions[r] < ActionLimit
  /\ actions' = [actions EXCEPT ![r] = IF limited[r] THEN @ + 1 ELSE @]
  /\ last' = [last EXCEPT ![r] = tool]
  /\ UNCHANGED <<unchaired, at, batch, used, limited>>

\* It is enough to count one speech more than there may be.
Count(r) ==
  ahead' = IF limited[r] /\ ahead[r] < 2 THEN [ahead EXCEPT ![r] = @ + 1] ELSE ahead

\* Slip: a turn has no budget of speeches.
SpeakFreely(r) ==
  /\ Succeeds(r, "speech")
  /\ Deliver("public", Rep \ {r})
  /\ speeches' = [speeches EXCEPT ![r] = IF limited[r] THEN @ + 1 ELSE @]
  /\ Count(r)
  /\ UNCHANGED news

\* send_message
Speak(r) ==
  /\ limited[r] => speeches[r] < SpeechLimit
  /\ Succeeds(r, "speech")
  /\ Deliver("public", Rep \ {r})
  /\ speeches' = [speeches EXCEPT ![r] = IF limited[r] THEN @ + 1 ELSE @]
  /\ Count(r)
  /\ UNCHANGED news

\* pass_note, a motion, an instruction or a resolution
Act(r, to) ==
  /\ Succeeds(r, "act")
  /\ NewsFor(to, {r})
  /\ UNCHANGED speeches

\* Slip: what was done in a turn is not recorded.
RecordedNever(r) == used[r]

\* record_tools, in the order of the tools; it reads the phase once more.
Recorded(r) == IF unchaired /\ last[r] # "none" THEN last[r] = "speech" ELSE used[r]

\* The answer of the LLM has no more tools, or the turn is broken off.
EndTurn(r) ==
  /\ at[r] = "turn"
  /\ used' = [used EXCEPT ![r] = Recorded(r)]
  /\ Go(r, "waiting")
  /\ limited' = [limited EXCEPT ![r] = FALSE]
  /\ speeches' = [speeches EXCEPT ![r] = 0]
  /\ actions' = [actions EXCEPT ![r] = 0]
  /\ last' = [last EXCEPT ![r] = "none"]
  /\ UNCHANGED <<unchaired, inbox, batch, news, ahead>>

LoopStep(r) == Take(r) \/ Evaluate(r) \/ Merge(r) \/ BeginTurn(r) \/ EndTurn(r)

Tool(r) == Speak(r) \/ \E to \in SUBSET (Rep \ {r}) : Act(r, to)

Next ==
  \/ \E to \in SUBSET Rep : News(to)
  \/ SwitchPhase
  \/ \E r \in Rep : LoopStep(r) \/ Tool(r)

Spec == Init /\ [][Next]_vars

\* Threads are scheduled, the cooling time passes, and a turn has at most
\* max_tool_rounds rounds.  Nobody has to say or do anything.
Fairness == \A r \in Rep : WF_vars(LoopStep(r))

FairSpec == Spec /\ Fairness

-----------------------------------------------------------------------------
(* Properties.                                                             *)

\* The types of the variables; a turn with budgets keeps them.
TypeOK ==
  /\ unchaired \in BOOLEAN
  /\ at \in [Rep -> {"waiting", "deciding", "cooling", "merged", "entering", "turn"}]
  /\ inbox \in [Rep -> SUBSET Kind]
  /\ batch \in [Rep -> SUBSET Kind]
  /\ used \in [Rep -> BOOLEAN]
  /\ limited \in [Rep -> BOOLEAN]
  /\ speeches \in [Rep -> 0..SpeechLimit]
  /\ actions \in [Rep -> 0..ActionLimit]
  /\ last \in [Rep -> {"none", "speech", "act"}]
  /\ news \in 0..MaxNews
  /\ ahead \in [Rep -> (-MaxNews)..2]

\* In turns begun without a chair a representative speaks once, and once more for
\* each event other than a speech that it has had or caused: however its turns,
\* cooling times and phase switches fall, no speech answers speeches alone twice
\* (UnchairedActivityController).
OneSpeechPerWave == \A r \in Rep : ahead[r] <= 1

AtRest == \A r \in Rep : at[r] = "waiting" /\ inbox[r] = {}

\* Without a chair, and once nothing but speeches happens, the representatives
\* fall silent by themselves: no endless exchange of answers to answers.
DiscussionRests == (<>[]unchaired) => <>[]AtRest
=============================================================================
