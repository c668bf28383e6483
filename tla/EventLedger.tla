----------------------------- MODULE EventLedger -----------------------------
(***************************************************************************)
(* The EventList of one venue, the Event objects in it and what the agents *)
(* are told of them.  An Event is a draft until it is claimed by its       *)
(* submission; from then on its fields and its status only change through  *)
(* commands that wait in the venue's queue, so a command is checked when   *)
(* the VenueEngine carries it out and not when it is asked for.  How a     *)
(* command travels, times out or fails is the matter of VenueCommands.     *)
(***************************************************************************)
EXTENDS Naturals, Sequences, FiniteSets

CONSTANTS
  Event,          \* Event objects
  Rep,            \* the seats of the venue
  KindsOf,        \* the subclasses considered for each Event
  Chairs,         \* who may hold the chair: representatives, or Neutral
  Neutral,
  Scope,          \* the scopes, and
  Box,            \* the lists of voters an edit may ask for
  MaxValid,       \* bound on valid_votes
  MaxDraftEdits,  \* bound on the changes of drafts
  MaxCommands     \* bound on the edits and verdicts asked of the engine

Kind    == {"instruction", "resolution", "vote", "record"}
Verdict == {"completed", "failed", "rejected", "accepted"}
Status  == Verdict \cup {"pending"}

ChairAgent == "chair agent"
Agent == Rep \cup {ChairAgent}

ASSUME LedgerAssumption ==
  /\ KindsOf \in [Event -> SUBSET Kind]
  /\ Chairs \subseteq Rep \cup {Neutral} /\ {Neutral, ChairAgent} \cap Rep = {}
  /\ IsFiniteSet(Rep) /\ Scope \subseteq SUBSET Rep /\ Box \subseteq SUBSET Rep
  /\ MaxValid \in Nat /\ MaxDraftEdits \in Nat /\ MaxCommands \in Nat

Side   == {"supporters", "against", "abstentions"}
Ballot == [Side -> SUBSET Rep]

None == [op |-> "none"]

VARIABLES
  kind,        \* Event.type
  chair,       \* Venue.chair
  status,      \* Event.status
  scope,       \* Event.scope
  text,        \* Event.content, as the number of its edits
  ballots,     \* VoteEvent.supporters, against, abstentions
  valid,       \* VoteEvent.valid_votes
  claimed,     \* Event.__submission_claimed
  events,      \* EventList.__events, an event's id is its position
  pendingIds,  \* EventList.__pending_events
  queue,       \* the commands before the VenueEngine
  publishing,  \* the change committed but not yet published
  drafted,     \* changes of drafts so far
  asked,       \* edits and verdicts asked so far
  told,        \* the last revision of an Event each agent was notified of
  scopes,      \* history: the scope at each revision of a committed Event
  entered,     \* history: the status each committed Event entered with
  tasks        \* history: the tasks the DM was notified of

fields == <<status, scope, text, ballots, valid>>
list   == <<events, pendingIds>>
notes  == <<told, tasks>>
past   == <<scopes, entered>>
setup  == <<kind, chair>>
vars   == <<setup, fields, claimed, list, queue, publishing, drafted, asked, notes, past>>

\* The fields an edit may set, with the values it may give them.  A new content
\* only differs from the one before.
EditValue ==
  {<<"content">>}
    \cup {<<"scope", s>> : s \in Scope}
    \cup {<<"ballot", side, box>> : side \in Side, box \in Box}
    \cup {<<"valid", n>> : n \in 0..MaxValid}

\* Only a VoteEvent has ballots.
Edit(e) == {x \in EditValue : kind[e] = "vote" \/ x[1] \in {"content", "scope"}}

Cast(b) == Cardinality(b["supporters"]) + Cardinality(b["against"])
             + Cardinality(b["abstentions"])

\* _validate_vote_ballots.
LegalBallots(b, n) ==
  /\ \A x, y \in Side : x # y => b[x] \cap b[y] = {}
  /\ Cast(b) <= n

InList(e) == \E i \in DOMAIN events : events[i] = e

Revision(e) == Len(scopes[e])

Init ==
  /\ kind \in [Event -> Kind] /\ \A e \in Event : kind[e] \in KindsOf[e]
  /\ chair \in Chairs
  /\ status \in [Event -> {"pending", "completed", "rejected"}]
  /\ \A e \in Event :
       /\ kind[e] = "record" => status[e] = "completed"
       /\ kind[e] \in {"instruction", "resolution"} => status[e] = "pending"
  /\ scope = [e \in Event |-> Rep]
  /\ text = [e \in Event |-> 0]
  /\ ballots = [e \in Event |-> [x \in Side |-> {}]]
  /\ valid = [e \in Event |-> MaxValid]
  /\ claimed = {}
  /\ events = <<>> /\ pendingIds = <<>>
  /\ queue = <<>> /\ publishing = None
  /\ drafted = 0 /\ asked = 0
  /\ told = [a \in Agent |-> [e \in Event |-> 0]]
  /\ scopes = [e \in Event |-> <<>>]
  /\ entered = [e \in Event |-> "draft"]
  /\ tasks = <<>>

-----------------------------------------------------------------------------
(* What the engine, or the owner of a draft, does to an Event.             *)

\* Slip: a closed event may still be edited.
AlwaysEditable(e) == TRUE

\* _require_editable.
Editable(e) == status[e] = "pending"

\* Slip: an edit is not validated again when it is carried out.
Unvalidated(e, edit) == TRUE

\* _validate_edit.
ValidEdit(e, edit) ==
  /\ edit[1] = "ballot" =>
       LegalBallots([ballots[e] EXCEPT ![edit[2]] = edit[3]], valid[e])
  /\ edit[1] = "valid" => LegalBallots(ballots[e], edit[2])

\* _validate_status of the subclasses.
ValidStatus(e, s) ==
  /\ kind[e] = "instruction" => s \in {"pending", "completed", "failed"}
  /\ kind[e] = "resolution" => s \in {"pending", "accepted", "rejected"}

ApplyEdit(e, edit) ==
  /\ scope' = IF edit[1] = "scope" THEN [scope EXCEPT ![e] = edit[2]] ELSE scope
  /\ text' = IF edit[1] = "content" THEN [text EXCEPT ![e] = @ + 1] ELSE text
  /\ ballots' = IF edit[1] = "ballot"
                  THEN [ballots EXCEPT ![e][edit[2]] = edit[3]] ELSE ballots
  /\ valid' = IF edit[1] = "valid" THEN [valid EXCEPT ![e] = edit[2]] ELSE valid
  /\ UNCHANGED status

ApplyStatus(e, s) ==
  /\ status' = [status EXCEPT ![e] = s]
  /\ UNCHANGED <<scope, text, ballots, valid>>

-----------------------------------------------------------------------------
(* The threads that own, submit, edit and decide Events.                   *)

Drafting(e) ==
  /\ e \notin claimed
  /\ Editable(e)
  /\ drafted < MaxDraftEdits
  /\ drafted' = drafted + 1
  /\ UNCHANGED <<setup, claimed, list, queue, publishing, asked, notes, past>>

\* Legal or not, an edit of a draft is settled at once.
EditDraft(e, edit) == Drafting(e) /\ ValidEdit(e, edit) /\ ApplyEdit(e, edit)

DecideDraft(e, s) == Drafting(e) /\ ValidStatus(e, s) /\ ApplyStatus(e, s)

Ask(command) ==
  /\ queue' = Append(queue, command)
  /\ UNCHANGED <<setup, fields, list, publishing, drafted, notes, past>>

Submit(e) ==
  /\ e \notin claimed
  /\ claimed' = claimed \cup {e}
  /\ Ask([op |-> "submit", event |-> e])
  /\ UNCHANGED asked

AskEdit(e, edit) ==
  /\ e \in claimed
  /\ asked < MaxCommands
  /\ asked' = asked + 1
  /\ Ask([op |-> "edit", event |-> e, edit |-> edit])
  /\ UNCHANGED claimed

AskStatus(e, s) ==
  /\ e \in claimed
  /\ asked < MaxCommands
  /\ asked' = asked + 1
  /\ Ask([op |-> "status", event |-> e, status |-> s])
  /\ UNCHANGED claimed

-----------------------------------------------------------------------------
(* The VenueEngine thread.                                                 *)

Handles(op) ==
  /\ publishing = None
  /\ queue # <<>>
  /\ Head(queue).op = op
  /\ queue' = Tail(queue)
  /\ UNCHANGED <<setup, claimed, drafted, asked, notes>>

\* What _publish_event is called with: an edit reaches the old scope as well.
Publication(command, audience) ==
  [op |-> command.op, event |-> command.event, to |-> audience]

\* Slip: the id is computed after the event has joined the list.
IdAfterAppend == Len(events) + 2

\* event.id = len(self.__events); positions here start at 1.
NextId == Len(events) + 1

CommitEvent ==
  /\ Handles("submit")
  /\ LET e == Head(queue).event IN
       /\ events' = Append(events, e)
       /\ pendingIds' = IF status[e] = "pending"
                          THEN Append(pendingIds, NextId) ELSE pendingIds
       /\ publishing' = Publication(Head(queue), scope[e])
       /\ scopes' = [scopes EXCEPT ![e] = <<scope[e]>>]
       /\ entered' = [entered EXCEPT ![e] = status[e]]
  /\ UNCHANGED fields

\* Slip: a verdict leaves the event in the pending list.
LeftPending(e, s) == pendingIds

Without(seq, at) == [k \in 1..(Len(seq) - 1) |-> seq[IF k < at THEN k ELSE k + 1]]

\* list.remove of the event's id, unless it stays pending.
PendingAfter(e, s) ==
  IF s = "pending" THEN pendingIds
  ELSE Without(pendingIds, CHOOSE k \in DOMAIN pendingIds : events[pendingIds[k]] = e)

CommitStatus ==
  /\ Handles("status")
  /\ LET e == Head(queue).event
         s == Head(queue).status IN
       /\ Editable(e) /\ ValidStatus(e, s)
       /\ ApplyStatus(e, s)
       /\ pendingIds' = PendingAfter(e, s)
       /\ publishing' = Publication(Head(queue), scope[e])
       /\ scopes' = [scopes EXCEPT ![e] = Append(@, scope[e])]
  /\ UNCHANGED <<events, entered>>

\* Slip: an edit reaches the new scope only.
NewScopeOnly(before, after) == after

EditAudience(before, after) == before \cup after

CommitEdit ==
  /\ Handles("edit")
  /\ LET e == Head(queue).event
         edit == Head(queue).edit IN
       /\ Editable(e) /\ ValidEdit(e, edit)
       /\ ApplyEdit(e, edit)
       /\ publishing' = Publication(Head(queue), EditAudience(scope[e], scope'[e]))
       /\ scopes' = [scopes EXCEPT ![e] = Append(@, scope'[e])]
  /\ UNCHANGED <<list, entered>>

\* The command raises and nothing is published.
RejectStatus ==
  /\ Handles("status")
  /\ ~(Editable(Head(queue).event)
         /\ ValidStatus(Head(queue).event, Head(queue).status))
  /\ UNCHANGED <<fields, list, publishing, past>>

RejectEdit ==
  /\ Handles("edit")
  /\ ~(Editable(Head(queue).event)
         /\ ValidEdit(Head(queue).event, Head(queue).edit))
  /\ UNCHANGED <<fields, list, publishing, past>>

\* _chair_can_observe, for the kinds there are: notes, chats and system events to
\* some of the seats, which it keeps from the chair, are none of them.
ChairSees(e) ==
  /\ kind[e] # "instruction"
  /\ chair # Neutral => chair \in scope[e]

\* Slip: the DM gets a resolution with every change of its status.
TaskWhateverStatus(op, e) ==
  \/ op = "submit" /\ kind[e] = "instruction" /\ status[e] = "pending"
  \/ op = "status" /\ kind[e] = "resolution"

IsTask(op, e) ==
  \/ op = "submit" /\ kind[e] = "instruction" /\ status[e] = "pending"
  \/ op = "status" /\ kind[e] = "resolution" /\ status[e] \in {"accepted", "rejected"}

\* _publish_event_observation.  Nobody can change the Event in between: it is
\* claimed, and this is the thread that carries out the commands.  The chair
\* agent is not told of what it did itself.
Publish(byChair) ==
  /\ publishing # None
  /\ LET e == publishing.event
         heard == publishing.to \cup {c \in {ChairAgent} : ChairSees(e) /\ ~byChair} IN
       /\ told' = [a \in Agent |->
                     IF a \in heard THEN [told[a] EXCEPT ![e] = Revision(e)]
                     ELSE told[a]]
       /\ tasks' = IF IsTask(publishing.op, e) THEN Append(tasks, e) ELSE tasks
  /\ publishing' = None
  /\ UNCHANGED <<setup, fields, claimed, list, queue, drafted, asked, past>>

-----------------------------------------------------------------------------
DraftStep ==
  \E e \in Event :
    \/ \E edit \in Edit(e) : EditDraft(e, edit)
    \/ \E s \in Status : DecideDraft(e, s)

AskStep ==
  \E e \in Event :
    \/ \E edit \in Edit(e) : AskEdit(e, edit)
    \/ Submit(e)
    \/ \E s \in Status : AskStatus(e, s)

EngineStep ==
  \/ CommitEvent \/ CommitStatus \/ CommitEdit \/ RejectStatus \/ RejectEdit
  \/ \E byChair \in BOOLEAN : Publish(byChair)

Next == DraftStep \/ AskStep \/ EngineStep

Spec == Init /\ [][Next]_vars

-----------------------------------------------------------------------------
(* Properties.                                                             *)

\* Every variable keeps the type the classes declare for it.
TypeOK ==
  /\ kind \in [Event -> Kind] /\ chair \in Rep \cup {Neutral}
  /\ status \in [Event -> Status]
  /\ scope \in [Event -> SUBSET Rep]
  /\ text \in [Event -> Nat]
  /\ ballots \in [Event -> Ballot]
  /\ valid \in [Event -> 0..MaxValid]
  /\ claimed \subseteq Event
  /\ events \in Seq(Event)
  /\ pendingIds \in Seq(1..Len(events))
  /\ drafted \in 0..MaxDraftEdits /\ asked \in 0..MaxCommands
  /\ told \in [Agent -> [Event -> Nat]]
  /\ scopes \in [Event -> Seq(SUBSET Rep)]
  /\ entered \in [Event -> Status \cup {"draft"}]
  /\ tasks \in Seq(Event)

\* The pending list is exactly the events still undecided, in their order
\* (EventList._commit_event and _update_event_status).
PendingListExact ==
  /\ \A k, m \in DOMAIN pendingIds : k < m => pendingIds[k] < pendingIds[m]
  /\ \A i \in DOMAIN events :
       status[events[i]] = "pending" <=> \E k \in DOMAIN pendingIds : pendingIds[k] = i

\* Once decided an Event never changes again, although edits and verdicts that
\* were asked for while it was pending are still in the queue
\* (Event._require_editable at execution).
VerdictIsFinal ==
  [][\A e \in Event : status[e] # "pending" =>
       /\ status'[e] = status[e] /\ scope'[e] = scope[e] /\ text'[e] = text[e]
       /\ ballots'[e] = ballots[e] /\ valid'[e] = valid[e]]_vars

\* However edits of the boxes and of valid_votes interleave, nobody is counted
\* twice and no more votes are cast than are valid (VoteEvent._validate_edit).
BallotsStayLegal == \A e \in Event : LegalBallots(ballots[e], valid[e])

\* An agent may be told of a revision if it is in the scope at that revision or
\* was at the one before.
MaySee(r, e, n) == r \in scopes[e][n] \/ (n > 1 /\ r \in scopes[e][n - 1])

\* Between two commands every representative knows the latest revision it may be
\* told of: whoever an edit of the scope let in or put out knows it
\* (VenueEngine._process_event_edit, Simulator._publish_event_observation).
ScopeIsInformed ==
  publishing = None =>
    \A e \in Event, r \in Rep :
      \A n \in 1..Revision(e) : MaySee(r, e, n) => n <= told[r][e]

\* At no time does a representative know a revision it may not be told of, nor
\* the chair agent one that its representative is not in the scope of, or an
\* instruction (_chair_can_observe).
NothingLeaks ==
  \A e \in Event :
    /\ \A r \in Rep : told[r][e] > 0 => MaySee(r, e, told[r][e])
    /\ told[ChairAgent][e] > 0 =>
         /\ kind[e] # "instruction"
         /\ chair # Neutral => chair \in scopes[e][told[ChairAgent][e]]

\* Through all edits of scopes the right agents learn of an event, and no others.
RightOnesTold == ScopeIsInformed /\ NothingLeaks

\* The DM is given each instruction that entered undecided, and each resolution
\* decided in the meeting, once and only then.
DMTaskedOnce ==
  /\ \A i, j \in DOMAIN tasks : tasks[i] = tasks[j] => i = j
  /\ publishing = None =>
       \A e \in Event : (\E i \in DOMAIN tasks : tasks[i] = e) <=>
         /\ entered[e] = "pending"
         /\ \/ kind[e] = "instruction"
            \/ kind[e] = "resolution" /\ status[e] # "pending"

\* The members of a venue know what the engine has published already as it commits.
News(e) == IF publishing # None /\ publishing.event = e THEN publishing.to ELSE {}

Body == [e \in Event |-> <<text[e], ballots[e], valid[e]>>]
Version == [e \in Event |-> Revision(e)]
Knows ==
  [r \in Rep |-> [e \in Event |-> IF r \in News(e) THEN Revision(e) ELSE told[r][e]]]
Given ==
  IF publishing # None /\ IsTask(publishing.op, publishing.event)
    THEN Append(tasks, publishing.event) ELSE tasks

\* Although commands wait in a queue, are checked there and told of afterwards, the
\* venue has one record: what enters it is what was handed in, it changes only until
\* the verdict, and its versions are known to the right seats and the DM
\* (EventList, VenueEngine._process and its handlers).
Public == INSTANCE MeetingRecord WITH
  body <- Body, handed <- claimed, record <- events, version <- Version,
  knows <- Knows, tasks <- Given

RecordSpec == Public!Spec
=============================================================================
