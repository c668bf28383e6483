-------------------------- MODULE EventLedgerProofs --------------------------
(***************************************************************************)
(* Theorems about EventLedger, for any sets of events and seats.  IInv is  *)
(* the inductive invariant: what waits in the queue and what was asked     *)
(* before what (Order), how the list, the revisions and the statuses agree *)
(* (Record), what is told once the publication in hand is out (Informed,   *)
(* Tasked), and the safety properties that need no more than that.  Under  *)
(* it, every step is one of MeetingRecord or none.                         *)
(***************************************************************************)
EXTENDS EventLedger, FiniteSetTheorems, TLAPS

Commands ==
  [op : {"submit"}, event : Event]
    \cup [op : {"edit"}, event : Event, edit : EditValue]
    \cup [op : {"status"}, event : Event, status : Status]

Publications ==
  [op : {"submit", "edit", "status"}, event : Event, to : SUBSET Rep]

TypeInv ==
  /\ TypeOK
  /\ queue \in Seq(Commands)
  /\ publishing \in Publications \cup {None}

Committed(e) == scopes[e] # <<>>

\* An Event is submitted once, before anything else is asked of it.
Order ==
  /\ \A i \in DOMAIN queue :
       /\ queue[i].event \in claimed
       /\ queue[i].op = "submit" =>
            /\ ~Committed(queue[i].event)
            /\ \A j \in DOMAIN queue : j < i => queue[j].event # queue[i].event
       /\ queue[i].op # "submit" =>
            \/ Committed(queue[i].event)
            \/ \E j \in DOMAIN queue :
                 j < i /\ queue[j].op = "submit" /\ queue[j].event = queue[i].event
  /\ \A e \in Event :
       IF e \in claimed
         THEN Committed(e) \/ \E j \in DOMAIN queue :
                                queue[j].op = "submit" /\ queue[j].event = e
         ELSE ~Committed(e)

Record ==
  /\ \A e \in Event : Committed(e) <=> InList(e)
  /\ \A i, j \in DOMAIN events : events[i] = events[j] => i = j
  /\ \A e \in Event : Committed(e) => scopes[e][Revision(e)] = scope[e]
  /\ \A e \in Event : entered[e] = "draft" <=> ~Committed(e)
  /\ \A e \in Event :
       Committed(e) /\ status[e] = "pending" => entered[e] = "pending"
  /\ publishing # None =>
       /\ Committed(publishing.event)
       /\ \A r \in publishing.to :
            MaySee(r, publishing.event, Revision(publishing.event))

\* Whoever may be told of a revision was, or is about to be.
Informed ==
  \A e \in Event, r \in Rep :
    \A n \in 1..Revision(e) :
      MaySee(r, e, n) =>
        \/ n <= told[r][e]
        \/ /\ publishing # None
           /\ e = publishing.event /\ n = Revision(e) /\ r \in publishing.to

\* Nobody was told of a revision that is not there.
ToldOfPast == \A e \in Event : \A a \in Agent : told[a][e] <= Revision(e)

Due(e) ==
  /\ entered[e] = "pending"
  /\ kind[e] = "instruction" \/ (kind[e] = "resolution" /\ status[e] # "pending")

TaskInHand(e) ==
  publishing # None /\ publishing.event = e /\ IsTask(publishing.op, e)

Tasked ==
  /\ \A i, j \in DOMAIN tasks : tasks[i] = tasks[j] => i = j
  /\ \A e \in Event :
       (\E i \in DOMAIN tasks : tasks[i] = e) <=> Due(e) /\ ~TaskInHand(e)
  /\ \A e \in Event : TaskInHand(e) => Due(e)

IInv ==
  TypeInv /\ Order /\ Record /\ Informed /\ ToldOfPast /\ Tasked
    /\ BallotsStayLegal /\ NothingLeaks /\ PendingListExact

-----------------------------------------------------------------------------
(* The initial states.                                                     *)

\* A new Event is a legal draft that nobody knows of.
LEMMA InitIInv == Init => IInv
<1> SUFFICES ASSUME Init PROVE IInv
  OBVIOUS
<1> USE LedgerAssumption DEF Init
<1>1. TypeInv
  BY DEF TypeInv, TypeOK, Kind, Status, Verdict, Ballot, Agent
<1>2. Order
  BY DEF Order, Committed
<1>3. Record
  BY DEF Record, Committed, InList, None
<1>4. Informed
  BY DEF Informed, Revision
<1>5. ToldOfPast
  BY DEF ToldOfPast, Revision, Agent
<1>6. Tasked
  BY DEF Tasked, Due, TaskInHand, None
<1>7. BallotsStayLegal
  <2>1. Cardinality({}) = 0
    BY FS_EmptySet
  <2>2. QED BY <2>1 DEF BallotsStayLegal, LegalBallots, Cast, Side
<1>8. NothingLeaks
  BY DEF NothingLeaks, Agent
<1>9. PendingListExact
  BY DEF PendingListExact
<1>10. QED BY <1>1, <1>2, <1>3, <1>4, <1>5, <1>6, <1>7, <1>8, <1>9 DEF IInv

-----------------------------------------------------------------------------
(* Types.                                                                  *)

\* An edit sets a field of the event to a value of the field's type.
LEMMA EditType ==
  ASSUME TypeOK, NEW e \in Event, NEW edit \in EditValue, ApplyEdit(e, edit)
  PROVE  /\ status' \in [Event -> Status] /\ scope' \in [Event -> SUBSET Rep]
         /\ text' \in [Event -> Nat] /\ ballots' \in [Event -> Ballot]
         /\ valid' \in [Event -> 0..MaxValid]
<1>1. status' \in [Event -> Status] /\ text' \in [Event -> Nat]
  <2>1. status' = status /\ status \in [Event -> Status] /\ text \in [Event -> Nat]
    BY DEF ApplyEdit, TypeOK
  <2>2. text' = IF edit[1] = "content" THEN [text EXCEPT ![e] = text[e] + 1] ELSE text
    BY DEF ApplyEdit
  <2>3. QED BY ONLY <2>1, <2>2, e \in Event
<1> USE LedgerAssumption DEF TypeOK, ApplyEdit
<1>2. scope' \in [Event -> SUBSET Rep]
  <2>1. edit[1] = "scope" => edit[2] \in Scope
    BY DEF EditValue
  <2>2. QED BY <2>1
<1>3. ballots' \in [Event -> Ballot]
  <2>1. edit[1] = "ballot" => edit[2] \in Side /\ edit[3] \in Box
    BY DEF EditValue
  <2>2. QED BY <2>1 DEF Ballot
<1>4. valid' \in [Event -> 0..MaxValid]
  <2>1. edit[1] = "valid" => edit[2] \in 0..MaxValid
    BY DEF EditValue
  <2>2. QED BY <2>1
<1>5. QED BY <1>1, <1>2, <1>3, <1>4

\* What list.append does to a sequence.
LEMMA AppendFacts ==
  ASSUME NEW S, NEW s \in Seq(S), NEW x \in S
  PROVE  /\ Append(s, x) \in Seq(S) /\ Append(s, x) # <<>>
         /\ Len(s) \in Nat /\ Len(Append(s, x)) = Len(s) + 1
         /\ DOMAIN Append(s, x) = DOMAIN s \cup {Len(s) + 1}
         /\ DOMAIN s = 1..Len(s)
         /\ \A i \in 1..Len(s) : Append(s, x)[i] = s[i]
         /\ Append(s, x)[Len(s) + 1] = x
OBVIOUS

\* The pending list stays within the list when an event with the next id joins.
LEMMA NewIdType ==
  ASSUME NEW n \in Nat, NEW s \in Seq(1..n)
  PROVE  s \in Seq(1..(n + 1)) /\ Append(s, n + 1) \in Seq(1..(n + 1))
OBVIOUS

\* It stays there when list.remove drops the element at some place.
LEMMA DropType ==
  ASSUME NEW n \in Nat, NEW s \in Seq(1..n), NEW at
  PROVE  Without(s, at) \in Seq(1..n)
<1> DEFINE m == Len(s) - 1
           d == [k \in 1..m |-> s[IF k < at THEN k ELSE k + 1]]
<1> USE DEF Without
<1>1. CASE Len(s) = 0
  <2>1. 1..m = 1..0
    BY <1>1
  <2>2. d = [k \in 1..0 |-> s[IF k < at THEN k ELSE k + 1]]
    BY <2>1
  <2>3. QED BY <2>2
<1>2. CASE Len(s) # 0
  <2>1. m \in Nat /\ \A k \in 1..m : k \in 1..Len(s) /\ k + 1 \in 1..Len(s)
    BY <1>2
  <2>2. \A k \in 1..m : d[k] \in 1..n
    BY <2>1
  <2>3. QED BY <2>1, <2>2
<1>3. QED BY <1>1, <1>2

\* What the engine finds at the head of its queue.
LEMMA HeadType ==
  ASSUME TypeInv, queue # <<>>
  PROVE  /\ Head(queue).event \in Event
         /\ Head(queue).op \in {"submit", "edit", "status"}
         /\ Head(queue).op = "edit" => Head(queue).edit \in EditValue
         /\ Head(queue).op = "status" => Head(queue).status \in Status
         /\ Tail(queue) \in Seq(Commands)
<1>1. Head(queue) \in Commands /\ Tail(queue) \in Seq(Commands)
  BY DEF TypeInv
<1>2. QED BY <1>1 DEF Commands

\* Every step keeps the types.
LEMMA TypeStep == TypeInv /\ PendingListExact /\ [Next]_vars => TypeInv'
<1> SUFFICES ASSUME TypeInv, PendingListExact, [Next]_vars PROVE TypeInv'
  OBVIOUS
<1> USE LedgerAssumption DEF TypeInv, TypeOK, setup, fields, list, notes, past
<1>1. ASSUME NEW e \in Event, NEW edit \in Edit(e), EditDraft(e, edit)
      PROVE  TypeInv'
  <2>1. edit \in EditValue
    BY DEF Edit
  <2>2. QED BY <1>1, <2>1, EditType, SMTT(30) DEF EditDraft, Drafting
<1>2. ASSUME NEW e \in Event, NEW s \in Status, DecideDraft(e, s)
      PROVE  TypeInv'
  BY <1>2 DEF DecideDraft, Drafting, ApplyStatus
<1>3. ASSUME NEW e \in Event, NEW edit \in Edit(e), AskEdit(e, edit)
      PROVE  TypeInv'
  <2>1. [op |-> "edit", event |-> e, edit |-> edit] \in Commands
    BY DEF Commands, Edit
  <2>2. QED BY <1>3, <2>1 DEF AskEdit, Ask
<1>4. ASSUME NEW e \in Event, Submit(e)
      PROVE  TypeInv'
  <2>1. [op |-> "submit", event |-> e] \in Commands
    BY DEF Commands
  <2>2. QED BY <1>4, <2>1 DEF Submit, Ask
<1>5. ASSUME NEW e \in Event, NEW s \in Status, AskStatus(e, s)
      PROVE  TypeInv'
  <2>1. [op |-> "status", event |-> e, status |-> s] \in Commands
    BY DEF Commands
  <2>2. QED BY <1>5, <2>1 DEF AskStatus, Ask
<1>6. CASE CommitEvent
  <2> DEFINE e == Head(queue).event
  <2>1. e \in Event /\ Tail(queue) \in Seq(Commands)
    BY <1>6, HeadType DEF CommitEvent, Handles
  <2>2. publishing' \in Publications
    BY <1>6, <2>1 DEF CommitEvent, Handles, Publication, Publications
  <2>3. pendingIds' \in Seq(1..Len(events'))
    <3>1. Len(events') = Len(events) + 1 /\ Len(events) \in Nat
      BY <1>6, <2>1 DEF CommitEvent
    <3>2. pendingIds' = pendingIds \/ pendingIds' = Append(pendingIds, NextId)
      BY <1>6 DEF CommitEvent
    <3>3. pendingIds \in Seq(1..Len(events)) /\ NextId = Len(events) + 1
      BY DEF NextId
    <3>4. QED BY ONLY <3>1, <3>2, <3>3, NewIdType
  <2>4. /\ scopes' \in [Event -> Seq(SUBSET Rep)]
        /\ entered' \in [Event -> Status \cup {"draft"}]
        /\ events' \in Seq(Event)
    <3>1. /\ events' = Append(events, e) /\ scopes' = [scopes EXCEPT ![e] = <<scope[e]>>]
          /\ entered' = [entered EXCEPT ![e] = status[e]]
          /\ scope[e] \in SUBSET Rep /\ status[e] \in Status
      BY <1>6, <2>1 DEF CommitEvent
    <3>2. <<scope[e]>> \in Seq(SUBSET Rep)
      BY ONLY <3>1
    <3>3. /\ scopes \in [Event -> Seq(SUBSET Rep)] /\ events \in Seq(Event)
          /\ entered \in [Event -> Status \cup {"draft"}]
      OBVIOUS
    <3>4. QED BY ONLY <2>1, <3>1, <3>2, <3>3
  <2>5. /\ queue' = Tail(queue)
        /\ UNCHANGED <<setup, fields, claimed, drafted, asked, notes>>
    BY <1>6 DEF CommitEvent, Handles
  <2>6. QED BY <2>1, <2>2, <2>3, <2>4, <2>5
<1>7. CASE CommitStatus
  <2> DEFINE e == Head(queue).event
             s == Head(queue).status
  <2>1. e \in Event /\ s \in Status /\ Tail(queue) \in Seq(Commands)
    BY <1>7, HeadType DEF CommitStatus, Handles
  <2>2. publishing' \in Publications
    BY <1>7, <2>1 DEF CommitStatus, Handles, Publication, Publications
  <2>3. pendingIds' \in Seq(1..Len(events'))
    <3>1. \E at : pendingIds' = pendingIds \/ pendingIds' = Without(pendingIds, at)
      BY <1>7 DEF CommitStatus, PendingAfter
    <3>2. events' = events
      BY <1>7 DEF CommitStatus
    <3>3. Len(events) \in Nat /\ pendingIds \in Seq(1..Len(events))
      OBVIOUS
    <3>4. \A at : Without(pendingIds, at) \in Seq(1..Len(events))
      BY ONLY <3>3, DropType
    <3>5. QED BY <3>1, <3>2, <3>4
  <2>4. /\ scopes' \in [Event -> Seq(SUBSET Rep)]
        /\ status' \in [Event -> Status]
    <3>1. /\ scopes' = [scopes EXCEPT ![e] = Append(scopes[e], scope[e])]
          /\ status' = [status EXCEPT ![e] = s]
      BY <1>7 DEF CommitStatus, ApplyStatus
    <3>2. /\ scopes \in [Event -> Seq(SUBSET Rep)] /\ status \in [Event -> Status]
          /\ scopes[e] \in Seq(SUBSET Rep) /\ scope[e] \in SUBSET Rep
      BY <2>1
    <3>3. Append(scopes[e], scope[e]) \in Seq(SUBSET Rep)
      BY ONLY <3>2
    <3>4. QED BY ONLY <2>1, <3>1, <3>2, <3>3
  <2>5. /\ queue' = Tail(queue)
        /\ UNCHANGED <<setup, scope, text, ballots, valid, claimed, events, drafted,
                       asked, notes, entered>>
    BY <1>7 DEF CommitStatus, Handles, ApplyStatus
  <2>6. QED BY <2>1, <2>2, <2>3, <2>4, <2>5
<1>8. CASE CommitEdit
  <2> DEFINE e == Head(queue).event
             edit == Head(queue).edit
  <2>1. e \in Event /\ edit \in EditValue /\ Tail(queue) \in Seq(Commands)
    BY <1>8, HeadType DEF CommitEdit, Handles
  <2>2. /\ status' \in [Event -> Status] /\ scope' \in [Event -> SUBSET Rep]
        /\ text' \in [Event -> Nat] /\ ballots' \in [Event -> Ballot]
        /\ valid' \in [Event -> 0..MaxValid]
    BY <1>8, <2>1, EditType DEF CommitEdit
  <2>3. publishing' \in Publications
    <3>1. publishing' = [op |-> "edit", event |-> e, to |-> scope[e] \cup scope'[e]]
      BY <1>8 DEF CommitEdit, Handles, Publication, EditAudience
    <3>2. scope[e] \cup scope'[e] \in SUBSET Rep
      BY <2>1, <2>2
    <3>3. QED BY <2>1, <3>1, <3>2 DEF Publications
  <2>4. scopes' \in [Event -> Seq(SUBSET Rep)]
    <3>1. scopes' = [scopes EXCEPT ![e] = Append(@, scope'[e])]
      BY <1>8 DEF CommitEdit
    <3>2. scope'[e] \in SUBSET Rep
      BY <2>1, <2>2
    <3>3. scopes[e] \in Seq(SUBSET Rep)
      BY <2>1
    <3>4. Append(scopes[e], scope'[e]) \in Seq(SUBSET Rep)
      BY ONLY <3>2, <3>3, AppendFacts
    <3>5. QED BY <2>1, <3>1, <3>4
  <2>5. QED BY <1>8, <2>1, <2>2, <2>3, <2>4 DEF CommitEdit, Handles
<1>9. CASE RejectStatus \/ RejectEdit
  BY <1>9, HeadType DEF RejectStatus, RejectEdit, Handles
<1>10. ASSUME NEW byChair \in BOOLEAN, Publish(byChair)
       PROVE  TypeInv'
  <2>1. publishing.event \in Event
    BY <1>10 DEF Publish, Publications
  <2>2. Revision(publishing.event) \in Nat
    BY <2>1 DEF Revision
  <2>3. told' \in [Agent -> [Event -> Nat]]
    BY <1>10, <2>1, <2>2 DEF Publish
  <2>4. tasks' \in Seq(Event)
    BY <1>10, <2>1 DEF Publish
  <2>5. QED BY <1>10, <2>3, <2>4 DEF Publish
<1>11. CASE UNCHANGED vars
  BY <1>11 DEF vars
<1>12. QED
  BY <1>1, <1>2, <1>3, <1>4, <1>5, <1>6, <1>7, <1>8, <1>9, <1>10, <1>11
  DEF Next, DraftStep, AskStep, EngineStep

-----------------------------------------------------------------------------
(* The order of what is asked, and the record of what was done.            *)

\* A submission at the head of the queue is of an event not yet committed, any
\* other command of one that is.
LEMMA HeadOrder ==
  ASSUME TypeInv, Order, queue # <<>>
  PROVE  /\ Head(queue).event \in claimed
         /\ Head(queue).op = "submit" <=> ~Committed(Head(queue).event)
<1>1. 1 \in DOMAIN queue /\ Head(queue) = queue[1] /\ ~\E j \in DOMAIN queue : j < 1
  BY DEF TypeInv
<1>2. QED BY <1>1 DEF Order

\* What the engine does to the list of revisions.
LEMMA HandledOrder ==
  ASSUME TypeInv, Order, queue # <<>>, queue' = Tail(queue), claimed' = claimed,
         \A e \in Event : scopes'[e] # <<>> <=>
           \/ Committed(e)
           \/ Head(queue).op = "submit" /\ Head(queue).event = e
  PROVE  Order'
<1> USE DEF Committed
<1>1. \A i \in DOMAIN queue' : i + 1 \in DOMAIN queue /\ queue'[i] = queue[i + 1]
  BY DEF TypeInv
<1>2. \A i \in DOMAIN queue : i # 1 => i - 1 \in DOMAIN queue' /\ queue[i] = queue'[i - 1]
  BY DEF TypeInv
<1>3. 1 \in DOMAIN queue /\ Head(queue) = queue[1] /\ DOMAIN queue \subseteq Nat
  BY DEF TypeInv
<1>4. \A i \in DOMAIN queue : queue[i].event \in Event
  BY DEF TypeInv, Commands
<1>5. ASSUME NEW i \in DOMAIN queue'
      PROVE  /\ queue'[i].event \in claimed'
             /\ queue'[i].op = "submit" =>
                  /\ scopes'[queue'[i].event] = <<>>
                  /\ \A j \in DOMAIN queue' : j < i => queue'[j].event # queue'[i].event
             /\ queue'[i].op # "submit" =>
                  \/ scopes'[queue'[i].event] # <<>>
                  \/ \E j \in DOMAIN queue' :
                       j < i /\ queue'[j].op = "submit"
                         /\ queue'[j].event = queue'[i].event
  <2>1. i + 1 \in DOMAIN queue /\ queue'[i] = queue[i + 1] /\ 1 < i + 1
    BY <1>1, <1>3
  <2>2. CASE queue[i + 1].op = "submit"
    <3>1. ~Committed(queue[i + 1].event) /\ queue[1].event # queue[i + 1].event
      BY <1>3, <2>1, <2>2 DEF Order
    <3>2. scopes'[queue[i + 1].event] = <<>>
      BY <1>3, <1>4, <2>1, <3>1
    <3>3. \A j \in DOMAIN queue' : j < i => queue'[j].event # queue'[i].event
      BY <1>1, <1>3, <2>1, <2>2 DEF Order
    <3>4. QED BY <2>1, <2>2, <3>2, <3>3 DEF Order
  <2>3. CASE queue[i + 1].op # "submit"
    <3>1. CASE Committed(queue[i + 1].event)
      BY <1>4, <2>1, <2>3, <3>1 DEF Order
    <3>2. CASE ~Committed(queue[i + 1].event)
      <4>1. PICK j \in DOMAIN queue :
              j < i + 1 /\ queue[j].op = "submit" /\ queue[j].event = queue[i + 1].event
        BY <2>1, <2>3, <3>2 DEF Order
      <4>2. CASE j = 1
        BY <1>3, <1>4, <2>1, <2>3, <4>1, <4>2 DEF Order
      <4>3. CASE j # 1
        <5>1. j - 1 \in DOMAIN queue' /\ queue'[j - 1] = queue[j] /\ j - 1 < i
          BY <1>2, <1>3, <4>1, <4>3
        <5>2. QED BY <2>1, <2>3, <4>1, <5>1 DEF Order
      <4>4. QED BY <4>2, <4>3
    <3>3. QED BY <3>1, <3>2
  <2>4. QED BY <2>2, <2>3
<1>6. ASSUME NEW e \in Event
      PROVE  IF e \in claimed'
               THEN scopes'[e] # <<>> \/ \E j \in DOMAIN queue' :
                                       queue'[j].op = "submit" /\ queue'[j].event = e
               ELSE scopes'[e] = <<>>
  <2>1. CASE e \in claimed
    <3>1. CASE Committed(e)
      BY <2>1, <3>1
    <3>2. CASE ~Committed(e)
      <4>1. PICK j \in DOMAIN queue : queue[j].op = "submit" /\ queue[j].event = e
        BY <2>1, <3>2 DEF Order
      <4>2. CASE j = 1
        BY <1>3, <2>1, <4>1, <4>2
      <4>3. CASE j # 1
        BY <1>2, <2>1, <4>1, <4>3
      <4>4. QED BY <4>2, <4>3
    <3>3. QED BY <3>1, <3>2
  <2>2. CASE e \notin claimed
    BY <1>3, <2>2 DEF Order
  <2>3. QED BY <2>1, <2>2
<1>7. QED BY <1>5, <1>6 DEF Order

\* Every step keeps the order.
LEMMA OrderStep == TypeInv /\ Order /\ [Next]_vars => Order'
<1> SUFFICES ASSUME TypeInv, Order, [Next]_vars PROVE Order'
  OBVIOUS
<1> USE DEF setup, fields, list, notes, past
<1>1. CASE UNCHANGED <<queue, claimed, scopes>>
  BY <1>1 DEF Order, Committed
<1>2. ASSUME NEW c, c.op # "submit", c.event \in claimed,
             queue' = Append(queue, c), UNCHANGED <<claimed, scopes>>
      PROVE  Order'
  <2> DEFINE n == Len(queue) + 1
  <2>1. /\ DOMAIN queue' = DOMAIN queue \cup {n} /\ n \notin DOMAIN queue
        /\ \A i \in DOMAIN queue : queue'[i] = queue[i] /\ i < n
        /\ queue'[n] = c
    BY <1>2 DEF TypeInv
  <2>2. c.event \in Event
    BY <1>2 DEF TypeInv, TypeOK
  <2>3. QED BY <1>2, <2>1, <2>2 DEF Order, Committed
<1>3. ASSUME NEW e \in Event, Submit(e)
      PROVE  Order'
  <2> DEFINE c == [op |-> "submit", event |-> e]
             n == Len(queue) + 1
  <2>1. /\ queue' = Append(queue, c) /\ scopes' = scopes
        /\ e \notin claimed /\ claimed' = claimed \cup {e}
    BY <1>3 DEF Submit, Ask
  <2>2. /\ DOMAIN queue' = DOMAIN queue \cup {n} /\ n \notin DOMAIN queue
        /\ \A i \in DOMAIN queue : queue'[i] = queue[i] /\ i < n
        /\ queue'[n] = c
    BY <2>1 DEF TypeInv
  <2>3. c.op = "submit" /\ c.event = e
    OBVIOUS
  <2> HIDE DEF c, n
  <2>4. \A i \in DOMAIN queue : queue[i].event # e
    BY <2>1 DEF Order
  <2>5. QED BY <2>1, <2>2, <2>3, <2>4 DEF Order, Committed
<1>4. ASSUME CommitEvent \/ CommitStatus \/ CommitEdit
      PROVE  Order'
  <2>1. /\ queue # <<>> /\ queue' = Tail(queue) /\ claimed' = claimed
        /\ Head(queue).op = "submit" <=> CommitEvent
    BY <1>4 DEF CommitEvent, CommitStatus, CommitEdit, Handles
  <2>2. Head(queue).event \in Event
    BY <2>1, HeadType
  <2>3. scopes \in [Event -> Seq(SUBSET Rep)]
    BY DEF TypeInv, TypeOK
  <2> DEFINE e == Head(queue).event
  <2>4. scopes'[e] # <<>> /\ \A d \in Event : d # e => scopes'[d] = scopes[d]
    <3>1. CASE CommitEvent
      BY <2>2, <2>3, <3>1 DEF CommitEvent
    <3>2. CASE CommitStatus
      BY <2>2, <2>3, <3>2 DEF CommitStatus
    <3>3. CASE CommitEdit
      <4>1. scopes' = [scopes EXCEPT ![e] = Append(@, scope'[e])]
        BY <3>3 DEF CommitEdit
      <4>2. scopes[e] \in Seq(SUBSET Rep)
        BY <2>2, <2>3
      <4>3. Append(scopes[e], scope'[e]) # <<>>
        BY ONLY <4>2
      <4>4. QED BY <2>2, <2>3, <4>1, <4>3
    <3>4. QED BY <1>4, <3>1, <3>2, <3>3
  <2>5. \A d \in Event : scopes'[d] # <<>> <=>
          scopes[d] # <<>> \/ (Head(queue).op = "submit" /\ e = d)
    BY <2>1, <2>2, <2>4, HeadOrder DEF Committed
  <2>6. QED BY <2>1, <2>5, HandledOrder DEF Committed
<1>5. CASE RejectStatus \/ RejectEdit
  <2>1. /\ queue # <<>> /\ queue' = Tail(queue) /\ claimed' = claimed
        /\ scopes' = scopes /\ Head(queue).op # "submit"
    BY <1>5 DEF RejectStatus, RejectEdit, Handles
  <2>2. QED BY <2>1, HandledOrder DEF Committed
<1>6. ASSUME NEW e \in Event, NEW edit \in Edit(e), AskEdit(e, edit)
      PROVE  Order'
  BY <1>2, <1>6 DEF AskEdit, Ask
<1>7. ASSUME NEW e \in Event, NEW s \in Status, AskStatus(e, s)
      PROVE  Order'
  BY <1>2, <1>7 DEF AskStatus, Ask
<1>8. ASSUME DraftStep \/ (\E byChair \in BOOLEAN : Publish(byChair)) \/ UNCHANGED vars
      PROVE  UNCHANGED <<queue, claimed, scopes>>
  BY <1>8 DEF DraftStep, EditDraft, DecideDraft, Drafting, Publish, vars
<1>9. QED
  BY <1>1, <1>3, <1>4, <1>5, <1>6, <1>7, <1>8 DEF Next, AskStep, EngineStep

\* Every step keeps the record: what was committed, with which revisions.
LEMMA RecordStep == TypeInv /\ Order /\ Record /\ [Next]_vars => Record'
<1> SUFFICES ASSUME TypeInv, Order, Record, [Next]_vars PROVE Record'
  OBVIOUS
<1>1. /\ events \in Seq(Event) /\ scopes \in [Event -> Seq(SUBSET Rep)]
      /\ scope \in [Event -> SUBSET Rep] /\ status \in [Event -> Status]
      /\ entered \in [Event -> Status \cup {"draft"}]
  BY DEF TypeInv, TypeOK
<1> USE DEF Record, Committed, InList, Revision, MaySee, list, past
<1>2. ASSUME NEW e \in Event, Drafting(e), UNCHANGED <<list, publishing, past>>,
             \A d \in Event : d # e => scope'[d] = scope[d] /\ status'[d] = status[d]
      PROVE  Record'
  <2>1. ~Committed(e)
    BY <1>2 DEF Drafting, Order
  <2>2. QED BY <1>2, <2>1
<1>3. ASSUME NEW e \in Event, NEW edit \in Edit(e), EditDraft(e, edit)
      PROVE  Record'
  BY <1>1, <1>2, <1>3 DEF EditDraft, ApplyEdit, Drafting
<1>4. ASSUME NEW e \in Event, NEW s \in Status, DecideDraft(e, s)
      PROVE  Record'
  BY <1>1, <1>2, <1>4 DEF DecideDraft, ApplyStatus, Drafting
<1>5. CASE UNCHANGED <<scope, status, list, past>> /\ publishing' \in {publishing, None}
  BY <1>5
<1>6. CASE CommitEvent
  <2> DEFINE e == Head(queue).event
  <2>1. e \in Event /\ ~Committed(e) /\ \A i \in DOMAIN events : events[i] # e
    BY <1>6, HeadType, HeadOrder DEF CommitEvent, Handles
  <2>2. /\ events' = Append(events, e) /\ scopes' = [scopes EXCEPT ![e] = <<scope[e]>>]
        /\ entered' = [entered EXCEPT ![e] = status[e]]
        /\ publishing' = [op |-> "submit", event |-> e, to |-> scope[e]]
        /\ scope' = scope /\ status' = status
    BY <1>6 DEF CommitEvent, Handles, Publication, fields
  <2> HIDE DEF e
  <2>3. /\ DOMAIN events' = DOMAIN events \cup {Len(events) + 1}
        /\ \A i \in DOMAIN events : events'[i] = events[i] /\ i # Len(events) + 1
        /\ events'[Len(events) + 1] = e
    BY ONLY <1>1, <2>1, <2>2, AppendFacts
  <2>4. status[e] # "draft"
    BY <1>1, <2>1 DEF Status, Verdict
  <2>5. scopes'[e] = <<scope[e]>> /\ \A d \in Event : d # e => scopes'[d] = scopes[d]
    BY <1>1, <2>1, <2>2
  <2>6. \A d \in Event : InList(d)' <=> InList(d) \/ d = e
    BY <2>1, <2>3
  <2>7. \A d \in Event : entered'[d] = IF d = e THEN status[e] ELSE entered[d]
    BY <1>1, <2>1, <2>2
  <2>8. QED BY <2>1, <2>2, <2>3, <2>4, <2>5, <2>6, <2>7, SMTT(30)
<1>7. CASE CommitStatus
  <2> DEFINE e == Head(queue).event
  <2>1. e \in Event /\ Committed(e) /\ status[e] = "pending"
    BY <1>7, HeadType, HeadOrder DEF CommitStatus, Handles, Editable
  <2>2. /\ scopes' = [scopes EXCEPT ![e] = Append(@, scope[e])]
        /\ publishing' = [op |-> "status", event |-> e, to |-> scope[e]]
        /\ scope' = scope /\ events' = events /\ entered' = entered
        /\ status' = [status EXCEPT ![e] = Head(queue).status]
    BY <1>7 DEF CommitStatus, Handles, Publication, ApplyStatus
  <2> HIDE DEF e
  <2>3. scopes'[e] = Append(scopes[e], scope[e])
    BY <1>1, <2>1, <2>2
  <2>4. scopes[e] \in Seq(SUBSET Rep) /\ scope[e] \in SUBSET Rep
    BY <1>1, <2>1
  <2>5. /\ scopes'[e] # <<>> /\ Len(scopes'[e]) = Len(scopes[e]) + 1
        /\ scopes'[e][Len(scopes[e]) + 1] = scope[e]
    BY ONLY <2>3, <2>4, AppendFacts
  <2>6. \A d \in Event : d # e => scopes'[d] = scopes[d] /\ status'[d] = status[d]
    BY <1>1, <2>1, <2>2
  <2>7. QED BY <2>1, <2>2, <2>5, <2>6
<1>8. CASE CommitEdit
  <2> DEFINE e == Head(queue).event
             edit == Head(queue).edit
  <2>1. e \in Event /\ Committed(e)
    BY <1>8, HeadType, HeadOrder DEF CommitEdit, Handles
  <2>2. /\ scopes' = [scopes EXCEPT ![e] = Append(@, scope'[e])]
        /\ publishing' = [op |-> "edit", event |-> e, to |-> scope[e] \cup scope'[e]]
        /\ status' = status /\ events' = events /\ entered' = entered
        /\ \A d \in Event : d # e => scope'[d] = scope[d]
    BY <1>1, <1>8 DEF CommitEdit, Handles, Publication, EditAudience, ApplyEdit
  <2>3. scope'[e] \in SUBSET Rep
    BY <1>8, <2>1, HeadType, EditType DEF CommitEdit, Handles, TypeInv
  <2> HIDE DEF e
  <2>4. scopes'[e] = Append(scopes[e], scope'[e])
    BY <1>1, <2>1, <2>2
  <2>5. scopes[e] \in Seq(SUBSET Rep) /\ scopes[e] # <<>>
    BY <1>1, <2>1
  <2>6. Len(scopes[e]) \in 1..Len(scopes[e])
    BY ONLY <2>5
  <2>7. /\ scopes'[e] # <<>> /\ Len(scopes'[e]) = Len(scopes[e]) + 1
        /\ scopes'[e][Len(scopes[e]) + 1] = scope'[e]
        /\ scopes'[e][Len(scopes[e])] = scopes[e][Len(scopes[e])]
        /\ Len(scopes[e]) \in Nat /\ Len(scopes[e]) + 1 > 1
    BY ONLY <2>3, <2>4, <2>5, <2>6, AppendFacts
  <2>8. \A d \in Event : d # e => scopes'[d] = scopes[d]
    BY <1>1, <2>1, <2>2
  <2>9. scopes[e][Len(scopes[e])] = scope[e]
    BY <2>1
  <2>10. QED BY <2>1, <2>2, <2>7, <2>8, <2>9
<1>9. ASSUME AskStep \/ RejectStatus \/ RejectEdit \/ UNCHANGED vars
               \/ \E byChair \in BOOLEAN : Publish(byChair)
      PROVE  UNCHANGED <<scope, status, list, past>> /\ publishing' \in {publishing, None}
  BY <1>9 DEF AskStep, AskEdit, AskStatus, Submit, Ask, RejectStatus, RejectEdit,
              Handles, Publish, vars, fields
<1>10. QED
  BY <1>3, <1>4, <1>5, <1>6, <1>7, <1>8, <1>9 DEF Next, DraftStep, EngineStep

-----------------------------------------------------------------------------
(* Who is told of what.                                                    *)

\* A command adds one revision, and its publication reaches whoever may see it.
LEMMA CommitFacts ==
  ASSUME TypeInv, Order, Record, CommitEvent \/ CommitStatus \/ CommitEdit,
         NEW e, e = Head(queue).event
  PROVE  /\ e \in Event /\ told' = told /\ kind' = kind /\ chair' = chair
         /\ publishing = None /\ publishing' # None /\ publishing'.event = e
         /\ \A d \in Event : d # e => scopes'[d] = scopes[d]
         /\ Len(scopes[e]) \in Nat /\ Len(scopes'[e]) = Len(scopes[e]) + 1
         /\ \A n \in 1..Len(scopes[e]) : scopes'[e][n] = scopes[e][n]
         /\ \A r : r \in scopes'[e][Len(scopes[e]) + 1] => r \in publishing'.to
         /\ Len(scopes[e]) # 0 =>
              \A r : r \in scopes[e][Len(scopes[e])] => r \in publishing'.to
<1>1. /\ scopes \in [Event -> Seq(SUBSET Rep)] /\ scope \in [Event -> SUBSET Rep]
  BY DEF TypeInv, TypeOK
<1>2. /\ e \in Event /\ told' = told /\ kind' = kind /\ chair' = chair
      /\ publishing = None
      /\ Head(queue).op = "submit" <=> CommitEvent
  BY HeadType DEF CommitEvent, CommitStatus, CommitEdit, Handles, notes, setup
<1>3. /\ Committed(e) <=> ~CommitEvent
      /\ Committed(e) => scopes[e][Len(scopes[e])] = scope[e]
  BY <1>2, HeadOrder DEF CommitEvent, CommitStatus, CommitEdit, Handles, Record, Revision
<1>4. \E op, to : /\ publishing' = [op |-> op, event |-> e, to |-> to]
                  /\ scope[e] \subseteq to /\ scope'[e] \subseteq to
  BY SMTT(30)
     DEF CommitEvent, CommitStatus, CommitEdit, Publication, EditAudience, fields,
         ApplyStatus
<1>5. publishing' # None /\ publishing'.event = e
      /\ scope[e] \subseteq publishing'.to /\ scope'[e] \subseteq publishing'.to
  BY <1>4 DEF None
<1>6. scopes[e] \in Seq(SUBSET Rep)
  BY <1>1, <1>2
<1>7. CASE CommitEvent
  <2>1. scopes' = [scopes EXCEPT ![e] = <<scope[e]>>]
    BY <1>7 DEF CommitEvent
  <2>2. scopes[e] = <<>> /\ scopes'[e] = <<scope[e]>>
    BY <1>1, <1>2, <1>3, <1>7, <2>1 DEF Committed
  <2>3. QED BY <1>1, <1>2, <1>5, <2>1, <2>2
<1>8. CASE ~CommitEvent
  <2>1. scopes' = [scopes EXCEPT ![e] = Append(@, scope'[e])]
    BY <1>8 DEF CommitStatus, CommitEdit, ApplyStatus
  <2>2. scopes'[e] = Append(scopes[e], scope'[e])
    BY <1>1, <1>2, <2>1
  <2>3. scope'[e] \in SUBSET Rep
    BY <1>1, <1>2, <1>8, HeadType, EditType
    DEF CommitStatus, CommitEdit, ApplyStatus, Handles, TypeInv
  <2>4. /\ Len(scopes[e]) \in Nat /\ Len(scopes'[e]) = Len(scopes[e]) + 1
        /\ \A n \in 1..Len(scopes[e]) : scopes'[e][n] = scopes[e][n]
        /\ scopes'[e][Len(scopes[e]) + 1] = scope'[e]
    BY ONLY <1>6, <2>2, <2>3, AppendFacts
  <2>5. \A d \in Event : d # e => scopes'[d] = scopes[d]
    BY <1>1, <1>2, <2>1
  <2>6. QED BY <1>2, <1>3, <1>5, <1>8, <2>4, <2>5
<1>9. QED BY <1>7, <1>8

\* Steps that neither commit nor publish change nothing of what was told.
LEMMA QuietStep ==
  ASSUME \/ DraftStep \/ AskStep \/ RejectStatus \/ RejectEdit \/ UNCHANGED vars
  PROVE  UNCHANGED <<told, tasks, scopes, publishing, entered, kind, chair>>
BY DEF DraftStep, EditDraft, DecideDraft, Drafting, AskStep, AskEdit, AskStatus,
       Submit, Ask, RejectStatus, RejectEdit, Handles, vars, notes, past, setup

\* The effect of a publication on who knows what.
LEMMA PublishFacts ==
  ASSUME TypeInv, Record, NEW byChair \in BOOLEAN, Publish(byChair)
  PROVE  LET e == publishing.event
             heard == publishing.to \cup {c \in {ChairAgent} : ChairSees(e) /\ ~byChair}
         IN /\ publishing # None /\ publishing' = None
            /\ e \in Event /\ Len(scopes[e]) \in Nat \ {0}
            /\ UNCHANGED <<scopes, scope, kind, chair>>
            /\ \A a \in Agent, d \in Event :
                 told'[a][d] = IF a \in heard /\ d = e THEN Len(scopes[e]) ELSE told[a][d]
<1> DEFINE e == publishing.event
           heard == publishing.to \cup {c \in {ChairAgent} : ChairSees(e) /\ ~byChair}
<1>1. publishing # None /\ publishing' = None /\ e \in Event /\ Committed(e)
  BY DEF Publish, Publications, TypeInv, Record
<1>2. scopes \in [Event -> Seq(SUBSET Rep)] /\ told \in [Agent -> [Event -> Nat]]
  BY DEF TypeInv, TypeOK
<1>3. Len(scopes[e]) \in Nat \ {0}
  BY <1>1, <1>2 DEF Committed
<1>4. UNCHANGED <<scopes, scope, kind, chair>>
  BY DEF Publish, past, fields, setup
<1>5. told' = [a \in Agent |-> IF a \in heard
                                 THEN [told[a] EXCEPT ![e] = Len(scopes[e])]
                                 ELSE told[a]]
  BY DEF Publish, Revision
<1> HIDE DEF e, heard
<1>6. \A a \in Agent, d \in Event :
        told'[a][d] = IF a \in heard /\ d = e THEN Len(scopes[e]) ELSE told[a][d]
  BY <1>1, <1>2, <1>5
<1>7. QED BY <1>1, <1>3, <1>4, <1>6 DEF e, heard

\* Every step keeps whoever may know informed, and nobody ahead of the record.
LEMMA InformedStep ==
  TypeInv /\ Order /\ Record /\ Informed /\ ToldOfPast /\ [Next]_vars
    => Informed' /\ ToldOfPast'
<1> SUFFICES ASSUME TypeInv, Order, Record, Informed, ToldOfPast, [Next]_vars
             PROVE  Informed' /\ ToldOfPast'
  OBVIOUS
<1>1. told \in [Agent -> [Event -> Nat]] /\ Rep \subseteq Agent
  BY DEF TypeInv, TypeOK, Agent
<1> USE DEF Informed, ToldOfPast, Revision, MaySee
<1>2. CASE UNCHANGED <<told, scopes, publishing>>
  BY <1>2
<1>3. CASE CommitEvent \/ CommitStatus \/ CommitEdit
  <2> DEFINE e == Head(queue).event
             m == Len(scopes[e])
  <2>1. /\ e \in Event /\ told' = told
        /\ publishing = None /\ publishing' # None /\ publishing'.event = e
        /\ \A d \in Event : d # e => scopes'[d] = scopes[d]
        /\ m \in Nat /\ Len(scopes'[e]) = m + 1
        /\ \A n \in 1..m : scopes'[e][n] = scopes[e][n]
        /\ \A r : r \in scopes'[e][m + 1] => r \in publishing'.to
        /\ m # 0 => \A r : r \in scopes[e][m] => r \in publishing'.to
    BY <1>3, CommitFacts
  <2> HIDE DEF e
  <2>2. ToldOfPast'
    BY <1>1, <2>1
  <2>3. ASSUME NEW d \in Event, NEW r \in Rep, NEW n \in 1..Len(scopes'[d]),
               r \in scopes'[d][n] \/ (n > 1 /\ r \in scopes'[d][n - 1])
        PROVE  \/ n <= told'[r][d]
               \/ d = publishing'.event /\ n = Len(scopes'[d]) /\ r \in publishing'.to
    <3>1. CASE d # e \/ n <= m
      <4>1. n \in 1..Len(scopes[d]) /\ scopes'[d][n] = scopes[d][n]
            /\ (n > 1 => scopes'[d][n - 1] = scopes[d][n - 1])
        BY <2>1, <3>1
      <4>2. n <= told[r][d]
        BY <2>1, <2>3, <4>1
      <4>3. QED BY <2>1, <4>2
    <3>2. CASE d = e /\ n = m + 1
      <4>1. n > 1 => n - 1 = m /\ m \in 1..m /\ m # 0
        BY <2>1, <3>2
      <4>2. QED BY <2>1, <2>3, <3>2, <4>1
    <3>3. QED BY <2>1, <3>1, <3>2
  <2>4. QED BY <2>1, <2>2, <2>3
<1>4. ASSUME NEW byChair \in BOOLEAN, Publish(byChair)
      PROVE  Informed' /\ ToldOfPast'
  <2> DEFINE e == publishing.event
             heard == publishing.to \cup {c \in {ChairAgent} : ChairSees(e) /\ ~byChair}
  <2>1. /\ publishing # None /\ publishing' = None
        /\ e \in Event /\ Len(scopes[e]) \in Nat \ {0} /\ scopes' = scopes
        /\ \A a \in Agent, d \in Event :
             told'[a][d] = IF a \in heard /\ d = e THEN Len(scopes[e]) ELSE told[a][d]
        /\ publishing.to \subseteq heard
    BY <1>4, PublishFacts
  <2> HIDE DEF e, heard
  <2>2. ToldOfPast'
    BY <1>1, <2>1
  <2>3. Informed'
    BY <1>1, <2>1 DEF e
  <2>4. QED BY <2>2, <2>3
<1>5. QED
  BY <1>2, <1>3, <1>4, QuietStep DEF Next, EngineStep

\* Every step keeps what is told within what may be seen.
LEMMA LeaksStep ==
  TypeInv /\ Order /\ Record /\ ToldOfPast /\ NothingLeaks /\ [Next]_vars
    => NothingLeaks'
<1> SUFFICES ASSUME TypeInv, Order, Record, ToldOfPast, NothingLeaks, [Next]_vars
             PROVE  NothingLeaks'
  OBVIOUS
<1>1. /\ told \in [Agent -> [Event -> Nat]] /\ Rep \subseteq Agent
      /\ ChairAgent \in Agent /\ ChairAgent \notin Rep
  BY LedgerAssumption DEF TypeInv, TypeOK, Agent
<1> USE DEF NothingLeaks, Revision, MaySee
<1>2. CASE UNCHANGED <<told, scopes, kind, chair>>
  BY <1>2
<1>3. CASE CommitEvent \/ CommitStatus \/ CommitEdit
  <2> DEFINE e == Head(queue).event
             m == Len(scopes[e])
  <2>1. /\ e \in Event /\ told' = told /\ kind' = kind /\ chair' = chair
        /\ \A d \in Event : d # e => scopes'[d] = scopes[d]
        /\ m \in Nat /\ \A n \in 1..m : scopes'[e][n] = scopes[e][n]
    BY <1>3, CommitFacts
  <2> HIDE DEF e
  <2>2. \A d \in Event, a \in Agent, n \in Nat :
          0 < n /\ n <= told[a][d] => scopes'[d][n] = scopes[d][n]
    BY <1>1, <2>1 DEF ToldOfPast
  <2>3. \A d \in Event, r \in Rep : told[r][d] > 0 =>
          /\ scopes'[d][told[r][d]] = scopes[d][told[r][d]]
          /\ told[r][d] > 1 => scopes'[d][told[r][d] - 1] = scopes[d][told[r][d] - 1]
    BY <1>1, <2>2
  <2>4. \A d \in Event : told[ChairAgent][d] > 0 =>
          scopes'[d][told[ChairAgent][d]] = scopes[d][told[ChairAgent][d]]
    BY <1>1, <2>2
  <2>5. QED BY <2>1, <2>3, <2>4
<1>4. ASSUME NEW byChair \in BOOLEAN, Publish(byChair)
      PROVE  NothingLeaks'
  <2> DEFINE e == publishing.event
             heard == publishing.to \cup {c \in {ChairAgent} : ChairSees(e) /\ ~byChair}
  <2>1. /\ publishing # None /\ e \in Event /\ Len(scopes[e]) \in Nat \ {0}
        /\ UNCHANGED <<scopes, scope, kind, chair>>
        /\ \A a \in Agent, d \in Event :
             told'[a][d] = IF a \in heard /\ d = e THEN Len(scopes[e]) ELSE told[a][d]
    BY <1>4, PublishFacts
  <2>2. /\ \A r \in publishing.to : MaySee(r, e, Len(scopes[e]))
        /\ publishing.to \subseteq Rep
        /\ scope[e] = scopes[e][Len(scopes[e])]
    BY <2>1 DEF Record, TypeInv, Publications, Committed
  <2>3. \A r \in Rep : r \in heard => r \in publishing.to
    BY <1>1
  <2>4. ChairAgent \in heard => kind[e] # "instruction" /\ (chair # Neutral => chair \in scope[e])
    BY <1>1, <2>2 DEF ChairSees
  <2> HIDE DEF e, heard
  <2>5. ASSUME NEW d \in Event, NEW r \in Rep, told'[r][d] > 0
        PROVE  \/ r \in scopes'[d][told'[r][d]]
               \/ told'[r][d] > 1 /\ r \in scopes'[d][told'[r][d] - 1]
    <3>1. CASE r \in heard /\ d = e
      BY <1>1, <2>1, <2>2, <2>3, <3>1
    <3>2. CASE ~(r \in heard /\ d = e)
      BY <1>1, <2>1, <2>5, <3>2
    <3>3. QED BY <3>1, <3>2
  <2>6. ASSUME NEW d \in Event, told'[ChairAgent][d] > 0
        PROVE  /\ kind'[d] # "instruction"
               /\ chair' # Neutral => chair' \in scopes'[d][told'[ChairAgent][d]]
    <3>1. CASE ChairAgent \in heard /\ d = e
      BY <1>1, <2>1, <2>2, <2>4, <3>1
    <3>2. CASE ~(ChairAgent \in heard /\ d = e)
      BY <1>1, <2>1, <2>6, <3>2
    <3>3. QED BY <3>1, <3>2
  <2>7. QED BY <2>5, <2>6
<1>5. QED
  BY <1>2, <1>3, <1>4, QuietStep DEF Next, EngineStep

\* Every step keeps the DM's tasks what they are to be.
LEMMA TaskedStep == TypeInv /\ Order /\ Record /\ Tasked /\ [Next]_vars => Tasked'
<1> SUFFICES ASSUME TypeInv, Order, Record, Tasked, [Next]_vars PROVE Tasked'
  OBVIOUS
<1>1. /\ tasks \in Seq(Event) /\ status \in [Event -> Status] /\ kind \in [Event -> Kind]
      /\ entered \in [Event -> Status \cup {"draft"}]
  BY DEF TypeInv, TypeOK
<1> USE DEF Tasked, Due, TaskInHand, IsTask
<1>2. CASE UNCHANGED <<tasks, status, kind, entered, publishing>>
  BY <1>2
<1>3. ASSUME NEW e \in Event, Drafting(e), UNCHANGED <<publishing, entered>>,
             \A d \in Event : d # e => status'[d] = status[d]
      PROVE  Tasked'
  <2>1. entered[e] = "draft" /\ ~(publishing # None /\ publishing.event = e)
    BY <1>3 DEF Drafting, Order, Record, Committed
  <2>2. tasks' = tasks /\ kind' = kind
    BY <1>3 DEF Drafting, notes, setup
  <2>3. publishing # None => publishing.event \in Event
    BY DEF TypeInv, Publications
  <2>4. QED BY <1>1, <1>3, <2>1, <2>2, <2>3
<1>4. ASSUME DraftStep
      PROVE  Tasked'
  <2>1. UNCHANGED <<publishing, entered>>
    BY <1>4, QuietStep
  <2>2. ASSUME NEW e \in Event, NEW edit \in Edit(e), EditDraft(e, edit)
        PROVE  Tasked'
    BY <1>3, <2>1, <2>2 DEF EditDraft, ApplyEdit
  <2>3. ASSUME NEW e \in Event, NEW s \in Status, DecideDraft(e, s)
        PROVE  Tasked'
    BY <1>1, <1>3, <2>1, <2>3 DEF DecideDraft, ApplyStatus
  <2>4. QED BY <1>4, <2>2, <2>3 DEF DraftStep
<1>5. CASE CommitEvent
  <2> DEFINE e == Head(queue).event
  <2>1. e \in Event /\ entered[e] = "draft" /\ publishing = None
    BY <1>5, HeadType, HeadOrder DEF CommitEvent, Handles, Record
  <2>2. /\ tasks' = tasks /\ kind' = kind /\ status' = status
        /\ entered' = [entered EXCEPT ![e] = status[e]]
        /\ publishing' = [op |-> "submit", event |-> e, to |-> scope[e]]
    BY <1>5 DEF CommitEvent, Handles, Publication, notes, setup, fields
  <2>3. publishing' # None /\ publishing'.event = e /\ publishing'.op = "submit"
    BY <2>2 DEF None
  <2> HIDE DEF e
  <2>4. QED BY <1>1, <2>1, <2>2, <2>3
<1>6. CASE CommitStatus
  <2> DEFINE e == Head(queue).event
             s == Head(queue).status
  <2>1. /\ e \in Event /\ publishing = None /\ s \in Status
        /\ status[e] = "pending" /\ entered[e] = "pending"
    BY <1>6, HeadType, HeadOrder DEF CommitStatus, Handles, Record, Editable
  <2>2. /\ tasks' = tasks /\ kind' = kind /\ entered' = entered
        /\ status' = [status EXCEPT ![e] = s]
        /\ publishing' = [op |-> "status", event |-> e, to |-> scope[e]]
    BY <1>6 DEF CommitStatus, ApplyStatus, Handles, Publication, notes, setup
  <2>3. publishing' # None /\ publishing'.event = e /\ publishing'.op = "status"
    BY <2>2 DEF None
  <2>4. kind[e] = "resolution" => s \in {"pending", "accepted", "rejected"}
    BY <1>6 DEF CommitStatus, ValidStatus
  <2> HIDE DEF e, s
  <2>5. QED BY <1>1, <2>1, <2>2, <2>3, <2>4
<1>7. CASE CommitEdit
  <2>1. /\ publishing = None /\ publishing'.op = "edit"
        /\ UNCHANGED <<tasks, kind, entered, status>>
    BY <1>7 DEF CommitEdit, ApplyEdit, Handles, Publication, notes, setup
  <2>2. QED BY <2>1
<1>8. ASSUME NEW byChair \in BOOLEAN, Publish(byChair)
      PROVE  Tasked'
  <2> DEFINE e == publishing.event
  <2>1. /\ e \in Event /\ publishing # None /\ publishing' = None
        /\ UNCHANGED <<kind, entered, status>>
        /\ tasks' = IF TaskInHand(e) THEN Append(tasks, e) ELSE tasks
    BY <1>8 DEF Publish, TypeInv, Publications, setup, fields, past
  <2>2. CASE TaskInHand(e)
    <3>1. \A i \in DOMAIN tasks : tasks[i] # e
      BY <2>1, <2>2
    <3>2. /\ DOMAIN tasks' = DOMAIN tasks \cup {Len(tasks) + 1}
          /\ \A i \in DOMAIN tasks : tasks'[i] = tasks[i]
          /\ tasks'[Len(tasks) + 1] = e
      BY <1>1, <2>1, <2>2
    <3> HIDE DEF e
    <3>3. \A d \in Event : d # e => ~TaskInHand(d)
      BY DEF e
    <3>4. \A i, j \in DOMAIN tasks' : tasks'[i] = tasks'[j] => i = j
      BY <3>1, <3>2
    <3>5. \A d \in Event : (\E i \in DOMAIN tasks' : tasks'[i] = d)
                             <=> d = e \/ \E i \in DOMAIN tasks : tasks[i] = d
      BY <3>2
    <3>6. Due(e)
      BY <2>1, <2>2
    <3>7. QED BY <2>1, <3>3, <3>4, <3>5, <3>6
  <2>3. CASE ~TaskInHand(e)
    BY <2>1, <2>3
  <2>4. QED BY <2>2, <2>3
<1>9. ASSUME AskStep \/ RejectStatus \/ RejectEdit \/ UNCHANGED vars
      PROVE  UNCHANGED <<tasks, status, kind, entered, publishing>>
  <2>1. status' = status
    BY <1>9 DEF AskStep, AskEdit, AskStatus, Submit, Ask, RejectStatus, RejectEdit,
                vars, fields
  <2>2. QED BY <1>9, <2>1, QuietStep
<1>10. QED
  BY <1>2, <1>4, <1>5, <1>6, <1>7, <1>8, <1>9 DEF Next, EngineStep

-----------------------------------------------------------------------------
(* Ballots, verdicts and the pending list.                                 *)

\* Only an undecided event changes, and an edit leaves legal ballots.
LEMMA ChangeFacts ==
  ASSUME TypeInv, [Next]_vars
  PROVE  /\ \A e \in Event : status[e] # "pending" =>
              /\ status'[e] = status[e] /\ scope'[e] = scope[e] /\ text'[e] = text[e]
              /\ ballots'[e] = ballots[e] /\ valid'[e] = valid[e]
         /\ BallotsStayLegal => BallotsStayLegal'
<1> DEFINE Goal == /\ \A e \in Event : status[e] # "pending" =>
                        /\ status'[e] = status[e] /\ scope'[e] = scope[e]
                        /\ text'[e] = text[e] /\ ballots'[e] = ballots[e]
                        /\ valid'[e] = valid[e]
                   /\ BallotsStayLegal => BallotsStayLegal'
<1>1. /\ status \in [Event -> Status] /\ scope \in [Event -> SUBSET Rep]
      /\ text \in [Event -> Nat] /\ ballots \in [Event -> Ballot]
      /\ valid \in [Event -> 0..MaxValid]
  BY DEF TypeInv, TypeOK
<1>2. CASE UNCHANGED fields
  BY <1>2 DEF fields, BallotsStayLegal
<1>3. ASSUME NEW e \in Event, NEW edit \in EditValue, status[e] = "pending",
             ValidEdit(e, edit), ApplyEdit(e, edit)
      PROVE  Goal
  <2>1. \A d \in Event : d # e =>
          /\ scope'[d] = scope[d] /\ text'[d] = text[d] /\ ballots'[d] = ballots[d]
          /\ valid'[d] = valid[d] /\ status'[d] = status[d]
    BY <1>1, <1>3 DEF ApplyEdit
  <2>2. BallotsStayLegal => LegalBallots(ballots'[e], valid'[e])
    <3>1. CASE edit[1] = "ballot"
      <4>1. ballots'[e] = [ballots[e] EXCEPT ![edit[2]] = edit[3]] /\ valid'[e] = valid[e]
        BY <1>1, <1>3, <3>1 DEF ApplyEdit
      <4>2. QED BY <1>3, <3>1, <4>1 DEF ValidEdit
    <3>2. CASE edit[1] = "valid"
      <4>1. ballots'[e] = ballots[e] /\ valid'[e] = edit[2]
        BY <1>1, <1>3, <3>2 DEF ApplyEdit
      <4>2. QED BY <1>3, <3>2, <4>1 DEF ValidEdit
    <3>3. CASE edit[1] # "ballot" /\ edit[1] # "valid"
      BY <1>3, <3>3 DEF ApplyEdit, BallotsStayLegal
    <3>4. QED BY <3>1, <3>2, <3>3
  <2>3. QED BY <1>3, <2>1, <2>2 DEF BallotsStayLegal
<1>4. ASSUME NEW e \in Event, NEW s, status[e] = "pending", ApplyStatus(e, s)
      PROVE  Goal
  BY <1>1, <1>4 DEF ApplyStatus, BallotsStayLegal
<1>5. CASE DraftStep
  <2>1. ASSUME NEW e \in Event, NEW edit \in Edit(e), EditDraft(e, edit)
        PROVE  Goal
    BY <1>3, <2>1 DEF EditDraft, Drafting, Editable, Edit
  <2>2. ASSUME NEW e \in Event, NEW s \in Status, DecideDraft(e, s)
        PROVE  Goal
    BY <1>4, <2>2 DEF DecideDraft, Drafting, Editable
  <2>3. QED BY <1>5, <2>1, <2>2 DEF DraftStep
<1>6. CASE CommitStatus
  BY <1>4, <1>6, HeadType DEF CommitStatus, Handles, Editable
<1>7. CASE CommitEdit
  BY <1>3, <1>7, HeadType DEF CommitEdit, Handles, Editable
<1>8. ASSUME AskStep \/ CommitEvent \/ RejectStatus \/ RejectEdit \/ UNCHANGED vars
               \/ \E byChair \in BOOLEAN : Publish(byChair)
      PROVE  UNCHANGED fields
  BY <1>8 DEF AskStep, AskEdit, AskStatus, Submit, Ask, CommitEvent, RejectStatus,
              RejectEdit, Publish, vars
<1>9. QED
  BY <1>2, <1>5, <1>6, <1>7, <1>8 DEF Next, EngineStep

\* list.remove takes out the one id of a pending event.
LEMMA DropFacts ==
  ASSUME NEW s \in Seq(Nat), NEW at \in DOMAIN s,
         \A k, m \in DOMAIN s : k < m => s[k] < s[m]
  PROVE  LET d == Without(s, at) IN
         /\ \A k, m \in DOMAIN d : k < m => d[k] < d[m]
         /\ \A i : (\E k \in DOMAIN d : d[k] = i)
                     <=> i # s[at] /\ \E k \in DOMAIN s : s[k] = i
<1> DEFINE n == Len(s) - 1
           d == Without(s, at)
<1>1. /\ DOMAIN s = 1..Len(s) /\ Len(s) \in Nat /\ at \in 1..Len(s)
      /\ \A k \in 1..Len(s) : s[k] \in Nat
  OBVIOUS
<1>2. /\ DOMAIN d = 1..n
      /\ \A k \in 1..n : d[k] = s[IF k < at THEN k ELSE k + 1]
  BY DEF Without
<1> HIDE DEF d
<1> DEFINE up(k) == IF k < at THEN k ELSE k + 1
<1>3. /\ \A k \in DOMAIN d : up(k) \in DOMAIN s /\ up(k) # at /\ d[k] = s[up(k)]
      /\ \A k, m \in DOMAIN d : k < m => up(k) < up(m)
  BY <1>1, <1>2
<1> HIDE DEF up
<1>4. /\ \A k, m \in DOMAIN d : k < m => d[k] < d[m]
      /\ \A k \in DOMAIN d : d[k] # s[at] /\ \E m \in DOMAIN s : s[m] = d[k]
  <2>1. \A k, m \in DOMAIN d : k < m => d[k] < d[m]
    BY <1>3
  <2>2. \A k \in DOMAIN s : k # at => s[k] # s[at]
    BY <1>1
  <2>3. QED BY <1>3, <2>1, <2>2
<1>5. ASSUME NEW k \in DOMAIN s, s[k] # s[at]
      PROVE  \E m \in DOMAIN d : d[m] = s[k]
  <2>1. CASE k < at
    <3>1. k \in 1..n
      BY <1>1, <2>1
    <3>2. d[k] = s[k]
      BY <1>2, <2>1, <3>1
    <3>3. QED BY <1>2, <3>1, <3>2
  <2>2. CASE k > at
    <3>1. k - 1 \in DOMAIN d /\ d[k - 1] = s[k]
      BY <1>1, <1>2, <2>2
    <3>2. QED BY <3>1
  <2>3. QED BY <1>1, <1>5, <2>1, <2>2
<1>6. QED BY <1>4, <1>5 DEF d

\* Every step keeps the pending list exact.
LEMMA PendingStep ==
  TypeInv /\ Order /\ Record /\ PendingListExact /\ [Next]_vars => PendingListExact'
<1> SUFFICES ASSUME TypeInv, Order, Record, PendingListExact, [Next]_vars
             PROVE  PendingListExact'
  OBVIOUS
<1>1. /\ events \in Seq(Event) /\ status \in [Event -> Status]
      /\ pendingIds \in Seq(1..Len(events)) /\ Len(events) \in Nat
  BY DEF TypeInv, TypeOK
<1> USE DEF PendingListExact
<1>2. CASE UNCHANGED <<list, status>>
  BY <1>2 DEF list
<1>3. CASE DraftStep
  <2>1. PICK e \in Event : Drafting(e) /\ \A d \in Event : d # e => status'[d] = status[d]
    BY <1>1, <1>3 DEF DraftStep, EditDraft, DecideDraft, ApplyEdit, ApplyStatus
  <2>2. \A i \in DOMAIN events : events[i] \in Event /\ events[i] # e
    BY <1>1, <2>1 DEF Drafting, Order, Record, InList
  <2>3. QED BY <2>1, <2>2 DEF Drafting, list
<1>4. CASE CommitEvent
  <2> DEFINE e == Head(queue).event
             n == Len(events)
  <2>1. e \in Event /\ events' = Append(events, e) /\ status' = status
        /\ pendingIds' = IF status[e] = "pending"
                           THEN Append(pendingIds, n + 1) ELSE pendingIds
    BY <1>4, HeadType DEF CommitEvent, Handles, NextId, fields
  <2> HIDE DEF e
  <2>2. /\ DOMAIN events' = DOMAIN events \cup {n + 1} /\ DOMAIN events = 1..n
        /\ \A i \in DOMAIN events : events'[i] = events[i]
        /\ events'[n + 1] = e
    BY ONLY <1>1, <2>1, AppendFacts
  <2>3. \A k \in DOMAIN pendingIds : pendingIds[k] \in 1..n
    BY <1>1
  <2>4. CASE status[e] = "pending"
    <3>1. /\ DOMAIN pendingIds' = DOMAIN pendingIds \cup {Len(pendingIds) + 1}
          /\ DOMAIN pendingIds = 1..Len(pendingIds) /\ Len(pendingIds) \in Nat
          /\ \A k \in DOMAIN pendingIds : pendingIds'[k] = pendingIds[k]
          /\ pendingIds'[Len(pendingIds) + 1] = n + 1
      BY <1>1, <2>1, <2>4
    <3>2. \A k, m \in DOMAIN pendingIds' : k < m => pendingIds'[k] < pendingIds'[m]
      BY <1>1, <2>3, <3>1
    <3>3. \A i \in DOMAIN events' : status'[events'[i]] = "pending" <=>
            \E k \in DOMAIN pendingIds' : pendingIds'[k] = i
      BY <1>1, <2>1, <2>2, <2>3, <2>4, <3>1
    <3>4. QED BY <3>2, <3>3
  <2>5. CASE status[e] # "pending"
    BY <1>1, <2>1, <2>2, <2>3, <2>5
  <2>6. QED BY <2>4, <2>5
<1>5. CASE CommitStatus
  <2> DEFINE e == Head(queue).event
             s == Head(queue).status
  <2>1. e \in Event /\ s \in Status /\ status[e] = "pending" /\ InList(e)
    BY <1>5, HeadType, HeadOrder DEF CommitStatus, Handles, Editable, Record
  <2>2. /\ status' = [status EXCEPT ![e] = s] /\ events' = events
        /\ pendingIds' = PendingAfter(e, s)
    BY <1>5 DEF CommitStatus, ApplyStatus
  <2> HIDE DEF e, s
  <2>3. CASE s = "pending"
    <3>1. status' = status /\ pendingIds' = pendingIds
      BY <1>1, <2>1, <2>2, <2>3 DEF PendingAfter
    <3>2. QED BY <2>2, <3>1
  <2>4. CASE s # "pending"
    <3> DEFINE at == CHOOSE k \in DOMAIN pendingIds : events[pendingIds[k]] = e
    <3>1. PICK i \in DOMAIN events : events[i] = e
      BY <2>1 DEF InList
    <3>2. at \in DOMAIN pendingIds /\ events[pendingIds[at]] = e
      <4>1. \E k \in DOMAIN pendingIds : events[pendingIds[k]] = e
        BY <2>1, <3>1
      <4>2. QED BY ONLY <4>1, Zenon
    <3>3. pendingIds' = Without(pendingIds, at)
      BY <2>2, <2>4 DEF PendingAfter
    <3> HIDE DEF at
    <3>4. pendingIds[at] = i
      BY <1>1, <3>1, <3>2 DEF Record
    <3>5. /\ pendingIds \in Seq(Nat)
          /\ \A k, m \in DOMAIN pendingIds : k < m => pendingIds[k] < pendingIds[m]
      BY <1>1
    <3>6. /\ \A k, m \in DOMAIN pendingIds' : k < m => pendingIds'[k] < pendingIds'[m]
          /\ \A j : (\E k \in DOMAIN pendingIds' : pendingIds'[k] = j)
                      <=> j # i /\ \E k \in DOMAIN pendingIds : pendingIds[k] = j
      <4>1. LET d == Without(pendingIds, at) IN
              /\ \A k, m \in DOMAIN d : k < m => d[k] < d[m]
              /\ \A j : (\E k \in DOMAIN d : d[k] = j)
                          <=> j # pendingIds[at] /\ \E k \in DOMAIN pendingIds : pendingIds[k] = j
        BY ONLY <3>2, <3>5, DropFacts
      <4>2. QED BY ONLY <3>3, <3>4, <4>1
    <3>7. \A j \in DOMAIN events : status'[events[j]] = "pending" <=>
            j # i /\ status[events[j]] = "pending"
      BY <1>1, <2>1, <2>2, <2>4, <3>1 DEF Record
    <3>8. QED BY <2>2, <3>6, <3>7
  <2>5. QED BY <2>3, <2>4
<1>6. ASSUME AskStep \/ CommitEdit \/ RejectStatus \/ RejectEdit \/ UNCHANGED vars
               \/ \E byChair \in BOOLEAN : Publish(byChair)
      PROVE  UNCHANGED <<list, status>>
  BY <1>6 DEF AskStep, AskEdit, AskStatus, Submit, Ask, CommitEdit, RejectStatus,
              RejectEdit, Publish, vars, ApplyEdit, fields, list
<1>7. QED
  BY <1>2, <1>3, <1>4, <1>5, <1>6 DEF Next, EngineStep

-----------------------------------------------------------------------------
(* EventLedger implements MeetingRecord.                                   *)

\* Most of what the engine and its senders do is not for the members.
LEMMA PublicStays ==
  ASSUME UNCHANGED <<kind, status, scope, text, ballots, valid, claimed, events,
                     scopes, told, tasks, publishing>>
  PROVE  UNCHANGED Public!vars
<1>1. Body' = Body /\ Version' = Version
  BY DEF Body, Version, Revision
<1>2. Knows' = Knows
  BY DEF Knows, News, Revision
<1>3. Given' = Given
  BY DEF Given, IsTask
<1> QED BY <1>1, <1>2, <1>3 DEF Public!vars

\* With a commit there is a new version, and the seats it goes to know it.
LEMMA VersionIsKnown ==
  ASSUME TypeInv, Order, Record, CommitEvent \/ CommitStatus \/ CommitEdit,
         NEW e, e = Head(queue).event
  PROVE  e \in Event /\ Public!Known(e, publishing'.to)
<1>1. /\ e \in Event /\ told' = told
      /\ publishing = None /\ publishing' # None /\ publishing'.event = e
      /\ \A d \in Event : d # e => scopes'[d] = scopes[d]
      /\ Len(scopes'[e]) = Len(scopes[e]) + 1
  BY CommitFacts
<1>2. Version' = [Version EXCEPT ![e] = @ + 1]
  <2>1. \A d \in Event : Len(scopes'[d]) = IF d = e THEN Len(scopes[d]) + 1
                                             ELSE Len(scopes[d])
    BY <1>1
  <2> QED BY <1>1, <2>1 DEF Version, Revision
<1>3. Version'[e] = Len(scopes'[e])
  BY <1>1 DEF Version, Revision
<1>4. Knows = [r \in Rep |-> [d \in Event |-> told[r][d]]]
  BY <1>1 DEF Knows, News
<1>5. Knows' = [r \in Rep |-> [d \in Event |->
                  IF d = e /\ r \in publishing'.to THEN Len(scopes'[e]) ELSE told[r][d]]]
  BY <1>1 DEF Knows, News, Revision
<1>6. \A r \in Rep :
        Knows'[r] = IF r \in publishing'.to THEN [Knows[r] EXCEPT ![e] = Version'[e]]
                    ELSE Knows[r]
  <2>1. SUFFICES ASSUME NEW r \in Rep
                 PROVE  Knows'[r] = IF r \in publishing'.to
                                      THEN [Knows[r] EXCEPT ![e] = Version'[e]]
                                      ELSE Knows[r]
    OBVIOUS
  <2>2. Knows[r] = [d \in Event |-> told[r][d]]
    BY <1>4
  <2>3. Knows'[r] = [d \in Event |->
                       IF d = e /\ r \in publishing'.to THEN Len(scopes'[e])
                       ELSE told[r][d]]
    BY <1>5
  <2> QED BY <1>1, <1>3, <2>2, <2>3
<1>7. Knows' = [r \in Rep |->
                  IF r \in publishing'.to THEN [Knows[r] EXCEPT ![e] = Version'[e]]
                  ELSE Knows[r]]
  BY <1>5, <1>6
<1> QED BY <1>1, <1>2, <1>7 DEF Public!Known

\* An owner changes its draft.
LEMMA DraftChanges ==
  ASSUME TypeInv, Order, Record, DraftStep
  PROVE  \E e \in Event : Public!Draft(e)
<1>1. PICK e \in Event :
        \/ \E edit \in Edit(e) : EditDraft(e, edit)
        \/ \E s \in Status : DecideDraft(e, s)
  BY DEF DraftStep
<1>2. Drafting(e)
  BY <1>1 DEF EditDraft, DecideDraft
<1>3. /\ e \notin claimed /\ status[e] = "pending"
      /\ UNCHANGED <<kind, claimed, events, publishing, told, tasks, scopes>>
  BY <1>2 DEF Drafting, Editable, setup, list, notes, past
<1>4. /\ status \in [Event -> Status] /\ scope \in [Event -> SUBSET Rep]
      /\ text \in [Event -> Nat] /\ ballots \in [Event -> Ballot]
      /\ valid \in [Event -> 0..MaxValid]
  BY DEF TypeInv, TypeOK
<1>5. ASSUME NEW f \in Event \ {e}
      PROVE  /\ status'[f] = status[f] /\ scope'[f] = scope[f] /\ text'[f] = text[f]
             /\ ballots'[f] = ballots[f] /\ valid'[f] = valid[f]
  <2>1. CASE \E edit \in Edit(e) : EditDraft(e, edit)
    BY <1>4, <2>1 DEF EditDraft, ApplyEdit
  <2>2. CASE \E s \in Status : DecideDraft(e, s)
    BY <1>4, <2>2 DEF DecideDraft, ApplyStatus
  <2> QED BY <1>1, <2>1, <2>2
<1>6. Public!Touches(e)
  <2>1. \A f \in Event \ {e} : Body'[f] = Body[f]
    BY <1>5 DEF Body
  <2> QED BY <1>5, <2>1 DEF Public!Touches
<1>7. UNCHANGED <<Version, Knows>>
  BY <1>3 DEF Version, Knows, News, Revision
<1>8. Given' = Given
  <2>1. publishing # None => publishing.event \in Event /\ publishing.event # e
    BY <1>3 DEF TypeInv, Publications, Order, Record, Committed
  <2>2. publishing # None =>
          (IsTask(publishing.op, publishing.event)' <=>
             IsTask(publishing.op, publishing.event))
    BY <1>3, <1>5, <2>1 DEF IsTask
  <2> QED BY <1>3, <2>2 DEF Given
<1> QED BY <1>3, <1>6, <1>7, <1>8 DEF Public!Draft

LEMMA DraftIsHandedIn ==
  ASSUME TypeInv, NEW e \in Event, Submit(e)
  PROVE  Public!HandIn(e)
<1>1. /\ e \notin claimed /\ claimed' = claimed \cup {e}
      /\ UNCHANGED <<kind, status, scope, text, ballots, valid, events, scopes, told,
                     tasks, publishing>>
  BY DEF Submit, Ask, setup, fields, list, notes, past
<1>2. UNCHANGED <<Body, Version>>
  BY <1>1 DEF Body, Version, Revision
<1>3. UNCHANGED <<Knows, Given>>
  BY <1>1 DEF Knows, News, Revision, Given, IsTask
<1> QED BY <1>1, <1>2, <1>3 DEF Public!HandIn

\* The engine puts on record what was handed in.
LEMMA EventEnters ==
  ASSUME TypeInv, Order, Record, CommitEvent
  PROVE  \E e \in Event : Public!Enter(e)
<1> DEFINE e == Head(queue).event
<1>1. e \in Event /\ Public!Known(e, publishing'.to) /\ publishing = None
  BY VersionIsKnown, CommitFacts
<1>2. e \in claimed /\ ~Committed(e)
  BY HeadOrder DEF CommitEvent, Handles
<1>3. ~Public!OnRecord(e)
  <2>1. ~InList(e)
    BY <1>1, <1>2 DEF Record
  <2>2. events \in Seq(Event)
    BY DEF TypeInv, TypeOK
  <2>3. DOMAIN events = 1..Len(events)
    BY <2>2
  <2> QED BY <2>1, <2>3 DEF InList, Public!OnRecord
<1>4. /\ events' = Append(events, e)
      /\ publishing' = [op |-> "submit", event |-> e, to |-> scope[e]]
      /\ UNCHANGED <<kind, status, scope, text, ballots, valid, claimed, tasks>>
  BY DEF CommitEvent, Handles, Publication, setup, fields, notes
<1>5. /\ publishing' # None /\ publishing'.to = scope[e]
      /\ publishing'.op = "submit" /\ publishing'.event = e
  BY <1>4 DEF None
<1> HIDE DEF e
<1>6. Given' = IF kind[e] = "instruction" /\ status[e] = "pending"
                 THEN Append(Given, e) ELSE Given
  BY <1>1, <1>4, <1>5 DEF Given, IsTask
<1>7. Body' = Body
  BY <1>4 DEF Body
<1>8. Public!Enter(e)
  BY <1>1, <1>2, <1>3, <1>4, <1>5, <1>6, <1>7 DEF Public!Enter, Public!TaskIf
<1> QED BY <1>1, <1>8

\* What the engine changes is on record and undecided.
LEMMA OnRecord ==
  ASSUME TypeInv, Order, Record, CommitStatus \/ CommitEdit,
         NEW e, e = Head(queue).event
  PROVE  Public!OnRecord(e) /\ status[e] = "pending"
<1>1. queue # <<>> /\ Head(queue).op # "submit" /\ status[e] = "pending"
  BY DEF CommitStatus, CommitEdit, Handles, Editable
<1>2. Committed(e) /\ e \in Event
  BY <1>1, HeadOrder, CommitFacts
<1>3. \E i \in DOMAIN events : events[i] = e
  BY <1>2 DEF Record, InList
<1>4. DOMAIN events = 1..Len(events)
  BY DEF TypeInv, TypeOK
<1> QED BY <1>1, <1>3, <1>4 DEF Public!OnRecord

LEMMA EventIsAmended ==
  ASSUME TypeInv, Order, Record, CommitEdit
  PROVE  \E e \in Event : Public!Amend(e)
<1> DEFINE e == Head(queue).event
           edit == Head(queue).edit
<1>1. /\ e \in Event /\ Public!Known(e, publishing'.to) /\ publishing = None
      /\ Public!OnRecord(e) /\ status[e] = "pending"
  BY VersionIsKnown, CommitFacts, OnRecord
<1>2. /\ ApplyEdit(e, edit) /\ edit \in EditValue
      /\ publishing' = [op |-> "edit", event |-> e, to |-> scope[e] \cup scope'[e]]
      /\ UNCHANGED <<kind, events, claimed, tasks>>
  BY HeadType DEF CommitEdit, Handles, Publication, EditAudience, setup, list, notes
<1>3. /\ publishing' # None /\ publishing'.op = "edit"
      /\ publishing'.to = scope[e] \cup scope'[e]
  BY <1>2 DEF None
<1> HIDE DEF e, edit
<1>4. status' = status /\ scope'[e] \subseteq Rep
  <2>1. scope' \in [Event -> SUBSET Rep]
    BY <1>1, <1>2, EditType DEF TypeInv
  <2> QED BY <1>1, <1>2, <2>1 DEF ApplyEdit
<1>5. \A f \in Event \ {e} :
        /\ scope'[f] = scope[f] /\ text'[f] = text[f]
        /\ ballots'[f] = ballots[f] /\ valid'[f] = valid[f]
  BY <1>1, <1>2 DEF ApplyEdit, TypeInv, TypeOK
<1>6. Public!Touches(e)
  <2>1. \A f \in Event \ {e} : Body'[f] = Body[f]
    BY <1>5 DEF Body
  <2> QED BY <1>4, <1>5, <2>1 DEF Public!Touches
<1>7. Given' = Given
  BY <1>1, <1>2, <1>3 DEF Given, IsTask
<1>8. Public!Amend(e)
  BY <1>1, <1>2, <1>3, <1>4, <1>6, <1>7 DEF Public!Amend
<1> QED BY <1>1, <1>8

LEMMA EventIsDecided ==
  ASSUME TypeInv, Order, Record, CommitStatus
  PROVE  \E e \in Event : Public!Decide(e)
<1> DEFINE e == Head(queue).event
           s == Head(queue).status
<1>1. /\ e \in Event /\ Public!Known(e, publishing'.to) /\ publishing = None
      /\ Public!OnRecord(e) /\ status[e] = "pending"
  BY VersionIsKnown, CommitFacts, OnRecord
<1>2. /\ status' = [status EXCEPT ![e] = s]
      /\ publishing' = [op |-> "status", event |-> e, to |-> scope[e]]
      /\ UNCHANGED <<kind, events, claimed, tasks, scope, text, ballots, valid>>
  BY DEF CommitStatus, ApplyStatus, Handles, Publication, setup, notes
<1>3. /\ publishing' # None /\ publishing'.to = scope[e]
      /\ publishing'.op = "status" /\ publishing'.event = e
  BY <1>2 DEF None
<1>4. kind[e] = "resolution" => s \in {"pending", "accepted", "rejected"}
  BY DEF CommitStatus, ValidStatus
<1> HIDE DEF e, s
<1>5. status'[e] = s /\ \A f \in Event \ {e} : status'[f] = status[f]
  BY <1>1, <1>2 DEF TypeInv, TypeOK
<1>6. Given' = IF kind[e] = "resolution" /\ status'[e] # "pending"
                 THEN Append(Given, e) ELSE Given
  BY <1>1, <1>2, <1>3, <1>4, <1>5 DEF Given, IsTask
<1>7. Body' = Body
  BY <1>2 DEF Body
<1>8. Public!Decide(e)
  BY <1>1, <1>2, <1>3, <1>5, <1>6, <1>7
     DEF Public!Decide, Public!Touches, Public!TaskIf
<1> QED BY <1>1, <1>8

\* The news is out: the members know nothing that they did not know already.
LEMMA NewsIsOut ==
  ASSUME TypeInv, Record, NEW byChair \in BOOLEAN, Publish(byChair)
  PROVE  UNCHANGED Public!vars
<1> DEFINE e == publishing.event
           heard == publishing.to \cup {c \in {ChairAgent} : ChairSees(e) /\ ~byChair}
<1>1. /\ publishing # None /\ publishing' = None /\ e \in Event
      /\ \A a \in Agent, d \in Event :
           told'[a][d] = IF a \in heard /\ d = e THEN Len(scopes[e]) ELSE told[a][d]
  BY PublishFacts
<1>2. /\ UNCHANGED <<kind, status, scope, text, ballots, valid, claimed, events, scopes>>
      /\ tasks' = IF IsTask(publishing.op, e) THEN Append(tasks, e) ELSE tasks
  BY DEF Publish, setup, fields, list, past
<1>3. \A r \in Rep : r \in Agent /\ (r \in heard <=> r \in publishing.to)
  BY LedgerAssumption DEF Agent
<1>4. Given' = Given
  BY <1>1, <1>2 DEF Given
<1>5. \A r \in Rep, d \in Event : d = e /\ r \in publishing.to <=> r \in News(d)
  BY <1>1 DEF News
<1> HIDE DEF e, heard
<1>6. \A r \in Rep, d \in Event :
        told'[r][d] = IF d = e /\ r \in publishing.to THEN Len(scopes[d]) ELSE told[r][d]
  BY <1>1, <1>3
<1>7. Knows' = Knows
  <2>1. Knows' = [r \in Rep |-> [d \in Event |-> told'[r][d]]]
    BY <1>1 DEF Knows, News
  <2>2. \A r \in Rep, d \in Event :
          told'[r][d] = IF r \in News(d) THEN Len(scopes[d]) ELSE told[r][d]
    BY <1>5, <1>6
  <2> QED BY <2>1, <2>2 DEF Knows, Revision
<1>8. UNCHANGED <<Body, Version>>
  BY <1>2 DEF Body, Version, Revision
<1> QED BY <1>2, <1>4, <1>7, <1>8 DEF Public!vars

\* Every step is one of MeetingRecord, or none.
LEMMA StepIsPublic ==
  ASSUME TypeInv, Order, Record, [Next]_vars
  PROVE  [Public!Next]_(Public!vars)
<1>1. CASE DraftStep
  BY <1>1, DraftChanges DEF Public!Next
<1>2. CASE AskStep
  <2>1. CASE \E e \in Event : Submit(e)
    BY <2>1, DraftIsHandedIn DEF Public!Next
  <2>2. CASE \E e \in Event : \/ \E edit \in Edit(e) : AskEdit(e, edit)
                              \/ \E s \in Status : AskStatus(e, s)
    <3>1. UNCHANGED <<kind, status, scope, text, ballots, valid, claimed, events,
                      scopes, told, tasks, publishing>>
      BY <2>2 DEF AskEdit, AskStatus, Ask, setup, fields, list, notes, past
    <3> QED BY <3>1, PublicStays
  <2> QED BY <1>2, <2>1, <2>2 DEF AskStep
<1>3. CASE RejectStatus \/ RejectEdit
  <2>1. UNCHANGED <<kind, status, scope, text, ballots, valid, claimed, events,
                    scopes, told, tasks, publishing>>
    BY <1>3 DEF RejectStatus, RejectEdit, Handles, setup, fields, list, notes, past
  <2> QED BY <2>1, PublicStays
<1>4. CASE UNCHANGED vars
  <2>1. UNCHANGED <<kind, status, scope, text, ballots, valid, claimed, events,
                    scopes, told, tasks, publishing>>
    BY <1>4 DEF vars, setup, fields, list, notes, past
  <2> QED BY <2>1, PublicStays
<1>5. CASE CommitEvent \/ CommitEdit \/ CommitStatus
  BY <1>5, EventEnters, EventIsAmended, EventIsDecided DEF Public!Next
<1>6. CASE \E byChair \in BOOLEAN : Publish(byChair)
  BY <1>6, NewsIsOut
<1> QED BY <1>1, <1>2, <1>3, <1>4, <1>5, <1>6 DEF Next, EngineStep

-----------------------------------------------------------------------------
(* The theorems.                                                           *)

\* IInv holds of every behaviour, for any events, seats, chair and edits.
THEOREM Invariance == Spec => []IInv
<1>1. IInv /\ [Next]_vars => IInv'
  BY TypeStep, OrderStep, RecordStep, InformedStep, LeaksStep, TaskedStep,
     ChangeFacts, PendingStep DEF IInv
<1>2. QED BY <1>1, InitIInv, PTL DEF Spec

\* Every variable keeps its type, ids within the list included.
THEOREM TypeCorrect == Spec => []TypeOK
<1>1. IInv => TypeOK
  BY DEF IInv, TypeInv
<1>2. QED BY <1>1, Invariance, PTL

\* The list of pending ids is always the undecided events in order
\* (EventList._commit_event, _update_event_status).
THEOREM PendingExact == Spec => []PendingListExact
<1>1. IInv => PendingListExact
  BY DEF IInv
<1>2. QED BY <1>1, Invariance, PTL

\* No interleaving of edits makes the ballots of a vote illegal
\* (VoteEvent._validate_edit).
THEOREM BallotsLegal == Spec => []BallotsStayLegal
<1>1. IInv => BallotsStayLegal
  BY DEF IInv
<1>2. QED BY <1>1, Invariance, PTL

\* Whoever a scope lets in or puts out learns it before the next command
\* (VenueEngine._process_event_edit).
THEOREM ScopesInform == Spec => []ScopeIsInformed
<1>1. IInv => ScopeIsInformed
  BY DEF IInv, Informed, ScopeIsInformed
<1>2. QED BY <1>1, Invariance, PTL

\* Nobody ever learns a revision that the scope kept from him
\* (Simulator._publish_event_observation, _chair_can_observe).
THEOREM NoLeak == Spec => []NothingLeaks
<1>1. IInv => NothingLeaks
  BY DEF IInv
<1>2. QED BY <1>1, Invariance, PTL

\* The DM is given each of its tasks exactly once.
THEOREM TasksOnce == Spec => []DMTaskedOnce
<1>1. IInv => DMTaskedOnce
  BY DEF IInv, Tasked, Due, TaskInHand, DMTaskedOnce
<1>2. QED BY <1>1, Invariance, PTL

\* The venue has the record of MeetingRecord: what enters it is what was handed in, and
\* each version of it is known at once to the right seats and to the DM, although
\* commands are checked in a queue and told of afterwards (EventList,
\* VenueEngine._process).
THEOREM ImplementsRecord == Spec => RecordSpec
<1>1. ASSUME Init PROVE Public!Init
  <2>1. Version = [e \in Event |-> 0]
    BY <1>1 DEF Init, Version, Revision
  <2>2. Knows = [r \in Rep |-> [e \in Event |-> 0]]
    <3>1. \A r \in Rep : r \in Agent
      BY DEF Agent
    <3> QED BY <1>1, <3>1 DEF Init, Knows, News
  <2>3. Given = <<>>
    BY <1>1 DEF Init, Given
  <2> QED BY <1>1, <2>1, <2>2, <2>3 DEF Init, Public!Init
<1>2. IInv /\ [Next]_vars => [Public!Next]_(Public!vars)
  BY StepIsPublic DEF IInv
<1> QED BY <1>1, <1>2, Invariance, PTL DEF Spec, RecordSpec, Public!Spec

\* A decided event never changes again, whatever is still in the queue
\* (Event._require_editable): the record of MeetingRecord has no step that does it.
THEOREM VerdictsFinal == Spec => VerdictIsFinal
<1>1. ASSUME [Public!Next]_(Public!vars)
      PROVE  \A e \in Event : status[e] # "pending" =>
               /\ status'[e] = status[e] /\ scope'[e] = scope[e] /\ text'[e] = text[e]
               /\ ballots'[e] = ballots[e] /\ valid'[e] = valid[e]
  <2>1. SUFFICES ASSUME NEW e \in Event, status[e] # "pending"
                 PROVE  status'[e] = status[e] /\ scope'[e] = scope[e] /\ Body'[e] = Body[e]
    BY DEF Body
  <2>2. CASE UNCHANGED Public!vars
    BY <2>2 DEF Public!vars
  <2>3. ASSUME NEW f \in Event, Public!Draft(f) \/ Public!Amend(f) \/ Public!Decide(f)
        PROVE  status'[e] = status[e] /\ scope'[e] = scope[e] /\ Body'[e] = Body[e]
    BY <2>1, <2>3 DEF Public!Draft, Public!Amend, Public!Decide, Public!Touches
  <2>4. ASSUME NEW f \in Event, Public!HandIn(f) \/ Public!Enter(f)
        PROVE  status'[e] = status[e] /\ scope'[e] = scope[e] /\ Body'[e] = Body[e]
    BY <2>4 DEF Public!HandIn, Public!Enter
  <2> QED BY <1>1, <2>2, <2>3, <2>4 DEF Public!Next
<1>2. [Public!Next]_(Public!vars) =>
        [\A e \in Event : status[e] # "pending" =>
           /\ status'[e] = status[e] /\ scope'[e] = scope[e] /\ text'[e] = text[e]
           /\ ballots'[e] = ballots[e] /\ valid'[e] = valid[e]]_vars
  BY <1>1
<1> QED BY <1>2, ImplementsRecord, PTL DEF RecordSpec, Public!Spec, VerdictIsFinal

\* The right agents learn of every revision, and no others.
THEOREM TellsRight == Spec => []RightOnesTold
BY ScopesInform, NoLeak, PTL DEF RightOnesTold
=============================================================================
