------------------------- MODULE VenueCommandsProofs -------------------------
(***************************************************************************)
(* Theorems about VenueCommands, for any set of commands and events.  IInv *)
(* is the inductive invariant: where each command is (Places), how far its *)
(* sender got (Callers), what the gate implies (Gate), who will resolve    *)
(* what is unresolved (Resolvers) and which claims exist (Claims).         *)
(***************************************************************************)
EXTENDS VenueCommands, TLAPS

USE DEF Enqueue

Distinct(seq) == \A i, j \in 1..Len(seq) : seq[i] = seq[j] => i = j

Busy == {"taken", "running", "effective", "answering", "refusing"}

\* TypeOK alone is not inductive: the ledger gets only commands because the
\* engine holds one whenever it is busy.
TypeInv == TypeOK /\ (stage \in Busy <=> current \in Command)

Callers ==
  \A c \in Command :
    /\ caller[c] = "idle" => future[c] = "new" /\ answer[c] = "none"
    /\ caller[c] \in {"waiting", "expired", "closing", "failing"} =>
         future[c] # "new"
    /\ caller[c] # "done" => answer[c] = "none"
    /\ answer[c] \in {"ok", "error"} => future[c] = answer[c]
    /\ answer[c] \in {"duplicate", "reentry"} => future[c] = "new"
    /\ future[c] = "new" <=> ~In(c, accepted)

Places ==
  /\ Distinct(queue)
  /\ \A c \in Command :
       /\ In(c, queue) => /\ future[c] \in {"pending", "stopped"}
                          /\ c # current
                          /\ ~In(c, ledger)
       /\ In(c, ledger) => future[c] # "new"
       /\ future[c] = "pending" => In(c, queue) \/ (stage = "taken" /\ c = current)
       /\ future[c] = "running" => c = current \/ fault
       /\ future[c] = "ok" => In(c, ledger) /\ c \in published
  /\ stage = "taken" => future[current] \in {"pending", "stopped"}
  /\ stage \in Busy \ {"taken"} => future[current] \in {"running", "stopped"}
  /\ stage \in {"taken", "running"} => ~In(current, ledger)
  /\ stage \in {"effective", "answering"} => In(current, ledger)
  /\ stage = "answering" => current \in published
  /\ fault => stage \in {"closing", "failing", "dead"}
  /\ Distinct(ledger)

Gate ==
  /\ processing => /\ threadId
                   /\ failure = "none"
                   /\ ~In(Stop, queue)
                   /\ stage \notin {"off", "failing", "dead"}
                   /\ stage = "closing" => fault
  /\ \A i \in 1..Len(queue) : queue[i] = Stop => i = Len(queue)
  /\ stage = "closing" /\ ~fault => queue = <<>>
  /\ stage = "off" => /\ failure = "none"
                      /\ queue = <<>>
                      /\ \A c \in Command : future[c] = "new"
  /\ fault /\ stage \in {"failing", "dead"} => failure # "none"

Resolvers ==
  /\ NoOrphan
  /\ \A c \in pending : Unresolved(c)
  /\ \A p \in Command \cup {Engine} : toFail[p] \cap pending = {}
  /\ \A p \in Command \cup {Engine} : \A c \in toFail[p] : future[c] # "new"
  /\ failure # "none" => pending = {} /\ ~processing
  /\ failure = "none" => /\ \A p \in Command \cup {Engine} : toFail[p] = {}
                         /\ \A c \in Command : future[c] # "stopped"
  /\ \A c \in Command :
       caller[c] = "failing" \/ answer[c] = "timeout" => failure # "none"

Claims ==
  /\ \A c \in Submission : future[c] # "new" => EventOf[c] \in claimed
  /\ \A c, d \in Submission :
       future[c] # "new" /\ future[d] # "new" /\ EventOf[c] = EventOf[d] => c = d
  /\ ClaimsAreBacked

\* c was failed before the engine started it.
Out(c) ==
  /\ future[c] \in Resolved
  /\ ~In(c, ledger)
  /\ c = current => stage = "taken"

IInv == TypeInv /\ Callers /\ Places /\ Gate /\ Resolvers /\ Claims

-----------------------------------------------------------------------------
(* Facts about membership and distinctness in a queue.                     *)

\* What Queue.put adds to the members of a queue.
LEMMA InAppend ==
  ASSUME NEW S, NEW s \in Seq(S), NEW e \in S, NEW x
  PROVE  In(x, Append(s, e)) <=> In(x, s) \/ x = e
BY DEF In

\* What Queue.get removes from them.
LEMMA InTail ==
  ASSUME NEW S, NEW s \in Seq(S), s # <<>>, NEW x
  PROVE  In(x, s) <=> x = Head(s) \/ In(x, Tail(s))
<1>1. ASSUME In(x, s) PROVE x = Head(s) \/ In(x, Tail(s))
  <2>1. PICK i \in 1..Len(s) : s[i] = x
    BY <1>1 DEF In
  <2>2. CASE i = 1
    BY <2>1, <2>2
  <2>3. CASE i # 1
    <3>1. i - 1 \in 1..Len(Tail(s)) /\ Tail(s)[i - 1] = x
      BY <2>1, <2>3
    <3>2. QED BY <3>1 DEF In
  <2>4. QED BY <2>2, <2>3
<1>2. ASSUME x = Head(s) PROVE In(x, s)
  <2>1. 1 \in 1..Len(s) /\ s[1] = x
    BY <1>2
  <2>2. QED BY <2>1 DEF In
<1>3. ASSUME In(x, Tail(s)) PROVE In(x, s)
  <2>1. PICK i \in 1..Len(Tail(s)) : Tail(s)[i] = x
    BY <1>3 DEF In
  <2>2. i + 1 \in 1..Len(s) /\ s[i + 1] = x
    BY <2>1
  <2>3. QED BY <2>2 DEF In
<1>4. QED BY <1>1, <1>2, <1>3

\* A new element keeps a queue free of duplicates.
LEMMA DistinctAppend ==
  ASSUME NEW S, NEW s \in Seq(S), NEW e \in S, Distinct(s), ~In(e, s)
  PROVE  Distinct(Append(s, e))
BY DEF Distinct, In

\* What is taken from a queue free of duplicates is not in the rest of it.
LEMMA DistinctTail ==
  ASSUME NEW S, NEW s \in Seq(S), s # <<>>, Distinct(s)
  PROVE  Distinct(Tail(s)) /\ ~In(Head(s), Tail(s))
<1>1. \A i \in 1..Len(Tail(s)) : i + 1 \in 1..Len(s) /\ Tail(s)[i] = s[i + 1]
  OBVIOUS
<1>2. Distinct(Tail(s))
  BY <1>1 DEF Distinct
<1>3. ASSUME In(Head(s), Tail(s)) PROVE FALSE
  <2>1. PICK i \in 1..Len(Tail(s)) : Tail(s)[i] = Head(s)
    BY <1>3 DEF In
  <2>2. i + 1 \in 1..Len(s) /\ s[i + 1] = s[1] /\ 1 \in 1..Len(s)
    BY <2>1, <1>1
  <2>3. QED BY <2>2 DEF Distinct
<1>4. QED BY <1>2, <1>3

\* A command or the stop marker joins the queue.
LEMMA PutEntry ==
  ASSUME queue \in Seq(Command \cup {Stop}), NEW e \in Command \cup {Stop}
  PROVE  /\ Append(queue, e) \in Seq(Command \cup {Stop})
         /\ \A x : In(x, Append(queue, e)) <=> In(x, queue) \/ x = e
<1>1. Append(queue, e) \in Seq(Command \cup {Stop})
  OBVIOUS
<1>2. ASSUME NEW x PROVE In(x, Append(queue, e)) <=> In(x, queue) \/ x = e
  BY InAppend
<1>3. QED BY <1>1, <1>2
\* Each step keeps every variable in its range.
LEMMA TypeStep ==
  ASSUME TypeInv, [Next]_vars
  PROVE  TypeInv'
<1> USE CommandAssumption DEF TypeInv, TypeOK, Busy, Resolved, gateVars, callVars, engineVars
<1>1. ASSUME NEW c \in Command, SubmitRefused(c) PROVE TypeInv'
  BY <1>1 DEF SubmitRefused, Reply, ToolReport
<1>2. ASSUME NEW c \in Command, SubmitDuplicate(c) PROVE TypeInv'
  BY <1>2 DEF SubmitDuplicate, Reply, ToolReport
<1>3. ASSUME NEW c \in Command, Submit(c) PROVE TypeInv'
  BY <1>3 DEF Submit, AlreadyClaimed
<1>4. ASSUME NEW c \in Command, Receive(c) PROVE TypeInv'
  BY <1>4 DEF Receive, Reply, ToolReport
<1>5. ASSUME NEW c \in Command, Expire(c) PROVE TypeInv'
  BY <1>5 DEF Expire
<1>6. ASSUME NEW c \in Command, ReceiveLate(c) PROVE TypeInv'
  BY <1>6 DEF ReceiveLate, Reply, ToolReport
<1>7. ASSUME NEW c \in Command, DecideToClose(c) PROVE TypeInv'
  BY <1>7 DEF DecideToClose
<1>8. ASSUME NEW c \in Command, CloseVenue(c) PROVE TypeInv'
  BY <1>8, PutEntry DEF CloseVenue, Finish
<1>9. ASSUME NEW c \in Command, FailPending(c) PROVE TypeInv'
  BY <1>9 DEF FailPending, FailNext
<1>10. ASSUME NEW c \in Command, RaiseTimeout(c) PROVE TypeInv'
  BY <1>10 DEF RaiseTimeout, Reply, ToolReport
<1>11. CASE RequestStop
  BY <1>11, PutEntry DEF RequestStop
<1>12. CASE EngineStart
  BY <1>12 DEF EngineStart
<1>13. CASE Take
  BY <1>13 DEF Take
<1>14. CASE Skip
  BY <1>14 DEF Skip
<1>15. CASE StartCommand
  BY <1>15 DEF StartCommand
<1>16. CASE Reject
  BY <1>16 DEF Reject
<1>17. CASE TakeEffect
  BY <1>17 DEF TakeEffect
<1>18. CASE ListenerFails
  BY <1>18 DEF ListenerFails
<1>19. ASSUME NEW d \in Command, ListenerReenters(d) PROVE TypeInv'
  BY <1>19 DEF ListenerReenters
<1>20. CASE Crash
  BY <1>20 DEF Crash
<1>21. CASE Publish
  BY <1>21 DEF Publish
<1>22. CASE Resolve
  BY <1>22 DEF Resolve
<1>23. CASE EngineFinish
  <2>1. CASE fault
    BY <1>23, <2>1, PutEntry DEF EngineFinish, Finish
  <2>2. CASE ~fault
    BY <1>23, <2>2 DEF EngineFinish, Finish
  <2>3. QED BY <2>1, <2>2
<1>24. CASE EngineFailPending
  BY <1>24 DEF EngineFailPending, FailNext
<1>25. CASE EngineExit
  BY <1>25 DEF EngineExit
<1>26. CASE UNCHANGED vars
  BY <1>26 DEF vars
<1>27. QED
  BY <1>1, <1>2, <1>3, <1>4, <1>5, <1>6, <1>7, <1>8, <1>9, <1>10, <1>11, <1>12, <1>13, <1>14, <1>15, <1>16, <1>17, <1>18, <1>19, <1>20, <1>21, <1>22, <1>23, <1>24, <1>25, <1>26
     DEF Next, SubmitStep, CallerStep, EngineStep

\* A sender that left idle had its command accepted or was answered.
LEMMA CallersStep ==
  ASSUME IInv, [Next]_vars
  PROVE  Callers'
<1> USE CommandAssumption DEF IInv, TypeInv, TypeOK, Busy, Resolved, gateVars, callVars, engineVars, Callers
<1>1. ASSUME NEW c \in Command, SubmitRefused(c) PROVE Callers'
  BY <1>1 DEF SubmitRefused, Reply, ToolReport
<1>2. ASSUME NEW c \in Command, SubmitDuplicate(c) PROVE Callers'
  BY <1>2 DEF SubmitDuplicate, Reply, ToolReport
<1>3. ASSUME NEW c \in Command, Submit(c) PROVE Callers'
  <2>1. \A x : In(x, accepted') <=> In(x, accepted) \/ x = c
    BY <1>3, InAppend DEF Submit
  <2>2. QED BY <1>3, <2>1 DEF Submit, AlreadyClaimed
<1>4. ASSUME NEW c \in Command, Receive(c) PROVE Callers'
  BY <1>4 DEF Receive, Reply, ToolReport
<1>5. ASSUME NEW c \in Command, Expire(c) PROVE Callers'
  BY <1>5 DEF Expire
<1>6. ASSUME NEW c \in Command, ReceiveLate(c) PROVE Callers'
  BY <1>6 DEF ReceiveLate, Reply, ToolReport
<1>7. ASSUME NEW c \in Command, DecideToClose(c) PROVE Callers'
  BY <1>7 DEF DecideToClose
<1>8. ASSUME NEW c \in Command, CloseVenue(c) PROVE Callers'
  BY <1>8 DEF CloseVenue, Finish
<1>9. ASSUME NEW c \in Command, FailPending(c) PROVE Callers'
  BY <1>9 DEF FailPending, FailNext, Resolvers
<1>10. ASSUME NEW c \in Command, RaiseTimeout(c) PROVE Callers'
  BY <1>10 DEF RaiseTimeout, Reply, ToolReport
<1>11. CASE RequestStop
  BY <1>11 DEF RequestStop
<1>12. CASE EngineStart
  BY <1>12 DEF EngineStart
<1>13. CASE Take
  BY <1>13 DEF Take
<1>14. CASE Skip
  BY <1>14 DEF Skip
<1>15. CASE StartCommand
  BY <1>15 DEF StartCommand, Places
<1>16. CASE Reject
  BY <1>16 DEF Reject
<1>17. CASE TakeEffect
  BY <1>17 DEF TakeEffect
<1>18. CASE ListenerFails
  BY <1>18 DEF ListenerFails
<1>19. ASSUME NEW d \in Command, ListenerReenters(d) PROVE Callers'
  BY <1>19 DEF ListenerReenters
<1>20. CASE Crash
  BY <1>20 DEF Crash
<1>21. CASE Publish
  BY <1>21 DEF Publish
<1>22. CASE Resolve
  BY <1>22 DEF Resolve, Places
<1>23. CASE EngineFinish
  BY <1>23 DEF EngineFinish, Finish
<1>24. CASE EngineFailPending
  BY <1>24 DEF EngineFailPending, FailNext, Resolvers
<1>25. CASE EngineExit
  BY <1>25 DEF EngineExit
<1>26. CASE UNCHANGED vars
  BY <1>26 DEF vars
<1>27. QED
  BY <1>1, <1>2, <1>3, <1>4, <1>5, <1>6, <1>7, <1>8, <1>9, <1>10, <1>11, <1>12, <1>13, <1>14, <1>15, <1>16, <1>17, <1>18, <1>19, <1>20, <1>21, <1>22, <1>23, <1>24, <1>25, <1>26
     DEF Next, SubmitStep, CallerStep, EngineStep

\* Every command stays in one place: the queue, the engine's hands, or past them.
LEMMA PlacesStep ==
  ASSUME IInv, [Next]_vars
  PROVE  Places'
<1> USE CommandAssumption DEF IInv, TypeInv, TypeOK, Busy, Resolved, gateVars, callVars, engineVars, Places
<1>1. ASSUME NEW c \in Command, SubmitRefused(c) PROVE Places'
  BY <1>1 DEF SubmitRefused, Reply, ToolReport
<1>2. ASSUME NEW c \in Command, SubmitDuplicate(c) PROVE Places'
  BY <1>2 DEF SubmitDuplicate, Reply, ToolReport
<1>3. ASSUME NEW c \in Command, Submit(c) PROVE Places'
  <2>1. \A x : In(x, queue') <=> In(x, queue) \/ x = c
    BY <1>3, PutEntry DEF Submit
  <2>2. ~In(c, queue) /\ ~In(c, ledger) /\ c # current
    BY <1>3 DEF Submit, Callers
  <2>3. Distinct(queue')
    BY <1>3, <2>2, DistinctAppend DEF Submit
  <2>4. QED BY <1>3, <2>1, <2>2, <2>3 DEF Submit, AlreadyClaimed, Callers
<1>4. ASSUME NEW c \in Command, Receive(c) PROVE Places'
  BY <1>4 DEF Receive, Reply, ToolReport
<1>5. ASSUME NEW c \in Command, Expire(c) PROVE Places'
  BY <1>5 DEF Expire
<1>6. ASSUME NEW c \in Command, ReceiveLate(c) PROVE Places'
  BY <1>6 DEF ReceiveLate, Reply, ToolReport
<1>7. ASSUME NEW c \in Command, DecideToClose(c) PROVE Places'
  BY <1>7 DEF DecideToClose
<1>8. ASSUME NEW c \in Command, CloseVenue(c) PROVE Places'
  <2>1. CASE processing
    <3>1. \A x : In(x, queue') <=> In(x, queue) \/ x = Stop
      BY <1>8, <2>1, PutEntry DEF CloseVenue, Finish
    <3>2. Distinct(queue')
      BY <1>8, <2>1, DistinctAppend DEF CloseVenue, Finish, Gate
    <3>3. QED BY <1>8, <3>1, <3>2 DEF CloseVenue, Finish
  <2>2. CASE ~processing
    BY <1>8, <2>2 DEF CloseVenue, Finish
  <2>3. QED BY <2>1, <2>2
<1>9. ASSUME NEW c \in Command, FailPending(c) PROVE Places'
  BY <1>9 DEF FailPending, FailNext, Resolvers
<1>10. ASSUME NEW c \in Command, RaiseTimeout(c) PROVE Places'
  BY <1>10 DEF RaiseTimeout, Reply, ToolReport
<1>11. CASE RequestStop
  <2>1. \A x : In(x, queue') <=> In(x, queue) \/ x = Stop
    BY <1>11, PutEntry DEF RequestStop
  <2>2. Distinct(queue')
    BY <1>11, DistinctAppend DEF RequestStop, Gate
  <2>3. QED BY <1>11, <2>1, <2>2 DEF RequestStop
<1>12. CASE EngineStart
  BY <1>12 DEF EngineStart
<1>13. CASE Take
  <2>1. \A x : In(x, queue) <=> x = Head(queue) \/ In(x, queue')
    BY <1>13, InTail DEF Take
  <2>2. Distinct(queue') /\ ~In(Head(queue), queue')
    BY <1>13, DistinctTail DEF Take
  <2>3. QED BY <1>13, <2>1, <2>2 DEF Take
<1>14. CASE Skip
  BY <1>14 DEF Skip
<1>15. CASE StartCommand
  BY <1>15 DEF StartCommand
<1>16. CASE Reject
  BY <1>16 DEF Reject
<1>17. CASE TakeEffect
  <2>1. \A x : In(x, ledger') <=> In(x, ledger) \/ x = current
    BY <1>17, InAppend DEF TakeEffect
  <2>2. Distinct(ledger')
    BY <1>17, DistinctAppend DEF TakeEffect
  <2>3. QED BY <1>17, <2>1, <2>2 DEF TakeEffect
<1>18. CASE ListenerFails
  BY <1>18 DEF ListenerFails
<1>19. ASSUME NEW d \in Command, ListenerReenters(d) PROVE Places'
  BY <1>19 DEF ListenerReenters
<1>20. CASE Crash
  BY <1>20 DEF Crash
<1>21. CASE Publish
  BY <1>21 DEF Publish
<1>22. CASE Resolve
  BY <1>22 DEF Resolve
<1>23. CASE EngineFinish
  <2>1. CASE processing /\ fault
    <3>1. \A x : In(x, queue') <=> In(x, queue) \/ x = Stop
      BY <1>23, <2>1, PutEntry DEF EngineFinish, Finish
    <3>2. Distinct(queue')
      BY <1>23, <2>1, DistinctAppend DEF EngineFinish, Finish, Gate
    <3>3. QED BY <1>23, <3>1, <3>2 DEF EngineFinish, Finish
  <2>2. CASE ~(processing /\ fault)
    BY <1>23, <2>2 DEF EngineFinish, Finish
  <2>3. QED BY <2>1, <2>2
<1>24. CASE EngineFailPending
  BY <1>24 DEF EngineFailPending, FailNext, Resolvers
<1>25. CASE EngineExit
  BY <1>25 DEF EngineExit
<1>26. CASE UNCHANGED vars
  BY <1>26 DEF vars
<1>27. QED
  BY <1>1, <1>2, <1>3, <1>4, <1>5, <1>6, <1>7, <1>8, <1>9, <1>10, <1>11, <1>12, <1>13, <1>14, <1>15, <1>16, <1>17, <1>18, <1>19, <1>20, <1>21, <1>22, <1>23, <1>24, <1>25, <1>26
     DEF Next, SubmitStep, CallerStep, EngineStep

\* Once shut, by a stop, a timeout or a crash, the gate stays shut and the marker stays last.
LEMMA GateStep ==
  ASSUME IInv, [Next]_vars
  PROVE  Gate'
<1> USE CommandAssumption DEF IInv, TypeInv, TypeOK, Busy, Resolved, gateVars, callVars, engineVars, Gate
<1>1. ASSUME NEW c \in Command, SubmitRefused(c) PROVE Gate'
  BY <1>1 DEF SubmitRefused, Reply, ToolReport
<1>2. ASSUME NEW c \in Command, SubmitDuplicate(c) PROVE Gate'
  BY <1>2 DEF SubmitDuplicate, Reply, ToolReport
<1>3. ASSUME NEW c \in Command, Submit(c) PROVE Gate'
  <2>1. \A x : In(x, queue') <=> In(x, queue) \/ x = c
    BY <1>3, PutEntry DEF Submit
  <2>2. c # Stop /\ \A i \in 1..Len(queue) : queue[i] # Stop
    BY <1>3 DEF Submit, In
  <2>3. \A i \in 1..Len(queue') : queue'[i] # Stop
    BY <1>3, <2>2 DEF Submit
  <2>4. QED BY <1>3, <2>1, <2>3 DEF Submit, AlreadyClaimed
<1>4. ASSUME NEW c \in Command, Receive(c) PROVE Gate'
  BY <1>4 DEF Receive, Reply, ToolReport
<1>5. ASSUME NEW c \in Command, Expire(c) PROVE Gate'
  BY <1>5 DEF Expire
<1>6. ASSUME NEW c \in Command, ReceiveLate(c) PROVE Gate'
  BY <1>6 DEF ReceiveLate, Reply, ToolReport
<1>7. ASSUME NEW c \in Command, DecideToClose(c) PROVE Gate'
  BY <1>7 DEF DecideToClose
<1>8. ASSUME NEW c \in Command, CloseVenue(c) PROVE Gate'
  <2>1. CASE processing
    <3>1. \A i \in 1..Len(queue) : queue[i] # Stop
      BY <1>8, <2>1 DEF In
    <3>2. QED BY <1>8, <2>1, <3>1 DEF CloseVenue, Finish
  <2>2. CASE ~processing
    BY <1>8, <2>2 DEF CloseVenue, Finish, Callers
  <2>3. QED BY <2>1, <2>2
<1>9. ASSUME NEW c \in Command, FailPending(c) PROVE Gate'
  BY <1>9 DEF FailPending, FailNext, Resolvers
<1>10. ASSUME NEW c \in Command, RaiseTimeout(c) PROVE Gate'
  BY <1>10 DEF RaiseTimeout, Reply, ToolReport
<1>11. CASE RequestStop
  <2>1. \A i \in 1..Len(queue) : queue[i] # Stop
    BY <1>11 DEF RequestStop, In
  <2>2. QED BY <1>11, <2>1 DEF RequestStop
<1>12. CASE EngineStart
  <2>1. ~In(Stop, queue)
    BY <1>12 DEF EngineStart, In
  <2>2. QED BY <1>12, <2>1 DEF EngineStart
<1>13. CASE Take
  <2>1. \A x : In(x, queue) <=> x = Head(queue) \/ In(x, queue')
    BY <1>13, InTail DEF Take
  <2>2. \A i \in 1..Len(queue') : i + 1 \in 1..Len(queue) /\ queue'[i] = queue[i + 1]
    BY <1>13 DEF Take
  <2>3. QED BY <1>13, <2>1, <2>2 DEF Take
<1>14. CASE Skip
  BY <1>14 DEF Skip
<1>15. CASE StartCommand
  BY <1>15 DEF StartCommand
<1>16. CASE Reject
  BY <1>16 DEF Reject
<1>17. CASE TakeEffect
  BY <1>17 DEF TakeEffect
<1>18. CASE ListenerFails
  BY <1>18 DEF ListenerFails
<1>19. ASSUME NEW d \in Command, ListenerReenters(d) PROVE Gate'
  BY <1>19 DEF ListenerReenters
<1>20. CASE Crash
  BY <1>20 DEF Crash
<1>21. CASE Publish
  BY <1>21 DEF Publish
<1>22. CASE Resolve
  BY <1>22 DEF Resolve
<1>23. CASE EngineFinish
  <2>1. CASE processing /\ fault
    <3>1. \A i \in 1..Len(queue) : queue[i] # Stop
      BY <1>23, <2>1 DEF In
    <3>2. QED BY <1>23, <2>1, <3>1 DEF EngineFinish, Finish
  <2>2. CASE ~(processing /\ fault)
    BY <1>23, <2>2 DEF EngineFinish, Finish
  <2>3. QED BY <2>1, <2>2
<1>24. CASE EngineFailPending
  BY <1>24 DEF EngineFailPending, FailNext
<1>25. CASE EngineExit
  BY <1>25 DEF EngineExit
<1>26. CASE UNCHANGED vars
  BY <1>26 DEF vars
<1>27. QED
  BY <1>1, <1>2, <1>3, <1>4, <1>5, <1>6, <1>7, <1>8, <1>9, <1>10, <1>11, <1>12, <1>13, <1>14, <1>15, <1>16, <1>17, <1>18, <1>19, <1>20, <1>21, <1>22, <1>23, <1>24, <1>25, <1>26
     DEF Next, SubmitStep, CallerStep, EngineStep

\* Whoever stops the engine takes over the futures it leaves behind.
LEMMA ResolversStep ==
  ASSUME IInv, [Next]_vars
  PROVE  Resolvers'
<1> USE CommandAssumption DEF IInv, TypeInv, TypeOK, Busy, Resolved, gateVars, callVars, engineVars, Resolvers, NoOrphan, Unresolved, Closing
<1>1. ASSUME NEW c \in Command, SubmitRefused(c) PROVE Resolvers'
  BY <1>1 DEF SubmitRefused, Reply, ToolReport
<1>2. ASSUME NEW c \in Command, SubmitDuplicate(c) PROVE Resolvers'
  BY <1>2 DEF SubmitDuplicate, Reply, ToolReport
<1>3. ASSUME NEW c \in Command, Submit(c) PROVE Resolvers'
  BY <1>3 DEF Submit, AlreadyClaimed, Gate, Callers
<1>4. ASSUME NEW c \in Command, Receive(c) PROVE Resolvers'
  BY <1>4 DEF Receive, Reply, ToolReport
<1>5. ASSUME NEW c \in Command, Expire(c) PROVE Resolvers'
  BY <1>5 DEF Expire
<1>6. ASSUME NEW c \in Command, ReceiveLate(c) PROVE Resolvers'
  BY <1>6 DEF ReceiveLate, Reply, ToolReport
<1>7. ASSUME NEW c \in Command, DecideToClose(c) PROVE Resolvers'
  BY <1>7 DEF DecideToClose
<1>8. ASSUME NEW c \in Command, CloseVenue(c) PROVE Resolvers'
  <2>1. toFail' = [toFail EXCEPT ![c] = pending] /\ pending' = {} /\ ~processing'
    BY <1>8 DEF CloseVenue, Finish
  <2>2. failure' # "none" /\ caller' = [caller EXCEPT ![c] = "failing"]
    BY <1>8 DEF CloseVenue, Finish
  <2>3. caller[c] = "closing" /\ UNCHANGED <<stage, answer, future>>
    BY <1>8 DEF CloseVenue
  <2>4. NoOrphan'
    BY <2>1, <2>2, <2>3 DEF NoOrphan
  <2>5. \A p \in Command \cup {Engine} : \A d \in toFail'[p] : future'[d] # "new"
    BY <2>1, <2>3
  <2>6. QED
    <3> HIDE DEF NoOrphan
    <3> QED BY <2>1, <2>2, <2>3, <2>4, <2>5
<1>9. ASSUME NEW c \in Command, FailPending(c) PROVE Resolvers'
  BY <1>9 DEF FailPending, FailNext
<1>10. ASSUME NEW c \in Command, RaiseTimeout(c) PROVE Resolvers'
  BY <1>10 DEF RaiseTimeout, Reply, ToolReport
<1>11. CASE RequestStop
  BY <1>11 DEF RequestStop
<1>12. CASE EngineStart
  BY <1>12 DEF EngineStart
<1>13. CASE Take
  BY <1>13 DEF Take
<1>14. CASE Skip
  BY <1>14 DEF Skip
<1>15. CASE StartCommand
  BY <1>15 DEF StartCommand, Places
<1>16. CASE Reject
  BY <1>16 DEF Reject
<1>17. CASE TakeEffect
  BY <1>17 DEF TakeEffect
<1>18. CASE ListenerFails
  BY <1>18 DEF ListenerFails
<1>19. ASSUME NEW d \in Command, ListenerReenters(d) PROVE Resolvers'
  BY <1>19 DEF ListenerReenters
<1>20. CASE Crash
  BY <1>20 DEF Crash
<1>21. CASE Publish
  BY <1>21 DEF Publish
<1>22. CASE Resolve
  BY <1>22 DEF Resolve, Places
<1>23. CASE EngineFinish
  <2>1. CASE fault
    <3>1. toFail' = [toFail EXCEPT ![Engine] = pending] /\ pending' = {} /\ ~processing'
      BY <1>23 DEF EngineFinish, Finish
    <3>2. stage = "closing" /\ stage' = "failing" /\ failure' # "none"
      BY <1>23, <2>1 DEF EngineFinish, Finish
    <3>3. UNCHANGED <<caller, answer, future>>
      BY <1>23 DEF EngineFinish
    <3>4. NoOrphan'
      BY <3>1, <3>2, <3>3 DEF NoOrphan
    <3>5. QED BY <3>1, <3>2, <3>3, <3>4
  <2>2. CASE ~fault
    <3>1. queue = <<>> /\ \A x : ~In(x, queue)
      BY <1>23, <2>2 DEF EngineFinish, Gate, In
    <3>2. pending = {}
      BY <1>23, <2>2, <3>1 DEF EngineFinish, Places
    <3>3. QED BY <1>23, <2>2, <3>2 DEF EngineFinish, Finish
  <2>3. QED BY <2>1, <2>2
<1>24. CASE EngineFailPending
  <2>1. stage = "failing" /\ stage' = stage
    BY <1>24 DEF EngineFailPending, FailNext
  <2>2. PICK d \in toFail[Engine] :
          /\ toFail' = [toFail EXCEPT ![Engine] = toFail[Engine] \ {d}]
          /\ future' = [future EXCEPT ![d] =
                         IF future[d] \in Resolved THEN future[d] ELSE "stopped"]
          /\ UNCHANGED <<processing, failure, pending, caller, answer>>
    BY <1>24 DEF EngineFailPending, FailNext
  <2>3. NoOrphan'
    BY <2>1, <2>2
  <2>4. failure # "none"
    BY <2>2
  <2>5. QED BY <2>1, <2>2, <2>3, <2>4
<1>25. CASE EngineExit
  BY <1>25 DEF EngineExit
<1>26. CASE UNCHANGED vars
  BY <1>26 DEF vars
<1>27. QED
  BY <1>1, <1>2, <1>3, <1>4, <1>5, <1>6, <1>7, <1>8, <1>9, <1>10, <1>11, <1>12, <1>13, <1>14, <1>15, <1>16, <1>17, <1>18, <1>19, <1>20, <1>21, <1>22, <1>23, <1>24, <1>25, <1>26
     DEF Next, SubmitStep, CallerStep, EngineStep

\* A claim and the acceptance of its submission are one step.
LEMMA ClaimsStep ==
  ASSUME IInv, [Next]_vars
  PROVE  Claims'
<1> USE CommandAssumption DEF IInv, TypeInv, TypeOK, Busy, Resolved, gateVars, callVars, engineVars, Claims, ClaimsAreBacked
<1>1. ASSUME NEW c \in Command, SubmitRefused(c) PROVE Claims'
  BY <1>1 DEF SubmitRefused, Reply, ToolReport
<1>2. ASSUME NEW c \in Command, SubmitDuplicate(c) PROVE Claims'
  BY <1>2 DEF SubmitDuplicate, Reply, ToolReport
<1>3. ASSUME NEW c \in Command, Submit(c) PROVE Claims'
  <2>1. \A x : In(x, accepted') <=> In(x, accepted) \/ x = c
    BY <1>3, InAppend DEF Submit
  <2>2. QED BY <1>3, <2>1 DEF Submit, AlreadyClaimed
<1>4. ASSUME NEW c \in Command, Receive(c) PROVE Claims'
  BY <1>4 DEF Receive, Reply, ToolReport
<1>5. ASSUME NEW c \in Command, Expire(c) PROVE Claims'
  BY <1>5 DEF Expire
<1>6. ASSUME NEW c \in Command, ReceiveLate(c) PROVE Claims'
  BY <1>6 DEF ReceiveLate, Reply, ToolReport
<1>7. ASSUME NEW c \in Command, DecideToClose(c) PROVE Claims'
  BY <1>7 DEF DecideToClose
<1>8. ASSUME NEW c \in Command, CloseVenue(c) PROVE Claims'
  BY <1>8 DEF CloseVenue, Finish
<1>9. ASSUME NEW c \in Command, FailPending(c) PROVE Claims'
  BY <1>9 DEF FailPending, FailNext, Resolvers
<1>10. ASSUME NEW c \in Command, RaiseTimeout(c) PROVE Claims'
  BY <1>10 DEF RaiseTimeout, Reply, ToolReport
<1>11. CASE RequestStop
  BY <1>11 DEF RequestStop
<1>12. CASE EngineStart
  BY <1>12 DEF EngineStart
<1>13. CASE Take
  BY <1>13 DEF Take
<1>14. CASE Skip
  BY <1>14 DEF Skip
<1>15. CASE StartCommand
  BY <1>15 DEF StartCommand, Places
<1>16. CASE Reject
  BY <1>16 DEF Reject
<1>17. CASE TakeEffect
  BY <1>17 DEF TakeEffect
<1>18. CASE ListenerFails
  BY <1>18 DEF ListenerFails
<1>19. ASSUME NEW d \in Command, ListenerReenters(d) PROVE Claims'
  BY <1>19 DEF ListenerReenters
<1>20. CASE Crash
  BY <1>20 DEF Crash
<1>21. CASE Publish
  BY <1>21 DEF Publish
<1>22. CASE Resolve
  BY <1>22 DEF Resolve, Places
<1>23. CASE EngineFinish
  BY <1>23 DEF EngineFinish, Finish
<1>24. CASE EngineFailPending
  BY <1>24 DEF EngineFailPending, FailNext, Resolvers
<1>25. CASE EngineExit
  BY <1>25 DEF EngineExit
<1>26. CASE UNCHANGED vars
  BY <1>26 DEF vars
<1>27. QED
  BY <1>1, <1>2, <1>3, <1>4, <1>5, <1>6, <1>7, <1>8, <1>9, <1>10, <1>11, <1>12, <1>13, <1>14, <1>15, <1>16, <1>17, <1>18, <1>19, <1>20, <1>21, <1>22, <1>23, <1>24, <1>25, <1>26
     DEF Next, SubmitStep, CallerStep, EngineStep

-----------------------------------------------------------------------------
(* The theorems.                                                           *)

\* A Venue whose engine has not started satisfies the invariant.
LEMMA InitIInv == Init => IInv
<1> SUFFICES ASSUME Init PROVE IInv
  OBVIOUS
<1>1. \A x : ~In(x, queue) /\ ~In(x, ledger) /\ ~In(x, accepted)
  BY DEF Init, In
<1>2. TypeInv
  <2>1. queue \in Seq(Command \cup {Stop}) /\ ledger \in Seq(Command)
          /\ accepted \in Seq(Command)
    BY DEF Init
  <2>2. stage \notin Busy /\ current \notin Command
    BY CommandAssumption DEF Init, Busy
  <2>3. toFail \in [Command \cup {Engine} -> SUBSET Command]
    BY DEF Init
  <2>4. QED BY <2>1, <2>2, <2>3 DEF Init, TypeInv, TypeOK
<1>3. Callers
  BY <1>1 DEF Init, Callers
<1>4. Places
  BY <1>1 DEF Init, Places, Distinct, Busy
<1>5. Gate
  BY DEF Init, Gate
<1>6. Resolvers
  BY DEF Init, Resolvers, NoOrphan, Unresolved
<1>7. Claims
  BY CommandAssumption DEF Init, Claims, ClaimsAreBacked
<1>8. QED BY <1>2, <1>3, <1>4, <1>5, <1>6, <1>7 DEF IInv

\* The inductive invariant holds of every behaviour of the command path.
THEOREM Invariance == Spec => []IInv
<1>1. IInv /\ [Next]_vars => IInv'
  <2> SUFFICES ASSUME IInv, [Next]_vars PROVE IInv'
    OBVIOUS
  <2>1. TypeInv'
    BY TypeStep DEF IInv
  <2>2. QED
    BY <2>1, CallersStep, PlacesStep, GateStep, ResolversStep, ClaimsStep DEF IInv
<1>2. QED BY InitIInv, <1>1, PTL DEF Spec

\* Every variable of the command path stays in its range.
THEOREM TypeCorrect == Spec => []TypeOK
<1>1. IInv => TypeOK
  BY DEF IInv, TypeInv
<1>2. QED BY Invariance, <1>1, PTL

\* No command takes effect twice and no Event object enters the EventList
\* twice, for any number of senders racing with stops, timeouts and crashes.
THEOREM AppliedAtMostOnce == Spec => []AppliedOnce
<1>1. IInv => AppliedOnce
  <2> SUFFICES ASSUME IInv, NEW i \in 1..Len(ledger), NEW j \in 1..Len(ledger), i # j
               PROVE  /\ ledger[i] # ledger[j]
                      /\ {ledger[i], ledger[j]} \subseteq Submission =>
                           EventOf[ledger[i]] # EventOf[ledger[j]]
    BY DEF AppliedOnce
  <2>1. ledger[i] # ledger[j]
    BY DEF IInv, Places, Distinct
  <2>2. ledger[i] \in Command /\ ledger[j] \in Command
    BY DEF IInv, TypeInv, TypeOK
  <2>3. In(ledger[i], ledger) /\ In(ledger[j], ledger)
    BY DEF In
  <2>4. future[ledger[i]] # "new" /\ future[ledger[j]] # "new"
    BY <2>2, <2>3 DEF IInv, Places
  <2>5. QED BY <2>1, <2>4 DEF IInv, Claims
<1>2. QED BY Invariance, <1>1, PTL

\* A sender told "ok" finds its change stored and its observers notified.
THEOREM OkIsDurable == Spec => []OkMeansDone
<1>1. IInv => OkMeansDone
  BY DEF IInv, Callers, Places, OkMeansDone
<1>2. QED BY Invariance, <1>1, PTL

\* Every accepted command has somebody who will resolve it.
THEOREM NobodyForgotten == Spec => []NoOrphan
<1>1. IInv => NoOrphan
  BY DEF IInv, Resolvers
<1>2. QED BY Invariance, <1>1, PTL

\* An Event is claimed only by a submission that was queued.
THEOREM ClaimsBacked == Spec => []ClaimsAreBacked
<1>1. IInv => ClaimsAreBacked
  BY DEF IInv, Claims
<1>2. QED BY Invariance, <1>1, PTL

\* A stop without failure drops no accepted command.
THEOREM StopDrains == Spec => []CleanStopDrains
<1>1. IInv => CleanStopDrains
  <2> SUFFICES ASSUME IInv, stage = "dead", failure = "none",
                      NEW c \in Command, In(c, accepted)
               PROVE  future[c] \in {"ok", "error"}
    BY DEF CleanStopDrains
  <2>1. future[c] \notin {"new", "stopped"}
    BY DEF IInv, Callers, Resolvers
  <2>2. ~Unresolved(c)
    BY DEF IInv, Resolvers, NoOrphan
  <2>3. QED BY <2>1, <2>2 DEF IInv, TypeInv, TypeOK, Unresolved, Resolved
<1>2. QED BY Invariance, <1>1, PTL

\* A timeout reported to one sender means the Venue is shut and everybody else
\* is being released.
THEOREM TimeoutReleasesAll == Spec => []TimeoutShutsVenue
<1>1. IInv => TimeoutShutsVenue
  <2> SUFFICES ASSUME IInv, NEW c \in Command, answer[c] = "timeout"
               PROVE  /\ ~processing /\ failure # "none"
                      /\ \A d \in Command : Unresolved(d) =>
                           \E p \in (Command \cup {Engine}) \ {c} :
                              Closing(p) /\ d \in toFail[p]
    BY DEF TimeoutShutsVenue
  <2>1. ~processing /\ failure # "none" /\ pending = {}
    BY DEF IInv, Resolvers
  <2>2. caller[c] = "done" /\ c # Engine
    BY CommandAssumption DEF IInv, Callers, TypeInv, TypeOK
  <2>3. QED BY <2>1, <2>2 DEF IInv, Resolvers, NoOrphan, Closing
<1>2. QED BY Invariance, <1>1, PTL

\* A command failed before the engine started it is never started.
LEMMA OutStep ==
  ASSUME NEW c \in Command, IInv, [Next]_vars, Out(c)
  PROVE  Out(c)'
<1> USE CommandAssumption DEF Out, IInv, TypeInv, TypeOK, Busy, Resolved, gateVars, callVars, engineVars
<1>1. ASSUME NEW d \in Command, SubmitStep(d) \/ CallerStep(d) PROVE Out(c)'
  BY <1>1 DEF SubmitStep, CallerStep, SubmitRefused, SubmitDuplicate, Submit, Reply,
     Receive, Expire, ReceiveLate, DecideToClose, CloseVenue, Finish, FailPending,
     FailNext, RaiseTimeout, Callers
<1>2. CASE RequestStop \/ EngineStart \/ EngineFinish \/ EngineFailPending \/ EngineExit
  BY <1>2 DEF RequestStop, EngineStart, EngineFinish, Finish, EngineFailPending,
     FailNext, EngineExit
<1>3. CASE Take \/ Skip \/ StartCommand
  BY <1>3 DEF Take, Skip, StartCommand
<1>4. CASE TakeEffect
  <2>1. c # current
    BY <1>4 DEF TakeEffect
  <2>2. In(c, ledger') <=> In(c, ledger) \/ c = current
    BY <1>4, InAppend DEF TakeEffect
  <2>3. QED BY <1>4, <2>1, <2>2 DEF TakeEffect
<1>5. CASE Reject \/ ListenerFails \/ Crash \/ Publish \/ Resolve
  BY <1>5 DEF Reject, ListenerFails, Crash, Publish, Resolve
<1>6. ASSUME NEW d \in Command, ListenerReenters(d) PROVE Out(c)'
  BY <1>6 DEF ListenerReenters
<1>7. CASE UNCHANGED vars
  BY <1>7 DEF vars
<1>8. QED BY <1>1, <1>2, <1>3, <1>4, <1>5, <1>6, <1>7 DEF Next, EngineStep

\* What was failed while queued never takes effect, then or later.
THEOREM DroppedStaysOut == Spec => FailedInQueueStaysOut
<1> SUFFICES ASSUME NEW c \in Command
             PROVE  Spec => [](In(c, queue) /\ future[c] \in Resolved => []~In(c, ledger))
  BY DEF FailedInQueueStaysOut
<1>1. IInv /\ In(c, queue) /\ future[c] \in Resolved => Out(c)
  BY DEF IInv, Places, Out
<1>2. IInv /\ Out(c) /\ [Next]_vars => Out(c)'
  BY OutStep
<1>3. Out(c) => ~In(c, ledger)
  BY DEF Out
<1>4. QED BY Invariance, <1>1, <1>2, <1>3, PTL DEF Spec

\* Senders are told the truth, and Events are locked only by what was queued.
THEOREM CommandsCorrect == Spec => []CommandsHonest
BY AppliedAtMostOnce, OkIsDurable, ClaimsBacked, PTL DEF CommandsHonest

\* Nothing accepted is forgotten, however the venue ends.
THEOREM ShutdownCorrect == Spec => []ShutdownComplete
BY NobodyForgotten, StopDrains, TimeoutReleasesAll, PTL DEF ShutdownComplete
-----------------------------------------------------------------------------
(* VenueCommands implements CommandService.  IInv says where a command is  *)
(* but not in which order commands are; Ordered adds that the ledger, the  *)
(* command in hand and the queue, read one after the other, follow the     *)
(* order of acceptance.                                                    *)

\* c comes before d in s.
Ahead(s, c, d) == \E i, j \in 1..Len(s) : i < j /\ s[i] = c /\ s[j] = d

Ordered ==
  /\ Distinct(accepted)
  /\ \A i, j \in 1..Len(queue) :
       i < j /\ queue[j] # Stop => Ahead(accepted, queue[i], queue[j])
  /\ current # None =>
       \A j \in 1..Len(queue) : queue[j] # Stop => Ahead(accepted, current, queue[j])
  /\ \A k \in 1..Len(ledger), j \in 1..Len(queue) :
       queue[j] # Stop => Ahead(accepted, ledger[k], queue[j])
  /\ stage \in {"taken", "running"} =>
       \A k \in 1..Len(ledger) : Ahead(accepted, ledger[k], current)

-----------------------------------------------------------------------------
\* A newly accepted command comes after all others, whose order stays.
LEMMA AheadAppend ==
  ASSUME accepted \in Seq(Command), NEW c \in Command,
         accepted' = Append(accepted, c)
  PROVE  /\ \A x, y : Ahead(accepted, x, y) => Ahead(accepted', x, y)
         /\ \A x : In(x, accepted) => Ahead(accepted', x, c)
<1>1. /\ Len(accepted') = Len(accepted) + 1 /\ Len(accepted) \in Nat
      /\ accepted'[Len(accepted) + 1] = c
      /\ \A i \in 1..Len(accepted) : accepted'[i] = accepted[i]
  OBVIOUS
<1>2. ASSUME NEW x, NEW y, Ahead(accepted, x, y) PROVE Ahead(accepted', x, y)
  BY <1>1, <1>2 DEF Ahead
<1>3. ASSUME NEW x, In(x, accepted) PROVE Ahead(accepted', x, c)
  <2>1. PICK i \in 1..Len(accepted) : accepted[i] = x
    BY <1>3 DEF In
  <2>2. /\ i \in 1..Len(accepted') /\ Len(accepted) + 1 \in 1..Len(accepted')
        /\ i < Len(accepted) + 1 /\ accepted'[i] = x
    BY <1>1, <2>1
  <2>3. QED BY <1>1, <2>2 DEF Ahead
<1>4. QED BY <1>2, <1>3

\* Whatever is queued, in hand or done was accepted.
LEMMA InHandAccepted ==
  ASSUME IInv
  PROVE  /\ \A x \in Command : In(x, queue) \/ In(x, ledger) => In(x, accepted)
         /\ current # None => In(current, accepted)
BY CommandAssumption DEF IInv, Callers, Places, TypeInv, TypeOK, Busy

\* A step that neither queues a command nor takes one up, nor records one,
\* leaves the order alone; at most the stop marker joins the queue.
LEMMA QuietOrder ==
  ASSUME IInv, Ordered,
         UNCHANGED <<accepted, ledger>>,
         queue' = queue \/ queue' = Append(queue, Stop),
         current' \in {current, None},
         stage' \in {"taken", "running"} =>
           stage \in {"taken", "running"} /\ current' = current
  PROVE  Ordered'
<1>1. \A x, y : Ahead(accepted', x, y) <=> Ahead(accepted, x, y)
  BY DEF Ahead
<1>2. queue \in Seq(Command \cup {Stop})
  BY DEF IInv, TypeInv, TypeOK
<1>3. \A j \in 1..Len(queue') :
        queue'[j] # Stop => j \in 1..Len(queue) /\ queue'[j] = queue[j]
  BY <1>2
<1>4. \A i, j \in 1..Len(queue') : 
        i < j /\ queue'[j] # Stop => i \in 1..Len(queue) /\ queue'[i] = queue[i]
  BY <1>2
<1>5. Distinct(accepted)'
  BY DEF Ordered, Distinct
<1>6. \A i, j \in 1..Len(queue') :
        i < j /\ queue'[j] # Stop => Ahead(accepted, queue[i], queue[j]) /\ queue'[i] = queue[i]
                                       /\ queue'[j] = queue[j]
  BY <1>3, <1>4 DEF Ordered
<1>7. QED
  <2> HIDE DEF Ahead
  <2> QED BY <1>1, <1>3, <1>5, <1>6 DEF Ordered

\* Every step keeps the order of acceptance.
LEMMA OrderedStep ==
  ASSUME IInv, Ordered, [Next]_vars
  PROVE  Ordered'
<1>1. ASSUME NEW c \in Command, Submit(c) PROVE Ordered'
  <2>1. /\ accepted \in Seq(Command) /\ queue \in Seq(Command \cup {Stop})
        /\ accepted' = Append(accepted, c) /\ queue' = Append(queue, c)
        /\ UNCHANGED <<current, ledger, stage>>
    BY <1>1 DEF IInv, TypeInv, TypeOK, Submit, engineVars
  <2>2. ~In(c, accepted) /\ ~In(Stop, queue)
    BY <1>1 DEF IInv, Callers, Gate, Submit
  <2>3. Distinct(accepted)'
    BY <2>1, <2>2, DistinctAppend DEF Ordered, Distinct
  <2>4. /\ \A x, y : Ahead(accepted, x, y) => Ahead(accepted', x, y)
        /\ \A x : In(x, accepted) => Ahead(accepted', x, c)
    BY <2>1, AheadAppend
  <2>5. /\ Len(queue') = Len(queue) + 1 /\ Len(queue) \in Nat
        /\ queue'[Len(queue) + 1] = c
        /\ \A i \in 1..Len(queue) : queue'[i] = queue[i]
    BY <2>1
  <2>6. \A i \in 1..Len(queue) : In(queue[i], accepted)
    <3> TAKE i \in 1..Len(queue)
    <3>1. In(queue[i], queue) /\ queue[i] \in Command
      BY <2>1, <2>2 DEF In
    <3>2. QED BY <3>1, InHandAccepted
  <2>7. \A k \in 1..Len(ledger) : In(ledger[k], accepted)
    <3> TAKE k \in 1..Len(ledger)
    <3>1. In(ledger[k], ledger) /\ ledger[k] \in Command
      BY DEF In, IInv, TypeInv, TypeOK
    <3>2. QED BY <3>1, InHandAccepted
  <2>8. \A i, j \in 1..Len(queue') :
          i < j /\ queue'[j] # Stop => Ahead(accepted', queue'[i], queue'[j])
    <3> SUFFICES ASSUME NEW i \in 1..Len(queue'), NEW j \in 1..Len(queue'), i < j,
                        queue'[j] # Stop
                 PROVE  Ahead(accepted', queue'[i], queue'[j])
      OBVIOUS
    <3>1. i \in 1..Len(queue) /\ queue'[i] = queue[i]
      BY <2>5
    <3>2. CASE j = Len(queue) + 1
      BY <3>1, <3>2, <2>4, <2>5, <2>6
    <3>3. CASE j # Len(queue) + 1
      <4>1. j \in 1..Len(queue) /\ queue'[j] = queue[j]
        BY <3>3, <2>5
      <4>2. Ahead(accepted, queue[i], queue[j])
        BY <3>1, <4>1 DEF Ordered
      <4>3. QED BY <4>1, <4>2, <3>1, <2>4
    <3>4. QED BY <3>2, <3>3
  <2>9. ASSUME NEW x, In(x, accepted),
               \A j \in 1..Len(queue) : queue[j] # Stop => Ahead(accepted, x, queue[j])
        PROVE  \A j \in 1..Len(queue') : queue'[j] # Stop => Ahead(accepted', x, queue'[j])
    <3> TAKE j \in 1..Len(queue')
    <3>1. CASE j = Len(queue) + 1
      BY <3>1, <2>4, <2>5, <2>9
    <3>2. CASE j # Len(queue) + 1
      BY <3>2, <2>4, <2>5, <2>9
    <3>3. QED BY <3>1, <3>2
  <2>10. current' # None =>
           \A j \in 1..Len(queue') : queue'[j] # Stop => Ahead(accepted', current', queue'[j])
    BY <2>1, <2>9, InHandAccepted DEF Ordered
  <2>11. \A k \in 1..Len(ledger') : \A j \in 1..Len(queue') :
           queue'[j] # Stop => Ahead(accepted', ledger'[k], queue'[j])
    BY <2>1, <2>7, <2>9 DEF Ordered
  <2>12. stage' \in {"taken", "running"} =>
           \A k \in 1..Len(ledger') : Ahead(accepted', ledger'[k], current')
    BY <2>1, <2>4 DEF Ordered
  <2>13. QED BY <2>3, <2>8, <2>10, <2>11, <2>12 DEF Ordered
<1>2. CASE Take
  <2>1. /\ queue \in Seq(Command \cup {Stop}) /\ queue # <<>>
        /\ queue' = Tail(queue) /\ UNCHANGED <<accepted, ledger>>
        /\ Head(queue) = queue[1] /\ 1 \in 1..Len(queue)
    BY <1>2 DEF Take, IInv, TypeInv, TypeOK
  <2>2. \A i \in 1..Len(queue') : i + 1 \in 1..Len(queue) /\ queue'[i] = queue[i + 1]
                                    /\ 1 < i + 1
    BY <2>1
  <2>3. \A x, y : Ahead(accepted', x, y) <=> Ahead(accepted, x, y)
    BY <2>1 DEF Ahead
  <2>4. current' # None => current' = queue[1] /\ current' # Stop
    BY <1>2, <2>1 DEF Take
  <2>5. Distinct(accepted)'
    BY <2>1 DEF Ordered, Distinct
  <2>6. \A i, j \in 1..Len(queue') : i < j => i + 1 < j + 1
    OBVIOUS
  <2>7. stage' \in {"taken", "running"} => current' = queue[1] /\ current' # Stop
    BY <1>2, <2>1 DEF Take
  <2>8. QED BY <2>1, <2>2, <2>3, <2>4, <2>5, <2>6, <2>7 DEF Ordered
<1>3. CASE TakeEffect
  <2>1. /\ ledger \in Seq(Command) /\ current \in Command /\ current # None
        /\ ledger' = Append(ledger, current) /\ stage' = "effective"
        /\ UNCHANGED <<accepted, queue, current>>
    BY <1>3, CommandAssumption DEF TakeEffect, gateVars, IInv, TypeInv, TypeOK, Busy
  <2>2. \A x, y : Ahead(accepted', x, y) <=> Ahead(accepted, x, y)
    BY <2>1 DEF Ahead
  <2>3. \A k \in 1..Len(ledger') :
          \/ ledger'[k] = current
          \/ k \in 1..Len(ledger) /\ ledger'[k] = ledger[k]
    BY <2>1
  <2>4. Distinct(accepted)'
    BY <2>1 DEF Ordered, Distinct
  <2>5. QED BY <2>1, <2>2, <2>3, <2>4 DEF Ordered
<1>4. ASSUME NEW c \in Command, CallerStep(c) \/ SubmitRefused(c) \/ SubmitDuplicate(c)
      PROVE  Ordered'
  <2>1. /\ UNCHANGED <<accepted, ledger, current, stage>>
        /\ queue' = queue \/ queue' = Append(queue, Stop)
    BY <1>4 DEF CallerStep, SubmitRefused, SubmitDuplicate, Receive, Expire,
       ReceiveLate, DecideToClose, CloseVenue, Finish, FailPending, FailNext,
       RaiseTimeout, gateVars, engineVars
  <2>2. QED BY <2>1, QuietOrder
<1>5. CASE RequestStop \/ EngineStart \/ EngineFinish \/ EngineFailPending \/ EngineExit
  <2>1. /\ UNCHANGED <<accepted, ledger, current>>
        /\ stage' \in {stage, "idle", "failing", "dead"}
        /\ queue' = queue \/ queue' = Append(queue, Stop)
    BY <1>5 DEF RequestStop, EngineStart, EngineFinish, Finish, EngineFailPending,
       FailNext, EngineExit, gateVars, engineVars
  <2>2. QED BY <2>1, QuietOrder
<1>6. CASE Skip \/ StartCommand \/ Reject \/ ListenerFails \/ Crash \/ Publish \/ Resolve
           \/ \E d \in Command : ListenerReenters(d)
  <2>1. /\ UNCHANGED <<accepted, ledger, queue>>
        /\ current' \in {current, None}
        /\ stage' \in {"taken", "running"} => stage = "taken" /\ current' = current
    BY <1>6 DEF Skip, StartCommand, Reject, ListenerFails, Crash, Publish, Resolve,
       ListenerReenters, gateVars
  <2>2. QED BY <2>1, QuietOrder
<1>7. CASE UNCHANGED vars
  BY <1>7, QuietOrder DEF vars
<1>8. QED
  BY <1>1, <1>2, <1>3, <1>4, <1>5, <1>6, <1>7 DEF Next, SubmitStep, EngineStep

\* The invariant of the refinement.
LEMMA OrderedInvariance == Spec => [](IInv /\ Ordered)
<1>1. Init => IInv /\ Ordered
  BY InitIInv DEF Init, Ordered, Distinct
<1>2. IInv /\ Ordered /\ [Next]_vars => (IInv /\ Ordered)'
  <2> SUFFICES ASSUME IInv, Ordered, [Next]_vars PROVE IInv' /\ Ordered'
    OBVIOUS
  <2>1. TypeInv'
    BY TypeStep DEF IInv
  <2>2. IInv'
    BY <2>1, CallersStep, PlacesStep, GateStep, ResolversStep, ClaimsStep DEF IInv
  <2>3. QED BY <2>2, OrderedStep
<1>3. QED BY <1>1, <1>2, PTL DEF Spec

-----------------------------------------------------------------------------
(* The simulation: each step of a caller or of the engine is a step of the *)
(* service or leaves it alone.                                             *)


\* An answer of the implementation is an answer of the service.
LEMMA ReplyMaps ==
  ASSUME IInv, NEW c \in Command, NEW a \in {"ok", "error", "stopped", "timeout", "duplicate", "reentry"},
         answer[c] = "none",
         a = "ok" => In(c, ledger),
         a \in {"duplicate", "reentry"} => future[c] = "new",
         answer' = [answer EXCEPT ![c] = a],
         UNCHANGED <<accepted, ledger, stage, processing>>
  PROVE  Service!Next
<1>1. ~(a \in {"duplicate", "reentry"} /\ In(c, accepted))
  BY DEF IInv, Callers
<1>2. Service!Reply(c, a)
  BY <1>1 DEF Service!Reply, Service!In, In
<1>3. QED BY <1>2 DEF Service!Next, Service!Answers

\* Closing the gate is a Close of the service or changes nothing of it.
LEMMA CloseMaps ==
  ASSUME IInv, ~processing', UNCHANGED <<accepted, ledger, answer>>,
         (stage' = "off") <=> (stage = "off")
  PROVE  Service!Close \/ UNCHANGED Service!vars
BY DEF Service!Close, Service!vars, IInv, Gate

\* Every step of the command path, seen from outside, is one of the service.
LEMMA StepMaps ==
  ASSUME IInv, Ordered, [Next]_vars
  PROVE  [Service!Next]_(Service!vars)
<1>1. ASSUME NEW c \in Command, Submit(c) PROVE Service!Next
  <2>1. /\ processing /\ ~AlreadyClaimed(c) /\ caller[c] = "idle"
        /\ accepted' = Append(accepted, c)
        /\ UNCHANGED <<answer, stage, processing, ledger>>
    BY <1>1 DEF Submit, engineVars
  <2>2. stage # "off" /\ answer[c] = "none" /\ ~In(c, accepted)
    BY <2>1 DEF IInv, Gate, Callers
  <2>3. \A i \in 1..Len(accepted) : accepted[i] # c /\ ~Service!SameEvent(accepted[i], c)
    <3> TAKE i \in 1..Len(accepted)
    <3>1. accepted[i] \in Command /\ In(accepted[i], accepted)
      BY DEF IInv, TypeInv, TypeOK, In
    <3>2. future[accepted[i]] # "new"
      BY <3>1 DEF IInv, Callers
    <3>3. QED BY <2>1, <2>2, <3>1, <3>2 DEF IInv, Claims, AlreadyClaimed, Service!SameEvent
  <2>4. Service!Accept(c)
    BY <2>1, <2>2, <2>3 DEF Service!Accept
  <2>5. QED BY <2>4 DEF Service!Next
<1>2. CASE TakeEffect
  <2>1. /\ current \in Command /\ stage = "running" /\ stage' = "effective"
        /\ ledger' = Append(ledger, current)
        /\ UNCHANGED <<accepted, answer, processing>>
    BY <1>2 DEF TakeEffect, IInv, TypeInv, Busy, gateVars, callVars
  <2>2. future[current] \in {"running", "stopped"} /\ In(current, accepted)
    BY <2>1 DEF IInv, Places, Callers, Busy
  <2>3. answer[current] \in {"none", "stopped", "timeout"}
    BY <2>1, <2>2 DEF IInv, Callers, TypeInv, TypeOK
  <2>4. Service!InOrder(current)
    BY <2>1, <2>2 DEF Ordered, Ahead, Service!InOrder, Service!Before, Service!In, In
  <2>5. Service!Record(current)
    BY <2>1, <2>3, <2>4 DEF Service!Record
  <2>6. QED BY <2>1, <2>5 DEF Service!Next
<1>3. CASE EngineStart
  <2>1. Service!Open
    BY <1>3 DEF EngineStart, callVars, Service!Open
  <2>2. QED BY <2>1 DEF Service!Next
<1>4. ASSUME NEW c \in Command,
             SubmitRefused(c) \/ SubmitDuplicate(c) \/ Receive(c) \/ ReceiveLate(c)
               \/ RaiseTimeout(c)
      PROVE  Service!Next
  <2>1. PICK a \in {"ok", "error", "stopped", "timeout", "duplicate"} :
          /\ answer' = [answer EXCEPT ![c] = a]
          /\ a = "ok" => future[c] = "ok"
          /\ a = "duplicate" => caller[c] = "idle"
          /\ caller[c] # "done"
    BY <1>4 DEF SubmitRefused, SubmitDuplicate, Receive, ReceiveLate, RaiseTimeout,
       Reply, Resolved
  <2>2. UNCHANGED <<accepted, ledger, stage, processing>>
    BY <1>4 DEF SubmitRefused, SubmitDuplicate, Receive, ReceiveLate, RaiseTimeout,
       gateVars, engineVars
  <2>3. /\ answer[c] = "none"
        /\ a = "ok" => In(c, ledger)
        /\ a = "duplicate" => future[c] = "new"
    BY <2>1 DEF IInv, Callers, Places
  <2>4. QED BY <2>1, <2>2, <2>3, ReplyMaps
<1>5. ASSUME NEW d \in Command, ListenerReenters(d) PROVE Service!Next
  <2>1. PICK a \in {"reentry", "stopped"} : answer' = [answer EXCEPT ![d] = a]
    BY <1>5 DEF ListenerReenters
  <2>2. caller[d] = "idle" /\ UNCHANGED <<accepted, ledger, processing>>
          /\ stage = "effective" /\ stage' \in {"effective", "refusing"}
    BY <1>5 DEF ListenerReenters, gateVars
  <2>3. answer[d] = "none" /\ future[d] = "new"
    BY <2>2 DEF IInv, Callers
  <2>4. ~In(d, accepted)
    BY <2>3 DEF IInv, Callers
  <2>5. Service!Reply(d, a)
    BY <2>1, <2>2, <2>3, <2>4 DEF Service!Reply, Service!In, In
  <2>6. QED BY <2>5 DEF Service!Next, Service!Answers
<1>6. ASSUME NEW c \in Command, CloseVenue(c) PROVE [Service!Next]_(Service!vars)
  <2>1. /\ ~processing' /\ UNCHANGED <<accepted, ledger, answer, stage>>
    BY <1>6 DEF CloseVenue, Finish, engineVars
  <2>2. QED BY <2>1, CloseMaps DEF Service!Next
<1>7. CASE RequestStop
  <2>1. /\ ~processing' /\ UNCHANGED <<accepted, ledger, answer, stage>>
    BY <1>7 DEF RequestStop, engineVars, callVars
  <2>2. QED BY <2>1, CloseMaps DEF Service!Next
<1>8. CASE EngineFinish
  <2>1. /\ ~processing' /\ UNCHANGED <<accepted, ledger, answer>>
        /\ stage = "closing" /\ stage' = "failing"
    BY <1>8 DEF EngineFinish, Finish, callVars
  <2>2. QED BY <2>1, CloseMaps DEF Service!Next
<1>9. ASSUME NEW c \in Command, Expire(c) \/ DecideToClose(c) \/ FailPending(c)
      PROVE  UNCHANGED Service!vars
  BY <1>9 DEF Expire, DecideToClose, FailPending, FailNext, gateVars, engineVars,
     callVars, Service!vars
<1>10. CASE Take \/ Skip \/ StartCommand \/ Reject \/ ListenerFails \/ Crash \/ Publish
            \/ Resolve \/ EngineFailPending \/ EngineExit
  <2>1. /\ UNCHANGED <<accepted, ledger, answer, processing>>
        /\ stage' = stage \/ (stage # "off" /\ stage' # "off")
    BY <1>10 DEF Take, Skip, StartCommand, Reject, ListenerFails, Crash, Publish,
       Resolve, EngineFailPending, FailNext, EngineExit, gateVars, callVars, engineVars
  <2>2. QED BY <2>1 DEF Service!vars
<1>11. CASE UNCHANGED vars
  BY <1>11 DEF vars, Service!vars
<1>12. QED
  BY <1>1, <1>2, <1>3, <1>4, <1>5, <1>6, <1>7, <1>8, <1>9, <1>10, <1>11
     DEF Next, SubmitStep, CallerStep, EngineStep

\* For any set of commands and Event objects, what senders and readers of the
\* EventList see of a Venue is what the sequential service allows: commands take
\* effect one at a time in the order of acceptance, and every answer is true.
THEOREM ImplementsService == Spec => ServiceSpec
<1>1. Init => Service!Init
  BY DEF Init, Service!Init
<1>2. IInv /\ Ordered /\ [Next]_vars => [Service!Next]_(Service!vars)
  BY StepMaps
<1>3. QED
  BY OrderedInvariance, <1>1, <1>2, PTL DEF Spec, ServiceSpec, Service!Spec
=============================================================================
