------------------------------- MODULE Mailbox -------------------------------
(***************************************************************************)
(* What an agent owes the observations it is sent, with no inbox, batch,   *)
(* window or turn: they wait in the order they came in, and the first of   *)
(* them reach a prompt.  A representative may pass over what is not        *)
(* urgent, and a chair may refuse what it has once something urgent has    *)
(* come.  Nothing else is lost before the agent is stopped or dies.        *)
(* AgentTurn is shown to implement it.                                     *)
(***************************************************************************)
EXTENDS Naturals, Sequences

CONSTANTS
  Last,     \* observations are 1 .. Last
  Urgent    \* those that may not be passed over

VARIABLES
  role,     \* "representative", "chair" or "dm"
  sent,     \* how many observations were sent
  pending,  \* those that wait
  shown,    \* those that reached a prompt
  stopped,  \* the agent was told to stop
  over      \* its thread has ended

vars == <<role, sent, pending, shown, stopped, over>>

Init ==
  /\ role \in {"representative", "chair", "dm"}
  /\ sent = 0
  /\ pending = <<>> /\ shown = <<>>
  /\ stopped = FALSE /\ over = FALSE

Arrive ==
  /\ sent < Last
  /\ sent' = sent + 1
  /\ \/ ~over /\ pending' = Append(pending, sent')
     \/ (stopped \/ over) /\ UNCHANGED pending
  /\ UNCHANGED <<role, shown, stopped, over>>

First(n) == SubSeq(pending, 1, n)
Drop(n) == pending' = SubSeq(pending, n + 1, Len(pending))

Show(n) ==
  /\ role = "dm" => n = 1
  /\ shown' = shown \o First(n)
  /\ Drop(n)
  /\ UNCHANGED <<role, sent, stopped, over>>

PassOver(n) ==
  /\ role = "representative"
  /\ \A i \in 1..n : pending[i] \notin Urgent
  /\ Drop(n)
  /\ UNCHANGED <<role, sent, shown, stopped, over>>

Refuse(n) ==
  /\ role = "chair"
  /\ \E o \in Urgent : o <= sent
  /\ Drop(n)
  /\ UNCHANGED <<role, sent, shown, stopped, over>>

Stop ==
  /\ stopped' = TRUE
  /\ UNCHANGED <<role, sent, pending, shown, over>>

\* A stopped agent keeps what it likes of what waits, but not in another order.
GiveUp(m, n) ==
  /\ stopped
  /\ pending' = SubSeq(pending, m, n)
  /\ UNCHANGED <<role, sent, shown, stopped, over>>

\* Its model fails, which it does not before the agent has shown it something; or
\* it was stopped.
End ==
  /\ ~over
  /\ stopped \/ shown # <<>>
  /\ over' = TRUE /\ pending' = <<>>
  /\ UNCHANGED <<role, sent, shown, stopped>>

Next ==
  \/ Arrive \/ Stop \/ End
  \/ \E n \in 1..Len(pending) : Show(n) \/ PassOver(n) \/ Refuse(n)
  \/ \E m \in 1..(Len(pending) + 1), n \in 0..Len(pending) : GiveUp(m, n)

Spec == Init /\ [][Next]_vars
=============================================================================
