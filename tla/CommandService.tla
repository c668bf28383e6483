--------------------------- MODULE CommandService ---------------------------
(***************************************************************************)
(* What a Venue promises to the threads that send it commands, with no     *)
(* queue, future, lock or engine thread: it opens once and closes once,    *)
(* accepts a command only while open, applies accepted commands one at a   *)
(* time in the order of acceptance, each at most once, and answers each    *)
(* sender exactly once.  VenueCommands is shown to implement it.           *)
(***************************************************************************)
EXTENDS Naturals, Sequences

CONSTANTS
  Command,      \* the commands sent during one meeting
  Submission,   \* those that submit an event
  EventOf       \* the event each submission carries

VARIABLES
  phase,        \* "new", "open" or "closed"
  accepted,     \* the commands let in, in order
  ledger,       \* the commands that took effect, in order
  answer        \* what each sender was told

vars == <<phase, accepted, ledger, answer>>

Answers == {"none", "ok", "error", "stopped", "timeout", "duplicate", "reentry"}

In(c, seq) == \E i \in 1..Len(seq) : seq[i] = c

SameEvent(c, d) == c \in Submission /\ d \in Submission /\ EventOf[c] = EventOf[d]

Before(c, d) ==
  \E i, j \in 1..Len(accepted) : i < j /\ accepted[i] = c /\ accepted[j] = d

\* c was accepted after every command that has taken effect so far.
InOrder(c) == In(c, accepted) /\ \A k \in 1..Len(ledger) : Before(ledger[k], c)

Init ==
  /\ phase = "new"
  /\ accepted = <<>>
  /\ ledger = <<>>
  /\ answer = [c \in Command |-> "none"]

Open ==
  /\ phase = "new"
  /\ phase' = "open"
  /\ UNCHANGED <<accepted, ledger, answer>>

Close ==
  /\ phase = "open"
  /\ phase' = "closed"
  /\ UNCHANGED <<accepted, ledger, answer>>

Accept(c) ==
  /\ phase = "open"
  /\ answer[c] = "none"
  /\ \A i \in 1..Len(accepted) : accepted[i] # c /\ ~SameEvent(accepted[i], c)
  /\ accepted' = Append(accepted, c)
  /\ UNCHANGED <<phase, ledger, answer>>

\* A command whose sender was told that it failed by the engine or by its own
\* deadline may still take effect; one refused or rejected may not.
Record(c) ==
  /\ InOrder(c)
  /\ answer[c] \in {"none", "stopped", "timeout"}
  /\ ledger' = Append(ledger, c)
  /\ UNCHANGED <<phase, accepted, answer>>

Reply(c, a) ==
  /\ answer[c] = "none"
  /\ a = "ok" => In(c, ledger)
  /\ a \in {"duplicate", "reentry"} => ~In(c, accepted)
  /\ answer' = [answer EXCEPT ![c] = a]
  /\ UNCHANGED <<phase, accepted, ledger>>

Next ==
  \/ Open
  \/ Close
  \/ \E c \in Command : Accept(c) \/ Record(c)
  \/ \E c \in Command, a \in Answers \ {"none"} : Reply(c, a)

Spec == Init /\ [][Next]_vars
=============================================================================
