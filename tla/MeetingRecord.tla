---------------------------- MODULE MeetingRecord ----------------------------
(***************************************************************************)
(* The record of a venue as its members and the DM know it, with no queue  *)
(* of commands and no moment between a change and the news of it.  Events  *)
(* are drafts of their owners, are handed in, and enter the record as they *)
(* were handed in; then they are amended until there is a verdict.  Who is *)
(* in the scope knows each version, and the DM has the tasks that follow   *)
(* from it.  EventLedger is shown to implement it.                         *)
(***************************************************************************)
EXTENDS Naturals, Sequences

CONSTANTS
  Event,
  Rep      \* the seats of the venue

VARIABLES
  kind,     \* "instruction", "resolution" or another
  status,   \* "pending", or the verdict
  scope,    \* the seats that may see the event
  body,     \* all that may be edited besides
  handed,   \* the events that are no drafts any more
  record,   \* the events on record, in order
  version,  \* the number of versions of each event on record
  knows,    \* the last version each seat knows
  tasks     \* the tasks of the DM

vars == <<kind, status, scope, body, handed, record, version, knows, tasks>>

OnRecord(e) == \E i \in 1..Len(record) : record[i] = e

\* No field of another event changes.
Touches(e) ==
  \A f \in Event \ {e} :
    status'[f] = status[f] /\ scope'[f] = scope[f] /\ body'[f] = body[f]

\* There is a new version, and these are the seats that know it from now on.
Known(e, seats) ==
  /\ version' = [version EXCEPT ![e] = @ + 1]
  /\ knows' = [r \in Rep |-> IF r \in seats THEN [knows[r] EXCEPT ![e] = version'[e]]
                             ELSE knows[r]]

TaskIf(condition, e) == tasks' = IF condition THEN Append(tasks, e) ELSE tasks

Init ==
  /\ scope = [e \in Event |-> Rep]
  /\ \A e \in Event : kind[e] \in {"instruction", "resolution"} => status[e] = "pending"
  /\ handed = {} /\ record = <<>>
  /\ version = [e \in Event |-> 0]
  /\ knows = [r \in Rep |-> [e \in Event |-> 0]]
  /\ tasks = <<>>

Draft(e) ==
  /\ e \notin handed /\ status[e] = "pending"
  /\ Touches(e)
  /\ UNCHANGED <<kind, handed, record, version, knows, tasks>>

HandIn(e) ==
  /\ e \notin handed
  /\ handed' = handed \cup {e}
  /\ UNCHANGED <<kind, status, scope, body, record, version, knows, tasks>>

Enter(e) ==
  /\ e \in handed /\ ~OnRecord(e)
  /\ record' = Append(record, e)
  /\ Known(e, scope[e])
  /\ TaskIf(kind[e] = "instruction" /\ status[e] = "pending", e)
  /\ UNCHANGED <<kind, status, scope, body, handed>>

\* Whoever an amendment lets in or puts out knows of it.
Amend(e) ==
  /\ OnRecord(e) /\ status[e] = "pending"
  /\ Touches(e) /\ scope'[e] \subseteq Rep
  /\ Known(e, scope[e] \cup scope'[e])
  /\ UNCHANGED <<kind, status, handed, record, tasks>>

\* The verdict may leave the event pending.
Decide(e) ==
  /\ OnRecord(e) /\ status[e] = "pending"
  /\ Touches(e)
  /\ Known(e, scope[e])
  /\ TaskIf(kind[e] = "resolution" /\ status'[e] # "pending", e)
  /\ UNCHANGED <<kind, scope, body, handed, record>>

Next == \E e \in Event : Draft(e) \/ HandIn(e) \/ Enter(e) \/ Amend(e) \/ Decide(e)

Spec == Init /\ [][Next]_vars
=============================================================================
