------------------------------- MODULE RunReport -------------------------------
(***************************************************************************)
(* What a meeting run reports of itself, to those who wait for it and to   *)
(* those who read its directory.  Threads work while the run goes on, and  *)
(* may file errors.  The outcome is settled once, by one look at who is    *)
(* still working, what was filed and whom the end was announced to; the    *)
(* report of it is in the directory before the run is done.  Where each    *)
(* thread is, how a stop reaches it, and in which order things are found   *)
(* out is not said here.  MeetingRun is shown to implement it.             *)
(***************************************************************************)
CONSTANTS
  Venue,
  None

VARIABLES
  state,      \* "starting", "running", or one of Final
  done,       \* whoever waits for the run goes on
  working,    \* the threads at work
  errors,     \* those that filed an error
  overdue,    \* some threads were left when patience was lost
  llm,        \* agents can act
  asked,      \* the operator has asked for the end
  matched,    \* an end condition has matched
  ended,      \* the venues whose meeting has ended
  draft,      \* the report about to be written
  written,    \* the report in the directory
  lost,       \* the final report could not be written
  supervised  \* the start is over and somebody sees to the end

threads == <<working, errors, overdue>>
causes  == <<llm, asked, matched, ended>>
reports == <<draft, written, lost>>
vars    == <<state, done, threads, causes, reports, supervised>>

Final == {"ended", "stopped", "failed"}
Clean == {"ended", "stopped"}

Report == [state |-> state, ended |-> ended]

\* A report that tells the outcome; how far a failed run got may be missing.
Tells(r) == r.state = state /\ (state \in Clean => r.ended = ended)

Init ==
  /\ state = "starting" /\ done = FALSE
  /\ working = {} /\ errors = {} /\ overdue = FALSE
  /\ llm \in BOOLEAN /\ asked = FALSE /\ matched = FALSE
  /\ ended \in {{}, Venue}
  /\ draft = None /\ written = [state |-> "none", ended |-> {}] /\ lost = FALSE
  /\ supervised = FALSE

-----------------------------------------------------------------------------
\* Threads come while the run starts, and go at any time.
Work ==
  /\ working' \subseteq working \/ state = "starting"
  /\ UNCHANGED <<state, done, errors, overdue, causes, reports, supervised>>

\* Nothing is filed once a run has settled without a failure.
File ==
  /\ state \notin Clean
  /\ errors \subseteq errors'
  /\ UNCHANGED <<state, done, working, overdue, causes, reports, supervised>>

LosePatience ==
  /\ state = "running"
  /\ working # {}
  /\ overdue' = TRUE
  /\ UNCHANGED <<state, done, working, errors, causes, reports, supervised>>

Ask ==
  /\ state = "running"
  /\ asked' = TRUE
  /\ UNCHANGED <<state, done, threads, llm, matched, ended, reports, supervised>>

\* The end of the meeting is found, and announced, by a thread at work.
Match ==
  /\ working # {}
  /\ matched' = TRUE
  /\ UNCHANGED <<state, done, threads, llm, asked, ended, reports, supervised>>

Announce ==
  /\ working # {} /\ matched
  /\ ended \subseteq ended'
  /\ UNCHANGED <<state, done, threads, llm, asked, matched, reports, supervised>>

-----------------------------------------------------------------------------
\* A start that fails before there is a directory is done at once.
StartFails ==
  /\ state = "starting"
  /\ state' = "failed"
  /\ done' \in BOOLEAN
  /\ UNCHANGED <<threads, causes, reports, supervised>>

Begin ==
  /\ state = "starting"
  /\ state' = "running"
  /\ UNCHANGED <<done, threads, causes, reports, supervised>>

\* A clean outcome needs everybody gone, nothing filed, and an end that was found
\* announced everywhere unless the operator, or the want of an LLM, came before.
Outcome ==
  \/ state' = "failed" /\ (overdue \/ errors # {})
  \/ /\ working = {} /\ errors = {} /\ ~overdue
     /\ state' = IF matched \/ ~asked THEN "ended" ELSE "stopped"
     /\ matched /\ llm /\ ~asked => ended = Venue

Settle ==
  /\ state = "running" /\ supervised
  /\ Outcome
  /\ UNCHANGED <<done, threads, causes, reports, supervised>>

\* Of a supervised run, the outcome is in the directory when it is done.
Finish ==
  /\ state \in Final /\ ~done
  /\ supervised /\ ~lost => Tells(written) /\ (draft # None => Tells(draft))
  /\ done' = TRUE
  /\ UNCHANGED <<state, threads, causes, reports, supervised>>

-----------------------------------------------------------------------------
Draft ==
  /\ draft = None
  /\ draft' = Report
  /\ UNCHANGED <<state, done, threads, causes, written, lost, supervised>>

\* The first report of a run that goes on is what its supervisor waits for.
Save ==
  /\ draft # None
  /\ written' = draft
  /\ draft' = None
  /\ supervised' = (supervised \/ state = "running")
  /\ UNCHANGED <<state, done, threads, causes, lost>>

\* If it is the outcome that cannot be written, the run has failed.
SaveFails ==
  /\ draft # None
  /\ draft' = None
  /\ written' \in {written, [written EXCEPT !.state = draft.state]}
  /\ \/ UNCHANGED <<state, lost>>
     \/ supervised /\ state \in Final /\ ~done /\ state' = "failed" /\ lost' = TRUE
  /\ UNCHANGED <<done, threads, causes, supervised>>

Next ==
  \/ Work \/ File \/ LosePatience \/ Ask \/ Match \/ Announce
  \/ StartFails \/ Begin \/ Settle \/ Finish
  \/ Draft \/ Save \/ SaveFails

Spec == Init /\ [][Next]_vars
=============================================================================
