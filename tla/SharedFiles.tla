------------------------------ MODULE SharedFiles ------------------------------
(***************************************************************************)
(* What the run directory promises to the representatives: files as they   *)
(* see them, and as a crash would give them back.  A call that is answered *)
(* with ok is there after a crash, with whom every file was shared until   *)
(* then; a write that fails leaves a file as it was or as it was to be.    *)
(* Copies are only added.  There is no manifest here, no order of writes,  *)
(* and no difference between memory and disk but the one between seen and  *)
(* kept.  FileStore is shown to implement it.                              *)
(***************************************************************************)
EXTENDS Naturals, Sequences

CONSTANTS Rep, Venue, VenueOf, Name, Content, About, None

File == Rep \X Name
Series == Venue \X File
Access == [owners : SUBSET Rep, scope : SUBSET Rep, about : About]
Entry == [content : Content, access : Access]

VARIABLES
  seen,    \* each file, its content and access, as the tools show it
  kept,    \* each file as a crash would give it back
  copies,  \* the submitted contents of each series
  papers,  \* the events that stand for one of them
  faults   \* writes that have failed

vars == <<seen, kept, copies, papers, faults>>

Init ==
  /\ seen = [f \in File |-> None]
  /\ kept = [f \in File |-> None]
  /\ copies = [s \in Series |-> <<>>]
  /\ papers = {}
  /\ faults = 0

Owns(r, f) == seen[f] # None /\ r \in seen[f].access.owners \cap seen[f].access.scope

\* Nobody is put out, and who owns a file sees it.
Wider(old, new) ==
  /\ old.owners \subseteq new.owners
  /\ old.scope \subseteq new.scope
  /\ new.owners \subseteq new.scope

\* What is kept when a call is answered with ok that leaves the files as in now and
\* has written the content of F.
Filed(now, F) ==
  [f \in File |-> IF f \in F \/ now[f] = None THEN now[f]
                  ELSE [content |-> kept[f].content, access |-> now[f].access]]

Ok == faults' = faults
Fails == faults' = faults + 1

-----------------------------------------------------------------------------
Create(r, n, c, about) ==
  LET f   == <<r, n>>
      now == [seen EXCEPT ![f] =
                [content |-> c, access |-> [owners |-> {r}, scope |-> {r}, about |-> about]]]
  IN
  /\ seen[f] = None
  /\ seen' = now
  /\ Ok /\ kept' = Filed(now, {f})
  /\ UNCHANGED <<copies, papers>>

\* What an owner may do to a file, which then has this entry.
Write(f, entry) ==
  LET now == [seen EXCEPT ![f] = entry] IN
  /\ entry.access = seen[f].access
  /\ seen' = now
  /\ \/ Ok /\ kept' = Filed(now, {f})
     \/ Fails /\ kept' \in {kept, [kept EXCEPT ![f].content = entry.content]}

\* Sharing, handing on and describing it.
Grant(f, entry) ==
  LET now == [seen EXCEPT ![f] = entry] IN
  /\ entry.content = seen[f].content
  /\ Wider(seen[f].access, entry.access)
  /\ seen' = now
  /\ \/ Ok /\ kept' = Filed(now, {})
     \/ Fails /\ kept' = kept

\* Of new owners somebody does not see the file: the call is refused, and yet the
\* others own it from now on, until the next crash at least.
GrantRefused(f, entry) ==
  /\ Wider(seen[f].access, entry.access)
  /\ entry = [seen[f] EXCEPT !.access.owners = entry.access.owners]
  /\ seen' = [seen EXCEPT ![f] = entry]
  /\ Ok /\ kept' = kept

Change(f) ==
  /\ \E r \in Rep : Owns(r, f)
  /\ seen'[f] \in Entry
  /\ LET entry == seen'[f] IN Write(f, entry) \/ Grant(f, entry) \/ GrantRefused(f, entry)
  /\ UNCHANGED <<copies, papers>>

\* The next copy differs from the one before.
Submit(r, f) ==
  LET s == <<VenueOf[r], f>> IN
  /\ Owns(r, f)
  /\ copies[s] # <<>> => copies[s][Len(copies[s])] # seen[f].content
  /\ copies' = [copies EXCEPT ![s] = Append(@, seen[f].content)]
  /\ Ok /\ kept' = Filed(seen, {})
  /\ UNCHANGED <<seen, papers>>

\* A new file, or a copy, that could not be written is not there.
NotDone == Fails /\ UNCHANGED <<seen, kept, copies, papers>>

Enter(s, i) ==
  /\ papers' = papers \cup {[series |-> s, version |-> i, content |-> copies[s][i]]}
  /\ UNCHANGED <<seen, kept, copies, faults>>

Crash ==
  /\ seen' = kept
  /\ papers' = {}
  /\ UNCHANGED <<kept, copies, faults>>

Next ==
  \/ NotDone \/ Crash
  \/ \E f \in File : Change(f)
  \/ \E r \in Rep, n \in Name, c \in Content, about \in About : Create(r, n, c, about)
  \/ \E r \in Rep, f \in File : Submit(r, f)
  \/ \E s \in Series : \E i \in 1..Len(copies[s]) : Enter(s, i)

Spec == Init /\ [][Next]_vars
=============================================================================
