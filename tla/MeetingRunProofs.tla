--------------------------- MODULE MeetingRunProofs ---------------------------
(***************************************************************************)
(* Theorems about MeetingRun, for any venues and agents and any number of  *)
(* faults.  IInv is the inductive invariant: where each thread can be      *)
(* (Roles), how far the run is when they are there (Course), what the      *)
(* supervisor has found out (Findings), why a stop was requested (Causes), *)
(* and what is written and about to be written (Written).  Under it, every *)
(* step is one of RunReport or none.                                       *)
(***************************************************************************)
EXTENDS MeetingRun, TLAPS

\* Where each thread can be.
StarterPlaces ==
  {"new", "dirless", "venues", "agents", "greeting", "flag", "stopping", "reaping",
   "failed", "begin", "firstArchive", "lastArchive", "over", "dead"}
OperatorPlaces == {"idle", "asking", "flag", "stopping"}
SupervisorPlaces ==
  {"none", "joining", "waiting", "flag", "stopping", "counting", "listing threads",
   "reading errors", "settling", "archiving", "finishing", "dead"}
ArchiverPlaces == {"none", "resting", "archiving", "lastArchive", "dead"}
MonitorPlaces == {"none", "watching", "announcing", "flag", "stopping", "dead"}
EnginePlaces == {"none", "opening", "serving", "flag", "stopping", "dead"}
AgentPlaces == {"none", "looping", "waiting", "busy", "hung", "flag", "stopping", "dead"}

Roles ==
  /\ at[Starter] \in StarterPlaces
  /\ at[Operator] \in OperatorPlaces
  /\ at[Supervisor] \in SupervisorPlaces
  /\ at[Archiver] \in ArchiverPlaces
  /\ at[Monitor] \in MonitorPlaces
  /\ \A v \in Venue : at[v] \in EnginePlaces
  /\ \A a \in Agent : at[a] \in AgentPlaces

\* The places of the starter when the start has failed, or ends with the first archive.
Failing == {"dirless", "flag", "stopping", "reaping", "failed", "lastArchive", "dead"}

SettledPlaces == {"archiving", "finishing", "dead"}

Course ==
  /\ at[Supervisor] # "none" => at[Starter] = "over"
  /\ at[Archiver] # "none" => at[Starter] = "over"
  /\ at[Monitor] # "none" => at[Starter] \in {"begin", "firstArchive", "over", "dead"}
  /\ at[Starter] \in {"greeting", "begin", "firstArchive", "over"} =>
       \A a \in Agent : at[a] # "none"
  /\ at[Starter] \in {"new", "venues", "agents", "greeting", "begin", "flag", "stopping",
                      "reaping"} => runState = "starting"
  /\ at[Starter] \in {"dirless", "failed", "lastArchive"} => runState = "failed"
  /\ at[Starter] = "firstArchive" => runState = "running"
  /\ at[Starter] = "dead" => runState \in {"running", "failed"}
  /\ at[Starter] = "over" =>
       IF at[Supervisor] \in SettledPlaces THEN runState \in Final ELSE runState = "running"
  /\ \A v \in Venue : at[v] \in {"none", "opening"} => gate[v] = "new"
  /\ \A p \in Thread : archiving[p] # None => Archiving(p)
  /\ \A p, q \in Thread : archiving[p] # None /\ archiving[q] # None => p = q
  /\ done => \/ at[Starter] = "over" /\ at[Supervisor] = "dead"
             \/ at[Starter] \in {"dirless", "lastArchive", "dead"}

AllOver == \A w \in Worker : ~Alive(w)

\* The places of the supervisor before it looks at the threads.
Joining == {"none", "joining", "waiting", "flag", "stopping", "counting", "listing threads"}

Findings ==
  /\ at[Supervisor] \in Joining => ~verdict.left
  /\ at[Supervisor] = "settling" => (verdict.failed <=> verdict.left \/ errors # {})
  /\ at[Supervisor] = "reading errors" /\ ~verdict.left => AllOver
  /\ at[Supervisor] = "settling" /\ ~verdict.failed => AllOver /\ errors = {}
  /\ runState \in {"ended", "stopped"} => AllOver /\ errors = {}

\* Something other than an end condition is behind a stop.
Tainted == errors # {} \/ reason \/ ~llm \/ at[Starter] \in Failing

AllTold == match /\ announced = Venue

Blamed == Tainted \/ AllTold

Causes ==
  /\ stopEvent => Blamed
  /\ closed # {} => Blamed
  /\ \A p \in {Starter, Supervisor} :
       at[p] \in {"flag", "stopping"} => Blamed
  /\ at[Operator] \in {"asking", "flag", "stopping"} => reason
  /\ \A w \in Venue \cup Agent : at[w] \in {"flag", "stopping"} => w \in errors
  /\ at[Monitor] \in {"flag", "stopping"} => errors # {} \/ AllTold
  /\ \A a \in Agent : at[a] = "dead" => Blamed
  /\ announced \subseteq ended \/ Tainted
  /\ at[Monitor] \in {"none", "watching"} => ~match
  /\ at[Monitor] = "announcing" => match
  /\ match => at[Monitor] = "announcing" \/ errors # {} \/ announced = Venue

\* A snapshot that says how the run has ended.
Tells(f) ==
  /\ f.state = runState
  /\ runState \in {"ended", "stopped"} => f.ended = ended

Written ==
  /\ archiving[Supervisor] # None => Tells(archiving[Supervisor])
  /\ at[Supervisor] \in {"finishing", "dead"} =>
       /\ ~lost => Tells(disk)
       /\ \A p \in Thread : archiving[p] # None => Tells(archiving[p])

IInv == TypeOK /\ Roles /\ Course /\ Findings /\ Written /\ Causes

-----------------------------------------------------------------------------

\* The threads differ from each other.
LEMMA Distinct ==
  /\ Starter # Operator /\ Starter # Supervisor /\ Starter # Archiver
  /\ Starter # Monitor /\ Starter # None
  /\ Operator # Supervisor /\ Operator # Archiver /\ Operator # Monitor /\ Operator # None
  /\ Supervisor # Archiver /\ Supervisor # Monitor /\ Supervisor # None
  /\ Archiver # Monitor /\ Archiver # None
  /\ Monitor # None
  /\ \A v \in Venue : v \notin Agent \cup {Starter, Operator, Supervisor, Archiver, Monitor, None}
  /\ \A a \in Agent : a \notin {Starter, Operator, Supervisor, Archiver, Monitor, None}
BY RunAssumption

\* The kinds of threads are threads.
LEMMA Threads ==
  /\ {Starter, Operator, Supervisor, Archiver, Monitor} \subseteq Thread
  /\ Venue \subseteq Thread /\ Agent \subseteq Thread
  /\ Worker \subseteq Thread
  /\ Venue \subseteq Worker /\ Agent \subseteq Worker /\ Monitor \in Worker
BY DEF Thread, Worker

\* Every step keeps the types.
LEMMA TypeStep ==
  ASSUME IInv, Next
  PROVE  TypeOK'
<1>0. TypeOK /\ Course
  BY DEF IInv
<1> USE Threads DEF TypeOK, Go
<1>f. ASSUME Fault
      PROVE  faults' \in 0..MaxFaults
  BY <1>f, <1>0, RunAssumption DEF Fault
<1>1. CASE InitializeFails
  <2>1. PICK dir \in BOOLEAN :
          Go(Starter, IF dir THEN "failed" ELSE "dirless") /\ done' = ~dir
    BY <1>1 DEF InitializeFails
  <2>2. at' \in [Thread -> Place] /\ done' \in BOOLEAN
    BY <2>1, <1>0 DEF Place
  <2>3. runState' \in {"starting", "running"} \cup Final
    BY <1>1 DEF InitializeFails, Final
  <2> QED
    BY <1>1, <1>0, <1>f, <2>2, <2>3 DEF InitializeFails, simVars
<1>2. CASE Initialize
  BY <1>2, <1>0 DEF Initialize, simVars, runVars, Place
<1>3. CASE EnginesStarted
  BY <1>3, <1>0 DEF EnginesStarted, simVars, runVars, Place
<1>4. CASE AgentsStarted
  BY <1>4, <1>0 DEF AgentsStarted, simVars, runVars, Place
<1>5. CASE StartMonitor
  BY <1>5, <1>0 DEF StartMonitor, simVars, runVars, Place
<1>6. CASE StartFails
  <2>1. at' \in [Thread -> Place]
    BY <1>6, <1>0 DEF StartFails, Place
  <2> QED
    BY <1>6, <1>0, <1>f, <2>1 DEF StartFails, simVars, runVars
<1>7. CASE StartRaises
  BY <1>7, <1>0 DEF StartRaises, simVars, runVars, Place, Final, Outcome
<1>8. CASE FailedStartDone
  BY <1>8, <1>0 DEF FailedStartDone, simVars, runVars, Place
<1>9. CASE Begin
  BY <1>9, <1>0 DEF Begin, simVars, runVars, Place, Final, Outcome
<1>10. ASSUME NEW v \in Venue, SpawnEngine(v)
      PROVE  TypeOK'
  BY <1>10, <1>0 DEF SpawnEngine, simVars, runVars, Place
<1>11. ASSUME NEW v \in Venue, Greet(v)
      PROVE  TypeOK'
  <2>1. at' \in [Thread -> Place] /\ greeted' \subseteq Venue
    <3>1. CASE greeted' = greeted \cup {v} /\ UNCHANGED at
      BY <3>1, <1>0
    <3>2. CASE Go(Starter, "flag") /\ UNCHANGED greeted
      BY <3>2, <1>0 DEF Place
    <3> QED
      BY <1>11, <3>1, <3>2 DEF Greet
  <2> QED
    BY <1>11, <1>0, <2>1 DEF Greet, runVars
<1>12. ASSUME NEW a \in Agent, SpawnAgent(a)
      PROVE  TypeOK'
  BY <1>12, <1>0 DEF SpawnAgent, simVars, runVars, Place
<1>13. ASSUME NEW p \in Thread, RaiseFlag(p)
      PROVE  TypeOK'
  BY <1>13, <1>0 DEF RaiseFlag, simVars, runVars, Place
<1>14. ASSUME NEW p \in Thread, StopAll(p)
      PROVE  TypeOK'
  BY <1>14, <1>0 DEF StopAll, simVars, runVars, Place, AfterStop
<1>15. ASSUME NEW p \in Thread, BeginArchive(p)
      PROVE  TypeOK'
  <2>1. Snapshot \in Files
    BY <1>0 DEF Snapshot, Files
  <2> QED
    BY <1>15, <1>0, <2>1 DEF BeginArchive, simVars
<1>16. ASSUME NEW p \in Thread, EndArchive(p)
      PROVE  TypeOK'
  BY <1>16, <1>0 DEF EndArchive, simVars, runVars, Place, Archived
<1>17. ASSUME NEW p \in Thread, ArchiveFails(p)
      PROVE  TypeOK'
  <2>1. archiving[p] \in Files
    BY <1>17, <1>0 DEF ArchiveFails
  <2>2. disk' \in Files
    BY <1>17, <1>0, <2>1 DEF ArchiveFails, Files
  <2>3. runState' \in {"starting", "running"} \cup Final /\ lost' \in BOOLEAN
    BY <1>17, <1>0 DEF ArchiveFails, Final
  <2>4. at' \in [Thread -> Place]
    BY <1>17, <1>0 DEF ArchiveFails, Place
  <2> QED
    BY <1>17, <1>0, <1>f, <2>2, <2>3, <2>4 DEF ArchiveFails, simVars
<1>18. CASE StopRun
  BY <1>18, <1>0 DEF StopRun, simVars, runVars, Place
<1>19. CASE AskSimulator
  BY <1>19, <1>0 DEF AskSimulator, simVars, runVars, Place
<1>20. CASE JoinRound
  BY <1>20, <1>0 DEF JoinRound, simVars, runVars, Place
<1>21. CASE JoinAgain
  BY <1>21, <1>0 DEF JoinAgain, simVars, runVars, Place
<1>22. CASE GraceOver
  BY <1>22, <1>0 DEF GraceOver, simVars, runVars, Place
<1>23. CASE AllJoined
  BY <1>23, <1>0 DEF AllJoined, simVars, runVars, Place
<1>24. CASE CollectLast
  BY <1>24, <1>0 DEF CollectLast, simVars, runVars, Place
<1>25. CASE LookAtThreads
  BY <1>25, <1>0 DEF LookAtThreads, simVars, runVars, Place
<1>26. CASE ReadErrors
  BY <1>26, <1>0 DEF ReadErrors, simVars, runVars, Place
<1>27. CASE Settle
  BY <1>27, <1>0 DEF Settle, simVars, runVars, Place, Final, Outcome
<1>28. CASE SupervisorDone
  BY <1>28, <1>0 DEF SupervisorDone, simVars, runVars, Place
<1>29. CASE ArchiverRests
  BY <1>29, <1>0 DEF ArchiverRests, simVars, runVars, Place
<1>30. ASSUME NEW v \in Venue, EngineOpens(v)
      PROVE  TypeOK'
  <2>1. failures' = {w \in Venue : gate'[w] = "failed"}
    BY <1>30, <1>0 DEF Course, EngineOpens
  <2>2. at' \in [Thread -> Place]
    BY <1>30, <1>0 DEF EngineOpens, Place, Raise
  <2>3. errors' \subseteq Worker
    BY <1>30, <1>0 DEF EngineOpens, Raise
  <2> QED
    BY <1>30, <1>0, <2>1, <2>2, <2>3 DEF EngineOpens, simVars, runVars
<1>31. ASSUME NEW v \in Venue, EngineCrashes(v)
      PROVE  TypeOK'
  <2>1. failures' = {w \in Venue : gate'[w] = "failed"}
    BY <1>31, <1>0 DEF Course, EngineCrashes
  <2>2. at' \in [Thread -> Place]
    BY <1>31, <1>0 DEF EngineCrashes, Place, Raise
  <2>3. errors' \subseteq Worker
    BY <1>31, <1>0 DEF EngineCrashes, Raise
  <2> QED
    BY <1>31, <1>0, <1>f, <2>1, <2>2, <2>3 DEF EngineCrashes, simVars, runVars
<1>32. ASSUME NEW v \in Venue, CommandTimesOut(v)
      PROVE  TypeOK'
  <2>1. failures' = {w \in Venue : gate'[w] = "failed"}
    BY <1>32, <1>0 DEF CommandTimesOut
  <2>2. /\ at' \in [Thread -> Place]
        /\ errors' \subseteq Worker
        /\ announced' \subseteq Venue
    <3>1. ASSUME NEW a \in Agent, Raise(a), UNCHANGED announced
          PROVE  at' \in [Thread -> Place] /\ errors' \subseteq Worker /\ announced' \subseteq Venue
      BY <3>1, <1>0 DEF Raise, Place
    <3>2. CASE Go(Starter, "flag") /\ UNCHANGED <<errors, announced>>
      BY <3>2, <1>0 DEF Place
    <3>3. CASE announced' = announced \cup {v} /\ UNCHANGED <<at, errors>>
      BY <3>3, <1>0
    <3>4. CASE Raise(Monitor) /\ UNCHANGED announced
      BY <3>4, <1>0 DEF Raise, Place
    <3> QED
      BY <1>32, <3>1, <3>2, <3>3, <3>4 DEF CommandTimesOut
  <2> QED
    BY <1>32, <1>0, <1>f, <2>1, <2>2 DEF CommandTimesOut, runVars
<1>33. ASSUME NEW v \in Venue, EngineEnds(v)
      PROVE  TypeOK'
  BY <1>33, <1>0 DEF EngineEnds, simVars, runVars, Place
<1>34. ASSUME NEW a \in Agent, AgentLoops(a)
      PROVE  TypeOK'
  BY <1>34, <1>0 DEF AgentLoops, simVars, runVars, Place
<1>35. ASSUME NEW a \in Agent, AgentWakes(a)
      PROVE  TypeOK'
  BY <1>35, <1>0 DEF AgentWakes, simVars, runVars, Place
<1>36. ASSUME NEW a \in Agent, AgentReturns(a)
      PROVE  TypeOK'
  BY <1>36, <1>0 DEF AgentReturns, simVars, runVars, Place
<1>37. ASSUME NEW a \in Agent, AgentRests(a)
      PROVE  TypeOK'
  BY <1>37, <1>0 DEF AgentRests, simVars, runVars, Place
<1>38. ASSUME NEW a \in Agent, AgentRefused(a)
      PROVE  TypeOK'
  <2>1. at' \in [Thread -> Place]
    BY <1>38, <1>0 DEF AgentRefused, Raise, Place
  <2> QED
    BY <1>38, <1>0, <2>1 DEF AgentRefused, Raise, simVars, runVars
<1>39. ASSUME NEW a \in Agent, AgentFails(a)
      PROVE  TypeOK'
  BY <1>39, <1>0, <1>f DEF AgentFails, simVars, runVars, Place, Raise
<1>40. ASSUME NEW a \in Agent, AgentHangs(a)
      PROVE  TypeOK'
  <2>1. at' \in [Thread -> Place]
    BY <1>40, <1>0 DEF AgentHangs, Place
  <2> QED
    BY <1>40, <1>0, <1>f, <2>1 DEF AgentHangs, simVars, runVars
<1>41. CASE MonitorLeaves
  BY <1>41, <1>0 DEF MonitorLeaves, simVars, runVars, Place
<1>42. CASE Match
  BY <1>42, <1>0 DEF Match, simVars, runVars, Place
<1>43. ASSUME NEW v \in Venue, Announce(v)
      PROVE  TypeOK'
  BY <1>43, <1>0 DEF Announce, simVars, runVars, Place
<1>44. ASSUME NEW v \in Venue, AnnounceRefused(v)
      PROVE  TypeOK'
  <2>1. /\ at' \in [Thread -> Place]
        /\ errors' \subseteq Worker
        /\ announced' \subseteq Venue
    <3>1. CASE announced' = announced \cup {v} /\ UNCHANGED <<at, errors>>
      BY <3>1, <1>0
    <3>2. CASE Raise(Monitor) /\ UNCHANGED announced
      BY <3>2, <1>0 DEF Raise, Place
    <3> QED
      BY <1>44, <3>1, <3>2 DEF AnnounceRefused
  <2> QED
    BY <1>44, <1>0, <2>1 DEF AnnounceRefused, runVars
<1>45. CASE AllAnnounced
  BY <1>45, <1>0 DEF AllAnnounced, simVars, runVars, Place
<1>46. CASE MonitorFails
  BY <1>46, <1>0, <1>f DEF MonitorFails, simVars, runVars, Place, Raise
<1> QED
    BY <1>1, <1>2, <1>3, <1>4, <1>5, <1>6, <1>7, <1>8, <1>9, <1>10, <1>11, <1>12, <1>13,
     <1>14, <1>15, <1>16, <1>17, <1>18, <1>19, <1>20, <1>21, <1>22, <1>23, <1>24, <1>25,
     <1>26, <1>27, <1>28, <1>29, <1>30, <1>31, <1>32, <1>33, <1>34, <1>35, <1>36, <1>37,
     <1>38, <1>39, <1>40, <1>41, <1>42, <1>43, <1>44, <1>45, <1>46
     DEF Next, StarterStep, OperatorStep, SupervisorStep, ArchiverStep, MonitorStep, EngineStep,
         AgentProgress, RequestStop, Archive

\* Every step leaves each thread at one of its places.
LEMMA RoleStep ==
  ASSUME IInv, Next
  PROVE  Roles'
<1>0. /\ at \in [Thread -> Place]
      /\ archiving \in [Thread -> Files \cup {None}]
      /\ Roles /\ Course
  BY DEF IInv, TypeOK
<1>s. ASSUME at' = at
      PROVE  Roles'
  BY <1>s, <1>0 DEF Roles
<1> USE Distinct, Threads DEF Roles, Go, StarterPlaces, OperatorPlaces, SupervisorPlaces,
           ArchiverPlaces, MonitorPlaces, EnginePlaces, AgentPlaces
<1>1. CASE InitializeFails
  BY <1>1, <1>0 DEF InitializeFails, simVars, runVars
<1>2. CASE Initialize
  BY <1>2, <1>0 DEF Initialize, simVars, runVars
<1>3. CASE EnginesStarted
  BY <1>3, <1>0 DEF EnginesStarted, simVars, runVars
<1>4. CASE AgentsStarted
  BY <1>4, <1>0 DEF AgentsStarted, simVars, runVars
<1>5. CASE StartMonitor
  BY <1>5, <1>0 DEF StartMonitor, simVars, runVars
<1>6. CASE StartFails
  BY <1>6, <1>0 DEF StartFails, simVars, runVars
<1>7. CASE StartRaises
  BY <1>7, <1>0 DEF StartRaises, simVars, runVars
<1>8. CASE FailedStartDone
  BY <1>8, <1>0 DEF FailedStartDone, simVars, runVars
<1>9. CASE Begin
  BY <1>9, <1>0 DEF Begin, simVars, runVars
<1>10. ASSUME NEW v \in Venue, SpawnEngine(v)
      PROVE  Roles'
  BY <1>10, <1>0 DEF SpawnEngine, simVars, runVars
<1>11. ASSUME NEW v \in Venue, Greet(v)
      PROVE  Roles'
  BY <1>11, <1>0 DEF Greet, simVars, runVars
<1>12. ASSUME NEW a \in Agent, SpawnAgent(a)
      PROVE  Roles'
  BY <1>12, <1>0 DEF SpawnAgent, simVars, runVars
<1>13. ASSUME NEW p \in Thread, RaiseFlag(p)
      PROVE  Roles'
  BY <1>13, <1>0 DEF RaiseFlag, simVars, runVars
<1>14. ASSUME NEW p \in Thread, StopAll(p)
      PROVE  Roles'
  BY <1>14, <1>0 DEF StopAll, simVars, runVars, AfterStop
<1>15. ASSUME NEW p \in Thread, BeginArchive(p)
      PROVE  Roles'
  <2>1. at' = at
    BY <1>15 DEF BeginArchive
  <2> QED
    BY <2>1, <1>s
<1>16. ASSUME NEW p \in Thread, EndArchive(p)
      PROVE  Roles'
  <2>1. Archiving(p)
    BY <1>16, <1>0 DEF EndArchive, Course
  <2>2. at[p] = "firstArchive" => p = Starter
    BY <1>0 DEF Thread, Worker
  <2>3. CASE at[p] = "firstArchive"
    <3>1. /\ at'[Starter] = "over" /\ at'[Supervisor] = "joining" /\ at'[Archiver] = "resting"
          /\ \A q \in Thread \ {Starter, Supervisor, Archiver} : at'[q] = at[q]
      BY <1>16, <2>2, <2>3 DEF EndArchive, Archived
    <3> QED
      BY <3>1, <1>0
  <2>4. CASE at[p] # "firstArchive"
    <3>1. /\ \A q \in Thread \ {p} : at'[q] = at[q]
          /\ at'[p] = IF p = Supervisor THEN "finishing"
                      ELSE IF at[p] = "archiving" THEN "resting" ELSE "dead"
      BY <1>16, <2>4 DEF EndArchive, Archived
    <3>2. CASE p = Starter
      BY <3>1, <3>2, <2>1, <2>4, <1>0 DEF Archiving
    <3>3. CASE p = Supervisor
      BY <3>1, <3>3, <1>0
    <3>4. CASE p = Archiver
      BY <3>1, <3>4, <2>1, <2>4, <1>0 DEF Archiving
    <3>5. p \in {Starter, Supervisor, Archiver}
      BY <2>1, <1>0 DEF Archiving, Thread, Worker
    <3> QED
      BY <3>2, <3>3, <3>4, <3>5
  <2> QED
    BY <2>3, <2>4
<1>17. ASSUME NEW p \in Thread, ArchiveFails(p)
      PROVE  Roles'
  <2>1. Archiving(p)
    BY <1>17, <1>0 DEF ArchiveFails, Course
  <2>2. p \in {Starter, Supervisor, Archiver}
    BY <2>1, <1>0 DEF Archiving, Thread, Worker
  <2>3. at' = [at EXCEPT ![p] = IF p = Supervisor THEN "finishing" ELSE "dead"]
    BY <1>17 DEF ArchiveFails
  <2> QED
    BY <2>2, <2>3, <1>0
<1>18. CASE StopRun
  BY <1>18, <1>0 DEF StopRun, simVars, runVars
<1>19. CASE AskSimulator
  BY <1>19, <1>0 DEF AskSimulator, simVars, runVars
<1>20. CASE JoinRound
  BY <1>20, <1>0 DEF JoinRound, simVars, runVars
<1>21. CASE JoinAgain
  BY <1>21, <1>0 DEF JoinAgain, simVars, runVars
<1>22. CASE GraceOver
  BY <1>22, <1>0 DEF GraceOver, simVars, runVars
<1>23. CASE AllJoined
  BY <1>23, <1>0 DEF AllJoined, simVars, runVars
<1>24. CASE CollectLast
  BY <1>24, <1>0 DEF CollectLast, simVars, runVars
<1>25. CASE LookAtThreads
  BY <1>25, <1>0 DEF LookAtThreads, simVars, runVars
<1>26. CASE ReadErrors
  BY <1>26, <1>0 DEF ReadErrors, simVars, runVars
<1>27. CASE Settle
  BY <1>27, <1>0 DEF Settle, simVars, runVars
<1>28. CASE SupervisorDone
  BY <1>28, <1>0 DEF SupervisorDone, simVars, runVars
<1>29. CASE ArchiverRests
  BY <1>29, <1>0 DEF ArchiverRests, simVars, runVars
<1>30. ASSUME NEW v \in Venue, EngineOpens(v)
      PROVE  Roles'
  BY <1>30, <1>0 DEF EngineOpens, simVars, runVars
<1>31. ASSUME NEW v \in Venue, EngineCrashes(v)
      PROVE  Roles'
  BY <1>31, <1>0 DEF EngineCrashes, simVars, runVars, Raise
<1>32. ASSUME NEW v \in Venue, CommandTimesOut(v)
      PROVE  Roles'
  <2>1. ASSUME NEW p \in Agent \cup {Starter, Monitor}, Go(p, "flag")
        PROVE  Roles'
    BY <2>1, <1>0
  <2> QED
    BY <1>32, <2>1, <1>s DEF CommandTimesOut, Raise
<1>33. ASSUME NEW v \in Venue, EngineEnds(v)
      PROVE  Roles'
  BY <1>33, <1>0 DEF EngineEnds, simVars, runVars
<1>34. ASSUME NEW a \in Agent, AgentLoops(a)
      PROVE  Roles'
  BY <1>34, <1>0 DEF AgentLoops, simVars, runVars
<1>35. ASSUME NEW a \in Agent, AgentWakes(a)
      PROVE  Roles'
  BY <1>35, <1>0 DEF AgentWakes, simVars, runVars
<1>36. ASSUME NEW a \in Agent, AgentReturns(a)
      PROVE  Roles'
  BY <1>36, <1>0 DEF AgentReturns, simVars, runVars
<1>37. ASSUME NEW a \in Agent, AgentRests(a)
      PROVE  Roles'
  BY <1>37, <1>0 DEF AgentRests, simVars, runVars
<1>38. ASSUME NEW a \in Agent, AgentRefused(a)
      PROVE  Roles'
  BY <1>38, <1>0 DEF AgentRefused, simVars, runVars, Raise
<1>39. ASSUME NEW a \in Agent, AgentFails(a)
      PROVE  Roles'
  BY <1>39, <1>0 DEF AgentFails, simVars, runVars, Raise
<1>40. ASSUME NEW a \in Agent, AgentHangs(a)
      PROVE  Roles'
  BY <1>40, <1>0 DEF AgentHangs, simVars, runVars
<1>41. CASE MonitorLeaves
  BY <1>41, <1>0 DEF MonitorLeaves, simVars, runVars
<1>42. CASE Match
  BY <1>42, <1>0 DEF Match, simVars, runVars
<1>43. ASSUME NEW v \in Venue, Announce(v)
      PROVE  Roles'
  <2>1. at' = at
    BY <1>43 DEF Announce
  <2> QED
    BY <2>1, <1>s
<1>44. ASSUME NEW v \in Venue, AnnounceRefused(v)
      PROVE  Roles'
  BY <1>44, <1>0 DEF AnnounceRefused, simVars, runVars, Raise
<1>45. CASE AllAnnounced
  BY <1>45, <1>0 DEF AllAnnounced, simVars, runVars
<1>46. CASE MonitorFails
  BY <1>46, <1>0 DEF MonitorFails, simVars, runVars, Raise
<1> QED
    BY <1>1, <1>2, <1>3, <1>4, <1>5, <1>6, <1>7, <1>8, <1>9, <1>10, <1>11, <1>12, <1>13,
     <1>14, <1>15, <1>16, <1>17, <1>18, <1>19, <1>20, <1>21, <1>22, <1>23, <1>24, <1>25,
     <1>26, <1>27, <1>28, <1>29, <1>30, <1>31, <1>32, <1>33, <1>34, <1>35, <1>36, <1>37,
     <1>38, <1>39, <1>40, <1>41, <1>42, <1>43, <1>44, <1>45, <1>46
     DEF Next, StarterStep, OperatorStep, SupervisorStep, ArchiverStep, MonitorStep, EngineStep,
         AgentProgress, RequestStop, Archive

\* Every step keeps the order of a run's life: who is there when, what the run's state
\* says meanwhile, and who archives.
LEMMA CourseStep ==
  ASSUME IInv, Next
  PROVE  Course'
<1>0. /\ at \in [Thread -> Place]
      /\ archiving \in [Thread -> Files \cup {None}]
      /\ gate \in [Venue -> {"new", "open", "draining", "failed"}]
      /\ done \in BOOLEAN
      /\ Roles /\ Course
  BY DEF IInv, TypeOK
<1> USE Distinct, Threads DEF Course, Roles, Go, StarterPlaces, OperatorPlaces,
           SupervisorPlaces,
           ArchiverPlaces, MonitorPlaces, EnginePlaces, AgentPlaces, Archiving, SettledPlaces, Final
<1>1. CASE InitializeFails
  <2>1. PICK dir \in BOOLEAN :
          Go(Starter, IF dir THEN "failed" ELSE "dirless") /\ done' = ~dir
    BY <1>1 DEF InitializeFails
  <2>2. /\ at[Starter] = "new" /\ runState' = "failed"
        /\ archiving' = archiving /\ gate' = gate
    BY <1>1 DEF InitializeFails, simVars
  <2>3. CASE dir
    BY <2>1, <2>2, <2>3, <1>0
  <2>4. CASE ~dir
    BY <2>1, <2>2, <2>4, <1>0
  <2> QED
    BY <2>3, <2>4
<1>2. CASE Initialize
  BY <1>2, <1>0 DEF Initialize, simVars, runVars
<1>3. CASE EnginesStarted
  BY <1>3, <1>0 DEF EnginesStarted, simVars, runVars
<1>4. CASE AgentsStarted
  BY <1>4, <1>0 DEF AgentsStarted, simVars, runVars
<1>5. CASE StartMonitor
  BY <1>5, <1>0 DEF StartMonitor, simVars, runVars
<1>6. CASE StartFails
  BY <1>6, <1>0 DEF StartFails, simVars, runVars
<1>7. CASE StartRaises
  BY <1>7, <1>0 DEF StartRaises, simVars, runVars
<1>8. CASE FailedStartDone
  BY <1>8, <1>0 DEF FailedStartDone, simVars, runVars
<1>9. CASE Begin
  BY <1>9, <1>0 DEF Begin, simVars, runVars
<1>10. ASSUME NEW v \in Venue, SpawnEngine(v)
      PROVE  Course'
  BY <1>10, <1>0 DEF SpawnEngine, simVars, runVars
<1>11. ASSUME NEW v \in Venue, Greet(v)
      PROVE  Course'
  <2>1. /\ at[Starter] = "greeting"
        /\ at' = at \/ at' = [at EXCEPT ![Starter] = "flag"]
        /\ UNCHANGED <<runState, done, gate, archiving>>
    BY <1>11 DEF Greet, simVars, runVars
  <2>2. CASE at' = at
    BY <2>1, <2>2, <1>0
  <2>3. CASE at' = [at EXCEPT ![Starter] = "flag"]
    BY <2>1, <2>3, <1>0
  <2> QED
    BY <2>1, <2>2, <2>3
<1>12. ASSUME NEW a \in Agent, SpawnAgent(a)
      PROVE  Course'
  BY <1>12, <1>0 DEF SpawnAgent, simVars, runVars
<1>13. ASSUME NEW p \in Thread, RaiseFlag(p)
      PROVE  Course'
  BY <1>13, <1>0 DEF RaiseFlag, simVars, runVars
<1>14. ASSUME NEW p \in Thread, StopAll(p)
      PROVE  Course'
  BY <1>14, <1>0 DEF StopAll, simVars, runVars, AfterStop
<1>15. ASSUME NEW p \in Thread, BeginArchive(p)
      PROVE  Course'
  BY <1>15, <1>0 DEF BeginArchive, simVars, runVars
<1>16. ASSUME NEW p \in Thread, EndArchive(p)
      PROVE  Course'
  <2>1. Archiving(p) /\ p \in {Starter, Supervisor, Archiver}
    BY <1>16, <1>0 DEF EndArchive, Thread, Worker
  <2>2. \A q \in Thread : archiving'[q] = None
    BY <1>16, <1>0 DEF EndArchive
  <2>3. CASE at[p] = "firstArchive"
    <3>1. /\ p = Starter
          /\ at'[Starter] = "over" /\ at'[Supervisor] = "joining" /\ at'[Archiver] = "resting"
          /\ \A q \in Thread \ {Starter, Supervisor, Archiver} : at'[q] = at[q]
      BY <1>16, <1>0, <2>1, <2>3 DEF EndArchive, Archived
    <3> QED
      BY <1>16, <3>1, <2>2, <2>3, <1>0 DEF EndArchive, simVars
  <2>4. CASE at[p] # "firstArchive"
    <3>1. /\ \A q \in Thread \ {p} : at'[q] = at[q]
          /\ at'[p] = IF p = Supervisor THEN "finishing"
                      ELSE IF at[p] = "archiving" THEN "resting" ELSE "dead"
      BY <1>16, <2>4 DEF EndArchive, Archived
    <3>2. runState' = runState /\ done' = done /\ gate' = gate
      BY <1>16 DEF EndArchive, simVars
    <3>3. CASE p = Starter
      BY <3>1, <3>2, <3>3, <2>1, <2>2, <2>4, <1>0
    <3>4. CASE p \in {Supervisor, Archiver}
      BY <3>1, <3>2, <3>4, <2>1, <2>2, <2>4, <1>0
    <3> QED
      BY <3>3, <3>4, <2>1
  <2> QED
    BY <2>3, <2>4
<1>17. ASSUME NEW p \in Thread, ArchiveFails(p)
      PROVE  Course'
  BY <1>17, <1>0 DEF ArchiveFails, simVars, runVars
<1>18. CASE StopRun
  BY <1>18, <1>0 DEF StopRun, simVars, runVars
<1>19. CASE AskSimulator
  BY <1>19, <1>0 DEF AskSimulator, simVars, runVars
<1>20. CASE JoinRound
  BY <1>20, <1>0 DEF JoinRound, simVars, runVars
<1>21. CASE JoinAgain
  BY <1>21, <1>0 DEF JoinAgain, simVars, runVars
<1>22. CASE GraceOver
  BY <1>22, <1>0 DEF GraceOver, simVars, runVars
<1>23. CASE AllJoined
  BY <1>23, <1>0 DEF AllJoined, simVars, runVars
<1>24. CASE CollectLast
  BY <1>24, <1>0 DEF CollectLast, simVars, runVars
<1>25. CASE LookAtThreads
  BY <1>25, <1>0 DEF LookAtThreads, simVars, runVars
<1>26. CASE ReadErrors
  BY <1>26, <1>0 DEF ReadErrors, simVars, runVars
<1>27. CASE Settle
  <2>1. runState' \in {"ended", "stopped", "failed"}
    BY <1>27 DEF Settle, Outcome
  <2> QED
    BY <1>27, <2>1, <1>0 DEF Settle, simVars
<1>28. CASE SupervisorDone
  BY <1>28, <1>0 DEF SupervisorDone, simVars, runVars
<1>29. CASE ArchiverRests
  BY <1>29, <1>0 DEF ArchiverRests, simVars, runVars
<1>30. ASSUME NEW v \in Venue, EngineOpens(v)
      PROVE  Course'
  BY <1>30, <1>0 DEF EngineOpens, simVars, runVars
<1>31. ASSUME NEW v \in Venue, EngineCrashes(v)
      PROVE  Course'
  BY <1>31, <1>0 DEF EngineCrashes, simVars, runVars, Raise
<1>32. ASSUME NEW v \in Venue, CommandTimesOut(v)
      PROVE  Course'
  <2>c. /\ gate' = [gate EXCEPT ![v] = "failed"] /\ at[v] = "serving"
        /\ UNCHANGED runVars
    BY <1>32 DEF CommandTimesOut
  <2>1. ASSUME NEW q \in Agent \cup {Starter, Monitor}, Go(q, "flag"),
               q = Starter => at[Starter] = "greeting", at[q] # "none"
        PROVE  Course'
    <3>1. CASE q = Starter
      BY <2>c, <2>1, <3>1, <1>0 DEF runVars
    <3>2. CASE q = Monitor
      BY <2>c, <2>1, <3>2, <1>0 DEF runVars
    <3>3. CASE q \in Agent
      BY <2>c, <2>1, <3>3, <1>0 DEF runVars
    <3> QED
      BY <2>1, <3>1, <3>2, <3>3
  <2>2. CASE UNCHANGED at
    BY <2>c, <2>2, <1>0 DEF runVars
  <2> QED
    BY <1>32, <2>1, <2>2 DEF CommandTimesOut, Raise
<1>33. ASSUME NEW v \in Venue, EngineEnds(v)
      PROVE  Course'
  BY <1>33, <1>0 DEF EngineEnds, simVars, runVars
<1>34. ASSUME NEW a \in Agent, AgentLoops(a)
      PROVE  Course'
  BY <1>34, <1>0 DEF AgentLoops, simVars, runVars
<1>35. ASSUME NEW a \in Agent, AgentWakes(a)
      PROVE  Course'
  BY <1>35, <1>0 DEF AgentWakes, simVars, runVars
<1>36. ASSUME NEW a \in Agent, AgentReturns(a)
      PROVE  Course'
  BY <1>36, <1>0 DEF AgentReturns, simVars, runVars
<1>37. ASSUME NEW a \in Agent, AgentRests(a)
      PROVE  Course'
  BY <1>37, <1>0 DEF AgentRests, simVars, runVars
<1>38. ASSUME NEW a \in Agent, AgentRefused(a)
      PROVE  Course'
  BY <1>38, <1>0 DEF AgentRefused, simVars, runVars, Raise
<1>39. ASSUME NEW a \in Agent, AgentFails(a)
      PROVE  Course'
  BY <1>39, <1>0 DEF AgentFails, simVars, runVars, Raise
<1>40. ASSUME NEW a \in Agent, AgentHangs(a)
      PROVE  Course'
  BY <1>40, <1>0 DEF AgentHangs, simVars, runVars
<1>41. CASE MonitorLeaves
  BY <1>41, <1>0 DEF MonitorLeaves, simVars, runVars
<1>42. CASE Match
  BY <1>42, <1>0 DEF Match, simVars, runVars
<1>43. ASSUME NEW v \in Venue, Announce(v)
      PROVE  Course'
  BY <1>43, <1>0 DEF Announce, simVars, runVars
<1>44. ASSUME NEW v \in Venue, AnnounceRefused(v)
      PROVE  Course'
  <2>1. CASE Raise(Monitor)
    BY <1>44, <2>1, <1>0 DEF AnnounceRefused, simVars, runVars, Raise
  <2>2. CASE UNCHANGED at
    BY <1>44, <2>2, <1>0 DEF AnnounceRefused, simVars, runVars
  <2> QED
    BY <1>44, <2>1, <2>2 DEF AnnounceRefused
<1>45. CASE AllAnnounced
  BY <1>45, <1>0 DEF AllAnnounced, simVars, runVars
<1>46. CASE MonitorFails
  BY <1>46, <1>0 DEF MonitorFails, simVars, runVars, Raise
<1> QED
    BY <1>1, <1>2, <1>3, <1>4, <1>5, <1>6, <1>7, <1>8, <1>9, <1>10, <1>11, <1>12, <1>13,
     <1>14, <1>15, <1>16, <1>17, <1>18, <1>19, <1>20, <1>21, <1>22, <1>23, <1>24, <1>25,
     <1>26, <1>27, <1>28, <1>29, <1>30, <1>31, <1>32, <1>33, <1>34, <1>35, <1>36, <1>37,
     <1>38, <1>39, <1>40, <1>41, <1>42, <1>43, <1>44, <1>45, <1>46
     DEF Next, StarterStep, OperatorStep, SupervisorStep, ArchiverStep, MonitorStep, EngineStep,
         AgentProgress, RequestStop, Archive

\* What the supervisor found stays found: a thread that is over does not come back, and
\* only a live one files an error.
LEMMA FindingsStep ==
  ASSUME IInv, Next
  PROVE  Findings'
<1>0. /\ at \in [Thread -> Place]
      /\ archiving \in [Thread -> Files \cup {None}]
      /\ errors \subseteq Worker
      /\ verdict \in [left : BOOLEAN, failed : BOOLEAN]
      /\ failures \subseteq Venue
      /\ Roles /\ Course /\ Findings
  BY DEF IInv, TypeOK
<1> USE Distinct, Threads DEF Findings, Joining, AllOver, Alive, Course, Roles, Go, StarterPlaces,
           OperatorPlaces, SupervisorPlaces, ArchiverPlaces, MonitorPlaces, EnginePlaces,
           AgentPlaces, Archiving, SettledPlaces, Final
<1>1. CASE InitializeFails
  BY <1>1, <1>0 DEF InitializeFails, simVars, runVars
<1>2. CASE Initialize
  BY <1>2, <1>0 DEF Initialize, simVars, runVars
<1>3. CASE EnginesStarted
  BY <1>3, <1>0 DEF EnginesStarted, simVars, runVars
<1>4. CASE AgentsStarted
  BY <1>4, <1>0 DEF AgentsStarted, simVars, runVars
<1>5. CASE StartMonitor
  BY <1>5, <1>0 DEF StartMonitor, simVars, runVars
<1>6. CASE StartFails
  BY <1>6, <1>0 DEF StartFails, simVars, runVars
<1>7. CASE StartRaises
  BY <1>7, <1>0 DEF StartRaises, simVars, runVars
<1>8. CASE FailedStartDone
  BY <1>8, <1>0 DEF FailedStartDone, simVars, runVars
<1>9. CASE Begin
  BY <1>9, <1>0 DEF Begin, simVars, runVars
<1>10. ASSUME NEW v \in Venue, SpawnEngine(v)
      PROVE  Findings'
  BY <1>10, <1>0 DEF SpawnEngine, simVars, runVars
<1>11. ASSUME NEW v \in Venue, Greet(v)
      PROVE  Findings'
  <2>1. /\ at[Starter] = "greeting"
        /\ at' = at \/ at' = [at EXCEPT ![Starter] = "flag"]
        /\ UNCHANGED <<errors, runState, verdict>>
    BY <1>11 DEF Greet, simVars, runVars
  <2>2. CASE at' = at
    BY <2>1, <2>2, <1>0
  <2>3. CASE at' = [at EXCEPT ![Starter] = "flag"]
    BY <2>1, <2>3, <1>0
  <2> QED
    BY <2>1, <2>2, <2>3
<1>12. ASSUME NEW a \in Agent, SpawnAgent(a)
      PROVE  Findings'
  BY <1>12, <1>0 DEF SpawnAgent, simVars, runVars
<1>13. ASSUME NEW p \in Thread, RaiseFlag(p)
      PROVE  Findings'
  BY <1>13, <1>0 DEF RaiseFlag, simVars, runVars
<1>14. ASSUME NEW p \in Thread, StopAll(p)
      PROVE  Findings'
  BY <1>14, <1>0 DEF StopAll, simVars, runVars, AfterStop
<1>15. ASSUME NEW p \in Thread, BeginArchive(p)
      PROVE  Findings'
  BY <1>15, <1>0 DEF BeginArchive, simVars, runVars
<1>16. ASSUME NEW p \in Thread, EndArchive(p)
      PROVE  Findings'
  <2>1. Archiving(p) /\ p \in {Starter, Supervisor, Archiver}
    BY <1>16, <1>0 DEF EndArchive, Thread, Worker
  <2>2. /\ \A w \in Worker : at'[w] = at[w]
        /\ at'[Supervisor] \in {"reading errors", "settling"} => at'[Supervisor] = at[Supervisor]
        /\ at'[Supervisor] \in Joining => at[Supervisor] \in Joining
    <3>1. CASE at[p] = "firstArchive"
      <4>1. p = Starter /\ at[Supervisor] = "none"
        BY <2>1, <3>1, <1>0
      <4>2. at'[Supervisor] = "joining" /\ \A w \in Worker : at'[w] = at[w]
        BY <1>16, <3>1, <4>1 DEF EndArchive, Archived, Worker
      <4> QED
        BY <4>1, <4>2
    <3>2. CASE at[p] # "firstArchive"
      <4>1. /\ \A q \in Thread \ {p} : at'[q] = at[q]
            /\ at'[p] \in {"finishing", "resting", "dead"}
        BY <1>16, <3>2 DEF EndArchive, Archived
      <4>2. p \notin Worker
        BY <2>1 DEF Worker
      <4> QED
        BY <4>1, <4>2, <2>1, <1>0
    <3> QED
      BY <3>1, <3>2
  <2>3. UNCHANGED <<runState, errors, verdict>>
    BY <1>16 DEF EndArchive, simVars
  <2> QED
    BY <2>2, <2>3, <1>0
<1>17. ASSUME NEW p \in Thread, ArchiveFails(p)
      PROVE  Findings'
  BY <1>17, <1>0 DEF ArchiveFails, simVars, runVars
<1>18. CASE StopRun
  BY <1>18, <1>0 DEF StopRun, simVars, runVars
<1>19. CASE AskSimulator
  BY <1>19, <1>0 DEF AskSimulator, simVars, runVars
<1>20. CASE JoinRound
  BY <1>20, <1>0 DEF JoinRound, simVars, runVars
<1>21. CASE JoinAgain
  BY <1>21, <1>0 DEF JoinAgain, simVars, runVars
<1>22. CASE GraceOver
  BY <1>22, <1>0 DEF GraceOver, simVars, runVars
<1>23. CASE AllJoined
  BY <1>23, <1>0 DEF AllJoined, simVars, runVars
<1>24. CASE CollectLast
  BY <1>24, <1>0 DEF CollectLast, simVars, runVars
<1>25. CASE LookAtThreads
  <2>1. verdict'.left = (AliveThreads # {}) /\ verdict' \in [left : BOOLEAN, failed : BOOLEAN]
    BY <1>25, <1>0 DEF LookAtThreads
  <2>2. ~verdict'.left => AllOver
    BY <2>1 DEF AliveThreads
  <2> QED
    BY <1>25, <2>2, <1>0 DEF LookAtThreads, simVars
<1>26. CASE ReadErrors
  BY <1>26, <1>0 DEF ReadErrors, simVars, runVars
<1>27. CASE Settle
  <2>1. runState' \in {"ended", "stopped"} => ~verdict.failed
    BY <1>27 DEF Settle, Outcome
  <2> QED
    BY <1>27, <2>1, <1>0 DEF Settle, simVars
<1>28. CASE SupervisorDone
  BY <1>28, <1>0 DEF SupervisorDone, simVars, runVars
<1>29. CASE ArchiverRests
  BY <1>29, <1>0 DEF ArchiverRests, simVars, runVars
<1>30. ASSUME NEW v \in Venue, EngineOpens(v)
      PROVE  Findings'
  BY <1>30, <1>0 DEF EngineOpens, simVars, runVars
<1>31. ASSUME NEW v \in Venue, EngineCrashes(v)
      PROVE  Findings'
  BY <1>31, <1>0 DEF EngineCrashes, simVars, runVars, Raise
<1>32. ASSUME NEW v \in Venue, CommandTimesOut(v)
      PROVE  Findings'
  <2>c. /\ at[v] = "serving" /\ runState' = runState /\ verdict' = verdict
    BY <1>32 DEF CommandTimesOut, runVars
  <2>d. ~AllOver /\ v \in Worker
    BY <2>c
  <2>1. /\ at'[Supervisor] = at[Supervisor] /\ at'[v] # "none" /\ at'[v] # "dead"
        /\ errors \subseteq errors'
    BY <1>32, <1>0 DEF CommandTimesOut, Raise
  <2> QED
    BY <2>c, <2>d, <2>1, <1>0
<1>33. ASSUME NEW v \in Venue, EngineEnds(v)
      PROVE  Findings'
  BY <1>33, <1>0 DEF EngineEnds, simVars, runVars
<1>34. ASSUME NEW a \in Agent, AgentLoops(a)
      PROVE  Findings'
  BY <1>34, <1>0 DEF AgentLoops, simVars, runVars
<1>35. ASSUME NEW a \in Agent, AgentWakes(a)
      PROVE  Findings'
  BY <1>35, <1>0 DEF AgentWakes, simVars, runVars
<1>36. ASSUME NEW a \in Agent, AgentReturns(a)
      PROVE  Findings'
  BY <1>36, <1>0 DEF AgentReturns, simVars, runVars
<1>37. ASSUME NEW a \in Agent, AgentRests(a)
      PROVE  Findings'
  BY <1>37, <1>0 DEF AgentRests, simVars, runVars
<1>38. ASSUME NEW a \in Agent, AgentRefused(a)
      PROVE  Findings'
  BY <1>38, <1>0 DEF AgentRefused, simVars, runVars, Raise
<1>39. ASSUME NEW a \in Agent, AgentFails(a)
      PROVE  Findings'
  BY <1>39, <1>0 DEF AgentFails, simVars, runVars, Raise
<1>40. ASSUME NEW a \in Agent, AgentHangs(a)
      PROVE  Findings'
  BY <1>40, <1>0 DEF AgentHangs, simVars, runVars
<1>41. CASE MonitorLeaves
  BY <1>41, <1>0 DEF MonitorLeaves, simVars, runVars
<1>42. CASE Match
  BY <1>42, <1>0 DEF Match, simVars, runVars
<1>43. ASSUME NEW v \in Venue, Announce(v)
      PROVE  Findings'
  BY <1>43, <1>0 DEF Announce, simVars, runVars
<1>44. ASSUME NEW v \in Venue, AnnounceRefused(v)
      PROVE  Findings'
  <2>1. CASE Raise(Monitor)
    BY <1>44, <2>1, <1>0 DEF AnnounceRefused, simVars, runVars, Raise
  <2>2. CASE UNCHANGED <<at, errors>>
    BY <1>44, <2>2, <1>0 DEF AnnounceRefused, simVars, runVars
  <2> QED
    BY <1>44, <2>1, <2>2 DEF AnnounceRefused
<1>45. CASE AllAnnounced
  BY <1>45, <1>0 DEF AllAnnounced, simVars, runVars
<1>46. CASE MonitorFails
  BY <1>46, <1>0 DEF MonitorFails, simVars, runVars, Raise
<1> QED
    BY <1>1, <1>2, <1>3, <1>4, <1>5, <1>6, <1>7, <1>8, <1>9, <1>10, <1>11, <1>12, <1>13,
     <1>14, <1>15, <1>16, <1>17, <1>18, <1>19, <1>20, <1>21, <1>22, <1>23, <1>24, <1>25,
     <1>26, <1>27, <1>28, <1>29, <1>30, <1>31, <1>32, <1>33, <1>34, <1>35, <1>36, <1>37,
     <1>38, <1>39, <1>40, <1>41, <1>42, <1>43, <1>44, <1>45, <1>46
     DEF Next, StarterStep, OperatorStep, SupervisorStep, ArchiverStep, MonitorStep, EngineStep,
         AgentProgress, RequestStop, Archive

\* What the disk says when the supervisor is through, and what is about to be written
\* over it, tells the end.
LEMMA WrittenStep ==
  ASSUME IInv, Next
  PROVE  Written'
<1>0. /\ at \in [Thread -> Place]
      /\ archiving \in [Thread -> Files \cup {None}]
      /\ disk \in Files /\ lost \in BOOLEAN
      /\ Roles /\ Course /\ Findings /\ Written
  BY DEF IInv, TypeOK
<1> USE Distinct, Threads DEF Written, Tells, Findings, AllOver, Alive, Course, Roles, Go,
           StarterPlaces, OperatorPlaces, SupervisorPlaces, ArchiverPlaces, MonitorPlaces, EnginePlaces,
           AgentPlaces, Archiving, SettledPlaces, Final
<1>1. CASE InitializeFails
  BY <1>1, <1>0 DEF InitializeFails, simVars, runVars
<1>2. CASE Initialize
  BY <1>2, <1>0 DEF Initialize, simVars, runVars
<1>3. CASE EnginesStarted
  BY <1>3, <1>0 DEF EnginesStarted, simVars, runVars
<1>4. CASE AgentsStarted
  BY <1>4, <1>0 DEF AgentsStarted, simVars, runVars
<1>5. CASE StartMonitor
  BY <1>5, <1>0 DEF StartMonitor, simVars, runVars
<1>6. CASE StartFails
  BY <1>6, <1>0 DEF StartFails, simVars, runVars
<1>7. CASE StartRaises
  BY <1>7, <1>0 DEF StartRaises, simVars, runVars
<1>8. CASE FailedStartDone
  BY <1>8, <1>0 DEF FailedStartDone, simVars, runVars
<1>9. CASE Begin
  BY <1>9, <1>0 DEF Begin, simVars, runVars
<1>10. ASSUME NEW v \in Venue, SpawnEngine(v)
      PROVE  Written'
  BY <1>10, <1>0 DEF SpawnEngine, simVars, runVars
<1>11. ASSUME NEW v \in Venue, Greet(v)
      PROVE  Written'
  <2>1. /\ at[Starter] = "greeting"
        /\ at' = at \/ at' = [at EXCEPT ![Starter] = "flag"]
        /\ UNCHANGED <<runState, ended, disk, lost, archiving>>
    BY <1>11 DEF Greet, simVars, runVars
  <2>2. CASE at' = at
    BY <2>1, <2>2, <1>0
  <2>3. CASE at' = [at EXCEPT ![Starter] = "flag"]
    BY <2>1, <2>3, <1>0
  <2> QED
    BY <2>1, <2>2, <2>3
<1>12. ASSUME NEW a \in Agent, SpawnAgent(a)
      PROVE  Written'
  BY <1>12, <1>0 DEF SpawnAgent, simVars, runVars
<1>13. ASSUME NEW p \in Thread, RaiseFlag(p)
      PROVE  Written'
  BY <1>13, <1>0 DEF RaiseFlag, simVars, runVars
<1>14. ASSUME NEW p \in Thread, StopAll(p)
      PROVE  Written'
  BY <1>14, <1>0 DEF StopAll, simVars, runVars, AfterStop
<1>15. ASSUME NEW p \in Thread, BeginArchive(p)
      PROVE  Written'
  BY <1>15, <1>0 DEF BeginArchive, simVars, runVars, Snapshot
<1>16. ASSUME NEW p \in Thread, EndArchive(p)
      PROVE  Written'
  <2>1. Archiving(p) /\ p \in {Starter, Supervisor, Archiver}
    BY <1>16, <1>0 DEF EndArchive, Thread, Worker
  <2>2. \A q \in Thread : archiving'[q] = None
    BY <1>16, <1>0 DEF EndArchive
  <2>3. CASE at[p] = "firstArchive"
    <3>1. p = Starter /\ at[Supervisor] # "dead" /\ at[Supervisor] # "finishing"
      BY <1>0, <2>1, <2>3
    <3>2. at'[Supervisor] = "joining"
      BY <1>16, <2>3, <3>1 DEF EndArchive, Archived
    <3> QED
      BY <2>2, <3>2
  <2>4. CASE at[p] # "firstArchive"
    <3>1. /\ \A q \in Thread \ {p} : at'[q] = at[q]
          /\ disk' = archiving[p] /\ lost' = lost /\ runState' = runState /\ ended' = ended
      BY <1>16, <2>4 DEF EndArchive, Archived, simVars
    <3>2. CASE p = Supervisor
      BY <3>1, <3>2, <2>2, <1>16, <1>0 DEF EndArchive
    <3>3. CASE p # Supervisor
      <4>1. Tells(archiving[p]) => Tells(disk)'
        BY <3>1
      <4>2. at'[Supervisor] = at[Supervisor] /\ archiving[p] # None
        BY <3>1, <3>3, <1>16 DEF EndArchive
      <4> HIDE DEF Tells
      <4> QED
        BY <4>1, <4>2, <3>1, <2>2, <1>0
    <3> QED
      BY <3>2, <3>3
  <2> QED
    BY <2>3, <2>4
<1>17. ASSUME NEW p \in Thread, ArchiveFails(p)
      PROVE  Written'
  <2>1. Archiving(p) /\ archiving[p] # None
    BY <1>17, <1>0 DEF ArchiveFails
  <2>2. \A q \in Thread : archiving'[q] = None
    BY <1>17, <1>0 DEF ArchiveFails
  <2>3. CASE p = Supervisor
    BY <1>17, <2>2, <2>3, <1>0 DEF ArchiveFails
  <2>4. CASE p # Supervisor
    <3>1. /\ at'[Supervisor] = at[Supervisor]
          /\ lost' = lost /\ runState' = runState /\ ended' = ended
      BY <1>17, <2>4, <1>0 DEF ArchiveFails, simVars
    <3>2. ASSUME Tells(disk), Tells(archiving[p])
          PROVE  Tells(disk)'
      <4>1. CASE disk' = disk
        BY <4>1, <3>1, <3>2
      <4>2. CASE disk' = [disk EXCEPT !.state = archiving[p].state]
        BY <4>2, <3>1, <3>2, <1>0 DEF Files
      <4> QED
        BY <4>1, <4>2, <1>17 DEF ArchiveFails
    <3> HIDE DEF Tells
    <3> QED
      BY <3>1, <3>2, <2>1, <2>2, <1>0
  <2> QED
    BY <2>3, <2>4
<1>18. CASE StopRun
  BY <1>18, <1>0 DEF StopRun, simVars, runVars
<1>19. CASE AskSimulator
  BY <1>19, <1>0 DEF AskSimulator, simVars, runVars
<1>20. CASE JoinRound
  BY <1>20, <1>0 DEF JoinRound, simVars, runVars
<1>21. CASE JoinAgain
  BY <1>21, <1>0 DEF JoinAgain, simVars, runVars
<1>22. CASE GraceOver
  BY <1>22, <1>0 DEF GraceOver, simVars, runVars
<1>23. CASE AllJoined
  BY <1>23, <1>0 DEF AllJoined, simVars, runVars
<1>24. CASE CollectLast
  BY <1>24, <1>0 DEF CollectLast, simVars, runVars
<1>25. CASE LookAtThreads
  BY <1>25, <1>0 DEF LookAtThreads, simVars, runVars
<1>26. CASE ReadErrors
  BY <1>26, <1>0 DEF ReadErrors, simVars, runVars
<1>27. CASE Settle
  BY <1>27, <1>0 DEF Settle, simVars, runVars
<1>28. CASE SupervisorDone
  BY <1>28, <1>0 DEF SupervisorDone, simVars, runVars
<1>29. CASE ArchiverRests
  BY <1>29, <1>0 DEF ArchiverRests, simVars, runVars
<1>30. ASSUME NEW v \in Venue, EngineOpens(v)
      PROVE  Written'
  BY <1>30, <1>0 DEF EngineOpens, simVars, runVars
<1>31. ASSUME NEW v \in Venue, EngineCrashes(v)
      PROVE  Written'
  BY <1>31, <1>0 DEF EngineCrashes, simVars, runVars, Raise
<1>32. ASSUME NEW v \in Venue, CommandTimesOut(v)
      PROVE  Written'
  <2>1. at'[Supervisor] = at[Supervisor]
    BY <1>32, <1>0 DEF CommandTimesOut, Raise
  <2>2. UNCHANGED <<runVars, ended>>
    BY <1>32 DEF CommandTimesOut
  <2> QED
    BY <2>1, <2>2, <1>0 DEF runVars
<1>33. ASSUME NEW v \in Venue, EngineEnds(v)
      PROVE  Written'
  BY <1>33, <1>0 DEF EngineEnds, simVars, runVars
<1>34. ASSUME NEW a \in Agent, AgentLoops(a)
      PROVE  Written'
  BY <1>34, <1>0 DEF AgentLoops, simVars, runVars
<1>35. ASSUME NEW a \in Agent, AgentWakes(a)
      PROVE  Written'
  BY <1>35, <1>0 DEF AgentWakes, simVars, runVars
<1>36. ASSUME NEW a \in Agent, AgentReturns(a)
      PROVE  Written'
  BY <1>36, <1>0 DEF AgentReturns, simVars, runVars
<1>37. ASSUME NEW a \in Agent, AgentRests(a)
      PROVE  Written'
  BY <1>37, <1>0 DEF AgentRests, simVars, runVars
<1>38. ASSUME NEW a \in Agent, AgentRefused(a)
      PROVE  Written'
  BY <1>38, <1>0 DEF AgentRefused, simVars, runVars, Raise
<1>39. ASSUME NEW a \in Agent, AgentFails(a)
      PROVE  Written'
  BY <1>39, <1>0 DEF AgentFails, simVars, runVars, Raise
<1>40. ASSUME NEW a \in Agent, AgentHangs(a)
      PROVE  Written'
  BY <1>40, <1>0 DEF AgentHangs, simVars, runVars
<1>41. CASE MonitorLeaves
  BY <1>41, <1>0 DEF MonitorLeaves, simVars, runVars
<1>42. CASE Match
  BY <1>42, <1>0 DEF Match, simVars, runVars
<1>43. ASSUME NEW v \in Venue, Announce(v)
      PROVE  Written'
  BY <1>43, <1>0 DEF Announce, simVars, runVars
<1>44. ASSUME NEW v \in Venue, AnnounceRefused(v)
      PROVE  Written'
  <2>1. at'[Supervisor] = at[Supervisor]
    BY <1>44, <1>0 DEF AnnounceRefused, Raise
  <2>2. UNCHANGED <<runVars, ended>>
    BY <1>44 DEF AnnounceRefused
  <2> QED
    BY <2>1, <2>2, <1>0 DEF runVars
<1>45. CASE AllAnnounced
  BY <1>45, <1>0 DEF AllAnnounced, simVars, runVars
<1>46. CASE MonitorFails
  BY <1>46, <1>0 DEF MonitorFails, simVars, runVars, Raise
<1> QED
    BY <1>1, <1>2, <1>3, <1>4, <1>5, <1>6, <1>7, <1>8, <1>9, <1>10, <1>11, <1>12, <1>13,
     <1>14, <1>15, <1>16, <1>17, <1>18, <1>19, <1>20, <1>21, <1>22, <1>23, <1>24, <1>25,
     <1>26, <1>27, <1>28, <1>29, <1>30, <1>31, <1>32, <1>33, <1>34, <1>35, <1>36, <1>37,
     <1>38, <1>39, <1>40, <1>41, <1>42, <1>43, <1>44, <1>45, <1>46
     DEF Next, StarterStep, OperatorStep, SupervisorStep, ArchiverStep, MonitorStep, EngineStep,
         AgentProgress, RequestStop, Archive

\* A reason for a stop does not go away.
LEMMA BlameStays ==
  ASSUME IInv, Next
  PROVE  (Tainted => Tainted') /\ (AllTold => AllTold')
<1>0. /\ at \in [Thread -> Place]
      /\ announced \subseteq Venue
      /\ Roles /\ Course
  BY DEF IInv, TypeOK
<1> USE Distinct, Threads DEF Tainted, AllTold, Failing, Course, Roles, Go,
           StarterPlaces, OperatorPlaces, SupervisorPlaces, ArchiverPlaces, MonitorPlaces, EnginePlaces,
           AgentPlaces, Archiving
<1>1. CASE InitializeFails
  BY <1>1, <1>0 DEF InitializeFails, simVars, runVars
<1>2. CASE Initialize
  BY <1>2, <1>0 DEF Initialize, simVars, runVars
<1>3. CASE EnginesStarted
  BY <1>3, <1>0 DEF EnginesStarted, simVars, runVars
<1>4. CASE AgentsStarted
  BY <1>4, <1>0 DEF AgentsStarted, simVars, runVars
<1>5. CASE StartMonitor
  BY <1>5, <1>0 DEF StartMonitor, simVars, runVars
<1>6. CASE StartFails
  BY <1>6, <1>0 DEF StartFails, simVars, runVars
<1>7. CASE StartRaises
  BY <1>7, <1>0 DEF StartRaises, simVars, runVars
<1>8. CASE FailedStartDone
  BY <1>8, <1>0 DEF FailedStartDone, simVars, runVars
<1>9. CASE Begin
  BY <1>9, <1>0 DEF Begin, simVars, runVars
<1>10. ASSUME NEW v \in Venue, SpawnEngine(v)
      PROVE  (Tainted => Tainted') /\ (AllTold => AllTold')
  BY <1>10, <1>0 DEF SpawnEngine, simVars, runVars
<1>11. ASSUME NEW v \in Venue, Greet(v)
      PROVE  (Tainted => Tainted') /\ (AllTold => AllTold')
  BY <1>11, <1>0 DEF Greet, simVars, runVars
<1>12. ASSUME NEW a \in Agent, SpawnAgent(a)
      PROVE  (Tainted => Tainted') /\ (AllTold => AllTold')
  BY <1>12, <1>0 DEF SpawnAgent, simVars, runVars
<1>13. ASSUME NEW p \in Thread, RaiseFlag(p)
      PROVE  (Tainted => Tainted') /\ (AllTold => AllTold')
  BY <1>13, <1>0 DEF RaiseFlag, simVars, runVars
<1>14. ASSUME NEW p \in Thread, StopAll(p)
      PROVE  (Tainted => Tainted') /\ (AllTold => AllTold')
  BY <1>14, <1>0 DEF StopAll, simVars, runVars, AfterStop
<1>15. ASSUME NEW p \in Thread, BeginArchive(p)
      PROVE  (Tainted => Tainted') /\ (AllTold => AllTold')
  BY <1>15, <1>0 DEF BeginArchive, simVars, runVars
<1>16. ASSUME NEW p \in Thread, EndArchive(p)
      PROVE  (Tainted => Tainted') /\ (AllTold => AllTold')
  BY <1>16, <1>0 DEF EndArchive, simVars, runVars, Archived
<1>17. ASSUME NEW p \in Thread, ArchiveFails(p)
      PROVE  (Tainted => Tainted') /\ (AllTold => AllTold')
  BY <1>17, <1>0 DEF ArchiveFails, simVars, runVars
<1>18. CASE StopRun
  BY <1>18, <1>0 DEF StopRun, simVars, runVars
<1>19. CASE AskSimulator
  BY <1>19, <1>0 DEF AskSimulator, simVars, runVars
<1>20. CASE JoinRound
  BY <1>20, <1>0 DEF JoinRound, simVars, runVars
<1>21. CASE JoinAgain
  BY <1>21, <1>0 DEF JoinAgain, simVars, runVars
<1>22. CASE GraceOver
  BY <1>22, <1>0 DEF GraceOver, simVars, runVars
<1>23. CASE AllJoined
  BY <1>23, <1>0 DEF AllJoined, simVars, runVars
<1>24. CASE CollectLast
  BY <1>24, <1>0 DEF CollectLast, simVars, runVars
<1>25. CASE LookAtThreads
  BY <1>25, <1>0 DEF LookAtThreads, simVars, runVars
<1>26. CASE ReadErrors
  BY <1>26, <1>0 DEF ReadErrors, simVars, runVars
<1>27. CASE Settle
  BY <1>27, <1>0 DEF Settle, simVars, runVars
<1>28. CASE SupervisorDone
  BY <1>28, <1>0 DEF SupervisorDone, simVars, runVars
<1>29. CASE ArchiverRests
  BY <1>29, <1>0 DEF ArchiverRests, simVars, runVars
<1>30. ASSUME NEW v \in Venue, EngineOpens(v)
      PROVE  (Tainted => Tainted') /\ (AllTold => AllTold')
  BY <1>30, <1>0 DEF EngineOpens, simVars, runVars
<1>31. ASSUME NEW v \in Venue, EngineCrashes(v)
      PROVE  (Tainted => Tainted') /\ (AllTold => AllTold')
  BY <1>31, <1>0 DEF EngineCrashes, simVars, runVars, Raise
<1>32. ASSUME NEW v \in Venue, CommandTimesOut(v)
      PROVE  (Tainted => Tainted') /\ (AllTold => AllTold')
  BY <1>32, <1>0 DEF CommandTimesOut, simVars, runVars, Raise
<1>33. ASSUME NEW v \in Venue, EngineEnds(v)
      PROVE  (Tainted => Tainted') /\ (AllTold => AllTold')
  BY <1>33, <1>0 DEF EngineEnds, simVars, runVars
<1>34. ASSUME NEW a \in Agent, AgentLoops(a)
      PROVE  (Tainted => Tainted') /\ (AllTold => AllTold')
  BY <1>34, <1>0 DEF AgentLoops, simVars, runVars
<1>35. ASSUME NEW a \in Agent, AgentWakes(a)
      PROVE  (Tainted => Tainted') /\ (AllTold => AllTold')
  BY <1>35, <1>0 DEF AgentWakes, simVars, runVars
<1>36. ASSUME NEW a \in Agent, AgentReturns(a)
      PROVE  (Tainted => Tainted') /\ (AllTold => AllTold')
  BY <1>36, <1>0 DEF AgentReturns, simVars, runVars
<1>37. ASSUME NEW a \in Agent, AgentRests(a)
      PROVE  (Tainted => Tainted') /\ (AllTold => AllTold')
  BY <1>37, <1>0 DEF AgentRests, simVars, runVars
<1>38. ASSUME NEW a \in Agent, AgentRefused(a)
      PROVE  (Tainted => Tainted') /\ (AllTold => AllTold')
  BY <1>38, <1>0 DEF AgentRefused, simVars, runVars, Raise
<1>39. ASSUME NEW a \in Agent, AgentFails(a)
      PROVE  (Tainted => Tainted') /\ (AllTold => AllTold')
  BY <1>39, <1>0 DEF AgentFails, simVars, runVars, Raise
<1>40. ASSUME NEW a \in Agent, AgentHangs(a)
      PROVE  (Tainted => Tainted') /\ (AllTold => AllTold')
  BY <1>40, <1>0 DEF AgentHangs, simVars, runVars
<1>41. CASE MonitorLeaves
  BY <1>41, <1>0 DEF MonitorLeaves, simVars, runVars
<1>42. CASE Match
  BY <1>42, <1>0 DEF Match, simVars, runVars
<1>43. ASSUME NEW v \in Venue, Announce(v)
      PROVE  (Tainted => Tainted') /\ (AllTold => AllTold')
  BY <1>43, <1>0 DEF Announce, simVars, runVars
<1>44. ASSUME NEW v \in Venue, AnnounceRefused(v)
      PROVE  (Tainted => Tainted') /\ (AllTold => AllTold')
  BY <1>44, <1>0 DEF AnnounceRefused, simVars, runVars, Raise
<1>45. CASE AllAnnounced
  BY <1>45, <1>0 DEF AllAnnounced, simVars, runVars
<1>46. CASE MonitorFails
  BY <1>46, <1>0 DEF MonitorFails, simVars, runVars, Raise
<1> QED
    BY <1>1, <1>2, <1>3, <1>4, <1>5, <1>6, <1>7, <1>8, <1>9, <1>10, <1>11, <1>12, <1>13,
     <1>14, <1>15, <1>16, <1>17, <1>18, <1>19, <1>20, <1>21, <1>22, <1>23, <1>24, <1>25,
     <1>26, <1>27, <1>28, <1>29, <1>30, <1>31, <1>32, <1>33, <1>34, <1>35, <1>36, <1>37,
     <1>38, <1>39, <1>40, <1>41, <1>42, <1>43, <1>44, <1>45, <1>46
     DEF Next, StarterStep, OperatorStep, SupervisorStep, ArchiverStep, MonitorStep, EngineStep,
         AgentProgress, RequestStop, Archive

\* Every step that asks for a stop, or passes it on, has a reason.
LEMMA CausesStep ==
  ASSUME IInv, Next
  PROVE  Causes'
<1>0. /\ at \in [Thread -> Place]
      /\ announced \subseteq Venue /\ ended \subseteq Venue
      /\ Roles /\ Course /\ Causes
  BY DEF IInv, TypeOK
<1>b. (Tainted => Tainted') /\ (AllTold => AllTold')
  BY BlameStays
<1>e. (errors' # {} \/ reason' \/ ~llm' \/ at'[Starter] \in Failing) => Tainted'
  BY DEF Tainted
<1>a. Agent # {}
  BY RunAssumption
<1> USE Distinct, Threads, <1>a, <1>b, <1>e DEF Causes, Blamed, Roles, Go, StarterPlaces,
           OperatorPlaces, SupervisorPlaces, ArchiverPlaces, MonitorPlaces, EnginePlaces,
           AgentPlaces, Failing
<1>1. CASE InitializeFails
  BY <1>1, <1>0 DEF InitializeFails, simVars, runVars
<1>2. CASE Initialize
  BY <1>2, <1>0 DEF Initialize, simVars, runVars
<1>3. CASE EnginesStarted
  BY <1>3, <1>0 DEF EnginesStarted, simVars, runVars
<1>4. CASE AgentsStarted
  BY <1>4, <1>0 DEF AgentsStarted, simVars, runVars
<1>5. CASE StartMonitor
  <2>1. at[Monitor] = "none" /\ ~match
    BY <1>5, <1>0 DEF StartMonitor, Course
  <2>2. /\ at' = [at EXCEPT ![Starter] = "begin", ![Monitor] = "watching"]
        /\ UNCHANGED <<stopEvent, closed, errors, match, announced, ended, reason>>
    BY <1>5 DEF StartMonitor, simVars, runVars
  <2>3. \A q \in Thread \ {Starter, Monitor} : at'[q] = at[q]
    BY <2>2, <1>0
  <2>4. at'[Starter] = "begin" /\ at'[Monitor] = "watching"
    BY <2>2, <1>0
  <2> QED
    BY <2>1, <2>2, <2>3, <2>4, <1>0
<1>6. CASE StartFails
  BY <1>6, <1>0 DEF StartFails, simVars, runVars
<1>7. CASE StartRaises
  BY <1>7, <1>0 DEF StartRaises, simVars, runVars
<1>8. CASE FailedStartDone
  BY <1>8, <1>0 DEF FailedStartDone, simVars, runVars
<1>9. CASE Begin
  BY <1>9, <1>0 DEF Begin, simVars, runVars
<1>10. ASSUME NEW v \in Venue, SpawnEngine(v)
      PROVE  Causes'
  BY <1>10, <1>0 DEF SpawnEngine, simVars, runVars
<1>11. ASSUME NEW v \in Venue, Greet(v)
      PROVE  Causes'
  <2>1. /\ at[Starter] = "greeting"
        /\ at' = at \/ at' = [at EXCEPT ![Starter] = "flag"]
        /\ UNCHANGED <<stopEvent, closed, errors, match, announced, ended, reason>>
    BY <1>11 DEF Greet, simVars, runVars
  <2>2. CASE at' = at
    BY <2>1, <2>2, <1>0
  <2>3. CASE at' = [at EXCEPT ![Starter] = "flag"]
    BY <2>1, <2>3, <1>0
  <2> QED
    BY <2>1, <2>2, <2>3
<1>12. ASSUME NEW a \in Agent, SpawnAgent(a)
      PROVE  Causes'
  BY <1>12, <1>0 DEF SpawnAgent, simVars, runVars
<1>13. ASSUME NEW p \in Thread, RaiseFlag(p)
      PROVE  Causes'
  <2>1. Blamed
    <3>1. p \in {Starter, Supervisor, Operator, Monitor} \cup Venue \cup Agent
      BY <1>13, <1>0 DEF RaiseFlag, Thread, Worker
    <3>2. CASE p \in {Starter, Supervisor}
      BY <1>13, <3>2, <1>0 DEF RaiseFlag
    <3>3. CASE p \in {Operator, Monitor}
      BY <1>13, <3>3, <1>0 DEF RaiseFlag, Tainted
    <3>4. CASE p \in Venue \cup Agent
      BY <1>13, <3>4, <1>0 DEF RaiseFlag, Tainted
    <3> QED
      BY <3>1, <3>2, <3>3, <3>4
  <2>2. Blamed'
    BY <2>1
  <2>3. /\ UNCHANGED <<errors, match, announced, ended, reason, closed>>
        /\ at[p] = "flag" /\ at' = [at EXCEPT ![p] = "stopping"]
    BY <1>13 DEF RaiseFlag, runVars
  <2> HIDE DEF Blamed
  <2> QED
    BY <2>2, <2>3, <1>0
<1>14. ASSUME NEW p \in Thread, StopAll(p)
      PROVE  Causes'
  <2>1. Blamed
    <3>1. p \in {Starter, Supervisor, Operator, Monitor} \cup Venue \cup Agent
      BY <1>14, <1>0 DEF StopAll, Thread, Worker
    <3>2. CASE p \in {Starter, Supervisor}
      BY <1>14, <3>2, <1>0 DEF StopAll
    <3>3. CASE p \in {Operator, Monitor}
      BY <1>14, <3>3, <1>0 DEF StopAll, Tainted
    <3>4. CASE p \in Venue \cup Agent
      BY <1>14, <3>4, <1>0 DEF StopAll, Tainted
    <3> QED
      BY <3>1, <3>2, <3>3, <3>4
  <2>2. Blamed'
    BY <2>1
  <2>3. /\ UNCHANGED <<errors, match, announced, ended, reason, stopEvent>>
        /\ at' = [at EXCEPT ![p] = AfterStop(p)]
    BY <1>14 DEF StopAll, runVars
  <2>4. at[p] = "stopping" /\ AfterStop(p) \in {"reaping", "idle", "waiting", "dead"}
    BY <1>14 DEF StopAll, AfterStop
  <2> HIDE DEF Blamed
  <2> QED
    BY <2>2, <2>3, <2>4, <1>0
<1>15. ASSUME NEW p \in Thread, BeginArchive(p)
      PROVE  Causes'
  BY <1>15, <1>0 DEF BeginArchive, simVars, runVars
<1>16. ASSUME NEW p \in Thread, EndArchive(p)
      PROVE  Causes'
  <2>1. Archiving(p) /\ p \in {Starter, Supervisor, Archiver}
    BY <1>16, <1>0 DEF EndArchive, Course, Archiving, Thread, Worker
  <2>2. /\ \A q \in Worker \cup {Operator} : at'[q] = at[q]
        /\ \A q \in {Starter, Supervisor} : at'[q] \in {"flag", "stopping"} => at'[q] = at[q]
    <3>1. CASE at[p] = "firstArchive"
      BY <1>16, <3>1, <1>0 DEF EndArchive, Archived, Worker
    <3>2. CASE at[p] # "firstArchive"
      BY <1>16, <2>1, <3>2, <1>0 DEF EndArchive, Archived, Worker
    <3> QED
      BY <3>1, <3>2
  <2>3. UNCHANGED <<errors, match, announced, ended, reason, stopEvent, closed>>
    BY <1>16 DEF EndArchive, simVars
  <2> QED
    BY <2>2, <2>3, <1>0
<1>17. ASSUME NEW p \in Thread, ArchiveFails(p)
      PROVE  Causes'
  <2>1. Archiving(p) /\ p \in {Starter, Supervisor, Archiver}
    BY <1>17, <1>0 DEF ArchiveFails, Course, Archiving, Thread, Worker
  <2>2. /\ \A q \in Worker \cup {Operator} : at'[q] = at[q]
        /\ \A q \in {Starter, Supervisor} : at'[q] \in {"flag", "stopping"} => at'[q] = at[q]
    BY <1>17, <2>1, <1>0 DEF ArchiveFails, Worker
  <2>3. UNCHANGED <<errors, match, announced, ended, reason, stopEvent, closed>>
    BY <1>17 DEF ArchiveFails, simVars
  <2> QED
    BY <2>2, <2>3, <1>0
<1>18. CASE StopRun
  BY <1>18, <1>0 DEF StopRun, simVars, runVars
<1>19. CASE AskSimulator
  BY <1>19, <1>0 DEF AskSimulator, simVars, runVars
<1>20. CASE JoinRound
  <2>1. at[Starter] = "over"
    BY <1>20, <1>0 DEF JoinRound, Course
  <2>2. at'[Supervisor] = "flag" => Blamed'
    <3>1. CASE errors' # {}
      BY <3>1
    <3>2. CASE \A a \in Agent : ~Alive(a)
      <4>1. \A a \in Agent : at[a] = "dead"
        BY <3>2, <2>1, <1>0 DEF Alive, Course
      <4> QED
        BY <4>1, <1>0
    <3> QED
      BY <1>20, <3>1, <3>2, <1>0 DEF JoinRound
  <2>3. /\ UNCHANGED <<match, announced, ended, reason, stopEvent, closed>>
        /\ errors \subseteq errors' /\ at'[Supervisor] # "stopping"
        /\ \A q \in Thread \ {Supervisor} : at'[q] = at[q]
    BY <1>20, <1>0 DEF JoinRound, runVars
  <2> HIDE DEF Blamed
  <2>4. Blamed => Blamed'
    BY DEF Blamed
  <2>5. \A q \in {Starter, Supervisor} : at'[q] \in {"flag", "stopping"} => Blamed'
    BY <2>2, <2>3, <2>4, <1>0
  <2>6. /\ stopEvent' => Blamed'
        /\ closed' # {} => Blamed'
        /\ \A a \in Agent : at'[a] = "dead" => Blamed'
    BY <2>3, <2>4, <1>0
  <2>7. /\ at'[Operator] \in {"asking", "flag", "stopping"} => reason'
        /\ \A w \in Venue \cup Agent : at'[w] \in {"flag", "stopping"} => w \in errors'
        /\ at'[Monitor] \in {"flag", "stopping"} => errors' # {} \/ AllTold'
        /\ announced' \subseteq ended' \/ Tainted'
    BY <2>3, <1>0
  <2>8. /\ at'[Monitor] \in {"none", "watching"} => ~match'
        /\ at'[Monitor] = "announcing" => match'
        /\ match' => at'[Monitor] = "announcing" \/ errors' # {} \/ announced' = Venue
    BY <2>3, <1>0
  <2> QED
    BY <2>5, <2>6, <2>7, <2>8
<1>21. CASE JoinAgain
  BY <1>21, <1>0 DEF JoinAgain, simVars, runVars
<1>22. CASE GraceOver
  BY <1>22, <1>0 DEF GraceOver, simVars, runVars
<1>23. CASE AllJoined
  BY <1>23, <1>0 DEF AllJoined, simVars, runVars
<1>24. CASE CollectLast
  BY <1>24, <1>0 DEF CollectLast, simVars, runVars
<1>25. CASE LookAtThreads
  BY <1>25, <1>0 DEF LookAtThreads, simVars, runVars
<1>26. CASE ReadErrors
  BY <1>26, <1>0 DEF ReadErrors, simVars, runVars
<1>27. CASE Settle
  BY <1>27, <1>0 DEF Settle, simVars, runVars
<1>28. CASE SupervisorDone
  BY <1>28, <1>0 DEF SupervisorDone, simVars, runVars
<1>29. CASE ArchiverRests
  BY <1>29, <1>0 DEF ArchiverRests, simVars, runVars
<1>30. ASSUME NEW v \in Venue, EngineOpens(v)
      PROVE  Causes'
  BY <1>30, <1>0 DEF EngineOpens, simVars, runVars
<1>31. ASSUME NEW v \in Venue, EngineCrashes(v)
      PROVE  Causes'
  BY <1>31, <1>0 DEF EngineCrashes, simVars, runVars, Raise
<1>32. ASSUME NEW v \in Venue, CommandTimesOut(v)
      PROVE  Causes'
  <2>1. UNCHANGED <<stopEvent, closed, match, ended, reason>>
    BY <1>32 DEF CommandTimesOut, runVars
  <2>2. ASSUME NEW q \in Agent \cup {Monitor}, Raise(q), UNCHANGED announced
        PROVE  Causes'
    BY <2>1, <2>2, <1>0 DEF Raise
  <2>3. CASE Go(Starter, "flag") /\ UNCHANGED <<errors, announced>>
    BY <2>1, <2>3, <1>0
  <2>4. CASE /\ stopEvent /\ v \notin announced
             /\ announced' = announced \cup {v} /\ UNCHANGED <<at, errors>>
    <3>1. Tainted'
      BY <2>4, <1>0 DEF AllTold
    <3> QED
      BY <2>1, <2>4, <3>1, <1>0
  <2> QED
    BY <1>32, <2>2, <2>3, <2>4 DEF CommandTimesOut
<1>33. ASSUME NEW v \in Venue, EngineEnds(v)
      PROVE  Causes'
  BY <1>33, <1>0 DEF EngineEnds, simVars, runVars
<1>34. ASSUME NEW a \in Agent, AgentLoops(a)
      PROVE  Causes'
  BY <1>34, <1>0 DEF AgentLoops, simVars, runVars
<1>35. ASSUME NEW a \in Agent, AgentWakes(a)
      PROVE  Causes'
  BY <1>35, <1>0 DEF AgentWakes, simVars, runVars
<1>36. ASSUME NEW a \in Agent, AgentReturns(a)
      PROVE  Causes'
  BY <1>36, <1>0 DEF AgentReturns, simVars, runVars
<1>37. ASSUME NEW a \in Agent, AgentRests(a)
      PROVE  Causes'
  BY <1>37, <1>0 DEF AgentRests, simVars, runVars
<1>38. ASSUME NEW a \in Agent, AgentRefused(a)
      PROVE  Causes'
  BY <1>38, <1>0 DEF AgentRefused, simVars, runVars, Raise
<1>39. ASSUME NEW a \in Agent, AgentFails(a)
      PROVE  Causes'
  BY <1>39, <1>0 DEF AgentFails, simVars, runVars, Raise
<1>40. ASSUME NEW a \in Agent, AgentHangs(a)
      PROVE  Causes'
  BY <1>40, <1>0 DEF AgentHangs, simVars, runVars
<1>41. CASE MonitorLeaves
  BY <1>41, <1>0 DEF MonitorLeaves, simVars, runVars
<1>42. CASE Match
  BY <1>42, <1>0 DEF Match, simVars, runVars
<1>43. ASSUME NEW v \in Venue, Announce(v)
      PROVE  Causes'
  BY <1>43, <1>0 DEF Announce, simVars, runVars
<1>44. ASSUME NEW v \in Venue, AnnounceRefused(v)
      PROVE  Causes'
  <2>1. UNCHANGED <<stopEvent, closed, match, ended, reason>>
    BY <1>44 DEF AnnounceRefused, runVars
  <2>2. ASSUME Raise(Monitor), UNCHANGED announced
        PROVE  Causes'
    BY <2>1, <2>2, <1>0 DEF Raise
  <2>4. CASE /\ stopEvent /\ v \notin announced
             /\ announced' = announced \cup {v} /\ UNCHANGED <<at, errors>>
    <3>1. Tainted'
      BY <2>4, <1>0 DEF AllTold
    <3> QED
      BY <2>1, <2>4, <3>1, <1>0
  <2> QED
    BY <1>44, <2>2, <2>4 DEF AnnounceRefused
<1>45. CASE AllAnnounced
  <2>1. AllTold'
    BY <1>45, <1>0 DEF AllAnnounced, AllTold, simVars
  <2> QED
    BY <1>45, <2>1, <1>0 DEF AllAnnounced, simVars, runVars
<1>46. CASE MonitorFails
  BY <1>46, <1>0 DEF MonitorFails, simVars, runVars, Raise
<1> QED
    BY <1>1, <1>2, <1>3, <1>4, <1>5, <1>6, <1>7, <1>8, <1>9, <1>10, <1>11, <1>12, <1>13,
     <1>14, <1>15, <1>16, <1>17, <1>18, <1>19, <1>20, <1>21, <1>22, <1>23, <1>24, <1>25,
     <1>26, <1>27, <1>28, <1>29, <1>30, <1>31, <1>32, <1>33, <1>34, <1>35, <1>36, <1>37,
     <1>38, <1>39, <1>40, <1>41, <1>42, <1>43, <1>44, <1>45, <1>46
     DEF Next, StarterStep, OperatorStep, SupervisorStep, ArchiverStep, MonitorStep, EngineStep,
         AgentProgress, RequestStop, Archive

\* The invariant holds when a run is created.
LEMMA InitInv == Init => IInv
<1> SUFFICES ASSUME Init
             PROVE  IInv
  OBVIOUS
<1> USE Distinct, Threads, RunAssumption
<1>1. /\ at \in [Thread -> {"new", "idle", "none"}]
      /\ \A p \in Thread : at[p] = IF p = Starter THEN "new"
                                   ELSE IF p = Operator THEN "idle" ELSE "none"
  BY DEF Init
<1>2. TypeOK
  <2>1. at \in [Thread -> Place]
    BY <1>1 DEF Place
  <2>2. disk \in Files /\ archiving \in [Thread -> Files \cup {None}]
    BY DEF Init, Files
  <2>3. failures = {v \in Venue : gate[v] = "failed"}
    BY DEF Init
  <2>4. /\ stopEvent \in BOOLEAN /\ match \in BOOLEAN /\ llm \in BOOLEAN
        /\ reason \in BOOLEAN /\ done \in BOOLEAN /\ lost \in BOOLEAN
        /\ verdict \in [left : BOOLEAN, failed : BOOLEAN]
    BY DEF Init
  <2>5. gate \in [Venue -> {"new", "open", "draining", "failed"}]
    BY DEF Init
  <2>6. /\ closed \subseteq Agent /\ errors \subseteq Worker /\ ended \subseteq Venue
        /\ greeted \subseteq Venue /\ announced \subseteq Venue
    BY DEF Init
  <2>7. runState \in {"starting", "running"} \cup Final /\ faults \in 0..MaxFaults
    BY DEF Init
  <2> QED
    BY <2>1, <2>2, <2>3, <2>4, <2>5, <2>6, <2>7 DEF TypeOK
<1>3. Roles
  BY <1>1 DEF Roles, StarterPlaces, OperatorPlaces, SupervisorPlaces, ArchiverPlaces,
              MonitorPlaces, EnginePlaces, AgentPlaces
<1>4. Course
  BY <1>1 DEF Init, Course
<1>5. Findings /\ Written
  BY <1>1 DEF Init, Findings, Joining, Written
<1>6. Causes
  BY <1>1 DEF Init, Causes
<1> QED
  BY <1>2, <1>3, <1>4, <1>5, <1>6 DEF IInv

\* Every step keeps the invariant.
LEMMA StepInv ==
  ASSUME IInv, [Next]_vars
  PROVE  IInv'
<1>1. CASE Next
  BY <1>1, TypeStep, RoleStep, CourseStep, FindingsStep, WrittenStep, CausesStep DEF IInv
<1>2. CASE UNCHANGED vars
  <2>1. TypeOK'
    BY <1>2 DEF IInv, TypeOK, vars, simVars, runVars
  <2>2. Roles'
    BY <1>2 DEF IInv, Roles, vars
  <2>3. Course'
    BY <1>2 DEF IInv, Course, Archiving, vars, simVars, runVars
  <2>4. Findings'
    BY <1>2 DEF IInv, Findings, Joining, AllOver, Alive, vars, simVars, runVars
  <2>5. Written'
    BY <1>2 DEF IInv, Written, Tells, vars, simVars, runVars
  <2>6. Causes'
    BY <1>2 DEF IInv, Causes, Blamed, Tainted, AllTold, vars, simVars, runVars
  <2> QED
    BY <2>1, <2>2, <2>3, <2>4, <2>5, <2>6 DEF IInv
<1> QED
  BY <1>1, <1>2

\* The invariant holds throughout every run, for any venues and agents.
THEOREM Invariance == Spec => []IInv
<1>1. Init => IInv
  BY InitInv
<1>2. IInv /\ [Next]_vars => IInv'
  BY StepInv
<1> QED
  BY <1>1, <1>2, PTL DEF Spec

\* Every variable stays within the values the code can give it.
THEOREM TypeCorrect == Spec => []TypeOK
<1>1. IInv => TypeOK
  BY DEF IInv
<1> QED
  BY <1>1, Invariance, PTL

\* A stop has a reason: a failure, the operator, the missing LLM, or an end condition
\* every venue has been told of (Simulator.join, _finish_for_end_condition).
THEOREM StopsHaveCauses == Spec => []Causes
<1>1. IInv => Causes
  BY DEF IInv
<1> QED
  BY <1>1, Invariance, PTL

\* A run that is settled as ended after a match has told every venue, unless the
\* operator or the missing LLM came before.
LEMMA MatchIsAnnounced ==
  ASSUME IInv, AllOver, errors = {}, at[Starter] = "over", match, llm, ~reason
  PROVE  ended = Venue
<1>1. at[Monitor] # "announcing"
  BY Threads DEF AllOver, Alive
<1>2. announced = Venue
  BY <1>1 DEF IInv, Causes
<1>3. ~Tainted
  BY DEF Tainted, Failing
<1> QED
  BY <1>2, <1>3 DEF Causes, IInv, TypeOK

\* What a run says of its end is true: no thread is left, nothing failed, and the venues
\* know of an end condition (Simulator.join, MeetingRun._supervise).
THEOREM EndIsHonest == Spec => []FinalStateHonest
<1>1. IInv => FinalStateHonest
  <2> SUFFICES ASSUME IInv
               PROVE  FinalStateHonest
    OBVIOUS
  <2>1. NoStragglers /\ NoFailureHidden
    BY DEF IInv, Findings, AllOver, NoStragglers, NoFailureHidden
  <2>2. EndedMeansAnnounced
    <3> SUFFICES ASSUME runState = "ended", match, llm, ~reason
                 PROVE  ended = Venue
      BY DEF EndedMeansAnnounced
    <3>1. errors = {} /\ AllOver
      BY DEF IInv, Findings
    <3>2. at[Starter] = "over"
      BY Distinct DEF IInv, Course, Roles, StarterPlaces
    <3> QED
      BY <3>1, <3>2, MatchIsAnnounced
  <2> QED
    BY <2>1, <2>2 DEF FinalStateHonest
<1> QED
  BY <1>1, Invariance, PTL

\* When a supervised run is done, its directory holds the final state and the final
\* phases, whoever else was writing (MeetingRun._supervise, persist_archive).
THEOREM EndIsArchived == Spec => []FinalStateArchived
<1>1. IInv => FinalStateArchived
  BY DEF IInv, Written, Tells, FinalStateArchived
<1> QED
  BY <1>1, Invariance, PTL

-----------------------------------------------------------------------------
(* MeetingRun implements RunReport.                                        *)

\* What the report is made of, the threads and the errors aside.
Settled == <<runState, done, verdict.left, llm, reason, match, ended, archiving, disk, lost>>

\* A step that starts no worker, or belongs to the start, is work.
LEMMA WorkMaps ==
  ASSUME UNCHANGED <<Settled, errors>>,
         at'[Starter] = "over" <=> at[Starter] = "over",
         runState = "starting" \/ \A w \in Worker : at[w] \in {"none", "dead"} =>
                                                    at'[w] \in {"none", "dead"}
  PROVE  Report!Next
<1>1. AliveThreads' \subseteq AliveThreads \/ runState = "starting"
  BY DEF AliveThreads, Alive
<1>2. InHand' = InHand /\ verdict'.left = verdict.left
  BY DEF InHand, Settled
<1>3. Report!Work
  BY <1>1, <1>2 DEF Report!Work, Report!causes, Report!reports, Settled
<1> QED
  BY <1>3 DEF Report!Next

\* A step that files errors for a worker that is there, or before the outcome.
LEMMA FileMaps ==
  ASSUME UNCHANGED Settled, errors \subseteq errors', runState \notin {"ended", "stopped"},
         at'[Starter] = "over" <=> at[Starter] = "over",
         \A w \in Worker : at'[w] \in {"none", "dead"} <=> at[w] \in {"none", "dead"}
  PROVE  Report!Next
<1>1. AliveThreads' = AliveThreads
  BY DEF AliveThreads, Alive
<1>2. InHand' = InHand /\ verdict'.left = verdict.left
  BY DEF InHand, Settled
<1>3. Report!File
  BY <1>1, <1>2 DEF Report!File, Report!Clean, Report!causes, Report!reports, Settled
<1> QED
  BY <1>3 DEF Report!Next

\* While a worker is alive no clean outcome has been settled.
LEMMA AliveMeansOpen ==
  ASSUME IInv, NEW w \in Worker, at[w] \notin {"none", "dead"}
  PROVE  runState \notin {"ended", "stopped"} /\ AliveThreads # {}
BY DEF IInv, Findings, AllOver, Alive, AliveThreads

\* Who archives is the starter, the supervisor or the archiver, and there is one of them.
LEMMA InHandIs ==
  ASSUME IInv, NEW p \in Thread, archiving[p] # None
  PROVE  /\ p \in {Starter, Supervisor, Archiver} /\ Archiving(p)
         /\ InHand = archiving[p]
<1>1. Archiving(p) /\ \A q \in Thread : archiving[q] # None => q = p
  BY DEF IInv, Course
<1>2. p \in {Starter, Supervisor, Archiver}
  BY <1>1, Distinct DEF Archiving, IInv, Roles, Thread, Worker, OperatorPlaces, MonitorPlaces,
                        EnginePlaces, AgentPlaces
<1>3. {q \in {Starter, Supervisor, Archiver} : archiving[q] # None} = {p}
  BY <1>1, <1>2, Threads
<1> QED
  BY <1>1, <1>2, <1>3 DEF InHand

\* A step of the start, the stop, the engines, the agents or the monitor is a step of the
\* report or none of its business.
LEMMA WorkersReport ==
  ASSUME IInv, Next
  PROVE  \/ Report!Next
         \/ InitializeFails \/ StartRaises \/ FailedStartDone \/ Begin \/ StopRun
         \/ LookAtThreads \/ Settle \/ SupervisorDone \/ Match
         \/ \E v \in Venue : Announce(v)
         \/ \E p \in Thread : Archive(p)
<1>0. /\ at \in [Thread -> Place]
      /\ verdict \in [left : BOOLEAN, failed : BOOLEAN]
      /\ Roles /\ Course
  BY DEF IInv, TypeOK
<1> USE Distinct, Threads DEF Go, Settled, simVars, runVars
<1>1. CASE Initialize
  <2>1. runState = "starting" /\ at[Starter] # "over"
    BY <1>1, <1>0 DEF Initialize, Course
  <2>2. /\ UNCHANGED <<Settled, errors>>
        /\ at'[Starter] # "over"
    BY <1>1, <1>0, <2>1 DEF Initialize
  <2> QED
    BY <2>1, <2>2, WorkMaps
<1>2. CASE EnginesStarted
  <2>1. runState = "starting" /\ at[Starter] # "over"
    BY <1>2, <1>0 DEF EnginesStarted, Course
  <2>2. /\ UNCHANGED <<Settled, errors>>
        /\ at'[Starter] # "over"
    BY <1>2, <1>0, <2>1 DEF EnginesStarted
  <2> QED
    BY <2>1, <2>2, WorkMaps
<1>3. CASE AgentsStarted
  <2>1. runState = "starting" /\ at[Starter] # "over"
    BY <1>3, <1>0 DEF AgentsStarted, Course
  <2>2. /\ UNCHANGED <<Settled, errors>>
        /\ at'[Starter] # "over"
    BY <1>3, <1>0, <2>1 DEF AgentsStarted
  <2> QED
    BY <2>1, <2>2, WorkMaps
<1>4. CASE StartMonitor
  <2>1. runState = "starting" /\ at[Starter] # "over"
    BY <1>4, <1>0 DEF StartMonitor, Course
  <2>2. /\ UNCHANGED <<Settled, errors>>
        /\ at'[Starter] # "over"
    BY <1>4, <1>0, <2>1 DEF StartMonitor
  <2> QED
    BY <2>1, <2>2, WorkMaps
<1>5. CASE StartFails
  <2>1. runState = "starting" /\ at[Starter] # "over"
    BY <1>5, <1>0 DEF StartFails, Course
  <2>2. /\ UNCHANGED <<Settled, errors>>
        /\ at'[Starter] # "over"
    BY <1>5, <1>0, <2>1 DEF StartFails
  <2> QED
    BY <2>1, <2>2, WorkMaps
<1>6. ASSUME NEW v \in Venue, SpawnEngine(v)
      PROVE  Report!Next
  <2>1. runState = "starting" /\ at[Starter] # "over"
    BY <1>6, <1>0 DEF SpawnEngine, Course
  <2>2. /\ UNCHANGED <<Settled, errors>>
        /\ at'[Starter] # "over"
    BY <1>6, <1>0, <2>1 DEF SpawnEngine
  <2> QED
    BY <2>1, <2>2, WorkMaps
<1>7. ASSUME NEW v \in Venue, Greet(v)
      PROVE  Report!Next
  <2>1. runState = "starting" /\ at[Starter] # "over"
    BY <1>7, <1>0 DEF Greet, Course
  <2>2. /\ UNCHANGED <<Settled, errors>>
        /\ at'[Starter] # "over"
    BY <1>7, <1>0, <2>1 DEF Greet
  <2> QED
    BY <2>1, <2>2, WorkMaps
<1>8. ASSUME NEW a \in Agent, SpawnAgent(a)
      PROVE  Report!Next
  <2>1. runState = "starting" /\ at[Starter] # "over"
    BY <1>8, <1>0 DEF SpawnAgent, Course
  <2>2. /\ UNCHANGED <<Settled, errors>>
        /\ at'[Starter] # "over"
    BY <1>8, <1>0, <2>1 DEF SpawnAgent
  <2> QED
    BY <2>1, <2>2, WorkMaps
<1>9. ASSUME NEW p \in Thread, RaiseFlag(p)
      PROVE  Report!Next
  <2>1. /\ UNCHANGED <<Settled, errors>>
        /\ at'[Starter] = "over" <=> at[Starter] = "over"
        /\ \A w \in Worker : at[w] \in {"none", "dead"} => at'[w] \in {"none", "dead"}
    BY <1>9, <1>0 DEF RaiseFlag, Worker
  <2> QED
    BY <2>1, WorkMaps
<1>10. CASE AskSimulator
  <2>1. /\ UNCHANGED <<Settled, errors>>
        /\ at'[Starter] = "over" <=> at[Starter] = "over"
        /\ \A w \in Worker : at[w] \in {"none", "dead"} => at'[w] \in {"none", "dead"}
    BY <1>10, <1>0 DEF AskSimulator, Worker
  <2> QED
    BY <2>1, WorkMaps
<1>11. CASE JoinAgain
  <2>1. /\ UNCHANGED <<Settled, errors>>
        /\ at'[Starter] = "over" <=> at[Starter] = "over"
        /\ \A w \in Worker : at[w] \in {"none", "dead"} => at'[w] \in {"none", "dead"}
    BY <1>11, <1>0 DEF JoinAgain, Worker
  <2> QED
    BY <2>1, WorkMaps
<1>12. CASE GraceOver
  <2>1. /\ UNCHANGED <<Settled, errors>>
        /\ at'[Starter] = "over" <=> at[Starter] = "over"
        /\ \A w \in Worker : at[w] \in {"none", "dead"} => at'[w] \in {"none", "dead"}
    BY <1>12, <1>0 DEF GraceOver, Worker
  <2> QED
    BY <2>1, WorkMaps
<1>13. CASE AllJoined
  <2>1. /\ UNCHANGED <<Settled, errors>>
        /\ at'[Starter] = "over" <=> at[Starter] = "over"
        /\ \A w \in Worker : at[w] \in {"none", "dead"} => at'[w] \in {"none", "dead"}
    BY <1>13, <1>0 DEF AllJoined, Worker
  <2> QED
    BY <2>1, WorkMaps
<1>14. CASE ArchiverRests
  <2>1. /\ UNCHANGED <<Settled, errors>>
        /\ at'[Starter] = "over" <=> at[Starter] = "over"
        /\ \A w \in Worker : at[w] \in {"none", "dead"} => at'[w] \in {"none", "dead"}
    BY <1>14, <1>0 DEF ArchiverRests, Worker
  <2> QED
    BY <2>1, WorkMaps
<1>15. ASSUME NEW v \in Venue, EngineOpens(v)
      PROVE  Report!Next
  <2>1. /\ UNCHANGED <<Settled, errors>>
        /\ at'[Starter] = "over" <=> at[Starter] = "over"
        /\ \A w \in Worker : at[w] \in {"none", "dead"} => at'[w] \in {"none", "dead"}
    BY <1>15, <1>0 DEF EngineOpens, Worker
  <2> QED
    BY <2>1, WorkMaps
<1>16. ASSUME NEW v \in Venue, EngineEnds(v)
      PROVE  Report!Next
  <2>1. /\ UNCHANGED <<Settled, errors>>
        /\ at'[Starter] = "over" <=> at[Starter] = "over"
        /\ \A w \in Worker : at[w] \in {"none", "dead"} => at'[w] \in {"none", "dead"}
    BY <1>16, <1>0 DEF EngineEnds, Worker
  <2> QED
    BY <2>1, WorkMaps
<1>17. ASSUME NEW a \in Agent, AgentLoops(a)
      PROVE  Report!Next
  <2>1. /\ UNCHANGED <<Settled, errors>>
        /\ at'[Starter] = "over" <=> at[Starter] = "over"
        /\ \A w \in Worker : at[w] \in {"none", "dead"} => at'[w] \in {"none", "dead"}
    BY <1>17, <1>0 DEF AgentLoops, Worker
  <2> QED
    BY <2>1, WorkMaps
<1>18. ASSUME NEW a \in Agent, AgentWakes(a)
      PROVE  Report!Next
  <2>1. /\ UNCHANGED <<Settled, errors>>
        /\ at'[Starter] = "over" <=> at[Starter] = "over"
        /\ \A w \in Worker : at[w] \in {"none", "dead"} => at'[w] \in {"none", "dead"}
    BY <1>18, <1>0 DEF AgentWakes, Worker
  <2> QED
    BY <2>1, WorkMaps
<1>19. ASSUME NEW a \in Agent, AgentReturns(a)
      PROVE  Report!Next
  <2>1. /\ UNCHANGED <<Settled, errors>>
        /\ at'[Starter] = "over" <=> at[Starter] = "over"
        /\ \A w \in Worker : at[w] \in {"none", "dead"} => at'[w] \in {"none", "dead"}
    BY <1>19, <1>0 DEF AgentReturns, Worker
  <2> QED
    BY <2>1, WorkMaps
<1>20. ASSUME NEW a \in Agent, AgentRests(a)
      PROVE  Report!Next
  <2>1. /\ UNCHANGED <<Settled, errors>>
        /\ at'[Starter] = "over" <=> at[Starter] = "over"
        /\ \A w \in Worker : at[w] \in {"none", "dead"} => at'[w] \in {"none", "dead"}
    BY <1>20, <1>0 DEF AgentRests, Worker
  <2> QED
    BY <2>1, WorkMaps
<1>21. ASSUME NEW a \in Agent, AgentHangs(a)
      PROVE  Report!Next
  <2>1. /\ UNCHANGED <<Settled, errors>>
        /\ at'[Starter] = "over" <=> at[Starter] = "over"
        /\ \A w \in Worker : at[w] \in {"none", "dead"} => at'[w] \in {"none", "dead"}
    BY <1>21, <1>0 DEF AgentHangs, Worker
  <2> QED
    BY <2>1, WorkMaps
<1>22. CASE MonitorLeaves
  <2>1. /\ UNCHANGED <<Settled, errors>>
        /\ at'[Starter] = "over" <=> at[Starter] = "over"
        /\ \A w \in Worker : at[w] \in {"none", "dead"} => at'[w] \in {"none", "dead"}
    BY <1>22, <1>0 DEF MonitorLeaves, Worker
  <2> QED
    BY <2>1, WorkMaps
<1>23. CASE AllAnnounced
  <2>1. /\ UNCHANGED <<Settled, errors>>
        /\ at'[Starter] = "over" <=> at[Starter] = "over"
        /\ \A w \in Worker : at[w] \in {"none", "dead"} => at'[w] \in {"none", "dead"}
    BY <1>23, <1>0 DEF AllAnnounced, Worker
  <2> QED
    BY <2>1, WorkMaps
<1>24. CASE ReadErrors
  <2>1. /\ UNCHANGED <<Settled, errors>>
        /\ at'[Starter] = "over" <=> at[Starter] = "over"
        /\ \A w \in Worker : at[w] \in {"none", "dead"} => at'[w] \in {"none", "dead"}
    BY <1>24, <1>0 DEF ReadErrors, Worker
  <2> QED
    BY <2>1, WorkMaps
<1>25. ASSUME NEW p \in Thread, StopAll(p)
      PROVE  Report!Next
  <2>1. /\ UNCHANGED <<Settled, errors>>
        /\ at'[Starter] = "over" <=> at[Starter] = "over"
        /\ \A w \in Worker : at[w] \in {"none", "dead"} => at'[w] \in {"none", "dead"}
    BY <1>25, <1>0 DEF StopAll, AfterStop, Worker
  <2> QED
    BY <2>1, WorkMaps
<1>26. ASSUME NEW v \in Venue, EngineCrashes(v)
      PROVE  Report!Next
  <2>1. at[v] \notin {"none", "dead"} /\ v \in Worker
    BY <1>26 DEF EngineCrashes
  <2>2. /\ UNCHANGED Settled /\ errors \subseteq errors'
        /\ at'[Starter] = "over" <=> at[Starter] = "over"
        /\ \A w \in Worker : at'[w] \in {"none", "dead"} <=> at[w] \in {"none", "dead"}
    BY <1>26, <1>0, <2>1 DEF EngineCrashes, Raise, Worker
  <2> QED
    BY <2>1, <2>2, FileMaps, AliveMeansOpen
<1>27. ASSUME NEW a \in Agent, AgentRefused(a)
      PROVE  Report!Next
  <2>1. at[a] \notin {"none", "dead"} /\ a \in Worker
    BY <1>27 DEF AgentRefused
  <2>2. /\ UNCHANGED Settled /\ errors \subseteq errors'
        /\ at'[Starter] = "over" <=> at[Starter] = "over"
        /\ \A w \in Worker : at'[w] \in {"none", "dead"} <=> at[w] \in {"none", "dead"}
    BY <1>27, <1>0, <2>1 DEF AgentRefused, Raise, Worker
  <2> QED
    BY <2>1, <2>2, FileMaps, AliveMeansOpen
<1>28. ASSUME NEW a \in Agent, AgentFails(a)
      PROVE  Report!Next
  <2>1. at[a] \notin {"none", "dead"} /\ a \in Worker
    BY <1>28 DEF AgentFails
  <2>2. /\ UNCHANGED Settled /\ errors \subseteq errors'
        /\ at'[Starter] = "over" <=> at[Starter] = "over"
        /\ \A w \in Worker : at'[w] \in {"none", "dead"} <=> at[w] \in {"none", "dead"}
    BY <1>28, <1>0, <2>1 DEF AgentFails, Raise, Worker
  <2> QED
    BY <2>1, <2>2, FileMaps, AliveMeansOpen
<1>29. CASE MonitorFails
  <2>1. at[Monitor] \notin {"none", "dead"} /\ Monitor \in Worker
    BY <1>29 DEF MonitorFails
  <2>2. /\ UNCHANGED Settled /\ errors \subseteq errors'
        /\ at'[Starter] = "over" <=> at[Starter] = "over"
        /\ \A w \in Worker : at'[w] \in {"none", "dead"} <=> at[w] \in {"none", "dead"}
    BY <1>29, <1>0, <2>1 DEF MonitorFails, Raise, Worker
  <2> QED
    BY <2>1, <2>2, FileMaps, AliveMeansOpen
<1>30. ASSUME NEW v \in Venue, CommandTimesOut(v)
      PROVE  Report!Next
  <2>1. at[v] \notin {"none", "dead"} /\ v \in Worker
    BY <1>30 DEF CommandTimesOut
  <2>2. UNCHANGED Settled
    BY <1>30 DEF CommandTimesOut
  <2>3. \/ UNCHANGED <<at, errors>>
        \/ at[Starter] = "greeting" /\ Go(Starter, "flag") /\ UNCHANGED errors
        \/ \E w \in Worker : at[w] \in {"busy", "announcing"} /\ Raise(w)
    BY <1>30 DEF CommandTimesOut
  <2>4. /\ errors \subseteq errors'
        /\ at'[Starter] = "over" <=> at[Starter] = "over"
        /\ \A w \in Worker : at'[w] \in {"none", "dead"} <=> at[w] \in {"none", "dead"}
    BY <2>3, <1>0 DEF Raise, Worker
  <2> QED
    BY <2>1, <2>2, <2>4, FileMaps, AliveMeansOpen
<1>31. ASSUME NEW v \in Venue, AnnounceRefused(v)
      PROVE  Report!Next
  <2>1. at[Monitor] \notin {"none", "dead"} /\ Monitor \in Worker
    BY <1>31 DEF AnnounceRefused
  <2>2. UNCHANGED Settled
    BY <1>31 DEF AnnounceRefused
  <2>3. UNCHANGED <<at, errors>> \/ Raise(Monitor)
    BY <1>31 DEF AnnounceRefused
  <2>4. /\ errors \subseteq errors'
        /\ at'[Starter] = "over" <=> at[Starter] = "over"
        /\ \A w \in Worker : at'[w] \in {"none", "dead"} <=> at[w] \in {"none", "dead"}
    BY <2>1, <2>3, <1>0 DEF Raise, Worker
  <2> QED
    BY <2>1, <2>2, <2>4, FileMaps, AliveMeansOpen
<1>32. CASE JoinRound
  <2>1. runState = "running"
    BY <1>32, <1>0 DEF JoinRound, Course, SettledPlaces
  <2>2. /\ UNCHANGED Settled /\ errors \subseteq errors'
        /\ at'[Starter] = "over" <=> at[Starter] = "over"
        /\ \A w \in Worker : at'[w] = at[w]
    BY <1>32, <1>0 DEF JoinRound, Worker
  <2> QED
    BY <2>1, <2>2, FileMaps
<1>33. CASE CollectLast
  <2>1. runState = "running"
    BY <1>33, <1>0 DEF CollectLast, Course, SettledPlaces
  <2>2. /\ UNCHANGED Settled /\ errors \subseteq errors'
        /\ at'[Starter] = "over" <=> at[Starter] = "over"
        /\ \A w \in Worker : at'[w] = at[w]
    BY <1>33, <1>0 DEF CollectLast, Worker
  <2> QED
    BY <2>1, <2>2, FileMaps
<1> QED
  BY <1>1, <1>2, <1>3, <1>4, <1>5, <1>6, <1>7, <1>8, <1>9, <1>10, <1>11, <1>12, <1>13,
     <1>14, <1>15, <1>16, <1>17, <1>18, <1>19, <1>20, <1>21, <1>22, <1>23, <1>24,
     <1>25, <1>26, <1>27, <1>28, <1>29, <1>30, <1>31, <1>32, <1>33
     DEF Next, StarterStep, OperatorStep, SupervisorStep, ArchiverStep, MonitorStep, EngineStep,
         AgentProgress, RequestStop

\* The archive: a report is drawn up, written, or not.
LEMMA ArchiveReports ==
  ASSUME IInv, NEW p \in Thread, Archive(p)
  PROVE  Report!Next
<1>0. /\ at \in [Thread -> Place] /\ archiving \in [Thread -> Files \cup {None}]
      /\ Roles /\ Course
  BY DEF IInv, TypeOK
<1> USE Distinct, Threads
<1>1. CASE BeginArchive(p)
  <2>1. p \in {Starter, Supervisor, Archiver}
    BY <1>1, <1>0 DEF BeginArchive, Archiving, Roles, Thread, Worker, OperatorPlaces,
                      MonitorPlaces, EnginePlaces, AgentPlaces
  <2>2. InHand = None
    BY <1>1 DEF BeginArchive, InHand
  <2>3. archiving'[p] = Snapshot /\ \A q \in Thread \ {p} : archiving'[q] = None
    BY <1>1, <1>0 DEF BeginArchive
  <2>6. InHand' = Snapshot
    <3>1. CASE Snapshot = None
      BY <2>1, <2>3, <3>1 DEF InHand
    <3>2. CASE Snapshot # None
      <4>1. {q \in {Starter, Supervisor, Archiver} : archiving'[q] # None} = {p}
        BY <2>1, <2>3, <3>2
      <4> QED
        BY <2>3, <4>1 DEF InHand
    <3> QED
      BY <3>1, <3>2
  <2>7. AliveThreads' = AliveThreads
    BY <1>1 DEF BeginArchive, AliveThreads, Alive
  <2>8. Report!Draft
    BY <1>1, <2>2, <2>6, <2>7 DEF BeginArchive, Snapshot, simVars, Report!Draft,
         Report!Report, Report!threads, Report!causes
  <2> QED
    BY <2>8 DEF Report!Next
<1>2. ASSUME archiving[p] # None, archiving' = [archiving EXCEPT ![p] = None]
      PROVE  /\ p \in {Starter, Supervisor, Archiver} /\ Archiving(p)
             /\ InHand = archiving[p] /\ InHand' = None
  <2>1. {q \in {Starter, Supervisor, Archiver} : archiving'[q] # None} = {}
    BY <1>2, <1>0 DEF Course
  <2> QED
    BY <2>1, <1>2, InHandIs DEF InHand
<1>3. ASSUME p \in {Starter, Supervisor, Archiver}, \A q \in Worker : at'[q] = at[q]
      PROVE  AliveThreads' = AliveThreads
  BY <1>3 DEF AliveThreads, Alive
<1>4. CASE EndArchive(p)
  <2>1. /\ p \in {Starter, Supervisor, Archiver} /\ Archiving(p)
        /\ InHand = archiving[p] /\ InHand' = None
    BY <1>4, <1>2 DEF EndArchive
  <2>2. \A q \in Worker : at'[q] = at[q]
    BY <1>4, <2>1, <1>0 DEF EndArchive, Archived, Worker
  <2>3. at'[Starter] = "over" <=> at[Starter] = "over" \/ runState = "running"
    <3>1. CASE p = Starter
      BY <1>4, <3>1, <2>1, <1>0 DEF EndArchive, Archived, Archiving, Roles, Course, StarterPlaces
    <3>2. CASE p # Starter
      BY <1>4, <3>2, <2>1, <1>0 DEF EndArchive, Archived, Archiving, Roles, Course,
           SupervisorPlaces, ArchiverPlaces
    <3> QED
      BY <3>1, <3>2
  <2>4. Report!Save
    BY <1>4, <2>1, <2>2, <2>3, <1>3 DEF EndArchive, simVars, Report!Save, Report!threads,
         Report!causes
  <2> QED
    BY <2>4 DEF Report!Next
<1>5. CASE ArchiveFails(p)
  <2>1. /\ p \in {Starter, Supervisor, Archiver} /\ Archiving(p)
        /\ InHand = archiving[p] /\ InHand' = None
    BY <1>5, <1>2 DEF ArchiveFails
  <2>2. /\ \A q \in Worker : at'[q] = at[q]
        /\ at'[Starter] = "over" <=> at[Starter] = "over"
    BY <1>5, <2>1, <1>0 DEF ArchiveFails, Go, Worker, Archiving
  <2>3. \/ UNCHANGED <<runState, lost>>
        \/ /\ at[Starter] = "over" /\ runState \in Final /\ ~done
           /\ runState' = "failed" /\ lost' = TRUE
    <3>1. CASE p = Supervisor
      BY <1>5, <3>1, <2>1, <1>0 DEF ArchiveFails, Archiving, Course, Roles, SupervisorPlaces,
           SettledPlaces, IInv, TypeOK
    <3>2. CASE p # Supervisor
      BY <1>5, <3>2 DEF ArchiveFails, IInv, TypeOK
    <3> QED
      BY <3>1, <3>2
  <2>4. Report!SaveFails
    BY <1>5, <2>1, <2>2, <2>3, <1>3 DEF ArchiveFails, simVars, Final, Report!SaveFails,
         Report!Final, Report!threads, Report!causes
  <2> QED
    BY <2>4 DEF Report!Next
<1> QED
  BY <1>1, <1>4, <1>5 DEF Archive

\* The supervisor puts the outcome together in several steps, and it is the one that a
\* single look would find when it is settled.
LEMMA OutcomeReports ==
  ASSUME IInv, Settle
  PROVE  Report!Next
<1>0. /\ at \in [Thread -> Place] /\ Course /\ Findings
      /\ verdict \in [left : BOOLEAN, failed : BOOLEAN]
      /\ at[Supervisor] = "settling"
  BY DEF IInv, TypeOK, Settle
<1> USE Distinct, Threads
<1>1. /\ runState = "running" /\ at[Starter] = "over"
      /\ verdict.failed <=> verdict.left \/ errors # {}
      /\ ~verdict.failed => AllOver
  BY <1>0 DEF Course, Findings, SettledPlaces
<1>2. /\ \A q \in Worker : at'[q] = at[q]
      /\ at'[Starter] = at[Starter]
  BY <1>0 DEF Settle, Go, Worker
<1>3. AliveThreads' = AliveThreads /\ InHand' = InHand
  BY <1>2 DEF AliveThreads, Alive, InHand, Settle
<1>4. Report!Outcome
  <2>1. CASE verdict.failed
    BY <2>1, <1>1 DEF Settle, Outcome, Report!Outcome
  <2>2. CASE ~verdict.failed
    <3>1. AliveThreads = {} /\ errors = {} /\ ~verdict.left
      BY <2>2, <1>1 DEF AllOver, AliveThreads
    <3>2. match /\ llm /\ ~reason => ended = Venue
      BY <2>2, <3>1, <1>1, MatchIsAnnounced
    <3> QED
      BY <2>2, <3>1, <3>2 DEF Settle, Outcome, Report!Outcome
  <2> QED
    BY <2>1, <2>2
<1>5. Report!Settle
  BY <1>1, <1>2, <1>3, <1>4 DEF Settle, simVars, Report!Settle, Report!threads, Report!causes,
       Report!reports
<1> QED
  BY <1>5 DEF Report!Next

\* Every step of a run is a step of its report, or none of its business.
LEMMA StepReports ==
  ASSUME IInv, [Next]_vars
  PROVE  [Report!Next]_(Report!vars)
<1>0. /\ at \in [Thread -> Place] /\ Roles /\ Course /\ Written
      /\ verdict \in [left : BOOLEAN, failed : BOOLEAN] /\ done \in BOOLEAN
  BY DEF IInv, TypeOK
<1> USE Distinct, Threads DEF Go, simVars, Report!threads, Report!causes, Report!reports
<1>1. ASSUME \A w \in Worker : at'[w] = at[w], archiving' = archiving
      PROVE  AliveThreads' = AliveThreads /\ InHand' = InHand
  BY <1>1 DEF AliveThreads, Alive, InHand
<1>2. CASE InitializeFails \/ StartRaises
  <2>1. /\ runState = "starting" /\ runState' = "failed" /\ done' \in BOOLEAN
        /\ \A w \in Worker : at'[w] = at[w]
        /\ at[Starter] # "over" /\ at'[Starter] # "over" /\ archiving' = archiving
    BY <1>2, <1>0 DEF InitializeFails, StartRaises, Course, Worker
  <2>2. Report!StartFails
    BY <1>2, <1>1, <2>1 DEF InitializeFails, StartRaises, Report!StartFails
  <2> QED
    BY <2>2 DEF Report!Next
<1>3. CASE Begin
  <2>1. /\ runState = "starting"
        /\ \A w \in Worker : at'[w] = at[w]
        /\ at[Starter] # "over" /\ at'[Starter] # "over"
    BY <1>3, <1>0 DEF Begin, Course, Worker
  <2>2. Report!Begin
    BY <1>3, <1>1, <2>1 DEF Begin, Report!Begin
  <2> QED
    BY <2>2 DEF Report!Next
<1>4. CASE StopRun
  <2>1. /\ runState = "running"
        /\ \A w \in Worker : at'[w] = at[w]
        /\ at'[Starter] = at[Starter]
    BY <1>4, <1>0 DEF StopRun, Course, Worker, Final
  <2>2. Report!Ask
    BY <1>4, <1>1, <2>1 DEF StopRun, Report!Ask
  <2> QED
    BY <2>2 DEF Report!Next
<1>5. CASE LookAtThreads
  <2>1. /\ runState = "running" /\ ~verdict.left
        /\ \A w \in Worker : at'[w] = at[w]
        /\ at'[Starter] = at[Starter]
    BY <1>5, <1>0 DEF LookAtThreads, Course, Worker, SettledPlaces, IInv, Findings, Joining
  <2>2. verdict'.left = (AliveThreads # {})
    BY <1>5, <1>0 DEF LookAtThreads
  <2>3. CASE AliveThreads # {}
    <3>1. Report!LosePatience
      BY <1>5, <1>1, <2>1, <2>2, <2>3 DEF LookAtThreads, Report!LosePatience
    <3> QED
      BY <3>1 DEF Report!Next
  <2>4. CASE AliveThreads = {}
    <3>1. verdict'.left = verdict.left
      BY <1>0, <2>1, <2>2, <2>4
    <3> QED
      BY <1>5, <1>1, <2>1, <3>1 DEF LookAtThreads, Report!vars
  <2> QED
    BY <2>3, <2>4
<1>6. CASE SupervisorDone \/ FailedStartDone
  <2>1. /\ runState \in Final /\ ~done
        /\ at[Starter] = "over" /\ ~lost => Tells(disk)
        /\ \A p \in Thread : at[Starter] = "over" /\ archiving[p] # None => Tells(archiving[p])
    BY <1>6, <1>0 DEF SupervisorDone, FailedStartDone, Course, Written, Final, SettledPlaces
  <2>2. at[Starter] = "over" /\ InHand # None => Tells(InHand)
    <3> SUFFICES ASSUME at[Starter] = "over", InHand # None
                 PROVE  Tells(InHand)
      OBVIOUS
    <3>1. PICK p \in Thread : archiving[p] # None
      BY DEF InHand
    <3> QED
      BY <3>1, <2>1, InHandIs
  <2>3. /\ \A w \in Worker : at'[w] = at[w]
        /\ at'[Starter] = "over" <=> at[Starter] = "over"
    BY <1>6, <1>0 DEF SupervisorDone, FailedStartDone, Worker
  <2>4. Report!Finish
    BY <1>6, <1>1, <2>1, <2>2, <2>3 DEF SupervisorDone, FailedStartDone, Tells, Final,
         Report!Finish, Report!Tells, Report!Clean, Report!Final
  <2> QED
    BY <2>4 DEF Report!Next
<1>7. CASE Match
  <2>1. /\ AliveThreads # {} /\ at'[Starter] = at[Starter] /\ archiving' = archiving
        /\ AliveThreads' = AliveThreads /\ InHand' = InHand
    BY <1>7, <1>0 DEF Match, AliveThreads, Alive, InHand, Worker, runVars
  <2>2. Report!Match
    BY <1>7, <2>1 DEF Match, runVars, Report!Match
  <2> QED
    BY <2>2 DEF Report!Next
<1>8. ASSUME NEW v \in Venue, Announce(v)
      PROVE  Report!Next
  <2>1. /\ AliveThreads # {} /\ archiving' = archiving /\ match
        /\ AliveThreads' = AliveThreads /\ InHand' = InHand
    BY <1>8, <1>0 DEF Announce, AliveThreads, Alive, InHand, runVars, IInv, Causes
  <2>2. Report!Announce
    BY <1>8, <2>1 DEF Announce, runVars, Report!Announce
  <2> QED
    BY <2>2 DEF Report!Next
<1>9. CASE UNCHANGED vars
  BY <1>9, <1>1 DEF vars, runVars, Report!vars
<1> QED
  BY <1>2, <1>3, <1>4, <1>5, <1>6, <1>7, <1>8, <1>9, WorkersReport, ArchiveReports, OutcomeReports

\* What a run reports is an outcome settled at once, and in the directory before the run
\* is done, although the supervisor puts it together in several steps while threads end,
\* errors are filed and others write (Simulator.join, MeetingRun._supervise).
THEOREM ImplementsReport == Spec => ReportSpec
<1>1. Init => Report!Init
  <2> SUFFICES ASSUME Init
               PROVE  Report!Init
    OBVIOUS
  <2>1. AliveThreads = {}
    BY Distinct, Threads DEF Init, AliveThreads, Alive, Worker
  <2>2. InHand = None
    BY Threads DEF Init, InHand
  <2>3. at[Starter] # "over" /\ verdict.left = FALSE
    BY Threads DEF Init
  <2> QED
    BY <2>1, <2>2, <2>3 DEF Init, Report!Init
<1>2. IInv /\ [Next]_vars => [Report!Next]_(Report!vars)
  BY StepReports
<1> QED
  BY <1>1, <1>2, Invariance, PTL DEF Spec, ReportSpec, Report!Spec

\* What MeetingRun.wait() reported stays: a run that is done keeps its state.  A report
\* that is finished is not settled again, nor is it failed by a late write.
THEOREM DoneStaysDone == Spec => DoneIsFinal
<1> DEFINE Settles == done => runState \in Final
<1> USE DEF Final
<1>1. Init => Settles
  BY DEF Init
<1>2. Settles /\ [Report!Next]_(Report!vars) => Settles'
  BY DEF Report!Final, Report!Next, Report!vars, Report!Work, Report!File, Report!LosePatience,
       Report!Ask, Report!Match, Report!Announce, Report!StartFails, Report!Begin, Report!Outcome,
       Report!Settle, Report!Finish, Report!Draft, Report!Save, Report!SaveFails, Report!causes,
       Report!reports, Report!threads
<1>3. Settles /\ [Report!Next]_(Report!vars) => [done => runState' = runState /\ done']_vars
  BY DEF Report!Next, Report!vars, Report!Work, Report!File, Report!LosePatience,
       Report!Ask, Report!Match, Report!Announce, Report!StartFails, Report!Begin,
       Report!Settle, Report!Finish, Report!Draft, Report!Save, Report!SaveFails
<1>4. IInv /\ [Next]_vars => [Report!Next]_(Report!vars)
  BY StepReports
<1> QED
  BY <1>1, <1>2, <1>3, <1>4, Invariance, PTL DEF Spec, DoneIsFinal
=============================================================================
