------------------------------- MODULE FileStore -------------------------------
(***************************************************************************)
(* The run directory (filesystem/filesystem.py) and the tools of the       *)
(* representatives that work on it (scenario/representative.py): files     *)
(* that a representative writes and shares, and the copies of them that    *)
(* instructions and resolutions are submitted with.                        *)
(*                                                                         *)
(* An operation holds the lock of the FileSystem from beginning to end and *)
(* writes up to two files, the content and then the manifest; either write *)
(* may fail.  A crash between the two leaves the disk as a failing second  *)
(* write does.  What an operation refuses is a step that is not taken,     *)
(* unless it has changed something before.                                 *)
(***************************************************************************)
EXTENDS Naturals, Sequences, FiniteSets, SequencesExt

CONSTANTS
  Rep,        \* the representatives
  Venue,      \* their venues
  VenueOf,    \* Representative.venue
  Name,       \* file names in use
  Plussed,    \* those of them with a "+"
  Content,    \* contents in use
  About,      \* descriptions in use
  InUse,      \* bound: the files that are created
  MaxFiles,   \* bound: files at a time
  MaxCopies,  \* bound: copies of a series
  MaxFaults,  \* bound: disk writes that fail
  MaxCrashes, \* bound: crashes
  None

\* reps/<rep_id>/<name>, by its primary owner
File == Rep \X Name
\* submissions/<venue_id>/<primary_owner>+<name>+v...  The code takes the last part
\* of the path for the name: files of an owner that lie in directories would share
\* a series, but the agents are told to create none in directories.
Series == Venue \X File
SeriesOf(r, f) == <<VenueOf[r], f>>

Access == [owners : SUBSET Rep, scope : SUBSET Rep, about : About]

ASSUME FileStoreAssumption ==
  /\ VenueOf \in [Rep -> Venue]
  /\ Plussed \subseteq Name
  /\ InUse \subseteq Rep \X Name
  /\ MaxFiles \in Nat /\ MaxCopies \in Nat /\ MaxFaults \in Nat /\ MaxCrashes \in Nat
  /\ None \notin Content \cup Access \cup [content : Content, access : Access]

VARIABLES
  content,    \* File.__content of the registered files
  access,     \* their owners, scopes and descriptions
  copies,     \* the registered copies of each series, by version
  disk,       \* what reps/ holds
  diskCopies, \* what submissions/ holds
  manifest,   \* what _manifest.yaml lists
  doing,      \* the copy a call of submit_instruction or submit_resolution has
              \* made or found, until its event is in the EventList
  papers,     \* the events with a copy: its series, version, and the content
              \* at that time
  owed,       \* what a file may hold after the calls that were answered so far
  faults,
  crashes

memory == <<content, access, copies>>
ondisk == <<disk, diskCopies, manifest>>
vars == <<memory, ondisk, doing, papers, owed, faults, crashes>>

Init ==
  /\ content = [f \in File |-> None]
  /\ access = [f \in File |-> None]
  /\ copies = [s \in Series |-> <<>>]
  /\ disk = [f \in File |-> None]
  /\ diskCopies = [s \in Series |-> <<>>]
  /\ manifest = [files |-> [f \in File |-> None], copies |-> [s \in Series |-> 0]]
  /\ doing = [r \in Rep |-> None]
  /\ papers = {}
  /\ owed = [f \in File |-> [contents |-> {}, abouts |-> {}, access |-> None]]
  /\ faults = 0
  /\ crashes = 0

-----------------------------------------------------------------------------
(* Writing.                                                                *)

\* Which of the writes of an operation fails, if any does.
Stage == {"no", "content", "manifest"}

Fails(stage) ==
  IF stage = "no" THEN UNCHANGED faults
                  ELSE faults < MaxFaults /\ faults' = faults + 1

\* _atomic_write_text replaces a file as a whole or not at all.
WriteContent(stage, f, c) ==
  disk' = IF stage = "content" THEN disk ELSE [disk EXCEPT ![f] = c]

\* _save_manifest lists everything that is registered.
SaveManifest(stage) ==
  manifest' = IF stage # "no" THEN manifest
              ELSE [files |-> access', copies |-> [s \in Series |-> Len(copies'[s])]]

\* The answer to a call that may have written c to f.
Owe(stage, f, c) ==
  owed' = IF stage = "no"
            THEN [owed EXCEPT ![f] = [contents |-> {c}, abouts |-> {access'[f].about},
                                      access |-> access'[f]]]
            ELSE [owed EXCEPT ![f].contents = @ \cup {c}]

\* The answer to a call that changed the access to f.
OweAccess(stage, f) ==
  owed' = IF stage = "no"
            THEN [owed EXCEPT ![f].abouts = {access'[f].about}, ![f].access = access'[f]]
            ELSE [owed EXCEPT ![f].abouts = @ \cup {access'[f].about}]

\* _resolve_file and get: only what a representative sees can be named.
Sees(r, f) == access[f] # None /\ r \in access[f].scope
Owns(r, f) == Sees(r, f) /\ r \in access[f].owners

-----------------------------------------------------------------------------
(* A representative's tools.                                               *)

\* create_file: the first owner, and reader, is who creates it.  A failing
\* registration is undone in memory; what is on disk stays there.
Create(r, n, c, about, stage) ==
  LET f == <<r, n>> IN
  /\ f \in InUse
  /\ Cardinality({g \in InUse : access[g] # None}) < MaxFiles
  /\ access[f] = None /\ disk[f] = None
  /\ Fails(stage)
  /\ IF stage = "no"
       THEN /\ content' = [content EXCEPT ![f] = c]
            /\ access' = [access EXCEPT ![f] =
                            [owners |-> {r}, scope |-> {r}, about |-> about]]
       ELSE UNCHANGED <<content, access>>
  /\ UNCHANGED copies
  /\ WriteContent(stage, f, c)
  /\ SaveManifest(stage)
  /\ IF stage = "no" THEN Owe(stage, f, c) ELSE UNCHANGED owed
  /\ UNCHANGED <<diskCopies, doing, papers, crashes>>

\* write_file: in memory the content is the new one whatever becomes of the disk.
Write(r, f, c, stage) ==
  /\ Owns(r, f)
  /\ Fails(stage)
  /\ content' = [content EXCEPT ![f] = c]
  /\ UNCHANGED <<access, copies>>
  /\ WriteContent(stage, f, c)
  /\ SaveManifest(stage)
  /\ Owe(stage, f, c)
  /\ UNCHANGED <<diskCopies, doing, papers, crashes>>

\* add_scope, add_owner, set_description: memory first, then the manifest.
Change(f, new, stage) ==
  /\ Fails(stage)
  /\ access' = [access EXCEPT ![f] = new]
  /\ UNCHANGED <<content, copies, disk>>
  /\ SaveManifest(stage)
  /\ OweAccess(stage, f)
  /\ UNCHANGED <<diskCopies, doing, papers, crashes>>

AddScope(r, f, others, stage) ==
  /\ Owns(r, f)
  /\ stage # "content"
  /\ Change(f, [access[f] EXCEPT !.scope = @ \cup others], stage)

AddOwner(r, f, others, stage) ==
  /\ Owns(r, f)
  /\ others \subseteq access[f].scope
  /\ stage # "content"
  /\ Change(f, [access[f] EXCEPT !.owners = @ \cup others], stage)

\* Of a set with somebody who does not see the file, those the loop came to
\* first are owners in memory although the call is refused.
AddOwnerRefused(r, f, others) ==
  /\ Owns(r, f)
  /\ ~(others \subseteq access[f].scope)
  /\ \E some \in SUBSET (others \cap access[f].scope) :
       access' = [access EXCEPT ![f].owners = @ \cup some]
  /\ UNCHANGED <<content, copies, ondisk, doing, papers, owed, faults, crashes>>

SetDescription(r, f, about, stage) ==
  /\ Owns(r, f)
  /\ stage # "content"
  /\ Change(f, [access[f] EXCEPT !.about = about], stage)

-----------------------------------------------------------------------------
(* Submissions.                                                            *)

\* _latest_submission: the name of a copy is taken apart at its last two "+",
\* so that of a file with a "+" in its own name none is found.
Found(s) == IF s[2][2] \in Plussed THEN <<>> ELSE copies[s]

NextVersion(s) == Len(Found(s)) + 1

\* Slip: the owner is not asked for.
SubmittableByAll(r, f) == NextVersion(SeriesOf(r, f)) > Len(diskCopies[SeriesOf(r, f)])

\* Slip: the content may be that of the latest copy.
SubmittableAgain(r, f) ==
  LET s == SeriesOf(r, f) IN
  /\ Owns(r, f)
  /\ NextVersion(s) > Len(diskCopies[s])

\* can_submit: the content has changed, and no copy of the next version exists.
Submittable(r, f) ==
  LET s == SeriesOf(r, f) IN
  /\ Owns(r, f)
  /\ Found(s) # <<>> => Last(Found(s)) # content[f]
  /\ NextVersion(s) > Len(diskCopies[s])

\* Slip: a copy stays registered although its registration has failed.
RegisterAnyway(s, c, stage) ==
  /\ copies' = [copies EXCEPT ![s] = Append(@, c)]
  /\ diskCopies' = IF stage = "content" THEN diskCopies
                   ELSE [diskCopies EXCEPT ![s] = Append(@, c)]

\* _register, for a copy
Register(s, c, stage) ==
  /\ copies' = IF stage # "no" THEN copies ELSE [copies EXCEPT ![s] = Append(@, c)]
  /\ diskCopies' = IF stage = "content" THEN diskCopies
                   ELSE [diskCopies EXCEPT ![s] = Append(@, c)]

\* _ensure_submission, for a working file; if it fails the call is over.
Submit(r, f, stage) ==
  /\ doing[r] = None
  /\ Submittable(r, f)
  /\ Len(copies[SeriesOf(r, f)]) < MaxCopies
  /\ Fails(stage)
  /\ UNCHANGED <<content, access>>
  /\ Register(SeriesOf(r, f), content[f], stage)
  /\ SaveManifest(stage)
  /\ doing' = IF stage # "no" THEN doing
              ELSE [doing EXCEPT ![r] = [series |-> SeriesOf(r, f),
                                         version |-> NextVersion(SeriesOf(r, f))]]
  /\ UNCHANGED <<disk, papers, owed, crashes>>

\* _ensure_submission, for a copy: everybody may name one by its path.
SubmitCopy(r, s, version) ==
  /\ doing[r] = None
  /\ doing' = [doing EXCEPT ![r] = [series |-> s, version |-> version]]
  /\ UNCHANGED <<memory, ondisk, papers, owed, faults, crashes>>

\* The instruction or resolution enters the EventList, later.
PaperEnters(r) ==
  /\ doing[r] # None
  /\ papers' = papers \cup
       {[series |-> doing[r].series, version |-> doing[r].version,
         content |-> copies[doing[r].series][doing[r].version]]}
  /\ doing' = [doing EXCEPT ![r] = None]
  /\ UNCHANGED <<memory, ondisk, owed, faults, crashes>>

\* Its seats are refused, or the venue refuses it: the copy stays.
PaperRefused(r) ==
  /\ doing[r] # None
  /\ doing' = [doing EXCEPT ![r] = None]
  /\ UNCHANGED <<memory, ondisk, papers, owed, faults, crashes>>

-----------------------------------------------------------------------------
\* The process dies and a FileSystem is opened on the directory: _load_manifest.
\* The events are gone.
Reopen ==
  /\ crashes < MaxCrashes
  /\ crashes' = crashes + 1
  /\ access' = manifest.files
  /\ content' = [f \in File |-> IF manifest.files[f] = None THEN None ELSE disk[f]]
  /\ copies' = [s \in Series |-> SubSeq(diskCopies[s], 1, manifest.copies[s])]
  /\ doing' = [r \in Rep |-> None]
  /\ papers' = {}
  /\ UNCHANGED <<ondisk, owed, faults>>

\* What the tools of a representative come to.
FileTool(r) ==
  \/ \E n \in Name, c \in Content, about \in About, stage \in Stage :
       Create(r, n, c, about, stage)
  \/ \E f \in File, stage \in Stage :
       \/ \E c \in Content : Write(r, f, c, stage)
       \/ \E others \in SUBSET Rep :
            AddScope(r, f, others, stage) \/ AddOwner(r, f, others, stage)
       \/ \E about \in About : SetDescription(r, f, about, stage)
  \/ \E f \in File, others \in SUBSET Rep : AddOwnerRefused(r, f, others)

PaperTool(r) ==
  \/ \E f \in File, stage \in Stage : Submit(r, f, stage)
  \/ \E s \in Series : \E version \in 1..Len(copies[s]) : SubmitCopy(r, s, version)
  \/ PaperEnters(r)
  \/ PaperRefused(r)

Next == (\E r \in Rep : FileTool(r) \/ PaperTool(r)) \/ Reopen

Spec == Init /\ [][Next]_vars

-----------------------------------------------------------------------------
(* Properties.                                                             *)

\* The types of the variables.
TypeOK ==
  /\ content \in [File -> Content \cup {None}]
  /\ access \in [File -> Access \cup {None}]
  /\ copies \in [Series -> Seq(Content)]
  /\ disk \in [File -> Content \cup {None}]
  /\ diskCopies \in [Series -> Seq(Content)]
  /\ manifest \in [files : [File -> Access \cup {None}], copies : [Series -> Nat]]
  /\ doing \in [Rep -> [series : Series, version : Nat \ {0}] \cup {None}]
  /\ papers \subseteq [series : Series, version : Nat \ {0}, content : Content]
  /\ owed \in [File -> [contents : SUBSET Content, abouts : SUBSET About,
                       access : Access \cup {None}]]
  /\ faults \in 0..MaxFaults
  /\ crashes \in 0..MaxCrashes

\* Whatever fails, the manifest can be loaded: what it lists is on disk, and the
\* owners of a file are among those who see it (_load_manifest raises otherwise).
ManifestLoads ==
  /\ \A f \in File : manifest.files[f] # None =>
       disk[f] # None /\ manifest.files[f].owners \subseteq manifest.files[f].scope
  /\ \A s \in Series : manifest.copies[s] <= Len(diskCopies[s])

\* A crash takes nothing back that a tool has answered with ok: a file holds what
\* was written last, or what a call that failed since has tried to write, and so does
\* its description; nobody loses a file that was shared.
OkSurvives ==
  \A f \in File : owed[f].access # None =>
    /\ disk[f] \in owed[f].contents
    /\ manifest.files[f] # None
    /\ manifest.files[f].about \in owed[f].abouts
    /\ owed[f].access.owners \subseteq manifest.files[f].owners
    /\ owed[f].access.scope \subseteq manifest.files[f].scope

\* The copies of a series have the versions 1, 2, ... on disk too, each with a
\* content of its own; a failing submission leaves at most one behind that is
\* not registered, and then the series has come to its end.
VersionsGrow ==
  \A s \in Series :
    /\ IsPrefix(copies[s], diskCopies[s])
    /\ Len(diskCopies[s]) <= Len(copies[s]) + 1
    /\ \A i \in 2..Len(copies[s]) : copies[s][i] # copies[s][i - 1]

\* An event stands for the content its file had when it was submitted, and what
\* it stands for is safely on disk.
PapersOnFile ==
  \A p \in papers :
    /\ p.version <= Len(copies[p.series])
    /\ copies[p.series][p.version] = p.content
    /\ p.version <= manifest.copies[p.series]

\* A file that has changed gets its next version, whoever has owned, shared or
\* submitted it in between, as long as no write fails (File.submit: "otherwise
\* assign a new version").  Of a file with a "+" in its name that is not so: it
\* has one version, and the second is refused.
SeriesGoOn ==
  \A s \in Series :
    IF s[2][2] \in Plussed THEN Len(copies[s]) <= 1
                           ELSE faults = 0 => NextVersion(s) > Len(diskCopies[s])

\* A reopened run directory is the one that was left (ManifestLoads, OkSurvives),
\* the events can be told by it (VersionsGrow, PapersOnFile), and more copies can
\* be put into it (SeriesGoOn).
DiskCanBeTrusted ==
  ManifestLoads /\ OkSurvives /\ VersionsGrow /\ PapersOnFile /\ SeriesGoOn

\* A copy is never changed, dropped or renumbered, not even by a failing write or
\* a crash.
CopiesStay == [][\A s \in Series : IsPrefix(copies[s], copies'[s])]_vars

\* The files as the tools show them, and as a crash would give them back.
Seen ==
  [f \in File |-> IF access[f] = None THEN None
                  ELSE [content |-> content[f], access |-> access[f]]]
Kept ==
  [f \in File |-> IF manifest.files[f] = None THEN None
                  ELSE [content |-> disk[f], access |-> manifest.files[f]]]

\* Although every call writes a file and then the manifest, and memory before or
\* after, the representatives have files that are kept as the answers say, and
\* copies that are only added (FileSystem._register, _write_content,
\* _save_manifest, _load_manifest).
Shared == INSTANCE SharedFiles WITH seen <- Seen, kept <- Kept

SharedSpec == Shared!Spec
=============================================================================
