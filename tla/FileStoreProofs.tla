---------------------------- MODULE FileStoreProofs ----------------------------
(***************************************************************************)
(* Theorems about FileStore, for any representatives, files, contents and  *)
(* any number of failing writes and crashes.  IInv is the inductive        *)
(* invariant: what the memory, the manifest and the working files have in  *)
(* common (Listed), what may be found in them after the calls that were    *)
(* answered (AnswersHold), what the memory, the manifest and the           *)
(* submissions have in common (Filed), and what the next submission meets  *)
(* there (Continued).  Under it, every step is one of SharedFiles or none. *)
(***************************************************************************)
EXTENDS FileStore, SequenceTheorems, TLAPS

Sound(entry) == entry.owners \subseteq entry.scope

\* The memory, the manifest and the answers know the same files.
Listed ==
  \A f \in File :
    /\ manifest.files[f] # None <=> access[f] # None
    /\ owed[f].access # None <=> access[f] # None
    /\ access[f] # None =>
         /\ content[f] # None
         /\ disk[f] # None
         /\ Sound(access[f])
         /\ Sound(manifest.files[f])

\* An entry that goes back on no answer.
Covers(entry, due) ==
  /\ entry.about \in due.abouts
  /\ due.access.owners \subseteq entry.owners
  /\ due.access.scope \subseteq entry.scope

AnswersHold ==
  \A f \in File : access[f] # None =>
    /\ disk[f] \in owed[f].contents
    /\ Covers(access[f], owed[f])
    /\ Covers(manifest.files[f], owed[f])

Filed ==
  /\ VersionsGrow
  /\ \A s \in Series : manifest.copies[s] = Len(copies[s])
  /\ \A r \in Rep : doing[r] # None => doing[r].version <= Len(copies[doing[r].series])
  /\ PapersOnFile

\* What the next version of a copy meets on disk: nothing, as long as no write has
\* failed; of a file with a "+" there is one version.
Continued ==
  /\ faults = 0 => diskCopies = copies
  /\ \A s \in Series : s[2][2] \in Plussed => Len(copies[s]) <= 1

IInv == TypeOK /\ Listed /\ AnswersHold /\ Filed /\ Continued

-----------------------------------------------------------------------------
(* Sequences and their prefixes.                                           *)

LEMMA PrefixIs ==
  ASSUME NEW S, NEW s \in Seq(S), NEW t \in Seq(S)
  PROVE  IsPrefix(s, t) <=> Len(s) <= Len(t) /\ \A i \in 1..Len(s) : s[i] = t[i]
<1>1. Len(s) \in Nat /\ Len(t) \in Nat
  OBVIOUS
<1>2. ASSUME Len(s) <= Len(t)
      PROVE  SubSeq(s, 1, Len(s)) = SubSeq(t, 1, Len(s)) <=> \A i \in 1..Len(s) : s[i] = t[i]
  <2>1. /\ SubSeq(s, 1, Len(s)) \in Seq(S) /\ Len(SubSeq(s, 1, Len(s))) = Len(s)
        /\ \A i \in 1..Len(s) : SubSeq(s, 1, Len(s))[i] = s[i]
    BY <1>1
  <2>2. /\ SubSeq(t, 1, Len(s)) \in Seq(S) /\ Len(SubSeq(t, 1, Len(s))) = Len(s)
        /\ \A i \in 1..Len(s) : SubSeq(t, 1, Len(s))[i] = t[i]
    BY <1>1, <1>2
  <2>3. ASSUME \A i \in 1..Len(s) : s[i] = t[i]
        PROVE  SubSeq(s, 1, Len(s)) = SubSeq(t, 1, Len(s))
    BY <2>1, <2>2, <2>3, SeqEqual
  <2> QED
    BY <2>1, <2>2, <2>3
<1> QED
  BY <1>2 DEF IsPrefix

LEMMA PrefixSame ==
  ASSUME NEW S, NEW s \in Seq(S)
  PROVE  IsPrefix(s, s)
BY PrefixIs

LEMMA PrefixFull ==
  ASSUME NEW S, NEW s \in Seq(S), NEW t \in Seq(S), IsPrefix(s, t), Len(t) <= Len(s)
  PROVE  s = t
BY PrefixIs, SeqEqual

LEMMA PrefixAppend ==
  ASSUME NEW S, NEW s \in Seq(S), NEW t \in Seq(S), NEW e \in S, IsPrefix(s, t)
  PROVE  IsPrefix(s, Append(t, e))
<1>1. /\ Append(t, e) \in Seq(S)
      /\ Len(Append(t, e)) = Len(t) + 1
      /\ \A i \in 1..Len(t) : Append(t, e)[i] = t[i]
  OBVIOUS
<1>2. Len(s) <= Len(t) /\ \A i \in 1..Len(s) : s[i] = t[i]
  BY PrefixIs
<1>3. Len(s) <= Len(Append(t, e)) /\ \A i \in 1..Len(s) : s[i] = Append(t, e)[i]
  BY <1>1, <1>2
<1> QED
  BY <1>1, <1>3, PrefixIs

LEMMA PrefixCut ==
  ASSUME NEW S, NEW s \in Seq(S), NEW t \in Seq(S), IsPrefix(s, t)
  PROVE  SubSeq(t, 1, Len(s)) = s
<1>1. Len(s) <= Len(t) /\ \A i \in 1..Len(s) : s[i] = t[i]
  BY PrefixIs
<1>2. /\ SubSeq(t, 1, Len(s)) \in Seq(S) /\ Len(SubSeq(t, 1, Len(s))) = Len(s)
      /\ \A i \in 1..Len(s) : SubSeq(t, 1, Len(s))[i] = t[i]
  BY <1>1
<1> QED
  BY <1>1, <1>2, SeqEqual

-----------------------------------------------------------------------------
(* What the actions have in common.                                        *)

\* Sharing a file and describing it is for its owners, and takes nothing from anybody.
Wider(f, entry) ==
  /\ \E r \in Rep : Owns(r, f)
  /\ access[f] # None
  /\ entry \in Access
  /\ Sound(entry)
  /\ access[f].owners \subseteq entry.owners
  /\ access[f].scope \subseteq entry.scope

LEMMA Changes ==
  ASSUME IInv, NEW r \in Rep, NEW f \in File, NEW stage \in Stage,
         \/ \E others \in SUBSET Rep :
              AddScope(r, f, others, stage) \/ AddOwner(r, f, others, stage)
         \/ \E about \in About : SetDescription(r, f, about, stage)
  PROVE  \E entry \in Access : Wider(f, entry) /\ Change(f, entry, stage)
<1>1. ASSUME Owns(r, f)
      PROVE  access[f] # None /\ access[f] \in Access /\ Sound(access[f])
  BY <1>1 DEF IInv, TypeOK, Listed, Owns, Sees
<1>2. ASSUME NEW others \in SUBSET Rep, AddScope(r, f, others, stage)
      PROVE  \E entry \in Access : Wider(f, entry) /\ Change(f, entry, stage)
  <2> DEFINE entry == [access[f] EXCEPT !.scope = @ \cup others]
  <2>1. Owns(r, f) /\ access[f] # None /\ access[f] \in Access /\ Sound(access[f])
    BY <1>1, <1>2 DEF AddScope
  <2>2. entry \in Access /\ Wider(f, entry)
    BY <2>1 DEF Access, Wider, Sound
  <2>3. Change(f, entry, stage)
    BY <1>2 DEF AddScope
  <2> QED
    BY <2>2, <2>3
<1>3. ASSUME NEW others \in SUBSET Rep, AddOwner(r, f, others, stage)
      PROVE  \E entry \in Access : Wider(f, entry) /\ Change(f, entry, stage)
  <2> DEFINE entry == [access[f] EXCEPT !.owners = @ \cup others]
  <2>1. Owns(r, f) /\ access[f] # None /\ access[f] \in Access /\ Sound(access[f])
    BY <1>1, <1>3 DEF AddOwner
  <2>2. entry \in Access /\ Wider(f, entry)
    BY <2>1, <1>3 DEF Access, Wider, Sound, AddOwner
  <2>3. Change(f, entry, stage)
    BY <1>3 DEF AddOwner
  <2> QED
    BY <2>2, <2>3
<1>4. ASSUME NEW about \in About, SetDescription(r, f, about, stage)
      PROVE  \E entry \in Access : Wider(f, entry) /\ Change(f, entry, stage)
  <2> DEFINE entry == [access[f] EXCEPT !.about = about]
  <2>1. Owns(r, f) /\ access[f] # None /\ access[f] \in Access /\ Sound(access[f])
    BY <1>1, <1>4 DEF SetDescription
  <2>2. entry \in Access /\ Wider(f, entry)
    BY <2>1 DEF Access, Wider, Sound
  <2>3. Change(f, entry, stage)
    BY <1>4 DEF SetDescription
  <2> QED
    BY <2>2, <2>3
<1> QED
  BY <1>2, <1>3, <1>4

\* One case per action; those that change the access to a file are one.
LEMMA Cases ==
  ASSUME IInv, Next
  PROVE  \/ \E r \in Rep, n \in Name, c \in Content, about \in About, stage \in Stage :
              Create(r, n, c, about, stage)
         \/ \E r \in Rep, f \in File, c \in Content, stage \in Stage : Write(r, f, c, stage)
         \/ \E f \in File, entry \in Access, stage \in Stage :
              Wider(f, entry) /\ Change(f, entry, stage)
         \/ \E r \in Rep, f \in File, others \in SUBSET Rep : AddOwnerRefused(r, f, others)
         \/ \E r \in Rep, f \in File, stage \in Stage : Submit(r, f, stage)
         \/ \E r \in Rep, s \in Series : \E version \in 1..Len(copies[s]) :
              SubmitCopy(r, s, version)
         \/ \E r \in Rep : PaperEnters(r) \/ PaperRefused(r)
         \/ Reopen
<1>1. ASSUME NEW r \in Rep, FileTool(r)
      PROVE  \/ \E n \in Name, c \in Content, about \in About, stage \in Stage :
                  Create(r, n, c, about, stage)
             \/ \E f \in File, c \in Content, stage \in Stage : Write(r, f, c, stage)
             \/ \E f \in File, entry \in Access, stage \in Stage :
                  Wider(f, entry) /\ Change(f, entry, stage)
             \/ \E f \in File, others \in SUBSET Rep : AddOwnerRefused(r, f, others)
  <2>1. CASE \E f \in File, stage \in Stage :
               \/ \E others \in SUBSET Rep :
                    AddScope(r, f, others, stage) \/ AddOwner(r, f, others, stage)
               \/ \E about \in About : SetDescription(r, f, about, stage)
    BY <2>1, Changes
  <2> QED
    BY <1>1, <2>1 DEF FileTool
<1> QED
  BY <1>1 DEF Next, PaperTool

\* What the manifest lists after an operation.
LEMMA Saved ==
  ASSUME TypeOK, NEW stage \in Stage, SaveManifest(stage),
         access' \in [File -> Access \cup {None}], copies' \in [Series -> Seq(Content)]
  PROVE  /\ manifest' \in [files : [File -> Access \cup {None}], copies : [Series -> Nat]]
         /\ stage # "no" => manifest' = manifest
         /\ stage = "no" => /\ manifest'.files = access'
                            /\ \A s \in Series : manifest'.copies[s] = Len(copies'[s])
<1>1. CASE stage # "no"
  BY <1>1 DEF SaveManifest, TypeOK
<1>2. CASE stage = "no"
  <2>1. \A s \in Series : Len(copies'[s]) \in Nat
    OBVIOUS
  <2> QED
    BY <1>2, <2>1 DEF SaveManifest
<1> QED
  BY <1>1, <1>2

\* What is owed after an answer.
LEMMA Owed ==
  ASSUME TypeOK, NEW stage \in Stage, NEW f \in File, access'[f] \in Access,
         (\E c \in Content : Owe(stage, f, c)) \/ OweAccess(stage, f)
  PROVE  owed' \in [File -> [contents : SUBSET Content, abouts : SUBSET About,
                            access : Access \cup {None}]]
<1> DEFINE Due == [contents : SUBSET Content, abouts : SUBSET About,
                   access : Access \cup {None}]
<1>1. access'[f].about \in About
  BY DEF Access
<1>2. owed \in [File -> Due] /\ owed[f] \in Due
  BY DEF TypeOK
<1>3. \E due \in Due : owed' = [owed EXCEPT ![f] = due]
  <2>1. ASSUME NEW c \in Content, Owe(stage, f, c), stage = "no"
        PROVE  \E due \in Due : owed' = [owed EXCEPT ![f] = due]
    <3>1. [contents |-> {c}, abouts |-> {access'[f].about}, access |-> access'[f]] \in Due
      BY <1>1
    <3> QED
      BY <2>1, <3>1 DEF Owe
  <2>2. ASSUME NEW c \in Content, Owe(stage, f, c), stage # "no"
        PROVE  \E due \in Due : owed' = [owed EXCEPT ![f] = due]
    <3>1. [owed[f] EXCEPT !.contents = @ \cup {c}] \in Due
      BY <1>2
    <3> QED
      BY <2>2, <3>1 DEF Owe
  <2>3. CASE OweAccess(stage, f) /\ stage = "no"
    <3>1. [owed[f] EXCEPT !.abouts = {access'[f].about}, !.access = access'[f]] \in Due
      BY <1>1, <1>2
    <3> QED
      BY <2>3, <3>1 DEF OweAccess
  <2>4. CASE OweAccess(stage, f) /\ stage # "no"
    <3>1. [owed[f] EXCEPT !.abouts = @ \cup {access'[f].about}] \in Due
      BY <1>1, <1>2
    <3> QED
      BY <2>4, <3>1 DEF OweAccess
  <2> QED
    BY <2>1, <2>2, <2>3, <2>4
<1> HIDE DEF Due
<1> QED
  BY <1>2, <1>3 DEF Due

\* What a copy that is submitted finds: the one before is the last on disk, too.
LEMMA Submitted ==
  ASSUME IInv, NEW r \in Rep, NEW f \in File, Submittable(r, f)
  PROVE  /\ SeriesOf(r, f) \in Series
         /\ access[f] # None /\ content[f] \in Content
         /\ diskCopies[SeriesOf(r, f)] = copies[SeriesOf(r, f)]
         /\ NextVersion(SeriesOf(r, f)) = Len(copies[SeriesOf(r, f)]) + 1
         /\ copies[SeriesOf(r, f)] # <<>> => Last(copies[SeriesOf(r, f)]) # content[f]
<1> DEFINE s == SeriesOf(r, f)
<1>1. s \in Series
  BY FileStoreAssumption DEF SeriesOf, Series
<1>2. access[f] # None /\ content[f] \in Content
  BY DEF Submittable, Owns, Sees, IInv, TypeOK, Listed
<1>3. copies[s] \in Seq(Content) /\ diskCopies[s] \in Seq(Content)
  BY <1>1 DEF IInv, TypeOK
<1>4. IsPrefix(copies[s], diskCopies[s])
  BY <1>1 DEF IInv, Filed, VersionsGrow
<1>5. Len(copies[s]) <= Len(diskCopies[s])
  BY <1>4 DEF IsPrefix
<1>6. Len(diskCopies[s]) <= Len(Found(s))
  <2>1. Len(Found(s)) \in Nat /\ Len(diskCopies[s]) \in Nat
    BY <1>3 DEF Found
  <2> QED
    BY <2>1 DEF Submittable, NextVersion
<1>7. Found(s) = copies[s]
  <2>1. CASE Found(s) = <<>>
    BY <1>3, <1>5, <1>6, <2>1
  <2> QED
    BY <2>1 DEF Found
<1>8. diskCopies[s] = copies[s]
  BY <1>3, <1>4, <1>6, <1>7, PrefixFull
<1> QED
  BY <1>1, <1>2, <1>7, <1>8 DEF Submittable, NextVersion

\* A directory that is opened again has the copies that were registered.
LEMMA ReopenCopies ==
  ASSUME IInv, Reopen, NEW s \in Series
  PROVE  copies'[s] = copies[s]
<1>1. /\ copies[s] \in Seq(Content) /\ diskCopies[s] \in Seq(Content)
      /\ IsPrefix(copies[s], diskCopies[s])
      /\ manifest.copies[s] = Len(copies[s])
  BY DEF IInv, TypeOK, Filed, VersionsGrow
<1> QED
  BY <1>1, PrefixCut DEF Reopen

-----------------------------------------------------------------------------
(* The invariant.                                                          *)

LEMMA InitInv == Init => IInv
<1> SUFFICES ASSUME Init
             PROVE  IInv
  OBVIOUS
<1>1. TypeOK
  BY FileStoreAssumption DEF Init, TypeOK
<1>2. Listed /\ AnswersHold
  BY DEF Init, Listed, AnswersHold
<1>3. /\ IsPrefix(<<>>, <<>>) /\ Len(<<>>) = 0
      /\ \A s \in Series : copies[s] = <<>> /\ diskCopies[s] = <<>>
  BY DEF Init, IsPrefix
<1>4. Filed
  BY <1>3 DEF Init, Filed, VersionsGrow, PapersOnFile
<1>5. Continued
  BY <1>3 DEF Init, Continued
<1> QED
  BY <1>1, <1>2, <1>4, <1>5 DEF IInv

LEMMA TypeStep ==
  ASSUME IInv, Next
  PROVE  TypeOK'
<1> USE FileStoreAssumption DEF TypeOK
<1>0. TypeOK
  BY DEF IInv
<1>f. ASSUME NEW stage \in Stage, Fails(stage)
      PROVE  faults' \in 0..MaxFaults
  BY <1>0, <1>f DEF Fails
<1>1. ASSUME NEW r \in Rep, NEW n \in Name, NEW c \in Content, NEW about \in About,
             NEW stage \in Stage, Create(r, n, c, about, stage)
      PROVE  TypeOK'
  <2> DEFINE f == <<r, n>>
             entry == [owners |-> {r}, scope |-> {r}, about |-> about]
  <2>1. f \in File /\ entry \in Access
    BY DEF File, Access
  <2>2. /\ content' \in [File -> Content \cup {None}]
        /\ access' \in [File -> Access \cup {None}]
        /\ copies' \in [Series -> Seq(Content)]
    <3>1. CASE stage = "no"
      <4>1. /\ content' = [content EXCEPT ![f] = c]
            /\ access' = [access EXCEPT ![f] = entry]
            /\ copies' = copies
        BY <1>1, <3>1 DEF Create
      <4> HIDE DEF f, entry
      <4> QED
        BY <1>0, <2>1, <4>1
    <3>2. CASE stage # "no"
      BY <1>0, <1>1, <3>2 DEF Create
    <3> QED
      BY <3>1, <3>2
  <2>3. manifest' \in [files : [File -> Access \cup {None}], copies : [Series -> Nat]]
    BY <1>0, <1>1, <2>2, Saved DEF Create
  <2>4. disk' \in [File -> Content \cup {None}]
    BY <1>0, <1>1, <2>1 DEF Create, WriteContent
  <2>5. owed' \in [File -> [contents : SUBSET Content, abouts : SUBSET About,
                            access : Access \cup {None}]]
    <3>1. CASE stage = "no"
      <4>1. access'[f] = entry /\ Owe(stage, f, c)
        BY <1>0, <1>1, <2>1, <3>1 DEF Create
      <4> HIDE DEF f, entry, TypeOK
      <4> QED
        BY <1>0, <2>1, <4>1, Owed
    <3>2. CASE stage # "no"
      BY <1>0, <1>1, <3>2 DEF Create
    <3> QED
      BY <3>1, <3>2
  <2> QED
    BY <1>0, <1>1, <1>f, <2>2, <2>3, <2>4, <2>5 DEF Create
<1>2. ASSUME NEW r \in Rep, NEW f \in File, NEW c \in Content, NEW stage \in Stage,
             Write(r, f, c, stage)
      PROVE  TypeOK'
  <2>1. access[f] \in Access
    BY <1>0, <1>2 DEF Write, Owns, Sees
  <2>2. manifest' \in [files : [File -> Access \cup {None}], copies : [Series -> Nat]]
    BY <1>0, <1>2, Saved DEF Write
  <2>3. owed' \in [File -> [contents : SUBSET Content, abouts : SUBSET About,
                            access : Access \cup {None}]]
    BY <1>0, <1>2, <2>1, Owed DEF Write
  <2> QED
    BY <1>0, <1>2, <1>f, <2>2, <2>3 DEF Write, WriteContent
<1>3. ASSUME NEW f \in File, NEW entry \in Access, NEW stage \in Stage,
             Change(f, entry, stage)
      PROVE  TypeOK'
  <2>1. access' \in [File -> Access \cup {None}] /\ access'[f] = entry
    BY <1>0, <1>3 DEF Change
  <2>2. manifest' \in [files : [File -> Access \cup {None}], copies : [Series -> Nat]]
    BY <1>0, <1>3, <2>1, Saved DEF Change
  <2>3. owed' \in [File -> [contents : SUBSET Content, abouts : SUBSET About,
                            access : Access \cup {None}]]
    BY <1>0, <1>3, <2>1, Owed DEF Change
  <2> QED
    BY <1>0, <1>3, <1>f, <2>1, <2>2, <2>3 DEF Change
<1>4. ASSUME NEW r \in Rep, NEW f \in File, NEW others \in SUBSET Rep,
             AddOwnerRefused(r, f, others)
      PROVE  TypeOK'
  <2>1. access[f] \in Access
    BY <1>0, <1>4 DEF AddOwnerRefused, Owns, Sees
  <2>2. PICK some \in SUBSET Rep : access' = [access EXCEPT ![f].owners = @ \cup some]
    BY <1>4 DEF AddOwnerRefused
  <2>3. access' \in [File -> Access \cup {None}]
    BY <1>0, <2>1, <2>2 DEF Access
  <2> QED
    BY <1>0, <1>4, <2>3 DEF AddOwnerRefused, ondisk
<1>5. ASSUME NEW r \in Rep, NEW f \in File, NEW stage \in Stage, Submit(r, f, stage)
      PROVE  TypeOK'
  <2> DEFINE s == SeriesOf(r, f)
  <2>1. s \in Series /\ content[f] \in Content /\ NextVersion(s) \in Nat \ {0}
    BY <1>0, <1>5, Submitted DEF Submit
  <2>2. copies' \in [Series -> Seq(Content)] /\ diskCopies' \in [Series -> Seq(Content)]
    BY <1>0, <1>5, <2>1 DEF Submit, Register
  <2>3. manifest' \in [files : [File -> Access \cup {None}], copies : [Series -> Nat]]
    BY <1>0, <1>5, <2>2, Saved DEF Submit
  <2>4. doing' \in [Rep -> [series : Series, version : Nat \ {0}] \cup {None}]
    BY <1>0, <1>5, <2>1 DEF Submit
  <2> QED
    BY <1>0, <1>5, <1>f, <2>2, <2>3, <2>4 DEF Submit
<1>6. ASSUME NEW r \in Rep, NEW s \in Series, NEW version \in 1..Len(copies[s]),
             SubmitCopy(r, s, version)
      PROVE  TypeOK'
  <2>1. [series |-> s, version |-> version] \in [series : Series, version : Nat \ {0}]
    BY <1>6
  <2>2. doing' \in [Rep -> [series : Series, version : Nat \ {0}] \cup {None}]
    BY <1>0, <1>6, <2>1 DEF SubmitCopy
  <2> QED
    BY <1>0, <1>6, <2>2 DEF SubmitCopy, memory, ondisk
<1>7. ASSUME NEW r \in Rep, PaperEnters(r)
      PROVE  TypeOK'
  <2>1. /\ doing[r] \in [series : Series, version : Nat \ {0}]
        /\ doing[r].version <= Len(copies[doing[r].series])
    BY <1>0, <1>7 DEF PaperEnters, IInv, Filed
  <2>2. copies[doing[r].series][doing[r].version] \in Content
    <3>1. \A s \in Series : \A i \in 1..Len(copies[s]) : copies[s][i] \in Content
      BY <1>0
    <3>2. \A s \in Series : Len(copies[s]) \in Nat
      BY <1>0
    <3> QED
      BY <2>1, <3>1, <3>2
  <2> QED
    BY <1>0, <1>7, <2>1, <2>2 DEF PaperEnters, memory, ondisk
<1>8. ASSUME NEW r \in Rep, PaperRefused(r)
      PROVE  TypeOK'
  BY <1>0, <1>8 DEF PaperRefused, memory, ondisk
<1>9. ASSUME Reopen
      PROVE  TypeOK'
  <2>1. content' \in [File -> Content \cup {None}] /\ access' \in [File -> Access \cup {None}]
    BY <1>0, <1>9 DEF Reopen
  <2>2. \A s \in Series : copies'[s] \in Seq(Content)
    BY <1>0, <1>9, ReopenCopies
  <2>3. copies' \in [Series -> Seq(Content)]
    BY <1>9, <2>2 DEF Reopen
  <2> QED
    BY <1>0, <1>9, <2>1, <2>3 DEF Reopen, ondisk
<1> QED
  BY Cases, <1>1, <1>2, <1>3, <1>4, <1>5, <1>6, <1>7, <1>8, <1>9

\* What the memory, the manifest and the working files have in common.
LEMMA FilesStep ==
  ASSUME IInv, Next
  PROVE  Listed' /\ AnswersHold'
<1>0. TypeOK /\ Listed /\ AnswersHold
  BY DEF IInv
<1>t. TypeOK'
  BY TypeStep
<1>n. None \notin Content /\ None \notin Access
  BY FileStoreAssumption
<1>s. ASSUME NEW stage \in Stage, SaveManifest(stage)
      PROVE  manifest'.files = manifest.files \/ manifest'.files = access'
  BY <1>0, <1>t, <1>s, Saved DEF TypeOK
<1>1. ASSUME NEW r \in Rep, NEW n \in Name, NEW c \in Content, NEW about \in About,
             NEW stage \in Stage, Create(r, n, c, about, stage)
      PROVE  Listed' /\ AnswersHold'
  <2> DEFINE f == <<r, n>>
             entry == [owners |-> {r}, scope |-> {r}, about |-> about]
  <2>1. f \in File /\ entry \in Access /\ access[f] = None
    BY <1>1 DEF File, Access, Create
  <2>2. CASE stage # "no"
    <3>1. access' = access /\ content' = content /\ manifest' = manifest /\ owed' = owed
      BY <1>1, <2>2 DEF Create, SaveManifest
    <3>2. \A g \in File : access[g] # None => disk'[g] = disk[g]
      BY <1>0, <1>1, <2>1 DEF Create, WriteContent, TypeOK
    <3> QED
      BY <1>0, <3>1, <3>2 DEF Listed, AnswersHold
  <2>3. CASE stage = "no"
    <3>1. /\ content' = [content EXCEPT ![f] = c]
          /\ access' = [access EXCEPT ![f] = entry]
          /\ disk' = [disk EXCEPT ![f] = c]
          /\ owed' = [owed EXCEPT ![f] = [contents |-> {c}, abouts |-> {access'[f].about},
                                          access |-> access'[f]]]
      BY <1>1, <2>3 DEF Create, WriteContent, Owe
    <3>2. manifest'.files = access'
      BY <1>0, <1>1, <1>t, <2>3, Saved DEF Create, TypeOK
    <3>3. /\ content'[f] = c /\ access'[f] = entry /\ disk'[f] = c
          /\ owed'[f] = [contents |-> {c}, abouts |-> {about}, access |-> entry]
      BY <1>0, <2>1, <3>1 DEF TypeOK
    <3>4. \A g \in File : g # f => /\ content'[g] = content[g] /\ access'[g] = access[g]
                                   /\ disk'[g] = disk[g] /\ owed'[g] = owed[g]
      BY <1>0, <2>1, <3>1 DEF TypeOK
    <3>5. ASSUME NEW g \in File
          PROVE  /\ manifest'.files[g] # None <=> access'[g] # None
                 /\ owed'[g].access # None <=> access'[g] # None
                 /\ access'[g] # None =>
                      /\ content'[g] # None
                      /\ disk'[g] # None
                      /\ Sound(access'[g])
                      /\ Sound(manifest'.files[g])
      <4>1. CASE g = f
        <5>1. entry # None /\ c # None /\ Sound(entry)
          BY <1>n, <2>1 DEF Sound
        <5>2. owed'[f].access = entry
          BY <3>3
        <5> HIDE DEF entry, f
        <5> QED
          BY <3>2, <3>3, <4>1, <5>1, <5>2
      <4>2. CASE g # f
        BY <1>0, <3>2, <3>4, <4>2 DEF Listed
      <4> QED
        BY <4>1, <4>2
    <3>51. Listed'
      BY <3>5 DEF Listed
    <3>6. AnswersHold'
      BY <1>0, <2>1, <3>2, <3>3, <3>4 DEF AnswersHold, Covers
    <3> QED
      BY <3>51, <3>6
  <2> QED
    BY <2>2, <2>3
<1>2. ASSUME NEW r \in Rep, NEW f \in File, NEW c \in Content, NEW stage \in Stage,
             Write(r, f, c, stage)
      PROVE  Listed' /\ AnswersHold'
  <2>1. access[f] # None /\ access[f] \in Access
    BY <1>0, <1>2 DEF Write, Owns, Sees, TypeOK
  <2>2. /\ access' = access
        /\ content' = [content EXCEPT ![f] = c]
        /\ manifest'.files = manifest.files \/ manifest'.files = access
    BY <1>2, <1>s DEF Write
  <2>3. \A g \in File : g # f => /\ content'[g] = content[g] /\ disk'[g] = disk[g]
                                 /\ owed'[g] = owed[g]
    BY <1>0, <1>2 DEF Write, WriteContent, Owe, TypeOK
  <2>4. content'[f] # None /\ disk'[f] # None
    BY <1>0, <1>n, <2>1, <1>2 DEF Write, WriteContent, TypeOK, Listed
  <2>5. CASE stage = "no"
    <3>1. manifest'.files = access
      BY <1>0, <1>2, <1>t, <2>2, <2>5, Saved DEF Write, TypeOK
    <3>2. owed'[f] = [contents |-> {c}, abouts |-> {access[f].about}, access |-> access[f]]
      BY <1>0, <1>2, <2>2, <2>5 DEF Write, Owe, TypeOK
    <3>3. disk'[f] = c
      BY <1>0, <1>2, <2>5 DEF Write, WriteContent, TypeOK
    <3>4. Listed'
      BY <1>0, <2>1, <2>2, <2>3, <2>4, <3>1, <3>2 DEF Listed
    <3>5. AnswersHold'
      BY <1>0, <2>1, <2>2, <2>3, <3>1, <3>2, <3>3 DEF AnswersHold, Covers
    <3> QED
      BY <3>4, <3>5
  <2>6. CASE stage # "no"
    <3>1. manifest'.files = manifest.files
      BY <1>2, <2>6 DEF Write, SaveManifest
    <3>2. owed'[f] = [owed[f] EXCEPT !.contents = @ \cup {c}]
      BY <1>0, <1>2, <2>6 DEF Write, Owe, TypeOK
    <3>3. /\ owed'[f].contents = owed[f].contents \cup {c}
          /\ owed'[f].abouts = owed[f].abouts
          /\ owed'[f].access = owed[f].access
      BY <1>0, <3>2 DEF TypeOK
    <3>4. disk'[f] \in {c, disk[f]}
      BY <1>0, <1>2 DEF Write, WriteContent, TypeOK
    <3>5. Listed'
      BY <1>0, <2>1, <2>2, <2>3, <2>4, <3>1, <3>3 DEF Listed
    <3>6. AnswersHold'
      BY <1>0, <2>1, <2>2, <2>3, <3>1, <3>3, <3>4 DEF AnswersHold, Covers
    <3> QED
      BY <3>5, <3>6
  <2> QED
    BY <2>5, <2>6
<1>3. ASSUME NEW f \in File, NEW entry \in Access, NEW stage \in Stage,
             Wider(f, entry), Change(f, entry, stage)
      PROVE  Listed' /\ AnswersHold'
  <2>1. access[f] # None /\ entry # None
    BY <1>3, <1>n DEF Wider
  <2>2. /\ access'[f] = entry
        /\ content' = content /\ disk' = disk
        /\ \A g \in File : g # f => access'[g] = access[g] /\ owed'[g] = owed[g]
    BY <1>0, <1>3 DEF Change, OweAccess, TypeOK
  <2>3. CASE stage = "no"
    <3>1. manifest'.files = access'
      BY <1>0, <1>3, <1>t, <2>3, Saved DEF Change, TypeOK
    <3>2. /\ owed'[f].contents = owed[f].contents
          /\ owed'[f].abouts = {entry.about}
          /\ owed'[f].access = entry
      BY <1>0, <1>3, <2>2, <2>3 DEF Change, OweAccess, TypeOK
    <3>3. Listed'
      BY <1>0, <1>3, <2>1, <2>2, <3>1, <3>2 DEF Listed, Wider
    <3>4. AnswersHold'
      BY <1>0, <2>1, <2>2, <3>1, <3>2 DEF AnswersHold, Covers
    <3> QED
      BY <3>3, <3>4
  <2>4. CASE stage # "no"
    <3>1. manifest' = manifest
      BY <1>3, <2>4 DEF Change, SaveManifest
    <3>2. /\ owed'[f].contents = owed[f].contents
          /\ owed'[f].abouts = owed[f].abouts \cup {entry.about}
          /\ owed'[f].access = owed[f].access
      BY <1>0, <1>3, <2>2, <2>4 DEF Change, OweAccess, TypeOK
    <3>3. Listed'
      BY <1>0, <1>3, <2>1, <2>2, <3>1, <3>2 DEF Listed, Wider
    <3>4. AnswersHold'
      BY <1>0, <1>3, <2>1, <2>2, <3>1, <3>2 DEF AnswersHold, Covers, Wider
    <3> QED
      BY <3>3, <3>4
  <2> QED
    BY <2>3, <2>4
<1>4. ASSUME NEW r \in Rep, NEW f \in File, NEW others \in SUBSET Rep,
             AddOwnerRefused(r, f, others)
      PROVE  Listed' /\ AnswersHold'
  <2>1. access[f] # None /\ access[f] \in Access
    BY <1>0, <1>4 DEF AddOwnerRefused, Owns, Sees, TypeOK
  <2>2. PICK some \in SUBSET access[f].scope :
               access' = [access EXCEPT ![f].owners = @ \cup some]
    BY <1>4 DEF AddOwnerRefused
  <2>3. /\ content' = content /\ disk' = disk /\ manifest' = manifest /\ owed' = owed
        /\ \A g \in File : g # f => access'[g] = access[g]
    BY <1>0, <1>4, <2>2 DEF AddOwnerRefused, ondisk, TypeOK
  <2>4. /\ access'[f] \in Access
        /\ access'[f].owners = access[f].owners \cup some
        /\ access'[f].scope = access[f].scope
        /\ access'[f].about = access[f].about
    BY <1>0, <2>1, <2>2 DEF TypeOK, Access
  <2>5. access'[f] # None
    BY <1>n, <2>4
  <2>6. Listed'
    BY <1>0, <2>1, <2>3, <2>4, <2>5 DEF Listed, Sound
  <2>7. AnswersHold'
    BY <1>0, <2>1, <2>3, <2>4 DEF AnswersHold, Covers
  <2> QED
    BY <2>6, <2>7
<1>5. ASSUME NEW r \in Rep, NEW f \in File, NEW stage \in Stage, Submit(r, f, stage)
      PROVE  Listed' /\ AnswersHold'
  <2>1. /\ access' = access /\ content' = content /\ disk' = disk /\ owed' = owed
        /\ manifest'.files = manifest.files \/ manifest'.files = access
    BY <1>5, <1>s DEF Submit
  <2> QED
    BY <1>0, <2>1 DEF Listed, AnswersHold
<1>6. ASSUME UNCHANGED <<memory, ondisk, owed>>
      PROVE  Listed' /\ AnswersHold'
  BY <1>0, <1>6 DEF Listed, AnswersHold, memory, ondisk
<1>7. ASSUME Reopen
      PROVE  Listed' /\ AnswersHold'
  <2>1. /\ access' = manifest.files
        /\ disk' = disk /\ manifest' = manifest /\ owed' = owed
        /\ \A f \in File : content'[f] = IF manifest.files[f] = None THEN None ELSE disk[f]
    BY <1>7 DEF Reopen, ondisk
  <2> QED
    BY <1>0, <2>1 DEF Listed, AnswersHold
<1> QED
  BY Cases, <1>1, <1>2, <1>3, <1>4, <1>5, <1>6, <1>7
     DEF SubmitCopy, PaperEnters, PaperRefused

\* What a submission does to the copies.
LEMMA SubmitCopies ==
  ASSUME IInv, NEW r \in Rep, NEW f \in File, NEW stage \in Stage, Submit(r, f, stage),
         NEW s \in Series
  PROVE  /\ IsPrefix(copies[s], copies'[s])
         /\ IsPrefix(copies'[s], diskCopies'[s])
         /\ Len(diskCopies'[s]) <= Len(copies'[s]) + 1
         /\ \A i \in 2..Len(copies'[s]) : copies'[s][i] # copies'[s][i - 1]
         /\ stage # "no" => copies' = copies
         /\ stage = "no" /\ s = SeriesOf(r, f) => Len(copies'[s]) = NextVersion(s)
<1> DEFINE c == content[f]
<1>1. /\ copies[s] \in Seq(Content) /\ diskCopies[s] \in Seq(Content)
      /\ IsPrefix(copies[s], diskCopies[s])
      /\ Len(diskCopies[s]) <= Len(copies[s]) + 1
      /\ \A i \in 2..Len(copies[s]) : copies[s][i] # copies[s][i - 1]
  BY DEF IInv, TypeOK, Filed, VersionsGrow
<1>2. IsPrefix(copies[s], copies[s])
  BY <1>1, PrefixSame
<1>3. CASE s # SeriesOf(r, f)
  <2>1. copies'[s] = copies[s] /\ diskCopies'[s] = diskCopies[s] /\ (stage # "no" => copies' = copies)
    BY <1>3 DEF Submit, Register, IInv, TypeOK
  <2> QED
    BY <1>1, <1>2, <1>3, <2>1
<1>4. CASE s = SeriesOf(r, f)
  <2>1. /\ c \in Content
        /\ diskCopies[s] = copies[s]
        /\ NextVersion(s) = Len(copies[s]) + 1
        /\ copies[s] # <<>> => copies[s][Len(copies[s])] # c
    BY <1>4, Submitted DEF Submit, Last
  <2>2. /\ copies'[s] = IF stage # "no" THEN copies[s] ELSE Append(copies[s], c)
        /\ diskCopies'[s] = IF stage = "content" THEN copies[s] ELSE Append(copies[s], c)
        /\ stage # "no" => copies' = copies
    BY <1>4, <2>1 DEF Submit, Register, IInv, TypeOK
  <2> DEFINE longer == Append(copies[s], c)
  <2>3. /\ longer \in Seq(Content) /\ Len(longer) = Len(copies[s]) + 1
        /\ longer[Len(copies[s]) + 1] = c
        /\ \A i \in 1..Len(copies[s]) : longer[i] = copies[s][i]
    BY <1>1, <2>1
  <2>4. IsPrefix(copies[s], longer) /\ IsPrefix(longer, longer)
    BY <1>1, <1>2, <2>1, <2>3, PrefixAppend, PrefixSame
  <2>5. \A i \in 2..Len(longer) : longer[i] # longer[i - 1]
    <3> SUFFICES ASSUME NEW i \in 2..Len(longer)
                 PROVE  longer[i] # longer[i - 1]
      OBVIOUS
    <3>1. Len(copies[s]) \in Nat /\ i - 1 \in 1..Len(copies[s]) /\ longer[i - 1] = copies[s][i - 1]
      BY <1>1, <2>3
    <3>2. CASE i = Len(copies[s]) + 1
      <4>1. i - 1 = Len(copies[s]) /\ copies[s] # <<>>
        BY <1>1, <3>1, <3>2
      <4> QED
        BY <2>1, <2>3, <3>1, <3>2, <4>1
    <3>3. CASE i # Len(copies[s]) + 1
      <4>1. i \in 2..Len(copies[s]) /\ longer[i] = copies[s][i]
        BY <1>1, <2>3, <3>1, <3>3
      <4> QED
        BY <1>1, <3>1, <4>1
    <3> QED
      BY <3>2, <3>3
  <2> HIDE DEF longer
  <2> QED
    BY <1>1, <1>2, <2>1, <2>2, <2>3, <2>4, <2>5 DEF Stage, longer
<1> QED
  BY <1>3, <1>4

LEMMA FiledStep ==
  ASSUME IInv, Next
  PROVE  Filed'
<1>0. TypeOK /\ Filed
  BY DEF IInv
<1>t. TypeOK'
  BY TypeStep
<1>s. ASSUME NEW stage \in Stage, SaveManifest(stage), copies' = copies
      PROVE  \A s \in Series : manifest'.copies[s] = Len(copies'[s])
  <2>1. /\ stage # "no" => manifest' = manifest
        /\ stage = "no" => \A s \in Series : manifest'.copies[s] = Len(copies'[s])
    BY <1>0, <1>s, <1>t, Saved DEF TypeOK
  <2> QED
    BY <1>0, <1>s, <2>1 DEF Filed
\* Whatever leaves the copies and the papers alone
<1>k. ASSUME UNCHANGED <<copies, diskCopies, doing, papers>>,
             \A s \in Series : manifest'.copies[s] = Len(copies'[s])
      PROVE  Filed'
  <2>1. \A p \in papers : p.version <= manifest'.copies[p.series]
    BY <1>0, <1>k DEF Filed, PapersOnFile, TypeOK
  <2> QED
    BY <1>0, <1>k, <2>1 DEF Filed, VersionsGrow, PapersOnFile
<1>1. ASSUME NEW r \in Rep, NEW n \in Name, NEW c \in Content, NEW about \in About,
             NEW stage \in Stage, Create(r, n, c, about, stage)
      PROVE  Filed'
  BY <1>1, <1>k, <1>s DEF Create
<1>2. ASSUME NEW r \in Rep, NEW f \in File, NEW c \in Content, NEW stage \in Stage,
             Write(r, f, c, stage)
      PROVE  Filed'
  BY <1>2, <1>k, <1>s DEF Write
<1>3. ASSUME NEW f \in File, NEW entry \in Access, NEW stage \in Stage,
             Change(f, entry, stage)
      PROVE  Filed'
  BY <1>3, <1>k, <1>s DEF Change
<1>4. ASSUME NEW r \in Rep, NEW f \in File, NEW others \in SUBSET Rep,
             AddOwnerRefused(r, f, others)
      PROVE  Filed'
  <2>1. \A s \in Series : manifest'.copies[s] = Len(copies'[s])
    BY <1>0, <1>4 DEF AddOwnerRefused, ondisk, Filed
  <2> QED
    BY <1>4, <1>k, <2>1 DEF AddOwnerRefused, ondisk
<1>5. ASSUME NEW r \in Rep, NEW f \in File, NEW stage \in Stage, Submit(r, f, stage)
      PROVE  Filed'
  <2>1. VersionsGrow'
    BY <1>5, SubmitCopies DEF VersionsGrow
  <2>2. \A s \in Series : /\ copies[s] \in Seq(Content) /\ copies'[s] \in Seq(Content)
                          /\ Len(copies[s]) <= Len(copies'[s])
                          /\ \A i \in 1..Len(copies[s]) : copies'[s][i] = copies[s][i]
    BY <1>0, <1>t, <1>5, SubmitCopies, PrefixIs DEF TypeOK
  <2>3. \A s \in Series : manifest'.copies[s] = Len(copies'[s])
    <3>1. CASE stage = "no"
      BY <1>0, <1>5, <1>t, <3>1, Saved DEF Submit, TypeOK
    <3>2. CASE stage # "no"
      BY <1>0, <1>5, <1>s, <3>2, SubmitCopies DEF Submit, Register
    <3> QED
      BY <3>1, <3>2
  <2>4. ASSUME NEW q \in Rep, doing'[q] # None
        PROVE  doing'[q].version <= Len(copies'[doing'[q].series])
    <3>1. CASE q = r /\ stage = "no"
      <4>1. doing'[q] = [series |-> SeriesOf(r, f), version |-> NextVersion(SeriesOf(r, f))]
        BY <1>0, <1>5, <3>1 DEF Submit, TypeOK
      <4>2. SeriesOf(r, f) \in Series
        BY <1>5, Submitted DEF Submit
      <4>3. Len(copies'[SeriesOf(r, f)]) = NextVersion(SeriesOf(r, f))
        BY <1>5, <3>1, <4>2, SubmitCopies
      <4>4. NextVersion(SeriesOf(r, f)) \in Nat
        BY <1>t, <4>2, <4>3 DEF TypeOK
      <4> QED
        BY <4>1, <4>3, <4>4
    <3>2. CASE ~(q = r /\ stage = "no")
      <4>1. doing'[q] = doing[q]
        BY <1>0, <1>5, <3>2 DEF Submit, TypeOK
      <4>2. doing[q] \in [series : Series, version : Nat \ {0}]
        BY <1>0, <2>4, <4>1 DEF TypeOK
      <4>3. doing[q].version <= Len(copies[doing[q].series])
        BY <1>0, <2>4, <4>1 DEF Filed
      <4>4. Len(copies[doing[q].series]) <= Len(copies'[doing[q].series])
            /\ Len(copies[doing[q].series]) \in Nat /\ Len(copies'[doing[q].series]) \in Nat
        BY <2>2, <4>2
      <4> QED
        BY <4>1, <4>2, <4>3, <4>4
    <3> QED
      BY <3>1, <3>2
  <2>5. PapersOnFile'
    <3> SUFFICES ASSUME NEW p \in papers
                 PROVE  /\ p.version <= Len(copies'[p.series])
                        /\ copies'[p.series][p.version] = p.content
                        /\ p.version <= manifest'.copies[p.series]
      BY <1>5 DEF Submit, PapersOnFile
    <3>1. p \in [series : Series, version : Nat \ {0}, content : Content]
      BY <1>0 DEF TypeOK
    <3>2. p.version <= Len(copies[p.series]) /\ copies[p.series][p.version] = p.content
      BY <1>0 DEF Filed, PapersOnFile
    <3>3. Len(copies[p.series]) \in Nat /\ Len(copies'[p.series]) \in Nat
      BY <2>2, <3>1
    <3>4. p.version \in 1..Len(copies[p.series])
      BY <3>1, <3>2, <3>3
    <3> QED
      BY <2>2, <2>3, <3>1, <3>2, <3>3, <3>4
  <2> QED
    BY <2>1, <2>3, <2>4, <2>5 DEF Filed
<1>6. ASSUME NEW r \in Rep, NEW s \in Series, NEW version \in 1..Len(copies[s]),
             SubmitCopy(r, s, version)
      PROVE  Filed'
  <2>1. UNCHANGED <<copies, diskCopies, manifest, papers>>
    BY <1>6 DEF SubmitCopy, memory, ondisk
  <2>2. \A q \in Rep : doing'[q] # None => doing'[q].version <= Len(copies[doing'[q].series])
    <3>1. doing'[r] = [series |-> s, version |-> version] /\ \A q \in Rep \ {r} : doing'[q] = doing[q]
      BY <1>0, <1>6 DEF SubmitCopy, TypeOK
    <3> QED
      BY <1>0, <3>1 DEF Filed
  <2> QED
    BY <1>0, <2>1, <2>2 DEF Filed, VersionsGrow, PapersOnFile
<1>7. ASSUME NEW r \in Rep, PaperEnters(r)
      PROVE  Filed'
  <2> DEFINE p == [series |-> doing[r].series, version |-> doing[r].version,
                   content |-> copies[doing[r].series][doing[r].version]]
  <2>1. /\ UNCHANGED <<copies, diskCopies, manifest>>
        /\ papers' = papers \cup {p}
    BY <1>7 DEF PaperEnters, memory, ondisk
  <2>2. /\ doing[r].version <= Len(copies[doing[r].series])
        /\ doing[r].series \in Series
    BY <1>0, <1>7 DEF PaperEnters, Filed, TypeOK
  <2>3. \A q \in Rep : doing'[q] = None \/ doing'[q] = doing[q]
    BY <1>0, <1>7 DEF PaperEnters, TypeOK
  <2>4. /\ p.version <= Len(copies[p.series])
        /\ copies[p.series][p.version] = p.content
        /\ p.version <= manifest.copies[p.series]
    BY <1>0, <2>2 DEF Filed
  <2> HIDE DEF p
  <2> QED
    BY <1>0, <2>1, <2>3, <2>4 DEF Filed, VersionsGrow, PapersOnFile
<1>8. ASSUME NEW r \in Rep, PaperRefused(r)
      PROVE  Filed'
  <2>1. UNCHANGED <<copies, diskCopies, manifest, papers>>
    BY <1>8 DEF PaperRefused, memory, ondisk
  <2>2. \A q \in Rep : doing'[q] = None \/ doing'[q] = doing[q]
    BY <1>0, <1>8 DEF PaperRefused, TypeOK
  <2> QED
    BY <1>0, <2>1, <2>2 DEF Filed, VersionsGrow, PapersOnFile
<1>9. ASSUME Reopen
      PROVE  Filed'
  <2>1. /\ UNCHANGED <<diskCopies, manifest>> /\ papers' = {}
        /\ \A r \in Rep : doing'[r] = None
    BY <1>9 DEF Reopen, ondisk
  <2>2. \A s \in Series : copies'[s] = copies[s]
    BY <1>9, ReopenCopies
  <2> QED
    BY <1>0, <2>1, <2>2 DEF Filed, VersionsGrow, PapersOnFile
<1> QED
  BY Cases, <1>1, <1>2, <1>3, <1>4, <1>5, <1>6, <1>7, <1>8, <1>9

LEMMA ContinuedStep ==
  ASSUME IInv, Next
  PROVE  Continued'
<1>0. TypeOK /\ TypeOK' /\ Continued
  BY TypeStep DEF IInv
<1>f. ASSUME NEW stage \in Stage, Fails(stage), faults' = 0
      PROVE  faults = 0 /\ stage = "no"
  BY <1>0, <1>f, FileStoreAssumption DEF Fails, TypeOK
\* Whatever leaves the copies alone
<1>k. ASSUME UNCHANGED <<copies, diskCopies>>, faults' = 0 => faults = 0
      PROVE  Continued'
  BY <1>0, <1>k DEF Continued
<1>1. ASSUME NEW r \in Rep, NEW n \in Name, NEW c \in Content, NEW about \in About,
             NEW stage \in Stage, Create(r, n, c, about, stage)
      PROVE  Continued'
  BY <1>1, <1>f, <1>k DEF Create
<1>2. ASSUME NEW r \in Rep, NEW f \in File, NEW c \in Content, NEW stage \in Stage,
             Write(r, f, c, stage)
      PROVE  Continued'
  BY <1>2, <1>f, <1>k DEF Write
<1>3. ASSUME NEW f \in File, NEW entry \in Access, NEW stage \in Stage,
             Change(f, entry, stage)
      PROVE  Continued'
  BY <1>3, <1>f, <1>k DEF Change
<1>4. ASSUME NEW r \in Rep, NEW f \in File, NEW others \in SUBSET Rep,
             AddOwnerRefused(r, f, others)
      PROVE  Continued'
  BY <1>4, <1>k DEF AddOwnerRefused, ondisk
<1>5. ASSUME NEW r \in Rep, NEW f \in File, NEW stage \in Stage, Submit(r, f, stage)
      PROVE  Continued'
  <2> DEFINE s == SeriesOf(r, f)
  <2>1. ASSUME faults' = 0
        PROVE  diskCopies' = copies'
    <3>1. faults = 0 /\ stage = "no"
      BY <1>5, <1>f, <2>1 DEF Submit
    <3> QED
      BY <1>0, <1>5, <3>1 DEF Continued, Submit, Register
  <2>2. ASSUME NEW q \in Series, q[2][2] \in Plussed
        PROVE  Len(copies'[q]) <= 1
    <3>1. CASE q = s /\ stage = "no"
      BY <1>5, <2>2, <3>1, SubmitCopies DEF NextVersion, Found
    <3>2. CASE ~(q = s /\ stage = "no")
      <4>1. copies'[q] = copies[q]
        BY <1>0, <1>5, <3>2 DEF Submit, Register, TypeOK
      <4> QED
        BY <1>0, <2>2, <4>1 DEF Continued
    <3> QED
      BY <3>1, <3>2
  <2> QED
    BY <2>1, <2>2 DEF Continued
<1>6. ASSUME NEW r \in Rep,
             \/ \E s \in Series : \E version \in 1..Len(copies[s]) : SubmitCopy(r, s, version)
             \/ PaperEnters(r)
             \/ PaperRefused(r)
      PROVE  Continued'
  BY <1>6, <1>k DEF SubmitCopy, PaperEnters, PaperRefused, memory, ondisk
<1>7. ASSUME Reopen
      PROVE  Continued'
  <2>1. copies' = copies
    BY <1>0, <1>7, ReopenCopies DEF TypeOK
  <2> QED
    BY <1>7, <1>k, <2>1 DEF Reopen, ondisk
<1> QED
  BY Cases, <1>1, <1>2, <1>3, <1>4, <1>5, <1>6, <1>7

LEMMA StepInv == IInv /\ [Next]_vars => IInv'
<1>1. ASSUME IInv, Next
      PROVE  IInv'
  BY <1>1, TypeStep, FilesStep, FiledStep, ContinuedStep DEF IInv
<1>2. ASSUME IInv, UNCHANGED vars
      PROVE  IInv'
  BY <1>2 DEF IInv, TypeOK, Listed, AnswersHold, Filed, VersionsGrow, PapersOnFile,
              Continued, vars, memory, ondisk
<1> QED
  BY <1>1, <1>2

-----------------------------------------------------------------------------
(* FileStore implements SharedFiles: what the actions do to the files as   *)
(* they are seen, and as they are kept.                                    *)

LEMMA SameNames == Shared!File = File /\ Shared!Series = Series /\ Shared!Access = Access
BY DEF Shared!File, File, Shared!Series, Series, Shared!Access, Access

LEMMA Entries ==
  ASSUME IInv, NEW f \in File
  PROVE  /\ Seen[f] = IF access[f] = None THEN None
                      ELSE [content |-> content[f], access |-> access[f]]
         /\ Kept[f] = IF access[f] = None THEN None
                      ELSE [content |-> disk[f], access |-> manifest.files[f]]
         /\ access[f] # None =>
              /\ content[f] \in Content /\ access[f] \in Access
              /\ Seen[f] # None /\ Seen[f] \in Shared!Entry
<1>1. /\ manifest.files[f] # None <=> access[f] # None
      /\ access[f] # None => content[f] \in Content /\ access[f] \in Access
  BY DEF IInv, Listed, TypeOK
<1>2. access[f] # None =>
        [content |-> content[f], access |-> access[f]] \in [content : Content, access : Access]
  BY <1>1
<1>3. None \notin [content : Content, access : Access]
  BY FileStoreAssumption
<1> QED
  BY <1>1, <1>2, <1>3, SameNames DEF Seen, Kept, Shared!Entry

\* One file has another entry.
LEMMA SeenAnew ==
  ASSUME NEW f \in File, access'[f] # None,
         \A g \in File : g # f => access'[g] = access[g] /\ content'[g] = content[g]
  PROVE  /\ Seen' = [Seen EXCEPT ![f] = [content |-> content'[f], access |-> access'[f]]]
         /\ Seen'[f] = [content |-> content'[f], access |-> access'[f]]
<1> DEFINE entry == [content |-> content'[f], access |-> access'[f]]
<1>1. Seen' = [g \in File |-> IF access'[g] = None THEN None
                              ELSE [content |-> content'[g], access |-> access'[g]]]
  BY DEF Seen
<1>2. /\ Seen'[f] = entry
      /\ \A g \in File : g # f => Seen'[g] = Seen[g]
  BY <1>1 DEF Seen
<1>3. [Seen EXCEPT ![f] = entry] = [g \in File |-> IF g = f THEN entry ELSE Seen[g]]
  BY DEF Seen
<1> HIDE DEF entry
<1>4. Seen' = [g \in File |-> IF g = f THEN entry ELSE Seen[g]]
  BY <1>1, <1>2
<1> QED
  BY <1>2, <1>3, <1>4 DEF entry

\* Memory is left alone.
LEMMA SeenSame ==
  ASSUME access' = access, content' = content
  PROVE  Seen' = Seen
BY DEF Seen

\* An answer with ok: the manifest lists every file as it is seen.
LEMMA KeptAsSeen ==
  ASSUME IInv, TypeOK', Listed', manifest'.files = access', NEW F \in SUBSET File,
         \A f \in F : access'[f] # None /\ disk'[f] = content'[f],
         \A f \in File \ F : access'[f] # None => access[f] # None /\ disk'[f] = disk[f]
  PROVE  Kept' = Shared!Filed(Seen', F)
<1>1. Kept' = [f \in File |-> IF access'[f] = None THEN None
                              ELSE [content |-> disk'[f], access |-> access'[f]]]
  BY DEF Kept
<1>2. Seen' = [f \in File |-> IF access'[f] = None THEN None
                              ELSE [content |-> content'[f], access |-> access'[f]]]
  BY DEF Seen
<1>3. ASSUME NEW f \in File
      PROVE  (IF access'[f] = None THEN None
              ELSE [content |-> disk'[f], access |-> access'[f]])
             = (IF f \in F \/ Seen'[f] = None THEN Seen'[f]
                ELSE [content |-> Kept[f].content, access |-> Seen'[f].access])
  <2>1. CASE access'[f] = None
    BY <1>2, <2>1
  <2>2. CASE access'[f] # None
    <3> DEFINE entry == [content |-> content'[f], access |-> access'[f]]
    <3>1. Seen'[f] = entry
      BY <1>2, <2>2
    <3>2. entry \in [content : Content, access : Access]
      BY <2>2 DEF TypeOK, Listed
    <3>3. entry # None
      BY <3>2, FileStoreAssumption
    <3>4. CASE f \in F
      BY <2>2, <3>1, <3>4
    <3>5. CASE f \notin F
      <4>1. access[f] # None /\ disk'[f] = disk[f]
        BY <2>2, <3>5
      <4>2. Kept[f] = [content |-> disk[f], access |-> manifest.files[f]]
        BY <4>1, Entries
      <4>20. Kept[f].content = disk[f]
        BY <4>2
      <4>3. Seen'[f] # None /\ Seen'[f].access = access'[f]
        BY <3>1, <3>3
      <4> QED
        BY <2>2, <3>5, <4>1, <4>20, <4>3
    <3> QED
      BY <3>4, <3>5
  <2> QED
    BY <2>1, <2>2
<1> QED
  BY <1>1, <1>3, SameNames DEF Shared!Filed

\* No answer with ok: the manifest is the one it was.
LEMMA KeptSame ==
  ASSUME IInv, manifest' = manifest,
         \A f \in File : access[f] # None => disk'[f] = disk[f]
  PROVE  Kept' = Kept
<1>1. \A f \in File : manifest.files[f] # None => disk'[f] = disk[f]
  BY DEF IInv, Listed
<1> QED
  BY <1>1 DEF Kept

LEMMA OwnerIs ==
  ASSUME IInv, NEW r \in Rep, NEW f \in File, Owns(r, f)
  PROVE  Shared!Owns(r, f) /\ access[f] # None
<1>1. access[f] # None /\ r \in access[f].scope /\ r \in access[f].owners
  BY DEF Owns, Sees
<1>2. Seen[f] # None /\ Seen[f] = [content |-> content[f], access |-> access[f]]
  BY <1>1, Entries
<1>3. Seen[f].access = access[f]
  BY <1>2
<1> QED
  BY <1>1, <1>2, <1>3 DEF Shared!Owns

-----------------------------------------------------------------------------
(* Every action is one of SharedFiles, or none.                            *)

LEMMA CreateShares ==
  ASSUME IInv, IInv', NEW r \in Rep, NEW n \in Name, NEW c \in Content, NEW about \in About,
         NEW stage \in Stage, Create(r, n, c, about, stage)
  PROVE  Shared!Create(r, n, c, about) \/ Shared!NotDone
<1> DEFINE f == <<r, n>>
           entry == [owners |-> {r}, scope |-> {r}, about |-> about]
<1>1. f \in File /\ access[f] = None
  BY DEF File, Create
<1>0. TypeOK /\ TypeOK' /\ Listed'
  BY DEF IInv
<1>2. CASE stage = "no"
  <2>1. /\ content' = [content EXCEPT ![f] = c]
        /\ access' = [access EXCEPT ![f] = entry]
        /\ disk' = [disk EXCEPT ![f] = c]
        /\ UNCHANGED <<copies, papers, faults>>
    BY <1>2 DEF Create, WriteContent, Fails
  <2>2. manifest'.files = access'
    BY <1>0, <1>2, Saved DEF Create, TypeOK
  <2> HIDE DEF f
  <2>3. /\ content'[f] = c /\ access'[f] = entry /\ disk'[f] = c
        /\ \A g \in File : g # f => /\ content'[g] = content[g] /\ access'[g] = access[g]
                                    /\ disk'[g] = disk[g]
    BY <1>0, <1>1, <2>1 DEF TypeOK
  <2>4. access'[f] # None
    <3>1. entry \in Access
      BY DEF Access
    <3> QED
      BY <2>3, <3>1, FileStoreAssumption
  <2>5. Seen' = [Seen EXCEPT ![f] = [content |-> c, access |-> entry]]
    BY <1>1, <2>3, <2>4, SeenAnew
  <2>6. Kept' = Shared!Filed(Seen', {f})
    BY <1>0, <1>1, <2>2, <2>3, <2>4, KeptAsSeen
  <2>7. Seen[f] = None
    BY <1>1, Entries
  <2> QED
    BY <2>1, <2>5, <2>6, <2>7 DEF Shared!Create, Shared!Ok, f
<1>3. CASE stage # "no"
  <2>1. /\ access' = access /\ content' = content /\ manifest' = manifest
        /\ UNCHANGED <<copies, papers>> /\ faults' = faults + 1
    BY <1>3 DEF Create, SaveManifest, Fails
  <2>2. \A g \in File : access[g] # None => disk'[g] = disk[g]
    BY <1>0, <1>1 DEF Create, WriteContent, TypeOK
  <2>3. Kept' = Kept
    BY <2>1, <2>2, KeptSame
  <2>4. Seen' = Seen
    BY <2>1, SeenSame
  <2> QED
    BY <2>1, <2>3, <2>4 DEF Shared!NotDone, Shared!Fails
<1> QED
  BY <1>2, <1>3

\* The content is on disk, and the manifest could not be written.
LEMMA KeptContent ==
  ASSUME IInv, NEW f \in File, NEW c, access[f] # None, manifest' = manifest,
         disk' = [disk EXCEPT ![f] = c]
  PROVE  Kept' = [Kept EXCEPT ![f].content = c]
<1>1. /\ manifest.files[f] # None
      /\ disk'[f] = c /\ \A g \in File : g # f => disk'[g] = disk[g]
  BY DEF IInv, Listed, TypeOK
<1>2. Kept' = [g \in File |-> IF manifest.files[g] = None THEN None
                              ELSE [content |-> disk'[g], access |-> manifest.files[g]]]
  BY DEF Kept
<1>3. [Kept EXCEPT ![f].content = c]
        = [g \in File |-> IF g = f THEN [Kept[f] EXCEPT !.content = c] ELSE Kept[g]]
  BY DEF Kept
<1>4. Kept[f] = [content |-> disk[f], access |-> manifest.files[f]]
  BY <1>1 DEF Kept
<1>5. [Kept[f] EXCEPT !.content = c] = [content |-> c, access |-> manifest.files[f]]
  BY <1>4
<1>6. \A g \in File : g # f => Kept[g] = IF manifest.files[g] = None THEN None
                                 ELSE [content |-> disk'[g], access |-> manifest.files[g]]
  BY <1>1 DEF Kept
<1>7. \A g \in File : (IF manifest.files[g] = None THEN None
                       ELSE [content |-> disk'[g], access |-> manifest.files[g]])
                      = (IF g = f THEN [Kept[f] EXCEPT !.content = c] ELSE Kept[g])
  BY <1>1, <1>5, <1>6
<1> QED
  BY <1>2, <1>3, <1>7

LEMMA WriteShares ==
  ASSUME IInv, IInv', NEW r \in Rep, NEW f \in File, NEW c \in Content,
         NEW stage \in Stage, Write(r, f, c, stage)
  PROVE  Shared!Change(f)
<1> DEFINE entry == [content |-> c, access |-> access[f]]
<1>0. TypeOK /\ TypeOK' /\ Listed'
  BY DEF IInv
<1>1. /\ Shared!Owns(r, f) /\ access[f] # None
      /\ Seen[f] = [content |-> content[f], access |-> access[f]]
      /\ access[f] \in Access
  BY Entries, OwnerIs DEF Write
<1>2. /\ access' = access
      /\ content'[f] = c /\ \A g \in File : g # f => content'[g] = content[g]
      /\ UNCHANGED <<copies, papers>>
  BY <1>0 DEF Write, TypeOK
<1>3. Seen' = [Seen EXCEPT ![f] = entry] /\ Seen'[f] = entry
  BY <1>1, <1>2, SeenAnew
<1>4. entry \in Shared!Entry
  BY <1>1, SameNames DEF Shared!Entry
<1>5. \/ Shared!Ok /\ Kept' = Shared!Filed([Seen EXCEPT ![f] = entry], {f})
      \/ Shared!Fails /\ Kept' \in {Kept, [Kept EXCEPT ![f].content = c]}
  <2>1. CASE stage = "no"
    <3>1. disk'[f] = c /\ \A g \in File : g # f => disk'[g] = disk[g]
      BY <1>0, <2>1 DEF Write, WriteContent, TypeOK
    <3>2. manifest'.files = access'
      BY <1>0, <2>1, Saved DEF Write, TypeOK
    <3>3. Kept' = Shared!Filed(Seen', {f})
      BY <1>0, <1>1, <1>2, <3>1, <3>2, KeptAsSeen
    <3>4. faults' = faults
      BY <2>1 DEF Write, Fails
    <3> QED
      BY <1>3, <3>3, <3>4 DEF Shared!Ok
  <2>2. CASE stage = "content"
    <3>1. disk' = disk /\ manifest' = manifest /\ faults' = faults + 1
      BY <2>2 DEF Write, WriteContent, SaveManifest, Fails
    <3>2. Kept' = Kept
      BY <3>1, KeptSame
    <3> QED
      BY <3>1, <3>2 DEF Shared!Fails
  <2>3. CASE stage = "manifest"
    <3>1. disk' = [disk EXCEPT ![f] = c] /\ manifest' = manifest /\ faults' = faults + 1
      BY <2>3 DEF Write, WriteContent, SaveManifest, Fails
    <3>2. Kept' = [Kept EXCEPT ![f].content = c]
      BY <1>1, <3>1, KeptContent
    <3> QED
      BY <3>1, <3>2 DEF Shared!Fails
  <2> QED
    BY <2>1, <2>2, <2>3 DEF Stage
<1>6. entry.access = Seen[f].access /\ entry.content = c
  BY <1>1
<1> HIDE DEF entry
<1>7. Shared!Write(f, entry)
  BY <1>3, <1>5, <1>6 DEF Shared!Write
<1> QED
  BY <1>1, <1>2, <1>3, <1>4, <1>7 DEF Shared!Change

LEMMA ChangeShares ==
  ASSUME IInv, IInv', NEW f \in File, NEW new \in Access, NEW stage \in Stage,
         Wider(f, new), Change(f, new, stage)
  PROVE  Shared!Change(f)
<1> DEFINE entry == [content |-> content[f], access |-> new]
<1>0. TypeOK /\ TypeOK' /\ Listed'
  BY DEF IInv
<1>1. /\ \E r \in Rep : Shared!Owns(r, f)
      /\ access[f] # None
      /\ Seen[f] = [content |-> content[f], access |-> access[f]]
      /\ content[f] \in Content
  BY Entries, OwnerIs DEF Wider
<1>2. /\ access'[f] = new /\ \A g \in File : g # f => access'[g] = access[g]
      /\ UNCHANGED <<content, disk, copies, papers>>
  BY <1>0 DEF Change, TypeOK
<1>3. new # None
  BY FileStoreAssumption
<1>4. Seen' = [Seen EXCEPT ![f] = entry] /\ Seen'[f] = entry
  BY <1>2, <1>3, SeenAnew
<1>5. entry \in Shared!Entry
  BY <1>1, SameNames DEF Shared!Entry
<1>6. \/ Shared!Ok /\ Kept' = Shared!Filed([Seen EXCEPT ![f] = entry], {})
      \/ Shared!Fails /\ Kept' = Kept
  <2>1. CASE stage = "no"
    <3>1. manifest'.files = access'
      BY <1>0, <2>1, Saved DEF Change, TypeOK
    <3>2. \A g \in File : access'[g] # None => access[g] # None
      BY <1>1, <1>2
    <3>3. Kept' = Shared!Filed(Seen', {})
      BY <1>0, <1>2, <3>1, <3>2, KeptAsSeen
    <3>4. faults' = faults
      BY <2>1 DEF Change, Fails
    <3> QED
      BY <1>4, <3>3, <3>4 DEF Shared!Ok
  <2>2. CASE stage # "no"
    <3>1. manifest' = manifest /\ faults' = faults + 1
      BY <2>2 DEF Change, SaveManifest, Fails
    <3>2. Kept' = Kept
      BY <1>2, <3>1, KeptSame
    <3> QED
      BY <3>1, <3>2 DEF Shared!Fails
  <2> QED
    BY <2>1, <2>2
<1>7. entry.content = Seen[f].content /\ Shared!Wider(Seen[f].access, entry.access)
  BY <1>1 DEF Wider, Sound, Shared!Wider
<1> HIDE DEF entry
<1>8. Shared!Grant(f, entry)
  BY <1>4, <1>6, <1>7 DEF Shared!Grant
<1> QED
  BY <1>1, <1>2, <1>4, <1>5, <1>8 DEF Shared!Change

LEMMA RefusalShares ==
  ASSUME IInv, IInv', NEW r \in Rep, NEW f \in File, NEW others \in SUBSET Rep,
         AddOwnerRefused(r, f, others)
  PROVE  Shared!Change(f)
<1> DEFINE entry == [content |-> content[f], access |-> access'[f]]
<1>0. TypeOK /\ TypeOK'
  BY DEF IInv
<1>1. /\ Shared!Owns(r, f) /\ access[f] # None
      /\ Seen[f] = [content |-> content[f], access |-> access[f]]
      /\ content[f] \in Content /\ access[f] \in Access
      /\ access[f].owners \subseteq access[f].scope
  BY Entries, OwnerIs DEF AddOwnerRefused, IInv, Listed, Sound
<1>2. PICK some \in SUBSET access[f].scope :
             access' = [access EXCEPT ![f].owners = @ \cup some]
  BY DEF AddOwnerRefused
<1>3. /\ \A g \in File : g # f => access'[g] = access[g]
      /\ UNCHANGED <<content, disk, manifest, copies, papers, faults>>
  BY <1>0, <1>2 DEF AddOwnerRefused, ondisk, TypeOK
<1>4. /\ access'[f] = [access[f] EXCEPT !.owners = @ \cup some]
      /\ access'[f] \in Access
      /\ access'[f].owners = access[f].owners \cup some
      /\ access'[f].scope = access[f].scope
  BY <1>0, <1>1, <1>2 DEF TypeOK, Access
<1>5. access'[f] # None
  BY <1>4, FileStoreAssumption
<1>6. Seen' = [Seen EXCEPT ![f] = entry] /\ Seen'[f] = entry
  BY <1>3, <1>5, SeenAnew
<1>7. entry \in Shared!Entry
  BY <1>1, <1>4, SameNames DEF Shared!Entry
<1>8. Kept' = Kept
  BY <1>3, KeptSame
<1>9. Shared!Wider(Seen[f].access, entry.access)
  <2>1. Seen[f].access = access[f] /\ entry.access = access'[f]
    BY <1>1
  <2>2. Shared!Wider(access[f], access'[f])
    BY <1>1, <1>4 DEF Shared!Wider
  <2> QED
    BY <2>1, <2>2
<1>10. entry = [Seen[f] EXCEPT !.access.owners = entry.access.owners]
  <2>1. access'[f] = [access[f] EXCEPT !.owners = access'[f].owners]
    BY <1>1, <1>4 DEF Access
  <2> QED
    BY <1>1, <2>1
<1> HIDE DEF entry
<1>11. Shared!GrantRefused(f, entry)
  BY <1>3, <1>6, <1>8, <1>9, <1>10 DEF Shared!GrantRefused, Shared!Ok
<1> QED
  BY <1>1, <1>3, <1>6, <1>7, <1>11 DEF Shared!Change

LEMMA SubmitShares ==
  ASSUME IInv, IInv', NEW r \in Rep, NEW f \in File, NEW stage \in Stage, Submit(r, f, stage)
  PROVE  Shared!Submit(r, f) \/ Shared!NotDone
<1> DEFINE s == SeriesOf(r, f)
<1>0. TypeOK /\ TypeOK' /\ Listed'
  BY DEF IInv
<1>1. /\ s \in Series
      /\ copies[s] # <<>> => copies[s][Len(copies[s])] # content[f]
      /\ access[f] # None
  BY Submitted DEF Submit, Last
<1>2. UNCHANGED <<content, access, disk, papers>>
  BY DEF Submit
<1>3. Seen' = Seen
  BY <1>2, SeenSame
<1>4. CASE stage = "no"
  <2>1. copies' = [copies EXCEPT ![s] = Append(@, content[f])] /\ faults' = faults
    BY <1>4 DEF Submit, Register, Fails
  <2>2. manifest'.files = access'
    BY <1>0, <1>4, Saved DEF Submit, TypeOK
  <2>3. Kept' = Shared!Filed(Seen', {})
    BY <1>0, <1>2, <2>2, KeptAsSeen
  <2>4. Shared!Owns(r, f) /\ Seen[f].content = content[f]
    <3>1. Seen[f] = [content |-> content[f], access |-> access[f]]
      BY <1>1, Entries
    <3> QED
      BY <3>1, OwnerIs DEF Submit, Submittable
  <2> QED
    BY <1>1, <1>2, <1>3, <2>1, <2>3, <2>4 DEF Shared!Submit, Shared!Ok, SeriesOf
<1>5. CASE stage # "no"
  <2>1. copies' = copies /\ manifest' = manifest /\ faults' = faults + 1
    BY <1>5 DEF Submit, Register, SaveManifest, Fails
  <2>2. Kept' = Kept
    BY <1>2, <2>1, KeptSame
  <2> QED
    BY <1>2, <1>3, <2>1, <2>2 DEF Shared!NotDone, Shared!Fails
<1> QED
  BY <1>4, <1>5

LEMMA PaperShares ==
  ASSUME IInv, NEW r \in Rep, PaperEnters(r)
  PROVE  \E s \in Series : \E i \in 1..Len(copies[s]) : Shared!Enter(s, i)
<1> DEFINE s == doing[r].series
           i == doing[r].version
<1>1. s \in Series /\ i \in Nat \ {0} /\ i <= Len(copies[s])
  BY DEF IInv, TypeOK, Filed, PaperEnters
<1>2. i \in 1..Len(copies[s])
  <2>1. Len(copies[s]) \in Nat
    BY <1>1 DEF IInv, TypeOK
  <2> QED
    BY <1>1, <2>1
<1>3. /\ papers' = papers \cup {[series |-> s, version |-> i, content |-> copies[s][i]]}
      /\ UNCHANGED <<content, access, copies, disk, manifest, faults>>
  BY DEF PaperEnters, memory, ondisk
<1>4. Seen' = Seen /\ Kept' = Kept
  BY <1>3 DEF Seen, Kept
<1>5. Shared!Enter(s, i)
  BY <1>3, <1>4 DEF Shared!Enter
<1> QED
  BY <1>1, <1>2, <1>5

LEMMA ReopenShares ==
  ASSUME IInv, IInv', Reopen
  PROVE  Shared!Crash
<1>1. /\ access' = manifest.files
      /\ content' = [f \in File |-> IF manifest.files[f] = None THEN None ELSE disk[f]]
      /\ papers' = {}
      /\ UNCHANGED <<disk, manifest, faults>>
  BY DEF Reopen, ondisk
<1>2. Seen' = Kept
  BY <1>1 DEF Seen, Kept
<1>3. Kept' = Kept
  BY <1>1 DEF Kept
<1>4. copies' = copies
  <2>1. copies \in [Series -> Seq(Content)] /\ copies' \in [Series -> Seq(Content)]
    BY DEF IInv, TypeOK
  <2> QED
    BY <2>1, ReopenCopies
<1> QED
  BY <1>1, <1>2, <1>3, <1>4 DEF Shared!Crash

LEMMA StepShares ==
  ASSUME IInv, IInv', Next
  PROVE  [Shared!Next]_(Shared!vars)
<1>1. ASSUME NEW r \in Rep, NEW n \in Name, NEW c \in Content, NEW about \in About,
             NEW stage \in Stage, Create(r, n, c, about, stage)
      PROVE  Shared!Next
  BY <1>1, CreateShares DEF Shared!Next
<1>2. ASSUME NEW f \in File, Shared!Change(f)
      PROVE  Shared!Next
  BY <1>2, SameNames DEF Shared!Next
<1>3. ASSUME NEW r \in Rep, NEW f \in File, NEW stage \in Stage, Submit(r, f, stage)
      PROVE  Shared!Next
  BY <1>3, SubmitShares, SameNames DEF Shared!Next
<1>4. ASSUME NEW r \in Rep, PaperEnters(r)
      PROVE  Shared!Next
  BY <1>4, PaperShares, SameNames DEF Shared!Next
<1>5. ASSUME Reopen
      PROVE  Shared!Next
  BY <1>5, ReopenShares DEF Shared!Next
<1>6. ASSUME UNCHANGED <<memory, ondisk, papers, faults>>
      PROVE  UNCHANGED Shared!vars
  BY <1>6 DEF memory, ondisk, Shared!vars, Seen, Kept
<1>7. ASSUME NEW r \in Rep,
             \/ \E s \in Series : \E version \in 1..Len(copies[s]) : SubmitCopy(r, s, version)
             \/ PaperRefused(r)
      PROVE  UNCHANGED Shared!vars
  BY <1>6, <1>7 DEF SubmitCopy, PaperRefused
<1> QED
  BY Cases, <1>1, <1>2, <1>3, <1>4, <1>5, <1>7, WriteShares, ChangeShares, RefusalShares

-----------------------------------------------------------------------------
(* The theorems.                                                           *)

\* The inductive invariant, of every behaviour.
THEOREM Invariance == Spec => []IInv
BY InitInv, StepInv, PTL DEF Spec

\* Every variable stays in its range.
THEOREM TypeCorrect == Spec => []TypeOK
<1>1. IInv => TypeOK
  BY DEF IInv
<1> QED
  BY <1>1, Invariance, PTL

\* The manifest can be loaded at any time, and what the tools have answered with
\* ok is in it and on disk (_save_manifest, _load_manifest); the copies that the
\* events name are there, in order and each with a content of its own, and more
\* can follow, but not of a file with a "+" (submit).
THEOREM DiskTrusted == Spec => []DiskCanBeTrusted
<1>1. IInv => ManifestLoads
  <2> SUFFICES ASSUME IInv
               PROVE  ManifestLoads
    OBVIOUS
  <2>1. \A s \in Series : manifest.copies[s] <= Len(diskCopies[s])
    BY DEF IInv, Filed, VersionsGrow, IsPrefix
  <2> QED
    BY <2>1 DEF IInv, Listed, Sound, ManifestLoads
<1>2. IInv => OkSurvives
  BY DEF IInv, Listed, AnswersHold, Covers, OkSurvives
<1>3. IInv => VersionsGrow /\ PapersOnFile
  BY DEF IInv, Filed
<1>4. IInv => SeriesGoOn
  <2> SUFFICES ASSUME IInv, NEW s \in Series
               PROVE  IF s[2][2] \in Plussed THEN Len(copies[s]) <= 1
                      ELSE faults = 0 => NextVersion(s) > Len(diskCopies[s])
    BY DEF SeriesGoOn
  <2>1. Len(copies[s]) \in Nat
    BY DEF IInv, TypeOK
  <2> QED
    BY <2>1 DEF IInv, Continued, NextVersion, Found
<1> QED
  BY <1>1, <1>2, <1>3, <1>4, Invariance, PTL DEF DiskCanBeTrusted

\* The representatives have the files of SharedFiles: what is answered with ok is
\* there after a crash, what fails leaves a file as it was or as it was to be, and
\* nothing is put in another place (_register, _write_content, _save_manifest,
\* _load_manifest).
THEOREM ImplementsShared == Spec => SharedSpec
<1>1. Init => Shared!Init
  <2> SUFFICES ASSUME Init
               PROVE  Shared!Init
    OBVIOUS
  <2>1. Seen = [f \in File |-> None] /\ Kept = [f \in File |-> None]
    BY DEF Init, Seen, Kept
  <2> QED
    BY <2>1, SameNames DEF Init, Shared!Init
<1>2. ASSUME IInv, IInv', [Next]_vars
      PROVE  [Shared!Next]_(Shared!vars)
  <2>1. CASE Next
    BY <1>2, <2>1, StepShares
  <2>2. CASE UNCHANGED vars
    BY <2>2 DEF vars, memory, ondisk, Shared!vars, Seen, Kept
  <2> QED
    BY <1>2, <2>1, <2>2
<1> QED
  BY <1>1, <1>2, Invariance, PTL DEF Spec, SharedSpec, Shared!Spec

\* No operation, failure or crash changes, drops or renumbers a copy: SharedFiles
\* does not.
THEOREM CopiesKept == Spec => CopiesStay
<1>1. ASSUME IInv, [Shared!Next]_(Shared!vars)
      PROVE  [\A s \in Series : IsPrefix(copies[s], copies'[s])]_vars
  <2>1. ASSUME copies' = copies
        PROVE  \A s \in Series : IsPrefix(copies[s], copies'[s])
    BY <1>1, <2>1, PrefixSame DEF IInv, TypeOK
  <2>2. ASSUME NEW r \in Rep, NEW f \in File, Shared!Submit(r, f)
        PROVE  \A s \in Series : IsPrefix(copies[s], copies'[s])
    <3>1. \A s \in Series : \/ copies'[s] = copies[s]
                            \/ copies'[s] = Append(copies[s], Seen[f].content)
      BY <1>1, <2>2 DEF Shared!Submit, IInv, TypeOK
    <3>2. Seen[f].content \in Content
      <4>1. access[f] # None
        BY <2>2 DEF Shared!Owns, Shared!Submit, Seen
      <4>2. content[f] \in Content /\ Seen[f] = [content |-> content[f], access |-> access[f]]
        BY <1>1, <4>1, Entries
      <4> QED
        BY <4>2
    <3> QED
      <4> SUFFICES ASSUME NEW s \in Series
                   PROVE  IsPrefix(copies[s], copies'[s])
        OBVIOUS
      <4>1. copies[s] \in Seq(Content) /\ IsPrefix(copies[s], copies[s])
        BY <1>1, PrefixSame DEF IInv, TypeOK
      <4>2. IsPrefix(copies[s], Append(copies[s], Seen[f].content))
        BY <3>2, <4>1, PrefixAppend
      <4> QED
        BY <3>1, <4>1, <4>2
  <2>3. CASE Shared!Next
    <3>1. CASE \E r \in Rep, f \in File : Shared!Submit(r, f)
      BY <2>2, <3>1
    <3>2. CASE copies' = copies
      BY <2>1, <3>2
    <3>3. \/ copies' = copies
          \/ \E r \in Rep, f \in File : Shared!Submit(r, f)
      BY <2>3, SameNames DEF Shared!Next, Shared!NotDone, Shared!Crash, Shared!Change,
                           Shared!Create, Shared!Enter
    <3> QED
      BY <3>1, <3>2, <3>3
  <2> QED
    BY <1>1, <2>1, <2>3 DEF Shared!vars
<1> QED
  BY <1>1, Invariance, ImplementsShared, PTL DEF CopiesStay, SharedSpec, Shared!Spec
=============================================================================
