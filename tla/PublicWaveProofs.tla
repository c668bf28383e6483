--------------------------- MODULE PublicWaveProofs ---------------------------
(***************************************************************************)
(* Theorems about PublicWave, for any set of representatives.  That none   *)
(* speaks too often follows from a balance: while the venue has no chair,  *)
(* what a representative is ahead is covered by the flag, or by the speech *)
(* that will set it, less the news that will take it back; with a chair,   *)
(* a turn that still has its speech owes one more.                         *)
(***************************************************************************)
EXTENDS PublicWave, TLAPS

\* What the loop leaves behind at each place.
Shape ==
  \A r \in Rep :
    /\ at[r] \in {"cooling", "merged", "entering", "turn"} => used[r] = FALSE
    /\ at[r] \in {"waiting", "turn"} => batch[r] = {}
    /\ at[r] # "turn" => last[r] = "none" /\ limited[r] = FALSE
    /\ limited[r] = FALSE => speeches[r] = 0
    /\ -news <= ahead[r]

\* The flag is set, or the turn is about to set it.
Answered(r) ==
  IF used[r] = TRUE \/ (speeches[r] = 1 /\ last[r] = "speech") THEN 1 ELSE 0

\* News on its way that will take the flag back.
Waiting(r) ==
  (IF "other" \in inbox[r] THEN 1 ELSE 0)
    + (IF used[r] = TRUE /\ "other" \in batch[r] THEN 1 ELSE 0)

Balance ==
  \A r \in Rep :
    /\ unchaired = TRUE => ahead[r] <= Answered(r) - Waiting(r)
    /\ unchaired = FALSE =>
         ahead[r] <= IF limited[r] = TRUE /\ speeches[r] = 0 THEN -1 ELSE 0

IInv == TypeOK /\ Shape /\ Balance

-----------------------------------------------------------------------------

LEMMA InitInv == Init => IInv
BY WaveAssumption DEF Init, IInv, TypeOK, Shape, Balance, Answered, Waiting

\* What an event other than a speech does to a representative.
LEMMA Heard ==
  ASSUME IInv, NEW to \in SUBSET Rep, NEW author \in SUBSET Rep, NewsFor(to, author)
  PROVE  /\ news' \in 0..MaxNews
         /\ inbox' \in [Rep -> SUBSET Kind]
         /\ ahead' \in [Rep -> (-MaxNews)..2]
         /\ \A r \in Rep :
              /\ -news' <= ahead'[r]
              /\ inbox'[r] = IF r \in to THEN inbox[r] \cup {"other"} ELSE inbox[r]
              /\ ahead'[r] = IF r \in to \cup author THEN ahead[r] - 1 ELSE ahead[r]
<1>1. /\ news \in 0..MaxNews /\ news < MaxNews /\ news' = news + 1
      /\ inbox \in [Rep -> SUBSET Kind] /\ ahead \in [Rep -> (-MaxNews)..2]
      /\ \A q \in Rep : -news <= ahead[q]
  BY DEF IInv, TypeOK, Shape, NewsFor
<1>2. MaxNews \in Nat
  BY WaveAssumption
<1>3. news' \in 0..MaxNews
  BY <1>1, <1>2
<1>4. inbox' = [q \in Rep |-> IF q \in to THEN inbox[q] \cup {"other"} ELSE inbox[q]]
  BY DEF NewsFor, Deliver
<1>5. ahead' = [q \in Rep |-> IF q \in to \cup author THEN ahead[q] - 1 ELSE ahead[q]]
  BY DEF NewsFor
<1>6. \A q \in Rep : ahead[q] - 1 \in (-MaxNews)..2 /\ ahead[q] \in Int
  BY <1>1, <1>2
<1>7. ahead' \in [Rep -> (-MaxNews)..2]
  BY <1>1, <1>5, <1>6
<1>8. inbox' \in [Rep -> SUBSET Kind]
  BY <1>1, <1>4 DEF Kind
<1>9. \A r \in Rep : -news' <= ahead'[r]
  BY <1>1, <1>2, <1>5, <1>6
<1> QED
  BY <1>3, <1>4, <1>5, <1>7, <1>8, <1>9

LEMMA NewsStep ==
  ASSUME IInv, NEW to \in SUBSET Rep, NewsFor(to, {}), unchaired' \in BOOLEAN,
         unchaired' = unchaired \/ to = Rep,
         UNCHANGED <<at, batch, used, limited, speeches, actions, last>>
  PROVE  IInv'
<1>1. TypeOK /\ Shape /\ Balance
  BY DEF IInv
<1>2. /\ news' \in 0..MaxNews
      /\ inbox' \in [Rep -> SUBSET Kind]
      /\ ahead' \in [Rep -> (-MaxNews)..2]
      /\ \A r \in Rep :
           /\ -news' <= ahead'[r]
           /\ inbox'[r] = IF r \in to THEN inbox[r] \cup {"other"} ELSE inbox[r]
           /\ ahead'[r] = IF r \in to THEN ahead[r] - 1 ELSE ahead[r]
  <2>1. {} \in SUBSET Rep
    OBVIOUS
  <2>2. \A r \in Rep :
          /\ -news' <= ahead'[r]
          /\ inbox'[r] = IF r \in to THEN inbox[r] \cup {"other"} ELSE inbox[r]
          /\ ahead'[r] = IF r \in to \cup {} THEN ahead[r] - 1 ELSE ahead[r]
    BY <2>1, Heard, Zenon
  <2> QED
    BY <2>1, <2>2, Heard
<1>3. TypeOK'
  BY <1>1, <1>2 DEF TypeOK
<1>4. Shape'
  BY <1>1, <1>2 DEF Shape
<1>5. ASSUME NEW r \in Rep
      PROVE  /\ unchaired' = TRUE => ahead'[r] <= Answered(r)' - Waiting(r)'
             /\ unchaired' = FALSE =>
                  ahead'[r] <= IF limited'[r] = TRUE /\ speeches'[r] = 0 THEN -1 ELSE 0
  <2>1. /\ ahead[r] \in Int /\ unchaired \in BOOLEAN
        /\ unchaired = TRUE => ahead[r] <= Answered(r) - Waiting(r)
        /\ unchaired = FALSE =>
             ahead[r] <= IF limited[r] = TRUE /\ speeches[r] = 0 THEN -1 ELSE 0
        /\ limited[r] = TRUE => used[r] = FALSE
    BY <1>1 DEF TypeOK, Balance, Shape
  <2>2. \/ inbox'[r] = inbox[r] /\ ahead'[r] = ahead[r] /\ unchaired' = unchaired
        \/ inbox'[r] = inbox[r] \cup {"other"} /\ ahead'[r] = ahead[r] - 1
    BY <1>2
  <2>3. Answered(r)' = Answered(r) /\ Answered(r) \in 0..1 /\ Waiting(r) \in 0..2
    BY DEF Answered, Waiting
  <2>4. \/ Waiting(r)' = Waiting(r) /\ ahead'[r] = ahead[r] /\ unchaired' = unchaired
        \/ /\ ahead'[r] = ahead[r] - 1
           /\ Waiting(r)' \in Waiting(r)..(Waiting(r) + 1)
           /\ Waiting(r)' = IF used[r] = TRUE /\ "other" \in batch[r] THEN 2 ELSE 1
    BY <2>2 DEF Waiting
  <2>5. CASE unchaired' = unchaired
    BY <2>1, <2>3, <2>4, <2>5
  <2>6. CASE unchaired' # unchaired
    BY <2>1, <2>3, <2>4, <2>6 DEF Answered
  <2> QED
    BY <2>5, <2>6
<1> QED
  BY <1>3, <1>4, <1>5 DEF IInv, Balance

LEMMA TakeStep ==
  ASSUME IInv, NEW q \in Rep, Take(q) \/ Merge(q)
  PROVE  IInv'
<1>1. TypeOK /\ Shape /\ Balance
  BY DEF IInv
<1>2. /\ UNCHANGED <<unchaired, used, limited, speeches, actions, last, news, ahead>>
      /\ \/ /\ at[q] = "waiting" /\ batch' = [batch EXCEPT ![q] = inbox[q]]
            /\ at' = [at EXCEPT ![q] = "deciding"]
         \/ /\ at[q] = "cooling" /\ batch' = [batch EXCEPT ![q] = @ \cup inbox[q]]
            /\ at' = [at EXCEPT ![q] = "merged"]
      /\ inbox' = [inbox EXCEPT ![q] = {}]
  BY DEF Take, Merge, Go, turn
<1>3. TypeOK'
  BY <1>1, <1>2 DEF TypeOK
<1>4. Shape'
  BY <1>1, <1>2 DEF Shape, TypeOK
<1>5. ASSUME NEW r \in Rep
      PROVE  Answered(r)' = Answered(r) /\ Waiting(r)' <= Waiting(r) /\ Waiting(r)' \in Int
  <2>1. CASE r = q /\ at[q] = "waiting"
    <3>1. batch[r] = {} /\ inbox'[r] = {} /\ batch'[r] = inbox[r]
      BY <1>1, <1>2, <2>1 DEF Shape, TypeOK
    <3> QED
      BY <1>2, <3>1 DEF Answered, Waiting
  <2>2. CASE r = q /\ at[q] = "cooling"
    <3>1. used[r] = FALSE /\ inbox'[r] = {}
      BY <1>1, <1>2, <2>2 DEF Shape, TypeOK
    <3> QED
      BY <1>2, <3>1 DEF Answered, Waiting
  <2>3. CASE r # q
    <3>1. batch'[r] = batch[r] /\ inbox'[r] = inbox[r]
      BY <1>1, <1>2, <2>3 DEF TypeOK
    <3> QED
      BY <1>2, <3>1 DEF Answered, Waiting
  <2> QED
    BY <1>2, <2>1, <2>2, <2>3
<1>6. Balance'
  <2> SUFFICES ASSUME NEW r \in Rep
               PROVE  /\ unchaired = TRUE => ahead[r] <= Answered(r)' - Waiting(r)'
                      /\ unchaired = FALSE =>
                           ahead[r] <= IF limited[r] = TRUE /\ speeches[r] = 0 THEN -1 ELSE 0
    BY <1>2 DEF Balance
  <2>1. /\ unchaired = TRUE => ahead[r] <= Answered(r) - Waiting(r)
        /\ unchaired = FALSE =>
             ahead[r] <= IF limited[r] = TRUE /\ speeches[r] = 0 THEN -1 ELSE 0
    BY <1>1 DEF Balance
  <2>2. ahead[r] \in Int /\ Answered(r) \in 0..1 /\ Waiting(r) \in 0..2
    BY <1>1 DEF TypeOK, Answered, Waiting
  <2> QED
    BY <1>5, <2>1, <2>2
<1> QED
  BY <1>3, <1>4, <1>6 DEF IInv

LEMMA EvaluateStep ==
  ASSUME IInv, NEW q \in Rep, Evaluate(q)
  PROVE  IInv'
<1>1. TypeOK /\ Shape /\ Balance
  BY DEF IInv
<1>2. /\ UNCHANGED <<unchaired, inbox, limited, speeches, actions, last, news, ahead>>
      /\ at[q] \in {"deciding", "merged"}
      /\ used' = [used EXCEPT ![q] = UsedAfter(q)]
      /\ \/ /\ UsedAfter(q)
            /\ at' = [at EXCEPT ![q] = "waiting"]
            /\ batch' = [batch EXCEPT ![q] = {}]
         \/ /\ ~UsedAfter(q)
            /\ at' = [at EXCEPT ![q] = "entering"]
            /\ UNCHANGED batch
         \/ /\ ~UsedAfter(q)
            /\ at' = [at EXCEPT ![q] = "cooling"]
            /\ UNCHANGED batch
  BY DEF Evaluate, Go, turn
<1>3. UsedAfter(q) \in BOOLEAN
  BY <1>1 DEF UsedAfter, TypeOK
<1>4. TypeOK'
  BY <1>1, <1>2, <1>3 DEF TypeOK
<1>5. Shape'
  BY <1>1, <1>2, <1>3 DEF Shape, TypeOK
<1>6. Balance'
  <2> SUFFICES ASSUME NEW r \in Rep
               PROVE  /\ unchaired = TRUE => ahead[r] <= Answered(r)' - Waiting(r)'
                      /\ unchaired = FALSE =>
                           ahead[r] <= IF limited[r] = TRUE /\ speeches[r] = 0 THEN -1 ELSE 0
    BY <1>2 DEF Balance
  <2>1. /\ unchaired = TRUE => ahead[r] <= Answered(r) - Waiting(r)
        /\ unchaired = FALSE =>
             ahead[r] <= IF limited[r] = TRUE /\ speeches[r] = 0 THEN -1 ELSE 0
    BY <1>1 DEF Balance
  <2>2. ahead[r] \in Int /\ used[r] \in BOOLEAN /\ unchaired \in BOOLEAN
    BY <1>1 DEF TypeOK
  <2>3. CASE r # q
    <3>1. used'[r] = used[r] /\ batch'[r] = batch[r]
      BY <1>1, <1>2, <2>3 DEF TypeOK
    <3> QED
      BY <1>2, <2>1, <3>1 DEF Answered, Waiting
  <2>4. CASE r = q
    <3>1. last[r] = "none" /\ used'[r] = UsedAfter(r)
      BY <1>1, <1>2, <2>4 DEF Shape, TypeOK
    <3>2. CASE unchaired = TRUE
      <4>1. CASE used[r] = TRUE /\ batch[r] \subseteq {"public"}
        <5>1. used'[r] = TRUE /\ batch'[r] = {}
          BY <1>1, <1>2, <2>4, <3>1, <3>2, <4>1 DEF UsedAfter, TypeOK
        <5> QED
          BY <1>2, <2>1, <3>2, <4>1, <5>1 DEF Answered, Waiting
      <4>2. CASE used[r] = FALSE
        <5>1. used'[r] = FALSE
          BY <3>1, <4>2 DEF UsedAfter
        <5> QED
          BY <1>2, <2>1, <3>2, <4>2, <5>1 DEF Answered, Waiting
      <4>3. CASE used[r] = TRUE /\ ~(batch[r] \subseteq {"public"})
        <5>1. "other" \in batch[r]
          BY <1>1, <4>3 DEF TypeOK, Kind
        <5>2. used'[r] = FALSE
          BY <3>1, <4>3 DEF UsedAfter
        <5> QED
          BY <1>2, <2>1, <2>2, <3>2, <4>3, <5>1, <5>2 DEF Answered, Waiting
      <4> QED
        BY <2>2, <4>1, <4>2, <4>3
    <3> QED
      BY <2>1, <2>2, <3>2
  <2> QED
    BY <2>3, <2>4
<1> QED
  BY <1>4, <1>5, <1>6 DEF IInv

LEMMA BeginTurnStep ==
  ASSUME IInv, NEW q \in Rep, BeginTurn(q)
  PROVE  IInv'
<1>1. TypeOK /\ Shape /\ Balance
  BY DEF IInv
<1>2. /\ UNCHANGED <<unchaired, inbox, used, news, ahead>>
      /\ at[q] = "entering" /\ at' = [at EXCEPT ![q] = "turn"]
      /\ batch' = [batch EXCEPT ![q] = {}]
      /\ limited' = [limited EXCEPT ![q] = unchaired]
      /\ speeches' = [speeches EXCEPT ![q] = 0]
      /\ actions' = [actions EXCEPT ![q] = 0]
      /\ last' = [last EXCEPT ![q] = "none"]
  BY DEF BeginTurn, Go
<1>3. TypeOK'
  BY <1>1, <1>2, WaveAssumption DEF TypeOK
<1>4. Shape'
  BY <1>1, <1>2 DEF Shape, TypeOK
<1>5. Balance'
  <2> SUFFICES ASSUME NEW r \in Rep
               PROVE  /\ unchaired = TRUE => ahead[r] <= Answered(r)' - Waiting(r)'
                      /\ unchaired = FALSE =>
                           ahead[r] <= IF limited'[r] = TRUE /\ speeches'[r] = 0 THEN -1 ELSE 0
    BY <1>2 DEF Balance
  <2>1. /\ unchaired = TRUE => ahead[r] <= Answered(r) - Waiting(r)
        /\ unchaired = FALSE =>
             ahead[r] <= IF limited[r] = TRUE /\ speeches[r] = 0 THEN -1 ELSE 0
    BY <1>1 DEF Balance
  <2>2. CASE r # q
    <3>1. /\ batch'[r] = batch[r] /\ speeches'[r] = speeches[r]
          /\ last'[r] = last[r] /\ limited'[r] = limited[r]
      BY <1>1, <1>2, <2>2 DEF TypeOK
    <3> QED
      BY <1>2, <2>1, <3>1 DEF Answered, Waiting
  <2>3. CASE r = q
    <3>1. /\ used[r] = FALSE /\ last[r] = "none" /\ limited[r] = FALSE
          /\ speeches'[r] = 0 /\ last'[r] = "none" /\ limited'[r] = unchaired
      BY <1>1, <1>2, <2>3 DEF Shape, TypeOK
    <3> QED
      BY <1>2, <2>1, <3>1 DEF Answered, Waiting
  <2> QED
    BY <2>2, <2>3
<1> QED
  BY <1>3, <1>4, <1>5 DEF IInv

LEMMA EndTurnStep ==
  ASSUME IInv, NEW q \in Rep, EndTurn(q)
  PROVE  IInv'
<1>1. TypeOK /\ Shape /\ Balance
  BY DEF IInv
<1>2. /\ UNCHANGED <<unchaired, inbox, batch, news, ahead>>
      /\ at[q] = "turn" /\ at' = [at EXCEPT ![q] = "waiting"]
      /\ used' = [used EXCEPT ![q] = Recorded(q)]
      /\ limited' = [limited EXCEPT ![q] = FALSE]
      /\ speeches' = [speeches EXCEPT ![q] = 0]
      /\ actions' = [actions EXCEPT ![q] = 0]
      /\ last' = [last EXCEPT ![q] = "none"]
  BY DEF EndTurn, Go
<1>3. Recorded(q) \in BOOLEAN
  BY <1>1 DEF Recorded, TypeOK
<1>4. TypeOK'
  BY <1>1, <1>2, <1>3, WaveAssumption DEF TypeOK
<1>5. Shape'
  BY <1>1, <1>2, <1>3 DEF Shape, TypeOK
<1>6. Balance'
  <2> SUFFICES ASSUME NEW r \in Rep
               PROVE  /\ unchaired = TRUE => ahead[r] <= Answered(r)' - Waiting(r)'
                      /\ unchaired = FALSE =>
                           ahead[r] <= IF limited'[r] = TRUE /\ speeches'[r] = 0 THEN -1 ELSE 0
    BY <1>2 DEF Balance
  <2>1. /\ unchaired = TRUE => ahead[r] <= Answered(r) - Waiting(r)
        /\ unchaired = FALSE =>
             ahead[r] <= IF limited[r] = TRUE /\ speeches[r] = 0 THEN -1 ELSE 0
    BY <1>1 DEF Balance
  <2>2. ahead[r] \in Int /\ unchaired \in BOOLEAN
    BY <1>1 DEF TypeOK
  <2>3. CASE r # q
    <3>1. /\ used'[r] = used[r] /\ speeches'[r] = speeches[r]
          /\ last'[r] = last[r] /\ limited'[r] = limited[r]
      BY <1>1, <1>2, <2>3 DEF TypeOK
    <3> QED
      BY <1>2, <2>1, <3>1 DEF Answered, Waiting
  <2>4. CASE r = q
    <3>1. /\ used[r] = FALSE /\ batch[r] = {}
          /\ used'[r] = Recorded(r)
          /\ speeches'[r] = 0 /\ limited'[r] = FALSE
      BY <1>1, <1>2, <2>4 DEF Shape, TypeOK
    <3>2. unchaired = FALSE => ahead[r] <= 0
      BY <2>1, <2>2
    <3>3. CASE unchaired = TRUE /\ last[r] = "speech"
      <4>1. used'[r] = TRUE
        BY <3>1, <3>3 DEF Recorded
      <4> QED
        BY <1>2, <2>1, <2>2, <3>1, <3>3, <4>1 DEF Answered, Waiting
    <3>4. CASE unchaired = TRUE /\ last[r] # "speech"
      <4>1. used'[r] = FALSE
        BY <3>1, <3>4 DEF Recorded
      <4> QED
        BY <1>2, <2>1, <2>2, <3>1, <3>4, <4>1 DEF Answered, Waiting
    <3> QED
      BY <2>2, <3>1, <3>2, <3>3, <3>4
  <2> QED
    BY <2>3, <2>4
<1> QED
  BY <1>4, <1>5, <1>6 DEF IInv

LEMMA SpeakStep ==
  ASSUME IInv, NEW q \in Rep, Speak(q)
  PROVE  IInv'
<1>1. TypeOK /\ Shape /\ Balance
  BY DEF IInv
<1>2. /\ UNCHANGED <<unchaired, at, batch, used, limited, news>>
      /\ at[q] = "turn"
      /\ limited[q] = TRUE => speeches[q] < SpeechLimit /\ actions[q] < ActionLimit
      /\ actions' = [actions EXCEPT ![q] = IF limited[q] THEN @ + 1 ELSE @]
      /\ speeches' = [speeches EXCEPT ![q] = IF limited[q] THEN @ + 1 ELSE @]
      /\ last' = [last EXCEPT ![q] = "speech"]
      /\ inbox' = [r \in Rep |-> IF r \in Rep \ {q} THEN inbox[r] \cup {"public"} ELSE inbox[r]]
      /\ ahead' = IF limited[q] /\ ahead[q] < 2 THEN [ahead EXCEPT ![q] = @ + 1] ELSE ahead
  BY DEF Speak, Succeeds, Deliver, Count
<1>3. \A r \in Rep : "other" \in inbox'[r] <=> "other" \in inbox[r]
  BY <1>2
<1>4. \A r \in Rep \ {q} : /\ speeches'[r] = speeches[r] /\ last'[r] = last[r]
                           /\ ahead'[r] = ahead[r]
  BY <1>1, <1>2 DEF TypeOK
<1>5. last'[q] = "speech"
  BY <1>1, <1>2 DEF TypeOK
<1>6. CASE limited[q] = TRUE
  <2>1. speeches[q] = 0 /\ speeches'[q] = 1 /\ SpeechLimit = 1
    BY <1>1, <1>2, <1>6, WaveAssumption DEF TypeOK
  <2>2. used[q] = FALSE /\ ahead[q] \in Int /\ unchaired \in BOOLEAN
    BY <1>1, <1>2 DEF Shape, TypeOK
  <2>3. ahead[q] <= 0
    BY <1>1, <1>6, <2>1, <2>2 DEF Balance, Answered, Waiting
  <2>4. ahead'[q] = ahead[q] + 1
    BY <1>1, <1>2, <1>6, <2>2, <2>3 DEF TypeOK
  <2>5. ahead' \in [Rep -> (-MaxNews)..2]
    <3>1. ahead[q] + 1 \in (-MaxNews)..2
      BY <1>1, <2>3, WaveAssumption DEF TypeOK
    <3>2. ahead' = [ahead EXCEPT ![q] = @ + 1]
      BY <1>2, <1>6, <2>2, <2>3
    <3> QED
      BY <1>1, <3>1, <3>2 DEF TypeOK
  <2>6. actions' \in [Rep -> 0..ActionLimit]
    <3>1. actions[q] + 1 \in 0..ActionLimit
      BY <1>1, <1>2, <1>6, WaveAssumption DEF TypeOK
    <3> QED
      BY <1>1, <1>2, <1>6, <3>1 DEF TypeOK
  <2>7. speeches' \in [Rep -> 0..SpeechLimit]
    BY <1>1, <1>2, <1>6, <2>1 DEF TypeOK
  <2>8. TypeOK'
    BY <1>1, <1>2, <2>5, <2>6, <2>7 DEF TypeOK, Kind
  <2>9. Shape'
    BY <1>1, <1>2, <1>4, <1>6, <2>2, <2>4 DEF Shape, TypeOK
  <2>10. Balance'
    <3>1. \A r \in Rep \ {q} : Answered(r)' = Answered(r) /\ Waiting(r)' = Waiting(r)
      BY <1>2, <1>3, <1>4 DEF Answered, Waiting
    <3>2. Waiting(q)' = Waiting(q) /\ Answered(q)' = 1 /\ Answered(q) = 0
      BY <1>2, <1>3, <1>5, <2>1, <2>2 DEF Answered, Waiting
    <3>3. Waiting(q) \in 0..2
      BY DEF Waiting
    <3>4. /\ unchaired = TRUE => ahead'[q] <= Answered(q)' - Waiting(q)'
          /\ unchaired = FALSE => ahead'[q] <= 0
      BY <1>1, <1>6, <2>1, <2>2, <2>4, <3>2, <3>3 DEF Balance
    <3> QED
      BY <1>1, <1>2, <1>4, <2>1, <3>1, <3>4 DEF Balance
  <2> QED
    BY <2>8, <2>9, <2>10 DEF IInv
<1>7. CASE limited[q] = FALSE
  <2>1. speeches' = speeches /\ actions' = actions /\ ahead' = ahead /\ speeches[q] = 0
    BY <1>1, <1>2, <1>7 DEF TypeOK, Shape
  <2>2. TypeOK'
    BY <1>1, <1>2, <2>1 DEF TypeOK, Kind
  <2>3. Shape'
    BY <1>1, <1>2, <1>4, <2>1 DEF Shape, TypeOK
  <2>4. \A r \in Rep : Waiting(r)' = Waiting(r) /\ Answered(r)' = Answered(r)
    BY <1>2, <1>3, <1>4, <2>1 DEF Answered, Waiting
  <2>5. Balance'
    BY <1>1, <1>2, <2>1, <2>4 DEF Balance
  <2> QED
    BY <2>2, <2>3, <2>5 DEF IInv
<1>8. limited[q] \in BOOLEAN
  BY <1>1 DEF TypeOK
<1> QED
  BY <1>6, <1>7, <1>8

LEMMA ActStep ==
  ASSUME IInv, NEW q \in Rep, NEW to \in SUBSET (Rep \ {q}), Act(q, to)
  PROVE  IInv'
<1>1. TypeOK /\ Shape /\ Balance
  BY DEF IInv
<1>2. /\ UNCHANGED <<unchaired, at, batch, used, limited, speeches>>
      /\ at[q] = "turn"
      /\ limited[q] = TRUE => actions[q] < ActionLimit
      /\ actions' = [actions EXCEPT ![q] = IF limited[q] THEN @ + 1 ELSE @]
      /\ last' = [last EXCEPT ![q] = "act"]
  BY DEF Act, Succeeds
<1>3. /\ news' \in 0..MaxNews
      /\ inbox' \in [Rep -> SUBSET Kind]
      /\ ahead' \in [Rep -> (-MaxNews)..2]
      /\ \A r \in Rep :
           /\ -news' <= ahead'[r]
           /\ inbox'[r] = IF r \in to THEN inbox[r] \cup {"other"} ELSE inbox[r]
           /\ ahead'[r] = IF r \in to \cup {q} THEN ahead[r] - 1 ELSE ahead[r]
  <2>1. to \in SUBSET Rep /\ {q} \in SUBSET Rep /\ NewsFor(to, {q})
    BY DEF Act
  <2> QED
    BY <2>1, Heard, Zenon
<1>4. actions' \in [Rep -> 0..ActionLimit]
  <2>1. CASE limited[q] = TRUE
    <3>1. actions[q] + 1 \in 0..ActionLimit
      BY <1>1, <1>2, <2>1, WaveAssumption DEF TypeOK
    <3> QED
      BY <1>1, <1>2, <2>1, <3>1 DEF TypeOK
  <2>2. CASE limited[q] = FALSE
    BY <1>1, <1>2, <2>2 DEF TypeOK
  <2> QED
    BY <1>1, <2>1, <2>2 DEF TypeOK
<1>5. TypeOK'
  BY <1>1, <1>2, <1>3, <1>4 DEF TypeOK
<1>6. Shape'
  BY <1>1, <1>2, <1>3 DEF Shape, TypeOK
<1>7. Balance'
  <2> SUFFICES ASSUME NEW r \in Rep
               PROVE  /\ unchaired = TRUE => ahead'[r] <= Answered(r)' - Waiting(r)'
                      /\ unchaired = FALSE =>
                           ahead'[r] <= IF limited[r] = TRUE /\ speeches[r] = 0 THEN -1 ELSE 0
    BY <1>2 DEF Balance
  <2>1. /\ unchaired = TRUE => ahead[r] <= Answered(r) - Waiting(r)
        /\ unchaired = FALSE =>
             ahead[r] <= IF limited[r] = TRUE /\ speeches[r] = 0 THEN -1 ELSE 0
        /\ ahead[r] \in Int
    BY <1>1 DEF Balance, TypeOK
  <2>2. CASE r = q
    <3>1. /\ inbox'[r] = inbox[r] /\ ahead'[r] = ahead[r] - 1
          /\ used[r] = FALSE /\ last'[r] = "act"
      BY <1>1, <1>2, <1>3, <2>2 DEF Shape, TypeOK
    <3>2. /\ Waiting(r)' = Waiting(r) /\ Waiting(r) \in 0..2
          /\ Answered(r) \in 0..1 /\ Answered(r)' = 0
      BY <1>2, <3>1 DEF Waiting, Answered
    <3> QED
      BY <2>1, <3>1, <3>2
  <2>3. CASE r # q
    <3>1. /\ last'[r] = last[r]
          /\ \/ inbox'[r] = inbox[r] /\ ahead'[r] = ahead[r]
             \/ inbox'[r] = inbox[r] \cup {"other"} /\ ahead'[r] = ahead[r] - 1
      BY <1>1, <1>2, <1>3, <2>3 DEF TypeOK
    <3>2. /\ Answered(r)' = Answered(r) /\ Answered(r) \in 0..1
          /\ Waiting(r) \in 0..2
          /\ \/ Waiting(r)' = Waiting(r) /\ ahead'[r] = ahead[r]
             \/ Waiting(r)' \in Waiting(r)..(Waiting(r) + 1) /\ ahead'[r] = ahead[r] - 1
      BY <1>2, <3>1 DEF Answered, Waiting
    <3> QED
      BY <2>1, <3>1, <3>2
  <2> QED
    BY <2>2, <2>3
<1> QED
  BY <1>5, <1>6, <1>7 DEF IInv

LEMMA StepInv == IInv /\ [Next]_vars => IInv'
<1> SUFFICES ASSUME IInv, [Next]_vars
             PROVE  IInv'
  OBVIOUS
<1>1. ASSUME NEW to \in SUBSET Rep, News(to)
      PROVE  IInv'
  <2>1. unchaired' \in BOOLEAN
    BY <1>1 DEF News, IInv, TypeOK
  <2> QED
    BY <1>1, <2>1, NewsStep DEF News, turn
<1>2. ASSUME SwitchPhase
      PROVE  IInv'
  <2>1. unchaired' \in BOOLEAN
    BY <1>2 DEF SwitchPhase
  <2>2. /\ NewsFor(Rep, {})
        /\ UNCHANGED <<at, batch, used, limited, speeches, actions, last>>
    BY <1>2 DEF SwitchPhase, turn
  <2> QED
    BY <2>1, <2>2, NewsStep
<1>3. ASSUME UNCHANGED vars
      PROVE  IInv'
  BY <1>3 DEF IInv, TypeOK, Shape, Balance, Answered, Waiting, vars, turn
<1> QED
  BY <1>1, <1>2, <1>3, TakeStep, EvaluateStep, BeginTurnStep, EndTurnStep, SpeakStep, ActStep
     DEF Next, LoopStep, Tool

-----------------------------------------------------------------------------
(* The theorems.                                                           *)

\* The inductive invariant, of every behaviour.
THEOREM Invariance == Spec => []IInv
BY InitInv, StepInv, PTL DEF Spec

\* Every variable stays in its range; the budgets of a turn are kept.
THEOREM TypeCorrect == Spec => []TypeOK
<1>1. IInv => TypeOK
  BY DEF IInv
<1> QED
  BY <1>1, Invariance, PTL

\* However many representatives there are, and whatever else happens: in turns
\* begun without a chair none of them makes two speeches for one piece of news
\* (evaluate, begin_turn, record_tools).
THEOREM SpeechesBounded == Spec => []OneSpeechPerWave
<1>1. IInv => OneSpeechPerWave
  <2> SUFFICES ASSUME IInv, NEW r \in Rep
               PROVE  ahead[r] <= 1
    BY DEF OneSpeechPerWave
  <2>1. unchaired \in BOOLEAN /\ ahead[r] \in Int
    BY DEF IInv, TypeOK
  <2>2. Answered(r) \in 0..1 /\ Waiting(r) \in 0..2
    BY DEF Answered, Waiting
  <2> QED
    BY <2>1, <2>2 DEF IInv, Balance
<1> QED
  BY <1>1, Invariance, PTL
=============================================================================
