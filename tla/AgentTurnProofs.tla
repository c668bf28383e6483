------------------------- MODULE AgentTurnProofs -------------------------
(***************************************************************************)
(* What AgentTurn keeps for any number of observations, whichever of them  *)
(* are urgent, and any limits of rounds and calls.  The order of what      *)
(* reaches a prompt, what work is done too late, what is refused, and what *)
(* causes what rest on separate facts, so the invariant has one part for   *)
(* each.  Under it, every step is one of Mailbox or none.                  *)
(***************************************************************************)
EXTENDS AgentTurn, SequenceTheorems, TLAPS

Place == {"waiting", "blocked", "deciding", "cooling", "merged", "entering", "round",
          "calling", "streaming", "answered", "tools", "executing", "leaving", "ended",
          "dead"}

CallerPlace == {"outside", "flagging", "stopping", "cancelling", "closing", "finished"}

Outcome == {"none", "completed", "interrupted", "stopped", "cancelled", "failed"}

\* The places before a batch is in hand, and those within a step whose tools are not
\* on their way.
Between == {"waiting", "blocked"}
Working == {"round", "calling", "streaming", "answered", "tools"}

\* The types of what is passed around, of the flags, and of the counters.
SeqTypes ==
  /\ inbox \in Seq(Observation) /\ batch \in Seq(Observation)
  /\ shown \in Seq(Observation) /\ swallowed \subseteq Observation
  /\ sent \in 0..Last

FlagTypes ==
  /\ closed \in BOOLEAN /\ stopEvent \in BOOLEAN /\ interrupted \in BOOLEAN
  /\ active \in BOOLEAN /\ llmStop \in BOOLEAN /\ open \in BOOLEAN
  /\ cancel \in BOOLEAN

PlaceTypes ==
  /\ at \in [Caller -> CallerPlace]
  /\ pc \in Place
  /\ outcome \in Outcome

CounterTypes ==
  /\ rounds \in 0..MaxRounds /\ calls \in 0..MaxCalls
  /\ pc = "executing" => calls > 0

\* Every member of s comes before every member of t.
Before(s, t) == \A i \in 1..Len(s), j \in 1..Len(t) : s[i] < t[j]

\* Nothing is in s that was not sent.
WasSent(s) == \A i \in 1..Len(s) : s[i] <= sent

\* What is in hand comes before what is in the inbox, and what was shown before
\* both, but for the activation of a step under way, which is shown and in hand.
Order ==
  /\ Increasing(shown) /\ Increasing(batch) /\ Increasing(inbox)
  /\ Before(batch, inbox) /\ Before(shown, inbox)
  /\ WasSent(shown) /\ WasSent(batch) /\ WasSent(inbox)
  /\ pc \in Between => batch = <<>>
  /\ pc \in {"cooling", "merged", "entering"} \cup InStep => batch # <<>>
  /\ pc \in Choosing => Before(shown, batch)
  /\ pc \in InStep => Before(shown, Rest)

\* A tool that has begun was no late one at the time, and a turn that did late
\* work is still called off.
Lateness ==
  /\ late \in {0, 1}
  /\ late = 1 => MaxRounds * MaxCalls > 0
  /\ pc = "executing" => late = 0
  /\ pc \in Working /\ ~CalledOff => late = 0

\* Nothing interrupts a DM, and only a chair refuses what it has in hand.
Refusals ==
  /\ role = "dm" => ~interrupted /\ at["engine"] # "flagging"
  /\ role # "chair" => swallowed = {}
  /\ role \in Roles

\* Nobody closes the inbox but to stop the agent, nothing interrupts a turn but what
\* is urgent, and in a turn something has been shown.
Causes ==
  /\ closed \/ at["stopper"] # "outside" => stopEvent
  /\ interrupted \/ at["engine"] = "flagging" => \E o \in Urgent : o <= sent
  /\ pc \in InStep => shown # <<>>

IInv ==
  /\ SeqTypes /\ FlagTypes /\ PlaceTypes /\ CounterTypes
  /\ Order /\ Lateness /\ Refusals /\ Causes

-----------------------------------------------------------------------------
(* Sequences.                                                              *)

\* A sequence is increasing exactly if its two parts are and the first comes
\* before the second.
LEMMA IncreasingConcat ==
  ASSUME NEW s \in Seq(Nat), NEW t \in Seq(Nat)
  PROVE  Increasing(s \o t) <=> Increasing(s) /\ Increasing(t) /\ Before(s, t)
<1>1. /\ Len(s \o t) = Len(s) + Len(t)
      /\ \A i \in 1..Len(s) : (s \o t)[i] = s[i]
      /\ \A j \in 1..Len(t) : (s \o t)[Len(s) + j] = t[j]
  OBVIOUS
<1>2. Len(s) \in Nat /\ Len(t) \in Nat
  OBVIOUS
<1>3. ASSUME Increasing(s \o t)
      PROVE  Increasing(s) /\ Increasing(t) /\ Before(s, t)
  <2>1. Increasing(s)
    <3>1. SUFFICES ASSUME NEW i \in 1..Len(s), NEW j \in 1..Len(s), i < j
                   PROVE  s[i] < s[j]
      BY DEF Increasing
    <3>2. i \in 1..Len(s \o t) /\ j \in 1..Len(s \o t)
      BY <1>1, <1>2
    <3>3. (s \o t)[i] < (s \o t)[j]
      BY <1>3, <3>1, <3>2 DEF Increasing
    <3> QED BY <1>1, <3>3
  <2>2. Increasing(t)
    <3>1. SUFFICES ASSUME NEW i \in 1..Len(t), NEW j \in 1..Len(t), i < j
                   PROVE  t[i] < t[j]
      BY DEF Increasing
    <3>2. /\ Len(s) + i \in 1..Len(s \o t) /\ Len(s) + j \in 1..Len(s \o t)
          /\ Len(s) + i < Len(s) + j
      BY <1>1, <1>2, <3>1
    <3>3. (s \o t)[Len(s) + i] < (s \o t)[Len(s) + j]
      BY <1>3, <3>2 DEF Increasing
    <3> QED BY <1>1, <3>3
  <2>3. Before(s, t)
    <3>1. SUFFICES ASSUME NEW i \in 1..Len(s), NEW j \in 1..Len(t)
                   PROVE  s[i] < t[j]
      BY DEF Before
    <3>2. i \in 1..Len(s \o t) /\ Len(s) + j \in 1..Len(s \o t) /\ i < Len(s) + j
      BY <1>1, <1>2
    <3>3. (s \o t)[i] < (s \o t)[Len(s) + j]
      BY <1>3, <3>2 DEF Increasing
    <3> QED BY <1>1, <3>3
  <2> QED BY <2>1, <2>2, <2>3
<1>4. ASSUME Increasing(s), Increasing(t), Before(s, t)
      PROVE  Increasing(s \o t)
  <2>1. SUFFICES ASSUME NEW i \in 1..Len(s \o t), NEW j \in 1..Len(s \o t), i < j
                 PROVE  (s \o t)[i] < (s \o t)[j]
    BY DEF Increasing
  <2>2. CASE j <= Len(s)
    BY <1>1, <1>2, <1>4, <2>1, <2>2 DEF Increasing
  <2>3. CASE i <= Len(s) /\ j > Len(s)
    <3>1. j - Len(s) \in 1..Len(t) /\ (s \o t)[j] = t[j - Len(s)]
      BY <1>1, <1>2, <2>3
    <3> QED BY <1>1, <1>2, <1>4, <2>3, <3>1 DEF Before
  <2>4. CASE i > Len(s)
    <3>1. /\ i - Len(s) \in 1..Len(t) /\ (s \o t)[i] = t[i - Len(s)]
          /\ j - Len(s) \in 1..Len(t) /\ (s \o t)[j] = t[j - Len(s)]
          /\ i - Len(s) < j - Len(s)
      BY <1>1, <1>2, <2>1, <2>4
    <3> QED BY <1>4, <3>1 DEF Increasing
  <2> QED BY <1>2, <2>1, <2>2, <2>3, <2>4
<1> QED BY <1>3, <1>4

\* What comes before both parts comes before the whole.
LEMMA BeforeConcat ==
  ASSUME NEW r \in Seq(Nat), NEW s \in Seq(Nat), NEW t \in Seq(Nat)
  PROVE  /\ Before(r, s) /\ Before(r, t) => Before(r, s \o t)
         /\ Before(r, t) /\ Before(s, t) => Before(r \o s, t)
<1>1. ASSUME NEW a \in Seq(Nat), NEW b \in Seq(Nat), NEW k \in 1..Len(a \o b)
      PROVE  \/ \E i \in 1..Len(a) : (a \o b)[k] = a[i]
             \/ \E i \in 1..Len(b) : (a \o b)[k] = b[i]
  <2>1. CASE k <= Len(a)
    BY <2>1
  <2>2. CASE k > Len(a)
    <3>1. k - Len(a) \in 1..Len(b) /\ (a \o b)[k] = b[k - Len(a)]
      BY <2>2
    <3> QED BY <3>1
  <2> QED BY <2>1, <2>2
<1>2. ASSUME Before(r, s), Before(r, t)
      PROVE  Before(r, s \o t)
  <2>1. SUFFICES ASSUME NEW i \in 1..Len(r), NEW k \in 1..Len(s \o t)
                 PROVE  r[i] < (s \o t)[k]
    BY DEF Before
  <2>2. CASE \E j \in 1..Len(s) : (s \o t)[k] = s[j]
    BY <1>2, <2>2 DEF Before
  <2>3. CASE \E j \in 1..Len(t) : (s \o t)[k] = t[j]
    BY <1>2, <2>3 DEF Before
  <2> QED BY <1>1, <2>2, <2>3
<1>3. ASSUME Before(r, t), Before(s, t)
      PROVE  Before(r \o s, t)
  <2>1. SUFFICES ASSUME NEW k \in 1..Len(r \o s), NEW j \in 1..Len(t)
                 PROVE  (r \o s)[k] < t[j]
    BY DEF Before
  <2>2. CASE \E i \in 1..Len(r) : (r \o s)[k] = r[i]
    BY <1>3, <2>2 DEF Before
  <2>3. CASE \E i \in 1..Len(s) : (r \o s)[k] = s[i]
    BY <1>3, <2>3 DEF Before
  <2> QED BY <1>1, <2>2, <2>3
<1> QED BY <1>2, <1>3

\* The same of what was sent.
LEMMA SentConcat ==
  ASSUME NEW s \in Seq(Nat), NEW t \in Seq(Nat), WasSent(s), WasSent(t)
  PROVE  WasSent(s \o t)
<1>1. SUFFICES ASSUME NEW k \in 1..Len(s \o t)
               PROVE  (s \o t)[k] <= sent
  BY DEF WasSent
<1>2. CASE k <= Len(s)
  BY <1>2 DEF WasSent
<1>3. CASE k > Len(s)
  <2>1. k - Len(s) \in 1..Len(t) /\ (s \o t)[k] = t[k - Len(s)]
    BY <1>3
  <2> QED BY <2>1 DEF WasSent
<1> QED BY <1>2, <1>3

\* An observation that is sent now comes after all that are in hand.
LEMMA AppendNew ==
  ASSUME NEW s \in Seq(Nat), NEW o \in Nat,
         \A i \in 1..Len(s) : s[i] < o
  PROVE  /\ Increasing(s) => Increasing(Append(s, o))
         /\ \A i \in 1..Len(Append(s, o)) : Append(s, o)[i] <= o
         /\ \A r : Before(r, s) /\ (\A i \in 1..Len(r) : r[i] < o) => Before(r, Append(s, o))
<1>1. /\ Len(Append(s, o)) = Len(s) + 1 /\ Append(s, o)[Len(s) + 1] = o
      /\ \A i \in 1..Len(s) : Append(s, o)[i] = s[i]
      /\ Len(s) \in Nat
  OBVIOUS
<1>2. \A i \in 1..(Len(s) + 1) : i \in 1..Len(s) \/ i = Len(s) + 1
  BY <1>1
<1>3. Increasing(s) => Increasing(Append(s, o))
  BY <1>1, <1>2 DEF Increasing
<1>4. \A i \in 1..Len(Append(s, o)) : Append(s, o)[i] <= o
  <2>1. \A i \in 1..Len(s) : s[i] \in Nat
    OBVIOUS
  <2> QED BY <1>1, <1>2, <2>1
<1>5. ASSUME NEW r, Before(r, s), \A i \in 1..Len(r) : r[i] < o
      PROVE  Before(r, Append(s, o))
  BY <1>1, <1>2, <1>5 DEF Before
<1> QED BY <1>3, <1>4, <1>5

\* Observations are numbers.
LEMMA SeqOfNat ==
  ASSUME NEW s \in Seq(Observation)
  PROVE  s \in Seq(Nat) /\ \A i \in 1..Len(s) : s[i] \in Nat
<1>1. Observation \subseteq Nat
  BY AgentAssumption DEF Observation
<1>2. \A i \in 1..Len(s) : s[i] \in Nat
  <2>1. ASSUME NEW i \in 1..Len(s)
        PROVE  s[i] \in Observation
    BY ElementOfSeq
  <2> QED BY <1>1, <2>1
<1>3. s \in Seq(Nat)
  BY <1>2, SeqDef
<1> QED BY <1>2, <1>3

\* The activation and the rest are the parts of a batch.
LEMMA Parts ==
  ASSUME SeqTypes, batch # <<>>
  PROVE  /\ Activation \in Seq(Observation) /\ Rest \in Seq(Observation)
         /\ Activation \o Rest = batch
<1>1. CASE role = "dm"
  <2>1. /\ Activation = <<Head(batch)>> /\ Rest = Tail(batch)
    BY <1>1 DEF Activation, Rest
  <2>2. Head(batch) \in Observation /\ Tail(batch) \in Seq(Observation)
    BY DEF SeqTypes
  <2>3. <<Head(batch)>> \o Tail(batch) = batch
    BY DEF SeqTypes
  <2> QED BY <2>1, <2>2, <2>3
<1>2. CASE role # "dm"
  <2>1. Activation = batch /\ Rest = <<>>
    BY <1>2 DEF Activation, Rest
  <2>2. batch \o <<>> = batch
    BY DEF SeqTypes
  <2> QED BY <2>1, <2>2 DEF SeqTypes
<1> QED BY <1>1, <1>2

-----------------------------------------------------------------------------
(* The invariant.                                                          *)

\* The activation and the rest of a batch are in order and in place, as the batch is.
LEMMA SplitBatch ==
  ASSUME SeqTypes, batch # <<>>, Increasing(batch), Before(batch, inbox), WasSent(batch)
  PROVE  /\ Increasing(Activation) /\ Increasing(Rest) /\ Before(Activation, Rest)
         /\ Before(Activation, inbox) /\ Before(Rest, inbox)
         /\ WasSent(Activation) /\ WasSent(Rest)
         /\ Before(shown, batch) => Before(shown, Activation) /\ Before(shown, Rest)
<1>1. CASE role = "dm"
  <2>1. Activation = <<Head(batch)>> /\ Rest = Tail(batch)
    BY <1>1 DEF Activation, Rest
  <2>2. /\ Len(batch) \in Nat \ {0} /\ Len(Activation) = 1 /\ Activation[1] = batch[1]
        /\ Len(Rest) = Len(batch) - 1
        /\ \A i \in 1..Len(Rest) : Rest[i] = batch[i + 1]
    BY <2>1 DEF SeqTypes
  <2>3. /\ 1 \in 1..Len(batch) /\ \A i \in 1..Len(Activation) : i = 1
        /\ \A i \in 1..Len(Rest) : i + 1 \in 1..Len(batch) /\ 1 < i + 1
    BY <2>2
  <2>4. Increasing(Activation) /\ Increasing(Rest)
    <3>1. Increasing(Activation)
      BY <2>3 DEF Increasing
    <3>2. ASSUME NEW i \in 1..Len(Rest), NEW j \in 1..Len(Rest), i < j
          PROVE  Rest[i] < Rest[j]
      <4>1. i + 1 \in 1..Len(batch) /\ j + 1 \in 1..Len(batch) /\ i + 1 < j + 1
        BY <2>2, <2>3, <3>2
      <4> QED BY <2>2, <4>1 DEF Increasing
    <3> QED BY <3>1, <3>2 DEF Increasing
  <2>5. Before(Activation, Rest)
    BY <2>2, <2>3 DEF Before, Increasing
  <2>6. Before(Activation, inbox) /\ Before(Rest, inbox)
    BY <2>2, <2>3 DEF Before
  <2>7. WasSent(Activation) /\ WasSent(Rest)
    BY <2>2, <2>3 DEF WasSent
  <2>8. Before(shown, batch) => Before(shown, Activation) /\ Before(shown, Rest)
    BY <2>2, <2>3 DEF Before
  <2> QED BY <2>4, <2>5, <2>6, <2>7, <2>8
<1>2. CASE role # "dm"
  <2>1. Activation = batch /\ Rest = <<>> /\ 1..Len(Rest) = {}
    BY <1>2 DEF Activation, Rest
  <2> QED BY <2>1 DEF Increasing, Before, WasSent
<1> QED BY <1>1, <1>2

\* What NextBatch puts in hand is in order, if what is left of the batch is.
LEMMA NextInOrder ==
  ASSUME NEW rest \in Seq(Observation), SeqTypes, Order, NextBatch(rest),
         Increasing(rest), Before(rest, inbox), Before(shown, rest), WasSent(rest),
         UNCHANGED <<sent, shown, role>>
  PROVE  Order' /\ (inbox \in Seq(Observation))' /\ (batch \in Seq(Observation))'
<1>1. 1..Len(<<>>) = {}
  OBVIOUS
<1>2. pc' = "deciding"
  BY DEF NextBatch
<1>3. CASE rest = <<>>
  <2>1. batch' = inbox /\ inbox' = <<>> /\ sent' = sent /\ shown' = shown
    BY <1>3 DEF NextBatch
  <2> QED BY <1>1, <1>2, <2>1
          DEF Order, SeqTypes, Increasing, Before, WasSent, Between, Choosing, InStep, Working
<1>4. CASE rest # <<>>
  <2>1. batch' = rest /\ inbox' = inbox /\ sent' = sent /\ shown' = shown
    BY <1>4 DEF NextBatch
  <2> QED BY <1>2, <2>1
          DEF Order, SeqTypes, Increasing, Before, WasSent, Between, Choosing, InStep, Working
<1> QED BY <1>3, <1>4

\* Every step keeps the types.
LEMMA TypesStep ==
  ASSUME IInv, [Next]_vars
  PROVE  (SeqTypes /\ FlagTypes /\ PlaceTypes /\ CounterTypes)'
<1> USE AgentAssumption DEF IInv
<1>0. batch # <<>> => /\ Activation \in Seq(Observation) /\ Rest \in Seq(Observation)
                      /\ Members(Activation) \subseteq Observation
  BY Parts DEF Members
<1>1. CASE UNCHANGED vars
  BY <1>1 DEF vars, SeqTypes, FlagTypes, PlaceTypes, CounterTypes
<1>2. CASE Notify
  <2>1. sent + 1 \in Observation /\ Append(inbox, sent + 1) \in Seq(Observation)
    BY <1>2 DEF Notify, SeqTypes, Observation
  <2>2. /\ inbox' = inbox \/ inbox' = Append(inbox, sent + 1)
        /\ sent' = sent + 1 /\ UNCHANGED <<batch, shown, swallowed>>
    BY <1>2 DEF Notify, workVars
  <2>3. SeqTypes'
    <3>1. sent' \in 0..Last
      BY <1>2, <2>2 DEF SeqTypes, Notify
    <3> QED BY <2>1, <2>2, <3>1 DEF SeqTypes
  <2>4. (FlagTypes /\ PlaceTypes /\ CounterTypes)'
    BY <1>2 DEF Notify, SeqTypes, FlagTypes, PlaceTypes, CounterTypes, Place, CallerPlace,
       Caller, Outcome, inboxVars, turnVars, llmVars, workVars
  <2> QED BY <2>3, <2>4
<1>3. CASE FlagTurn
  BY <1>3 DEF FlagTurn, SeqTypes, FlagTypes, PlaceTypes, CounterTypes, Place, CallerPlace,
     Caller, Outcome, inboxVars, turnVars, llmVars, workVars
<1>4. CASE SetLLMStop("engine")
  BY <1>4 DEF SetLLMStop, SeqTypes, FlagTypes, PlaceTypes, CounterTypes, Place,
     CallerPlace, Caller, Outcome, inboxVars, turnVars, llmVars, workVars
<1>5. CASE CancelTask("engine")
  BY <1>5 DEF CancelTask, SeqTypes, FlagTypes, PlaceTypes, CounterTypes, Place,
     CallerPlace, Caller, Outcome, inboxVars, turnVars, llmVars, workVars
<1>6. CASE RequestStop
  BY <1>6 DEF RequestStop, SeqTypes, FlagTypes, PlaceTypes, CounterTypes, Place,
     CallerPlace, Caller, Outcome, inboxVars, turnVars, llmVars, workVars
<1>7. CASE CloseInbox
  <2>1. SeqTypes'
    BY <1>0, <1>7 DEF CloseInbox, SeqTypes, Observation, inboxVars, workVars
  <2>2. (FlagTypes /\ PlaceTypes /\ CounterTypes)'
    BY <1>7 DEF CloseInbox, SeqTypes, FlagTypes, PlaceTypes, CounterTypes, Place,
       CallerPlace, Caller, Outcome, inboxVars, turnVars, llmVars, workVars
  <2> QED BY <2>1, <2>2
<1>8. CASE SetLLMStop("stopper")
  BY <1>8 DEF SetLLMStop, SeqTypes, FlagTypes, PlaceTypes, CounterTypes, Place,
     CallerPlace, Caller, Outcome, inboxVars, turnVars, llmVars, workVars
<1>9. CASE CancelTask("stopper")
  BY <1>9 DEF CancelTask, SeqTypes, FlagTypes, PlaceTypes, CounterTypes, Place,
     CallerPlace, Caller, Outcome, inboxVars, turnVars, llmVars, workVars
<1>10. CASE LoopTest
  BY <1>10 DEF LoopTest, SeqTypes, FlagTypes, PlaceTypes, CounterTypes, Place,
     CallerPlace, Caller, Outcome, inboxVars, turnVars, llmVars, workVars
<1>11. CASE TakeBatch
  <2>1. SeqTypes'
    BY <1>0, <1>11 DEF TakeBatch, SeqTypes, Observation, inboxVars, workVars
  <2>2. (FlagTypes /\ PlaceTypes /\ CounterTypes)'
    BY <1>11 DEF TakeBatch, SeqTypes, FlagTypes, PlaceTypes, CounterTypes, Place,
       CallerPlace, Caller, Outcome, inboxVars, turnVars, llmVars, workVars
  <2> QED BY <2>1, <2>2
<1>12. CASE TakeClosed
  BY <1>12 DEF TakeClosed, SeqTypes, FlagTypes, PlaceTypes, CounterTypes, Place,
     CallerPlace, Caller, Outcome, inboxVars, turnVars, llmVars, workVars
<1>13. CASE LeaveInner
  <2>1. SeqTypes'
    BY <1>0, <1>13 DEF LeaveInner, SeqTypes, Observation, inboxVars, workVars
  <2>2. (FlagTypes /\ PlaceTypes /\ CounterTypes)'
    BY <1>13 DEF LeaveInner, SeqTypes, FlagTypes, PlaceTypes, CounterTypes, Place,
       CallerPlace, Caller, Outcome, inboxVars, turnVars, llmVars, workVars
  <2> QED BY <2>1, <2>2
<1>14. CASE PassOver
  <2>1. SeqTypes'
    BY <1>0, <1>14 DEF PassOver, SeqTypes, Observation, NextBatch, inboxVars, workVars
  <2>2. (FlagTypes /\ PlaceTypes /\ CounterTypes)'
    BY <1>14 DEF PassOver, SeqTypes, FlagTypes, PlaceTypes, CounterTypes, Place,
       CallerPlace, Caller, Outcome, NextBatch, inboxVars, turnVars, llmVars, workVars
  <2> QED BY <2>1, <2>2
<1>15. CASE CoolDown
  BY <1>15 DEF CoolDown, SeqTypes, FlagTypes, PlaceTypes, CounterTypes, Place,
     CallerPlace, Caller, Outcome, inboxVars, turnVars, llmVars, workVars
<1>16. CASE Merge
  <2>1. SeqTypes'
    BY <1>0, <1>16 DEF Merge, SeqTypes, Observation, inboxVars, workVars
  <2>2. (FlagTypes /\ PlaceTypes /\ CounterTypes)'
    BY <1>16 DEF Merge, SeqTypes, FlagTypes, PlaceTypes, CounterTypes, Place, CallerPlace,
       Caller, Outcome, inboxVars, turnVars, llmVars, workVars
  <2> QED BY <2>1, <2>2
<1>17. CASE Activate
  BY <1>17 DEF Activate, SeqTypes, FlagTypes, PlaceTypes, CounterTypes, Place,
     CallerPlace, Caller, Outcome, inboxVars, turnVars, llmVars, workVars
<1>18. CASE EnterStopped
  BY <1>18 DEF EnterStopped, SeqTypes, FlagTypes, PlaceTypes, CounterTypes, Place,
     CallerPlace, Caller, Outcome, inboxVars, turnVars, llmVars, workVars
<1>19. CASE EnterRefused
  <2>1. batch # <<>>
    BY <1>19 DEF EnterRefused, Order
  <2>2. /\ UNCHANGED <<sent, shown>> /\ swallowed' = swallowed \cup Members(Activation)
        /\ NextBatch(Rest)
    BY <1>19 DEF EnterRefused
  <2>3. SeqTypes'
    BY <1>0, <2>1, <2>2 DEF SeqTypes, NextBatch
  <2>4. (FlagTypes /\ PlaceTypes /\ CounterTypes)'
    <3>1. pc' = "deciding" /\ UNCHANGED <<closed, stopEvent, turnVars, llmVars, at, rounds, calls, outcome>>
      BY <1>19 DEF EnterRefused, NextBatch
    <3>2. FlagTypes'
      BY <3>1 DEF FlagTypes, turnVars, llmVars
    <3>3. PlaceTypes'
      BY <3>1 DEF PlaceTypes, Place
    <3>4. CounterTypes'
      BY <3>1 DEF CounterTypes
    <3> QED BY <3>2, <3>3, <3>4
  <2> QED BY <2>3, <2>4
<1>20. CASE Enter
  <2>1. batch # <<>>
    BY <1>20 DEF Enter, Order
  <2>2. UNCHANGED <<inbox, sent, batch, swallowed>> /\ shown' = shown \o Activation
    BY <1>20 DEF Enter, inboxVars
  <2>3. SeqTypes'
    BY <1>0, <2>1, <2>2 DEF SeqTypes
  <2>4. (FlagTypes /\ PlaceTypes /\ CounterTypes)'
    <3>1. /\ pc' = "round" /\ interrupted' = FALSE /\ active' = TRUE /\ rounds' = MaxRounds
          /\ UNCHANGED <<closed, stopEvent, llmVars, at, calls, outcome>>
      BY <1>20 DEF Enter, inboxVars
    <3>2. FlagTypes'
      BY <3>1 DEF FlagTypes, turnVars, llmVars
    <3>3. PlaceTypes'
      BY <3>1 DEF PlaceTypes, Place
    <3>4. CounterTypes'
      BY <3>1 DEF CounterTypes
    <3> QED BY <3>2, <3>3, <3>4
  <2> QED BY <2>3, <2>4
<1>21. CASE Abandon
  BY <1>21 DEF Abandon, SeqTypes, FlagTypes, PlaceTypes, CounterTypes, Place, CallerPlace,
     Caller, Outcome, CalledOffOutcome, CalledOff, Leave, inboxVars, turnVars, llmVars,
     workVars
<1>22. CASE Complete
  BY <1>22 DEF Complete, SeqTypes, FlagTypes, PlaceTypes, CounterTypes, Place,
     CallerPlace, Caller, Outcome, CalledOff, Leave, inboxVars, turnVars, llmVars,
     workVars
<1>23. CASE BeginRound
  BY <1>23 DEF BeginRound, SeqTypes, FlagTypes, PlaceTypes, CounterTypes, Place,
     CallerPlace, Caller, Outcome, inboxVars, turnVars, llmVars, workVars
<1>24. CASE OpenStream
  BY <1>24 DEF OpenStream, SeqTypes, FlagTypes, PlaceTypes, CounterTypes, Place,
     CallerPlace, Caller, Outcome, inboxVars, turnVars, llmVars, workVars
<1>25. CASE StreamStopped
  BY <1>25 DEF StreamStopped, SeqTypes, FlagTypes, PlaceTypes, CounterTypes, Place,
     CallerPlace, Caller, Outcome, Leave, CalledOffOutcome, CalledOff, inboxVars,
     turnVars, llmVars, workVars
<1>26. CASE StreamCancelled
  BY <1>26 DEF StreamCancelled, SeqTypes, FlagTypes, PlaceTypes, CounterTypes, Place,
     CallerPlace, Caller, Outcome, Leave, CalledOffOutcome, CalledOff, inboxVars,
     turnVars, llmVars, workVars
<1>27. CASE StreamFails
  BY <1>27 DEF StreamFails, SeqTypes, FlagTypes, PlaceTypes, CounterTypes, Place,
     CallerPlace, Caller, Outcome, Leave, inboxVars, turnVars, llmVars, workVars
<1>28. CASE StreamEnds
  BY <1>28 DEF StreamEnds, SeqTypes, FlagTypes, PlaceTypes, CounterTypes, Place,
     CallerPlace, Caller, Outcome, inboxVars, turnVars, llmVars, workVars
<1>29. CASE TakeUpCalls
  BY <1>29 DEF TakeUpCalls, SeqTypes, FlagTypes, PlaceTypes, CounterTypes, Place,
     CallerPlace, Caller, Outcome, inboxVars, turnVars, llmVars, workVars
<1>30. CASE BeginTool
  BY <1>30 DEF BeginTool, SeqTypes, FlagTypes, PlaceTypes, CounterTypes, Place,
     CallerPlace, Caller, Outcome, inboxVars, turnVars, llmVars, workVars
<1>31. CASE ExecuteTool
  BY <1>31 DEF ExecuteTool, SeqTypes, FlagTypes, PlaceTypes, CounterTypes, Place,
     CallerPlace, Caller, Outcome, inboxVars, turnVars, llmVars, workVars
<1>32. CASE ToolRaises
  BY <1>32 DEF ToolRaises, SeqTypes, FlagTypes, PlaceTypes, CounterTypes, Place,
     CallerPlace, Caller, Outcome, Leave, inboxVars, turnVars, llmVars, workVars
<1>33. CASE ToolsDone
  BY <1>33 DEF ToolsDone, SeqTypes, FlagTypes, PlaceTypes, CounterTypes, Place,
     CallerPlace, Caller, Outcome, inboxVars, turnVars, llmVars, workVars
<1>34. CASE Finish
  <2>1. batch # <<>>
    BY <1>34 DEF Finish, Order, InStep
  <2>2. /\ UNCHANGED <<sent, shown, swallowed>>
        /\ NextBatch(Rest) \/ (pc' \in {"ended", "dead"} /\ UNCHANGED <<batch, inbox>>)
    BY <1>34 DEF Finish
  <2>3. SeqTypes'
    BY <1>0, <2>1, <2>2 DEF SeqTypes, NextBatch
  <2>4. (FlagTypes /\ PlaceTypes /\ CounterTypes)'
    <3>1. /\ pc' \in {"deciding", "ended", "dead"} /\ active' = FALSE /\ open' = FALSE
          /\ cancel' = FALSE /\ calls' = 0 /\ rounds' = 0
          /\ UNCHANGED <<closed, stopEvent, interrupted, llmStop, at, outcome>>
      BY <1>34 DEF Finish, NextBatch
    <3>2. FlagTypes'
      BY <3>1 DEF FlagTypes, turnVars, llmVars
    <3>3. PlaceTypes'
      BY <3>1 DEF PlaceTypes, Place
    <3>4. CounterTypes'
      BY <3>1 DEF CounterTypes
    <3> QED BY <3>2, <3>3, <3>4
  <2> QED BY <2>3, <2>4
<1> QED
  BY <1>1, <1>2, <1>3, <1>4, <1>5, <1>6, <1>7, <1>8, <1>9, <1>10, <1>11, <1>12, <1>13,
     <1>14, <1>15, <1>16, <1>17, <1>18, <1>19, <1>20, <1>21, <1>22, <1>23, <1>24, <1>25,
     <1>26, <1>27, <1>28, <1>29, <1>30, <1>31, <1>32, <1>33, <1>34 DEF Next, EngineStep,
     StopperStep, AgentStep, NotifyOn, StopOn, LoopStep, TurnStep

\* Moving on with the same sequences keeps their order, if the new place asks no
\* more of them than the old one did.
LEMMA MovedInOrder ==
  ASSUME Order, UNCHANGED <<inbox, batch, shown, sent, role>>,
         pc' \in Between => batch = <<>>,
         pc' \in {"cooling", "merged", "entering"} \cup InStep => batch # <<>>,
         pc' \in Choosing => pc \in Choosing \/ batch = <<>>,
         pc' \in InStep => pc \in InStep
  PROVE  Order'
<1>1. 1..Len(<<>>) = {}
  OBVIOUS
<1>2. Rest' = Rest
  BY DEF Rest
<1>3. ASSUME batch = <<>>
      PROVE  Before(shown, batch)
  BY <1>1, <1>3 DEF Before
<1>4. (Increasing(shown) /\ Increasing(batch) /\ Increasing(inbox) /\ Before(batch, inbox)
         /\ Before(shown, inbox) /\ WasSent(shown) /\ WasSent(batch) /\ WasSent(inbox))'
  BY DEF Order, Increasing, Before, WasSent
<1>5. (pc \in Choosing => Before(shown, batch))'
  BY <1>3 DEF Order, Before
<1>6. (pc \in InStep => Before(shown, Rest))'
  BY <1>2 DEF Order, Before
<1> QED BY <1>4, <1>5, <1>6 DEF Order

\* No step changes the order of observations.
LEMMA OrderStep ==
  ASSUME IInv, [Next]_vars
  PROVE  Order'
<1> DEFINE Same == UNCHANGED <<inbox, batch, shown, sent, role>>
<1> USE DEF IInv
<1>0. \A s : s = <<>> => 1..Len(s) = {}
  OBVIOUS
<1>r. UNCHANGED role
  BY DEF Next, EngineStep, StopperStep, AgentStep, vars
<1>1. CASE UNCHANGED vars
  BY <1>1, MovedInOrder DEF vars, Order, Between, Choosing, InStep
<1>2. CASE Notify
  <2>1. sent + 1 \in Observation
    BY AgentAssumption, <1>2 DEF Notify, SeqTypes, Observation
  <2>2. UNCHANGED <<batch, shown, role, pc>> /\ sent' = sent + 1
    BY <1>2, <1>r DEF Notify, workVars
  <2>3. inbox' = inbox \/ inbox' = Append(inbox, sent + 1)
    BY <1>2 DEF Notify
  <2>4. /\ \A i \in 1..Len(batch) : batch[i] \in Nat
        /\ \A i \in 1..Len(shown) : shown[i] \in Nat
        /\ \A i \in 1..Len(inbox) : inbox[i] \in Nat
    BY SeqOfNat DEF SeqTypes
  <2>5. /\ \A i \in 1..Len(batch) : batch[i] < sent + 1
        /\ \A i \in 1..Len(shown) : shown[i] < sent + 1
        /\ \A i \in 1..Len(inbox) : inbox[i] < sent + 1
    BY <2>4 DEF Order, WasSent, SeqTypes
  <2>6. inbox \in Seq(Nat) /\ sent + 1 \in Nat
    BY SeqOfNat, AgentAssumption DEF SeqTypes
  <2>7. /\ Increasing(Append(inbox, sent + 1))
        /\ Before(batch, Append(inbox, sent + 1)) /\ Before(shown, Append(inbox, sent + 1))
        /\ \A i \in 1..Len(Append(inbox, sent + 1)) : Append(inbox, sent + 1)[i] <= sent + 1
    BY <2>5, <2>6, AppendNew DEF Order
  <2>8. Increasing(inbox') /\ Before(batch, inbox') /\ Before(shown, inbox')
    BY <2>3, <2>7 DEF Order
  <2>9. WasSent(shown)' /\ WasSent(batch)'
    BY <2>2, <2>4, <2>5 DEF WasSent
  <2>10. WasSent(inbox)'
    <3>1. CASE inbox' = inbox
      BY <2>2, <2>4, <2>5, <3>1 DEF WasSent
    <3>2. CASE inbox' = Append(inbox, sent + 1)
      BY <2>2, <2>7, <3>2 DEF WasSent
    <3> QED BY <2>3, <3>1, <3>2
  <2>11. Rest' = Rest
    BY <2>2 DEF Rest
  <2> QED BY <2>2, <2>8, <2>9, <2>10, <2>11 DEF Order, Increasing, Before
<1>3. CASE FlagTurn
  <2>1. Same
    BY <1>3, <1>r DEF FlagTurn, inboxVars, workVars
  <2> QED BY <1>3, <2>1, MovedInOrder DEF FlagTurn, Order, Between, Choosing, InStep,
             Working
<1>4. CASE SetLLMStop("engine")
  <2>1. Same
    BY <1>4, <1>r DEF SetLLMStop, inboxVars, workVars
  <2> QED BY <1>4, <2>1, MovedInOrder DEF SetLLMStop, Order, Between, Choosing, InStep,
             Working
<1>5. CASE CancelTask("engine")
  <2>1. Same
    BY <1>5, <1>r DEF CancelTask, inboxVars, workVars
  <2> QED BY <1>5, <2>1, MovedInOrder DEF CancelTask, Order, Between, Choosing, InStep,
             Working
<1>6. CASE RequestStop
  <2>1. Same
    BY <1>6, <1>r DEF RequestStop, inboxVars, workVars
  <2> QED BY <1>6, <2>1, MovedInOrder DEF RequestStop, Order, Between, Choosing, InStep,
             Working
<1>7. CASE CloseInbox
  <2>1. UNCHANGED <<batch, shown, sent, role, pc>> /\ inbox' = <<>>
    BY <1>7, <1>r DEF CloseInbox, workVars
  <2>2. Rest' = Rest
    BY <2>1 DEF Rest
  <2> QED BY <1>0, <2>1, <2>2 DEF Order, Increasing, Before, WasSent
<1>8. CASE SetLLMStop("stopper")
  <2>1. Same
    BY <1>8, <1>r DEF SetLLMStop, inboxVars, workVars
  <2> QED BY <1>8, <2>1, MovedInOrder DEF SetLLMStop, Order, Between, Choosing, InStep,
             Working
<1>9. CASE CancelTask("stopper")
  <2>1. Same
    BY <1>9, <1>r DEF CancelTask, inboxVars, workVars
  <2> QED BY <1>9, <2>1, MovedInOrder DEF CancelTask, Order, Between, Choosing, InStep,
             Working
<1>10. CASE LoopTest
  <2>1. Same
    BY <1>10, <1>r DEF LoopTest, inboxVars, workVars
  <2> QED BY <1>10, <2>1, MovedInOrder DEF LoopTest, Order, Between, Choosing, InStep,
             Working
<1>11. CASE TakeBatch
  <2>1. /\ UNCHANGED <<shown, sent, role>> /\ inbox' = <<>> /\ batch' = inbox
        /\ pc' = "deciding"
    BY <1>11, <1>r DEF TakeBatch
  <2> QED BY <1>0, <2>1 DEF Order, Increasing, Before, WasSent, Between, Choosing, InStep,
             Working
<1>12. CASE TakeClosed
  <2>1. Same
    BY <1>12, <1>r DEF TakeClosed, inboxVars, workVars
  <2> QED BY <1>12, <2>1, MovedInOrder DEF TakeClosed, Order, Between, Choosing, InStep,
             Working
<1>13. CASE LeaveInner
  <2>1. /\ UNCHANGED <<inbox, shown, sent, role>> /\ batch' = <<>> /\ pc' = "waiting"
    BY <1>13, <1>r DEF LeaveInner, inboxVars
  <2> QED BY <1>0, <2>1 DEF Order, Increasing, Before, WasSent, Between, Choosing, InStep,
             Working
<1>14. CASE PassOver
  <2>1. NextBatch(<<>>) /\ UNCHANGED <<sent, shown, role>>
    BY <1>14, <1>r DEF PassOver
  <2>2. <<>> \in Seq(Observation)
    OBVIOUS
  <2>3. Increasing(<<>>) /\ Before(<<>>, inbox) /\ Before(shown, <<>>) /\ WasSent(<<>>)
    BY <1>0 DEF Increasing, Before, WasSent
  <2> QED BY <2>1, <2>2, <2>3, NextInOrder
<1>15. CASE CoolDown
  <2>1. Same
    BY <1>15, <1>r DEF CoolDown, inboxVars, workVars
  <2> QED BY <1>15, <2>1, MovedInOrder DEF CoolDown, Order, Between, Choosing, InStep,
             Working
<1>16. CASE Merge
  <2>1. /\ UNCHANGED <<shown, sent, role>> /\ inbox' = <<>> /\ batch' = batch \o inbox
        /\ pc' \in {"ended", "merged"}
    BY <1>16, <1>r DEF Merge
  <2>2. /\ batch \in Seq(Nat) /\ inbox \in Seq(Nat) /\ shown \in Seq(Nat)
    BY SeqOfNat DEF SeqTypes
  <2>3. batch # <<>> /\ Before(shown, batch)
    BY <1>16 DEF Merge, Order, Choosing
  <2>4. batch \o inbox # <<>>
    BY <2>2, <2>3
  <2>5. Increasing(batch \o inbox)
    BY <2>2, IncreasingConcat DEF Order
  <2>6. Before(shown, batch \o inbox)
    BY <2>2, <2>3, BeforeConcat DEF Order
  <2>7. WasSent(batch \o inbox)
    BY <2>2, SentConcat DEF Order
  <2>8. WasSent(batch)' /\ WasSent(shown)'
    BY <2>1, <2>7 DEF Order, WasSent
  <2> QED BY <1>0, <2>1, <2>4, <2>5, <2>6, <2>8
          DEF Order, Increasing, Before, WasSent, Between, Choosing, InStep, Working
<1>17. CASE Activate
  <2>1. Same
    BY <1>17, <1>r DEF Activate, inboxVars, workVars
  <2> QED BY <1>17, <2>1, MovedInOrder DEF Activate, Order, Between, Choosing, InStep,
             Working
<1>18. CASE EnterStopped
  <2>1. Same
    BY <1>18, <1>r DEF EnterStopped, inboxVars, workVars
  <2> QED BY <1>18, <2>1, MovedInOrder DEF EnterStopped, Order, Between, Choosing, InStep,
             Working
<1>19. CASE EnterRefused
  <2>1. NextBatch(Rest) /\ UNCHANGED <<sent, shown, role>>
    BY <1>19, <1>r DEF EnterRefused
  <2>2. batch # <<>> /\ Before(shown, batch)
    BY <1>19 DEF EnterRefused, Order, Choosing
  <2>3. Rest \in Seq(Observation)
    BY <2>2, Parts
  <2>4. Increasing(Rest) /\ Before(Rest, inbox) /\ Before(shown, Rest) /\ WasSent(Rest)
    BY <2>2, SplitBatch DEF Order
  <2> QED BY <2>1, <2>3, <2>4, NextInOrder
<1>20. CASE Enter
  <2>1. /\ UNCHANGED <<inbox, batch, sent, role>> /\ shown' = shown \o Activation
        /\ pc' = "round"
    BY <1>20, <1>r DEF Enter, inboxVars
  <2>2. batch # <<>> /\ Before(shown, batch)
    BY <1>20 DEF Enter, Order, Choosing
  <2>3. /\ Activation \in Seq(Nat) /\ Rest \in Seq(Nat) /\ shown \in Seq(Nat)
        /\ inbox \in Seq(Nat)
    BY <2>2, Parts, SeqOfNat DEF SeqTypes
  <2>4. /\ Increasing(Activation) /\ Before(Activation, Rest) /\ Before(Activation, inbox)
        /\ Before(shown, Activation) /\ Before(shown, Rest) /\ WasSent(Activation)
    BY <2>2, SplitBatch DEF Order
  <2>5. Increasing(shown \o Activation)
    BY <2>3, <2>4, IncreasingConcat DEF Order
  <2>6. Before(shown \o Activation, inbox) /\ Before(shown \o Activation, Rest)
    BY <2>3, <2>4, BeforeConcat DEF Order
  <2>7. WasSent(shown \o Activation)
    BY <2>3, <2>4, SentConcat DEF Order
  <2>8. Rest' = Rest
    BY <2>1 DEF Rest
  <2>9. WasSent(shown)' /\ WasSent(batch)' /\ WasSent(inbox)'
    BY <2>1, <2>7 DEF Order, WasSent
  <2>10. (Increasing(shown) /\ Increasing(batch) /\ Increasing(inbox)
            /\ Before(batch, inbox) /\ Before(shown, inbox))'
    BY <2>1, <2>5, <2>6 DEF Order
  <2>11. Before(shown, Rest)' /\ (batch # <<>>)'
    BY <2>1, <2>2, <2>6, <2>8
  <2> QED BY <2>1, <2>9, <2>10, <2>11 DEF Order, Between, Choosing, InStep, Working
<1>21. CASE Abandon
  <2>1. Same
    BY <1>21, <1>r DEF Abandon, Leave, inboxVars, workVars
  <2> QED BY <1>21, <2>1, MovedInOrder DEF Abandon, Leave, Order, Between, Choosing,
             InStep, Working
<1>22. CASE Complete
  <2>1. Same
    BY <1>22, <1>r DEF Complete, Leave, inboxVars, workVars
  <2> QED BY <1>22, <2>1, MovedInOrder DEF Complete, Leave, Order, Between, Choosing,
             InStep, Working
<1>23. CASE BeginRound
  <2>1. Same
    BY <1>23, <1>r DEF BeginRound, inboxVars, workVars
  <2> QED BY <1>23, <2>1, MovedInOrder DEF BeginRound, Order, Between, Choosing, InStep,
             Working
<1>24. CASE OpenStream
  <2>1. Same
    BY <1>24, <1>r DEF OpenStream, inboxVars, workVars
  <2> QED BY <1>24, <2>1, MovedInOrder DEF OpenStream, Order, Between, Choosing, InStep,
             Working
<1>25. CASE StreamStopped
  <2>1. Same
    BY <1>25, <1>r DEF StreamStopped, Leave, inboxVars, workVars
  <2> QED BY <1>25, <2>1, MovedInOrder DEF StreamStopped, Leave, Order, Between, Choosing,
             InStep, Working
<1>26. CASE StreamCancelled
  <2>1. Same
    BY <1>26, <1>r DEF StreamCancelled, Leave, inboxVars, workVars
  <2> QED BY <1>26, <2>1, MovedInOrder DEF StreamCancelled, Leave, Order, Between,
             Choosing, InStep, Working
<1>27. CASE StreamFails
  <2>1. Same
    BY <1>27, <1>r DEF StreamFails, Leave, inboxVars, workVars
  <2> QED BY <1>27, <2>1, MovedInOrder DEF StreamFails, Leave, Order, Between, Choosing,
             InStep, Working
<1>28. CASE StreamEnds
  <2>1. Same
    BY <1>28, <1>r DEF StreamEnds, inboxVars, workVars
  <2> QED BY <1>28, <2>1, MovedInOrder DEF StreamEnds, Order, Between, Choosing, InStep,
             Working
<1>29. CASE TakeUpCalls
  <2>1. Same
    BY <1>29, <1>r DEF TakeUpCalls, inboxVars, workVars
  <2> QED BY <1>29, <2>1, MovedInOrder DEF TakeUpCalls, Order, Between, Choosing, InStep,
             Working
<1>30. CASE BeginTool
  <2>1. Same
    BY <1>30, <1>r DEF BeginTool, inboxVars, workVars
  <2> QED BY <1>30, <2>1, MovedInOrder DEF BeginTool, Order, Between, Choosing, InStep,
             Working
<1>31. CASE ExecuteTool
  <2>1. Same
    BY <1>31, <1>r DEF ExecuteTool, inboxVars, workVars
  <2> QED BY <1>31, <2>1, MovedInOrder DEF ExecuteTool, Order, Between, Choosing, InStep,
             Working
<1>32. CASE ToolRaises
  <2>1. Same
    BY <1>32, <1>r DEF ToolRaises, Leave, inboxVars, workVars
  <2> QED BY <1>32, <2>1, MovedInOrder DEF ToolRaises, Leave, Order, Between, Choosing,
             InStep, Working
<1>33. CASE ToolsDone
  <2>1. Same
    BY <1>33, <1>r DEF ToolsDone, inboxVars, workVars
  <2> QED BY <1>33, <2>1, MovedInOrder DEF ToolsDone, Order, Between, Choosing, InStep,
             Working
<1>34. CASE Finish
  <2>1. batch # <<>> /\ Before(shown, Rest)
    BY <1>34 DEF Finish, Order, InStep
  <2>2. CASE NextBatch(Rest)
    <3>1. UNCHANGED <<sent, shown, role>>
      BY <1>34, <1>r DEF Finish
    <3>2. Rest \in Seq(Observation)
      BY <2>1, Parts
    <3>3. Increasing(Rest) /\ Before(Rest, inbox) /\ WasSent(Rest)
      BY <2>1, SplitBatch DEF Order
    <3> QED BY <2>1, <2>2, <3>1, <3>2, <3>3, NextInOrder
  <2>3. CASE pc' \in {"ended", "dead"} /\ UNCHANGED <<batch, inbox>>
    <3>1. Same
      BY <1>34, <1>r, <2>3 DEF Finish
    <3> QED BY <2>3, <3>1, MovedInOrder DEF Between, Choosing, InStep, Working
  <2> QED BY <1>34, <2>2, <2>3 DEF Finish
<1> QED
  BY <1>1, <1>2, <1>3, <1>4, <1>5, <1>6, <1>7, <1>8, <1>9, <1>10, <1>11, <1>12, <1>13,
     <1>14, <1>15, <1>16, <1>17, <1>18, <1>19, <1>20, <1>21, <1>22, <1>23, <1>24, <1>25,
     <1>26, <1>27, <1>28, <1>29, <1>30, <1>31, <1>32, <1>33, <1>34 DEF Next, EngineStep,
     StopperStep, AgentStep, NotifyOn, StopOn, LoopStep, TurnStep

\* A product of two positive numbers.
LEMMA ProductPositive ==
  ASSUME NEW m \in Nat \ {0}, NEW n \in Nat \ {0}
  PROVE  m * n > 0
  OBVIOUS

\* A product of two natural numbers.
LEMMA ProductNatural ==
  ASSUME NEW m \in Nat, NEW n \in Nat
  PROVE  m * n \in Nat
  OBVIOUS

\* At most the tool that had passed its check is late.
LEMMA LatenessStep ==
  ASSUME IInv, [Next]_vars
  PROVE  Lateness'
<1> USE DEF IInv
<1>1. CASE UNCHANGED vars
  BY <1>1 DEF vars, Lateness, CalledOff, Working
<1>2. CASE Notify
  BY <1>2 DEF Notify, Lateness, CalledOff, Working, inboxVars, turnVars, llmVars, workVars
<1>3. CASE FlagTurn
  BY <1>3 DEF FlagTurn, Lateness, CalledOff, Working, inboxVars, turnVars, llmVars,
     workVars
<1>4. CASE SetLLMStop("engine")
  BY <1>4 DEF SetLLMStop, Lateness, CalledOff, Working, inboxVars, turnVars, llmVars,
     workVars
<1>5. CASE CancelTask("engine")
  BY <1>5 DEF CancelTask, Lateness, CalledOff, Working, inboxVars, turnVars, llmVars,
     workVars
<1>6. CASE RequestStop
  BY <1>6 DEF RequestStop, Lateness, CalledOff, Working, inboxVars, turnVars, llmVars,
     workVars
<1>7. CASE CloseInbox
  BY <1>7 DEF CloseInbox, Lateness, CalledOff, Working, inboxVars, turnVars, llmVars,
     workVars
<1>8. CASE SetLLMStop("stopper")
  BY <1>8 DEF SetLLMStop, Lateness, CalledOff, Working, inboxVars, turnVars, llmVars,
     workVars
<1>9. CASE CancelTask("stopper")
  BY <1>9 DEF CancelTask, Lateness, CalledOff, Working, inboxVars, turnVars, llmVars,
     workVars
<1>10. CASE LoopTest
  BY <1>10 DEF LoopTest, Lateness, CalledOff, Working, inboxVars, turnVars, llmVars,
     workVars
<1>11. CASE TakeBatch
  BY <1>11 DEF TakeBatch, Lateness, CalledOff, Working, inboxVars, turnVars, llmVars,
     workVars
<1>12. CASE TakeClosed
  BY <1>12 DEF TakeClosed, Lateness, CalledOff, Working, inboxVars, turnVars, llmVars,
     workVars
<1>13. CASE LeaveInner
  BY <1>13 DEF LeaveInner, Lateness, CalledOff, Working, inboxVars, turnVars, llmVars,
     workVars
<1>14. CASE PassOver
  BY <1>14 DEF PassOver, NextBatch, Lateness, CalledOff, Working, inboxVars, turnVars,
     llmVars, workVars
<1>15. CASE CoolDown
  BY <1>15 DEF CoolDown, Lateness, CalledOff, Working, inboxVars, turnVars, llmVars,
     workVars
<1>16. CASE Merge
  BY <1>16 DEF Merge, Lateness, CalledOff, Working, inboxVars, turnVars, llmVars, workVars
<1>17. CASE Activate
  BY <1>17 DEF Activate, Lateness, CalledOff, Working, inboxVars, turnVars, llmVars,
     workVars
<1>18. CASE EnterStopped
  BY <1>18 DEF EnterStopped, Lateness, CalledOff, Working, inboxVars, turnVars, llmVars,
     workVars
<1>19. CASE EnterRefused
  BY <1>19 DEF EnterRefused, NextBatch, Lateness, CalledOff, Working, inboxVars, turnVars,
     llmVars, workVars
<1>20. CASE Enter
  <2>1. late' = 0 /\ pc' = "round"
    BY <1>20 DEF Enter
  <2> QED BY <2>1 DEF Lateness
<1>21. CASE Abandon
  BY <1>21 DEF Abandon, Leave, Lateness, CalledOff, Working, inboxVars, turnVars, llmVars,
     workVars
<1>22. CASE Complete
  BY <1>22 DEF Complete, Leave, Lateness, CalledOff, Working, inboxVars, turnVars,
     llmVars, workVars
<1>23. CASE BeginRound
  BY <1>23 DEF BeginRound, Lateness, CalledOff, Working, inboxVars, turnVars, llmVars,
     workVars
<1>24. CASE OpenStream
  BY <1>24 DEF OpenStream, Lateness, CalledOff, Working, inboxVars, turnVars, llmVars,
     workVars
<1>25. CASE StreamStopped
  BY <1>25 DEF StreamStopped, Leave, Lateness, CalledOff, Working, inboxVars, turnVars,
     llmVars, workVars
<1>26. CASE StreamCancelled
  BY <1>26 DEF StreamCancelled, Leave, Lateness, CalledOff, Working, inboxVars, turnVars,
     llmVars, workVars
<1>27. CASE StreamFails
  BY <1>27 DEF StreamFails, Leave, Lateness, CalledOff, Working, inboxVars, turnVars,
     llmVars, workVars
<1>28. CASE StreamEnds
  BY <1>28 DEF StreamEnds, Lateness, CalledOff, Working, inboxVars, turnVars, llmVars,
     workVars
<1>29. CASE TakeUpCalls
  BY <1>29 DEF TakeUpCalls, Lateness, CalledOff, Working, inboxVars, turnVars, llmVars,
     workVars
<1>30. CASE BeginTool
  BY <1>30 DEF BeginTool, Lateness, CalledOff, Working, inboxVars, turnVars, llmVars,
     workVars
<1>31. CASE ExecuteTool
  <2>1. late = 0 /\ calls \in 1..MaxCalls /\ pc' = "tools"
    BY <1>31 DEF ExecuteTool, Lateness, CounterTypes
  <2>2. MaxRounds * MaxCalls > 0
    BY <2>1, AgentAssumption, ProductPositive
  <2>3. late' = IF CalledOff THEN 1 ELSE 0
    BY <1>31, <2>1 DEF ExecuteTool
  <2>4. CalledOff' = CalledOff
    BY <1>31 DEF ExecuteTool, CalledOff, turnVars
  <2> QED BY <2>1, <2>2, <2>3, <2>4 DEF Lateness, Working
<1>32. CASE ToolRaises
  BY <1>32 DEF ToolRaises, Leave, Lateness, CalledOff, Working, inboxVars, turnVars,
     llmVars, workVars
<1>33. CASE ToolsDone
  BY <1>33 DEF ToolsDone, Lateness, CalledOff, Working, inboxVars, turnVars, llmVars,
     workVars
<1>34. CASE Finish
  BY <1>34 DEF Finish, NextBatch, Lateness, CalledOff, Working, inboxVars, turnVars,
     llmVars, workVars
<1> QED
  BY <1>1, <1>2, <1>3, <1>4, <1>5, <1>6, <1>7, <1>8, <1>9, <1>10, <1>11, <1>12, <1>13,
     <1>14, <1>15, <1>16, <1>17, <1>18, <1>19, <1>20, <1>21, <1>22, <1>23, <1>24, <1>25,
     <1>26, <1>27, <1>28, <1>29, <1>30, <1>31, <1>32, <1>33, <1>34 DEF Next, EngineStep,
     StopperStep, AgentStep, NotifyOn, StopOn, LoopStep, TurnStep

\* Nothing interrupts a DM, and only a chair refuses an observation.
LEMMA RefusalsStep ==
  ASSUME IInv, [Next]_vars
  PROVE  Refusals'
<1> USE DEF IInv
<1>r. UNCHANGED role
  BY DEF Next, EngineStep, StopperStep, AgentStep, vars
<1>1. CASE UNCHANGED vars
  BY <1>1 DEF vars, Refusals
<1>2. CASE Notify
  <2>1. UNCHANGED <<interrupted, swallowed>>
    BY <1>2 DEF Notify, turnVars, workVars
  <2>2. at'["engine"] = "flagging" => role # "dm"
    BY <1>2 DEF Notify, Interrupts, PlaceTypes, Caller
  <2> QED BY <1>r, <2>1, <2>2 DEF Refusals
<1>3. CASE FlagTurn
  BY <1>3, <1>r DEF FlagTurn, Refusals, inboxVars, turnVars, llmVars, workVars
<1>4. CASE SetLLMStop("engine")
  BY <1>4, <1>r DEF SetLLMStop, Refusals, inboxVars, turnVars, llmVars, workVars
<1>5. CASE CancelTask("engine")
  BY <1>5, <1>r DEF CancelTask, Refusals, inboxVars, turnVars, llmVars, workVars
<1>6. CASE RequestStop
  BY <1>6, <1>r DEF RequestStop, Refusals, inboxVars, turnVars, llmVars, workVars
<1>7. CASE CloseInbox
  BY <1>7, <1>r DEF CloseInbox, Refusals, inboxVars, turnVars, llmVars, workVars
<1>8. CASE SetLLMStop("stopper")
  BY <1>8, <1>r DEF SetLLMStop, Refusals, inboxVars, turnVars, llmVars, workVars
<1>9. CASE CancelTask("stopper")
  BY <1>9, <1>r DEF CancelTask, Refusals, inboxVars, turnVars, llmVars, workVars
<1>10. CASE LoopTest
  BY <1>10, <1>r DEF LoopTest, Refusals, inboxVars, turnVars, llmVars, workVars
<1>11. CASE TakeBatch
  BY <1>11, <1>r DEF TakeBatch, Refusals, inboxVars, turnVars, llmVars, workVars
<1>12. CASE TakeClosed
  BY <1>12, <1>r DEF TakeClosed, Refusals, inboxVars, turnVars, llmVars, workVars
<1>13. CASE LeaveInner
  BY <1>13, <1>r DEF LeaveInner, Refusals, inboxVars, turnVars, llmVars, workVars
<1>14. CASE PassOver
  BY <1>14, <1>r DEF PassOver, NextBatch, Refusals, inboxVars, turnVars, llmVars, workVars
<1>15. CASE CoolDown
  BY <1>15, <1>r DEF CoolDown, Refusals, inboxVars, turnVars, llmVars, workVars
<1>16. CASE Merge
  BY <1>16, <1>r DEF Merge, Refusals, inboxVars, turnVars, llmVars, workVars
<1>17. CASE Activate
  BY <1>17, <1>r DEF Activate, Refusals, inboxVars, turnVars, llmVars, workVars
<1>18. CASE EnterStopped
  BY <1>18, <1>r DEF EnterStopped, Refusals, inboxVars, turnVars, llmVars, workVars
<1>19. CASE EnterRefused
  <2>1. interrupted /\ role # "representative"
    BY <1>19 DEF EnterRefused, ChecksBeforeClearing
  <2>2. role = "chair"
    BY <2>1, AgentAssumption DEF Refusals
  <2>3. UNCHANGED <<interrupted, at>>
    BY <1>19 DEF EnterRefused, turnVars
  <2> QED BY <1>r, <2>2, <2>3 DEF Refusals
<1>20. CASE Enter
  <2>1. interrupted' = FALSE /\ UNCHANGED <<at, swallowed>>
    BY <1>20 DEF Enter
  <2> QED BY <1>r, <2>1 DEF Refusals
<1>21. CASE Abandon
  BY <1>21, <1>r DEF Abandon, Leave, Refusals, inboxVars, turnVars, llmVars, workVars
<1>22. CASE Complete
  BY <1>22, <1>r DEF Complete, Leave, Refusals, inboxVars, turnVars, llmVars, workVars
<1>23. CASE BeginRound
  BY <1>23, <1>r DEF BeginRound, Refusals, inboxVars, turnVars, llmVars, workVars
<1>24. CASE OpenStream
  BY <1>24, <1>r DEF OpenStream, Refusals, inboxVars, turnVars, llmVars, workVars
<1>25. CASE StreamStopped
  BY <1>25, <1>r DEF StreamStopped, Leave, Refusals, inboxVars, turnVars, llmVars,
     workVars
<1>26. CASE StreamCancelled
  BY <1>26, <1>r DEF StreamCancelled, Leave, Refusals, inboxVars, turnVars, llmVars,
     workVars
<1>27. CASE StreamFails
  BY <1>27, <1>r DEF StreamFails, Leave, Refusals, inboxVars, turnVars, llmVars, workVars
<1>28. CASE StreamEnds
  BY <1>28, <1>r DEF StreamEnds, Refusals, inboxVars, turnVars, llmVars, workVars
<1>29. CASE TakeUpCalls
  BY <1>29, <1>r DEF TakeUpCalls, Refusals, inboxVars, turnVars, llmVars, workVars
<1>30. CASE BeginTool
  BY <1>30, <1>r DEF BeginTool, Refusals, inboxVars, turnVars, llmVars, workVars
<1>31. CASE ExecuteTool
  BY <1>31, <1>r DEF ExecuteTool, Refusals, inboxVars, turnVars, llmVars, workVars
<1>32. CASE ToolRaises
  BY <1>32, <1>r DEF ToolRaises, Leave, Refusals, inboxVars, turnVars, llmVars, workVars
<1>33. CASE ToolsDone
  BY <1>33, <1>r DEF ToolsDone, Refusals, inboxVars, turnVars, llmVars, workVars
<1>34. CASE Finish
  BY <1>34, <1>r DEF Finish, NextBatch, Refusals, inboxVars, turnVars, llmVars, workVars
<1> QED
  BY <1>1, <1>2, <1>3, <1>4, <1>5, <1>6, <1>7, <1>8, <1>9, <1>10, <1>11, <1>12, <1>13,
     <1>14, <1>15, <1>16, <1>17, <1>18, <1>19, <1>20, <1>21, <1>22, <1>23, <1>24, <1>25,
     <1>26, <1>27, <1>28, <1>29, <1>30, <1>31, <1>32, <1>33, <1>34 DEF Next, EngineStep,
     StopperStep, AgentStep, NotifyOn, StopOn, LoopStep, TurnStep

\* Nobody closes the inbox but to stop the agent, nothing interrupts a turn but what
\* is urgent, and a turn begins with something that is shown.
LEMMA CausesStep ==
  ASSUME IInv, [Next]_vars
  PROVE  Causes'
<1> USE DEF Causes
<1>c. "stopper" \in Caller /\ "engine" \in Caller /\ at \in [Caller -> CallerPlace]
  BY DEF Caller, IInv, PlaceTypes
<1>i. Causes /\ sent \in Nat
  BY AgentAssumption DEF IInv, SeqTypes
<1>1. CASE UNCHANGED vars
  BY <1>1, <1>i DEF vars
<1>2. CASE Notify
  <2>1. /\ sent' = sent + 1
        /\ UNCHANGED <<closed, stopEvent, interrupted, pc, shown>>
        /\ at'["stopper"] = at["stopper"]
        /\ at'["engine"] = "flagging" => sent + 1 \in Urgent
    BY <1>2, <1>c DEF Notify, turnVars, workVars, Interrupts
  <2> QED BY <1>i, <2>1, AgentAssumption DEF Notify, Observation
<1>3. CASE FlagTurn
  <2>1. /\ interrupted' => interrupted \/ at["engine"] = "flagging"
        /\ UNCHANGED <<closed, sent, stopEvent, pc, shown>>
        /\ at'["stopper"] = at["stopper"] /\ at'["engine"] # "flagging"
    BY <1>3, <1>c DEF FlagTurn, inboxVars, workVars
  <2> QED BY <1>i, <2>1
<1>4. ASSUME NEW t \in Caller, SetLLMStop(t) \/ CancelTask(t)
      PROVE  Causes'
  <2>1. /\ UNCHANGED <<closed, sent, stopEvent, interrupted, pc, shown>>
        /\ at'["stopper"] # "outside" => at["stopper"] # "outside"
        /\ at'["engine"] = "flagging" => at["engine"] = "flagging"
    BY <1>4, <1>c DEF SetLLMStop, CancelTask, inboxVars, turnVars, workVars, Caller
  <2> QED BY <1>i, <2>1
<1>5. CASE RequestStop
  <2>1. /\ stopEvent' = TRUE /\ UNCHANGED <<closed, sent, interrupted, pc, shown>>
        /\ at'["engine"] = at["engine"]
    BY <1>5, <1>c DEF RequestStop, inboxVars, turnVars, workVars
  <2> QED BY <1>i, <2>1
<1>6. CASE CloseInbox
  <2>1. /\ at["stopper"] = "closing" /\ UNCHANGED <<sent, stopEvent, interrupted, pc, shown>>
        /\ at'["engine"] = at["engine"]
    BY <1>6, <1>c DEF CloseInbox, turnVars, workVars
  <2> QED BY <1>i, <2>1
<1>7. CASE LoopStep
  <2>1. UNCHANGED <<closed, at, sent, stopEvent, interrupted, shown>>
    BY <1>7 DEF LoopStep, LoopTest, TakeBatch, TakeClosed, LeaveInner, PassOver, CoolDown,
                Merge, Activate, inboxVars, turnVars, workVars
  <2>2. pc' \notin InStep
    BY <1>7 DEF LoopStep, LoopTest, TakeBatch, TakeClosed, LeaveInner, PassOver, CoolDown,
                Merge, Activate, NextBatch, InStep
  <2> QED BY <1>i, <2>1, <2>2
<1>8. CASE Enter
  <2>1. /\ UNCHANGED <<closed, at, sent, stopEvent>> /\ interrupted' = FALSE
        /\ shown' = shown \o Activation
    BY <1>8 DEF Enter, inboxVars
  <2>2. Activation \in Seq(Observation) /\ Activation # <<>> /\ shown \in Seq(Observation)
    <3>1. batch # <<>> /\ batch \in Seq(Observation)
      BY <1>8 DEF Enter, IInv, Order, SeqTypes
    <3> QED BY <3>1, Parts DEF IInv, SeqTypes, Activation
  <2>3. shown' # <<>>
    BY <2>1, <2>2, ConcatEqualIffEmpty
  <2> QED BY <1>i, <2>1, <2>3
<1>9. CASE TurnStep /\ ~Enter
  <2>1. UNCHANGED <<closed, at, sent, stopEvent, interrupted, shown>>
    BY <1>9 DEF TurnStep, EnterStopped, EnterRefused, Abandon, Complete, Leave, BeginRound,
                OpenStream, StreamStopped, StreamCancelled, StreamFails, StreamEnds,
                TakeUpCalls, BeginTool, ExecuteTool, ToolRaises, ToolsDone, Finish,
                inboxVars, turnVars, workVars
  <2>2. pc' \in InStep => pc \in InStep
    BY <1>9 DEF TurnStep, EnterStopped, EnterRefused, Abandon, Complete, Leave, BeginRound,
                OpenStream, StreamStopped, StreamCancelled, StreamFails, StreamEnds,
                TakeUpCalls, BeginTool, ExecuteTool, ToolRaises, ToolsDone, Finish,
                NextBatch, InStep
  <2> QED BY <1>i, <2>1, <2>2
<1> QED BY <1>c, <1>1, <1>2, <1>3, <1>4, <1>5, <1>6, <1>7, <1>8, <1>9
        DEF Next, EngineStep, StopperStep, AgentStep, NotifyOn, StopOn

-----------------------------------------------------------------------------
(* AgentTurn implements Mailbox.                                           *)

\* What waits, by the place of the agent.
LEMMA WaitingIs ==
  /\ pc \in Choosing => Waiting = batch \o inbox
  /\ pc \in InStep => Waiting = Rest \o inbox
  /\ pc \in Between => Waiting = <<>> \o inbox
  /\ Over => Waiting = <<>>
  /\ pc \in Choosing \cup InStep \cup Between => ~Over
BY DEF Waiting, InHand, Choosing, InStep, Between, Over

LEMMA WaitingBecomes ==
  /\ pc' \in Choosing => Waiting' = batch' \o inbox'
  /\ pc' \in InStep => Waiting' = Rest' \o inbox'
  /\ pc' \in Between => Waiting' = <<>> \o inbox'
  /\ Over' => Waiting' = <<>>
  /\ pc' \in Choosing \cup InStep \cup Between => ~Over'
BY DEF Waiting, InHand, Choosing, InStep, Between, Over

\* Whatever the place, it is what is in hand and what is in the inbox.
LEMMA WaitingParts ==
  ASSUME IInv, ~Over
  PROVE  InHand \in Seq(Observation) /\ Waiting = InHand \o inbox
<1>1. batch # <<>> => Rest \in Seq(Observation)
  BY Parts DEF IInv
<1>2. pc \in InStep => batch # <<>>
  BY DEF IInv, Order
<1> QED BY <1>1, <1>2 DEF InHand, Waiting, Choosing, IInv, SeqTypes

\* Most steps are of no matter to what waits.
LEMMA MailStays ==
  ASSUME UNCHANGED <<role, sent, shown, stopEvent>>, Waiting' = Waiting, Over' = Over
  PROVE  UNCHANGED Mail!vars
BY DEF Mail!vars

LEMMA StillOn ==
  ASSUME ~Over, ~Over'
  PROVE  Over' = Over
BY DEF Over

\* So it is with all that moves nothing but the agent.
LEMMA MailGoesOn ==
  ASSUME UNCHANGED <<role, sent, shown, stopEvent>>, Waiting' = Waiting,
         pc \in Choosing \cup InStep \cup Between,
         pc' \in Choosing \cup InStep \cup Between
  PROVE  UNCHANGED Mail!vars
<1>1. ~Over /\ ~Over'
  BY WaitingIs, WaitingBecomes
<1> QED BY <1>1, StillOn, MailStays

LEMMA PlaceStays ==
  ASSUME UNCHANGED <<role, sent, shown, stopEvent, inbox, batch, pc>>
  PROVE  UNCHANGED Mail!vars
<1>1. Waiting' = Waiting /\ Over' = Over
  BY DEF Waiting, InHand, Rest, Over
<1> QED BY <1>1, MailStays

\* The first part of what waits goes.
LEMMA PartDropped ==
  ASSUME NEW a \in Seq(Observation), NEW b \in Seq(Observation), a # <<>>,
         Waiting = a \o b, Waiting' = b
  PROVE  /\ Len(a) \in 1..Len(Waiting)
         /\ Mail!First(Len(a)) = a /\ Mail!Drop(Len(a))
         /\ \A i \in 1..Len(a) : Waiting[i] = a[i]
<1>1. /\ Len(a \o b) = Len(a) + Len(b) /\ Len(a) \in Nat \ {0} /\ Len(b) \in Nat
      /\ \A i \in 1..Len(a) : (a \o b)[i] = a[i]
  BY EmptySeq
<1>2. SubSeq(a \o b, 1, Len(a)) = a
  BY SubSeqOfConcat1, SubSeqFull
<1>3. SubSeq(a \o b, Len(a) + 1, Len(a \o b)) = b
  BY <1>1, SubSeqOfConcat2, SubSeqFull
<1> QED BY <1>1, <1>2, <1>3 DEF Mail!First, Mail!Drop

\* The agent's thread ends.
LEMMA ThreadEnds ==
  ASSUME ~Over, Over', stopEvent \/ shown # <<>>, UNCHANGED <<role, sent, shown, stopEvent>>
  PROVE  Mail!Next
<1>1. Waiting' = <<>>
  BY WaitingBecomes
<1> QED BY <1>1 DEF Mail!Next, Mail!End

\* What NextBatch leaves is the rest, and what has come in.
LEMMA NextWaits ==
  ASSUME SeqTypes, NEW rest \in Seq(Observation), NextBatch(rest)
  PROVE  Waiting' = rest \o inbox /\ ~Over'
<1>1. pc' \in Choosing
  BY DEF NextBatch, Choosing
<1>2. batch' \o inbox' = rest \o inbox
  <2>1. CASE rest = <<>>
    BY <2>1, ConcatEmptySeq DEF NextBatch, SeqTypes
  <2>2. CASE rest # <<>>
    BY <2>2 DEF NextBatch
  <2> QED BY <2>1, <2>2
<1> QED BY <1>1, <1>2, WaitingBecomes

\* An observation comes in.
LEMMA MailArrives ==
  ASSUME IInv, Notify, UNCHANGED role
  PROVE  Mail!Arrive
<1>1. /\ sent < Last /\ sent' = sent + 1
      /\ UNCHANGED <<shown, stopEvent, batch, pc>>
      /\ IF closed THEN inbox' = inbox ELSE inbox' = Append(inbox, sent + 1)
  BY DEF Notify, workVars
<1>2. InHand' = InHand /\ Over' = Over
  BY <1>1 DEF InHand, Rest, Over
<1>3. CASE closed
  BY <1>1, <1>2, <1>3 DEF IInv, Causes, Mail!Arrive, Waiting
<1>4. CASE Over
  BY <1>1, <1>2, <1>4 DEF Mail!Arrive, Waiting
<1>5. CASE ~closed /\ ~Over
  <2>1. InHand \in Seq(Observation) /\ Waiting = InHand \o inbox
    BY <1>5, WaitingParts
  <2>2. Waiting' = InHand \o Append(inbox, sent + 1)
    BY <1>1, <1>2, <1>5 DEF Waiting
  <2>3. inbox \in Seq(Observation) /\ sent + 1 \in Observation
    BY <1>1, AgentAssumption DEF IInv, SeqTypes, Observation
  <2>4. InHand \o Append(inbox, sent + 1) = Append(InHand \o inbox, sent + 1)
    BY <2>1, <2>3
  <2> QED BY <1>1, <1>2, <1>5, <2>1, <2>2, <2>4 DEF Mail!Arrive
<1> QED BY <1>3, <1>4, <1>5

\* The inbox is closed: what is in hand is kept.
LEMMA MailIsClosed ==
  ASSUME IInv, CloseInbox, UNCHANGED role
  PROVE  [Mail!Next]_(Mail!vars)
<1>1. /\ inbox' = <<>> /\ UNCHANGED <<sent, shown, stopEvent, batch, pc>>
  BY DEF CloseInbox, workVars
<1>2. stopEvent
  BY DEF CloseInbox, IInv, Causes
<1>3. InHand' = InHand /\ Over' = Over
  BY <1>1 DEF InHand, Rest, Over
<1>4. CASE Over
  BY <1>1, <1>3, <1>4, MailStays DEF Waiting
<1>5. CASE ~Over
  <2>1. InHand \in Seq(Observation) /\ Waiting = InHand \o inbox /\ inbox \in Seq(Observation)
    BY <1>5, WaitingParts DEF IInv, SeqTypes
  <2>2. Waiting' = InHand
    BY <1>1, <1>3, <1>5, <2>1, ConcatEmptySeq DEF Waiting
  <2>3. SubSeq(Waiting, 1, Len(InHand)) = InHand
    BY <2>1, SubSeqOfConcat1, SubSeqFull
  <2>4. Len(InHand) \in 0..Len(Waiting) /\ 1 \in 1..(Len(Waiting) + 1)
    BY <2>1
  <2>5. Mail!GiveUp(1, Len(InHand))
    BY <1>1, <1>2, <1>3, <2>2, <2>3 DEF Mail!GiveUp
  <2> QED BY <2>4, <2>5 DEF Mail!Next
<1> QED BY <1>4, <1>5

\* Between the turns: only a batch that is passed over, or that a stop finds in hand,
\* does not go on.
LEMMA LoopMails ==
  ASSUME IInv, LoopStep, UNCHANGED role
  PROVE  [Mail!Next]_(Mail!vars)
<1>t. /\ inbox \in Seq(Observation) /\ batch \in Seq(Observation)
      /\ UNCHANGED <<sent, shown, stopEvent>>
  BY DEF IInv, SeqTypes, LoopStep, LoopTest, TakeBatch, TakeClosed, LeaveInner, PassOver,
         CoolDown, Merge, Activate, inboxVars, workVars
<1>e. inbox \o <<>> = inbox /\ <<>> \o inbox = inbox
  BY <1>t, ConcatEmptySeq
<1>1. CASE LoopTest
  <2>1. pc \in Between /\ inbox' = inbox
    BY <1>1 DEF LoopTest, Between, inboxVars
  <2>2. CASE stopEvent
    <3>1. ~Over /\ Over'
      BY <1>1, <2>2 DEF LoopTest, Over
    <3> QED BY <1>t, <2>2, <3>1, ThreadEnds
  <2>3. CASE ~stopEvent
    <3>1. pc' \in Between
      BY <1>1, <2>3 DEF LoopTest, Between
    <3> QED BY <1>t, <2>1, <3>1, WaitingIs, WaitingBecomes, MailGoesOn
  <2> QED BY <2>2, <2>3
<1>2. CASE TakeBatch
  <2>1. pc \in Between /\ pc' \in Choosing /\ batch' = inbox /\ inbox' = <<>>
    BY <1>2 DEF TakeBatch, Between, Choosing
  <2> QED BY <1>t, <1>e, <2>1, WaitingIs, WaitingBecomes, MailGoesOn
<1>3. CASE TakeClosed
  <2>1. ~Over /\ Over' /\ stopEvent
    BY <1>3 DEF TakeClosed, Over, IInv, Causes
  <2> QED BY <1>t, <2>1, ThreadEnds
<1>4. CASE LeaveInner
  <2>1. /\ pc \in Choosing /\ pc' \in Between /\ inbox' = inbox
        /\ batch = <<>> \/ stopEvent
    BY <1>4 DEF LeaveInner, Between, Choosing, inboxVars
  <2>2. Waiting = batch \o inbox /\ Waiting' = inbox /\ ~Over /\ ~Over'
    BY <1>e, <2>1, WaitingIs, WaitingBecomes
  <2>3. CASE batch = <<>>
    BY <1>t, <1>e, <2>1, <2>2, <2>3, MailGoesOn
  <2>4. CASE batch # <<>>
    <3>1. Mail!Drop(Len(batch)) /\ Len(batch) \in 1..Len(Waiting)
      BY <1>t, <2>2, <2>4, PartDropped
    <3>2. Len(Waiting) \in Nat
      BY <1>t, <2>2
    <3>3. Len(batch) + 1 \in 1..(Len(Waiting) + 1) /\ Len(Waiting) \in 0..Len(Waiting)
      BY <3>1, <3>2
    <3>4. Mail!GiveUp(Len(batch) + 1, Len(Waiting))
      BY <1>t, <2>1, <2>2, <2>4, <3>1, StillOn DEF Mail!GiveUp, Mail!Drop
    <3> QED BY <3>3, <3>4 DEF Mail!Next
  <2> QED BY <2>3, <2>4
<1>5. CASE PassOver
  <2>1. /\ pc \in Choosing /\ batch # <<>> /\ NextBatch(<<>>)
        /\ role = "representative" /\ Members(batch) \cap Urgent = {}
    BY <1>5 DEF PassOver, MayPass, Choosing
  <2>2. Waiting = batch \o inbox /\ Waiting' = inbox /\ ~Over /\ ~Over'
    BY <1>e, <2>1, WaitingIs, NextWaits, EmptySeq DEF IInv
  <2>3. /\ Len(batch) \in 1..Len(Waiting) /\ Mail!Drop(Len(batch))
        /\ \A i \in 1..Len(batch) : Waiting[i] = batch[i]
    BY <1>t, <2>1, <2>2, PartDropped
  <2>4. \A i \in 1..Len(batch) : Waiting[i] \notin Urgent
    BY <2>1, <2>3 DEF Members
  <2>5. Mail!PassOver(Len(batch))
    BY <1>t, <2>1, <2>2, <2>3, <2>4, StillOn DEF Mail!PassOver
  <2> QED BY <2>3, <2>5 DEF Mail!Next
<1>6. CASE CoolDown \/ Activate
  <2>1. pc \in Choosing /\ pc' \in Choosing /\ batch' = batch /\ inbox' = inbox
    BY <1>6 DEF CoolDown, Activate, Choosing, inboxVars, workVars
  <2> QED BY <1>t, <2>1, WaitingIs, WaitingBecomes, MailGoesOn
<1>7. CASE Merge
  <2>1. /\ pc \in Choosing /\ batch' = batch \o inbox /\ inbox' = <<>>
        /\ pc' = IF closed THEN "ended" ELSE "merged"
    BY <1>7 DEF Merge, Choosing
  <2>2. CASE closed
    <3>1. ~Over /\ Over' /\ stopEvent
      BY <2>1, <2>2, WaitingIs DEF Over, IInv, Causes
    <3> QED BY <1>t, <3>1, ThreadEnds
  <2>3. CASE ~closed
    <3>1. pc' \in Choosing
      BY <2>1, <2>3 DEF Choosing
    <3>2. batch' \o inbox' = batch \o inbox
      BY <1>t, <2>1, ConcatProperties, ConcatEmptySeq
    <3> QED BY <1>t, <2>1, <3>1, <3>2, WaitingIs, WaitingBecomes, MailGoesOn
  <2> QED BY <2>2, <2>3
<1> QED BY <1>1, <1>2, <1>3, <1>4, <1>5, <1>6, <1>7 DEF LoopStep

\* A turn shows its activation, or refuses it; what is left over waits on.
LEMMA TurnMails ==
  ASSUME IInv, TurnStep, UNCHANGED role
  PROVE  [Mail!Next]_(Mail!vars)
<1>t. /\ inbox \in Seq(Observation) /\ batch \in Seq(Observation)
      /\ UNCHANGED <<sent, stopEvent>>
  BY DEF IInv, SeqTypes, TurnStep, EnterStopped, EnterRefused, Enter, Abandon, Complete,
         Leave, BeginRound, OpenStream, StreamStopped, StreamCancelled, StreamFails,
         StreamEnds, TakeUpCalls, BeginTool, ExecuteTool, ToolRaises, ToolsDone, Finish,
         inboxVars, workVars
<1>1. CASE EnterStopped
  <2>1. ~Over /\ Over' /\ stopEvent /\ shown' = shown
    BY <1>1 DEF EnterStopped, Over, workVars
  <2> QED BY <1>t, <2>1, ThreadEnds
<1>2. ASSUME pc = "entering"
      PROVE  /\ Activation \in Seq(Observation) /\ Activation # <<>>
             /\ Rest \in Seq(Observation) /\ Rest \o inbox \in Seq(Observation)
             /\ Waiting = Activation \o (Rest \o inbox) /\ ~Over
             /\ role = "dm" => Len(Activation) = 1
  <2>1. batch # <<>>
    BY <1>2 DEF IInv, Order
  <2>2. /\ Activation \in Seq(Observation) /\ Rest \in Seq(Observation)
        /\ Activation \o Rest = batch
    BY <2>1, Parts DEF IInv
  <2>3. Activation # <<>> /\ (role = "dm" => Len(Activation) = 1)
    BY <1>t, <2>1 DEF Activation
  <2>4. Waiting = batch \o inbox /\ ~Over
    BY <1>2, WaitingIs DEF Choosing
  <2>5. (Activation \o Rest) \o inbox = Activation \o (Rest \o inbox)
    <3>1. \A a, b \in Seq(Observation) : (a \o b) \o inbox = a \o (b \o inbox)
      BY <1>t, ConcatAssociative
    <3> QED BY <2>2, <3>1
  <2> QED BY <1>t, <2>2, <2>3, <2>4, <2>5, ConcatProperties
<1>3. CASE EnterRefused
  <2>1. pc = "entering" /\ interrupted /\ role # "representative" /\ NextBatch(Rest)
        /\ shown' = shown
    BY <1>3 DEF EnterRefused, ChecksBeforeClearing
  <2>2. Waiting' = Rest \o inbox /\ ~Over'
    BY <1>2, <2>1, NextWaits DEF IInv
  <2>3. role = "chair" /\ \E o \in Urgent : o <= sent
    BY <2>1, AgentAssumption DEF IInv, Refusals, Causes
  <2>4. Len(Activation) \in 1..Len(Waiting) /\ Mail!Drop(Len(Activation))
    BY <1>2, <2>1, <2>2, PartDropped
  <2>5. Mail!Refuse(Len(Activation))
    BY <1>t, <1>2, <2>1, <2>2, <2>3, <2>4, StillOn DEF Mail!Refuse
  <2> QED BY <2>4, <2>5 DEF Mail!Next
<1>4. CASE Enter
  <2>1. /\ pc = "entering" /\ pc' \in InStep /\ shown' = shown \o Activation
        /\ batch' = batch /\ inbox' = inbox
    BY <1>4 DEF Enter, InStep, inboxVars
  <2>2. Rest' = Rest
    BY <2>1 DEF Rest
  <2>3. Waiting' = Rest \o inbox /\ ~Over'
    BY <2>1, <2>2, WaitingBecomes
  <2>4. /\ Len(Activation) \in 1..Len(Waiting) /\ Mail!Drop(Len(Activation))
        /\ Mail!First(Len(Activation)) = Activation
    BY <1>2, <2>1, <2>3, PartDropped
  <2>5. Mail!Show(Len(Activation))
    BY <1>t, <1>2, <2>1, <2>3, <2>4, StillOn DEF Mail!Show
  <2> QED BY <2>4, <2>5 DEF Mail!Next
<1>5. CASE \/ Abandon \/ Complete \/ BeginRound \/ OpenStream \/ StreamStopped
           \/ StreamCancelled \/ StreamFails \/ StreamEnds \/ TakeUpCalls \/ BeginTool
           \/ ExecuteTool \/ ToolRaises \/ ToolsDone
  <2>1. UNCHANGED <<batch, inbox, shown>>
    BY <1>5 DEF Abandon, Complete, Leave, BeginRound, OpenStream, StreamStopped,
                StreamCancelled, StreamFails, StreamEnds, TakeUpCalls, BeginTool,
                ExecuteTool, ToolRaises, ToolsDone, inboxVars, workVars
  <2>2. pc \in InStep /\ pc' \in InStep
    BY <1>5 DEF Abandon, Complete, Leave, BeginRound, OpenStream, StreamStopped,
                StreamCancelled, StreamFails, StreamEnds, TakeUpCalls, BeginTool,
                ExecuteTool, ToolRaises, ToolsDone, InStep
  <2>3. Rest' = Rest
    BY <2>1 DEF Rest
  <2> QED BY <1>t, <2>1, <2>2, <2>3, WaitingIs, WaitingBecomes, MailGoesOn
<1>6. CASE Finish
  <2>1. pc \in InStep /\ shown' = shown
    BY <1>6 DEF Finish, InStep
  <2>2. batch # <<>> /\ shown # <<>>
    BY <2>1 DEF IInv, Order, Causes
  <2>3. Waiting = Rest \o inbox /\ ~Over /\ Rest \in Seq(Observation)
    BY <2>1, <2>2, WaitingIs, Parts DEF IInv
  <2>4. CASE NextBatch(Rest)
    BY <1>t, <2>1, <2>3, <2>4, NextWaits, StillOn, MailStays DEF IInv
  <2>5. CASE ~NextBatch(Rest)
    <3>1. Over'
      BY <1>6, <2>5 DEF Finish, Over
    <3> QED BY <1>t, <2>1, <2>2, <2>3, <3>1, ThreadEnds
  <2> QED BY <2>4, <2>5
<1> QED BY <1>1, <1>3, <1>4, <1>5, <1>6 DEF TurnStep

\* Every step is one of Mailbox, or none.
LEMMA StepMails ==
  ASSUME IInv, [Next]_vars
  PROVE  [Mail!Next]_(Mail!vars)
<1>1. CASE UNCHANGED vars
  BY <1>1, PlaceStays DEF vars
<1>2. CASE Notify /\ UNCHANGED role
  BY <1>2, MailArrives DEF Mail!Next
<1>3. CASE NotifyOn /\ UNCHANGED role
  <2>1. UNCHANGED <<sent, shown, stopEvent, inbox, batch, pc>>
    BY <1>3 DEF NotifyOn, FlagTurn, SetLLMStop, CancelTask, inboxVars, workVars
  <2> QED BY <1>3, <2>1, PlaceStays
<1>4. CASE RequestStop /\ UNCHANGED role
  <2>1. stopEvent' = TRUE /\ UNCHANGED <<sent, shown, inbox, batch, pc>>
    BY <1>4 DEF RequestStop, inboxVars, workVars
  <2>2. Waiting' = Waiting /\ Over' = Over
    BY <1>4, <2>1 DEF Waiting, InHand, Rest, Over
  <2> QED BY <1>4, <2>1, <2>2 DEF Mail!Next, Mail!Stop
<1>5. CASE CloseInbox /\ UNCHANGED role
  BY <1>5, MailIsClosed
<1>6. CASE (SetLLMStop("stopper") \/ CancelTask("stopper")) /\ UNCHANGED role
  <2>1. UNCHANGED <<sent, shown, stopEvent, inbox, batch, pc>>
    BY <1>6 DEF SetLLMStop, CancelTask, inboxVars, workVars
  <2> QED BY <1>6, <2>1, PlaceStays
<1>7. CASE LoopStep /\ UNCHANGED role
  BY <1>7, LoopMails
<1>8. CASE TurnStep /\ UNCHANGED role
  BY <1>8, TurnMails
<1> QED BY <1>1, <1>2, <1>3, <1>4, <1>5, <1>6, <1>7, <1>8
        DEF Next, EngineStep, StopperStep, AgentStep, StopOn

-----------------------------------------------------------------------------
(* The theorems.                                                           *)

\* The inductive invariant holds for every kind of agent, and any numbers of
\* observations, tools and rounds.
THEOREM Invariance == Spec => []IInv
<1>1. Init => IInv
  <2>1. ASSUME Init
        PROVE  IInv
    <3>1. \A s : s = <<>> => 1..Len(s) = {}
      OBVIOUS
    <3>2. SeqTypes /\ FlagTypes /\ PlaceTypes /\ CounterTypes
      <4>1. SeqTypes
        BY <2>1, AgentAssumption DEF Init, SeqTypes
      <4>2. FlagTypes
        BY <2>1 DEF Init, FlagTypes
      <4>3. PlaceTypes
        BY <2>1 DEF Init, PlaceTypes, Place, CallerPlace, Outcome
      <4>4. CounterTypes
        BY <2>1, AgentAssumption DEF Init, CounterTypes
      <4> QED BY <4>1, <4>2, <4>3, <4>4
    <3>3. Order
      BY <2>1, <3>1
         DEF Init, Order, Increasing, Before, WasSent, Between, Choosing, InStep, Working
    <3>4. Lateness /\ Refusals /\ Causes
      BY <2>1 DEF Init, Lateness, Refusals, Causes, Working, InStep, Caller
    <3> QED BY <3>2, <3>3, <3>4 DEF IInv
  <2> QED BY <2>1
<1>2. IInv /\ [Next]_vars => IInv'
  BY TypesStep, OrderStep, LatenessStep, RefusalsStep, CausesStep DEF IInv
<1> QED BY <1>1, <1>2, PTL DEF Spec

\* Every variable keeps its type, whatever is sent and whenever the agent is
\* interrupted or stopped.
THEOREM TypeCorrect == Spec => []TypeOK
<1>1. IInv => TypeOK
  <2>1. ASSUME IInv
        PROVE  TypeOK
    <3>1. late \in 0..(MaxRounds * MaxCalls)
      BY <2>1, AgentAssumption, ProductNatural DEF IInv, Lateness
    <3>2. {closed, stopEvent, interrupted, active, llmStop, open, cancel} \subseteq BOOLEAN
      BY <2>1 DEF IInv, FlagTypes
    <3>3. /\ at \in [Caller -> {"outside", "flagging", "stopping", "cancelling",
                                "closing", "finished"}]
          /\ outcome \in {"none", "completed", "interrupted", "stopped", "cancelled",
                          "failed"}
      BY <2>1 DEF IInv, PlaceTypes, CallerPlace, Outcome
    <3>4. pc \in {"waiting", "blocked", "deciding", "cooling", "merged", "entering",
                  "round", "calling", "streaming", "answered", "tools", "executing",
                  "leaving", "ended", "dead"}
      BY <2>1 DEF IInv, PlaceTypes, Place
    <3>5. rounds \in 0..MaxRounds /\ calls \in 0..MaxCalls
      BY <2>1 DEF IInv, CounterTypes
    <3>6. /\ inbox \in Seq(Observation) /\ batch \in Seq(Observation)
          /\ shown \in Seq(Observation) /\ swallowed \subseteq Observation
          /\ sent \in 0..Last
      BY <2>1 DEF IInv, SeqTypes
    <3> QED BY <3>1, <3>2, <3>3, <3>4, <3>5, <3>6 DEF TypeOK
  <2> QED BY <2>1
<1> QED BY <1>1, Invariance, PTL

\* No observation reaches two prompts and none overtakes another, through batches,
\* cooling and take_ready.
THEOREM InOrder == Spec => []PromptsInOrder
<1>1. IInv => PromptsInOrder
  <2>1. ASSUME IInv
        PROVE  PromptsInOrder
    <3>1. batch \in Seq(Nat) /\ inbox \in Seq(Nat)
      BY <2>1, SeqOfNat DEF IInv, SeqTypes
    <3> QED BY <2>1, <3>1, IncreasingConcat DEF IInv, Order, PromptsInOrder
  <2> QED BY <2>1
<1> QED BY <1>1, Invariance, PTL

\* Once a turn is called off, at most one tool of it still runs.
THEOREM LittleLateWork == Spec => []LateWorkBounded
<1>1. IInv => LateWorkBounded
  BY DEF IInv, Lateness, LateWorkBounded
<1> QED BY <1>1, Invariance, PTL

\* Neither a representative nor a DM loses an observation to the interruption of an
\* earlier turn.
THEOREM NoneSwallowed == Spec => []NothingSwallowed
<1>1. IInv => NothingSwallowed
  BY DEF IInv, Refusals, NothingSwallowed
<1> QED BY <1>1, Invariance, PTL

\* An agent has the mailbox of Mailbox: what it is sent reaches its prompts in order,
\* and until it is stopped or dies only a representative passes over what is not
\* urgent, and only a chair loses what it should have seen (AgentInbox,
\* EventDrivenSystemAgent.step, RepresentativeAgent.step).
THEOREM ImplementsMailbox == Spec => MailSpec
<1>1. ASSUME Init PROVE Mail!Init
  <2>1. Waiting = <<>> /\ ~Over
    <3>1. pc \in Between /\ inbox = <<>>
      BY <1>1 DEF Init, Between
    <3>2. <<>> \o <<>> = <<>>
      OBVIOUS
    <3> QED BY <3>1, <3>2, WaitingIs
  <2> QED BY <1>1, <2>1, AgentAssumption DEF Init, Mail!Init, Over
<1>2. IInv /\ [Next]_vars => [Mail!Next]_(Mail!vars)
  BY StepMails
<1> QED BY <1>1, <1>2, Invariance, PTL DEF Spec, MailSpec, Mail!Spec
=============================================================================
