------------------------ MODULE PhaseSchedulerProofs ------------------------
(***************************************************************************)
(* What TLAPS proves of PhaseScheduler, for every set of batches, every    *)
(* sweep limit and every value of the four delays.                         *)
(***************************************************************************)
EXTENDS PhaseScheduler, WellFoundedInduction, TLAPS

-----------------------------------------------------------------------------
(***************************************************************************)
(* Lemmas about the loop's operators.                                      *)
(***************************************************************************)

(* A nonempty set of instants has an earliest one, which Min names.        *)
LEMMA MinOfNat ==
    ASSUME NEW T \in SUBSET Nat, T # {}
    PROVE  Min(T) \in T /\ \A n \in T : Min(T) <= n
<1>1. PICK m \in T : \A n \in T : ~(<<n, m>> \in OpToRel(<, Nat))
  BY NatLessThanWellFounded, WFMin
<1>2. \A n \in T : m <= n
  <2>1. \A n \in T : ~(n < m)
    BY <1>1 DEF OpToRel
  <2> QED
    BY <2>1
<1> QED
  BY <1>2 DEF Min

(* The longest sleep is the longer of the two constants it is made of.     *)
LEMMA MaxOfSleeps ==
    /\ Max({Fallback, Retry}) \in Nat
    /\ Fallback <= Max({Fallback, Retry}) /\ Retry <= Max({Fallback, Retry})
<1> DEFINE Longest == IF Fallback >= Retry THEN Fallback ELSE Retry
<1>1. Longest \in {Fallback, Retry} /\ \A y \in {Fallback, Retry} : Longest >= y
  BY SchedulerAssumption
<1>2. Max({Fallback, Retry}) \in {Fallback, Retry}
      /\ \A y \in {Fallback, Retry} : Max({Fallback, Retry}) >= y
  BY <1>1 DEF Max
<1> QED
  BY <1>2, SchedulerAssumption

(* The alarm is set for the earliest boundary there is.                    *)
Aimed ==
    \/ alarm = None /\ Scheduled = {}
    \/ \E b \in Scheduled : due[b] = alarm /\ \A c \in Scheduled : alarm <= due[c]

(* nextDueBoundary answers the earliest boundary there is, or that there   *)
(* is none.                                                                *)
LEMMA NextDueIsEarliest ==
    ASSUME TypeOK
    PROVE  /\ NextDue \in Ahead \cup {None}
           /\ alarm' = NextDue /\ UNCHANGED due => Aimed'
<1> DEFINE Instants == {due[b] : b \in Scheduled}
<1>1. CASE Scheduled = {}
  BY <1>1 DEF NextDue, Aimed, Scheduled
<1>2. CASE Scheduled # {}
  <2>0. \A b \in Scheduled : due[b] \in Ahead
    BY DEF TypeOK, Scheduled
  <2>1. Instants \in SUBSET Ahead /\ Instants \in SUBSET Nat /\ Instants # {}
    BY <1>2, <2>0, SchedulerAssumption DEF Ahead
  <2>2. NextDue \in Instants /\ \A n \in Instants : NextDue <= n
    BY <1>2, <2>1, MinOfNat DEF NextDue
  <2>3. PICK b \in Scheduled : due[b] = NextDue
    BY <2>2
  <2>4. \A c \in Scheduled : NextDue <= due[c]
    BY <2>2
  <2> QED
    BY <2>1, <2>2, <2>3, <2>4 DEF Aimed, Scheduled
<1> QED
  BY <1>1, <1>2

(* However the alarm is set, the sleep is one the type allows.             *)
LEMMA PauseType ==
    ASSUME NEW next \in Ahead \cup {None}
    PROVE  phasePause(next) \in 0..Max({Fallback, Retry})
BY MaxOfSleeps, SchedulerAssumption DEF phasePause, Ahead

-----------------------------------------------------------------------------
(***************************************************************************)
(* Type correctness.                                                       *)
(***************************************************************************)

(* The loop starts with every variable of its type.                        *)
LEMMA TypeInit == Init => TypeOK
<1> SUFFICES ASSUME Init PROVE TypeOK
  OBVIOUS
<1>1. left \in 0..Max({Fallback, Retry})
  BY MaxOfSleeps DEF Init
<1> QED
  BY <1>1 DEF Init, TypeOK

(* No step of the loop, of its callers or of the session leaves a badly    *)
(* typed variable.                                                         *)
LEMMA TypeStep == TypeOK /\ [Next]_vars => TypeOK'
<1> SUFFICES ASSUME TypeOK, [Next]_vars PROVE TypeOK'
  OBVIOUS
<1> USE SchedulerAssumption, MaxOfSleeps
<1>1. CASE Tick
  <2>1. \A t \in Ahead \cup {None} : Closer(t) \in Ahead \cup {None}
    BY DEF Closer, Ahead
  <2>2. Closer(left) \in 0..Max({Fallback, Retry})
    BY DEF Closer, TypeOK
  <2> QED
    BY <1>1, <2>1, <2>2 DEF Tick, TypeOK, signalVars
<1>2. ASSUME NEW b \in Batch, NEW t \in Ahead \cup {None}, PlanWrite(b, t) PROVE TypeOK'
  BY <1>2 DEF PlanWrite, Announce, TypeOK
<1>3. CASE SessionDies
  BY <1>3 DEF SessionDies, TypeOK, loopVars
<1>4. CASE SessionOpens
  BY <1>4 DEF SessionOpens, TypeOK, loopVars
<1>5. CASE Relay
  BY <1>5 DEF Relay, TypeOK, loopVars
<1>6. CASE RelayDrops
  BY <1>6 DEF RelayDrops, TypeOK, loopVars
<1>7. CASE Sweep
  BY <1>7 DEF Sweep, TypeOK, Past, Scheduled, signalVars
<1>8. CASE SweepFails
  BY <1>8 DEF SweepFails, TypeOK, signalVars
<1>9. ASSUME NEW b \in Batch, SweepOne(b) PROVE TypeOK'
  <2>1. CASE b \in crossed
    <3>1. PICK t \in Ahead \cup {None} : due' = [due EXCEPT ![b] = t]
      BY <1>9, <2>1 DEF SweepOne
    <3>2. due' \in [Batch -> Ahead \cup {None}]
      BY <3>1 DEF TypeOK
    <3> QED
      BY <1>9, <2>1, <3>2 DEF SweepOne, Announce, TypeOK
  <2>2. CASE b \notin crossed
    BY <1>9, <2>2 DEF SweepOne, TypeOK, signalVars
  <2> QED
    BY <2>1, <2>2
<1>10. CASE SkipOne
  BY <1>10 DEF SkipOne, TypeOK, signalVars
<1>11. CASE SweepEnds
  BY <1>11 DEF SweepEnds, TypeOK, signalVars
<1>12. CASE ReadAlarm
  BY <1>12, NextDueIsEarliest DEF ReadAlarm, TypeOK
<1>13. CASE AlarmFails
  BY <1>13 DEF AlarmFails, TypeOK
<1>14. CASE FallAsleep
  BY <1>14, PauseType DEF FallAsleep, TypeOK, signalVars
<1>15. CASE TimerFires
  BY <1>15 DEF TimerFires, TypeOK, signalVars
<1>16. CASE SignalTaken
  <2>1. left' \in 0..Max({Fallback, Retry})
    BY <1>16 DEF SignalTaken
  <2> QED
    BY <1>16, <2>1 DEF SignalTaken, TypeOK
<1>17. CASE Restart
  <2>1. left' \in 0..Max({Fallback, Retry})
    BY <1>17 DEF Restart
  <2> QED
    BY <1>17, <2>1 DEF Restart, TypeOK
<1>18. CASE UNCHANGED vars
  BY <1>18 DEF vars, TypeOK
<1> QED
  BY <1>1, <1>2, <1>3, <1>4, <1>5, <1>6, <1>7, <1>8, <1>9, <1>10, <1>11, <1>12, <1>13,
     <1>14, <1>15, <1>16, <1>17, <1>18 DEF Next, LoopStep

(* The loop, its callers and the LISTEN session keep every variable in its *)
(* type, and no sleep is longer than the longer of PHASE_FALLBACK and      *)
(* PHASE_RETRY whatever the alarm said (phasePause, scheduler.ts:79).      *)
THEOREM TypeCorrect == Spec => []TypeOK
BY TypeInit, TypeStep, PTL DEF Spec

-----------------------------------------------------------------------------
(***************************************************************************)
(* The loop never oversleeps.                                              *)
(*                                                                         *)
(* That the sleep is short enough says nothing until the alarm is set, and *)
(* the alarm says nothing until it is read: the invariant carries what was *)
(* learnt from the diary through the two steps between the read and the    *)
(* sleep, during which plans are written and time passes.                  *)
(***************************************************************************)

(* Somebody has something to tell the loop, or what was told is lost.      *)
Signalled == wake \/ bus \/ lost

(* Nothing ahead is slept past, or a boundary already past has the loop    *)
(* back within PHASE_RETRY.                                                *)
InTime ==
    \/ \A b \in Scheduled : left <= due[b] + Margin
    \/ Past # {} /\ left <= Retry

AlarmHolds ==
    /\ pc = "aim" => Signalled \/ Aimed
    /\ pc = "asleep" => Signalled \/ InTime

(* Time passing keeps the aim: all of it comes closer together.            *)
LEMMA TickKeepsAim ==
    ASSUME TypeOK, Tick
    PROVE  /\ Aimed => Aimed'
           /\ InTime => InTime'
<1> USE SchedulerAssumption
<1>1. /\ Scheduled' = Scheduled
      /\ \A b \in Scheduled : due[b] \in Nat /\ due'[b] = Closer(due[b]) /\ due'[b] \in Nat
  <2>1. \A b \in Batch : due[b] \in Ahead \cup {None} /\ due'[b] = Closer(due[b])
    BY DEF Tick, TypeOK
  <2>2. \A t \in Ahead \cup {None} :
            /\ Closer(t) = None <=> t = None
            /\ t # None => t \in Nat /\ Closer(t) \in Nat
    BY DEF Closer, Ahead
  <2>3. \A b \in Batch : due'[b] # None <=> due[b] # None
    BY <2>1, <2>2
  <2> QED
    BY <2>1, <2>2, <2>3 DEF Scheduled
<1>2. Aimed => Aimed'
  <2>1. CASE alarm = None /\ Scheduled = {}
    BY <2>1, <1>1 DEF Tick, Aimed, Closer
  <2>2. ASSUME NEW b \in Scheduled, due[b] = alarm, \A c \in Scheduled : alarm <= due[c]
        PROVE  Aimed'
    <3>1. alarm \in Nat /\ alarm' = due'[b]
      BY <2>2, <1>1 DEF Tick
    <3>2. \A c \in Scheduled : alarm' <= due'[c]
      BY <2>2, <3>1, <1>1 DEF Closer
    <3> QED
      BY <3>1, <3>2, <1>1 DEF Aimed
  <2> QED
    BY <2>1, <2>2 DEF Aimed
<1>3. InTime => InTime'
  <2>0. left \in Nat /\ left' = Closer(left) /\ left' \in Nat /\ left' <= left
    BY MaxOfSleeps DEF Tick, Closer, TypeOK
  <2>1. CASE \A b \in Scheduled : left <= due[b] + Margin
    BY <2>0, <2>1, <1>1 DEF InTime, Closer
  <2>2. CASE Past # {} /\ left <= Retry
    <3>1. PICK b \in Scheduled : due[b] = 0
      BY <2>2 DEF Past
    <3>2. b \in Past'
      BY <3>1, <1>1 DEF Past, Closer
    <3>3. left' <= Retry
      BY <2>0, <2>2
    <3> QED
      BY <3>2, <3>3 DEF InTime
  <2> QED
    BY <2>1, <2>2 DEF InTime
<1> QED
  BY <1>2, <1>3

(* An alarm that is right makes a sleep that is in time.                   *)
LEMMA AimedSleepIsInTime ==
    ASSUME TypeOK, Aimed, FallAsleep
    PROVE  InTime'
<1> USE SchedulerAssumption
<1>1. /\ left' = phasePause(alarm) /\ Scheduled' = Scheduled /\ Past' = Past
      /\ \A b \in Scheduled : due[b] \in Nat /\ due'[b] = due[b]
  BY DEF FallAsleep, Scheduled, Past, TypeOK, Ahead
<1>2. CASE alarm = None /\ Scheduled = {}
  BY <1>1, <1>2 DEF InTime
<1>3. ASSUME NEW b \in Scheduled, due[b] = alarm, \A c \in Scheduled : alarm <= due[c]
      PROVE  InTime'
  <2>1. alarm \in Nat
    BY <1>1, <1>3
  <2>2. CASE alarm = 0
    BY <1>1, <1>3, <2>1, <2>2 DEF InTime, Past, phasePause
  <2>3. CASE alarm # 0
    <3>1. left' <= alarm + Margin /\ left' \in Nat
      BY <1>1, <2>1, <2>3 DEF phasePause
    <3> QED
      BY <1>1, <1>3, <2>1, <3>1 DEF InTime
  <2> QED
    BY <2>2, <2>3
<1> QED
  BY <1>2, <1>3 DEF Aimed

(* The loop starts awake, with nothing to be late for.                     *)
LEMMA AlarmHoldsInit == Init => AlarmHolds
BY DEF Init, AlarmHolds

(* Every step keeps the aim or leaves word that it may be off.             *)
LEMMA AlarmHoldsStep == TypeOK /\ AlarmHolds /\ [Next]_vars => AlarmHolds'
<1> SUFFICES ASSUME TypeOK, AlarmHolds, [Next]_vars PROVE AlarmHolds'
  OBVIOUS
<1>1. CASE Tick
  BY <1>1, TickKeepsAim DEF Tick, AlarmHolds, Signalled, signalVars
<1>2. ASSUME NEW b \in Batch, NEW t \in Ahead \cup {None}, PlanWrite(b, t)
      PROVE  AlarmHolds'
  BY <1>2 DEF PlanWrite, Announce, AlarmHolds, Signalled, TypeOK
<1>3. CASE SessionDies
  BY <1>3 DEF SessionDies, AlarmHolds, Signalled, Aimed, InTime, Scheduled, Past, loopVars
<1>4. CASE SessionOpens
  BY <1>4 DEF SessionOpens, AlarmHolds, Signalled, Aimed, InTime, Scheduled, Past, loopVars
<1>5. CASE Relay
  BY <1>5 DEF Relay, AlarmHolds, Signalled
<1>6. CASE RelayDrops
  BY <1>6 DEF RelayDrops, AlarmHolds, Signalled
<1>7. CASE Sweep \/ SweepFails \/ SkipOne \/ SweepEnds \/ (\E b \in Batch : SweepOne(b))
  BY <1>7 DEF Sweep, SweepFails, SkipOne, SweepEnds, SweepOne, AlarmHolds
<1>8. CASE ReadAlarm
  BY <1>8, NextDueIsEarliest DEF ReadAlarm, AlarmHolds
<1>9. CASE AlarmFails
  BY <1>9 DEF AlarmFails, AlarmHolds, Signalled
<1>10. CASE FallAsleep
  BY <1>10, AimedSleepIsInTime DEF FallAsleep, AlarmHolds, Signalled, signalVars
<1>11. CASE TimerFires \/ SignalTaken \/ Restart
  BY <1>11 DEF TimerFires, SignalTaken, Restart, AlarmHolds
<1>12. CASE UNCHANGED vars
  BY <1>12 DEF vars, AlarmHolds, Signalled, Aimed, InTime, Scheduled, Past
<1> QED
  BY <1>1, <1>2, <1>3, <1>4, <1>5, <1>6, <1>7, <1>8, <1>9, <1>10, <1>11, <1>12
  DEF Next, LoopStep

(* Whenever plans are written and however announcements are lost or late,  *)
(* a loop that sleeps past a boundary by more than the margin (and, behind *)
(* a boundary already past, by more than PHASE_RETRY) is one with a signal *)
(* on its way, or one whose signal was lost since it read the diary        *)
(* (scheduler.ts:173-184).                                                 *)
THEOREM LoopNeverOversleeps == Spec => []NeverOversleeps
<1>1. TypeOK /\ AlarmHolds => NeverOversleeps
  <2> SUFFICES ASSUME TypeOK, AlarmHolds, Late PROVE Signalled
    BY DEF NeverOversleeps, Signalled
  <2>1. pc = "asleep" /\ left \in Nat
    BY MaxOfSleeps DEF Late, TypeOK
  <2>2. ~InTime
    BY <2>1, SchedulerAssumption DEF Late, InTime, Scheduled, TypeOK, Ahead
  <2> QED
    BY <2>1, <2>2 DEF AlarmHolds
<1> QED
  BY <1>1, TypeInit, TypeStep, AlarmHoldsInit, AlarmHoldsStep, PTL DEF Spec

-----------------------------------------------------------------------------
(***************************************************************************)
(* The diary the loop sweeps is the one PhaseDiary describes.              *)
(*                                                                         *)
(* A sweep writes down what had passed by a clock it read earlier; it      *)
(* obeys the diary because what it found past is past when it takes the    *)
(* batch, or has been rewritten by somebody else and is left alone.        *)
(***************************************************************************)

(* What the sweep still takes for past is past.                            *)
CrossedArePast == \A b \in crossed : due[b] = 0

(* Time passing, plan edits and the sweep itself keep what the sweep takes *)
(* for past in the past.                                                   *)
LEMMA CrossedStep == TypeOK /\ CrossedArePast /\ [Next]_vars => CrossedArePast'
<1> SUFFICES ASSUME TypeOK, CrossedArePast, [Next]_vars PROVE CrossedArePast'
  OBVIOUS
<1>1. CASE Tick
  BY <1>1 DEF Tick, CrossedArePast, Closer, TypeOK
<1>2. ASSUME NEW b \in Batch, NEW t \in Ahead \cup {None}, PlanWrite(b, t)
      PROVE  CrossedArePast'
  BY <1>2 DEF PlanWrite, CrossedArePast, TypeOK
<1>3. CASE Sweep
  BY <1>3 DEF Sweep, CrossedArePast, Past
<1>4. ASSUME NEW b \in Batch, SweepOne(b) PROVE CrossedArePast'
  BY <1>4 DEF SweepOne, CrossedArePast, TypeOK
<1>5. CASE SessionDies \/ SessionOpens \/ Relay \/ RelayDrops
  BY <1>5 DEF SessionDies, SessionOpens, Relay, RelayDrops, loopVars, CrossedArePast
<1>6. CASE SweepFails \/ SkipOne \/ SweepEnds \/ ReadAlarm \/ AlarmFails \/ FallAsleep
  BY <1>6 DEF SweepFails, SkipOne, SweepEnds, ReadAlarm, AlarmFails, FallAsleep, CrossedArePast
<1>7. CASE TimerFires \/ SignalTaken \/ Restart \/ UNCHANGED vars
  BY <1>7 DEF TimerFires, SignalTaken, Restart, vars, CrossedArePast
<1> QED
  BY <1>1, <1>2, <1>3, <1>4, <1>5, <1>6, <1>7 DEF Next, LoopStep

(* Every step moves the diary of every batch as PhaseDiary allows.         *)
LEMMA DiaryStep ==
    ASSUME TypeOK, CrossedArePast, Next, NEW b \in Batch
    PROVE  DiaryOf(b)!DNext \/ due'[b] = due[b]
<1> USE SchedulerAssumption
<1>0. due[b] \in Nat \cup {None}
  BY DEF TypeOK, Ahead
<1>1. CASE Tick
  <2>1. due'[b] = Closer(due[b])
    BY <1>1 DEF Tick
  <2> QED
    BY <2>1 DEF Closer, DiaryOf!DNext, DiaryOf!DTick
<1>2. ASSUME NEW c \in Batch, NEW t \in Ahead \cup {None}, PlanWrite(c, t)
      PROVE  DiaryOf(b)!DNext \/ due'[b] = due[b]
  <2>1. CASE c = b
    <3>1. due'[b] = t /\ t # 0 /\ t \in Nat \cup {None}
      BY <1>2, <2>1 DEF PlanWrite, TypeOK, Ahead
    <3> QED
      BY <3>1 DEF DiaryOf!DNext, DiaryOf!DWrite
  <2>2. CASE c # b
    BY <1>2, <2>2 DEF PlanWrite, TypeOK
  <2> QED
    BY <2>1, <2>2
<1>3. ASSUME NEW c \in Batch, SweepOne(c)
      PROVE  DiaryOf(b)!DNext \/ due'[b] = due[b]
  <2>1. CASE c = b /\ b \in crossed
    <3>1. due[b] = 0 /\ due'[b] \in Nat \cup {None}
      BY <1>3, <2>1 DEF SweepOne, TypeOK, Ahead, CrossedArePast
    <3> QED
      BY <3>1 DEF DiaryOf!DNext, DiaryOf!DSweep
  <2>2. CASE ~(c = b /\ b \in crossed)
    BY <1>3, <2>2 DEF SweepOne, TypeOK
  <2> QED
    BY <2>1, <2>2
<1>4. CASE ~Tick /\ ~(\E c \in Batch, t \in Ahead \cup {None} : PlanWrite(c, t))
           /\ ~(\E c \in Batch : SweepOne(c))
  <2>1. due' = due
    BY <1>4 DEF Next, LoopStep, SessionDies, SessionOpens, Relay, RelayDrops, Sweep, SweepFails,
                SkipOne, SweepEnds, ReadAlarm, AlarmFails, FallAsleep, TimerFires,
                SignalTaken, Restart
  <2> QED
    BY <2>1
<1> QED
  BY <1>1, <1>2, <1>3, <1>4

(* Whatever the loop, its callers, the session and restarts do, the next   *)
(* boundary of every batch becomes past by the clock alone, or is what a   *)
(* sweep leaves of a batch that was past due.  PhaseDiaryProofs shows the  *)
(* same of the rows of a batch, so the two models can stand side by side   *)
(* (phase/scheduler.ts:173-184).                                           *)
THEOREM DiariesObeyed == Spec => DiariesKept
<1>1. Init => CrossedArePast
  BY DEF Init, CrossedArePast
<1>2. TypeOK /\ CrossedArePast /\ [Next]_vars
        => [\A b \in Batch : [DiaryOf(b)!DNext]_(due[b])]_due
  <2> SUFFICES ASSUME TypeOK, CrossedArePast, [Next]_vars, NEW b \in Batch
               PROVE  DiaryOf(b)!DNext \/ due'[b] = due[b]
    OBVIOUS
  <2>1. CASE Next
    BY <2>1, DiaryStep
  <2>2. CASE UNCHANGED vars
    BY <2>2 DEF vars
  <2> QED
    BY <2>1, <2>2
<1> QED
  BY <1>1, <1>2, TypeInit, TypeStep, CrossedStep, PTL DEF Spec, DiariesKept
=============================================================================
