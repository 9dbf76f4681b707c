--------------------------- MODULE PhaseDiaryProofs ---------------------------
(***************************************************************************)
(* The phase rows of a batch are the diary the phase loop sleeps by,       *)
(* proved of PhaseTimeline: the candidate query finds exactly the batches  *)
(* the engine would move, and the batch implements PhaseDiary.             *)
(***************************************************************************)
EXTENDS PhaseHistoryProofs

-----------------------------------------------------------------------------
(***************************************************************************)
(* The candidate query.                                                    *)
(***************************************************************************)

(* A boundary that has passed is one the walk of the plan crosses: what    *)
(* stands before it is entered, or was due earlier still.                  *)
LEMMA PassedIsReached ==
    ASSUME TypeOK, ShapeInv, NEW j \in Index, actual[plan[j]] = None,
           planned[plan[j]] # None, planned[plan[j]] <= now
    PROVE  plan[j] \in PendingBy(now)
<1>1. j \in Nat /\ j >= 1 /\ j <= Len(plan) /\ Len(plan) \in Nat /\ now \in Nat
      /\ \A k \in Index : plan[k] \in PhaseId
  BY DEF Index, TypeOK
<1>2. \A k \in Index : k < j => isScheduled(plan[k]) /\ EntryAt(plan[k]) < planned[plan[j]]
  BY DEF ShapeInv, InOrder, Timed, Entry, EntryAt, isScheduled, Index
<1>3. ASSUME NEW k \in 1..j
      PROVE  MaterializedUpTo(k) \/ (planned[plan[k]] # None /\ planned[plan[k]] <= now)
  <2>1. k \in Index
    BY <1>1 DEF Index
  <2>2. CASE k = j
    BY <2>2
  <2>3. CASE k # j /\ actual[plan[k]] # None
    <3>1. \A l \in 1..k : actual[plan[l]] # None
      BY <2>1, <2>3, <1>1 DEF ShapeInv, InOrder, Timed, Index
    <3> QED
      BY <3>1 DEF MaterializedUpTo
  <2>4. CASE k # j /\ actual[plan[k]] = None
    <3>1. k < j
      BY <1>1, <2>4
    <3>2. planned[plan[k]] # None /\ planned[plan[k]] < planned[plan[j]]
      BY <1>2, <2>1, <2>4, <3>1 DEF isScheduled, EntryAt
    <3>3. planned[plan[k]] \in Nat /\ planned[plan[j]] \in Nat
      BY <3>2, <2>1, <1>1 DEF TypeOK
    <3> QED
      BY <3>2, <3>3, <1>1
  <2> QED
    BY <2>2, <2>3, <2>4
<1>4. ReachedBy(j, now)
  BY <1>1, <1>3 DEF ReachedBy
<1>5. ~MaterializedUpTo(j)
  BY <1>1 DEF MaterializedUpTo
<1> QED
  BY <1>4, <1>5 DEF PendingBy

(* What the walk crosses has passed and is not entered.                    *)
LEMMA ReachedHasPassed ==
    ASSUME TypeOK, ShapeInv, NEW p \in PendingBy(now)
    PROVE  p \in InPlan /\ actual[p] = None /\ planned[p] # None /\ planned[p] <= now
<1>1. PICK j \in Index : p = plan[j] /\ ~MaterializedUpTo(j)
  BY DEF PendingBy
<1>2. p \in InPlan /\ planned[p] \in Nat /\ planned[p] <= now
  BY PendingPlanned DEF TypeOK
<1>3. actual[p] = None
  <2> SUFFICES ASSUME actual[p] # None PROVE FALSE
    OBVIOUS
  <2>1. j \in Nat /\ Len(plan) \in Nat /\ j <= Len(plan)
    BY DEF Index, TypeOK
  <2>2. \A k \in 1..j : actual[plan[k]] # None
    BY <1>1, <2>1 DEF ShapeInv, InOrder, Timed, Index
  <2> QED
    BY <1>1, <2>2 DEF MaterializedUpTo
<1> QED
  BY <1>2, <1>3, NoneAssumption

(* The rows and the walk agree about what is due: the candidate query,     *)
(* which may never under-approximate (server/db.ts:2410-2419), takes no    *)
(* batch for nothing either, so a batch that is swept is moved on.         *)
THEOREM CandidatesAreExact == Spec => []CandidatesExact
<1>1. TypeOK /\ ShapeInv => CandidatesExact
  <2> SUFFICES ASSUME TypeOK, ShapeInv, status = "active"
               PROVE  DueBoundary <=> PendingBy(now) # {}
    BY DEF CandidatesExact
  <2>1. ASSUME DueBoundary PROVE PendingBy(now) # {}
    <3>1. PICK j \in Index : /\ actual[plan[j]] = None /\ planned[plan[j]] # None
                             /\ planned[plan[j]] <= now
      BY <2>1 DEF DueBoundary, InPlan
    <3> QED
      BY <3>1, PassedIsReached
  <2>2. ASSUME PendingBy(now) # {} PROVE DueBoundary
    BY <2>2, ReachedHasPassed DEF DueBoundary
  <2> QED
    BY <2>1, <2>2
<1> QED
  BY <1>1, TypeCorrect, ShapeInvariant, PTL

-----------------------------------------------------------------------------
(***************************************************************************)
(* The diary.                                                              *)
(***************************************************************************)

(* The next boundary is a number of ticks, none exactly when no row has    *)
(* one, and past exactly when the candidate query finds the batch.         *)
LEMMA DueView ==
    TypeOK => /\ Due \in Nat \cup {None}
              /\ Due = 0 <=> DueBoundary
<1> SUFFICES ASSUME TypeOK PROVE Due \in Nat \cup {None} /\ (Due = 0 <=> DueBoundary)
  OBVIOUS
<1> USE NoneAssumption
<1>1. Upcoming \in SUBSET Nat /\ now \in Nat
  BY DEF Upcoming, InPlan, Index, TypeOK
<1>2. DueBoundary <=> \E n \in Upcoming : n <= now
  BY DEF DueBoundary, Upcoming
<1>3. CASE Upcoming = {}
  BY <1>2, <1>3 DEF Due
<1>4. CASE Upcoming # {}
  <2>1. PICK m \in Upcoming : m = Min(Upcoming) /\ \A n \in Upcoming : m <= n
    BY <1>1, <1>4, Smallest DEF Min
  <2>2. m \in Nat
    BY <1>1, <2>1
  <2>3. \A n \in Upcoming : n \in Nat
    BY <1>1
  <2>4. DueBoundary <=> m <= now
    BY <1>1, <1>2, <2>1, <2>2, <2>3
  <2>5. Due = IF m <= now THEN 0 ELSE m - now
    BY <1>4, <2>1 DEF Due
  <2> QED
    BY <1>1, <2>2, <2>4, <2>5
<1> QED
  BY <1>3, <1>4

(* A tick brings the next boundary one closer.                             *)
LEMMA TickDiary ==
    ASSUME TypeOK, Tick
    PROVE  Diary!DTick
<1> USE NoneAssumption
<1>1. Upcoming' = Upcoming /\ now' = now + 1 /\ now \in Nat /\ Upcoming \in SUBSET Nat
  BY DEF Tick, planVars, Upcoming, InPlan, Index, TypeOK
<1>2. CASE Upcoming = {}
  BY <1>1, <1>2 DEF Due, Diary!DTick
<1>3. CASE Upcoming # {}
  <2>1. PICK m \in Nat : m = Min(Upcoming)
    BY <1>1, <1>3, Smallest DEF Min
  <2>2. /\ Due = IF m <= now THEN 0 ELSE m - now
        /\ Due' = IF m <= now + 1 THEN 0 ELSE m - (now + 1)
    BY <1>1, <1>3, <2>1 DEF Due
  <2> QED
    BY <1>1, <2>2 DEF Diary!DTick
<1> QED
  BY <1>2, <1>3

(* Nothing but the clock makes a boundary due: a time is given ahead of    *)
(* now, a draft has none to bring into service, an archive none to come    *)
(* back to, and what is ratified or entered has none to come.              *)
LEMMA OnlyTheClock ==
    ASSUME TypeOK, ShapeInv, Next, ~Tick, DueBoundary'
    PROVE  DueBoundary
<1> USE NoneAssumption, BoundAssumption
<1>0. PICK p \in InPlan' : /\ status' = "active" /\ actual'[p] = None
                           /\ planned'[p] # None /\ planned'[p] <= now'
  BY DEF DueBoundary
<1>a. \A q \in PhaseId, t \in Nat : RatifiedActual(t)[q] = None => actual[q] = None
  BY DEF RatifiedActual
<1>b. \A i \in Index : plan[i] \in PhaseId /\ plan[i] \in InPlan
  BY DEF Index, InPlan, TypeOK
<1>c. InPlan \subseteq PhaseId /\ now \in Nat
  BY <1>b DEF InPlan, TypeOK
<1>d. status = "draft" => \A q \in PhaseId : planned[q] = None
  BY DEF ShapeInv, DraftUntimed
<1>s. ASSUME UNCHANGED <<now, plan>>, status \in {"draft", "active"},
             actual'[p] = None => actual[p] = None, planned'[p] = planned[p]
      PROVE  DueBoundary
  <2>1. p \in InPlan
    BY <1>s, <1>0 DEF InPlan, Index
  <2> QED
    BY <1>s, <1>0, <1>c, <1>d, <2>1 DEF DueBoundary
<1>1. ASSUME NEW i \in Index, NEW t \in Time, SchedulePhase(i, t) PROVE DueBoundary
  <2>1. p \in PhaseId
    BY <1>1, <1>0, <1>c DEF SchedulePhase, InPlan, Index
  <2>2. t > now /\ planned' = [planned EXCEPT ![plan[i]] = t] /\ now' = now /\ t \in Nat
    BY <1>1 DEF SchedulePhase, PlannedAllowed, Time
  <2>3. p # plan[i]
    BY <2>1, <2>2, <1>0, <1>b, <1>c DEF TypeOK
  <2> QED
    BY <1>1, <1>s, <2>1, <2>2, <2>3, <1>a, <1>c DEF SchedulePhase, Writable, TypeOK
<1>2. ASSUME NEW i \in Index, UnschedulePhase(i) PROVE DueBoundary
  <2>1. p \in PhaseId
    BY <1>2, <1>0, <1>c DEF UnschedulePhase, InPlan, Index
  <2>2. p # plan[i]
    BY <1>2, <1>0, <1>b DEF UnschedulePhase, TypeOK
  <2> QED
    BY <1>2, <1>s, <2>1, <2>2, <1>a, <1>c DEF UnschedulePhase, Writable, TypeOK
<1>3. ASSUME NEW i \in Index, AdvancePhase(i) PROVE DueBoundary
  <2>1. p \in PhaseId
    BY <1>3, <1>0, <1>c DEF AdvancePhase, InPlan, Index
  <2>2. actual'[p] = None => RatifiedActual(now)[p] = None
    BY <1>3, <2>1, <1>b, <1>c DEF AdvancePhase, RatifiedActual
  <2> QED
    BY <1>3, <1>s, <2>1, <2>2, <1>a, <1>c DEF AdvancePhase, Writable
<1>4. CASE Archive \/ DeleteBatch
  BY <1>4, <1>0 DEF Archive, DeleteBatch
<1>5. ASSUME NEW q \in PhaseId, NEW t \in Time \cup {None}, NEW opens \in SUBSET Code,
             Reopen(q, t, opens)
      PROVE  DueBoundary
  <2>1. p = q \/ p \in InPlan
    BY <1>5, <1>0 DEF Reopen, InPlan, Index, TypeOK
  <2>2. CASE p = q /\ t = None
    BY <1>5, <2>2, <1>0, <1>c DEF Reopen, TypeOK
  <2>3. CASE p = q /\ t # None
    <3>1. planned'[p] = t /\ t > now /\ now' = now /\ t \in Nat
      BY <1>5, <2>3 DEF Reopen, Time, TypeOK
    <3> QED
      BY <3>1, <1>0, <1>c
  <2>4. CASE p # q /\ p \in InPlan
    <3>1. actual'[p] = actual[p]
      BY <1>5, <2>4, <1>c DEF Reopen, TypeOK
    <3> QED
      BY <1>5, <2>4, <3>1, <1>0 DEF Reopen, ShapeInv, ArchivedEntered
  <2> QED
    BY <2>1, <2>2, <2>3, <2>4
<1>6. ASSUME NEW specs \in Specs, NEW opens \in [Named(specs) -> SUBSET Code],
             ReplaceDraftPlan(specs, opens) \/ AppendTemplate(specs, opens)
      PROVE  DueBoundary
  BY <1>6, <1>0 DEF ReplaceDraftPlan, AppendTemplate
<1>7. ASSUME NEW specs \in Specs, NEW opens \in [Named(specs) -> SUBSET Code],
             NEW renamed \in BOOLEAN, ReplaceActivePlan(specs, opens, renamed)
      PROVE  DueBoundary
  <2>1. specs \in Seq(PhaseId) /\ DOMAIN specs = 1..Len(specs)
    BY SpecsAreSeqs
  <2>2. p \in PhaseId
    BY <1>7, <1>0, <2>1 DEF ReplaceActivePlan, WritePlanOrder, InPlan, Index
  <2>3. p \in InPlan /\ planned'[p] = planned[p] /\ actual'[p] = actual[p]
    BY <1>7, <1>0, <2>2 DEF ReplaceActivePlan, WritePlanOrder
  <2> QED
    BY <1>7, <2>3, <1>0 DEF ReplaceActivePlan, DueBoundary
<1>8. ASSUME NEW s \in Sweeper, SweepBatch(s) PROVE DueBoundary
  <2>1. p \in PhaseId
    BY <1>8, <1>0, <1>c DEF SweepBatch, InPlan, Index
  <2>2. sweep[s] \in Nat /\ status = "active"
    BY <1>8, <1>0 DEF SweepBatch, TypeOK
  <2> QED
    BY <1>8, <1>s, <2>1, <2>2, <1>a DEF SweepBatch
<1>9. ASSUME UNCHANGED <<now, status, plan, planned, actual>> PROVE DueBoundary
  BY <1>9, <1>0 DEF DueBoundary, InPlan, Index
<1>10. ASSUME \/ SetRoster \/ CloseRound \/ \E code \in Code : OpenRound(code)
              \/ \E s \in Sweeper : SweepRead(s) \/ SweepFails(s)
       PROVE  DueBoundary
  BY <1>10, <1>9 DEF SetRoster, CloseRound, OpenRound, SweepRead, SweepFails, planVars
<1> QED
  BY <1>1, <1>2, <1>3, <1>4, <1>5, <1>6, <1>7, <1>8, <1>10 DEF Next

(* The batch implements the diary: its next boundary moves as PhaseDiary   *)
(* says through every edit, archive, reopening and sweep, the sweeps with  *)
(* an old clock included (server/db.ts:2449-2478).                         *)
THEOREM DiaryImplemented == Spec => DiaryKept
<1>1. Init => Diary!DInit
  BY DEF Init, Diary!DInit, Due, Upcoming
<1>0. (TypeOK => Due \in Nat \cup {None} /\ (Due = 0 <=> DueBoundary))'
  BY DueView, PTL
<1>2. TypeOK /\ TypeOK' /\ ShapeInv /\ [Next]_vars => [Diary!DNext]_Due
  <2> SUFFICES ASSUME TypeOK, TypeOK', ShapeInv, [Next]_vars
               PROVE  Diary!DNext \/ Due' = Due
    OBVIOUS
  <2>1. CASE Tick
    BY <2>1, TickDiary DEF Diary!DNext
  <2>2. CASE UNCHANGED vars
    BY <2>2 DEF vars, Due, Upcoming, InPlan, Index
  <2>3. CASE Next /\ ~Tick
    <3>1. Due' \in Nat \cup {None} /\ (Due' = 0 <=> DueBoundary')
      BY <1>0
    <3>2. Due = 0 <=> DueBoundary
      BY DueView
    <3>3. CASE Due = 0
      BY <3>1, <3>3 DEF Diary!DNext, Diary!DSweep
    <3>4. CASE Due # 0
      <4>1. Due' # 0
        BY <2>3, <3>1, <3>2, <3>4, OnlyTheClock
      <4> QED
        BY <3>1, <4>1 DEF Diary!DNext, Diary!DWrite
    <3> QED
      BY <3>3, <3>4
  <2> QED
    BY <2>1, <2>2, <2>3
<1> QED
  BY <1>1, <1>2, TypeCorrect, ShapeInvariant, PTL DEF Spec, DiaryKept, Diary!DSpec
=============================================================================
