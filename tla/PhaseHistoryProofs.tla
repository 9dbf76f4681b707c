------------------------- MODULE PhaseHistoryProofs -------------------------
(***************************************************************************)
(* What a batch's life leaves behind, proved of PhaseTimeline: nothing the *)
(* clock has reached is rewritten, the sweep shows to nobody, and drafts,  *)
(* archives and the projection agree with what was entered.                *)
(***************************************************************************)
EXTENDS PhaseTimelineProofs

-----------------------------------------------------------------------------
(***************************************************************************)
(* History is fixed.                                                       *)
(***************************************************************************)

(* What has been entered has been reached, and what has been reached has a *)
(* time, whatever the plan goes through next.                              *)
LEMMA EnteredReached ==
    ASSUME TypeOK, ShapeInv, NEW i \in Index
    PROVE  /\ \A t \in Nat : actual[plan[i]] # None => ReachedBy(i, t)
           /\ \A t \in Nat : ReachedBy(i, t) => isScheduled(plan[i]) /\ status \in {"active", "archived"}
<1>1. i \in Nat /\ i >= 1 /\ i <= Len(plan) /\ Len(plan) \in Nat /\ plan[i] \in PhaseId
  BY DEF Index, TypeOK
<1>2. ASSUME actual[plan[i]] # None, NEW t \in Nat
      PROVE  ReachedBy(i, t)
  <2>1. \A j \in 1..i : actual[plan[j]] # None
    <3> TAKE j \in 1..i
    <3>1. CASE j = i
      BY <1>2, <3>1
    <3>2. CASE j # i
      <4>1. j \in 1..Len(plan) /\ i \in 1..Len(plan) /\ j < i
        BY <1>1, <3>2
      <4> QED
        BY <1>2, <4>1 DEF ShapeInv, InOrder, Timed
    <3> QED
      BY <3>1, <3>2
  <2>2. \A j \in 1..i : MaterializedUpTo(j)
    BY <1>1, <2>1 DEF MaterializedUpTo
  <2> QED
    BY <1>1, <2>2 DEF ReachedBy
<1>3. ASSUME NEW t \in Nat, ReachedBy(i, t)
      PROVE  isScheduled(plan[i]) /\ status \in {"active", "archived"}
  <2>1. isScheduled(plan[i])
    BY <1>3, RatifiedRow DEF ShapeInv, isScheduled
  <2>2. status \notin {"draft", "deleted"}
    BY <1>1, <2>1 DEF ShapeInv, DraftUntimed, isScheduled
  <2> QED
    BY <2>1, <2>2 DEF TypeOK
<1> QED
  BY <1>2, <1>3

(* A row keeps its place and its instant, and once entered stays entered.  *)
Settled(i) ==
    /\ i \in Index' /\ plan'[i] = plan[i]
    /\ EntryAt(plan[i])' = EntryAt(plan[i])
    /\ actual[plan[i]] # None => actual'[plan[i]] # None

(* Ratifying, whatever the clock it was read at, moves no instant.         *)
LEMMA RatifySettles ==
    ASSUME TypeOK, ShapeInv, NEW t \in Nat, NEW i \in Index, plan' = plan,
           actual'[plan[i]] = RatifiedActual(t)[plan[i]], planned'[plan[i]] = planned[plan[i]]
    PROVE  Settled(i)
<1>1. /\ RatifiedActual(t)[plan[i]] # None <=> actual[plan[i]] # None \/ ReachedBy(i, t)
      /\ RatifiedActual(t)[plan[i]] # None => RatifiedActual(t)[plan[i]] = EntryAt(plan[i])
  BY RatifiedRow DEF ShapeInv
<1>2. i \in Index'
  BY DEF Index
<1>3. EntryAt(plan[i])' = EntryAt(plan[i])
  BY <1>1 DEF EntryAt
<1> QED
  BY <1>1, <1>2, <1>3 DEF Settled

(* A plan written anew settles what it keeps in place.                     *)
LEMMA RestatingSettles ==
    ASSUME TypeOK, NEW specs \in Seq(PhaseId), NEW opens, WritePlanOrder(specs, opens),
           NEW i \in Index, i \in DOMAIN specs, specs[i] = plan[i]
    PROVE  Settled(i)
<1>1. plan[i] \in PhaseId /\ plan[i] \in InPlan /\ plan[i] \in Named(specs)
  BY DEF Index, TypeOK, InPlan, Named
<1>2. /\ plan' = specs
      /\ actual'[plan[i]] = actual[plan[i]] /\ planned'[plan[i]] = planned[plan[i]]
  BY <1>1 DEF WritePlanOrder
<1>3. i \in Index'
  BY <1>2 DEF Index
<1>4. EntryAt(plan[i])' = EntryAt(plan[i])
  BY <1>2 DEF EntryAt
<1> QED
  BY <1>2, <1>3, <1>4 DEF Settled

(* Whatever is done to the plan, a phase that was reached stays settled as *)
(* it was.                                                                 *)
LEMMA HistoryStep ==
    ASSUME TypeOK, ShapeInv, [Next]_vars, NEW i \in Index, ReachedBy(i, now)
    PROVE  Settled(i)
<1>0. /\ i \in Nat /\ i >= 1 /\ i <= Len(plan) /\ Len(plan) \in Nat /\ plan[i] \in PhaseId
      /\ plan[i] \in InPlan /\ now \in Nat /\ plan \in Seq(PhaseId)
  BY DEF Index, TypeOK, InPlan
<1>1. isScheduled(plan[i]) /\ status \in {"active", "archived"}
  BY <1>0, EnteredReached
<1>2. ASSUME plan' = plan, actual' = actual, planned' = planned
      PROVE  Settled(i)
  BY <1>2 DEF Settled, Index, EntryAt
<1>3. ASSUME NEW k \in Index, ~ReachedBy(k, now)
      PROVE  plan[k] # plan[i]
  BY <1>3 DEF ShapeInv, RowsDistinct
<1>4. ASSUME NEW k \in Index, NEW t \in Time, SchedulePhase(k, t)
      PROVE  Settled(i)
  <2>1. plan[k] # plan[i]
    BY <1>3, <1>4 DEF SchedulePhase, NotEntered
  <2>2. plan' = plan /\ actual' = RatifiedActual(now) /\ planned' = [planned EXCEPT ![plan[k]] = t]
    BY <1>4 DEF SchedulePhase
  <2>3. planned'[plan[i]] = planned[plan[i]]
    BY <2>1, <2>2 DEF TypeOK
  <2> QED
    BY <1>0, <2>2, <2>3, RatifySettles
<1>5. ASSUME NEW k \in Index, UnschedulePhase(k)
      PROVE  Settled(i)
  <2>1. plan[k] # plan[i]
    BY <1>3, <1>5 DEF UnschedulePhase, NotEntered
  <2>2. plan' = plan /\ actual' = RatifiedActual(now) /\ planned' = [planned EXCEPT ![plan[k]] = None]
    BY <1>5 DEF UnschedulePhase
  <2>3. planned'[plan[i]] = planned[plan[i]]
    BY <2>1, <2>2 DEF TypeOK
  <2> QED
    BY <1>0, <2>2, <2>3, RatifySettles
<1>6. ASSUME NEW k \in Index, AdvancePhase(k)
      PROVE  Settled(i)
  <2>1. k \in Nat /\ k - 1 + 1 = k
    BY DEF Index, TypeOK
  <2>2. ~ReachedBy(k, now)
    BY <1>6, <2>1 DEF AdvancePhase, EffectiveAt
  <2>3. plan[k] # plan[i]
    BY <1>3, <2>2
  <2>4. plan' = plan /\ planned' = planned
    BY <1>6 DEF AdvancePhase
  <2>5. RatifiedActual(now) \in [PhaseId -> Nat \cup {None}]
    BY <1>0, RatifiedType
  <2>6. actual'[plan[i]] = RatifiedActual(now)[plan[i]]
    BY <1>6, <2>3, <2>5 DEF AdvancePhase
  <2> QED
    BY <1>0, <2>4, <2>6, RatifySettles
<1>7. CASE Archive
  BY <1>0, <1>7, RatifySettles DEF Archive
<1>8. ASSUME NEW p \in PhaseId, NEW t \in Time \cup {None}, NEW opens \in SUBSET Code,
             Reopen(p, t, opens)
      PROVE  Settled(i)
  <2>1. plan' = Append(plan, p) /\ p \notin InPlan
    BY <1>8 DEF Reopen
  <2>2. p # plan[i] /\ i \in Index' /\ plan'[i] = plan[i]
    BY <1>0, <2>1 DEF Index
  <2>3. /\ actual' = IF t = None THEN [actual EXCEPT ![p] = now] ELSE actual
        /\ planned' = IF t = None THEN planned ELSE [planned EXCEPT ![p] = t]
    BY <1>8 DEF Reopen
  <2>a. actual \in [PhaseId -> Nat \cup {None}] /\ planned \in [PhaseId -> Nat \cup {None}]
    BY DEF TypeOK
  <2>5. actual'[plan[i]] = actual[plan[i]] /\ planned'[plan[i]] = planned[plan[i]]
    BY <1>0, <2>2, <2>3, <2>a
  <2>4. EntryAt(plan[i])' = EntryAt(plan[i])
    BY <2>2, <2>5 DEF EntryAt
  <2> QED
    BY <2>2, <2>5, <2>4 DEF Settled
<1>9. ASSUME NEW specs \in Specs, NEW opens \in [Named(specs) -> SUBSET Code],
             \/ ReplaceDraftPlan(specs, opens) \/ AppendTemplate(specs, opens)
      PROVE  Settled(i)
  BY <1>1, <1>9 DEF ReplaceDraftPlan, AppendTemplate
<1>10. ASSUME NEW specs \in Specs, NEW opens \in [Named(specs) -> SUBSET Code],
              NEW renamed \in BOOLEAN, ReplaceActivePlan(specs, opens, renamed)
       PROVE  Settled(i)
  <2>1. i \in DOMAIN specs /\ specs[i] = plan[i]
    BY <1>1, <1>10, CommittedStay DEF ReplaceActivePlan, ShapeInv
  <2>2. WritePlanOrder(specs, opens) /\ specs \in Seq(PhaseId)
    BY <1>10, SpecsAreSeqs DEF ReplaceActivePlan
  <2> QED
    BY <2>1, <2>2, RestatingSettles
<1>11. ASSUME NEW s \in Sweeper, SweepBatch(s)
       PROVE  Settled(i)
  <2>1. sweep[s] \in Nat /\ plan' = plan /\ planned' = planned
    BY <1>11 DEF SweepBatch, TypeOK
  <2>2. CASE status = "active"
    <3>1. actual' = RatifiedActual(sweep[s])
      BY <1>11, <2>2 DEF SweepBatch
    <3>2. PICK t \in Nat : t = sweep[s]
      BY <2>1
    <3> QED
      BY <2>1, <3>1, <3>2, RatifySettles
  <2>3. CASE status # "active"
    BY <1>2, <1>11, <2>1, <2>3 DEF SweepBatch
  <2> QED
    BY <2>2, <2>3
<1>12. ASSUME \/ Tick \/ SetRoster \/ DeleteBatch \/ CloseRound \/ UNCHANGED vars
              \/ \E code \in Code : OpenRound(code)
              \/ \E s \in Sweeper : SweepRead(s) \/ SweepFails(s)
       PROVE  Settled(i)
  BY <1>2, <1>12 DEF Tick, SetRoster, DeleteBatch, CloseRound, OpenRound, SweepRead, SweepFails,
     vars, planVars
<1> QED
  BY <1>4, <1>5, <1>6, <1>7, <1>8, <1>9, <1>10, <1>11, <1>12 DEF Next

(* What the clock has reached is history even before it is ratified: it    *)
(* keeps its place and its instant through every later edit and sweep.     *)
THEOREM HistoryStaysFixed == Spec => HistoryIsFixed
<1>1. TypeOK /\ ShapeInv /\ [Next]_vars =>
        [\A i \in Index : ReachedBy(i, now) =>
          /\ i \in Index' /\ plan'[i] = plan[i]
          /\ EntryAt(plan[i])' = EntryAt(plan[i])]_vars
  BY HistoryStep DEF Settled
<1> QED
  BY <1>1, TypeCorrect, ShapeInvariant, PTL DEF Spec, HistoryIsFixed

-----------------------------------------------------------------------------
(***************************************************************************)
(* The sweep shows to nobody.                                              *)
(***************************************************************************)

(* Writing down what a clock no later than now had reached changes nothing *)
(* about what now reaches.                                                 *)
LEMMA RatifyReaches ==
    ASSUME TypeOK, ShapeInv, NEW t \in Nat, t <= now, now' = now, plan' = plan,
           planned' = planned, actual' = RatifiedActual(t), NEW i \in Nat
    PROVE  ReachedBy(i, now)' <=> ReachedBy(i, now)
<1>1. now \in Nat /\ Len(plan) \in Nat
  BY DEF TypeOK
<1>2. \A k \in Index : actual'[plan[k]] # None <=> actual[plan[k]] # None \/ ReachedBy(k, t)
  BY RatifiedRow DEF ShapeInv
<1>3. ASSUME i <= Len(plan), NEW j \in 1..i
      PROVE  (MaterializedUpTo(j)' \/ (planned'[plan'[j]] # None /\ planned'[plan'[j]] <= now'))
             <=> (MaterializedUpTo(j) \/ (planned[plan[j]] # None /\ planned[plan[j]] <= now))
  <2>1. j \in Index /\ j \in Nat /\ j \in 1..j /\ \A k \in 1..j : k \in Index
    BY <1>1, <1>3 DEF Index
  <2>2. MaterializedUpTo(j) => MaterializedUpTo(j)'
    BY <1>2, <2>1 DEF MaterializedUpTo
  <2>3. ASSUME MaterializedUpTo(j)', ~(planned[plan[j]] # None /\ planned[plan[j]] <= now)
        PROVE  MaterializedUpTo(j)
    <3>1. actual'[plan[j]] # None
      BY <2>1, <2>3 DEF MaterializedUpTo
    <3>2. actual[plan[j]] # None => ReachedBy(j, t)
      BY <2>1, EnteredReached
    <3>3. ReachedBy(j, t)
      BY <1>2, <2>1, <3>1, <3>2
    <3>4. planned[plan[j]] # None => planned[plan[j]] \in Nat
      BY <2>1 DEF TypeOK, Index
    <3> QED
      BY <1>1, <2>1, <2>3, <3>3, <3>4 DEF ReachedBy
  <2> QED
    BY <2>2, <2>3
<1> QED
  BY <1>1, <1>3 DEF ReachedBy

(* A batch of a sweep writes down what is in hand already.                 *)
LEMMA SweepShows ==
    ASSUME TypeOK, ShapeInv, NEW s \in Sweeper, SweepBatch(s)
    PROVE  InHand' = InHand
<1>1. /\ sweep[s] \in Nat /\ sweep[s] <= now
      /\ UNCHANGED <<now, status, plan, planned, closed>>
  BY DEF SweepBatch, TypeOK, ShapeInv, EntriesPast
<1>2. CASE status # "active"
  BY <1>1, <1>2 DEF InHand
<1>3. CASE status = "active"
  <2>1. actual' = RatifiedActual(sweep[s])
    BY <1>3 DEF SweepBatch
  <2>2. PICK t \in Nat : t = sweep[s]
    BY <1>1
  <2>3. \A i \in Nat : ReachedBy(i, now)' <=> ReachedBy(i, now)
    BY <1>1, <2>1, <2>2, RatifyReaches
  <2>4. \A i \in Index : EntryAt(plan[i])' = EntryAt(plan[i])
    BY <1>1, <2>1, <2>2, RatifySettles DEF Settled
  <2>5. \A i \in Index : EffectiveAt(i, now)' <=> EffectiveAt(i, now)
    BY <2>3 DEF EffectiveAt, Index, TypeOK
  <2>6. \A i \in Index : beganAfter(plan[i])' <=> beganAfter(plan[i])
    BY <1>1, <2>4 DEF beganAfter
  <2>7. Index' = Index
    BY <1>1 DEF Index
  <2> QED
    BY <1>1, <2>5, <2>6, <2>7 DEF InHand
<1> QED
  BY <1>2, <1>3

(* Being late is harmless: a sweep that ratifies by a clock it read long   *)
(* before, loses its batch or fails leaves the phase in hand as it was.    *)
THEOREM SweepNeverShows == Spec => SweepIsInvisible
<1>1. TypeOK /\ ShapeInv /\ [Next]_vars => [sweep' # sweep => InHand' = InHand]_vars
  <2> SUFFICES ASSUME TypeOK, ShapeInv, Next, sweep' # sweep PROVE InHand' = InHand
    BY DEF vars
  <2>1. \E s \in Sweeper : SweepRead(s) \/ SweepBatch(s) \/ SweepFails(s)
    BY DEF Next, Tick, SetRoster, SchedulePhase, UnschedulePhase, AdvancePhase, Archive,
       DeleteBatch, Reopen, ReplaceDraftPlan, AppendTemplate, ReplaceActivePlan, OpenRound,
       CloseRound
  <2>2. ASSUME NEW s \in Sweeper, SweepRead(s) \/ SweepFails(s) PROVE InHand' = InHand
    <3>1. UNCHANGED <<now, status, plan, planned, actual, closed>>
      BY <2>2 DEF SweepRead, SweepFails, planVars
    <3>2. \A i \in Nat : EffectiveAt(i, now)' <=> EffectiveAt(i, now)
      BY <3>1 DEF EffectiveAt, ReachedBy, MaterializedUpTo
    <3>3. \A i \in Index : beganAfter(plan[i])' <=> beganAfter(plan[i])
      BY <3>1 DEF beganAfter, EntryAt
    <3>4. Index' = Index /\ Index \subseteq Nat
      BY <3>1 DEF Index, TypeOK
    <3> QED
      BY <3>1, <3>2, <3>3, <3>4 DEF InHand
  <2> QED
    BY <2>1, <2>2, SweepShows
<1> QED
  BY <1>1, TypeCorrect, ShapeInvariant, PTL DEF Spec, SweepIsInvisible

-----------------------------------------------------------------------------
(***************************************************************************)
(* What an ended phase opened.                                             *)
(***************************************************************************)

(* A phase the clock has passed keeps its profile: a submission that keeps *)
(* it states what it opened, and none can drop it.                         *)
LEMMA FrozenStep ==
    ASSUME TypeOK, ShapeInv, Next, NEW i \in Index, Ended(i)
    PROVE  profile'[plan[i]] = profile[plan[i]]
<1>1. /\ i \in Nat /\ i >= 1 /\ Len(plan) \in Nat /\ plan[i] \in PhaseId /\ plan[i] \in InPlan
      /\ now \in Nat
  BY DEF Index, TypeOK, InPlan
<1>2. ReachedBy(i, now)
  BY <1>1, ReachedPrefix DEF Ended
<1>3. isScheduled(plan[i]) /\ status \in {"active", "archived"}
  BY <1>1, <1>2, EnteredReached
<1>4. ASSUME NEW p \in PhaseId, NEW t \in Time \cup {None}, NEW opens \in SUBSET Code,
             Reopen(p, t, opens)
      PROVE  profile'[plan[i]] = profile[plan[i]]
  BY <1>1, <1>4 DEF Reopen, TypeOK
<1>5. ASSUME NEW specs \in Specs, NEW opens \in [Named(specs) -> SUBSET Code],
             NEW renamed \in BOOLEAN, ReplaceActivePlan(specs, opens, renamed)
      PROVE  profile'[plan[i]] = profile[plan[i]]
  <2>1. plan[i] \in Named(specs)
    BY <1>1, <1>3, <1>5 DEF ReplaceActivePlan, StructureKept, Committed
  <2>2. opens[plan[i]] = profile[plan[i]]
    BY <1>5 DEF ReplaceActivePlan
  <2>3. profile' = [p \in PhaseId |-> IF p \in Named(specs) THEN opens[p] ELSE {}]
    BY <1>5 DEF ReplaceActivePlan, WritePlanOrder
  <2> QED
    BY <1>1, <2>1, <2>2, <2>3
<1>6. ASSUME \/ Tick \/ SetRoster \/ Archive \/ DeleteBatch \/ CloseRound
             \/ \E k \in Index : \/ \E t \in Time : SchedulePhase(k, t)
                                 \/ UnschedulePhase(k)
                                 \/ AdvancePhase(k)
             \/ \E code \in Code : OpenRound(code)
             \/ \E s \in Sweeper : SweepRead(s) \/ SweepBatch(s) \/ SweepFails(s)
      PROVE  profile'[plan[i]] = profile[plan[i]]
  BY <1>6 DEF Tick, SetRoster, Archive, DeleteBatch, CloseRound, SchedulePhase, UnschedulePhase,
     AdvancePhase, OpenRound, SweepRead, SweepBatch, SweepFails, planVars
<1> QED
  BY <1>3, <1>4, <1>5, <1>6 DEF Next, ReplaceDraftPlan, AppendTemplate

(* Nobody rewrites what a past phase allowed, before or after the sweep    *)
(* has written its end down.                                               *)
THEOREM EndedStaysFrozen == Spec => EndedPhaseFrozen
<1>1. TypeOK /\ ShapeInv /\ [Next]_vars =>
        [\A i \in Index : ReachedBy(i + 1, now) => profile'[plan[i]] = profile[plan[i]]]_vars
  BY FrozenStep DEF Ended
<1> QED
  BY <1>1, TypeCorrect, ShapeInvariant, PTL DEF Spec, EndedPhaseFrozen

-----------------------------------------------------------------------------
(***************************************************************************)
(* Drafts, archives and the projection.  The three hold only together: a   *)
(* withdrawal may take a batch back to draft, and that is harmless because *)
(* a batch that was ever closed, or holds a round, has begun; what has     *)
(* begun stays begun because history is fixed; and an active batch always  *)
(* has a time, so one that can be archived has begun.                      *)
(***************************************************************************)
Begun == 1 \in Index /\ EntryAt(plan[1]) # None /\ EntryAt(plan[1]) <= now

ActiveHasATime == status = "active" => \E p \in InPlan : isScheduled(p)

UsedHasBegun == closed # None \/ rounds # 0 => Begun

ClosedPast == closed # None => closed <= now

DraftUnused ==
    status \in {"draft", "deleted"} => current = None /\ closed = None /\ rounds = 0

ArchiveClosed ==
    status = "archived" => closed # None /\ current = None /\ rounds = 0

\* where the projection points, whatever the status
Projected ==
    IF current = None
    THEN \A p \in InPlan : actual[p] # None => closed # None /\ actual[p] <= closed
    ELSE \E i \in Index : /\ plan[i] = current /\ actual[current] # None
                          /\ \A j \in Index : j > i => actual[plan[j]] = None

Life ==
    /\ ActiveHasATime
    /\ UsedHasBegun
    /\ ClosedPast
    /\ DraftUnused
    /\ ArchiveClosed
    /\ Projected

(* A batch any phase of which is reached has begun.                        *)
LEMMA ReachedBegun ==
    ASSUME TypeOK, ShapeInv, NEW j \in Index, ReachedBy(j, now)
    PROVE  Begun
<1>1. j \in Nat /\ 1 <= j /\ 1 \in Nat /\ Len(plan) \in Nat /\ j <= Len(plan)
  BY DEF Index, TypeOK
<1>2. 1 \in Index /\ ReachedBy(1, now)
  BY <1>1, ReachedPrefix DEF Index
<1>3. plan[1] \in PhaseId
  BY <1>2 DEF Index, TypeOK
<1>4. CASE actual[plan[1]] # None
  BY <1>2, <1>3, <1>4 DEF Begun, EntryAt, ShapeInv, EntriesPast
<1>5. CASE actual[plan[1]] = None
  <2>1. ~MaterializedUpTo(1)
    BY <1>5 DEF MaterializedUpTo
  <2>2. planned[plan[1]] # None /\ planned[plan[1]] <= now
    BY <1>2, <2>1 DEF ReachedBy
  <2> QED
    BY <1>2, <1>5, <2>2 DEF Begun, EntryAt
<1> QED
  BY <1>4, <1>5

(* Only the clock moves the clock, and forwards.                           *)
LEMMA ClockForward ==
    ASSUME now \in Nat, [Next]_vars
    PROVE  now' \in Nat /\ now' >= now
<1>1. CASE Tick
  BY <1>1 DEF Tick
<1>2. ASSUME ~Tick PROVE now' = now
  BY <1>2 DEF Next, vars, SetRoster, SchedulePhase, UnschedulePhase, AdvancePhase, Archive,
     DeleteBatch, Reopen, ReplaceDraftPlan, AppendTemplate, ReplaceActivePlan, OpenRound,
     CloseRound, SweepRead, SweepBatch, SweepFails
<1> QED
  BY <1>1, <1>2

(* What has begun stays begun.                                             *)
LEMMA BegunStays ==
    ASSUME TypeOK, ShapeInv, [Next]_vars, Begun
    PROVE  Begun'
<1>1. 1 \in Index /\ plan[1] \in PhaseId /\ now \in Nat
  BY DEF Begun, Index, TypeOK
<1>2. ReachedBy(1, now)
  <2>1. CASE actual[plan[1]] # None
    BY <1>1, <2>1, EnteredReached
  <2>2. CASE actual[plan[1]] = None
    BY <1>1, <2>2 DEF Begun, EntryAt, ReachedBy, Index, TypeOK
  <2> QED
    BY <2>1, <2>2
<1>3. 1 \in Index' /\ plan'[1] = plan[1] /\ EntryAt(plan[1])' = EntryAt(plan[1])
  BY <1>1, <1>2, HistoryStep DEF Settled
<1>4. now' \in Nat /\ now' >= now
  BY <1>1, ClockForward
<1>5. EntryAt(plan[1]) \in Nat \cup {None}
  BY <1>1 DEF EntryAt, TypeOK
<1>6. EntryAt(plan[1])' # None /\ EntryAt(plan[1])' <= now'
  BY <1>1, <1>3, <1>4, <1>5 DEF Begun
<1> QED
  BY <1>3, <1>6 DEF Begun, EntryAt

(* Ratifying moves the projection with the entries it writes down          *)
(* (ratifyPending).                                                        *)
LEMMA RatifyProjects ==
    ASSUME TypeOK, ShapeInv, Projected, NEW t \in Nat, NEW e \in 0..Len(plan),
           EffectiveAt(e, t), plan' = plan, closed' = closed,
           actual' = RatifiedActual(t), current' = RatifiedCurrent(e, t)
    PROVE  Projected'
<1>1. /\ \A k \in Index : /\ plan[k] \in PhaseId /\ k \in Nat
                          /\ actual'[plan[k]] # None <=> actual[plan[k]] # None \/ ReachedBy(k, t)
      /\ Index' = Index /\ InPlan' = InPlan
  BY RatifiedRow DEF ShapeInv, Index, TypeOK, InPlan
<1>2. CASE PendingBy(t) = {}
  <2>1. current' = current /\ \A p \in PhaseId : actual'[p] = actual[p]
    BY <1>2 DEF RatifiedCurrent, RatifiedActual
  <2>2. InPlan \subseteq PhaseId /\ current \in PhaseId \cup {None}
    BY <1>1, TypeOK DEF InPlan, TypeOK
  <2> QED
    BY <1>1, <2>1, <2>2 DEF Projected
<1>3. CASE PendingBy(t) # {}
  <2>1. PICK j \in Index : ReachedBy(j, t)
    BY <1>3 DEF PendingBy
  <2>2. e \in Nat /\ e + 1 \in Nat /\ Len(plan) \in Nat
    BY DEF TypeOK
  <2>3. \A k \in Index : k > e => ~ReachedBy(k, t)
    BY <1>1, <2>2, ReachedPrefix DEF EffectiveAt
  <2>4. e \in Index
    <3>1. j <= e
      BY <1>1, <2>1, <2>2, <2>3
    <3> QED
      BY <2>1, <2>2, <3>1 DEF Index
  <2>5. current' = plan[e] /\ plan[e] # None
    BY <1>1, <1>3, <2>4, NoneAssumption DEF RatifiedCurrent
  <2>6. actual'[plan[e]] # None
    BY <1>1, <2>4 DEF EffectiveAt
  <2>7. \A k \in Index : k > e => actual'[plan[k]] = None
    <3> SUFFICES ASSUME NEW k \in Index, k > e PROVE actual'[plan[k]] = None
      OBVIOUS
    <3>1. ~ReachedBy(k, t)
      BY <2>3
    <3>2. actual[plan[k]] = None
      BY <3>1, EnteredReached
    <3> QED
      BY <1>1, <3>1, <3>2
  <2> QED
    BY <1>1, <2>4, <2>5, <2>6, <2>7 DEF Projected
<1> QED
  BY <1>2, <1>3

(* Only a batch that has begun is closed or takes a review round in.       *)
LEMMA UsedStep ==
    ASSUME TypeOK, ShapeInv, Life, [Next]_vars
    PROVE  UsedHasBegun' /\ ClosedPast'
<1>0. now \in Nat /\ Len(plan) \in Nat /\ closed \in Nat \cup {None} /\ rounds \in Nat
      /\ now' \in Nat /\ now' >= now
  BY ClockForward DEF TypeOK
<1>1. CASE Archive
  <2>1. /\ status = "active" /\ ReachedBy(Len(plan), now)
        /\ closed' = now /\ now' = now
    BY <1>1 DEF Archive, Archivable, EffectiveAt
  <2>2. Len(plan) \in Index
    BY <1>0, <2>1 DEF Life, ActiveHasATime, InPlan, Index
  <2>3. Begun'
    BY <2>1, <2>2, ReachedBegun, BegunStays
  <2> QED
    BY <1>0, <2>1, <2>3 DEF UsedHasBegun, ClosedPast
<1>2. ASSUME NEW code \in Code, OpenRound(code) PROVE UsedHasBegun' /\ ClosedPast'
  <2>1. PICK j \in Index : ReachedBy(j, now)
    BY <1>2 DEF OpenRound, GateOpen, InHand, EffectiveAt
  <2>2. Begun'
    BY <2>1, ReachedBegun, BegunStays
  <2>3. closed' = closed
    BY <1>2 DEF OpenRound
  <2> QED
    BY <1>0, <2>2, <2>3 DEF UsedHasBegun, ClosedPast, Life
<1>3. ASSUME ~Archive, ~(\E code \in Code : OpenRound(code))
      PROVE  UsedHasBegun' /\ ClosedPast'
  <2>1. closed' = closed
    BY <1>3 DEF Next, vars, Tick, SetRoster, SchedulePhase, UnschedulePhase, AdvancePhase,
       DeleteBatch, Reopen, ReplaceDraftPlan, AppendTemplate, ReplaceActivePlan,
       CloseRound, SweepRead, SweepBatch, SweepFails
  <2>2. CASE CloseRound
    BY <1>0, <2>1, <2>2, BegunStays DEF CloseRound, UsedHasBegun, ClosedPast, Life
  <2>3. CASE ~CloseRound
    <3>1. rounds' = rounds
      BY <1>3, <2>3 DEF Next, vars, Tick, SetRoster, SchedulePhase, UnschedulePhase, AdvancePhase,
         DeleteBatch, Reopen, ReplaceDraftPlan, AppendTemplate, ReplaceActivePlan,
         SweepRead, SweepBatch, SweepFails
    <3> QED
      BY <1>0, <2>1, <3>1, BegunStays DEF UsedHasBegun, ClosedPast, Life
  <2> QED
    BY <2>2, <2>3
<1> QED
  BY <1>1, <1>2, <1>3

(* A plan restated keeps the projection where it was, because committed    *)
(* phases keep their places.                                               *)
LEMMA RestatingProjects ==
    ASSUME TypeOK, ShapeInv, Projected, NEW specs \in Specs, NEW opens,
           StructureKept(specs), \A i \in DOMAIN specs : specs[i] \notin InPlan => InsertionAllowed(i),
           WritePlanOrder(specs, opens), UNCHANGED <<current, closed>>
    PROVE  Projected'
<1>1. /\ plan' = specs /\ specs \in Seq(PhaseId) /\ NamesOnce(specs)
      /\ Index' = DOMAIN specs /\ DOMAIN specs = 1..Len(specs) /\ Index \subseteq Nat
  BY SpecsAreSeqs DEF WritePlanOrder, Index, TypeOK
<1>2. \A p \in PhaseId : actual'[p] = IF p \in InPlan /\ p \in Named(specs) THEN actual[p] ELSE None
  BY DEF WritePlanOrder
<1>3. InPlan' \subseteq PhaseId
  BY <1>1 DEF InPlan, Index
<1>4. \A k \in Index : actual[plan[k]] # None => k \in DOMAIN specs /\ specs[k] = plan[k]
  BY CommittedStay DEF ShapeInv, isScheduled
<1>5. CASE current = None
  BY <1>2, <1>3, <1>5 DEF Projected
<1>6. CASE current # None
  <2>1. PICK i \in Index : /\ plan[i] = current /\ actual[current] # None
                           /\ \A j \in Index : j > i => actual[plan[j]] = None
    BY <1>6 DEF Projected
  <2>2. i \in Index' /\ plan'[i] = current /\ current \in PhaseId /\ current \in InPlan
        /\ current \in Named(specs)
    BY <1>1, <1>4, <2>1 DEF InPlan, Named, Index, TypeOK
  <2>3. actual'[current] # None
    BY <1>2, <2>1, <2>2
  <2>4. ASSUME NEW j \in Index', j > i, actual'[plan'[j]] # None PROVE FALSE
    <3>1. plan'[j] \in PhaseId /\ plan'[j] = specs[j] /\ j \in DOMAIN specs
      BY <1>1
    <3>2. specs[j] \in InPlan /\ actual[specs[j]] # None
      BY <1>2, <2>4, <3>1
    <3>3. PICK k \in Index : plan[k] = specs[j]
      BY <3>2 DEF InPlan
    <3>4. k = j
      BY <1>1, <1>4, <3>1, <3>2, <3>3 DEF NamesOnce
    <3> QED
      BY <2>1, <2>4, <3>2, <3>3, <3>4
  <2> QED
    BY <1>6, <2>2, <2>3, <2>4 DEF Projected
<1> QED
  BY <1>5, <1>6

(* Whatever the plan, the clock and the sweep do, the projection stays     *)
(* between what was used and what is due.                                  *)
LEMMA ProjectStep ==
    ASSUME TypeOK, ShapeInv, Life, [Next]_vars
    PROVE  Projected'
<1>0. Projected /\ now \in Nat /\ InPlan \subseteq PhaseId /\ \A k \in Index : plan[k] \in PhaseId
  BY DEF Life, TypeOK, InPlan, Index
<1>a. now <= now
  BY <1>0
<1>1. ASSUME UNCHANGED <<plan, actual, current, closed>>
      PROVE  Projected'
  BY <1>0, <1>1 DEF Projected, InPlan, Index
<1>2. ASSUME NEW t \in Nat, UNCHANGED <<plan, closed>>, actual' = RatifiedActual(t),
             \E e \in 0..Len(plan) : EffectiveAt(e, t) /\ current' = RatifiedCurrent(e, t)
      PROVE  Projected'
  BY <1>0, <1>2, RatifyProjects
<1>3. ASSUME NEW k \in Index, NEW t \in Time, SchedulePhase(k, t) PROVE Projected'
  BY <1>0, <1>2, <1>3 DEF SchedulePhase
<1>4. ASSUME NEW k \in Index, UnschedulePhase(k) PROVE Projected'
  BY <1>0, <1>2, <1>4 DEF UnschedulePhase
<1>5. ASSUME NEW k \in Index, AdvancePhase(k) PROVE Projected'
  <2>1. k \in Nat /\ k - 1 + 1 = k /\ plan[k] \in PhaseId /\ plan[k] # None /\ now # None
    BY <1>0, NoneAssumption DEF Index, TypeOK
  <2>2. ~ReachedBy(k, now)
    BY <1>5, <2>1 DEF AdvancePhase, EffectiveAt
  <2>3. RatifiedActual(now) \in [PhaseId -> Nat \cup {None}]
    BY <1>0, RatifiedType
  <2>4. /\ actual' = [RatifiedActual(now) EXCEPT ![plan[k]] = IF @ = None THEN now ELSE @]
        /\ current' = plan[k] /\ plan' = plan
    BY <1>5 DEF AdvancePhase
  <2>5. actual'[plan[k]] # None
    BY <2>1, <2>3, <2>4
  <2>6. ASSUME NEW j \in Index, j > k PROVE actual'[plan[j]] = None
    <3>0. j \in Nat /\ k <= j
      BY <2>1, <2>6 DEF Index
    <3>1. ~ReachedBy(j, now)
      BY <2>1, <2>2, <3>0, ReachedPrefix
    <3>2. actual[plan[j]] = None
      BY <1>0, <3>1, EnteredReached
    <3>3. RatifiedActual(now)[plan[j]] = None
      BY <1>0, <3>1, <3>2, RatifiedRow DEF ShapeInv
    <3>4. plan[j] # plan[k]
      BY <2>1, <2>6 DEF ShapeInv, RowsDistinct
    <3> QED
      BY <1>0, <2>3, <2>4, <3>3, <3>4
  <2>7. Index' = Index
    BY <2>4 DEF Index
  <2> QED
    BY <2>1, <2>4, <2>5, <2>6, <2>7 DEF Projected
<1>6. CASE Archive
  <2>1. RatifiedActual(now) \in [PhaseId -> Nat \cup {None}] /\ now # None
    BY <1>0, RatifiedType, NoneAssumption
  <2>2. \A p \in PhaseId : RatifiedActual(now)[p] # None => RatifiedActual(now)[p] <= now
    BY <1>0, <1>a, RatifiedOnce
  <2>3. InPlan' = InPlan /\ actual' = RatifiedActual(now) /\ current' = None /\ closed' = now
    BY <1>6 DEF Archive, InPlan, Index
  <2> QED
    BY <1>0, <2>1, <2>2, <2>3 DEF Projected
<1>7. ASSUME NEW p \in PhaseId, NEW t \in Time \cup {None}, NEW opens \in SUBSET Code,
             Reopen(p, t, opens)
      PROVE  Projected'
  <2>1. /\ plan' = Append(plan, p) /\ p \notin InPlan /\ closed' = closed
        /\ closed # None /\ current = None
        /\ actual' = IF t = None THEN [actual EXCEPT ![p] = now] ELSE actual
        /\ current' = IF t = None THEN p ELSE current
    BY <1>7 DEF Reopen, Life, ArchiveClosed
  <2>2. /\ Len(plan) \in Nat /\ Index' = 1..(Len(plan) + 1) /\ plan'[Len(plan) + 1] = p
        /\ InPlan' \subseteq InPlan \cup {p} /\ actual[p] = None
    <3>1. plan \in Seq(PhaseId) /\ actual[p] = None
      BY <2>1 DEF TypeOK, ShapeInv, RowsGone
    <3>2. /\ Len(plan) \in Nat /\ Len(plan') = Len(plan) + 1 /\ plan'[Len(plan) + 1] = p
          /\ \A k \in 1..Len(plan) : plan'[k] = plan[k]
      BY <2>1, <3>1
    <3>3. InPlan' \subseteq InPlan \cup {p}
      BY <3>2 DEF InPlan, Index
    <3> QED
      BY <3>1, <3>2, <3>3 DEF Index
  <2>3. CASE t = None
    <3>1. current' = p /\ p # None /\ actual'[p] = now /\ now # None
      BY <1>0, <2>1, <2>3, NoneAssumption DEF TypeOK
    <3>2. Len(plan) + 1 \in Index' /\ \A j \in Index' : ~(j > Len(plan) + 1)
      BY <2>2
    <3> QED
      BY <2>2, <3>1, <3>2 DEF Projected
  <2>4. CASE t # None
    <3>1. current' = None /\ actual' = actual
      BY <2>1, <2>4
    <3>2. \A q \in InPlan : actual[q] # None => actual[q] <= closed
      BY <1>0, <2>1 DEF Projected
    <3> QED
      BY <2>1, <2>2, <3>1, <3>2 DEF Projected
  <2> QED
    BY <2>3, <2>4
<1>8. ASSUME NEW specs \in Specs, NEW opens \in [Named(specs) -> SUBSET Code],
             \/ ReplaceDraftPlan(specs, opens) \/ AppendTemplate(specs, opens)
      PROVE  Projected'
  <2>1. status = "draft" /\ current' = current
    BY <1>8 DEF ReplaceDraftPlan, AppendTemplate
  <2>2. \E all \in Seq(PhaseId) : plan' = all
    <3>1. specs \in Seq(PhaseId) /\ plan \o specs \in Seq(PhaseId)
      BY SpecsAreSeqs DEF TypeOK
    <3>2. plan' = specs \/ plan' = plan \o specs
      BY <1>8 DEF ReplaceDraftPlan, AppendTemplate, WritePlanOrder
    <3> QED
      BY <3>1, <3>2
  <2>3. \A p \in PhaseId : actual'[p] = None
    BY <1>8, <2>1 DEF ReplaceDraftPlan, AppendTemplate, WritePlanOrder, ShapeInv, DraftUntimed
  <2>4. current' = None /\ InPlan' \subseteq PhaseId
    BY <2>1, <2>2 DEF Life, DraftUnused, InPlan, Index
  <2> QED
    BY <2>3, <2>4 DEF Projected
<1>9. ASSUME NEW specs \in Specs, NEW opens \in [Named(specs) -> SUBSET Code],
              NEW renamed \in BOOLEAN, ReplaceActivePlan(specs, opens, renamed)
      PROVE  Projected'
  BY <1>0, <1>9, RestatingProjects DEF ReplaceActivePlan
<1>10. ASSUME NEW s \in Sweeper, SweepBatch(s) PROVE Projected'
  <2>1. CASE status = "active"
    <3>1. sweep[s] \in Nat
      BY <1>10 DEF SweepBatch, TypeOK
    <3>2. PICK t \in Nat : t = sweep[s]
      BY <3>1
    <3> QED
      BY <1>2, <1>10, <2>1, <3>2 DEF SweepBatch
  <2>2. CASE status # "active"
    BY <1>1, <1>10, <2>2 DEF SweepBatch
  <2> QED
    BY <2>1, <2>2
<1>11. ASSUME \/ Tick \/ SetRoster \/ DeleteBatch \/ CloseRound \/ UNCHANGED vars
              \/ \E code \in Code : OpenRound(code)
              \/ \E s \in Sweeper : SweepRead(s) \/ SweepFails(s)
       PROVE  Projected'
  BY <1>1, <1>11 DEF Tick, SetRoster, DeleteBatch, CloseRound, OpenRound, SweepRead, SweepFails,
     vars, planVars
<1> QED
  BY <1>3, <1>4, <1>5, <1>6, <1>7, <1>8, <1>9, <1>10, <1>11 DEF Next

StillTimed == \E p \in InPlan' : actual'[p] # None \/ planned'[p] # None

(* An active batch keeps a time: withdrawing the last one makes it a       *)
(* draft, and a committed phase cannot be dropped.                         *)
LEMMA ActiveStep ==
    ASSUME TypeOK, ShapeInv, Life, [Next]_vars, status' = "active"
    PROVE  StillTimed
<1>0. now \in Nat /\ now # None /\ \A k \in Index : plan[k] \in PhaseId /\ plan[k] \in InPlan
  BY NoneAssumption DEF TypeOK, InPlan, Index
<1>1. ASSUME UNCHANGED <<plan, planned, status>>,
             \A p \in InPlan : actual[p] # None => actual'[p] # None
      PROVE  StillTimed
  BY <1>1 DEF Life, ActiveHasATime, isScheduled, StillTimed, InPlan, Index
<1>2. ASSUME NEW k \in Index, NEW t \in Time, SchedulePhase(k, t) PROVE StillTimed
  <2>1. planned'[plan[k]] = t /\ t # None /\ plan' = plan
    BY <1>0, <1>2, NoneAssumption DEF SchedulePhase, TypeOK, Time
  <2> QED
    BY <1>0, <2>1 DEF StillTimed, InPlan, Index
<1>3. ASSUME NEW k \in Index, UnschedulePhase(k) PROVE StillTimed
  <2>1. isScheduled(plan[k])
    BY <1>3 DEF UnschedulePhase, ScheduledUpTo, Index, TypeOK
  <2>2. status = "active"
    BY <1>0, <1>3, <2>1 DEF UnschedulePhase, Writable, ShapeInv, DraftUntimed, isScheduled
  <2>3. Running /\ plan' = plan
    BY <1>3, <2>2 DEF UnschedulePhase
  <2> QED
    BY <2>3 DEF Running, StillTimed, InPlan, Index
<1>4. ASSUME NEW k \in Index, AdvancePhase(k) PROVE StillTimed
  <2>1. RatifiedActual(now) \in [PhaseId -> Nat \cup {None}]
    BY <1>0, RatifiedType
  <2>2. actual' = [RatifiedActual(now) EXCEPT ![plan[k]] = IF @ = None THEN now ELSE @] /\ plan' = plan
    BY <1>4 DEF AdvancePhase
  <2>3. actual'[plan[k]] # None
    BY <1>0, <2>1, <2>2
  <2> QED
    BY <1>0, <2>2, <2>3 DEF StillTimed, InPlan, Index
<1>5. ASSUME NEW p \in PhaseId, NEW t \in Time \cup {None}, NEW opens \in SUBSET Code,
             Reopen(p, t, opens)
      PROVE  StillTimed
  <2>1. plan' = Append(plan, p) /\ plan \in Seq(PhaseId)
    BY <1>5 DEF Reopen, TypeOK
  <2>2. p \in InPlan'
    <3>1. Len(plan') = Len(plan) + 1 /\ plan'[Len(plan) + 1] = p /\ Len(plan) \in Nat
      BY <2>1
    <3> QED
      BY <3>1 DEF InPlan, Index
  <2>3. CASE t = None
    <3>1. actual'[p] = now
      BY <1>5, <2>3 DEF Reopen, TypeOK
    <3> QED
      BY <1>0, <2>2, <3>1 DEF StillTimed
  <2>4. CASE t # None
    <3>1. planned'[p] = t
      BY <1>5, <2>4 DEF Reopen, TypeOK
    <3> QED
      BY <2>2, <2>4, <3>1 DEF StillTimed
  <2> QED
    BY <2>3, <2>4
<1>6. ASSUME NEW specs \in Specs, NEW opens \in [Named(specs) -> SUBSET Code],
              NEW renamed \in BOOLEAN, ReplaceActivePlan(specs, opens, renamed)
      PROVE  StillTimed
  <2>1. PICK k \in Index : isScheduled(plan[k])
    BY <1>6 DEF ReplaceActivePlan, Life, ActiveHasATime, InPlan
  <2>2. k \in DOMAIN specs /\ specs[k] = plan[k]
    BY <1>6, <2>1, CommittedStay DEF ReplaceActivePlan, ShapeInv
  <2>3. WritePlanOrder(specs, opens) /\ specs \in Seq(PhaseId) /\ DOMAIN specs = 1..Len(specs)
    BY <1>6, SpecsAreSeqs DEF ReplaceActivePlan
  <2>4. plan[k] \in InPlan' /\ plan[k] \in Named(specs)
    BY <2>2, <2>3 DEF WritePlanOrder, InPlan, Index, Named
  <2>5. actual'[plan[k]] = actual[plan[k]] /\ planned'[plan[k]] = planned[plan[k]]
    BY <1>0, <2>3, <2>4 DEF WritePlanOrder
  <2> QED
    BY <2>1, <2>4, <2>5 DEF StillTimed, isScheduled
<1>7. ASSUME NEW s \in Sweeper, SweepBatch(s) PROVE StillTimed
  <2>1. CASE status = "active"
    <3>1. actual' = RatifiedActual(sweep[s]) /\ UNCHANGED <<plan, planned, status>>
      BY <1>7, <2>1 DEF SweepBatch
    <3>2. \A p \in InPlan : actual[p] # None => actual'[p] # None
      BY <1>0, <3>1 DEF RatifiedActual, InPlan
    <3> QED
      BY <1>1, <3>1, <3>2
  <2>2. CASE status # "active"
    BY <1>7, <2>2 DEF SweepBatch
  <2> QED
    BY <2>1, <2>2
<1>8. ASSUME \/ Tick \/ SetRoster \/ CloseRound \/ UNCHANGED vars
             \/ \E code \in Code : OpenRound(code)
             \/ \E s \in Sweeper : SweepRead(s) \/ SweepFails(s)
      PROVE  StillTimed
  BY <1>1, <1>8 DEF Tick, SetRoster, CloseRound, OpenRound, SweepRead, SweepFails,
     vars, planVars
<1> QED
  BY <1>2, <1>3, <1>4, <1>5, <1>6, <1>7, <1>8 DEF Next, ReplaceDraftPlan, AppendTemplate,
     Archive, DeleteBatch

(* Withdrawing the last time of a batch takes back nothing that happened:  *)
(* a batch that was entered, closed or reviewed in still has a time.       *)
LEMMA WithdrawnIsUnused ==
    ASSUME TypeOK, ShapeInv, Life, NEW k \in Index, UnschedulePhase(k), status' \in {"draft", "deleted"}
    PROVE  current' = None /\ closed' = None /\ rounds' = 0
<1>1. plan[k] \in PhaseId /\ plan[k] \in InPlan /\ now \in Nat /\ InPlan \subseteq PhaseId
  BY DEF TypeOK, InPlan, Index
<1>2. isScheduled(plan[k])
  BY DEF UnschedulePhase, ScheduledUpTo, Index, TypeOK
<1>3. status = "active"
  BY <1>1, <1>2 DEF UnschedulePhase, Writable, ShapeInv, DraftUntimed, isScheduled
<1>4. /\ ~Running /\ actual' = RatifiedActual(now)
      /\ UNCHANGED <<plan, closed, rounds>>
      /\ \E e \in 0..Len(plan) : current' = RatifiedCurrent(e, now)
  BY <1>3 DEF UnschedulePhase
<1>5. \A p \in InPlan : actual'[p] = None /\ planned'[p] = None
  BY <1>4 DEF Running
<1>6. ~Begun
  <2>1. Index' = Index /\ InPlan' = InPlan
    BY <1>4 DEF Index, InPlan
  <2>2. Begun => 1 \in Index' /\ EntryAt(plan[1])' # None
    <3>1. [Next]_vars
      BY DEF Next
    <3> QED
      BY <3>1, BegunStays DEF Begun, EntryAt
  <2> QED
    BY <1>4, <1>5, <2>1, <2>2 DEF EntryAt, InPlan
<1>7. closed = None /\ rounds = 0
  BY <1>6 DEF Life, UsedHasBegun
<1>8. \A p \in InPlan : actual[p] = None /\ p \notin PendingBy(now)
  <2> SUFFICES ASSUME NEW p \in InPlan PROVE actual[p] = None /\ p \notin PendingBy(now)
    OBVIOUS
  <2>1. RatifiedActual(now)[p] = None
    BY <1>4, <1>5
  <2>2. p \in PendingBy(now) => planned[p] \in Nat
    BY <1>1, PendingPlanned
  <2> QED
    BY <1>1, <2>1, <2>2, NoneAssumption DEF RatifiedActual
<1>9. PendingBy(now) = {}
  BY <1>8 DEF PendingBy, InPlan
<1>10. current' = current
  BY <1>4, <1>9 DEF RatifiedCurrent
<1>11. current = None
  BY <1>8 DEF Life, Projected, InPlan
<1> QED
  BY <1>4, <1>7, <1>10, <1>11

(* A draft stays unused and an archive closed.                             *)
LEMMA ClosedStep ==
    ASSUME TypeOK, ShapeInv, Life, [Next]_vars
    PROVE  DraftUnused' /\ ArchiveClosed'
<1>1. ASSUME UNCHANGED <<current, closed, rounds>>,
             status' = status \/ (status = "draft" /\ status' = "deleted") \/ status' = "active"
      PROVE  DraftUnused' /\ ArchiveClosed'
  BY <1>1 DEF Life, DraftUnused, ArchiveClosed
<1>2. ASSUME status' = "active" PROVE DraftUnused' /\ ArchiveClosed'
  BY <1>2 DEF DraftUnused, ArchiveClosed
<1>3. ASSUME NEW k \in Index, UnschedulePhase(k) PROVE DraftUnused' /\ ArchiveClosed'
  <2>1. status' \in {"draft", "active"}
    BY <1>3 DEF UnschedulePhase, Writable
  <2> QED
    BY <1>3, <2>1, WithdrawnIsUnused DEF DraftUnused, ArchiveClosed
<1>4. CASE Archive
  BY <1>4, NoneAssumption DEF Archive, Archivable, DraftUnused, ArchiveClosed, TypeOK
<1>5. ASSUME NEW code \in Code, OpenRound(code) PROVE DraftUnused' /\ ArchiveClosed'
  BY <1>2, <1>5 DEF OpenRound, GateOpen, InHand
<1>6. ASSUME \/ CloseRound
             \/ \E k \in Index : AdvancePhase(k) \/ \E t \in Time : SchedulePhase(k, t)
             \/ \E p \in PhaseId, t \in Time \cup {None}, opens \in SUBSET Code : Reopen(p, t, opens)
             \/ \E specs \in Specs : \E opens \in [Named(specs) -> SUBSET Code] :
                   \E renamed \in BOOLEAN : ReplaceActivePlan(specs, opens, renamed)
      PROVE  DraftUnused' /\ ArchiveClosed'
  BY <1>2, <1>6 DEF CloseRound, AdvancePhase, SchedulePhase, Reopen, ReplaceActivePlan
<1>7. ASSUME NEW specs \in Specs, NEW opens \in [Named(specs) -> SUBSET Code],
             \/ ReplaceDraftPlan(specs, opens) \/ AppendTemplate(specs, opens)
      PROVE  DraftUnused' /\ ArchiveClosed'
  BY <1>1, <1>7 DEF ReplaceDraftPlan, AppendTemplate
<1>8. ASSUME NEW s \in Sweeper, SweepBatch(s) PROVE DraftUnused' /\ ArchiveClosed'
  <2>1. status' = status /\ closed' = closed /\ rounds' = rounds
        /\ (status # "active" => current' = current)
    BY <1>8 DEF SweepBatch
  <2> QED
    BY <1>1, <1>2, <2>1
<1>9. ASSUME \/ Tick \/ SetRoster \/ DeleteBatch \/ UNCHANGED vars
              \/ \E s \in Sweeper : SweepRead(s) \/ SweepFails(s)
      PROVE  DraftUnused' /\ ArchiveClosed'
  BY <1>1, <1>9 DEF Tick, SetRoster, DeleteBatch, SweepRead, SweepFails, vars
<1> QED
  BY <1>3, <1>4, <1>5, <1>6, <1>7, <1>8, <1>9 DEF Next

(* Every step keeps the life of the batch together.                        *)
LEMMA LifeStep == TypeOK /\ ShapeInv /\ Life /\ [Next]_vars => Life'
<1> SUFFICES ASSUME TypeOK, ShapeInv, Life, [Next]_vars PROVE Life'
  OBVIOUS
<1>1. ActiveHasATime'
  BY ActiveStep DEF ActiveHasATime, StillTimed, isScheduled
<1> QED
  BY <1>1, UsedStep, ClosedStep, ProjectStep DEF Life

(* The life of a batch holds together from the start and for good.         *)
THEOREM LifeInvariant == Spec => []Life
<1>1. Init => Life
  BY DEF Init, Life, ActiveHasATime, UsedHasBegun, ClosedPast, DraftUnused, ArchiveClosed,
     Projected, InPlan, Index
<1> QED
  BY <1>1, LifeStep, TypeCorrect, ShapeInvariant, PTL DEF Spec

(* A draft, or a deleted batch, never ran: the way back to draft exists    *)
(* only while nothing was entered, closed or put under review.             *)
THEOREM DraftsNeverRan == Spec => []DraftNeverRan
<1>1. ShapeInv /\ Life => DraftNeverRan
  BY DEF ShapeInv, DraftUntimed, EnteredOnce, isScheduled, Life, DraftUnused, DraftNeverRan
<1> QED
  BY <1>1, ShapeInvariant, LifeInvariant, PTL

(* An archive is final: all of its phases are entered, none after it was   *)
(* closed, nothing is projected and no review round is open.               *)
THEOREM ArchivesAreOver == Spec => []ArchivedIsOver
<1>1. ShapeInv /\ Life => ArchivedIsOver
  BY DEF ShapeInv, ArchivedEntered, Life, ArchiveClosed, Projected, ArchivedIsOver
<1> QED
  BY <1>1, ShapeInvariant, LifeInvariant, PTL

(* current_phase_id is the last phase entered, or empty when none was      *)
(* since the batch was opened or reopened, whoever wrote last.             *)
THEOREM ProjectionNeverStrays == Spec => []ProjectionFollows
<1>1. Life => ProjectionFollows
  BY DEF Life, Projected, ProjectionFollows
<1> QED
  BY <1>1, LifeInvariant, PTL

-----------------------------------------------------------------------------
(***************************************************************************)
(* The past stays past.                                                    *)
(***************************************************************************)

\* entered no later than the batch was last archived
Over(p) ==
    /\ closed # None
    /\ \E i \in Index : plan[i] = p
    /\ actual[p] # None /\ actual[p] <= closed

(* Once over, over for good: the entry is history, and the closing only    *)
(* moves on.                                                               *)
LEMMA OverStays ==
    ASSUME TypeOK, ShapeInv, Life, [Next]_vars, NEW p \in PhaseId, Over(p)
    PROVE  Over(p)'
<1>0. now \in Nat /\ closed \in Nat /\ actual[p] \in Nat /\ closed <= now /\ now # None
  BY NoneAssumption DEF Over, TypeOK, Life, ClosedPast
<1>1. PICK i \in Index : plan[i] = p
  BY DEF Over
<1>2. ReachedBy(i, now)
  BY <1>0, <1>1, EnteredReached DEF Over
<1>3. i \in Index' /\ plan'[i] = p /\ EntryAt(p)' = EntryAt(p) /\ actual'[p] # None
  BY <1>1, <1>2, HistoryStep DEF Settled, Over
<1>4. actual'[p] = actual[p]
  BY <1>3 DEF EntryAt, Over
<1>5. closed' = closed \/ closed' = now
  BY DEF Next, vars, Tick, SetRoster, SchedulePhase, UnschedulePhase, AdvancePhase, Archive,
     DeleteBatch, Reopen, ReplaceDraftPlan, AppendTemplate, ReplaceActivePlan, OpenRound,
     CloseRound, SweepRead, SweepBatch, SweepFails
<1>6. closed' # None /\ actual'[p] <= closed'
  BY <1>0, <1>4, <1>5 DEF Over
<1> QED
  BY <1>3, <1>6 DEF Over

(* Nobody works again in a phase that was over when its batch was          *)
(* archived, however often the batch is reopened and its plan restated.    *)
THEOREM PastIsPast == Spec => PastStaysPast
<1>1. ASSUME NEW p \in PhaseId
      PROVE  Spec => [](status = "archived" /\ p \in InPlan => [](p \notin InHand))
  <2>1. ShapeInv /\ Life /\ status = "archived" /\ p \in InPlan => Over(p)
    BY DEF ShapeInv, ArchivedEntered, Life, ArchiveClosed, Projected, InPlan, Over
  <2>2. TypeOK /\ ShapeInv /\ Life /\ Over(p) /\ [Next]_vars => Over(p)'
    BY OverStays
  <2>3. TypeOK /\ ShapeInv /\ Over(p) => p \notin InHand
    <3> SUFFICES ASSUME TypeOK, ShapeInv, Over(p), p \in InHand PROVE FALSE
      OBVIOUS
    <3>1. beganAfter(p)
      BY DEF InHand
    <3>2. EntryAt(p) = actual[p] /\ closed \in Nat /\ actual[p] \in Nat
      BY DEF EntryAt, Over, TypeOK
    <3> QED
      BY <3>1, <3>2 DEF beganAfter, Over
  <2> QED
    BY <2>1, <2>2, <2>3, TypeCorrect, ShapeInvariant, LifeInvariant, PTL DEF Spec
<1> QED
  BY <1>1 DEF PastStaysPast

=============================================================================
