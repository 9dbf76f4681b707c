------------------------ MODULE PhaseTimelineProofs ------------------------
(***************************************************************************)
(* What TLAPS proves of PhaseTimeline, for every set of phases, codes and  *)
(* sweepers and for every bound.                                           *)
(***************************************************************************)
EXTENDS PhaseTimeline, WellFoundedInduction, TLAPS

-----------------------------------------------------------------------------
(***************************************************************************)
(* Lemmas about the engine's operators.                                    *)
(***************************************************************************)

(* A boundary effectiveState reports as pending is a row of the plan whose *)
(* planned instant has passed.                                             *)
LEMMA PendingPlanned ==
    ASSUME TypeOK, NEW t \in Nat, NEW p \in PendingBy(t)
    PROVE  /\ p \in PhaseId /\ p \in InPlan
           /\ planned[p] \in Nat /\ planned[p] <= t
<1>1. PICK j \in Index : p = plan[j] /\ ReachedBy(j, t) /\ ~MaterializedUpTo(j)
  BY DEF PendingBy
<1>2. p \in PhaseId /\ p \in InPlan
  BY <1>1 DEF TypeOK, Index, InPlan
<1>3. planned[plan[j]] # None /\ planned[plan[j]] <= t
  BY <1>1 DEF ReachedBy, Index, TypeOK
<1> QED
  BY <1>1, <1>2, <1>3 DEF TypeOK

(* Ratifying keeps the columns it writes well typed (ratifyPending).       *)
LEMMA RatifiedType ==
    ASSUME TypeOK, NEW t \in Nat
    PROVE  /\ RatifiedActual(t) \in [PhaseId -> Nat \cup {None}]
           /\ RatifiedEntered(t) \in [PhaseId -> Seq(Nat)]
<1>1. \A p \in PhaseId : planned[p] \in Nat \cup {None} /\ actual[p] \in Nat \cup {None}
                         /\ entered[p] \in Seq(Nat)
  BY DEF TypeOK
<1>2. \A p \in PhaseId : p \in PendingBy(t) => Append(entered[p], planned[p]) \in Seq(Nat)
  BY PendingPlanned, <1>1
<1> QED
  BY <1>1, <1>2 DEF RatifiedActual, RatifiedEntered

(* The projection ratifyPending writes is a phase, or is left alone.       *)
LEMMA RatifiedCurrentType ==
    ASSUME TypeOK, NEW t \in Nat, NEW e \in 0..Len(plan), EffectiveAt(e, t)
    PROVE  RatifiedCurrent(e, t) \in PhaseId \cup {None}
<1>1. CASE PendingBy(t) = {}
  BY <1>1 DEF RatifiedCurrent, TypeOK
<1>2. CASE PendingBy(t) # {}
  <2>1. PICK j \in Index : ReachedBy(j, t)
    BY <1>2 DEF PendingBy
  <2>2. ReachedBy(1, t)
    BY <2>1 DEF ReachedBy, Index, TypeOK
  <2>3. e # 0
    BY <2>2 DEF EffectiveAt
  <2>4. plan[e] \in PhaseId
    BY <2>3 DEF TypeOK
  <2> QED
    BY <2>4, <1>2 DEF RatifiedCurrent
<1> QED
  BY <1>1, <1>2

(* A list of specs is a sequence of phases that names each once.           *)
LEMMA SpecsAreSeqs ==
    ASSUME NEW specs \in Specs
    PROVE  /\ specs \in Seq(PhaseId)
           /\ DOMAIN specs = 1..Len(specs)
           /\ NamesOnce(specs)
<1>1. PICK n \in 0..MaxPhases : specs \in [1..n -> PhaseId]
  BY DEF Specs
<1>2. n \in Nat
  BY <1>1, BoundAssumption
<1> QED
  BY <1>1, <1>2 DEF Specs

-----------------------------------------------------------------------------
(***************************************************************************)
(* Type correctness.                                                       *)
(***************************************************************************)

(* writePlanOrder leaves well-typed rows.                                  *)
LEMMA WritePlanOrderType ==
    ASSUME TypeOK, NEW specs \in Seq(PhaseId), NEW opens,
           \A p \in Named(specs) : opens[p] \in SUBSET Code,
           WritePlanOrder(specs, opens)
    PROVE  /\ plan' \in Seq(PhaseId)
           /\ planned' \in [PhaseId -> Nat \cup {None}]
           /\ actual' \in [PhaseId -> Nat \cup {None}]
           /\ entered' \in [PhaseId -> Seq(Nat)]
           /\ profile' \in [PhaseId -> SUBSET Code]
<1>1. <<>> \in Seq(Nat)
  OBVIOUS
<1>2. \A p \in PhaseId : planned[p] \in Nat \cup {None} /\ actual[p] \in Nat \cup {None}
                         /\ entered[p] \in Seq(Nat)
  BY DEF TypeOK
<1> QED
  BY <1>1, <1>2 DEF WritePlanOrder

(* No operation of the service and no sweep leaves a badly typed column.   *)
LEMMA TypeStep == TypeOK /\ [Next]_vars => TypeOK'
<1> SUFFICES ASSUME TypeOK, [Next]_vars PROVE TypeOK'
  OBVIOUS
<1> USE BoundAssumption
<1>a. RatifiedActual(now) \in [PhaseId -> Nat \cup {None}]
      /\ RatifiedEntered(now) \in [PhaseId -> Seq(Nat)]
  BY RatifiedType DEF TypeOK
<1>b. \A e \in 0..Len(plan) : EffectiveAt(e, now) =>
          RatifiedCurrent(e, now) \in PhaseId \cup {None}
  BY RatifiedCurrentType DEF TypeOK
<1>c. \A i \in Index : plan[i] \in PhaseId
  BY DEF TypeOK, Index
<1>d. RecordConfigChange => revision' \in 0..1
  BY DEF RecordConfigChange, TypeOK
<1>1. CASE Tick
  BY <1>1 DEF Tick, TypeOK, planVars
<1>2. CASE SetRoster
  BY <1>2 DEF SetRoster, TypeOK, planVars
<1>3. ASSUME NEW i \in Index, NEW t \in Time, SchedulePhase(i, t) PROVE TypeOK'
  <2>1. t \in Nat
    BY DEF Time
  <2> QED
    BY <2>1, <1>3, <1>a, <1>b, <1>c, <1>d DEF SchedulePhase, TypeOK
<1>4. ASSUME NEW i \in Index, UnschedulePhase(i) PROVE TypeOK'
  BY <1>4, <1>a, <1>b, <1>c, <1>d DEF UnschedulePhase, TypeOK
<1>5. ASSUME NEW i \in Index, AdvancePhase(i) PROVE TypeOK'
  <2>1. Append(RatifiedEntered(now)[plan[i]], now) \in Seq(Nat)
    BY <1>a, <1>c DEF TypeOK
  <2> QED
    BY <2>1, <1>5, <1>a, <1>c DEF AdvancePhase, TypeOK
<1>6. CASE Archive
  BY <1>6, <1>a DEF Archive, TypeOK
<1>7. CASE DeleteBatch
  BY <1>7 DEF DeleteBatch, TypeOK, planVars
<1>8. ASSUME NEW p \in PhaseId, NEW t \in Time \cup {None}, NEW opens \in SUBSET Code,
             Reopen(p, t, opens)
      PROVE TypeOK'
  <2>1. Append(plan, p) \in Seq(PhaseId)
    BY DEF TypeOK
  <2>2. Append(entered[p], now) \in Seq(Nat)
    BY DEF TypeOK
  <2>3. t # None => t \in Nat
    BY DEF Time
  <2>4. actual' \in [PhaseId -> Nat \cup {None}] /\ planned' \in [PhaseId -> Nat \cup {None}]
        /\ entered' \in [PhaseId -> Seq(Nat)] /\ current' \in PhaseId \cup {None}
    BY <1>8, <2>2, <2>3 DEF Reopen, TypeOK
  <2> QED
    BY <1>8, <2>1, <2>4 DEF Reopen, TypeOK
<1>9. ASSUME NEW specs \in Specs, NEW opens \in [Named(specs) -> SUBSET Code],
             ReplaceDraftPlan(specs, opens)
      PROVE TypeOK'
  BY <1>9, SpecsAreSeqs, WritePlanOrderType DEF ReplaceDraftPlan, TypeOK
<1>10. ASSUME NEW specs \in Specs, NEW opens \in [Named(specs) -> SUBSET Code],
              AppendTemplate(specs, opens)
       PROVE TypeOK'
  <2> DEFINE all == plan \o specs
             kept == [p \in PhaseId |-> IF p \in InPlan THEN profile[p] ELSE opens[p]]
  <2>1. specs \in Seq(PhaseId) /\ DOMAIN specs = 1..Len(specs) /\ plan \in Seq(PhaseId)
    BY SpecsAreSeqs DEF TypeOK
  <2>2. all \in Seq(PhaseId)
    BY <2>1
  <2>3. \A i \in DOMAIN all : all[i] \in InPlan \/ all[i] \in Named(specs)
    BY <2>1, <2>2 DEF InPlan, Index, Named
  <2>4. \A p \in Named(all) : kept[p] \in SUBSET Code
    <3> SUFFICES ASSUME NEW i \in DOMAIN all PROVE kept[all[i]] \in SUBSET Code
      BY DEF Named
    <3>1. all[i] \in PhaseId
      BY <2>2
    <3> QED
      BY <2>3, <3>1 DEF TypeOK
  <2>5. WritePlanOrder(all, kept)
    BY <1>10 DEF AppendTemplate
  <2> HIDE DEF all, kept
  <2> QED
    BY <2>2, <2>4, <2>5, <1>10, WritePlanOrderType DEF AppendTemplate, TypeOK
<1>11. ASSUME NEW specs \in Specs, NEW opens \in [Named(specs) -> SUBSET Code],
              NEW renamed \in BOOLEAN, ReplaceActivePlan(specs, opens, renamed)
       PROVE TypeOK'
  <2>1. revision' \in 0..1
    BY <1>11, <1>d DEF ReplaceActivePlan, TypeOK
  <2> QED
    BY <2>1, <1>11, SpecsAreSeqs, WritePlanOrderType DEF ReplaceActivePlan, TypeOK
<1>12. ASSUME NEW code \in Code, OpenRound(code) PROVE TypeOK'
  BY <1>12 DEF OpenRound, TypeOK, planVars
<1>13. CASE CloseRound
  BY <1>13 DEF CloseRound, TypeOK, planVars
<1>14. ASSUME NEW s \in Sweeper, SweepRead(s) PROVE TypeOK'
  BY <1>14 DEF SweepRead, TypeOK, planVars
<1>15. ASSUME NEW s \in Sweeper, SweepBatch(s) PROVE TypeOK'
  <2>1. sweep[s] \in Nat
    BY <1>15 DEF SweepBatch, TypeOK
  <2>2. RatifiedActual(sweep[s]) \in [PhaseId -> Nat \cup {None}]
        /\ RatifiedEntered(sweep[s]) \in [PhaseId -> Seq(Nat)]
    BY <2>1, RatifiedType
  <2>3. \A e \in 0..Len(plan) : EffectiveAt(e, sweep[s]) =>
            RatifiedCurrent(e, sweep[s]) \in PhaseId \cup {None}
    BY <2>1, RatifiedCurrentType
  <2> QED
    BY <2>2, <2>3, <1>15 DEF SweepBatch, TypeOK
<1>16. ASSUME NEW s \in Sweeper, SweepFails(s) PROVE TypeOK'
  BY <1>16 DEF SweepFails, TypeOK, planVars
<1>17. CASE UNCHANGED vars
  BY <1>17 DEF vars, TypeOK
<1> QED
  BY <1>1, <1>2, <1>3, <1>4, <1>5, <1>6, <1>7, <1>8, <1>9, <1>10, <1>11, <1>12, <1>13,
     <1>14, <1>15, <1>16, <1>17 DEF Next

(* The columns stay well typed whatever the service and the sweeps do.     *)
THEOREM TypeCorrect == Spec => []TypeOK
<1>1. Init => TypeOK
  BY DEF Init, TypeOK
<1> QED
  BY <1>1, TypeStep, PTL DEF Spec

-----------------------------------------------------------------------------
(***************************************************************************)
(* The shape of a plan.  PlanShape alone is not inductive: moving a time   *)
(* is only checked against the neighbours, so it needs that times run      *)
(* forward along the whole plan; a draft may be permuted because nothing   *)
(* in it has a time; a reopening appends because an archived plan is       *)
(* entered to its end; a phase entered by hand is entered now, after every *)
(* earlier entry.                                                          *)
(***************************************************************************)
Timed(pn, ac, p) == ac[p] # None \/ pn[p] # None
Entry(pn, ac, p) == IF ac[p] # None THEN ac[p] ELSE pn[p]

InOrder(pl, pn, ac) ==
    \A i, j \in 1..Len(pl) : i < j /\ Timed(pn, ac, pl[j]) =>
        /\ Timed(pn, ac, pl[i])
        /\ IF ac[pl[j]] # None
           THEN ac[pl[i]] # None /\ ac[pl[i]] <= ac[pl[j]]
           ELSE Entry(pn, ac, pl[i]) < pn[pl[j]]

RowsDistinct == \A i, j \in Index : plan[i] = plan[j] => i = j

RowsGone ==
    \A p \in PhaseId : p \notin InPlan =>
        planned[p] = None /\ actual[p] = None /\ entered[p] = <<>>

EntriesPast ==
    /\ \A p \in PhaseId : actual[p] # None => actual[p] <= now
    /\ \A s \in Sweeper : sweep[s] # None => sweep[s] <= now

DraftUntimed ==
    status \in {"draft", "deleted"} => \A p \in PhaseId : actual[p] = None /\ planned[p] = None

ArchivedEntered == status = "archived" => \A p \in InPlan : actual[p] # None

ShapeInv ==
    /\ RowsDistinct
    /\ RowsGone
    /\ InOrder(plan, planned, actual)
    /\ EnteredOnce
    /\ EntriesPast
    /\ DraftUntimed
    /\ ArchivedEntered

(* A set of naturals that has a member has a smallest one.                 *)
LEMMA Smallest ==
    ASSUME NEW T \in SUBSET Nat, T # {}
    PROVE  \E m \in T : \A n \in T : m <= n
<1>1. PICK m \in T : \A n \in T : ~(<<n, m>> \in OpToRel(<, Nat))
  BY NatLessThanWellFounded, WFMin
<1>2. \A n \in T : ~(n < m)
  BY <1>1 DEF OpToRel
<1> QED
  BY <1>2

(* What ratifying writes: a phase of the plan has an actual instant        *)
(* afterwards iff it had one or the clock has reached it, and the instant  *)
(* is the one it was due at.  So no boundary moves when it is ratified.    *)
LEMMA RatifiedRow ==
    ASSUME TypeOK, RowsDistinct, NEW t \in Nat, NEW i \in Index
    PROVE  /\ RatifiedActual(t)[plan[i]] # None <=> actual[plan[i]] # None \/ ReachedBy(i, t)
           /\ RatifiedActual(t)[plan[i]] # None =>
                  RatifiedActual(t)[plan[i]] = EntryAt(plan[i])
           /\ ReachedBy(i, t) => actual[plan[i]] # None \/ planned[plan[i]] # None
<1>1. plan[i] \in PhaseId /\ i \in Nat /\ i >= 1
  BY DEF Index, TypeOK
<1>2. plan[i] \in PendingBy(t) => ReachedBy(i, t)
  BY DEF PendingBy, RowsDistinct
<1>3. ReachedBy(i, t) => MaterializedUpTo(i) \/ planned[plan[i]] # None
  BY <1>1 DEF ReachedBy
<1>4. MaterializedUpTo(i) => actual[plan[i]] # None
  BY <1>1 DEF MaterializedUpTo
<1>5. ReachedBy(i, t) /\ actual[plan[i]] = None => plan[i] \in PendingBy(t)
  BY <1>4 DEF PendingBy
<1> QED
  BY <1>1, <1>2, <1>3, <1>4, <1>5 DEF RatifiedActual, EntryAt

(* effectiveState's walk reaches a phase only through those before it.     *)
LEMMA ReachedPrefix ==
    ASSUME NEW t, NEW i \in Nat, NEW j \in Nat, i <= j, ReachedBy(j, t), TypeOK
    PROVE  ReachedBy(i, t)
BY DEF ReachedBy, TypeOK

(* Ratifying keeps a plan in order (ratifyPending).                        *)
LEMMA RatifiedInOrder ==
    ASSUME TypeOK, RowsDistinct, InOrder(plan, planned, actual), NEW t \in Nat
    PROVE  InOrder(plan, planned, RatifiedActual(t))
<1> DEFINE A == RatifiedActual(t)
<1> SUFFICES ASSUME NEW i \in 1..Len(plan), NEW j \in 1..Len(plan), i < j,
                    Timed(planned, A, plan[j])
             PROVE  /\ Timed(planned, A, plan[i])
                    /\ IF A[plan[j]] # None
                       THEN A[plan[i]] # None /\ A[plan[i]] <= A[plan[j]]
                       ELSE Entry(planned, A, plan[i]) < planned[plan[j]]
  BY DEF InOrder
<1>1. plan[i] \in PhaseId /\ plan[j] \in PhaseId /\ i \in Index /\ j \in Index
      /\ i \in Nat /\ j \in Nat
  BY DEF TypeOK, Index
<1>2. /\ A[plan[i]] # None <=> actual[plan[i]] # None \/ ReachedBy(i, t)
      /\ A[plan[i]] # None => A[plan[i]] = EntryAt(plan[i])
      /\ A[plan[j]] # None <=> actual[plan[j]] # None \/ ReachedBy(j, t)
      /\ A[plan[j]] # None => A[plan[j]] = EntryAt(plan[j])
      /\ ReachedBy(j, t) => actual[plan[j]] # None \/ planned[plan[j]] # None
  BY <1>1, RatifiedRow
<1>3. ReachedBy(j, t) => ReachedBy(i, t)
  BY <1>1, ReachedPrefix
<1> HIDE DEF A
<1>4. Timed(planned, actual, plan[j])
  BY <1>2 DEF Timed
<1>5. /\ Timed(planned, actual, plan[i])
      /\ IF actual[plan[j]] # None
         THEN actual[plan[i]] # None /\ actual[plan[i]] <= actual[plan[j]]
         ELSE Entry(planned, actual, plan[i]) < planned[plan[j]]
  BY <1>1, <1>4 DEF InOrder
<1>6. \A p \in PhaseId : actual[p] \in Nat \cup {None} /\ planned[p] \in Nat \cup {None}
  BY DEF TypeOK
<1>7. Timed(planned, A, plan[i])
  BY <1>2, <1>5, <1>1 DEF Timed
<1>8. CASE A[plan[j]] = None
  BY <1>8, <1>7, <1>2, <1>5, <1>6, <1>1 DEF Entry, EntryAt, Timed
<1>9. CASE A[plan[j]] # None /\ actual[plan[j]] # None
  BY <1>9, <1>7, <1>2, <1>5, <1>6, <1>1 DEF EntryAt
<1>10. CASE A[plan[j]] # None /\ actual[plan[j]] = None
  <2>1. A[plan[i]] # None /\ A[plan[i]] = Entry(planned, actual, plan[i])
    BY <1>10, <1>2, <1>3 DEF Entry, EntryAt
  <2>2. A[plan[j]] = planned[plan[j]] /\ planned[plan[j]] \in Nat
    BY <1>10, <1>2, <1>6, <1>1 DEF EntryAt
  <2>3. Entry(planned, actual, plan[i]) \in Nat
    BY <1>5, <1>6, <1>1 DEF Entry, Timed
  <2> QED
    BY <2>1, <2>2, <2>3, <1>5, <1>7, <1>10
<1> QED
  BY <1>8, <1>9, <1>10

(* Committing or moving a time keeps a plan in order although only the two *)
(* neighbours are looked at (plannedRefusals).                             *)
LEMMA ScheduledInOrder ==
    ASSUME TypeOK, RowsDistinct, NEW A \in [PhaseId -> Nat \cup {None}],
           InOrder(plan, planned, A), NEW i \in Index, NEW t \in Nat,
           A[plan[i]] = None,
           planned[plan[i]] = None =>
               \A k \in 1..(i - 1) : Timed(planned, A, plan[k]),
           i > 1 => Entry(planned, A, plan[i - 1]) < t,
           i < Len(plan) /\ planned[plan[i + 1]] # None => planned[plan[i + 1]] > t
    PROVE  InOrder(plan, [planned EXCEPT ![plan[i]] = t], A)
<1> DEFINE P == [planned EXCEPT ![plan[i]] = t]
<1>1. \A k \in 1..Len(plan) : /\ plan[k] \in PhaseId
                              /\ A[plan[k]] \in Nat \cup {None}
                              /\ planned[plan[k]] \in Nat \cup {None}
  BY DEF TypeOK
<1>2. i \in 1..Len(plan) /\ Len(plan) \in Nat
  BY DEF Index, TypeOK
<1>3. \A k \in 1..Len(plan) : P[plan[k]] = IF k = i THEN t ELSE planned[plan[k]]
  BY <1>1 DEF TypeOK, RowsDistinct, Index
<1> SUFFICES ASSUME NEW a \in 1..Len(plan), NEW b \in 1..Len(plan), a < b,
                    Timed(P, A, plan[b])
             PROVE  /\ Timed(P, A, plan[a])
                    /\ IF A[plan[b]] # None
                       THEN A[plan[a]] # None /\ A[plan[a]] <= A[plan[b]]
                       ELSE Entry(P, A, plan[a]) < P[plan[b]]
  BY DEF InOrder
<1> HIDE DEF P
<1>4. \A k, l \in 1..Len(plan) : k < l /\ Timed(planned, A, plan[l]) =>
        /\ Timed(planned, A, plan[k])
        /\ IF A[plan[l]] # None
           THEN A[plan[k]] # None /\ A[plan[k]] <= A[plan[l]]
           ELSE Entry(planned, A, plan[k]) < planned[plan[l]]
  BY DEF InOrder
<1>5. CASE b = i
  <2>1. Timed(planned, A, plan[a])
    <3>1. CASE planned[plan[i]] = None
      BY <3>1, <1>5, <1>2
    <3>2. CASE planned[plan[i]] # None
      BY <3>2, <1>4, <1>5 DEF Timed
    <3> QED
      BY <3>1, <3>2
  <2>2. Entry(planned, A, plan[a]) < t
    <3>1. CASE a = i - 1
      BY <3>1, <1>5, <1>2
    <3>2. CASE a # i - 1
      <4>1. /\ i - 1 \in 1..Len(plan) /\ i - 1 \in 1..(i - 1)
            /\ a < i - 1 /\ i > 1 /\ i - 1 < i
        BY <3>2, <1>5, <1>2
      <4>2. Timed(planned, A, plan[i - 1])
        <5>1. CASE planned[plan[i]] = None
          BY <5>1, <4>1
        <5>2. CASE planned[plan[i]] # None
          BY <5>2, <4>1, <1>2, <1>4 DEF Timed
        <5> QED
          BY <5>1, <5>2
      <4>3. Entry(planned, A, plan[a]) <= Entry(planned, A, plan[i - 1])
        BY <4>1, <4>2, <1>1, <1>4 DEF Entry, Timed
      <4>4. Entry(planned, A, plan[a]) \in Nat /\ Entry(planned, A, plan[i - 1]) \in Nat
        BY <2>1, <4>2, <4>1, <1>1 DEF Entry, Timed
      <4> QED
        BY <4>1, <4>3, <4>4
    <3> QED
      BY <3>1, <3>2
  <2> QED
    BY <2>1, <2>2, <1>5, <1>3, <1>1 DEF Timed, Entry
<1>6. CASE a = i
  <2>1. P[plan[b]] = planned[plan[b]] /\ P[plan[a]] = t
    BY <1>6, <1>3
  <2>2. A[plan[b]] = None
    BY <1>6, <1>4, <2>1 DEF Timed
  <2>3. planned[plan[b]] # None
    BY <2>1, <2>2 DEF Timed
  <2>4. i + 1 \in 1..Len(plan) /\ i < Len(plan)
    BY <1>6, <1>2
  <2>5. Timed(planned, A, plan[i + 1]) /\ A[plan[i + 1]] = None
    BY <2>2, <2>3, <2>4, <1>2, <1>4, <1>6 DEF Timed
  <2>6. planned[plan[i + 1]] > t /\ planned[plan[i + 1]] \in Nat
    BY <2>4, <2>5, <1>1 DEF Timed
  <2>7. planned[plan[b]] >= planned[plan[i + 1]] /\ planned[plan[b]] \in Nat
    <3>1. CASE b = i + 1
      BY <3>1, <2>6
    <3>2. CASE b # i + 1
      BY <3>2, <2>2, <2>3, <2>4, <2>5, <2>6, <1>1, <1>4, <1>6 DEF Timed, Entry
    <3> QED
      BY <3>1, <3>2
  <2> QED
    BY <2>1, <2>2, <2>6, <2>7, <1>6, <1>1, NoneAssumption DEF Timed, Entry
<1>7. CASE a # i /\ b # i
  BY <1>7, <1>3, <1>4 DEF Timed, Entry
<1> QED
  BY <1>5, <1>6, <1>7

(* Withdrawing the last time keeps a plan in order.                        *)
LEMMA UnscheduledInOrder ==
    ASSUME TypeOK, RowsDistinct, NEW A \in [PhaseId -> Nat \cup {None}],
           InOrder(plan, planned, A), NEW i \in Index, A[plan[i]] = None,
           \A k \in Index : k > i => ~Timed(planned, A, plan[k])
    PROVE  InOrder(plan, [planned EXCEPT ![plan[i]] = None], A)
<1> DEFINE P == [planned EXCEPT ![plan[i]] = None]
<1>1. \A k \in 1..Len(plan) : P[plan[k]] = IF k = i THEN None ELSE planned[plan[k]]
  BY DEF TypeOK, RowsDistinct, Index
<1> HIDE DEF P
<1> SUFFICES InOrder(plan, P, A)
  BY DEF P
<1>2. \A b \in 1..Len(plan) : Timed(P, A, plan[b]) => b < i /\ Timed(planned, A, plan[b])
  BY <1>1 DEF Timed, Index, TypeOK
<1> QED
  BY <1>1, <1>2 DEF InOrder, Timed, Entry, Index, TypeOK

(* Entering the next phase by hand keeps a plan in order: its own instant  *)
(* and every later one still lie ahead (advancePhase).                     *)
LEMMA AdvancedInOrder ==
    ASSUME TypeOK, RowsDistinct, InOrder(plan, planned, actual), EntriesPast,
           NEW i \in Index, EffectiveAt(i - 1, now)
    PROVE  /\ RatifiedActual(now)[plan[i]] = None
           /\ InOrder(plan, planned, [RatifiedActual(now) EXCEPT ![plan[i]] = now])
<1> DEFINE A == RatifiedActual(now)
           B == [A EXCEPT ![plan[i]] = now]
<1>1. i \in Nat /\ i >= 1 /\ i <= Len(plan) /\ now \in Nat /\ i - 1 \in 0..Len(plan)
      /\ i \in 0..Len(plan)
  BY DEF Index, TypeOK
<1>2. ReachedBy(i - 1, now) /\ ~ReachedBy(i, now)
  BY <1>1 DEF EffectiveAt
<1>3. \A k \in 1..Len(plan) :
        /\ plan[k] \in PhaseId
        /\ A[plan[k]] # None <=> actual[plan[k]] # None \/ ReachedBy(k, now)
        /\ A[plan[k]] # None => A[plan[k]] = EntryAt(plan[k])
        /\ planned[plan[k]] \in Nat \cup {None} /\ actual[plan[k]] \in Nat \cup {None}
  BY RatifiedRow, <1>1 DEF TypeOK, Index
<1>4. InOrder(plan, planned, A)
  BY RatifiedInOrder, <1>1
<1>5. A \in [PhaseId -> Nat \cup {None}]
  BY RatifiedType, <1>1
<1>6. actual[plan[i]] = None
  <2> SUFFICES ASSUME actual[plan[i]] # None PROVE FALSE
    OBVIOUS
  <2>1. \A k \in 1..i : actual[plan[k]] # None
    BY <1>1 DEF InOrder, Timed
  <2>2. \A k \in 1..i : MaterializedUpTo(k)
    BY <2>1, <1>1 DEF MaterializedUpTo
  <2> QED
    BY <2>2, <1>1, <1>2 DEF ReachedBy
<1>7. A[plan[i]] = None
  BY <1>6, <1>3, <1>2, <1>1
<1>8. planned[plan[i]] # None => planned[plan[i]] > now
  <2> SUFFICES ASSUME planned[plan[i]] # None, planned[plan[i]] <= now PROVE FALSE
    BY <1>3, <1>1
  <2> QED
    BY <1>1, <1>2 DEF ReachedBy
<1>9. \A k \in 1..Len(plan) : k < i => A[plan[k]] # None /\ A[plan[k]] <= now
  <2> SUFFICES ASSUME NEW k \in 1..Len(plan), k < i PROVE A[plan[k]] # None /\ A[plan[k]] <= now
    OBVIOUS
  <2>1. ReachedBy(k, now)
    BY <1>1, <1>2, ReachedPrefix
  <2>2. actual[plan[k]] # None => actual[plan[k]] <= now
    BY <1>3 DEF EntriesPast
  <2>3. actual[plan[k]] = None => planned[plan[k]] <= now
    BY <2>1 DEF ReachedBy, MaterializedUpTo
  <2> QED
    BY <2>1, <2>2, <2>3, <1>3 DEF EntryAt
<1>10. \A k \in 1..Len(plan) : B[plan[k]] = IF k = i THEN now ELSE A[plan[k]]
  BY <1>5, <1>3, <1>1 DEF RowsDistinct, Index
<1> HIDE DEF A, B
<1>11. InOrder(plan, planned, B)
  <2> SUFFICES ASSUME NEW a \in 1..Len(plan), NEW b \in 1..Len(plan), a < b,
                      Timed(planned, B, plan[b])
               PROVE  /\ Timed(planned, B, plan[a])
                      /\ IF B[plan[b]] # None
                         THEN B[plan[a]] # None /\ B[plan[a]] <= B[plan[b]]
                         ELSE Entry(planned, B, plan[a]) < planned[plan[b]]
    BY DEF InOrder
  <2>0. Timed(planned, A, plan[b]) =>
          /\ Timed(planned, A, plan[a])
          /\ IF A[plan[b]] # None
             THEN A[plan[a]] # None /\ A[plan[a]] <= A[plan[b]]
             ELSE Entry(planned, A, plan[a]) < planned[plan[b]]
    BY <1>4 DEF InOrder
  <2>1. CASE b = i
    BY <2>1, <1>9, <1>10, <1>1, <1>5, NoneAssumption DEF Timed
  <2>2. CASE a = i
    <3>1. A[plan[b]] = None /\ planned[plan[b]] # None
      BY <2>0, <2>2, <1>7, <1>10 DEF Timed
    <3>2. planned[plan[i]] # None /\ planned[plan[i]] < planned[plan[b]]
      BY <3>1, <2>0, <2>2, <1>7 DEF Timed, Entry
    <3>3. now < planned[plan[b]]
      BY <3>1, <3>2, <1>8, <1>3, <1>1
    <3> QED
      BY <3>1, <3>3, <2>2, <1>10, <1>1, NoneAssumption DEF Timed, Entry
  <2>3. CASE a # i /\ b # i
    BY <2>3, <2>0, <1>10 DEF Timed, Entry
  <2> QED
    BY <2>1, <2>2, <2>3
<1> QED
  BY <1>7, <1>11 DEF A, B

(* A restated active plan keeps every phase that has a time at its place.  *)
(* The verdict only compares the submitted ids with the committed ones and *)
(* places insertions behind what is scheduled (replacePlan), so this is    *)
(* what the two refusals amount to together.                               *)
LEMMA CommittedStay ==
    ASSUME TypeOK, RowsDistinct, InOrder(plan, planned, actual), NEW specs \in Specs,
           StructureKept(specs),
           \A i \in DOMAIN specs : specs[i] \notin InPlan => InsertionAllowed(i),
           NEW j \in Index, isScheduled(plan[j])
    PROVE  j \in DOMAIN specs /\ specs[j] = plan[j]
<1> DEFINE Stays(k) == k \in DOMAIN specs /\ specs[k] = plan[k]
           Moved == {k \in Index : isScheduled(plan[k]) /\ ~Stays(k)}
<1> SUFFICES ASSUME Moved # {} PROVE FALSE
  OBVIOUS
<1>1. Moved \in SUBSET Nat
  BY DEF Index, TypeOK
<1>2. PICK m \in Moved : \A n \in Moved : m <= n
  BY <1>1, Smallest
<1>3. m \in Index /\ isScheduled(plan[m]) /\ ~Stays(m) /\ m \in Nat /\ m >= 1 /\ m <= Len(plan)
  BY <1>2 DEF Index, TypeOK
<1>4. \A k \in 1..m : isScheduled(plan[k])
  <2> SUFFICES ASSUME NEW k \in 1..m, k # m PROVE isScheduled(plan[k])
    BY <1>3
  <2>1. k \in 1..Len(plan) /\ m \in 1..Len(plan) /\ k < m
    BY <1>3
  <2>2. Timed(planned, actual, plan[m])
    BY <1>3 DEF Timed, isScheduled
  <2>3. Timed(planned, actual, plan[k])
    BY <2>1, <2>2 DEF InOrder
  <2> QED
    BY <2>3 DEF Timed, isScheduled
<1>5. \A k \in 1..(m - 1) : Stays(k)
  <2> SUFFICES ASSUME NEW k \in 1..(m - 1), ~Stays(k) PROVE FALSE
    OBVIOUS
  <2>1. k \in Moved
    BY <1>3, <1>4 DEF Index
  <2> QED
    BY <2>1, <1>2, <1>3
<1>6. specs \in Seq(PhaseId) /\ DOMAIN specs = 1..Len(specs) /\ NamesOnce(specs)
  BY SpecsAreSeqs
<1> DEFINE p == plan[m]
<1>7. p \in Committed /\ p \in InPlan
  BY <1>3 DEF Committed, InPlan
<1>8. PICK x \in DOMAIN specs : specs[x] = p
  BY <1>7 DEF StructureKept, Named
<1>9. x > m
  <2>1. x \in Nat /\ x # m
    BY <1>8, <1>3, <1>6
  <2>2. ~(x \in 1..(m - 1))
    <3> SUFFICES ASSUME x \in 1..(m - 1) PROVE FALSE
      OBVIOUS
    <3>1. plan[x] = plan[m] /\ x \in Index
      BY <1>5, <1>8, <1>3 DEF Index
    <3> QED
      BY <3>1, <1>3 DEF RowsDistinct
  <2> QED
    BY <2>1, <2>2, <1>6, <1>3
<1>10. m \in DOMAIN specs
  BY <1>9, <1>6, <1>3
<1> DEFINE q == specs[m]
<1>11. q \in InPlan
  <2> SUFFICES ASSUME q \notin InPlan PROVE FALSE
    OBVIOUS
  <2>1. InsertionAllowed(m)
    BY <1>10
  <2>2. ScheduledUpTo(m)
    BY <1>3, <1>4 DEF ScheduledUpTo, TypeOK
  <2> QED
    BY <2>1, <2>2 DEF InsertionAllowed
<1>12. q # p
  BY <1>3, <1>10
<1>13. ~Before(specs, p, q)
  BY <1>8, <1>9, <1>6, <1>10, <1>3 DEF Before, NamesOnce
<1>14. q \in Committed /\ ~Before(plan, p, q)
  <2>1. q \in Named(specs)
    BY <1>10 DEF Named
  <2> QED
    BY <2>1, <1>7, <1>11, <1>12, <1>13 DEF StructureKept
<1>15. PICK l \in Index : plan[l] = q
  BY <1>11 DEF InPlan
<1>16. l < m
  <2>1. l # m /\ l \in Nat
    BY <1>15, <1>12 DEF Index, TypeOK
  <2>2. ~(m < l)
    BY <1>14, <1>15, <1>3 DEF Before, Index, TypeOK
  <2> QED
    BY <2>1, <2>2, <1>3
<1>17. specs[l] = q /\ l \in DOMAIN specs
  BY <1>5, <1>15, <1>16 DEF Index
<1> QED
  BY <1>10, <1>16, <1>17, <1>6, <1>3, <1>15 DEF NamesOnce

-----------------------------------------------------------------------------
(* The write behind a restated plan keeps the shape: rows that left the    *)
(* plan are gone with their times, those that stay keep them.              *)
LEMMA RestatedShape ==
    ASSUME TypeOK, ShapeInv, NEW specs \in Seq(PhaseId), NEW opens, NamesOnce(specs),
           DOMAIN specs = 1..Len(specs),
           \A j \in Index : isScheduled(plan[j]) => j \in DOMAIN specs /\ specs[j] = plan[j],
           WritePlanOrder(specs, opens), UNCHANGED <<now, status, sweep>>,
           status # "archived"
    PROVE  ShapeInv'
<1>1. plan' = specs /\ Index' = 1..Len(specs) /\ InPlan' = Named(specs)
  BY DEF WritePlanOrder, Index, InPlan, Named
<1>2. \A p \in PhaseId :
        /\ planned'[p] = IF p \in InPlan /\ p \in Named(specs) THEN planned[p] ELSE None
        /\ actual'[p] = IF p \in InPlan /\ p \in Named(specs) THEN actual[p] ELSE None
        /\ entered'[p] = IF p \in InPlan /\ p \in Named(specs) THEN entered[p] ELSE <<>>
  BY DEF WritePlanOrder
<1>3. RowsDistinct'
  BY <1>1 DEF RowsDistinct, NamesOnce
<1>4. RowsGone'
  BY <1>1, <1>2 DEF RowsGone
<1>5. EnteredOnce'
  BY <1>2 DEF EnteredOnce, ShapeInv
<1>6. EntriesPast'
  BY <1>2 DEF EntriesPast, ShapeInv
<1>7. DraftUntimed' /\ ArchivedEntered'
  BY <1>2 DEF DraftUntimed, ArchivedEntered, ShapeInv
<1>8. InOrder(plan', planned', actual')
  <2> SUFFICES ASSUME NEW a \in 1..Len(specs), NEW b \in 1..Len(specs), a < b,
                      Timed(planned', actual', specs[b])
               PROVE  /\ Timed(planned', actual', specs[a])
                      /\ IF actual'[specs[b]] # None
                         THEN actual'[specs[a]] # None /\ actual'[specs[a]] <= actual'[specs[b]]
                         ELSE Entry(planned', actual', specs[a]) < planned'[specs[b]]
    BY <1>1 DEF InOrder
  <2>1. specs[a] \in PhaseId /\ specs[b] \in PhaseId /\ a \in Nat /\ b \in Nat
    OBVIOUS
  <2>2. specs[b] \in InPlan /\ specs[b] \in Named(specs) /\ isScheduled(specs[b])
    BY <2>1, <1>2 DEF Timed, isScheduled, Named
  <2>3. PICK l \in Index : plan[l] = specs[b]
    BY <2>2 DEF InPlan
  <2>4. specs[l] = plan[l] /\ l \in DOMAIN specs
    BY <2>2, <2>3
  <2>5. l = b
    BY <2>3, <2>4 DEF NamesOnce
  <2>6. b \in 1..Len(plan) /\ a \in 1..Len(plan) /\ plan[b] = specs[b]
    BY <2>1, <2>3, <2>5 DEF Index, TypeOK
  <2>7. /\ Timed(planned, actual, plan[a])
        /\ IF actual[plan[b]] # None
           THEN actual[plan[a]] # None /\ actual[plan[a]] <= actual[plan[b]]
           ELSE Entry(planned, actual, plan[a]) < planned[plan[b]]
    BY <2>2, <2>6 DEF ShapeInv, InOrder, Timed, isScheduled
  <2>8. specs[a] = plan[a] /\ specs[a] \in InPlan /\ specs[a] \in Named(specs)
    BY <2>6, <2>7 DEF Timed, isScheduled, Index, InPlan, Named
  <2> QED
    BY <2>1, <2>2, <2>6, <2>7, <2>8, <1>2 DEF Timed, Entry
<1> QED
  BY <1>3, <1>4, <1>5, <1>6, <1>7, <1>8 DEF ShapeInv

(* Ratifying enters each phase once, at an instant that has passed, and    *)
(* touches nothing that is not in the plan.                                *)
LEMMA RatifiedOnce ==
    ASSUME TypeOK, ShapeInv, NEW t \in Nat, t <= now
    PROVE  \A p \in PhaseId :
              /\ RatifiedEntered(t)[p] = IF RatifiedActual(t)[p] = None THEN <<>>
                                         ELSE <<RatifiedActual(t)[p]>>
              /\ RatifiedActual(t)[p] # None => RatifiedActual(t)[p] <= now
              /\ p \notin InPlan => RatifiedActual(t)[p] = actual[p]
              /\ actual[p] # None => RatifiedActual(t)[p] # None
<1> SUFFICES ASSUME NEW p \in PhaseId
             PROVE /\ RatifiedEntered(t)[p] = IF RatifiedActual(t)[p] = None THEN <<>>
                                              ELSE <<RatifiedActual(t)[p]>>
                   /\ RatifiedActual(t)[p] # None => RatifiedActual(t)[p] <= now
                   /\ p \notin InPlan => RatifiedActual(t)[p] = actual[p]
                   /\ actual[p] # None => RatifiedActual(t)[p] # None
  OBVIOUS
<1>1. p \in PendingBy(t) => planned[p] \in Nat /\ planned[p] <= t /\ p \in InPlan
  BY PendingPlanned
<1>2. entered[p] = IF actual[p] = None THEN <<>> ELSE <<actual[p]>>
  BY DEF ShapeInv, EnteredOnce
<1>3. actual[p] # None => actual[p] <= now
  BY DEF ShapeInv, EntriesPast
<1>4. CASE p \in PendingBy(t) /\ actual[p] = None
  <2>1. RatifiedActual(t)[p] = planned[p] /\ RatifiedEntered(t)[p] = Append(<<>>, planned[p])
    BY <1>4, <1>2 DEF RatifiedActual, RatifiedEntered
  <2>2. Append(<<>>, planned[p]) = <<planned[p]>>
    OBVIOUS
  <2>3. planned[p] # None /\ planned[p] <= now
    BY <1>1, <1>4, NoneAssumption DEF TypeOK
  <2> QED
    BY <2>1, <2>2, <2>3, <1>1, <1>4
<1>5. CASE ~(p \in PendingBy(t) /\ actual[p] = None)
  BY <1>5, <1>2, <1>3 DEF RatifiedActual, RatifiedEntered
<1> QED
  BY <1>4, <1>5

(* Ratifying alone keeps the shape.                                        *)
LEMMA RatifyShape ==
    ASSUME TypeOK, ShapeInv, NEW t \in Nat, t <= now,
           actual' = RatifiedActual(t), entered' = RatifiedEntered(t),
           UNCHANGED <<now, plan, planned>>, status = "active",
           status' = "active" \/ (status' = "archived" /\ EffectiveAt(Len(plan), t)),
           \A s \in Sweeper : sweep'[s] = sweep[s] \/ sweep'[s] = None
    PROVE  ShapeInv'
<1>1. InOrder(plan, planned, actual')
  BY RatifiedInOrder DEF ShapeInv
<1>2. RowsGone' /\ EnteredOnce' /\ EntriesPast'
  BY RatifiedOnce DEF ShapeInv, RowsGone, EnteredOnce, EntriesPast, InPlan, Index
<1>3. RowsDistinct'
  BY DEF ShapeInv, RowsDistinct, Index
<1>4. DraftUntimed'
  BY DEF DraftUntimed
<1>5. ArchivedEntered'
  <2> SUFFICES ASSUME EffectiveAt(Len(plan), t), NEW i \in Index PROVE actual'[plan[i]] # None
    BY DEF ArchivedEntered, InPlan, Index
  <2>0. i \in Nat /\ Len(plan) \in Nat /\ i <= Len(plan) /\ ReachedBy(Len(plan), t)
    BY DEF EffectiveAt, Index, TypeOK
  <2>1. ReachedBy(i, t)
    BY <2>0, ReachedPrefix
  <2> QED
    BY <2>1, RatifiedRow DEF ShapeInv
<1> QED
  BY <1>1, <1>2, <1>3, <1>4, <1>5 DEF ShapeInv

(* schedulePhase with a time keeps the shape.                              *)
LEMMA ScheduleShape ==
    ASSUME TypeOK, ShapeInv, NEW i \in Index, NEW t \in Nat, SchedulePhase(i, t)
    PROVE  ShapeInv'
<1> DEFINE A == RatifiedActual(now)
<1>0. now \in Nat /\ now <= now /\ i \in Nat /\ i >= 1 /\ i <= Len(plan) /\ Len(plan) \in Nat
  BY DEF TypeOK, Index
<1>a. /\ A \in [PhaseId -> Nat \cup {None}]
      /\ RowsDistinct /\ InOrder(plan, planned, actual) /\ InOrder(plan, planned, A)
  BY <1>0, RatifiedType, RatifiedInOrder DEF ShapeInv
<1>b. \A k \in Index : /\ plan[k] \in PhaseId
                       /\ A[plan[k]] # None <=> actual[plan[k]] # None \/ ReachedBy(k, now)
                       /\ A[plan[k]] # None => A[plan[k]] = EntryAt(plan[k])
                       /\ isScheduled(plan[k]) <=> Timed(planned, A, plan[k])
                       /\ Entry(planned, A, plan[k]) = EntryAt(plan[k])
  <2> SUFFICES ASSUME NEW k \in Index
               PROVE /\ plan[k] \in PhaseId
                     /\ A[plan[k]] # None <=> actual[plan[k]] # None \/ ReachedBy(k, now)
                     /\ A[plan[k]] # None => A[plan[k]] = EntryAt(plan[k])
                     /\ isScheduled(plan[k]) <=> Timed(planned, A, plan[k])
                     /\ Entry(planned, A, plan[k]) = EntryAt(plan[k])
    OBVIOUS
  <2>1. plan[k] \in PhaseId
    BY DEF TypeOK, Index
  <2>2. /\ A[plan[k]] # None <=> actual[plan[k]] # None \/ ReachedBy(k, now)
        /\ A[plan[k]] # None => A[plan[k]] = EntryAt(plan[k])
        /\ ReachedBy(k, now) => actual[plan[k]] # None \/ planned[plan[k]] # None
    BY <1>0, <1>a, RatifiedRow
  <2> HIDE DEF A
  <2> QED
    BY <2>1, <2>2 DEF isScheduled, Timed, Entry, EntryAt
<1>c. \A p \in PhaseId :
        /\ RatifiedEntered(now)[p] = IF A[p] = None THEN <<>> ELSE <<A[p]>>
        /\ A[p] # None => A[p] <= now
        /\ p \notin InPlan => A[p] = actual[p]
  BY <1>0, RatifiedOnce
<1>d. /\ actual' = A /\ entered' = RatifiedEntered(now)
      /\ planned' = [planned EXCEPT ![plan[i]] = t]
      /\ plan' = plan /\ now' = now /\ sweep' = sweep /\ status' = "active"
      /\ NotEntered(i) /\ PlannedAllowed(i, t)
      /\ isScheduled(plan[i]) \/ ScheduledUpTo(i - 1)
  BY DEF SchedulePhase
<1> HIDE DEF A
<1>1. A[plan[i]] = None
  BY <1>b, <1>d DEF NotEntered
<1>2. planned[plan[i]] = None => \A k \in 1..(i - 1) : Timed(planned, A, plan[k])
  <2> SUFFICES ASSUME planned[plan[i]] = None, NEW k \in 1..(i - 1)
               PROVE  Timed(planned, A, plan[k])
    OBVIOUS
  <2>1. ScheduledUpTo(i - 1) /\ k \in Index
    BY <1>d, <1>0 DEF NotEntered, isScheduled, Index
  <2> QED
    BY <2>1, <1>b DEF ScheduledUpTo
<1>3. i > 1 => Entry(planned, A, plan[i - 1]) < t
  <2> SUFFICES ASSUME i > 1 PROVE Entry(planned, A, plan[i - 1]) < t
    OBVIOUS
  <2>1. i - 1 \in Index /\ i - 1 \in 1..(i - 1) /\ i - 1 < i /\ i - 1 \in 1..Len(plan) /\ i \in 1..Len(plan)
    BY <1>0 DEF Index
  <2>2. Timed(planned, A, plan[i - 1])
    <3>1. CASE planned[plan[i]] = None
      BY <3>1, <1>2, <2>1
    <3>2. CASE planned[plan[i]] # None
      <4>1. Timed(planned, A, plan[i])
        BY <3>2 DEF Timed
      <4> QED
        BY <4>1, <2>1, <1>a DEF InOrder
    <3> QED
      BY <3>1, <3>2
  <2>3. EntryAt(plan[i - 1]) # None
    BY <2>1, <2>2, <1>b DEF isScheduled, EntryAt
  <2>4. t > EntryAt(plan[i - 1])
    BY <2>3, <1>d DEF PlannedAllowed
  <2>5. EntryAt(plan[i - 1]) \in Nat
    BY <2>1, <2>3, <1>b DEF EntryAt, TypeOK
  <2> QED
    BY <2>1, <2>4, <2>5, <1>b
<1>4. i < Len(plan) /\ planned[plan[i + 1]] # None => planned[plan[i + 1]] > t
  BY <1>d DEF PlannedAllowed
<1>5. InOrder(plan, planned', A)
  BY <1>a, <1>1, <1>2, <1>3, <1>4, <1>d, ScheduledInOrder
<1>6. RowsGone'
  <2> SUFFICES ASSUME NEW p \in PhaseId, p \notin InPlan
               PROVE planned'[p] = None /\ A[p] = None /\ entered'[p] = <<>>
    BY <1>d DEF RowsGone, InPlan, Index
  <2>1. p # plan[i] /\ planned[p] = None /\ actual[p] = None
    BY DEF InPlan, ShapeInv, RowsGone
  <2> QED
    BY <2>1, <1>c, <1>d DEF TypeOK
<1>7. EnteredOnce' /\ EntriesPast'
  BY <1>c, <1>d DEF EnteredOnce, EntriesPast, ShapeInv
<1>8. RowsDistinct' /\ DraftUntimed' /\ ArchivedEntered'
  BY <1>a, <1>d DEF RowsDistinct, Index, DraftUntimed, ArchivedEntered
<1> QED
  BY <1>5, <1>6, <1>7, <1>8, <1>d DEF ShapeInv

(* schedulePhase with null keeps the shape.                                *)
LEMMA UnscheduleShape ==
    ASSUME TypeOK, ShapeInv, NEW i \in Index, UnschedulePhase(i)
    PROVE  ShapeInv'
<1> DEFINE A == RatifiedActual(now)
<1>0. now \in Nat /\ now <= now /\ i \in Nat /\ i >= 1 /\ i <= Len(plan) /\ Len(plan) \in Nat
  BY DEF TypeOK, Index
<1>a. /\ A \in [PhaseId -> Nat \cup {None}]
      /\ RowsDistinct /\ InOrder(plan, planned, actual) /\ InOrder(plan, planned, A)
  BY <1>0, RatifiedType, RatifiedInOrder DEF ShapeInv
<1>b. \A p \in PhaseId :
        /\ RatifiedEntered(now)[p] = IF A[p] = None THEN <<>> ELSE <<A[p]>>
        /\ A[p] # None => A[p] <= now
        /\ p \notin InPlan => A[p] = actual[p]
  BY <1>0, RatifiedOnce
<1>c. /\ actual' = A /\ entered' = RatifiedEntered(now)
      /\ planned' = [planned EXCEPT ![plan[i]] = None]
      /\ plan' = plan /\ now' = now /\ sweep' = sweep
      /\ status' \in {"draft", "active"} /\ (status' = "draft" => status = "draft" \/ ~Running)
      /\ NotEntered(i) /\ ScheduledUpTo(i) /\ ~ScheduledUpTo(i + 1)
  BY DEF UnschedulePhase, Writable
<1>1. A[plan[i]] = None
  BY <1>c, RatifiedRow, <1>0, <1>a DEF NotEntered
<1>2. \A k \in Index : k > i => ~Timed(planned, A, plan[k])
  <2> SUFFICES ASSUME NEW k \in Index, k > i, Timed(planned, A, plan[k]) PROVE FALSE
    OBVIOUS
  <2>1. i + 1 \in 1..Len(plan) /\ k \in 1..Len(plan) /\ k \in Nat /\ i + 1 \in Index
    BY <1>0 DEF Index
  <2>2. Timed(planned, A, plan[i + 1])
    BY <2>1, <1>0, <1>a DEF InOrder
  <2>3. isScheduled(plan[i + 1])
    BY <2>1, <2>2, RatifiedRow, <1>0, <1>a DEF Timed, isScheduled
  <2>4. ScheduledUpTo(i + 1)
    BY <2>1, <2>3, <1>c, <1>0 DEF ScheduledUpTo
  <2> QED
    BY <2>4, <1>c
<1> HIDE DEF A
<1>3. InOrder(plan, planned', A)
  BY <1>1, <1>2, <1>a, <1>c, UnscheduledInOrder
<1>4. \A p \in PhaseId : p \notin InPlan => planned'[p] = None /\ A[p] = None
  BY <1>b, <1>c DEF ShapeInv, RowsGone, InPlan, TypeOK
<1>5. RowsGone' /\ EnteredOnce' /\ EntriesPast'
  BY <1>b, <1>c, <1>4 DEF RowsGone, EnteredOnce, EntriesPast, ShapeInv, InPlan, Index
<1>6. RowsDistinct' /\ ArchivedEntered'
  BY <1>a, <1>c DEF RowsDistinct, Index, ArchivedEntered
<1>7. DraftUntimed'
  <2>1. status # "draft"
    BY <1>c, <1>0 DEF ShapeInv, DraftUntimed, ScheduledUpTo, isScheduled, TypeOK
  <2>2. ~Running => \A p \in PhaseId : A[p] = None /\ planned'[p] = None
    BY <1>4, <1>c DEF Running
  <2> QED
    BY <2>1, <2>2, <1>c DEF DraftUntimed
<1> QED
  BY <1>3, <1>5, <1>6, <1>7, <1>c DEF ShapeInv

(* advancePhase keeps the shape.                                           *)
LEMMA AdvanceShape ==
    ASSUME TypeOK, ShapeInv, NEW i \in Index, AdvancePhase(i)
    PROVE  ShapeInv'
<1> DEFINE A == RatifiedActual(now)
<1>0. now \in Nat /\ now <= now /\ now # None
  BY NoneAssumption DEF TypeOK
<1>a. A \in [PhaseId -> Nat \cup {None}] /\ RatifiedEntered(now) \in [PhaseId -> Seq(Nat)]
  BY <1>0, RatifiedType
<1>b. A[plan[i]] = None /\ InOrder(plan, planned, [A EXCEPT ![plan[i]] = now])
  BY AdvancedInOrder DEF ShapeInv, AdvancePhase
<1>c. \A p \in PhaseId :
        /\ RatifiedEntered(now)[p] = IF A[p] = None THEN <<>> ELSE <<A[p]>>
        /\ A[p] # None => A[p] <= now
        /\ p \notin InPlan => A[p] = actual[p]
  BY <1>0, RatifiedOnce
<1>d. plan[i] \in PhaseId /\ plan[i] \in InPlan
  BY DEF TypeOK, Index, InPlan
<1>e. /\ actual' = [A EXCEPT ![plan[i]] = IF @ = None THEN now ELSE @]
      /\ entered' = [RatifiedEntered(now) EXCEPT ![plan[i]] = Append(@, now)]
      /\ UNCHANGED <<now, plan, planned, sweep>> /\ status' = "active"
  BY DEF AdvancePhase
<1> HIDE DEF A
<1>1. actual' = [A EXCEPT ![plan[i]] = now]
  BY <1>b, <1>e
<1>2. \A p \in PhaseId : /\ actual'[p] = IF p = plan[i] THEN now ELSE A[p]
                        /\ entered'[p] = IF p = plan[i] THEN <<now>> ELSE RatifiedEntered(now)[p]
  <2>1. Append(<<>>, now) = <<now>>
    OBVIOUS
  <2>2. RatifiedEntered(now)[plan[i]] = <<>>
    BY <1>b, <1>c, <1>d
  <2> QED
    BY <1>1, <1>a, <1>e, <2>1, <2>2
<1>3. RowsGone' /\ EnteredOnce' /\ EntriesPast'
  <2>1. InPlan' = InPlan
    BY <1>e DEF InPlan, Index
  <2>2. RowsGone'
    BY <2>1, <1>2, <1>c, <1>d, <1>e DEF RowsGone, ShapeInv
  <2>3. EnteredOnce'
    BY <1>0, <1>2, <1>c DEF EnteredOnce
  <2>4. EntriesPast'
    <3>1. \A p \in PhaseId : actual'[p] # None => actual'[p] <= now'
      <4> SUFFICES ASSUME NEW p \in PhaseId, actual'[p] # None PROVE actual'[p] <= now
        BY <1>e
      <4>1. actual'[p] = IF p = plan[i] THEN now ELSE A[p]
        BY <1>2
      <4>2. A[p] # None => A[p] <= now
        BY <1>c
      <4> QED
        BY <4>1, <4>2, <1>0
    <3> QED
      BY <3>1, <1>e DEF EntriesPast, ShapeInv
  <2> QED
    BY <2>2, <2>3, <2>4
<1>4. RowsDistinct' /\ DraftUntimed' /\ ArchivedEntered'
  BY <1>e DEF ShapeInv, RowsDistinct, Index, DraftUntimed, ArchivedEntered
<1> QED
  BY <1>1, <1>3, <1>4, <1>b, <1>e DEF ShapeInv

(* Reopening appends behind a plan that was entered to its end.            *)
LEMMA ReopenShape ==
    ASSUME TypeOK, ShapeInv, NEW p \in PhaseId, NEW t \in Time \cup {None}, NEW opens,
           Reopen(p, t, opens)
    PROVE  ShapeInv'
<1>0. now \in Nat /\ now # None /\ (t # None => t \in Nat) /\ Len(plan) \in Nat
  BY NoneAssumption DEF TypeOK, Time
<1>1. /\ plan' = Append(plan, p) /\ p \notin InPlan /\ status = "archived" /\ status' = "active"
      /\ now' = now /\ sweep' = sweep /\ (t # None => t > now)
      /\ actual' = IF t = None THEN [actual EXCEPT ![p] = now] ELSE actual
      /\ planned' = IF t = None THEN planned ELSE [planned EXCEPT ![p] = t]
      /\ entered' = IF t = None THEN [entered EXCEPT ![p] = Append(@, now)] ELSE entered
  BY DEF Reopen
<1>2. planned[p] = None /\ actual[p] = None /\ entered[p] = <<>>
  BY <1>1 DEF ShapeInv, RowsGone
<1>3. /\ Index' = 1..(Len(plan) + 1) /\ Len(plan') = Len(plan) + 1
      /\ \A k \in Index : plan'[k] = plan[k] /\ plan[k] # p /\ plan[k] \in PhaseId
                          /\ plan[k] \in InPlan
      /\ plan'[Len(plan) + 1] = p
  BY <1>0, <1>1 DEF Index, InPlan, TypeOK
<1>4. InPlan' = InPlan \cup {p}
  BY <1>0, <1>3 DEF InPlan, Index
<1>5. \A q \in PhaseId : q # p =>
          actual'[q] = actual[q] /\ planned'[q] = planned[q] /\ entered'[q] = entered[q]
  BY <1>1 DEF TypeOK
<1>6. /\ actual'[p] = IF t = None THEN now ELSE None
      /\ planned'[p] = IF t = None THEN None ELSE t
      /\ entered'[p] = IF t = None THEN <<now>> ELSE <<>>
  <2>1. Append(<<>>, now) = <<now>>
    OBVIOUS
  <2> QED
    BY <1>1, <1>2, <2>1 DEF TypeOK
<1>7. \A k \in Index : actual[plan[k]] \in Nat /\ actual[plan[k]] <= now
                      /\ actual[plan[k]] # None
  BY <1>1, <1>3 DEF ShapeInv, ArchivedEntered, EntriesPast, TypeOK
<1>8. InOrder(plan', planned', actual')
  <2> SUFFICES ASSUME NEW a \in 1..(Len(plan) + 1), NEW b \in 1..(Len(plan) + 1), a < b,
                      Timed(planned', actual', plan'[b])
               PROVE  /\ Timed(planned', actual', plan'[a])
                      /\ IF actual'[plan'[b]] # None
                         THEN actual'[plan'[a]] # None /\ actual'[plan'[a]] <= actual'[plan'[b]]
                         ELSE Entry(planned', actual', plan'[a]) < planned'[plan'[b]]
    BY <1>3 DEF InOrder
  <2>1. a \in Index /\ a \in 1..Len(plan) /\ plan'[a] = plan[a]
    BY <1>0, <1>3 DEF Index
  <2>2. actual'[plan'[a]] = actual[plan[a]]
    BY <2>1, <1>3, <1>5
  <2>3. CASE b = Len(plan) + 1
    <3>1. plan'[b] = p
      BY <2>3, <1>3
    <3>2. CASE t = None
      BY <3>1, <3>2, <2>1, <2>2, <1>6, <1>7, <1>0 DEF Timed
    <3>3. CASE t # None
      BY <3>1, <3>3, <2>1, <2>2, <1>6, <1>7, <1>0, <1>1 DEF Timed, Entry
    <3> QED
      BY <3>2, <3>3
  <2>4. CASE b # Len(plan) + 1
    <3>1. b \in Index /\ b \in 1..Len(plan) /\ plan'[b] = plan[b]
      BY <2>4, <1>0, <1>3 DEF Index
    <3>2. actual'[plan'[b]] = actual[plan[b]] /\ actual[plan[b]] # None
      BY <3>1, <1>3, <1>5, <1>7
    <3>3. actual[plan[a]] # None /\ actual[plan[a]] <= actual[plan[b]]
      BY <3>1, <3>2, <2>1 DEF ShapeInv, InOrder, Timed
    <3> QED
      BY <3>2, <3>3, <2>2 DEF Timed
  <2> QED
    BY <2>3, <2>4
<1>9. RowsDistinct'
  <2> SUFFICES ASSUME NEW a \in Index', NEW b \in Index', plan'[a] = plan'[b] PROVE a = b
    BY DEF RowsDistinct
  <2>1. (a \in Index \/ a = Len(plan) + 1) /\ (b \in Index \/ b = Len(plan) + 1)
    BY <1>0, <1>3 DEF Index
  <2> QED
    BY <2>1, <1>3 DEF ShapeInv, RowsDistinct
<1>10. RowsGone'
  BY <1>4, <1>5 DEF ShapeInv, RowsGone
<1>11. EnteredOnce'
  <2> SUFFICES ASSUME NEW q \in PhaseId
               PROVE  entered'[q] = IF actual'[q] = None THEN <<>> ELSE <<actual'[q]>>
    BY DEF EnteredOnce
  <2>1. CASE q = p
    BY <2>1, <1>6, <1>0
  <2>2. CASE q # p
    BY <2>2, <1>5 DEF ShapeInv, EnteredOnce
  <2> QED
    BY <2>1, <2>2
<1>12. EntriesPast'
  BY <1>0, <1>1, <1>5, <1>6 DEF ShapeInv, EntriesPast
<1>13. DraftUntimed' /\ ArchivedEntered'
  BY <1>1 DEF DraftUntimed, ArchivedEntered
<1> QED
  BY <1>8, <1>9, <1>10, <1>11, <1>12, <1>13 DEF ShapeInv

(* A draft plan may be restated in any order, and a template may add to    *)
(* it, because nothing in it has a time.                                   *)
LEMMA DraftRestatedShape ==
    ASSUME TypeOK, ShapeInv, status = "draft", NEW specs \in Seq(PhaseId), NEW opens,
           NamesOnce(specs), WritePlanOrder(specs, opens), UNCHANGED <<now, status, sweep>>
    PROVE  ShapeInv'
<1>1. \A j \in Index : ~isScheduled(plan[j])
  BY DEF ShapeInv, DraftUntimed, isScheduled, Index, TypeOK
<1>2. DOMAIN specs = 1..Len(specs)
  OBVIOUS
<1> QED
  BY <1>1, <1>2, RestatedShape

(* Every step keeps the shape.                                             *)
LEMMA ShapeStep == TypeOK /\ ShapeInv /\ [Next]_vars => ShapeInv'
<1> SUFFICES ASSUME TypeOK, ShapeInv, [Next]_vars PROVE ShapeInv'
  OBVIOUS
<1> DEFINE Kept == UNCHANGED <<plan, planned, actual, entered>>
<1>a. ASSUME Kept, now' >= now, status' \in {status, "deleted"},
             status' = "deleted" => status = "draft" \/ status = "deleted",
             \A s \in Sweeper : sweep'[s] = sweep[s] \/ sweep'[s] = None \/ sweep'[s] = now',
             now' \in Nat
      PROVE  ShapeInv'
  <2>1. RowsDistinct' /\ RowsGone' /\ InOrder(plan', planned', actual') /\ EnteredOnce'
    BY <1>a DEF ShapeInv, RowsDistinct, RowsGone, EnteredOnce, InPlan, Index
  <2>2. EntriesPast'
    <3>0. now \in Nat /\ (\A p \in PhaseId : actual[p] \in Nat \cup {None})
          /\ (\A s \in Sweeper : sweep[s] \in Nat \cup {None}) /\ EntriesPast
      BY DEF TypeOK, ShapeInv
    <3>1. \A p \in PhaseId : actual'[p] # None => actual'[p] <= now'
      BY <1>a, <3>0 DEF EntriesPast
    <3>2. \A s \in Sweeper : sweep'[s] # None => sweep'[s] <= now'
      BY <1>a, <3>0 DEF EntriesPast
    <3> QED
      BY <3>1, <3>2 DEF EntriesPast
  <2>3. DraftUntimed' /\ ArchivedEntered'
    BY <1>a DEF ShapeInv, DraftUntimed, ArchivedEntered, InPlan, Index
  <2> QED
    BY <2>1, <2>2, <2>3 DEF ShapeInv
<1>b. now \in Nat /\ now <= now /\ (\A s \in Sweeper : sweep[s] \in Nat \cup {None})
  BY DEF TypeOK
<1>1. CASE Tick
  BY <1>1, <1>a, <1>b DEF Tick, planVars
<1>2. CASE SetRoster
  BY <1>2, <1>a, <1>b DEF SetRoster, planVars
<1>3. ASSUME NEW i \in Index, NEW t \in Time, SchedulePhase(i, t) PROVE ShapeInv'
  <2>1. t \in Nat
    BY DEF Time
  <2> QED
    BY <2>1, <1>3, ScheduleShape
<1>4. ASSUME NEW i \in Index, UnschedulePhase(i) PROVE ShapeInv'
  BY <1>4, UnscheduleShape
<1>5. ASSUME NEW i \in Index, AdvancePhase(i) PROVE ShapeInv'
  BY <1>5, AdvanceShape
<1>6. CASE Archive
  BY <1>6, <1>b, RatifyShape DEF Archive, Archivable
<1>7. CASE DeleteBatch
  BY <1>7, <1>a, <1>b DEF DeleteBatch, planVars
<1>8. ASSUME NEW p \in PhaseId, NEW t \in Time \cup {None}, NEW opens \in SUBSET Code,
             Reopen(p, t, opens)
      PROVE ShapeInv'
  BY <1>8, ReopenShape
<1>9. ASSUME NEW specs \in Specs, NEW opens \in [Named(specs) -> SUBSET Code],
             ReplaceDraftPlan(specs, opens)
      PROVE ShapeInv'
  BY <1>9, SpecsAreSeqs, DraftRestatedShape DEF ReplaceDraftPlan
<1>10. ASSUME NEW specs \in Specs, NEW opens \in [Named(specs) -> SUBSET Code],
              AppendTemplate(specs, opens)
       PROVE ShapeInv'
  <2> DEFINE all == plan \o specs
  <2>1. /\ specs \in Seq(PhaseId) /\ DOMAIN specs = 1..Len(specs) /\ plan \in Seq(PhaseId)
        /\ NamesOnce(specs) /\ Named(specs) \cap InPlan = {}
    BY <1>10, SpecsAreSeqs DEF TypeOK, AppendTemplate
  <2>2. all \in Seq(PhaseId) /\ DOMAIN all = 1..(Len(plan) + Len(specs))
    BY <2>1
  <2>3. NamesOnce(all)
    <3> SUFFICES ASSUME NEW a \in DOMAIN all, NEW b \in DOMAIN all, all[a] = all[b]
                 PROVE  a = b
      BY DEF NamesOnce
    <3>1. \A c \in DOMAIN all :
            \/ c \in Index /\ all[c] = plan[c] /\ all[c] \in InPlan
            \/ c - Len(plan) \in DOMAIN specs /\ all[c] = specs[c - Len(plan)]
               /\ all[c] \in Named(specs)
      BY <2>1, <2>2 DEF Index, InPlan, Named
    <3>2. a \in Nat /\ b \in Nat /\ Len(plan) \in Nat
      BY <2>1, <2>2
    <3>3. CASE all[a] \in InPlan
      BY <3>3, <3>1, <2>1 DEF ShapeInv, RowsDistinct
    <3>4. CASE all[a] \notin InPlan
      <4>1. a - Len(plan) = b - Len(plan)
        BY <3>4, <3>1, <2>1 DEF NamesOnce
      <4> QED
        BY <4>1, <3>2
    <3> QED
      BY <3>3, <3>4
  <2>4. \E opened : WritePlanOrder(all, opened)
    BY <1>10 DEF AppendTemplate
  <2>5. status = "draft" /\ UNCHANGED <<now, status, sweep>>
    BY <1>10 DEF AppendTemplate
  <2> HIDE DEF all
  <2> QED
    BY <2>2, <2>3, <2>4, <2>5, DraftRestatedShape
<1>11. ASSUME NEW specs \in Specs, NEW opens \in [Named(specs) -> SUBSET Code],
              NEW renamed \in BOOLEAN, ReplaceActivePlan(specs, opens, renamed)
       PROVE ShapeInv'
  <2>1. \A j \in Index : isScheduled(plan[j]) => j \in DOMAIN specs /\ specs[j] = plan[j]
    BY <1>11, CommittedStay DEF ReplaceActivePlan, ShapeInv
  <2>2. WritePlanOrder(specs, opens) /\ UNCHANGED <<now, status, sweep>> /\ status # "archived"
    BY <1>11 DEF ReplaceActivePlan
  <2> QED
    BY <2>1, <2>2, SpecsAreSeqs, RestatedShape
<1>12. ASSUME NEW code \in Code, OpenRound(code) PROVE ShapeInv'
  BY <1>12, <1>a, <1>b DEF OpenRound, planVars
<1>13. CASE CloseRound
  BY <1>13, <1>a, <1>b DEF CloseRound, planVars
<1>14. ASSUME NEW s \in Sweeper, SweepRead(s) PROVE ShapeInv'
  <2>1. \A r \in Sweeper : sweep'[r] = sweep[r] \/ sweep'[r] = now'
    BY <1>14 DEF SweepRead, TypeOK
  <2> QED
    BY <2>1, <1>14, <1>a, <1>b DEF SweepRead, planVars
<1>15. ASSUME NEW s \in Sweeper, SweepBatch(s) PROVE ShapeInv'
  <2>1. \A r \in Sweeper : sweep'[r] = sweep[r] \/ sweep'[r] = None
    BY <1>15 DEF SweepBatch, TypeOK
  <2>2. sweep[s] \in Nat /\ sweep[s] <= now
    BY <1>15 DEF SweepBatch, TypeOK, ShapeInv, EntriesPast
  <2>3. CASE status = "active"
    BY <2>1, <2>2, <2>3, <1>15, RatifyShape DEF SweepBatch
  <2>4. CASE status # "active"
    BY <2>1, <2>4, <1>15, <1>a, <1>b DEF SweepBatch
  <2> QED
    BY <2>3, <2>4
<1>16. ASSUME NEW s \in Sweeper, SweepFails(s) PROVE ShapeInv'
  <2>1. \A r \in Sweeper : sweep'[r] = sweep[r] \/ sweep'[r] = None
    BY <1>16 DEF SweepFails, TypeOK
  <2> QED
    BY <2>1, <1>16, <1>a, <1>b DEF SweepFails, planVars
<1>17. CASE UNCHANGED vars
  BY <1>17, <1>a, <1>b DEF vars
<1> QED
  BY <1>1, <1>2, <1>3, <1>4, <1>5, <1>6, <1>7, <1>8, <1>9, <1>10, <1>11, <1>12, <1>13,
     <1>14, <1>15, <1>16, <1>17 DEF Next

(* The strengthened shape holds from the start and for good.               *)
THEOREM ShapeInvariant == Spec => []ShapeInv
<1>1. Init => ShapeInv
  BY DEF Init, ShapeInv, RowsDistinct, RowsGone, InOrder, EnteredOnce, EntriesPast,
         DraftUntimed, ArchivedEntered, Index, InPlan
<1> QED
  BY <1>1, ShapeStep, TypeCorrect, PTL DEF Spec

(* normalizePlan never throws: no sequence of schedules, forced advances,  *)
(* restated plans, archives, reopenings and sweeps with stale clocks       *)
(* leaves a row duplicated, an entered phase behind an unentered one or a  *)
(* timed phase behind one without a time.                                  *)
THEOREM PlanNeverCorrupt == Spec => []PlanShape
<1>1. TypeOK /\ ShapeInv => PlanShape
  <2> SUFFICES ASSUME TypeOK, ShapeInv, NEW i \in Index, i > 1
               PROVE  /\ actual[plan[i]] # None => actual[plan[i - 1]] # None
                      /\ planned[plan[i]] # None => isScheduled(plan[i - 1])
    BY DEF PlanShape, ShapeInv, RowsDistinct
  <2>1. i \in 1..Len(plan) /\ i - 1 \in 1..Len(plan) /\ i - 1 < i
    BY DEF Index, TypeOK
  <2> QED
    BY <2>1 DEF ShapeInv, InOrder, Timed, isScheduled
<1> QED
  BY <1>1, TypeCorrect, ShapeInvariant, PTL

(* Times run forward along the plan, entries and boundaries to come alike. *)
THEOREM TimesNeverCross == Spec => []TimesInOrder
<1>1. TypeOK /\ ShapeInv => TimesInOrder
  BY DEF ShapeInv, InOrder, Timed, Entry, TimesInOrder, isScheduled, EntryAt, Index
<1> QED
  BY <1>1, TypeCorrect, ShapeInvariant, PTL

(* Whoever ratifies a boundary first, it is written once and with its      *)
(* planned instant: one 'entered' event per entered phase.                 *)
THEOREM EnteredExactlyOnce == Spec => []EnteredOnce
<1>1. ShapeInv => EnteredOnce
  BY DEF ShapeInv
<1> QED
  BY <1>1, ShapeInvariant, PTL

=============================================================================
