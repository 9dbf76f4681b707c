--------------------------- MODULE PhaseTimeline ---------------------------
(***************************************************************************)
(* One assessment batch and its phase plan: the time engine                *)
(* (assessment/core/src/phase/engine) and the writes of the service that   *)
(* move it (assessment/core/src/server/index.ts).                          *)
(*                                                                         *)
(* Every write runs in one database transaction that first takes the       *)
(* batch row FOR UPDATE, so a handler is one atomic action.  A refusal     *)
(* rolls the transaction back, boundaries it had ratified included, so a   *)
(* refusal is a disabled action.  The one handler that is not atomic is    *)
(* the scheduler's sweep: it reads the clock and the candidates first and  *)
(* takes the lock later.                                                   *)
(*                                                                         *)
(* A plan index counts from 1 here and from 0 in the code; the code's      *)
(* "index of the last phase such that" is the predicate "every phase up    *)
(* to i is".                                                               *)
(***************************************************************************)
EXTENDS Naturals, Sequences, FiniteSets, FiniteSetsExt

CONSTANTS
    PhaseId,     \* identities a phase row may have
    Code,        \* gated permission codes a phase may open
    Sweeper,     \* processes running the phase loop (two during a switch-over)
    None,        \* the null of a nullable column
    MaxPhases,   \* MAX_PLAN_PHASES
    MaxTime,     \* bound on the clock
    MaxRounds    \* bound on review rounds open at once

ASSUME NoneAssumption == None \notin Nat /\ None \notin PhaseId
ASSUME BoundAssumption == /\ MaxPhases \in Nat \ {0}
                          /\ MaxTime \in Nat
                          /\ MaxRounds \in Nat

VARIABLES
    now,       \* Clock.currentTimeMillis
    status,    \* assessment_batch.status
    roster,    \* whether anybody is on the roster
    plan,      \* the phase rows in ordinal order
    planned,   \* batch_phase.planned_entry_at
    actual,    \* batch_phase.actual_entry_at
    profile,   \* batch_phase.permission_profile
    entered,   \* per phase, the instants of its 'entered' phase_events
    current,   \* assessment_batch.current_phase_id, the projection
    closed,    \* occurred_at of the last 'archived' lifecycle event
    rounds,    \* review rounds open in the batch
    revision,  \* assessment_batch.config_revision, modulo 2: it only ever
               \* moves by one, so a step records iff the parity flips
    sweep      \* per sweeper, the clock it read before taking the lock

planVars == <<plan, planned, actual, profile, entered>>
vars == <<now, status, roster, plan, planned, actual, profile, entered,
          current, closed, rounds, revision, sweep>>

Time == 0..MaxTime
Index == 1..Len(plan)
InPlan == {plan[i] : i \in Index}

\* The batch and phase rows keep their columns' types; a count of open rounds
\* never falls below zero.
TypeOK ==
    /\ now \in Nat
    /\ status \in {"draft", "active", "archived", "deleted"}
    /\ roster \in BOOLEAN
    /\ plan \in Seq(PhaseId)
    /\ planned \in [PhaseId -> Nat \cup {None}]
    /\ actual \in [PhaseId -> Nat \cup {None}]
    /\ profile \in [PhaseId -> SUBSET Code]
    /\ entered \in [PhaseId -> Seq(Nat)]
    /\ current \in PhaseId \cup {None}
    /\ closed \in Nat \cup {None}
    /\ rounds \in Nat
    /\ revision \in 0..1
    /\ sweep \in [Sweeper -> Nat \cup {None}]

-----------------------------------------------------------------------------
(***************************************************************************)
(* The engine: questions answered from a plan and an instant.              *)
(***************************************************************************)

\* a phase has a time once it has been entered or is due to be
isScheduled(p) == actual[p] # None \/ planned[p] # None

\* i <= scheduledIndex(plan)
ScheduledUpTo(i) == i \in 0..Len(plan) /\ \A j \in 1..i : isScheduled(plan[j])

\* i <= materializedIndex(plan)
MaterializedUpTo(i) == \A j \in 1..i : actual[plan[j]] # None

\* i <= effectiveState(plan, t).index: the walk from the last materialized
\* phase crosses every boundary whose planned instant has passed
ReachedBy(i, t) ==
    /\ i \in 0..Len(plan)
    /\ \A j \in 1..i :
          \/ MaterializedUpTo(j)
          \/ planned[plan[j]] # None /\ planned[plan[j]] <= t

\* i = effectiveState(plan, t).index
EffectiveAt(i, t) == ReachedBy(i, t) /\ ~ReachedBy(i + 1, t)

\* effectiveState(plan, t).pending, as the phases it names
PendingBy(t) ==
    {plan[i] : i \in {j \in Index : ReachedBy(j, t) /\ ~MaterializedUpTo(j)}}

\* the instant a phase began or is due to begin
EntryAt(p) == IF actual[p] # None THEN actual[p] ELSE planned[p]

\* mutant of beganAfter: the plan read on its own
beganEver(p) == TRUE

\* whether the phase began after the round was last closed
beganAfter(p) == closed = None \/ (EntryAt(p) # None /\ EntryAt(p) > closed)

\* the phase in hand: the one the gate, the timeline and the queues answer
\* from. A set of at most one phase.
InHand ==
    {plan[i] : i \in {j \in Index : status = "active" /\ EffectiveAt(j, now)
                                    /\ beganAfter(plan[j])}}

\* the gate for a phase-gated code
GateOpen(code) == \E p \in InHand : code \in profile[p]

-----------------------------------------------------------------------------
Init ==
    /\ now = 0
    /\ status = "draft"
    /\ roster \in BOOLEAN
    /\ plan = <<>>
    /\ planned = [p \in PhaseId |-> None]
    /\ actual = [p \in PhaseId |-> None]
    /\ profile = [p \in PhaseId |-> {}]
    /\ entered = [p \in PhaseId |-> <<>>]
    /\ current = None
    /\ closed = None
    /\ rounds = 0
    /\ revision = 0
    /\ sweep = [s \in Sweeper |-> None]

\* the clock moves on its own
Tick ==
    /\ now < MaxTime
    /\ now' = now + 1
    /\ UNCHANGED <<status, roster, planVars, current, closed, rounds, revision, sweep>>

\* the batch exists and is not read-only
Writable == status \in {"draft", "active"}

\* people are taken on or excluded while the batch may still be written
SetRoster ==
    /\ Writable
    /\ roster' = ~roster
    /\ UNCHANGED <<now, status, planVars, current, closed, rounds, revision, sweep>>

(***************************************************************************)
(* ratifyPending: the boundaries the clock t has crossed are written down  *)
(* with their planned instant, one 'entered' event each, and the           *)
(* projection follows.  The operators give the new values; the update is   *)
(* conditional on the actual still being null (setPhaseActual).            *)
(***************************************************************************)
\* mutant of RatifiedActual: the instant of the writing instead of the boundary
RatifiedLate(t) ==
    [p \in PhaseId |-> IF p \in PendingBy(t) /\ actual[p] = None THEN t ELSE actual[p]]

\* mutant of RatifiedActual: a boundary one tick away counts as crossed
RatifiedEarly(t) ==
    [p \in PhaseId |-> IF p \in PendingBy(t + 1) /\ actual[p] = None
                       THEN planned[p] ELSE actual[p]]

RatifiedActual(t) ==
    [p \in PhaseId |-> IF p \in PendingBy(t) /\ actual[p] = None
                       THEN planned[p] ELSE actual[p]]

RatifiedEntered(t) ==
    [p \in PhaseId |-> IF p \in PendingBy(t) /\ actual[p] = None
                       THEN Append(entered[p], planned[p]) ELSE entered[p]]

\* mutant of RatifiedCurrent: the projection does not follow
RatifiedStale(i, t) == current

\* the projection after ratifying, i being the effective index
RatifiedCurrent(i, t) == IF PendingBy(t) = {} THEN current ELSE plan[i]

\* one configuration event per change of an active batch
RecordConfigChange ==
    revision' = IF status = "active" THEN 1 - revision ELSE revision

\* mutant of PlannedAllowed: only the phase before is looked at
PlannedAfterPrevious(i, t) ==
    /\ t > now
    /\ i > 1 /\ EntryAt(plan[i - 1]) # None => t > EntryAt(plan[i - 1])

\* mutant of PlannedAllowed: now itself is let through
PlannedFromNow(i, t) ==
    /\ t >= now
    /\ i > 1 /\ EntryAt(plan[i - 1]) # None => t > EntryAt(plan[i - 1])
    /\ i < Len(plan) /\ planned[plan[i + 1]] # None => planned[plan[i + 1]] > t

\* a planned instant lies ahead and strictly between its neighbours' times
PlannedAllowed(i, t) ==
    /\ t > now
    /\ i > 1 /\ EntryAt(plan[i - 1]) # None => t > EntryAt(plan[i - 1])
    /\ i < Len(plan) /\ planned[plan[i + 1]] # None => planned[plan[i + 1]] > t

\* the phase has not been entered, by hand or by the clock
NotEntered(i) == actual[plan[i]] = None /\ ~ReachedBy(i, now)

(***************************************************************************)
(* schedulePhase with a time: committed to the first phase that has none,  *)
(* or moved on one that has.  Clock crossings are ratified first.  A first *)
(* schedule puts the draft into service.                                   *)
(***************************************************************************)
SchedulePhase(i, t) ==
    /\ Writable
    /\ i \in Index
    /\ NotEntered(i)
    /\ isScheduled(plan[i]) \/ (ScheduledUpTo(i - 1) /\ ~ScheduledUpTo(i))
    /\ PlannedAllowed(i, t)
    /\ status = "draft" => roster
    /\ \E e \in 0..Len(plan) :
          /\ EffectiveAt(e, now)
          /\ current' = RatifiedCurrent(e, now)
    /\ actual' = RatifiedActual(now)
    /\ entered' = RatifiedEntered(now)
    /\ planned' = [planned EXCEPT ![plan[i]] = t]
    /\ status' = "active"
    /\ RecordConfigChange
    /\ UNCHANGED <<now, roster, plan, profile, closed, rounds, sweep>>

\* mutant of Running: only what is still to come counts
StillPlanned == \E p \in InPlan : actual'[p] = None /\ planned'[p] # None

\* whether any phase has a time, entered or planned, after the write
Running == \E p \in InPlan : actual'[p] # None \/ planned'[p] # None

(***************************************************************************)
(* schedulePhase with null: withdrawn from the last phase that has a time. *)
(* A batch left with no time at all, entered or planned, is a draft again. *)
(***************************************************************************)
UnschedulePhase(i) ==
    /\ Writable
    /\ i \in Index
    /\ NotEntered(i)
    /\ ScheduledUpTo(i) /\ ~ScheduledUpTo(i + 1)
    /\ \E e \in 0..Len(plan) :
          /\ EffectiveAt(e, now)
          /\ current' = RatifiedCurrent(e, now)
    /\ actual' = RatifiedActual(now)
    /\ entered' = RatifiedEntered(now)
    /\ planned' = [planned EXCEPT ![plan[i]] = None]
    /\ status' = IF status = "active" /\ ~Running THEN "draft" ELSE status
    /\ RecordConfigChange
    /\ UNCHANGED <<now, roster, plan, profile, closed, rounds, sweep>>

(***************************************************************************)
(* advancePhase: the phase right after the effective one is entered by     *)
(* hand, now.  On a phase that has a time this is the forced path, which   *)
(* additionally needs an authority and a reason.                           *)
(***************************************************************************)
AdvancePhase(i) ==
    /\ Writable
    /\ i \in Index
    /\ status = "draft" => i = 1 /\ roster
    /\ EffectiveAt(i - 1, now)
    /\ actual' = [RatifiedActual(now) EXCEPT
                    ![plan[i]] = IF @ = None THEN now ELSE @]
    /\ entered' = [RatifiedEntered(now) EXCEPT ![plan[i]] = Append(@, now)]
    /\ current' = plan[i]
    /\ status' = "active"
    /\ UNCHANGED <<now, roster, plan, planned, profile, closed, rounds, revision, sweep>>

\* mutant of Archivable: open review rounds are not counted
AtLastPhase == EffectiveAt(Len(plan), now)

\* the last phase has been entered and no review round is open
Archivable == EffectiveAt(Len(plan), now) /\ rounds = 0

\* setBatchStatus to archived. Nothing is in effect once a round is over.
Archive ==
    /\ status = "active"
    /\ Archivable
    /\ actual' = RatifiedActual(now)
    /\ entered' = RatifiedEntered(now)
    /\ status' = "archived"
    /\ current' = None
    /\ closed' = now
    /\ UNCHANGED <<now, roster, plan, planned, profile, rounds, revision, sweep>>

\* deleteBatch: only a draft, and only one that never ran
DeleteBatch ==
    /\ status = "draft"
    /\ \A p \in InPlan : actual[p] = None
    /\ status' = "deleted"
    /\ UNCHANGED <<now, roster, planVars, current, closed, rounds, revision, sweep>>

\* setBatchStatus back to active: one more phase at the end, entered now
\* (t = None) or due at t
Reopen(p, t, opens) ==
    /\ status = "archived"
    /\ Len(plan) < MaxPhases
    /\ p \notin InPlan
    /\ ~ScheduledUpTo(Len(plan) + 1) /\ ~ReachedBy(Len(plan) + 1, now)
    /\ t # None => t > now
    /\ plan' = Append(plan, p)
    /\ profile' = [profile EXCEPT ![p] = opens]
    /\ status' = "active"
    /\ IF t = None
       THEN /\ actual' = [actual EXCEPT ![p] = now]
            /\ entered' = [entered EXCEPT ![p] = Append(@, now)]
            /\ planned' = planned
            /\ current' = p
       ELSE /\ planned' = [planned EXCEPT ![p] = t]
            /\ UNCHANGED <<actual, entered, current>>
    /\ UNCHANGED <<now, roster, closed, rounds, revision, sweep>>

-----------------------------------------------------------------------------
(***************************************************************************)
(* replacePlan: the whole plan restated as a list of specs.  A spec that   *)
(* names a row keeps it; a spec that names none (a fresh identity here)    *)
(* inserts a row born without a time; rows not named are deleted.          *)
(***************************************************************************)
Named(specs) == {specs[i] : i \in DOMAIN specs}
NamesOnce(specs) == \A i, j \in DOMAIN specs : specs[i] = specs[j] => i = j

\* what a caller may submit: a list that names a row twice is refused
Specs == {specs \in UNION {[1..n -> PhaseId] : n \in 0..MaxPhases} : NamesOnce(specs)}

\* the rows that carry a time (committed)
Committed == {p \in InPlan : isScheduled(p)}

Before(seq, p, q) == \E i, j \in DOMAIN seq : i < j /\ seq[i] = p /\ seq[j] = q

\* writePlanOrder after deletePhases: rows take the submitted order; a
\* retained row keeps its times, an inserted one has none
WritePlanOrder(specs, opens) ==
    LET kept(p) == p \in InPlan /\ p \in Named(specs)
    IN  /\ plan' = specs
        /\ planned' = [p \in PhaseId |-> IF kept(p) THEN planned[p] ELSE None]
        /\ actual' = [p \in PhaseId |-> IF kept(p) THEN actual[p] ELSE None]
        /\ entered' = [p \in PhaseId |-> IF kept(p) THEN entered[p] ELSE <<>>]
        /\ profile' = [p \in PhaseId |-> IF p \in Named(specs) THEN opens[p] ELSE {}]

\* a draft plan is replaced as a whole
ReplaceDraftPlan(specs, opens) ==
    /\ status = "draft"
    /\ WritePlanOrder(specs, opens)
    /\ UNCHANGED <<now, status, roster, current, closed, rounds, revision, sweep>>

\* a timeline template adds its phases to the end of a draft plan
AppendTemplate(added, opens) ==
    /\ status = "draft"
    /\ Len(plan) + Len(added) <= MaxPhases
    /\ Named(added) \cap InPlan = {}
    /\ WritePlanOrder(plan \o added, [p \in PhaseId |-> IF p \in InPlan THEN profile[p] ELSE opens[p]])
    /\ UNCHANGED <<now, status, roster, current, closed, rounds, revision, sweep>>

\* mutant of StructureKept: the phases that carry a time are compared only
\* with each other
CommittedOrderKept(specs) ==
    /\ Committed \subseteq Named(specs)
    /\ \A p, q \in Committed :
          p # q => (Before(specs, p, q) <=> Before(plan, p, q))

\* what an active plan refuses of a submission: committed phases stay, and
\* among the retained ones they come first and in plan order
\* (submittedIds.slice(0, committedIds.length) = committedIds)
StructureKept(specs) ==
    /\ Committed \subseteq Named(specs)
    /\ \A p \in Committed, q \in InPlan \cap Named(specs) :
          p # q => (Before(specs, p, q) <=> (q \in Committed => Before(plan, p, q)))

\* an insertion lands behind everything reached or scheduled
InsertionAllowed(i) == ~ReachedBy(i, now) /\ ~ScheduledUpTo(i)

\* mutant of Ended: an end the sweep has not ratified yet does not count
EndMaterialized(i) == i < Len(plan) /\ MaterializedUpTo(i + 1)

\* the phase is over by the clock; what it opened is frozen
Ended(i) == ReachedBy(i + 1, now)

\* renamed: a name, a description, a note or a scope of a retained phase differs

ReplaceActivePlan(specs, opens, renamed) ==
    /\ status = "active"
    /\ StructureKept(specs)
    /\ \A i \in DOMAIN specs : specs[i] \notin InPlan => InsertionAllowed(i)
    /\ \A i \in Index : Ended(i) => opens[plan[i]] = profile[plan[i]]
    /\ renamed => Named(specs) \cap InPlan # {}
    /\ WritePlanOrder(specs, opens)
    /\ IF renamed \/ \E p \in Named(specs) : p \in InPlan => opens[p] # profile[p]
       THEN RecordConfigChange
       ELSE UNCHANGED revision
    /\ UNCHANGED <<now, status, roster, current, closed, rounds, sweep>>

-----------------------------------------------------------------------------
(***************************************************************************)
(* The review rounds of the batch, as far as its lifecycle sees them.      *)
(***************************************************************************)

\* a submission opens a round: under the batch lock, through the gate
OpenRound(code) ==
    /\ Writable
    /\ GateOpen(code)
    /\ rounds < MaxRounds
    /\ rounds' = rounds + 1
    /\ UNCHANGED <<now, status, roster, planVars, current, closed, revision, sweep>>

\* mutant of CloseRound: a round that is already closed is closed again
CloseRoundAgain ==
    /\ status = "active"
    /\ rounds' = rounds - 1
    /\ UNCHANGED <<now, status, roster, planVars, current, closed, revision, sweep>>

\* a round reaches its conclusion or is withdrawn
CloseRound ==
    /\ status = "active"
    /\ rounds > 0
    /\ rounds' = rounds - 1
    /\ UNCHANGED <<now, status, roster, planVars, current, closed, revision, sweep>>

-----------------------------------------------------------------------------
(***************************************************************************)
(* sweepDueBoundaries: the clock and the candidates are read first, the    *)
(* lock is taken after, by which time anything may have been written.      *)
(***************************************************************************)
\* mutant of DueBoundary: the candidates are found through the current phase
DueAfterCurrent ==
    /\ status = "active" /\ current # None
    /\ \E p \in InPlan : actual[p] = None /\ planned[p] # None /\ planned[p] <= now

\* the candidate query
DueBoundary ==
    /\ status = "active"
    /\ \E p \in InPlan : actual[p] = None /\ planned[p] # None /\ planned[p] <= now

\* the instants of the batch's rows that nextDueBoundaryAt looks at
Upcoming ==
    {planned[p] : p \in {q \in InPlan : status = "active" /\ actual[q] = None
                                       /\ planned[q] # None}}

\* nextDueBoundaryAt for this batch, in ticks from now; what is past is 0
Due ==
    IF Upcoming = {} THEN None
    ELSE IF Min(Upcoming) <= now THEN 0 ELSE Min(Upcoming) - now

SweepRead(s) ==
    /\ sweep[s] = None
    /\ DueBoundary
    /\ sweep' = [sweep EXCEPT ![s] = now]
    /\ UNCHANGED <<now, status, roster, planVars, current, closed, rounds, revision>>

SweepBatch(s) ==
    /\ sweep[s] # None
    /\ sweep' = [sweep EXCEPT ![s] = None]
    /\ IF status = "active"
       THEN \E e \in 0..Len(plan) :
               /\ EffectiveAt(e, sweep[s])
               /\ current' = RatifiedCurrent(e, sweep[s])
               /\ actual' = RatifiedActual(sweep[s])
               /\ entered' = RatifiedEntered(sweep[s])
       ELSE UNCHANGED <<current, actual, entered>>
    /\ UNCHANGED <<now, status, roster, plan, planned, profile, closed, rounds, revision>>

\* the transaction fails, or the process goes away with it: this batch waits
\* for the next sweep
SweepFails(s) ==
    /\ sweep[s] # None
    /\ sweep' = [sweep EXCEPT ![s] = None]
    /\ UNCHANGED <<now, status, roster, planVars, current, closed, rounds, revision>>

-----------------------------------------------------------------------------
Next ==
    \/ Tick
    \/ SetRoster
    \/ \E i \in Index : \/ \E t \in Time : SchedulePhase(i, t)
                        \/ UnschedulePhase(i)
                        \/ AdvancePhase(i)
    \/ Archive
    \/ DeleteBatch
    \/ \E p \in PhaseId, t \in Time \cup {None}, opens \in SUBSET Code :
          Reopen(p, t, opens)
    \/ \E specs \in Specs : \E opens \in [Named(specs) -> SUBSET Code] :
          \/ ReplaceDraftPlan(specs, opens)
          \/ AppendTemplate(specs, opens)
          \/ \E renamed \in BOOLEAN : ReplaceActivePlan(specs, opens, renamed)
    \/ \E code \in Code : OpenRound(code)
    \/ CloseRound
    \/ \E s \in Sweeper : SweepRead(s) \/ SweepBatch(s) \/ SweepFails(s)

Spec == Init /\ [][Next]_vars

(***************************************************************************)
(* The phase loop keeps running: a sweep is begun whenever a boundary is   *)
(* due, and a sweep that fails is tried again (a failed sweep leaves the   *)
(* loop alive), so one that is tried again and again succeeds.             *)
(***************************************************************************)
Fairness ==
    \A s \in Sweeper : WF_vars(SweepRead(s)) /\ SF_vars(SweepBatch(s))

FairSpec == Spec /\ Fairness

-----------------------------------------------------------------------------
(***************************************************************************)
(* Properties.                                                             *)
(***************************************************************************)

(* Every reader of a batch sorts its phase rows with normalizePlan, which  *)
(* throws on a broken shape and takes every screen of the batch with it.   *)
(* No sequence of edits, sweeps, archives and reopenings makes it throw:   *)
(* rows are distinct, entered phases form a prefix, and phases with a time *)
(* form a prefix.                                                          *)
PlanShape ==
    /\ \A i, j \in Index : plan[i] = plan[j] => i = j
    /\ \A i \in Index : i > 1 =>
          /\ actual[plan[i]] # None => actual[plan[i - 1]] # None
          /\ planned[plan[i]] # None => isScheduled(plan[i - 1])

(* Times run forward along the plan: entries never go backwards, and a     *)
(* boundary still to come lies strictly after every earlier phase's time   *)
(* and is never in the past of a phase already entered (plannedRefusals,   *)
(* forced advances and reopenings together).                               *)
TimesInOrder ==
    \A i, j \in Index : i < j /\ isScheduled(plan[j]) =>
        /\ isScheduled(plan[i])
        /\ IF actual[plan[j]] # None
           THEN actual[plan[i]] # None /\ actual[plan[i]] <= actual[plan[j]]
           ELSE EntryAt(plan[i]) < planned[plan[j]]

(* Each phase is entered once: whoever gets there first (a sweep holding   *)
(* an old clock, another sweep, an administrator, an archive) writes       *)
(* exactly one 'entered' event, and it carries the actual instant.         *)
EnteredOnce ==
    \A p \in PhaseId :
        entered[p] = IF actual[p] = None THEN <<>> ELSE <<actual[p]>>

(* A draft never ran: going back to draft by withdrawing the last time     *)
(* (the only way back) leaves no entry, time, projection or review round.  *)
DraftNeverRan ==
    status \in {"draft", "deleted"} =>
        /\ \A p \in PhaseId : ~isScheduled(p) /\ entered[p] = <<>>
        /\ current = None /\ closed = None /\ rounds = 0

(* An archived batch is over: every phase of it was entered, nothing is    *)
(* projected as current and no review round is left open.                  *)
ArchivedIsOver ==
    status = "archived" =>
        /\ \A p \in InPlan : actual[p] # None /\ actual[p] <= closed
        /\ current = None /\ rounds = 0

(* The projection never points anywhere but at the last materialized       *)
(* phase, and is empty exactly while no phase has been entered since the   *)
(* batch was opened or reopened.                                           *)
ProjectionFollows ==
    status = "active" =>
        IF current = None
        THEN \A p \in InPlan : actual[p] # None => closed # None /\ actual[p] <= closed
        ELSE \E i \in Index : /\ plan[i] = current /\ actual[current] # None
                              /\ \A j \in Index : j > i => actual[plan[j]] = None

(* "Being late is harmless to correctness" (scheduler.ts): ratifying what  *)
(* the clock already decided never changes which phase is in hand, however *)
(* stale the clock the sweep read.                                         *)
SweepIsInvisible == [][sweep' # sweep => InHand' = InHand]_vars

(* History is not editable, and what the clock has reached is history even *)
(* before it is ratified: a phase reached keeps its place and its instant. *)
HistoryIsFixed ==
    [][\A i \in Index : ReachedBy(i, now) =>
          /\ i \in Index' /\ plan'[i] = plan[i]
          /\ EntryAt(plan[i])' = EntryAt(plan[i])]_vars

(* What an ended phase opened stays as it was when people acted under it.  *)
EndedPhaseFrozen ==
    [][\A i \in Index : ReachedBy(i + 1, now) => profile'[plan[i]] = profile[plan[i]]]_vars

(* A phase that was over when the batch was archived is never in hand      *)
(* again, whatever reopening does.                                         *)
PastStaysPast ==
    \A p \in PhaseId : [](status = "archived" /\ p \in InPlan => [](p \notin InHand))

(* "A plan change on an active batch is a configuration change: one event, *)
(* one counter move" (replacePlan).                                        *)
PlanChangeRecorded ==
    [][status = "active" /\ status' = "active" /\ plan' # plan => revision' # revision]_vars

(* "Reopening now: the new phase starts where the archive ended"           *)
(* (setBatchStatus): the phase reopened into is the phase in hand.         *)
ReopenTakesEffect ==
    [][status = "archived" /\ status' = "active" /\ current' # None
          => InHand' = {current'}]_vars

(* "It may never under-approximate" (server/db.ts:2419), and it does not   *)
(* over-approximate either: the candidate query, which looks at the rows   *)
(* one by one, finds the batch exactly when the walk of the plan from the  *)
(* last entered phase crosses a boundary.  So no boundary lies behind one  *)
(* without a time, and no batch is swept again and again for nothing.      *)
CandidatesExact == status = "active" => (DueBoundary <=> PendingBy(now) # {})

(* What the phase loop sees of a batch (nextDueBoundaryAt) is the diary it *)
(* sleeps by: a boundary comes to be past by the clock alone.  No edit,    *)
(* archive or reopening leaves one that is already past, and a sweep, the  *)
(* clock it read being old, only where one was past before it.             *)
Diary == INSTANCE PhaseDiary WITH due <- Due
DiaryKept == Diary!DSpec

(* A boundary the clock has crossed is eventually written down.            *)
BoundariesRatified ==
    \A p \in PhaseId :
        (status = "active" /\ p \in InPlan /\ planned[p] # None /\ planned[p] <= now)
            ~> (actual[p] # None)

=============================================================================
