# A verification project for qualy

qualy runs comprehensive assessments: a *batch* takes people on a roster
through *phases*; in a phase they file *claims* on *questions*; reviewers judge
claims in *rounds*; what is determined is scored. This directory holds TLA+
models of the parts whose correctness depends on the order things happen in,
the TLC runs that check them, and proofs checked by TLAPS. Paths below are
relative to `packages/plugins/assessment/core/src/` unless they start with
`packages/`.

## The system

A TypeScript monorepo: an Effect server over PostgreSQL, assembled from
plugins, and a React client.

| component | state it keeps | operations | what is hard | what makes it correct |
|---|---|---|---|---|
| batch and phase plan (`phase/engine`, `server/index.ts`) | batch status, ordered phase rows with a planned and an actual start, the current phase, lifecycle and phase events, a configuration counter | create, plan, schedule, unschedule, advance, archive, reopen, delete, sweep | the clock decides before anybody writes; several sweepers; edits of a plan that is running | history is fixed, starts never cross, each entry written once, being late is harmless |
| phase scheduler (`phase/scheduler.ts`, `live/`) | where the loop is, the alarm it read, a one-place wake queue | sweep, aim, sleep, wake | announcements lost while the LISTEN session is down, failures of one batch, boundaries that pass during a sweep | never asleep past a boundary it could know of; every boundary written |
| claim (`entry/`, `review/service.ts`, `review/conclusion.ts`) | the entry row and its two pointers, rounds, recognitions, events | file, edit, submit, withdraw, abandon, decide, ask, answer, appeal, reopen, redetermine, return, void | a dozen actors move one row; a determination is proven outside the lock; rounds are cut short from outside | the claim stands on a conclusion, counts as something scorable, is appealed once |
| question configuration (`item/`) | revisions, status, score groups | save, publish, void, restore, order | a save that disturbs work under way asks first, and the answer may be stale | nothing approved becomes unscorable |
| review rounds (`review/`, patrol in `server/index.ts`) | the frozen routes, the step a round stands at, sittings, seats and ballots, events | advance, climb, vote, resolve, hand up, ask, answer, cancel, block, release | concurrent ballots; judges who come and go; the patrol's stale reads and lockless writes | nobody judges twice, no step passed in silence, everybody seated heard, no round stuck |
| scoring (`scoring/`) | plans, calculators, results | compile, prove, evaluate | a sandboxed runtime that may time out | arithmetic |
| roster, access, import (`server/`, `administrative-import/`) | participants, grants, staged files | admit, exclude, grant, stage, apply | exclusion while work is in flight (in the claim model) | authority |
| live channel (`live/`, `packages/core/api-kit`) | seats, subscriptions | dial, recheck, renew, close | seats and sessions that end in many ways | no seat leaked, no reader served after its session |
| storage (`packages/plugins/infra/storage`) | reservations, attachments, cleanup leases | issue, complete, bind, sweep | completion against cleanup, quota across transactions, crashes between object and row | no bytes without a row, no quota oversold |
| auth (`packages/plugins/base/auth*`) | sessions, flows, limit windows | sign in, touch, reauthenticate, recover | one-use tokens, windows counted by upsert | a flow is finished once |
| rbac, org, settings, audit, directory import (`packages/plugins/base`) | rows | relational edits | little | relational rules |
| sandbox (`packages/core/sandbox-engine`, `apps/sandbox-runtime`) | worker slots, a queue | invoke, time out, replace | watchdog against answer, death of a worker | every request answered once |
| web runtime (`packages/web/runtime`) | session recovery, leave gate, release check | | prompts racing navigation | |
| captcha, mail, secrets, rum, formula, spreadsheet, assembly, tooling, screens | | | | pure I/O, functions of their input, or start-up |

How they meet: every write of a batch takes the batch row `FOR UPDATE` first;
writes announce themselves through PostgreSQL NOTIFY at commit; the scheduler
and the live channel listen. The claim asks the phase gate whether an act is
open, the question for its policy and its rule, and the scoring runtime -
outside any lock - whether a determination can be scored.

`PROJECT.json` lists every component with its files, and the hazards with the
line each is at and the properties that would catch it.

## Plan

Written and proved so far: 1 to 5. The rest in this order.

1. `PhaseTimeline`, with `PhaseTimelineProofs` (the shape of a plan),
   `PhaseHistoryProofs` (what becomes of it) and `PhaseDiaryProofs` (what its
   sweeps and the phase loop see of it).
2. `PhaseScheduler`, with `PhaseSchedulerProofs`. It sees of each batch only its
   next boundary. `PhaseDiary` says what that boundary may do: a batch of
   `PhaseTimeline` implements it, the batches of `PhaseScheduler` obey it.
3. `Claim`, with `ClaimProofs`.
4. `ReviewRound`, with `ReviewWalk`, the abstract specification it implements,
   and `ReviewRoundProofs`. `RoundLife` is the other one, of a round's row as
   `Claim` sees it: `ReviewRound` implements it with its one round, `Claim` with
   each of its rounds.
5. `Storage`, with `StorageLedger`, the abstract specification it implements,
   and `StorageProofs`. `Sums` is what both add bytes up with, `SumsProofs` the
   facts about it.
6. `LiveChannel`, the sessions and flows of auth, the sandbox pool, and the web
   runtime's small machines: modelled, then proved, one after the other.

Parameters are CONSTANTS with named assumptions, an operation is one action,
and the modules declare no RECURSIVE operator.

## What the modules say

### PhaseTimeline

One batch. `plan` is the phase rows in order, `planned` and `actual` their
columns, `entered` the instants of each phase's `entered` events, `current` the
projection `current_phase_id`, `closed` the instant of the last archive,
`revision` the configuration counter modulo 2 (it only moves by one), `rounds`
the review rounds open in the batch, `sweep` the clock each sweeper read before
it took the lock.

| action | code |
|---|---|
| `SchedulePhase`, `UnschedulePhase` | `schedulePhase` |
| `AdvancePhase` | `advancePhase` |
| `ReplaceDraftPlan`, `AppendTemplate`, `ReplaceActivePlan` | `replacePlan`, by the state of the batch and the form of the request |
| `Archive`, `Reopen` | `setBatchStatus` |
| `DeleteBatch` | `deleteBatch` |
| `SweepRead`, `SweepBatch`, `SweepFails` | `sweepDueBoundaries`, split where it takes the lock |
| `OpenRound`, `CloseRound` | a submission and a conclusion, seen from the batch |
| `SetRoster`, `Tick` | the roster; the clock |

`Ratified*` is `ratifyPending`: every write first puts down, with their planned
instants, the boundaries the clock has passed.

Assumed: one clock that does not run backwards (a deployment's processes share
a host clock, and the code has no defence against a clock set back); a handler
is one step, because it runs under the batch lock and reads the clock after
taking it; a refusal rolls everything back, so it is a disabled action. Left
out: names, purposes, display fields and the optimistic fingerprint of a plan.

`Due` is what the phase loop reads of the batch (`nextDueBoundaryAt`), counted in
ticks from now. `Diary` maps it to `PhaseDiary`. The two queries are allowed to
over-approximate by their comments (`server/db.ts:2416-2425`, `2451-2459`: "an
armed manual boundary ahead of it"); `CandidatesExact` says the candidate query
does not. The phases with a time are a prefix of the plan in strictly increasing
order, so a row that has passed is always one the engine's walk reaches.

### PhaseDiary

The contract of the two phase modules, over one variable: ticks to a batch's
next boundary, or none. Time brings it closer and stops at 0; a write leaves one
that is ahead, or none (whatever has passed is ratified before anything is
edited); a sweep of one that has passed may leave another that has, because the
clock it ratifies by was read before it took the lock.

### PhaseScheduler

The loop (`pc`, `crossed`, `todo`, `alarm`, `left`), the wake queue and the way
to it (`wake`, `bus`, `listening`, `lost`), and the diary `due`: ticks until
each batch's next boundary. Time is relative, so nothing bounds the length of a
behaviour. `Sweep`/`SweepOne`/`SkipOne`/`SweepEnds` are `sweepDueBoundaries`
batch by batch; `ReadAlarm` and `FallAsleep` are two steps because a write may
fall between them. `lost` is a history variable: an announcement was lost since
the alarm was read.

### Claim

One claim on one question, with one row each for the claim and the question,
`rounds`, `recs` (recognitions) and `events` in the order written. Rounds,
recognitions and events are append-only in the code as well; a round's number
is its identity.

A determination about to become a fact is *proven*: `settleWithProbe` runs the
transaction, which fails with the identity of what to prove; the calculator is
asked outside any transaction; the transaction runs again. `Prove*` is the
first run and the calculator's answer, `proofs` the calls in between, and the
act itself (`RecordEntry`, `SubmitByRule`, `DecideApprove`, `Redetermine`)
requires the identity to be the same again. `Report` is the pass of
`updateItem` that stops to ask, with the trial of the candidate rule; `Save`,
`SaveAndReturn` and `SaveAndReroute` carry its token. A scoring rule is the set
of values it scores.

Left out: routes, steps and sittings, which are `ReviewRound` (here a round is
begun, paused, blocked or concluded, and its words are `Word`); the limit on claims per question; what
the phase gate and the authority checks say (any act they may allow is
allowed); bulk recording and import; shape changes of a recognition's schema;
the older form of a contest that moved its claim back into review.

### ReviewRound and ReviewWalk

One round. `frozen` is what `resolveChain` made of the two routes when the
round opened: which steps this participant has no level for (skipped for good)
and which had a level and nobody in office (vacant, a step to stop at). `round`
is the `review_instances` row, `placed` whether it has a node, `trail` the
judging and skipping events with the ballots of resolved sittings, `panel` the
open sitting (`review_panels`, its live assignments and its votes), `holders`
who may review at each step now. A step stands for the one node it resolves to.

| action | code |
|---|---|
| `takeUp` | `decideReview`: its locks, the round read again, `mayAct` |
| `findSitting`, `reviewersAtStage` | at a panel stage: its seats, or `stageArrival` if no sitting is open; then who may sit now |
| `say`, `letGo` | what it commits; a refusal, a debt of proof or a failure |
| `sayAlone`, `sayAtSitting`, `resolved`, `climb`, `arrive` | its branches, with `resolveArrival`, `stageArrival`, `advanceReviewInstance`, `createPanel` |
| `requestSupplement`, `cancelSupplement`, `answerSupplement` | the same |
| `cancelReviewInstance` | whatever ends a round over everybody's head |
| `appoint`, `dismiss` | anything that changes who may review (external) |
| `look`, `nearestRoleNode`, `reviewersAt`, `openPanelOf`, `livePanelSeats` | `patrolReviewRounds`, one round of it: a step for each thing it reads |
| `place`, `endPanelAssignment`, `moveRound` | and a step for each transaction it writes in |

A decision runs at READ COMMITTED, and neither the patrol nor the roles take
its locks: so it is a step for each time it reads the staffing, with
appointments, dismissals and the patrol between them, and a last one for all it
writes. Whether a seat is the judge's own is settled by the second and the third
read together, as in the code; who has a vote and where the round stands cannot
change under the locks. Other acts on the round are one action: `mayAct` is the
one staffing they ask for, or `stageArrival` is. The patrol remembers what each
read told it. `left` is the sitting it had found, if an answer dissolved that
meanwhile: its rows stay, and `livePanelSeats` and `endPanelAssignment` work on
them. On the escalation route the patrol asks for the staffing twice
(`server/index.ts:6313`, `6346`), and not the second time if the first found
nobody: either way it goes by one of the two answers. That it shares the first
between rounds only makes it older. The patrol's writes are conditional on what
it read (`StillThere`, the state, no vote to be seen on a seat), and the model
keeps exactly these conditions.

`ReviewWalk` is what whoever waits on a round is promised: it goes forward on
its route, over to the escalation route and not back, and ends once, with a yes
only at a route's end. `ReviewRound!Walk` maps a step to its number and the
enterable steps to the places of the walk; `WalkKept` is the refinement.

`RoundLife` has a round's row only: its state, its outcome, whether its owner
could still take it back, whether a request for more is open. `Life` maps a
round of `ReviewRound` to it, by what `withdrawStandingsOf` finds in the record,
the ballots and the requests; `Claim!Life(i)` maps the row of round `i`, by its
column `begun`. So what `Claim` lets its rounds do without knowing of steps and
sittings is what rounds do: the answer that dissolves a sitting does not undo
that it was worked on, a verdict comes only while it is active, nothing is asked
of a round that is paused.

Left out: the determination a decision writes and its locking of a sitting's
text (`Claim` has determinations); the queue listings; the phase gates (a
refusal by them is `letGo`); a nearestRole step that moves on to a second unit
when the first empties; the patrol failing in the middle of a round; more than
one patrol (a single process runs it, `phase/scheduler.ts:29`).

### Storage and StorageLedger

Upload tickets (`storage_upload_reservations`), the attachment made of each
(`storage_attachments`), and what the store holds under its key: on a disk one
file, on a bucket with versioning (`Versioned`) one revision per write. A
transaction is one action, a call to the store another; `admitted`, `checked`,
`sweeper` and `reconciler` are what a request, a completion, a sweep and the
reconciliation remember from one to the next.

| action | code |
|---|---|
| `admit`, `insertReservation`, `grantUpload` | `prepareUpload`, split at the statement that counts, the commit and the credential |
| `receiveUpload`, `install` | bytes setting out for a key, and standing there |
| `statUpload`, `completeUpload` | `completeUpload`, split at the call to the store |
| `bind`, `retire` | `bindAttachment`, `retireAttachment` |
| `claimAbandonedReservations`, `claimStagedAttachments`, `removeObject`, `writeOff`, `sweepDies` | the two sweeps |
| `listRevisions`, `factsForKeys`, `judgeRevisions`, `removeRevision`, `reconcileStops` | `reconcileRevisions` |
| `Tick` | the clock |

Time is kept as ages that stop at the last value anything asks about, so no
bound ends a behaviour. `raced` is a history variable: the attachment completed
on a ticket whose bytes the reconciliation was about to remove.

`StorageLedger` is the promise in bytes alone: somebody is charged for a key
from before the first byte can arrive until after the last is gone, never past
the owner's room or the tenant's. `Storage!Ledger` maps the rows to charges and
the store to held; `LedgerKept` is the refinement.

Assumed: a ticket's writes are over before its attachment may be swept
(`StagedOutlivesWrites`). It is so for the defaults of `config.ts` (a day against
three quarters of an hour); nothing in the configuration enforces it. No byte
arrives past a ticket's `cleanupAfter`. Two sweepers whose passes outlive their
leases could steal each other's rows for ever, so overtaking counts against
`Faults`. Left out: the hourly and concurrent limits on tickets, which only
refuse more; the owner's advisory lock, taken inside the tenant's; buckets
without versioning; delete markers; keys no table knows; pages and
`RECONCILE_LIMIT`; reading and delivery.

## Runs

| run | bounds | what it checks |
|---|---|---|
| `plan` | 3 phases, clock 0..3, 1 sweeper | `TypeOK`, `PlanShape`, `TimesInOrder`, `DraftNeverRan`, `ProjectionFollows`, `HistoryIsFixed` |
| `gate` | 2 phases, 1 gated code, 2 sweepers | `EnteredOnce`, `ArchivedIsOver`, `SweepIsInvisible`, `EndedPhaseFrozen`, `CandidatesExact`, `DiaryKept` |
| `live` | 2 phases, 1 sweeper, fair | `PastStaysPast`, `BoundariesRatified` |
| `record` | as `live` | a violation: see below |
| `reopen` | as `live` | a violation: see below |
| `loop` | 3 batches, 2 to a sweep, 1 always failing | `NeverOversleeps`, `BoundaryWritten`, `DiariesKept` |
| `listen` | 2 batches | a violation: see below |
| `custody` | 2 tickets of 1 owner, one store that keeps revisions, 2 sweepers, 2 writes to a ticket, 2 faults | `QuotaNeverOversold`, `KeptReadsBack`, `LedgerKept`, `NothingLingers` |
| `rounds` | 4 people, a confirmation, a nearest step, a board and a last level; 3 ways to be staffed, 2 appointments or dismissals among 3 posts, 1 supplement | `TypeOK`, `OneSitting`, `NobodyJudgesTwice`, `EveryStepAnswers`, `OnlyChairsRefuse`, `ChairIsKept`, `HeardEverySeat`, `StateFollowsStaffing`, `WalkKept`, `LifeKept` |
| `vacant` | as `rounds`, with a board at a nearest step | a violation: see below |
| `claim` | 1 value, 3 rounds, 2 filings, 2 question revisions, no redetermination | `TypeOK`, `StandsOnItsRound`, `NeverStranded`, `OneAppealPerConclusion`, `QuietOnceClosed`, `WorkNeverWithdrawn`, `LivesKept` |
| `values` | 2 values, the rules {v1,v2} and {v1}, 2 rounds, 1 redetermination, 2 question revisions | `ApprovedIsScorable`, `EffectIsTrue` |

Why the bounds are enough to be interesting: three phases have a first, a
middle and a last, so an insertion, a removal and a move each have neighbours
on both sides; three instants let two boundaries pass in one sweep and leave one
ahead; two sweepers are the two processes of a switch-over, one of them holding
an old clock. Three batches with room for two in a sweep leave one behind; the
failing one comes first. Three rounds are a first look, a contest and either
its re-route or a contest of its verdict. One proof in flight at a time meets
every other act; two in flight are two calls that each check their own
identity. Phase ids are interchangeable in `plan` and `gate` (symmetry); the
runs with liveness use none.

`custody` begins in one of two casts (`MCStorage`): one upload with every fault,
its neighbour having failed long ago, or two uploads racing for one owner's
room with the faults used up. Either has more than one can hold of everything
it is about: 3 units of room against two uploads of up to 2, a second write to a
key that was already checked, a second sweeper on a row the first still holds.

`rounds` begins a round on either route, for a participant with or without the
last level (without it the board is the end, and its split the refusal), in one
of three staffings: the participant himself alone at the nearest step, which is
stepped over; nobody there, which stops the round; or a board only the
confirmer could sit on, who has already judged: where the last level is missing
the round stops there and is healed by an appointment. In the first two the
board has two members, and somebody may be appointed to it. A dismissal in
the middle of the confirmation, the vacancy, the board or a decision on it is
within the bound on changes, and so is a ballot cast while its seat is given up.

Deadlock is not checked: a batch may be deleted, a claim voided, a round
completed, every file bound, and the clock of `PhaseTimeline` and the rows of
`Claim` are bounded.

A run does not repeat what another run or a theorem settles: the types of
`PhaseScheduler` and `Storage` and the footing of a redetermined claim are proved
for all values; `AskedWhileWaiting` follows from `LivesKept`, and `JudgeIsHeard`,
where no board sits at a nearest step, from `OnlyChairsRefuse` and `ChairIsKept`,
but for a judge dismissed and appointed again between two reads of his decision.

Every property of a passing run has a mutant (an operator marked `mutant of`)
that breaks it as a plausible mistake in the code would.

### Fairness

`live`: a sweep is begun whenever a boundary is due (the loop sweeps at least
every `PHASE_FALLBACK`) and the transaction of one batch succeeds if tried again
and again (`sweepPhases` catches every failure and the loop goes on).
`loop`: the clock moves, the loop takes its next step, the candidate query and
the transaction of a batch not in `Broken` succeed when tried for ever, and
restarts stop. Nothing is assumed of the announcements.
`custody`: the clock runs, and every pass is begun again whatever became of the
one before (`schedulerLayer` repeats both). `rounds`: a transaction ends
(`letGo`), and the patrol takes its next step if it can again and again: it
waits for a row lock in a queue, so it gets it however many decisions take it
in turn, and it is run every `PATROL_INTERVAL`. `Claim` states no
liveness: every step of it waits for a person.

### Where the code and its words differ

- `record`: "a plan change on an active batch is a configuration change: one
  event, one counter move" (`server/index.ts:5155`); removing or reordering
  phases without a time on an active batch records nothing.
- `reopen`: "reopening now: the new phase starts where the archive ended"
  (`server/index.ts:4335`); `beganAfter` is strict, so a batch archived and
  reopened within one clock reading has no phase in hand.
- `listen`: "on every (re)subscription treat the world as unknown and re-read
  it" (`packages/plugins/infra/database/src/server/notifications.ts:59`); the
  phase loop sleeps on by what it read before the outage, for up to
  `PHASE_FALLBACK`.

- `vacant`: "the queue shows what the decision refuses" cannot be written
  (`review/db.ts:314`), and a vacant step "finds its unit" once somebody is
  appointed (`server/index.ts:6265`). A board that sits at a nearestRole step
  (`item/policy.ts:95` allows it) with nobody in office at the opening is
  placed and released by the patrol, and then refuses every word: the sitting is
  called from the frozen route (`review/service.ts:2085`), which has no unit.
  Only re-routing the round, a new one on the current policy, helps it.

Three races the properties except, because the code does lose there. The patrol
gives up the seat of a member dismissed while his ballot is being committed
(`review/db.ts:2544`): the ballot counts without a seat, somebody else takes the
chair, and the sitting concludes with a seated member unheard
(`HeardEverySeat`). The reconciliation takes the only bytes of an attachment
completed on a ticket past its `cleanupAfter` while the page was being judged
(`cleanup.ts:238`, `KeptReadsBack`). And with no sitting open, a blocked round
having been healed or an answer having found nobody to sit, a judge passes
`mayAct` (`review/service.ts:1603`) and is dismissed before `stageArrival`
(`2077`) asks again: the decision is refused for want of anybody to sit (`2085`)
or of a chair (`2141`), and he was let in (`ChairIsKept`). In all three the run
reaches the exception.

Noted without a run: a save of the question hands approved claims back without
asking whether their owner could file again, which a staff hand-back asks
(`entry/service.ts:695`).

## Proofs

Every safety property the passing runs check is proved, but for one that speaks
of ENABLED, and so are the refinements of all four abstract specifications. A
theorem holds for every value of the constants the ASSUMEs of its module allow:
any number of phases, batches, tickets, people, steps, values, any limits, ages
and delays, any bound on what a batch or a claim gathers. The runs evaluate the
same ASSUMEs on their instances.

| module | theorem | states |
|---|---|---|
| `PhaseTimelineProofs` | `TypeCorrect`, `ShapeInvariant` | `TypeOK`; the inductive invariant `ShapeInv` |
| | `PlanNeverCorrupt`, `TimesNeverCross`, `EnteredExactlyOnce` | `PlanShape`, `TimesInOrder`, `EnteredOnce` |
| `PhaseHistoryProofs` | `HistoryStaysFixed`, `SweepNeverShows`, `EndedStaysFrozen` | `HistoryIsFixed`, `SweepIsInvisible`, `EndedPhaseFrozen` |
| | `LifeInvariant` | the inductive invariant `Life` |
| | `DraftsNeverRan`, `ArchivesAreOver`, `ProjectionNeverStrays` | `DraftNeverRan`, `ArchivedIsOver`, `ProjectionFollows` |
| | `PastIsPast` | `PastStaysPast` |
| `PhaseDiaryProofs` | `CandidatesAreExact` | `CandidatesExact` |
| | `DiaryImplemented` | `DiaryKept`, the refinement of `PhaseDiary` |
| `PhaseSchedulerProofs` | `TypeCorrect`, `LoopNeverOversleeps` | `TypeOK`, `NeverOversleeps` |
| | `DiariesObeyed` | `DiariesKept`, that its batches move as `PhaseDiary` says |
| `StorageProofs` | `TypeCorrect`, `CustodyInvariant` | `TypeOK`; the inductive invariant `Custody /\ AdmissionsApart` |
| | `KeptAlwaysReadsBack` | `KeptReadsBack` |
| | `RoomStays`, `QuotasHold` | the invariant `RoomKept`; `QuotaNeverOversold` |
| | `LedgerImplemented` | `LedgerKept`, the refinement of `StorageLedger` |
| `ReviewRoundProofs` | `TypeCorrect`, `SittingIsOne` | `TypeOK`, `OneSitting` |
| | `JudgesOnce`, `StepsAnswer` | `NobodyJudgesTwice`, `EveryStepAnswers` |
| | `EverySeatIsHeard`, `ChairsAreKept` | `HeardEverySeat`, `ChairIsKept` |
| | `WalkImplemented` | `WalkKept`, the refinement of `ReviewWalk` |
| | `LifeImplemented` | `LifeKept`, the refinement of `RoundLife` |
| `ClaimProofs` | `SoundInvariant`, `TypeCorrect` | the inductive invariant `Sound`; `TypeOK` |
| | `MovesWithItsRound`, `StandsOnSomething` | `StandsOnItsRound`, `NeverStranded` |
| | `AppealIsSpent`, `EffectHolds` | `OneAppealPerConclusion`, `EffectIsTrue` |
| | `RuleScoresWhatStands`, `WorkIsKept` | `ApprovedIsScorable`, `WorkNeverWithdrawn` |
| | `ClosedIsQuiet`, `AskedOnlyWhileWaiting` | `QuietOnceClosed`, `AskedWhileWaiting` |
| | `LivesImplemented` | `LivesKept`, `RoundLife` implemented by each of a claim's rounds |

### The plan and its life

None of the three shapes of a plan is inductive by itself. `TimesInOrder` alone
does not survive a reopening, which appends an entered phase after the others:
that needs `ArchivedEntered`, that an archived batch has no phase still to come,
and `EntriesPast`, that no entry is later than the clock. It does not survive a
submitted list either without `RowsDistinct`; and a row inserted anew must not
inherit the times of one removed (`RowsGone`). A draft going active needs
`DraftUntimed`. `ShapeInv` is their conjunction with the order of the plan
(`InOrder`) and `EnteredOnce`.

The argument: `RatifiedInOrder` shows that ratifying at any clock no later than
now keeps the order; every act ratifies first, so it starts from an ordered
plan; `ScheduledInOrder`, `UnscheduledInOrder`, `AdvancedInOrder` and
`CommittedStay` (a submitted list keeps the timed rows a prefix) each show one
kind of edit keeps it; `ShapeStep` puts them together action by action.

From the shape alone follow the action properties. The clock has reached a
prefix of the plan; every edit starts behind that prefix, and ratifying gives
its phases the instants they were read with all along. So history is fixed, and
a sweep changes nothing anybody can read, however old its clock.

Drafts, archives and the projection hold only together (`Life`). Withdrawing the
last time takes a batch back to draft, which is harmless only if the batch was
never used: `UsedHasBegun` says a batch that was ever closed or holds a round
has a first phase the clock has reached, and history keeps it; `ActiveHasATime`
says an active batch can always go somewhere; `Projected` is what the projection
points at whatever the status. `PastStaysPast` nests one always in another: its
proof carries `Over`, that the phase was entered no later than the last archive,
through every step: the entry is history and an archive's instant only grows.

`CandidatesExact` uses the shape once more: of a row that has passed, every row
before it is timed and earlier (`PassedIsReached`). `DiaryKept` is by what each
act leaves. Every act but a sweep ratifies at the present clock, so nothing it
leaves has passed; a sweep ratifies at the clock it read, so it leaves what was
there or less, and one that has passed only where there was one to begin with.

### The scheduler's loop

`DiariesKept` says of the set of batches the loop is modelled with what
`DiaryKept` says of one batch: it is the other half of the contract, by action.

`NeverOversleeps` says nothing before the loop sleeps, so `AlarmHolds` carries
what was learnt from the diary through the steps before: until an announcement is
under way, waits in the queue or was lost, the alarm read is the earliest
boundary (`Aimed`), and the sleep that follows ends within the margin of every
boundary ahead or, with one already past, within `Retry` (`InTime`). `TickKeepsAim`
is that time moves the alarm and the boundaries together; `AimedSleepIsInTime`
that a sleep by such an alarm is in time.

### Custody of bytes

`Custody` is what no statement of the code says and all its guards add up to:
a key is written only for a granted ticket that has not reached its
`cleanupAfter`; a completed ticket has an attachment and no other has; what a
sweep has claimed can no longer be completed, bound or written, whoever else
claims it after the lease ran out (`ClaimSound`); and between its reading of the
tables and its last removal the reconciliation holds the attachment's own
revision, or there is none but a raced one (`PageSound`). `KeptReadsBack` follows
action by action. It needs `StagedOutlivesWrites`: without it a sweep could
claim a staged file while a write to its ticket's key is under way.

The quotas need `RoomKept`: an admission that found room still has it when it
reserves, because no other is in hand (`AdmissionsApart`, the advisory lock) and
nothing else makes the charges grow. `SumsProofs` has the arithmetic: a sum over
a finite set changed at one element changes by the difference there (`SumChange`),
is monotone (`SumAtMost`), and of two functions is the sum of the sums. The
community modules' sum is a fold, a recursive function over the subsets of the
set: `SumIsRunning` writes it with that function, and each fact is by a smallest
set on which it fails (`SmallestBad`). The step simulation (`LedgerImplemented`) is by action: one that
reserves charges a key, one that removes the last bytes comes before the one
that stops charging, the rest stutter.

### The review round

`Sound` is `Typed`, which adds to the types that a sitting has no more seats
taken than its size and none made for a sitting to come, `OneSitting`,
and `Deciding`: whoever has the round's lock decides an open round, has not
judged it if it climbs, and calls a sitting, if he does, from somebody. The
patrol takes no lock; that its writes keep all of it is the conditions they
carry. What it may do to the round is three things (`PatrolIs`): nothing, a seat
given up, or the state of a round no decision holds.

`History` is about the record. `Walked`: everything on it is of steps behind the
round, or of the one where it ended. `JudgedOnce` strengthens
`NobodyJudgesTwice`: whoever votes at the open sitting has said nothing before.
`Answered` strengthens `EveryStepAnswers` for the ordinary route, where every
step behind has a yes. They are kept because every move is one of few kinds
(`WalksTo`): what a round climbs over is recorded as stepped over, and the
ordinary route is only left with a yes. The refinement maps a step to its number
among the enterable ones; `WalkImplemented` shows the same kinds of move are
those of `ReviewWalk`, or stutter.

`JudgeIsHeard` speaks of ENABLED. `OnlyChairsRefuse` splits it: what a decision
may still be refused for, after it was let in, is exactly `Refused`, nobody to
call the sitting from or no chair to take. That half stays with TLC. The other,
`ChairIsKept`, is proved from `LetIn`. While a decision is held nobody else takes
a chair, and seats are only given up, by the patrol and by the decision itself.
So at an open sitting the judge has a place throughout: the seat he was let in
on, or, once that is given up, the chair it leaves (`SeatGivenUp`), or the chair
he was let in for, which others leaving only add to (`FewerSeats`). And each
time he reads, a seat he is found on is his own if he may still sit
(`KnowsPlace`); if he may not, the decision gives it up, and there is a chair.
Where he calls the sitting himself the same holds once he is among those it is
called from, which is all that is excepted (`LetInIsHeard`).

`LifeImplemented` needs, beside `Sound`, only that a request open is one that
was counted (`Asking`): what is said, asked and voted is remembered by the
record, the ballots or that count, whatever becomes of the sitting.

### The claim

`Sound` is a conjunction of eight. `Footing` is the one the others are for. A
contest leaves a claim its verdict and points it elsewhere, so what the claim
stood on is visible nowhere while the contest runs; if the contest is cut short
the claim is put back on it. `HeldBy` says what a running contest's target
guarantees of that footing, `StandsAs` what the claim stands on without a round,
and each act carries the one into the other (`FootingStays`, `VerdictFooting`,
`DeterminedFooting`, `OpenedFooting`, `ClosedFooting`). `Recorded` says what the
rows point at is there; `Continued` that a re-route keeps an appeal an appeal;
`Appealed` that an appeal that runs or concluded is the only one of its
conclusion that can conclude. `Scored` says what the proofs in flight and the
report in hand were made of: a proof of the live revision is of a value its rule
scores, and a report was of a claim its candidate rule scores, so an act a
transaction later that finds the identity unchanged may rely on it.

`OneAppealPerConclusion` speaks of chains of re-routes, which the code walks with
a loop and the model with a recursive function. That such a function exists is
shown with what every set closed under going back has in common
(`LineageExists`); from that its one unfolding (`LineageIs`), and that no appeal
stands in the lineage of a round that is none (`NoAppealBefore`) by smallest
counterexample: a re-route keeps an appeal an appeal.

`EffectIsTrue` compares what the history derives long after with what happened:
`SettledBefore` shows that what the claim stands as is what the conclusion a
contest names settled, nothing else having been determined by that round.

`LivesKept` goes by the seven ways the rounds move (`RoundsMove`), each of which
says what it makes of a row (`Lives`); `LivesIs` shows that to be a step of
`RoundLife`.

### What is assumed

The named ASSUMEs, and nothing else. `NoneAssumption`, `NoneIsNoRow`,
`NoneIsNoPanel`: NULL is none of the values a column may hold. `BoundAssumption`,
`ClaimBounds`: the bounds are numbers. `RuleAssumption`: a rule scores values.
`SchedulerAssumption`: batches are finitely many and the limit and the delays of
the loop are positive. `StorageConstants`: tickets are finitely many, each has an
owner, limits are numbers. `RoundConstants`: a step is on a route once and on one
route; a board sits on the escalation route and not at its end
(`item/policy.ts`); people are finitely many. `StagedOutlivesWrites` is the only
one the configuration could break; it is discussed under Storage.

### What stays with TLC

- Liveness: `BoundariesRatified`, `BoundaryWritten`, `NothingLingers`,
  `StateFollowsStaffing`. The prover has no rule for fairness.
- `JudgeIsHeard` and `OnlyChairsRefuse`, which are stated with ENABLED, and the
  four runs that end in a violation. What of them needs no ENABLED is proved as
  `ChairIsKept`.

Attempting the proofs changed the models in three places. The cases of
`ReviewRound!resolved` and of `Claim!roundEffectOf` overlapped, where the code
tries them in order; they are apart now. TLC takes the first case that holds and
could not tell. And `PhaseScheduler!SweepOne` had every boundary it left ahead of
the clock, where `PhaseTimeline` shows that a sweep that read its clock before
it waited for the lock may leave one that has passed: the two modules did not
agree on a batch. `SweepOne` lets it now, and `BoundaryWritten`, which asked for
a moment with nothing past due, asks for what the loop does promise: that again
and again nothing of the batch is past due or one of its boundaries is written,
unless a sweep's worth of batches past due comes before it.
