--------------------------- MODULE PhaseScheduler ---------------------------
(***************************************************************************)
(* The phase loop (assessment/core/src/phase/scheduler.ts): sweep, aim at  *)
(* the next boundary, sleep until it or until a plan edit wakes the loop.  *)
(*                                                                         *)
(* What the loop sees of the batches is a diary: the next boundary of each *)
(* batch that has one (PhaseTimeline models the batch itself).  Every      *)
(* write that moves a boundary announces itself when it commits; the       *)
(* announcement crosses a LISTEN session and a sliding bus, and may be     *)
(* lost on the way.                                                        *)
(*                                                                         *)
(* Time is relative: a boundary, the instant the alarm read and the sleep  *)
(* are counted in ticks still to go, 0 being now or past, and a tick       *)
(* brings all of them closer.  So nothing bounds how long a run goes on.   *)
(***************************************************************************)
EXTENDS Naturals, FiniteSets, FiniteSetsExt

CONSTANTS
    Batch,      \* batches, as the numbers the candidate query orders them by
    None,       \* no boundary ahead
    Limit,      \* SWEEP_BATCH_LIMIT
    Margin,     \* WAKE_MARGIN
    Retry,      \* PHASE_RETRY
    Fallback,   \* PHASE_FALLBACK
    Broken,     \* batches whose sweep transaction may fail every time
    MaxAhead    \* bound on how far ahead a boundary is scheduled

ASSUME SchedulerAssumption ==
    /\ Batch \subseteq Nat /\ IsFiniteSet(Batch) /\ Broken \subseteq Batch
    /\ None \notin Nat
    /\ Limit \in Nat \ {0} /\ MaxAhead \in Nat \ {0}
    /\ Margin \in Nat /\ Retry \in Nat \ {0} /\ Fallback \in Nat \ {0}

VARIABLES
    due,        \* ticks until each batch's next unratified boundary
    pc,         \* what the loop does next: sweep, ratify, alarm, aim, sleep
    crossed,    \* boundaries that had passed when the sweep read its clock
    todo,       \* candidates the sweep has still to take
    alarm,      \* what nextDueBoundary answered
    left,       \* ticks of sleep left
    wake,       \* the wake queue, which holds one signal
    bus,        \* whether an announcement is on its way to the wake queue
    listening,  \* whether the LISTEN session is up
    lost        \* whether an announcement was lost since the alarm was read

loopVars == <<pc, crossed, todo, alarm, left>>
signalVars == <<wake, bus, listening, lost>>
vars == <<due, pc, crossed, todo, alarm, left, wake, bus, listening, lost>>

Ahead == 0..MaxAhead

(***************************************************************************)
(* Every variable keeps its type; left in particular never passes the net, *)
(* so whatever was missed, the loop is back within PHASE_FALLBACK          *)
(* (phasePause, phase/scheduler.ts:79).                                    *)
(***************************************************************************)
TypeOK ==
    /\ due \in [Batch -> Ahead \cup {None}]
    /\ pc \in {"sweep", "ratify", "alarm", "aim", "asleep"}
    /\ crossed \subseteq Batch
    /\ todo \subseteq Batch
    /\ alarm \in Ahead \cup {None}
    /\ left \in 0..Max({Fallback, Retry})
    /\ wake \in BOOLEAN /\ bus \in BOOLEAN /\ listening \in BOOLEAN /\ lost \in BOOLEAN

Scheduled == {b \in Batch : due[b] # None}
Past == {b \in Scheduled : due[b] = 0}

Init ==
    /\ due = [b \in Batch |-> None]
    /\ pc = "sweep"
    /\ crossed = {} /\ todo = {} /\ alarm = None /\ left = 0
    /\ wake = FALSE /\ bus = FALSE /\ listening = FALSE /\ lost = FALSE

-----------------------------------------------------------------------------
(***************************************************************************)
(* The world around the loop.                                              *)
(***************************************************************************)
Closer(t) == IF t = None \/ t = 0 THEN t ELSE t - 1

Tick ==
    /\ due' = [b \in Batch |-> Closer(due[b])]
    /\ alarm' = Closer(alarm)
    /\ left' = Closer(left)
    /\ UNCHANGED <<pc, crossed, todo, signalVars>>

\* announce, in the transaction of the write: delivered at its commit to
\* whoever listens, and to nobody otherwise
Announce ==
    /\ bus' = (bus \/ listening)
    /\ lost' = (lost \/ ~listening)
    /\ UNCHANGED <<wake, listening>>

\* a plan write moves, adds or withdraws a boundary that has not passed, or
\* enters a phase whose boundary has
PlanWrite(b, t) ==
    /\ t # 0 /\ t # due[b]
    /\ due' = [due EXCEPT ![b] = t]
    /\ crossed' = crossed \ {b}
    /\ Announce
    /\ UNCHANGED <<pc, todo, alarm, left>>

\* the session dies, with what it had not relayed yet; it is opened again
\* three seconds later
SessionDies ==
    /\ listening
    /\ listening' = FALSE
    /\ \/ UNCHANGED <<bus, lost>>
       \/ bus /\ bus' = FALSE /\ lost' = TRUE
    /\ UNCHANGED <<due, loopVars, wake>>

SessionOpens ==
    /\ ~listening
    /\ listening' = TRUE
    /\ UNCHANGED <<due, loopVars, wake, bus, lost>>

\* the loop's own subscription offers the signal to the sliding queue
Relay ==
    /\ bus
    /\ bus' = FALSE
    /\ wake' = TRUE
    /\ UNCHANGED <<due, loopVars, listening, lost>>

\* a payload not understood, or pushed out of the sliding bus by newer ones
RelayDrops ==
    /\ bus
    /\ bus' = FALSE
    /\ lost' = TRUE
    /\ UNCHANGED <<due, loopVars, wake, listening>>

-----------------------------------------------------------------------------
(***************************************************************************)
(* The loop.                                                               *)
(***************************************************************************)

\* the clock and the candidates: the first Limit batches by id
IsFirst(some) ==
    /\ some \subseteq Past /\ Cardinality(some) <= Limit
    /\ \A b \in Past \ some : Cardinality(some) = Limit /\ \A c \in some : c < b

Sweep ==
    /\ pc = "sweep"
    /\ pc' = "ratify"
    /\ crossed' = Past
    /\ \E some \in SUBSET Past : IsFirst(some) /\ todo' = some
    /\ UNCHANGED <<due, alarm, left, signalVars>>

\* the candidate query fails: the sweep is over
SweepFails ==
    /\ pc = "sweep"
    /\ pc' = "alarm"
    /\ UNCHANGED <<due, crossed, todo, alarm, left, signalVars>>

\* mutant of SweepOne: the plan is not read again under the lock
SweepUnread(b) ==
    /\ pc = "ratify" /\ todo # {} /\ b = Min(todo)
    /\ todo' = todo \ {b}
    /\ \E t \in Ahead \cup {None} : due' = [due EXCEPT ![b] = t]
    /\ crossed' = crossed \ {b}
    /\ Announce
    /\ UNCHANGED <<pc, alarm, left>>

\* one transaction: what had passed by the sweep's clock is written down, and
\* announced if there was anything; the batch's next boundary is one the
\* sweep's clock had not reached, which by now may have passed as well
SweepOne(b) ==
    /\ pc = "ratify" /\ todo # {} /\ b = Min(todo)
    /\ todo' = todo \ {b}
    /\ IF b \in crossed
       THEN /\ \E t \in Ahead \cup {None} : due' = [due EXCEPT ![b] = t]
            /\ crossed' = crossed \ {b}
            /\ Announce
       ELSE UNCHANGED <<due, crossed, signalVars>>
    /\ UNCHANGED <<pc, alarm, left>>

\* mutant of SkipOne: the first failure is carried out of the sweep
GiveUp ==
    /\ pc = "ratify" /\ todo # {}
    /\ todo' = {}
    /\ UNCHANGED <<due, pc, crossed, alarm, left, signalVars>>

\* one batch's trouble is logged and the sweep goes on
SkipOne ==
    /\ pc = "ratify" /\ todo # {}
    /\ todo' = todo \ {Min(todo)}
    /\ UNCHANGED <<due, pc, crossed, alarm, left, signalVars>>

SweepEnds ==
    /\ pc = "ratify" /\ todo = {}
    /\ pc' = "alarm"
    /\ crossed' = {}
    /\ UNCHANGED <<due, todo, alarm, left, signalVars>>

\* mutant of NextDue: only instants still ahead are looked for
NextAhead == IF Scheduled \ Past = {} THEN None ELSE Min({due[b] : b \in Scheduled \ Past})

\* nextDueBoundaryAt: the earliest unratified instant, past ones included
NextDue == IF Scheduled = {} THEN None ELSE Min({due[b] : b \in Scheduled})

\* what was lost before the diary is read is read with it
ReadAlarm ==
    /\ pc = "alarm"
    /\ pc' = "aim"
    /\ alarm' = NextDue
    /\ lost' = FALSE
    /\ UNCHANGED <<due, crossed, todo, left, wake, bus, listening>>

\* a failed read falls back to the net
AlarmFails ==
    /\ pc = "alarm"
    /\ pc' = "aim"
    /\ alarm' = None
    /\ lost' = TRUE
    /\ UNCHANGED <<due, crossed, todo, left, wake, bus, listening>>

phasePause(next) ==
    IF next = None THEN Fallback
    ELSE IF next = 0 THEN Retry
    ELSE IF next + Margin < Fallback THEN next + Margin ELSE Fallback

FallAsleep ==
    /\ pc = "aim"
    /\ pc' = "asleep"
    /\ left' = phasePause(alarm)
    /\ alarm' = None
    /\ UNCHANGED <<due, crossed, todo, signalVars>>

\* the race: the timer, or a signal taken from the queue
TimerFires ==
    /\ pc = "asleep" /\ left = 0
    /\ pc' = "sweep"
    /\ UNCHANGED <<due, crossed, todo, alarm, left, signalVars>>

SignalTaken ==
    /\ pc = "asleep" /\ wake
    /\ pc' = "sweep"
    /\ wake' = FALSE
    /\ left' = 0
    /\ UNCHANGED <<due, crossed, todo, alarm, bus, listening, lost>>

\* the process goes away and comes back: the loop starts with a sweep
Restart ==
    /\ pc' = "sweep"
    /\ crossed' = {} /\ todo' = {} /\ alarm' = None /\ left' = 0
    /\ wake' = FALSE /\ bus' = FALSE /\ listening' = FALSE /\ lost' = FALSE
    /\ UNCHANGED due

LoopStep ==
    \/ Sweep \/ SweepFails
    \/ \E b \in Batch : SweepOne(b)
    \/ SkipOne \/ SweepEnds
    \/ ReadAlarm \/ AlarmFails \/ FallAsleep \/ TimerFires \/ SignalTaken

Next ==
    \/ Tick
    \/ \E b \in Batch, t \in Ahead \cup {None} : PlanWrite(b, t)
    \/ SessionDies \/ SessionOpens \/ Relay \/ RelayDrops
    \/ LoopStep
    \/ Restart

Spec == Init /\ [][Next]_vars

(***************************************************************************)
(* The clock moves and the loop, which catches every failure, takes its    *)
(* next step.  The candidate query, and the transaction of a batch that is *)
(* not Broken, succeed if they are tried again and again, and the process  *)
(* stays up from some moment on.  Nothing is assumed of the announcements: *)
(* the LISTEN session may stay down.                                       *)
(***************************************************************************)
FairSpec ==
    /\ Spec
    /\ WF_vars(Tick) /\ WF_vars(LoopStep)
    /\ SF_vars(Sweep)
    /\ \A b \in Batch \ Broken : SF_vars(SweepOne(b))
    /\ <>[][~Restart]_vars

-----------------------------------------------------------------------------
(***************************************************************************)
(* Asleep, with no signal on its way and none lost since the diary was     *)
(* read, the loop is never set to wake later than a margin past the        *)
(* earliest boundary there is - except that a boundary already past holds  *)
(* back the ones ahead of it, by less than PHASE_RETRY.  Plan writes before*)
(* and after the sweep, between the alarm and the sleep, and during the    *)
(* sleep are all accounted for (scheduler.ts:173-184).                     *)
(***************************************************************************)
Late ==
    /\ pc = "asleep"
    /\ \E b \in Scheduled : left > due[b] + Margin
    /\ Past = {} \/ left > Retry

NeverOversleeps == Late => wake \/ bus \/ lost

(***************************************************************************)
(* A batch does not stay past due with nothing written down: again and     *)
(* again it is not past due, or a sweep writes a boundary of it, whatever  *)
(* is lost on the announcement side and whatever happens to other batches, *)
(* unless a sweep's worth of batches that come before this one are past    *)
(* due again and again (server/index.ts:6521-6562: "one batch's trouble is *)
(* its own").                                                              *)
(***************************************************************************)
Crowded(b) == Cardinality({c \in Past : c < b}) >= Limit

BoundaryWritten ==
    \A b \in Batch \ Broken :
        \/ []<>(due[b] # 0)
        \/ []<><<SweepOne(b) /\ b \in crossed>>_vars
        \/ []<>Crowded(b)

(***************************************************************************)
(* The diary of every batch moves as PhaseDiary says, which is also how    *)
(* PhaseTimeline moves it: a boundary is past only by the clock, or left   *)
(* behind by a sweep of a batch that was past due.  It is why the loop may *)
(* sleep without anybody telling it that a boundary has come.              *)
(***************************************************************************)
DiaryOf(b) == INSTANCE PhaseDiary WITH due <- due[b]

DiariesKept == [][\A b \in Batch : [DiaryOf(b)!DNext]_(due[b])]_due

(***************************************************************************)
(* Not so in the code: the consumer of a LISTEN session is to "treat the   *)
(* world as unknown and re-read it" on every (re)subscription              *)
(* (infra/database/src/server/notifications.ts:61), so that a session that *)
(* opens finds no loop asleep past a boundary it was never told of.        *)
(***************************************************************************)
RereadOnSubscription == [][~listening /\ listening' => (Late' => wake' \/ bus')]_vars

=============================================================================
