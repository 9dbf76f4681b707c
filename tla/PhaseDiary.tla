------------------------------ MODULE PhaseDiary ------------------------------
(***************************************************************************)
(* What the phase loop may expect of one batch: its next boundary, counted *)
(* in ticks still to go.  PhaseTimeline implements it with the phase rows  *)
(* of a batch, PhaseScheduler sweeps a set of batches that obey it.        *)
(***************************************************************************)
EXTENDS Naturals

CONSTANT None    \* no boundary to come

VARIABLE due     \* ticks until the boundary; 0 is now or past

DInit == due = None

\* time passes; what is past stays so
DTick == due' = IF due \in {None, 0} THEN due ELSE due - 1

\* a plan edit, a status change: never leaves a boundary that has passed
DWrite == due' \in (Nat \ {0}) \cup {None}

\* a boundary that has passed is written down; the one behind it may have
\* passed too
DSweep == due = 0 /\ due' \in Nat \cup {None}

DNext == DTick \/ DWrite \/ DSweep

DSpec == DInit /\ [][DNext]_due

=============================================================================
