-------------------------- MODULE MCPhaseTimeline --------------------------
(***************************************************************************)
(* PhaseTimeline on small instances.                                       *)
(***************************************************************************)
EXTENDS PhaseTimeline, TLC

\* phase identities are uuids nothing orders or compares but for equality
Symmetry == Permutations(PhaseId)

=============================================================================
