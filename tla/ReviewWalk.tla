----------------------------- MODULE ReviewWalk -----------------------------
(***************************************************************************)
(* What a review round promises whoever waits on it, without its judges,   *)
(* sittings, pauses or patrol: it goes forward along its route and never   *)
(* back, from the ordinary route it may go over to the escalation route    *)
(* and not return, and it ends once - with a yes only at the end of a      *)
(* route, with a no wherever the ordinary route stands or at the end of    *)
(* the other, or over everybody's head.                                    *)
(*                                                                         *)
(* ReviewRound implements it: see ReviewRound!Walk.                        *)
(***************************************************************************)
EXTENDS Integers

CONSTANTS
    Final, \* the steps are numbered from 1, the ordinary ones first
    Turn, \* the last number of the ordinary route
    None

VARIABLES
    places, \* the steps this round may stand at, settled when it opens
    at,     \* where the round stands
    outcome \* how it ended, None while it has not

wvars == <<places, at, outcome>>

Ordinary == {n \in places : n <= Turn}
Ends(n) == \A m \in (IF n <= Turn THEN Ordinary ELSE places) : m <= n

Begin == places \subseteq 1 .. Final /\ at \in places /\ outcome = None

Forward == \E n \in places :
    /\ outcome = None
    /\ n > at
    /\ at' = n /\ UNCHANGED <<places, outcome>>

Conclude(word) ==
    /\ outcome = None
    /\ \/ word = "approved" /\ Ends(at)
       \/ word = "rejected" /\ (at <= Turn \/ Ends(at))
       \/ word = "cancelled"
    /\ outcome' = word /\ UNCHANGED <<places, at>>

WNext == Forward \/ \E word \in {"approved", "rejected", "cancelled"} : Conclude(word)

WSpec == Begin /\ [][WNext]_wvars
=============================================================================
