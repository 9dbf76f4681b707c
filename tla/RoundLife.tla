------------------------------ MODULE RoundLife ------------------------------
(***************************************************************************)
(* The life of one review round's row, as the two modules that write it    *)
(* see it: to Claim a round has no steps, judges or sittings, to           *)
(* ReviewRound it has no claim.  ReviewRound implements this with its one  *)
(* round, Claim with each of the rounds a claim gathers.                   *)
(***************************************************************************)
CONSTANT None  \* no outcome yet

VARIABLES
    state,   \* of the row
    outcome, \* the verdict, or "ended" over everybody's head
    fresh,   \* nobody has worked on it and it is not over: what an owner may
             \* still take back
    asked    \* a request for more is open

lvars == <<state, outcome, fresh, asked>>

Standing == {"active", "blocked"}

LInit == state \in Standing /\ outcome = None /\ fresh = TRUE /\ asked = FALSE

(* A word, a ballot or an opinion: wherever the round goes it is worked on.*)
Word == state \in Standing /\ state' \in Standing /\ ~fresh' /\ UNCHANGED <<outcome, asked>>

(* The last word; only of a round somebody can judge.                      *)
Verdict(word) ==
    /\ state = "active" /\ state' = "completed" /\ outcome' = word
    /\ ~fresh' /\ UNCHANGED asked

Ask ==
    /\ state = "active" /\ state' = "awaiting_supplement"
    /\ ~asked /\ asked' /\ ~fresh' /\ UNCHANGED outcome

(* The question is taken back, or answered, by when nobody may be left.    *)
AskEnds ==
    /\ state = "awaiting_supplement" /\ state' \in Standing
    /\ asked /\ ~asked' /\ UNCHANGED <<outcome, fresh>>

(* The patrol releases it and blocks it.                                   *)
Restaff == state \in Standing /\ state' \in Standing /\ UNCHANGED <<outcome, fresh, asked>>

(* Withdrawn, returned, voided, re-routed, redetermined.                   *)
End ==
    /\ state # "completed" /\ state' = "completed" /\ outcome' = "ended"
    /\ ~fresh' /\ ~asked'

LNext ==
    \/ Word \/ Ask \/ AskEnds \/ Restaff \/ End
    \/ \E word \in {"approved", "rejected"} : Verdict(word)

LSpec == LInit /\ [][LNext]_lvars
=============================================================================
