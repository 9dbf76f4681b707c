--------------------------- MODULE StorageLedger ---------------------------
(***************************************************************************)
(* What the storage plugin promises about bytes, without its tables, its   *)
(* stores or its sweepers: whoever may leave bytes under a key is charged  *)
(* for them from before the first byte may arrive until after the last is  *)
(* gone, and nobody is charged past their room.                            *)
(*                                                                         *)
(* Storage implements it: see Storage!Ledger.                              *)
(***************************************************************************)
EXTENDS Integers, Sums

CONSTANTS
    Tickets,   \* the upload tickets, each the only way to its key
    Owner,     \* whose each is
    MaxFile,   \* the largest charge one ticket makes
    OwnerRoom, \* the most one owner may be charged
    TenantRoom \* the most all of them together may be charged

VARIABLES
    charge, \* bytes its owner is charged for a ticket
    held    \* whether the store holds bytes under its key

lvars == <<charge, held>>

ChargedFor(S) == SumOf(charge, S)
Of(o) == {t \in Tickets : Owner[t] = o}

LInit == charge = [t \in Tickets |-> 0] /\ held = [t \in Tickets |-> FALSE]

(* A ticket is charged before anything can be written under its key, and   *)
(* only while the charge fits its owner's room and the tenant's.           *)
Charge(t, b) ==
    /\ charge[t] = 0 /\ ~held[t]
    /\ ChargedFor(Of(Owner[t])) + b <= OwnerRoom
    /\ ChargedFor(Tickets) + b <= TenantRoom
    /\ charge' = [charge EXCEPT ![t] = b]
    /\ UNCHANGED held

(* The bytes are counted, and the charge becomes what there is of them.    *)
Settle(t, b) ==
    /\ 0 < b /\ b < charge[t]
    /\ charge' = [charge EXCEPT ![t] = b]
    /\ UNCHANGED held

(* The charge is given back only once the bytes are gone.                  *)
GiveBack(t) ==
    /\ charge[t] > 0 /\ ~held[t]
    /\ charge' = [charge EXCEPT ![t] = 0]
    /\ UNCHANGED held

(* Bytes come to a key only while somebody is charged for it.              *)
Arrive(t) ==
    /\ charge[t] > 0 /\ ~held[t]
    /\ held' = [held EXCEPT ![t] = TRUE]
    /\ UNCHANGED charge

Vanish(t) ==
    /\ held[t]
    /\ held' = [held EXCEPT ![t] = FALSE]
    /\ UNCHANGED charge

LNext == \E t \in Tickets :
    \/ \E b \in 1 .. MaxFile : Charge(t, b) \/ Settle(t, b)
    \/ GiveBack(t) \/ Arrive(t) \/ Vanish(t)

LSpec == LInit /\ [][LNext]_lvars
=============================================================================
