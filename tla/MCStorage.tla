----------------------------- MODULE MCStorage -----------------------------
(***************************************************************************)
(* Storage as TLC checks it.  Two casts, so that neither has to be small   *)
(* in everything: one upload with every fault the bounds allow, the other  *)
(* ticket having failed long ago; and two uploads of one owner racing for  *)
(* its room, with the faults and all writes but one used up.               *)
(***************************************************************************)
EXTENDS Storage
CONSTANT t1, t2, o1

OneOwner == [t \in Tickets |-> o1]

CastInit ==
    /\ \/ /\ ticket = [t \in Tickets |->
                IF t = t1 THEN Fresh ELSE [Fresh EXCEPT !.status = "failed", !.age = CleanupAge]]
          /\ faults = 0 /\ writes = [t \in Tickets |-> 0]
       \/ /\ ticket = [t \in Tickets |-> Fresh]
          /\ faults = Faults /\ writes = [t \in Tickets |-> IF t = t2 THEN Writes - 1 ELSE Writes]
    /\ Empty

CastSpec == CastInit /\ [][Next]_vars /\ Fairness
=============================================================================
