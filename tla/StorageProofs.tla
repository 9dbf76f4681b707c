---------------------------- MODULE StorageProofs ----------------------------
(***************************************************************************)
(* What TLAPS proves of Storage, for any number of tickets, owners and     *)
(* sweepers, any limits and any ages.                                      *)
(***************************************************************************)
EXTENDS Storage, SumsProofs

-----------------------------------------------------------------------------
(***************************************************************************)
(* What the rows, the store and the passes that clean up know of each      *)
(* other.  None of it is stated anywhere in the code; all of it is what    *)
(* the guards add up to.                                                   *)
(***************************************************************************)

(* A key is written only for a ticket that was granted, only until its     *)
(* cleanupAfter, and what completions have looked at fits what it          *)
(* reserved.                                                               *)
TicketSound(t) ==
    /\ ticket[t].status = "issued" => ticket[t].bytes > 0
    /\ ticket[t].granted => ticket[t].status \in {"issued", "completed", "expired"}
    /\ ticket[t].status = "expired" => ticket[t].age = CleanupAge
    /\ ~ticket[t].granted => upload[t] = 0 /\ store[t] = {} /\ checked[t] = {}
    /\ ticket[t].age = CleanupAge => upload[t] = 0
    /\ upload[t] > 0 => writes[t] > 0
    /\ \A r \in checked[t] : r.size <= ticket[t].bytes

(* An attachment is made by the completion of its ticket, and is old       *)
(* enough to be swept only when the ticket's writes are over.              *)
FileSound(t) ==
    /\ file[t].status # "none" <=> ticket[t].status = "completed"
    /\ file[t].status # "none" => file[t].revision \in Revision
    /\ file[t].status = "staged" => file[t].age <= ticket[t].age \/ ticket[t].age = CleanupAge
    /\ file[t].status = "removed" => ticket[t].age = CleanupAge

(* What a claimed row has come to: for a ticket, and for a file.           *)
Seized(t, kind) ==
    /\ ticket[t].age = CleanupAge
    /\ kind = "ticket" =>
         \/ ticket[t].status = "issued" /\ ticket[t].claim # None
         \/ ticket[t].status = "expired"
    /\ kind = "file" =>
         \/ file[t].status = "staged" /\ file[t].claim # None
         \/ file[t].status = "removed"

(* What a sweep has claimed cannot be completed, bound or written any      *)
(* more, whoever else claims it since.                                     *)
ClaimSound(s) ==
    \/ sweeper[s] = Idle
    \/ /\ sweeper[s].kind \in {"ticket", "file"}
       /\ sweeper[s].left # {}
       /\ sweeper[s].gone # None => sweeper[s].gone \in sweeper[s].left
                                    /\ store[sweeper[s].gone] = {}
       /\ \A t \in sweeper[s].left : Seized(t, sweeper[s].kind)

(* Between reading what the tables say of a key and removing the last      *)
(* revision of the page, the reconciliation holds the attachment's own, or *)
(* nobody has made one since that is not marked as raced.                  *)
PageSound ==
    reconciler.stage # "listed" =>
        LET t == reconciler.key IN
        /\ t \in Tickets
        /\ reconciler.own = None => (file[t].status \in Held => file[t].raced)
        /\ reconciler.own # None => /\ file[t].status # "none"
                                    /\ file[t].revision = reconciler.own
                                    /\ reconciler.stage = "judged" =>
                                         reconciler.own \notin reconciler.page

Custody ==
    /\ \A t \in Tickets : TicketSound(t) /\ FileSound(t)
    /\ \A s \in Sweepers : ClaimSound(s)
    /\ PageSound

(* One admission at a time, of a ticket that is not there yet.             *)
AdmissionsApart ==
    \A t \in Tickets : admitted[t] > 0 =>
        /\ ticket[t].status = "none"
        /\ \A u \in Tickets : admitted[u] > 0 => u = t

(* There is room for what an admission is about to reserve, as there was   *)
(* when it looked.                                                         *)
RoomKept == \A t \in Tickets : HasRoom(t, admitted[t])

-----------------------------------------------------------------------------
(***************************************************************************)
(* Lemmas about the operators of the model.                                *)
(***************************************************************************)

Row == [status : {"none", "issued", "completed", "expired", "failed"},
        bytes : 0 .. MaxFile, age : 0 .. CleanupAge,
        granted : BOOLEAN, claim : Claim \cup {None}]
FileRow == [status : Held \cup {"none", "removed"},
            revision : Revision \cup {None}, age : 0 .. StagedTtl + 1,
            raced : BOOLEAN, claim : Claim \cup {None}]
Pass == [kind : {"idle", "ticket", "file"}, left : SUBSET Tickets, gone : Tickets \cup {None}]
Page == [key : Tickets \cup {None}, stage : {"listed", "known", "judged"},
         page : SUBSET Revision, own : Revision \cup {None}]

(* The numbers among the constants, one by one.                            *)
LEMMA Numbers ==
    /\ MaxFile \in Nat \ {0} /\ GrantTtl \in Nat \ {0} /\ Grace \in Nat \ {0}
    /\ Writes \in Nat \ {0} /\ Lease \in Nat /\ Faults \in Nat /\ StagedTtl \in Nat
    /\ ReservedRoom \in Nat /\ StagedRoom \in Nat /\ StoredRoom \in Nat /\ TenantRoom \in Nat
    /\ CleanupAge \in Nat /\ GrantTtl < CleanupAge /\ CleanupAge <= StagedTtl
BY StorageConstants, StagedOutlivesWrites DEF CleanupAge

(* The two ages a tick moves are capped, and the cap is their type.        *)
LEMMA CappedAge ==
    ASSUME NEW n \in Nat, NEW c \in Nat, n <= c
    PROVE  /\ Min({n + 1, c}) = IF n < c THEN n + 1 ELSE c
           /\ Min({n + 1, c}) \in 0 .. c
<1> DEFINE m == IF n < c THEN n + 1 ELSE c
<1>1. m \in {n + 1, c} /\ \A y \in {n + 1, c} : m <= y
  OBVIOUS
<1>2. Min({n + 1, c}) \in {n + 1, c} /\ \A y \in {n + 1, c} : Min({n + 1, c}) <= y
  BY <1>1 DEF Min
<1> QED
  BY <1>1, <1>2

(* An older claim is still the same sweeper's claim.                       *)
LEMMA OlderClaim ==
    ASSUME NEW c \in Claim \cup {None}
    PROVE  /\ Older(c) \in Claim \cup {None}
           /\ Older(c) = None <=> c = None
<1>1. CASE c = None
  BY <1>1 DEF Older
<1>2. CASE c # None
  <2>1. c \in Claim /\ c.age \in Nat /\ c.age <= Lease + 1 /\ Lease + 1 \in Nat
    BY <1>2, Numbers DEF Claim
  <2>2. Older(c) = [c EXCEPT !.age = Min({c.age + 1, Lease + 1})]
    BY <1>2 DEF Older
  <2>3. Min({c.age + 1, Lease + 1}) \in 0 .. Lease + 1
    BY <2>1, CappedAge
  <2>4. Older(c) \in Claim
    BY <2>1, <2>2, <2>3 DEF Claim
  <2> QED
    BY <1>2, <2>4, NoneIsNoRow
<1> QED
  BY <1>1, <1>2

(* A key that holds anything has a current revision.                       *)
LEMMA CurrentHeld ==
    ASSUME TypeOK, NEW t \in Tickets, store[t] # {}
    PROVE  Current(t) \in store[t]
<1> DEFINE Ahead == {Writes - r.n : r \in store[t]}
<1>1. \A r \in store[t] : r.n \in Nat /\ r.n <= Writes
  BY Numbers DEF TypeOK, Revision
<1>2. Ahead \in SUBSET Nat /\ Ahead # {}
  BY <1>1, Numbers
<1>3. PICK m \in Ahead : \A n \in Ahead : ~(<<n, m>> \in OpToRel(<, Nat))
  <2> HIDE DEF Ahead
  <2> QED
    BY <1>2, NatLessThanWellFounded, WFMin
<1>4. \A n \in Ahead : ~(n < m)
  BY <1>2, <1>3 DEF OpToRel
<1>5. PICK r \in store[t] : m = Writes - r.n
  OBVIOUS
<1>6. \A q \in store[t] : q.n <= r.n
  <2> TAKE q \in store[t]
  <2>1. ~(Writes - q.n < Writes - r.n)
    BY <1>4, <1>5
  <2> QED
    BY <2>1, <1>1, Numbers
<1> QED
  BY <1>6 DEF Current

(* A sweep under way has rows left, and takes one of them.                 *)
LEMMA InTurnLeft ==
    ASSUME TypeOK, NEW s \in Sweepers, sweeper[s] # Idle, ClaimSound(s)
    PROVE  /\ InTurn(s) \in sweeper[s].left /\ InTurn(s) \in Tickets
           /\ sweeper[s] \in Pass
BY DEF InTurn, ClaimSound, TypeOK, Pass

(* What is left of a pass is a pass.                                       *)
LEMMA RestIsPass ==
    ASSUME TypeOK, NEW s \in Sweepers, NEW S \in SUBSET Tickets
    PROVE  Rest(s, S) \in Pass
<1>1. sweeper[s] \in Pass
  BY DEF TypeOK, Pass
<1> QED
  BY <1>1 DEF Rest, Idle, Pass

(* A row that is written is still a row.                                   *)
LEMMA WrittenRow ==
    ASSUME NEW r \in Row, NEW x \in {"none", "issued", "completed", "expired", "failed"}
    PROVE  /\ [r EXCEPT !.status = x] \in Row
           /\ [r EXCEPT !.granted = TRUE] \in Row
           /\ \A b \in 0 .. MaxFile : [r EXCEPT !.status = x, !.bytes = b] \in Row
           /\ [r EXCEPT !.status = x, !.claim = None] \in Row
BY DEF Row

(* The same of an attachment.                                              *)
LEMMA WrittenFile ==
    ASSUME NEW r \in FileRow, NEW x \in Held \cup {"none", "removed"}
    PROVE  [r EXCEPT !.status = x] \in FileRow
BY DEF FileRow

(* Claiming rows leaves them rows.                                         *)
LEMMA ClaimedRows ==
    ASSUME NEW s \in Sweepers, NEW S \in SUBSET Tickets
    PROVE  /\ ticket \in [Tickets -> Row] => ClaimedBy(s, ticket, S) \in [Tickets -> Row]
           /\ file \in [Tickets -> FileRow] => ClaimedBy(s, file, S) \in [Tickets -> FileRow]
<1>1. [by |-> s, age |-> 0] \in Claim
  BY Numbers DEF Claim
<1> QED
  BY <1>1 DEF ClaimedBy, Row, FileRow

-----------------------------------------------------------------------------
(***************************************************************************)
(* Type correctness.                                                       *)
(***************************************************************************)

(* An empty store, no ticket and no pass are of their types.               *)
LEMMA TypeInit == Init => TypeOK
<1> SUFFICES ASSUME Init PROVE TypeOK
  OBVIOUS
<1> USE Numbers
<1>1. Fresh \in Row
  BY DEF Fresh, Row
<1>2. NoFile \in FileRow
  BY DEF NoFile, FileRow
<1>3. Idle \in Pass /\ Resting \in Page
  BY DEF Idle, Resting, Pass, Page
<1> QED
  BY <1>1, <1>2, <1>3 DEF Init, Empty, TypeOK, Row, FileRow, Pass, Page

(* The type invariant by the names of its types.                           *)
Typed ==
    /\ ticket \in [Tickets -> Row] /\ file \in [Tickets -> FileRow]
    /\ admitted \in [Tickets -> 0 .. MaxFile]
    /\ store \in [Tickets -> SUBSET Revision]
    /\ upload \in [Tickets -> 0 .. MaxFile] /\ writes \in [Tickets -> 0 .. Writes]
    /\ checked \in [Tickets -> SUBSET Revision]
    /\ sweeper \in [Sweepers -> Pass] /\ reconciler \in Page
    /\ faults \in 0 .. Faults

(* The two say the same, of a state and of the one after it.               *)
LEMMA TypedIsTypeOK == (Typed <=> TypeOK) /\ (Typed' <=> TypeOK')
BY DEF Typed, TypeOK, Row, FileRow, Pass, Page

(* No operation, sweep or tick leaves a badly typed row or revision.       *)
LEMMA TypeStep == TypeOK /\ Custody /\ [Next]_vars => TypeOK'
<1> SUFFICES ASSUME TypeOK, Custody, [Next]_vars PROVE Typed'
  BY TypedIsTypeOK
<1> USE Numbers DEF rows, world, passes
<1>0. Typed
  BY TypedIsTypeOK
<1>1. ASSUME NEW t \in Tickets, NEW b \in 1 .. MaxFile, admit(t, b)
      PROVE  Typed'
  BY <1>1, <1>0 DEF admit, Typed
<1>2. ASSUME NEW t \in Tickets, NEW b \in 1 .. MaxFile, receiveUpload(t, b)
      PROVE  Typed'
  BY <1>2, <1>0 DEF receiveUpload, Typed
<1>3. ASSUME NEW t \in Tickets, insertReservation(t)
      PROVE  Typed'
  <2>1. ticket[t] \in Row /\ admitted[t] \in 0 .. MaxFile /\ 0 \in 0 .. MaxFile
    BY <1>0 DEF Typed
  <2>2. PICK status \in {"issued", "none"} :
          ticket' = [ticket EXCEPT
              ![t].status = status,
              ![t].bytes = IF status = "issued" THEN admitted[t] ELSE 0]
    BY <1>3 DEF insertReservation
  <2>3. ticket' \in [Tickets -> Row]
    BY <2>1, <2>2, <1>0, WrittenRow DEF Typed
  <2> QED
    BY <2>3, <1>3, <1>0 DEF insertReservation, Typed
<1>4. ASSUME NEW t \in Tickets, grantUpload(t)
      PROVE  Typed'
  <2>0. ticket[t] \in Row
    BY <1>0 DEF Typed
  <2>1. ticket' \in [Tickets -> Row]
    <3>1. CASE ticket' = [ticket EXCEPT ![t].granted = TRUE]
      BY <3>1, <2>0, <1>0, WrittenRow DEF Typed
    <3>2. CASE ticket' = [ticket EXCEPT ![t].status = "failed"]
      BY <3>2, <2>0, <1>0, WrittenRow DEF Typed
    <3> QED
      BY <3>1, <3>2, <1>4 DEF grantUpload
  <2> QED
    BY <2>1, <1>4, <1>0 DEF grantUpload, Typed
<1>5. ASSUME NEW t \in Tickets, install(t)
      PROVE  Typed'
  <2>1. [n |-> writes[t], size |-> upload[t]] \in Revision
    BY <1>5, <1>0 DEF install, Typed, Revision, Custody, TicketSound
  <2> QED
    BY <2>1, <1>5, <1>0 DEF install, Typed
<1>6. ASSUME NEW t \in Tickets, statUpload(t)
      PROVE  Typed'
  BY <1>6, <1>0, CurrentHeld DEF statUpload, Typed
<1>7. ASSUME NEW t \in Tickets, completeUpload(t)
      PROVE  Typed'
  <2>1. PICK r \in checked[t] : completeUpload(t)!(r)
    BY <1>7 DEF completeUpload
  <2>2. [status |-> "staged", revision |-> r, age |-> 0, raced |-> RacedBy(t, r), claim |-> None]
          \in FileRow
    BY <2>1, <1>0 DEF Typed, FileRow, Held, RacedBy
  <2>0. ticket[t] \in Row
    BY <1>0 DEF Typed
  <2>3. ticket' \in [Tickets -> Row]
    <3>1. ticket' = ticket \/ ticket' = [ticket EXCEPT ![t].status = "completed"]
      BY <2>1
    <3>2. [ticket[t] EXCEPT !.status = "completed"] \in Row
      BY <2>0, WrittenRow
    <3> QED
      BY <3>1, <3>2, <1>0 DEF Typed
  <2>4. file' \in [Tickets -> FileRow]
    BY <2>1, <2>2, <1>0 DEF Typed
  <2> QED
    BY <2>1, <2>3, <2>4, <1>0 DEF Typed
<1>8. ASSUME NEW t \in Tickets, bind(t)
      PROVE  Typed'
  <2>1. file' \in [Tickets -> FileRow]
    BY <1>8, <1>0, WrittenFile DEF bind, Typed, Held
  <2> QED
    BY <2>1, <1>8, <1>0 DEF bind, Typed
<1>9. ASSUME NEW t \in Tickets, retire(t)
      PROVE  Typed'
  <2>1. file' \in [Tickets -> FileRow]
    BY <1>9, <1>0, WrittenFile DEF retire, Typed, Held
  <2> QED
    BY <2>1, <1>9, <1>0 DEF retire, Typed
<1>10. ASSUME NEW s \in Sweepers, claimAbandonedReservations(s)
       PROVE  Typed'
  <2>1. PICK S \in SUBSET {t \in Tickets : Abandoned(t)} :
             claimAbandonedReservations(s)!2!(S)
    BY <1>10 DEF claimAbandonedReservations
  <2>2. [kind |-> "ticket", left |-> S, gone |-> None] \in Pass
    BY DEF Pass
  <2>3. faults' \in 0 .. Faults
    BY <2>1, <1>0 DEF Typed, Overtaken
  <2> QED
    BY <2>1, <2>2, <2>3, <1>0, ClaimedRows DEF Typed
<1>11. ASSUME NEW s \in Sweepers, claimStagedAttachments(s)
       PROVE  Typed'
  <2>1. PICK S \in SUBSET {t \in Tickets : Unkept(t)} :
             claimStagedAttachments(s)!2!(S)
    BY <1>11 DEF claimStagedAttachments
  <2>2. [kind |-> "file", left |-> S, gone |-> None] \in Pass
    BY DEF Pass
  <2>3. faults' \in 0 .. Faults
    BY <2>1, <1>0 DEF Typed, Overtaken
  <2> QED
    BY <2>1, <2>2, <2>3, <1>0, ClaimedRows DEF Typed
<1>12. ASSUME NEW s \in Sweepers, removeObject(s)
       PROVE  Typed'
  <2> DEFINE t == InTurn(s)
  <2>1. sweeper[s] # Idle /\ t \in Tickets /\ sweeper[s] \in Pass
    BY <1>12, InTurnLeft DEF removeObject, Custody
  <2>2. Rest(s, sweeper[s].left \ {t}) \in Pass
    BY <2>1, RestIsPass DEF Pass
  <2>3. [sweeper[s] EXCEPT !.gone = t] \in Pass
    BY <2>1 DEF Pass
  <2> HIDE DEF t
  <2>4. sweeper' \in [Sweepers -> Pass]
    BY <1>12, <1>0, <2>2, <2>3 DEF removeObject, Typed, t
  <2>5. store' \in [Tickets -> SUBSET Revision]
    BY <1>12, <1>0, <2>1 DEF removeObject, Typed, t
  <2>6. faults' \in 0 .. Faults
    BY <1>12, <1>0 DEF removeObject, Typed
  <2> QED
    BY <2>4, <2>5, <2>6, <1>12, <1>0 DEF removeObject, Typed
<1>13. ASSUME NEW s \in Sweepers, writeOff(s)
       PROVE  Typed'
  <2> DEFINE t == sweeper[s].gone
  <2>1. t \in Tickets /\ sweeper[s] \in Pass
    BY <1>13, <1>0 DEF writeOff, Typed, Pass
  <2>2. Rest(s, sweeper[s].left \ {t}) \in Pass
    BY <2>1, RestIsPass DEF Pass
  <2>3. ticket' = ticket \/ ticket' = [ticket EXCEPT ![t].status = "expired", ![t].claim = None]
    BY <1>13 DEF writeOff
  <2>4. ticket' \in [Tickets -> Row]
    <3>1. ticket[t] \in Row
      BY <2>1, <1>0 DEF Typed
    <3>2. [ticket[t] EXCEPT !.status = "expired", !.claim = None] \in Row
      BY <3>1, WrittenRow
    <3> QED
      BY <2>3, <3>2, <1>0 DEF Typed
  <2>5. file' = file \/ file' = [file EXCEPT ![t].status = "removed"]
    BY <1>13 DEF writeOff
  <2>6. file' \in [Tickets -> FileRow]
    <3>1. file[t] \in FileRow
      BY <2>1, <1>0 DEF Typed
    <3>2. [file[t] EXCEPT !.status = "removed"] \in FileRow
      BY <3>1, WrittenFile
    <3> QED
      BY <2>5, <3>2, <1>0 DEF Typed
  <2>7. sweeper' \in [Sweepers -> Pass]
    BY <1>13, <2>2, <1>0 DEF writeOff, Typed
  <2> QED
    BY <2>4, <2>6, <2>7, <1>13, <1>0 DEF writeOff, Typed
<1>14. ASSUME NEW s \in Sweepers, sweepDies(s)
       PROVE  Typed'
  <2>1. Idle \in Pass
    BY DEF Idle, Pass
  <2> QED
    BY <2>1, <1>14, <1>0 DEF sweepDies, Typed
<1>15. CASE listRevisions
  <2>1. PICK t \in Versioned :
          reconciler' = [key |-> t, stage |-> "listed", page |-> store[t], own |-> None]
    BY <1>15 DEF listRevisions
  <2>2. t \in Tickets /\ store[t] \in SUBSET Revision
    BY <1>0, StorageConstants DEF Typed
  <2>3. reconciler' \in Page
    BY <2>1, <2>2 DEF Page
  <2> QED
    BY <2>3, <1>15, <1>0 DEF listRevisions, Typed
<1>16. CASE factsForKeys
  <2>1. reconciler.key \in Tickets
    BY <1>16, <1>0 DEF factsForKeys, Typed, Page
  <2>2. file[reconciler.key].revision \in Revision \cup {None}
    BY <2>1, <1>0 DEF Typed, FileRow
  <2> QED
    BY <2>2, <1>16, <1>0 DEF factsForKeys, Typed, Page
<1>17. CASE judgeRevisions
  <2> DEFINE doomed == judgeRevisions!2!doomed
  <2> QED
    BY <1>17, <1>0 DEF judgeRevisions, Typed, Page, revisionVerdict, Resting
<1>18. CASE removeRevision
  <2>1. reconciler.key \in Tickets
    BY <1>18 DEF removeRevision, Custody, PageSound
  <2> QED
    BY <2>1, <1>18, <1>0 DEF removeRevision, Typed, Page, Resting
<1>19. CASE reconcileStops
  <2>1. Resting \in Page
    BY DEF Resting, Page
  <2> QED
    BY <2>1, <1>19, <1>0 DEF reconcileStops, Typed
<1>20. CASE Tick
  <2>1. \A t \in Tickets : ticket'[t] \in Row
    <3> TAKE t \in Tickets
    <3>1. ticket[t] \in Row
      BY <1>0 DEF Typed
    <3>2. Min({ticket[t].age + 1, CleanupAge}) \in 0 .. CleanupAge
          /\ Older(ticket[t].claim) \in Claim \cup {None}
      BY <3>1, CappedAge, OlderClaim DEF Row
    <3>3. [ticket[t] EXCEPT !.age = Min({@ + 1, CleanupAge}), !.claim = Older(@)] \in Row
      BY <3>1, <3>2 DEF Row
    <3> QED
      BY <3>1, <3>3, <1>20 DEF Tick
  <2>2. \A t \in Tickets : file'[t] \in FileRow
    <3> TAKE t \in Tickets
    <3>1. file[t] \in FileRow
      BY <1>0 DEF Typed
    <3>2. Min({file[t].age + 1, StagedTtl + 1}) \in 0 .. StagedTtl + 1
          /\ Older(file[t].claim) \in Claim \cup {None}
      BY <3>1, CappedAge, OlderClaim DEF FileRow
    <3>3. [file[t] EXCEPT !.age = Min({@ + 1, StagedTtl + 1}), !.claim = Older(@)] \in FileRow
      BY <3>1, <3>2 DEF FileRow
    <3> QED
      BY <3>1, <3>3, <1>20 DEF Tick
  <2>3. /\ ticket' = [t \in Tickets |-> ticket'[t]] /\ file' = [t \in Tickets |-> file'[t]]
    BY <1>20 DEF Tick
  <2>4. ticket' \in [Tickets -> Row] /\ file' \in [Tickets -> FileRow]
    BY <2>1, <2>2, <2>3
  <2>5. upload' \in [Tickets -> 0 .. MaxFile]
    <3>1. upload' = [t \in Tickets |-> IF ticket'[t].age = CleanupAge THEN 0 ELSE upload[t]]
      BY <1>20 DEF Tick
    <3>2. \A t \in Tickets : upload[t] \in 0 .. MaxFile /\ 0 \in 0 .. MaxFile
      BY <1>0 DEF Typed
    <3> QED
      BY <3>1, <3>2
  <2> QED
    BY <2>4, <2>5, <1>20, <1>0 DEF Tick, Typed
<1>21. CASE UNCHANGED vars
  BY <1>21, <1>0 DEF vars, Typed
<1> QED
  BY <1>1, <1>2, <1>3, <1>4, <1>5, <1>6, <1>7, <1>8, <1>9, <1>10, <1>11, <1>12, <1>13, <1>14,
     <1>15, <1>16, <1>17, <1>18, <1>19, <1>20, <1>21 DEF Next, SweeperStep, ReconcilerStep

-----------------------------------------------------------------------------
(***************************************************************************)
(* Custody is kept by every step, one part of it at a time.                *)
(***************************************************************************)

(* What the type says of one ticket's columns.                             *)
LEMMA RowTypes ==
    ASSUME TypeOK, NEW t \in Tickets
    PROVE  /\ ticket[t] \in Row /\ file[t] \in FileRow
           /\ store[t] \in SUBSET Revision /\ checked[t] \in SUBSET Revision
           /\ upload[t] \in 0 .. MaxFile /\ writes[t] \in 0 .. Writes
           /\ admitted[t] \in 0 .. MaxFile
BY TypedIsTypeOK DEF Typed

(* A step that leaves what a part is about alone leaves the part alone.    *)
LEMMA TicketFrame ==
    ASSUME NEW t \in Tickets, TicketSound(t),
           ticket'[t] = ticket[t], upload'[t] = upload[t], store'[t] = store[t],
           checked'[t] = checked[t], writes'[t] = writes[t]
    PROVE  TicketSound(t)'
BY DEF TicketSound

(* A ticket stays sound whatever is done to it: bytes come only to one that*)
(* was granted and has time left, and are counted against its bytes.       *)
LEMMA TicketSoundStep ==
    ASSUME TypeOK, Custody, AdmissionsApart, [Next]_vars, NEW u \in Tickets
    PROVE  TicketSound(u)'
<1> USE Numbers DEF rows, world, passes
<1>0. Typed /\ TicketSound(u) /\ FileSound(u)
  BY TypedIsTypeOK DEF Custody
<1>a. /\ ticket[u] \in Row /\ store[u] \in SUBSET Revision /\ checked[u] \in SUBSET Revision
      /\ upload[u] \in 0 .. MaxFile /\ writes[u] \in 0 .. Writes /\ admitted[u] \in 0 .. MaxFile
  BY RowTypes
<1>1. ASSUME NEW t \in Tickets, NEW b \in 1 .. MaxFile, admit(t, b)
      PROVE  TicketSound(u)'
  BY <1>1, <1>0, TicketFrame DEF admit
<1>2. ASSUME NEW t \in Tickets, NEW b \in 1 .. MaxFile, receiveUpload(t, b)
      PROVE  TicketSound(u)'
  BY <1>2, <1>0, <1>a DEF receiveUpload, TicketSound, Typed
<1>3. ASSUME NEW t \in Tickets, insertReservation(t)
      PROVE  TicketSound(u)'
  <2>1. CASE u # t
    BY <2>1, <1>3, <1>0, TicketFrame DEF insertReservation, Typed
  <2>2. CASE u = t
    <3>1. PICK status \in {"issued", "none"} :
            ticket' = [ticket EXCEPT
                ![t].status = status,
                ![t].bytes = IF status = "issued" THEN admitted[t] ELSE 0]
      BY <1>3 DEF insertReservation
    <3>2. /\ ticket'[u].status = status /\ ticket'[u].granted = ticket[u].granted
          /\ ticket'[u].age = ticket[u].age
          /\ ticket'[u].bytes = IF status = "issued" THEN admitted[u] ELSE 0
      BY <3>1, <2>2, <1>a, <1>0 DEF Typed, Row
    <3>3. ticket[u].status = "none" /\ admitted[u] > 0
      BY <1>3, <2>2 DEF AdmissionsApart, insertReservation
    <3>4. UNCHANGED <<store, upload, checked, writes>>
      BY <1>3 DEF insertReservation
    <3> QED
      BY <3>1, <3>2, <3>3, <3>4, <1>0, <1>a DEF TicketSound
  <2> QED
    BY <2>1, <2>2
<1>4. ASSUME NEW t \in Tickets, grantUpload(t)
      PROVE  TicketSound(u)'
  <2>1. CASE u # t
    BY <2>1, <1>4, <1>0, TicketFrame DEF grantUpload, Typed
  <2>2. CASE u = t
    <3>1. /\ ticket'[u].bytes = ticket[u].bytes /\ ticket'[u].age = ticket[u].age
          /\ \/ ticket'[u].granted /\ ticket'[u].status = "issued"
             \/ ~ticket'[u].granted /\ ticket'[u].status = "failed"
      BY <1>4, <2>2, <1>a, <1>0 DEF grantUpload, Typed, Row
    <3>2. /\ UNCHANGED <<store, upload, checked, writes>>
          /\ ~ticket[u].granted /\ ticket[u].status = "issued"
      BY <1>4, <2>2 DEF grantUpload
    <3> QED
      BY <3>1, <3>2, <1>0, <1>a DEF TicketSound
  <2> QED
    BY <2>1, <2>2
<1>5. ASSUME NEW t \in Tickets, install(t)
      PROVE  TicketSound(u)'
  <2>1. CASE u # t
    BY <2>1, <1>5, <1>0, TicketFrame DEF install, Typed
  <2>2. CASE u = t
    BY <2>2, <1>5, <1>0, <1>a DEF install, TicketSound, Typed
  <2> QED
    BY <2>1, <2>2
<1>6. ASSUME NEW t \in Tickets, statUpload(t)
      PROVE  TicketSound(u)'
  <2>1. CASE u # t
    BY <2>1, <1>6, <1>0, TicketFrame DEF statUpload, Typed
  <2>2. CASE u = t
    <3>1. checked'[u] = checked[u] \cup {Current(u)} /\ Current(u).size <= ticket[u].bytes
      BY <1>6, <2>2, <1>0 DEF statUpload, Typed
    <3>2. UNCHANGED <<ticket, store, upload, writes>> /\ store[u] # {}
      BY <1>6, <2>2 DEF statUpload
    <3> QED
      BY <3>1, <3>2, <1>0 DEF TicketSound
  <2> QED
    BY <2>1, <2>2
<1>7. ASSUME NEW t \in Tickets, completeUpload(t)
      PROVE  TicketSound(u)'
  <2>1. PICK r \in checked[t] : completeUpload(t)!(r)
    BY <1>7 DEF completeUpload
  <2>2. CASE u # t
    BY <2>1, <2>2, <1>0, TicketFrame DEF Typed
  <2>3. CASE u = t
    <3>1. checked'[u] = checked[u] \ {r} /\ UNCHANGED <<store, upload, writes>>
      BY <2>1, <2>3, <1>0 DEF Typed
    <3>2. \/ ticket' = ticket
          \/ ticket' = [ticket EXCEPT ![t].status = "completed"] /\ ticket[t].status = "issued"
      BY <2>1 DEF Takeable
    <3>3. /\ ticket'[u].bytes = ticket[u].bytes /\ ticket'[u].age = ticket[u].age
          /\ ticket'[u].granted = ticket[u].granted
          /\ ticket'[u].status = ticket[u].status \/ ticket'[u].status = "completed"
      BY <3>2, <2>3, <1>a, <1>0 DEF Typed, Row
    <3> QED
      BY <3>1, <3>3, <1>0 DEF TicketSound
  <2> QED
    BY <2>2, <2>3
<1>8. ASSUME NEW t \in Tickets, bind(t) \/ retire(t)
      PROVE  TicketSound(u)'
  BY <1>8, <1>0, TicketFrame DEF bind, retire
<1>9. ASSUME NEW s \in Sweepers, claimAbandonedReservations(s)
      PROVE  TicketSound(u)'
  <2>1. PICK S \in SUBSET {t \in Tickets : Abandoned(t)} :
             claimAbandonedReservations(s)!2!(S)
    BY <1>9 DEF claimAbandonedReservations
  <2>2. UNCHANGED <<store, upload, checked, writes>>
    BY <2>1
  <2>3. /\ ticket'[u].bytes = ticket[u].bytes /\ ticket'[u].age = ticket[u].age
        /\ ticket'[u].granted = ticket[u].granted /\ ticket'[u].status = ticket[u].status
    BY <2>1, <1>a DEF ClaimedBy, Row
  <2> QED
    BY <2>2, <2>3, <1>0 DEF TicketSound
<1>10. ASSUME NEW s \in Sweepers, claimStagedAttachments(s) \/ sweepDies(s)
       PROVE  TicketSound(u)'
  BY <1>10, <1>0, TicketFrame DEF claimStagedAttachments, sweepDies
<1>11. ASSUME NEW s \in Sweepers, removeObject(s)
       PROVE  TicketSound(u)'
  <2>1. store'[u] \subseteq store[u]
    <3>1. sweeper[s] # Idle /\ InTurn(s) \in Tickets
      BY <1>11, InTurnLeft DEF removeObject, Custody
    <3> QED
      BY <3>1, <1>11, <1>0 DEF removeObject, Typed
  <2> QED
    BY <2>1, <1>11, <1>0 DEF removeObject, TicketSound
<1>12. ASSUME NEW s \in Sweepers, writeOff(s)
       PROVE  TicketSound(u)'
  <2> DEFINE t == sweeper[s].gone
  <2>1. t \in Tickets /\ ticket[t].age = CleanupAge
    BY <1>12 DEF writeOff, Custody, ClaimSound, Seized, Typed, TypeOK, Idle
  <2>2. UNCHANGED <<store, upload, checked, writes>>
    BY <1>12 DEF writeOff
  <2>3. \/ ticket' = ticket
        \/ /\ ticket' = [ticket EXCEPT ![t].status = "expired", ![t].claim = None]
           /\ ticket[t].status = "issued"
    BY <1>12 DEF writeOff
  <2>4. /\ ticket'[u].bytes = ticket[u].bytes /\ ticket'[u].age = ticket[u].age
        /\ ticket'[u].granted = ticket[u].granted
        /\ \/ ticket'[u].status = ticket[u].status
           \/ ticket'[u].status = "expired" /\ ticket[u].age = CleanupAge
    BY <2>1, <2>3, <1>a, <1>0 DEF Typed, Row
  <2> QED
    BY <2>2, <2>4, <1>0 DEF TicketSound
<1>13. CASE listRevisions \/ factsForKeys \/ judgeRevisions \/ reconcileStops
  BY <1>13, <1>0, TicketFrame DEF listRevisions, factsForKeys, judgeRevisions, reconcileStops
<1>14. CASE removeRevision
  <2>1. store'[u] \subseteq store[u]
    BY <1>14, <1>0 DEF removeRevision, Typed
  <2> QED
    BY <2>1, <1>14, <1>0 DEF removeRevision, TicketSound
<1>15. CASE Tick
  <2>1. /\ ticket'[u].bytes = ticket[u].bytes /\ ticket'[u].status = ticket[u].status
        /\ ticket'[u].granted = ticket[u].granted
        /\ ticket[u].age = CleanupAge => ticket'[u].age = CleanupAge
    <3>1. ticket'[u] = IF ticket[u].status = "none" THEN ticket[u]
          ELSE [ticket[u] EXCEPT !.age = Min({@ + 1, CleanupAge}), !.claim = Older(@)]
      BY <1>15 DEF Tick
    <3>2. ticket[u].age \in Nat /\ ticket[u].age <= CleanupAge
      BY <1>a DEF Row
    <3>3. ticket[u].age = CleanupAge => Min({ticket[u].age + 1, CleanupAge}) = CleanupAge
      BY <3>2, CappedAge
    <3> QED
      BY <3>1, <3>3, <1>a DEF Row
  <2>2. upload'[u] = IF ticket'[u].age = CleanupAge THEN 0 ELSE upload[u]
    BY <1>15 DEF Tick
  <2>3. UNCHANGED <<store, checked, writes>>
    BY <1>15 DEF Tick
  <2> QED
    BY <2>1, <2>2, <2>3, <1>0, <1>a DEF TicketSound
<1>16. CASE UNCHANGED vars
  BY <1>16, <1>0, TicketFrame DEF vars
<1> QED
  BY <1>1, <1>2, <1>3, <1>4, <1>5, <1>6, <1>7, <1>8, <1>9, <1>10, <1>11, <1>12, <1>13, <1>14,
     <1>15, <1>16 DEF Next, SweeperStep, ReconcilerStep

(* The same for an attachment: its ticket may grow older.                  *)
LEMMA FileFrame ==
    ASSUME NEW t \in Tickets, FileSound(t), file'[t] = file[t],
           ticket'[t].age = ticket[t].age,
           ticket'[t].status = "completed" <=> ticket[t].status = "completed"
    PROVE  FileSound(t)'
BY DEF FileSound

(* An attachment is made only by its completion, and its age never         *)
(* overtakes its ticket's before the ticket's writes are over.             *)
LEMMA FileSoundStep ==
    ASSUME TypeOK, Custody, AdmissionsApart, [Next]_vars, NEW u \in Tickets
    PROVE  FileSound(u)'
<1> USE Numbers DEF rows, world, passes
<1>0. Typed /\ TicketSound(u) /\ FileSound(u)
  BY TypedIsTypeOK DEF Custody
<1>a. ticket[u] \in Row /\ file[u] \in FileRow /\ checked[u] \in SUBSET Revision
  BY RowTypes
<1>1. ASSUME NEW t \in Tickets, insertReservation(t)
      PROVE  FileSound(u)'
  <2>1. PICK status \in {"issued", "none"} :
          ticket' = [ticket EXCEPT
              ![t].status = status,
              ![t].bytes = IF status = "issued" THEN admitted[t] ELSE 0]
    BY <1>1 DEF insertReservation
  <2>2. ticket[t].status = "none"
    BY <1>1 DEF AdmissionsApart, insertReservation
  <2>3. /\ ticket'[u].age = ticket[u].age
        /\ ticket'[u].status = "completed" <=> ticket[u].status = "completed"
    BY <2>1, <2>2, <1>a, <1>0 DEF Typed, Row
  <2> QED
    BY <2>3, <1>1, <1>0, FileFrame DEF insertReservation
<1>2. ASSUME NEW t \in Tickets, grantUpload(t)
      PROVE  FileSound(u)'
  <2>1. /\ ticket'[u].age = ticket[u].age
        /\ ticket'[u].status = "completed" <=> ticket[u].status = "completed"
    <3>1. \/ ticket' = [ticket EXCEPT ![t].granted = TRUE]
          \/ ticket' = [ticket EXCEPT ![t].status = "failed"] /\ ticket[t].status = "issued"
      BY <1>2 DEF grantUpload
    <3>2. CASE ticket' = [ticket EXCEPT ![t].granted = TRUE]
      BY <3>2, <1>a, <1>0 DEF Typed, Row
    <3>3. CASE ticket' = [ticket EXCEPT ![t].status = "failed"] /\ ticket[t].status = "issued"
      BY <3>3, <1>a, <1>0 DEF Typed, Row
    <3> QED
      BY <3>1, <3>2, <3>3
  <2> QED
    BY <2>1, <1>2, <1>0, FileFrame DEF grantUpload
<1>3. ASSUME NEW t \in Tickets, completeUpload(t)
      PROVE  FileSound(u)'
  <2>1. PICK r \in checked[t] : completeUpload(t)!(r)
    BY <1>3 DEF completeUpload
  <2>2. CASE u # t \/ ~Takeable(t)
    BY <2>1, <2>2, <1>0, FileFrame DEF Typed
  <2>3. CASE u = t /\ Takeable(t)
    <3>1. /\ ticket'[u].status = "completed" /\ ticket'[u].age = ticket[u].age
          /\ file'[u].status = "staged" /\ file'[u].revision = r /\ file'[u].age = 0
      BY <2>1, <2>3, <1>a, <1>0 DEF Typed, Row
    <3>2. r \in Revision /\ ticket[u].age \in Nat
      BY <2>3, <1>a DEF Row
    <3> QED
      BY <3>1, <3>2 DEF FileSound
  <2> QED
    BY <2>2, <2>3
<1>4. ASSUME NEW t \in Tickets, bind(t) \/ retire(t)
      PROVE  FileSound(u)'
  <2>1. CASE u # t
    BY <2>1, <1>4, <1>0, FileFrame DEF bind, retire, Typed
  <2>2. CASE u = t
    <3>1. /\ file[u].status \in {"staged", "bound"} /\ file'[u].status \in {"bound", "retired"}
          /\ file'[u].revision = file[u].revision
      BY <1>4, <2>2, <1>a, <1>0 DEF bind, retire, Typed, FileRow
    <3>2. ticket' = ticket
      BY <1>4 DEF bind, retire
    <3> QED
      BY <3>1, <3>2, <1>0 DEF FileSound
  <2> QED
    BY <2>1, <2>2
<1>5. ASSUME NEW s \in Sweepers, claimAbandonedReservations(s)
      PROVE  FileSound(u)'
  <2>1. PICK S \in SUBSET {t \in Tickets : Abandoned(t)} :
             claimAbandonedReservations(s)!2!(S)
    BY <1>5 DEF claimAbandonedReservations
  <2>2. ticket'[u].age = ticket[u].age /\ ticket'[u].status = ticket[u].status
    BY <2>1, <1>a DEF ClaimedBy, Row
  <2> QED
    BY <2>1, <2>2, <1>0, FileFrame
<1>6. ASSUME NEW s \in Sweepers, claimStagedAttachments(s)
      PROVE  FileSound(u)'
  <2>1. PICK S \in SUBSET {t \in Tickets : Unkept(t)} :
             claimStagedAttachments(s)!2!(S)
    BY <1>6 DEF claimStagedAttachments
  <2>2. /\ file'[u].age = file[u].age /\ file'[u].status = file[u].status
        /\ file'[u].revision = file[u].revision
    BY <2>1, <1>a DEF ClaimedBy, FileRow
  <2>3. ticket' = ticket
    BY <2>1
  <2> QED
    BY <2>2, <2>3, <1>0 DEF FileSound
<1>7. ASSUME NEW s \in Sweepers, writeOff(s)
      PROVE  FileSound(u)'
  <2> DEFINE t == sweeper[s].gone
  <2>1. t \in Tickets /\ ticket[t].age = CleanupAge
    BY <1>7 DEF writeOff, Custody, ClaimSound, Seized, Typed, TypeOK, Idle
  <2>2. \/ ticket' = ticket
        \/ /\ ticket' = [ticket EXCEPT ![t].status = "expired", ![t].claim = None]
           /\ ticket[t].status = "issued"
    BY <1>7 DEF writeOff
  <2>3. /\ ticket'[u].age = ticket[u].age
        /\ ticket'[u].status = "completed" <=> ticket[u].status = "completed"
    BY <2>1, <2>2, <1>a, <1>0 DEF Typed, Row
  <2>4. \/ file' = file
        \/ /\ file' = [file EXCEPT ![t].status = "removed"]
           /\ file[t].status = "staged"
    BY <1>7 DEF writeOff
  <2>5. CASE file'[u] = file[u]
    BY <2>3, <2>5, <1>0, FileFrame
  <2>6. CASE file'[u] # file[u]
    <3>1. /\ u = t /\ file[u].status = "staged" /\ file'[u].status = "removed"
          /\ file'[u].revision = file[u].revision
      BY <2>1, <2>4, <2>6, <1>a, <1>0 DEF Typed, FileRow
    <3> QED
      BY <3>1, <2>1, <2>3, <1>0 DEF FileSound
  <2> QED
    BY <2>5, <2>6
<1>8. CASE Tick
  <2>1. /\ ticket'[u] = IF ticket[u].status = "none" THEN ticket[u]
             ELSE [ticket[u] EXCEPT !.age = Min({@ + 1, CleanupAge}), !.claim = Older(@)]
        /\ file'[u] = IF file[u].status # "staged" THEN file[u]
             ELSE [file[u] EXCEPT !.age = Min({@ + 1, StagedTtl + 1}), !.claim = Older(@)]
    BY <1>8 DEF Tick
  <2>2. /\ ticket[u].age \in Nat /\ ticket[u].age <= CleanupAge
        /\ file[u].age \in Nat /\ file[u].age <= StagedTtl + 1 /\ StagedTtl + 1 \in Nat
    BY <1>a DEF Row, FileRow
  <2>3. /\ Min({ticket[u].age + 1, CleanupAge})
              = IF ticket[u].age < CleanupAge THEN ticket[u].age + 1 ELSE CleanupAge
        /\ Min({file[u].age + 1, StagedTtl + 1})
              = IF file[u].age < StagedTtl + 1 THEN file[u].age + 1 ELSE StagedTtl + 1
    BY <2>2, CappedAge
  <2>4. /\ ticket'[u].status = ticket[u].status
        /\ ticket[u].status # "none" =>
             ticket'[u].age = IF ticket[u].age < CleanupAge THEN ticket[u].age + 1 ELSE CleanupAge
        /\ ticket[u].status = "none" => ticket'[u].age = ticket[u].age
    BY <2>1, <2>3, <1>a DEF Row
  <2>5. /\ file'[u].status = file[u].status /\ file'[u].revision = file[u].revision
        /\ file[u].status = "staged" => file'[u].age <= file[u].age + 1 /\ file'[u].age \in Nat
    BY <2>1, <2>2, <2>3, <1>a DEF FileRow
  <2> QED
    BY <2>2, <2>4, <2>5, <1>0 DEF FileSound
<1>9. CASE UNCHANGED <<ticket, file>>
  BY <1>9, <1>0, FileFrame
<1>10. CASE UNCHANGED vars
  BY <1>10, <1>0, FileFrame DEF vars
<1>11. ASSUME NEW t \in Tickets, NEW b \in 1 .. MaxFile, admit(t, b) \/ receiveUpload(t, b)
       PROVE  UNCHANGED <<ticket, file>>
  BY <1>11 DEF admit, receiveUpload
<1>12. ASSUME NEW t \in Tickets, install(t) \/ statUpload(t)
       PROVE  UNCHANGED <<ticket, file>>
  BY <1>12 DEF install, statUpload
<1>13. ASSUME NEW s \in Sweepers, removeObject(s) \/ sweepDies(s)
       PROVE  UNCHANGED <<ticket, file>>
  BY <1>13 DEF removeObject, sweepDies
<1>14. ASSUME ReconcilerStep \/ reconcileStops
       PROVE  UNCHANGED <<ticket, file>>
  BY <1>14 DEF ReconcilerStep, listRevisions, factsForKeys, judgeRevisions, removeRevision,
               reconcileStops
<1> QED
  BY <1>1, <1>2, <1>3, <1>4, <1>5, <1>6, <1>7, <1>8, <1>9, <1>10, <1>11, <1>12, <1>13, <1>14
  DEF Next, SweeperStep

(* A row once seized stays so, whatever the step.                          *)
LEMMA SeizedStays ==
    ASSUME TypeOK, Custody, AdmissionsApart, [Next]_vars, NEW u \in Tickets,
           NEW kind \in {"ticket", "file"}, Seized(u, kind)
    PROVE  Seized(u, kind)'
<1> USE Numbers DEF rows, world, passes
<1>0. Typed /\ TicketSound(u) /\ FileSound(u)
  BY TypedIsTypeOK DEF Custody
<1>a. ticket[u] \in Row /\ file[u] \in FileRow
  BY RowTypes
<1>1. ASSUME NEW t \in Tickets, insertReservation(t)
      PROVE  Seized(u, kind)'
  <2>1. ticket[t].status = "none"
    BY <1>1 DEF AdmissionsApart, insertReservation
  <2>2. CASE u = t
    <3>1. kind = "file" /\ file[u].status # "none"
      BY <2>1, <2>2 DEF Seized
    <3> QED
      BY <3>1, <2>1, <2>2, <1>0 DEF FileSound
  <2>3. CASE u # t
    <3>1. ticket'[u] = ticket[u] /\ file'[u] = file[u]
      BY <2>3, <1>1, <1>0 DEF insertReservation, Typed
    <3> QED
      BY <3>1 DEF Seized
  <2> QED
    BY <2>2, <2>3
<1>2. ASSUME NEW t \in Tickets, grantUpload(t)
      PROVE  Seized(u, kind)'
  <2>1. u # t
    BY <1>2 DEF grantUpload, Seized
  <2>2. ticket'[u] = ticket[u] /\ file'[u] = file[u]
    BY <2>1, <1>2, <1>0 DEF grantUpload, Typed
  <2> QED
    BY <2>2 DEF Seized
<1>3. ASSUME NEW t \in Tickets, completeUpload(t)
      PROVE  Seized(u, kind)'
  <2>1. PICK r \in checked[t] : completeUpload(t)!(r)
    BY <1>3 DEF completeUpload
  <2>2. ~(u = t /\ Takeable(t))
    BY <1>0 DEF Takeable, Seized, FileSound
  <2>3. ticket'[u] = ticket[u] /\ file'[u] = file[u]
    BY <2>1, <2>2, <1>0 DEF Typed
  <2> QED
    BY <2>3 DEF Seized
<1>4. ASSUME NEW t \in Tickets, bind(t) \/ retire(t)
      PROVE  Seized(u, kind)'
  <2>1. ticket' = ticket
    BY <1>4 DEF bind, retire
  <2>2. CASE kind = "file"
    <3>1. u # t
      BY <2>2, <1>4 DEF bind, retire, Seized
    <3>2. file'[u] = file[u]
      BY <3>1, <1>4, <1>0 DEF bind, retire, Typed
    <3> QED
      BY <2>1, <3>2 DEF Seized
  <2>3. CASE kind = "ticket"
    BY <2>1, <2>3 DEF Seized
  <2> QED
    BY <2>2, <2>3
<1>5. ASSUME NEW s \in Sweepers, claimAbandonedReservations(s)
      PROVE  Seized(u, kind)'
  <2>1. PICK S \in SUBSET {t \in Tickets : Abandoned(t)} :
             claimAbandonedReservations(s)!2!(S)
    BY <1>5 DEF claimAbandonedReservations
  <2>2. [by |-> s, age |-> 0] \in Claim
    BY DEF Claim
  <2>3. /\ ticket'[u].age = ticket[u].age /\ ticket'[u].status = ticket[u].status
        /\ ticket'[u].claim = ticket[u].claim \/ ticket'[u].claim = [by |-> s, age |-> 0]
    BY <2>1, <1>a DEF ClaimedBy, Row
  <2>4. file' = file
    BY <2>1
  <2> QED
    BY <2>2, <2>3, <2>4, NoneIsNoRow DEF Seized
<1>6. ASSUME NEW s \in Sweepers, claimStagedAttachments(s)
      PROVE  Seized(u, kind)'
  <2>1. PICK S \in SUBSET {t \in Tickets : Unkept(t)} :
             claimStagedAttachments(s)!2!(S)
    BY <1>6 DEF claimStagedAttachments
  <2>2. [by |-> s, age |-> 0] \in Claim
    BY DEF Claim
  <2>3. /\ file'[u].status = file[u].status
        /\ file'[u].claim = file[u].claim \/ file'[u].claim = [by |-> s, age |-> 0]
    BY <2>1, <1>a DEF ClaimedBy, FileRow
  <2>4. ticket' = ticket
    BY <2>1
  <2> QED
    BY <2>2, <2>3, <2>4, NoneIsNoRow DEF Seized
<1>7. ASSUME NEW s \in Sweepers, writeOff(s)
      PROVE  Seized(u, kind)'
  <2> DEFINE t == sweeper[s].gone
  <2>1. t \in Tickets
    BY <1>7 DEF writeOff, Custody, ClaimSound, Seized, Typed, TypeOK, Idle
  <2>2. \/ ticket' = ticket
        \/ /\ ticket' = [ticket EXCEPT ![t].status = "expired", ![t].claim = None]
           /\ ticket[t].status = "issued"
    BY <1>7 DEF writeOff
  <2>3. /\ ticket'[u].age = ticket[u].age
        /\ ticket'[u] = ticket[u] \/ ticket'[u].status = "expired"
    BY <2>1, <2>2, <1>a, <1>0 DEF Typed, Row
  <2>4. file' = file \/ file' = [file EXCEPT ![t].status = "removed"]
    BY <1>7 DEF writeOff
  <2>5. file'[u] = file[u] \/ file'[u].status = "removed"
    BY <2>1, <2>4, <1>a, <1>0 DEF Typed, FileRow
  <2> QED
    BY <2>3, <2>5 DEF Seized
<1>8. CASE Tick
  <2>1. /\ ticket'[u] = IF ticket[u].status = "none" THEN ticket[u]
             ELSE [ticket[u] EXCEPT !.age = Min({@ + 1, CleanupAge}), !.claim = Older(@)]
        /\ file'[u] = IF file[u].status # "staged" THEN file[u]
             ELSE [file[u] EXCEPT !.age = Min({@ + 1, StagedTtl + 1}), !.claim = Older(@)]
    BY <1>8 DEF Tick
  <2>2. Min({ticket[u].age + 1, CleanupAge}) = CleanupAge
    <3>1. ticket[u].age = CleanupAge /\ CleanupAge <= CleanupAge
      BY DEF Seized
    <3>2. Min({CleanupAge + 1, CleanupAge}) = CleanupAge
      BY <3>1, CappedAge
    <3> QED
      BY <3>1, <3>2
  <2>3. /\ Older(ticket[u].claim) = None <=> ticket[u].claim = None
        /\ Older(file[u].claim) = None <=> file[u].claim = None
    BY <1>a, OlderClaim DEF Row, FileRow
  <2>4. /\ ticket'[u].status = ticket[u].status /\ ticket'[u].age = CleanupAge
        /\ ticket'[u].claim = None <=> ticket[u].claim = None
    BY <2>1, <2>2, <2>3, <1>a DEF Row, Seized
  <2>5. /\ file'[u].status = file[u].status
        /\ file'[u].claim = None <=> file[u].claim = None
    BY <2>1, <2>3, <1>a DEF FileRow
  <2> QED
    BY <2>4, <2>5 DEF Seized
<1>9. CASE UNCHANGED <<ticket, file>>
  BY <1>9 DEF Seized
<1>10. CASE UNCHANGED vars
  BY <1>10 DEF vars, Seized
<1>11. ASSUME NEW t \in Tickets, NEW b \in 1 .. MaxFile, admit(t, b) \/ receiveUpload(t, b)
       PROVE  UNCHANGED <<ticket, file>>
  BY <1>11 DEF admit, receiveUpload
<1>12. ASSUME NEW t \in Tickets, install(t) \/ statUpload(t)
       PROVE  UNCHANGED <<ticket, file>>
  BY <1>12 DEF install, statUpload
<1>13. ASSUME NEW s \in Sweepers, removeObject(s) \/ sweepDies(s)
       PROVE  UNCHANGED <<ticket, file>>
  BY <1>13 DEF removeObject, sweepDies
<1>14. ASSUME ReconcilerStep \/ reconcileStops
       PROVE  UNCHANGED <<ticket, file>>
  BY <1>14 DEF ReconcilerStep, listRevisions, factsForKeys, judgeRevisions, removeRevision,
               reconcileStops
<1> QED
  BY <1>1, <1>2, <1>3, <1>4, <1>5, <1>6, <1>7, <1>8, <1>9, <1>10, <1>11, <1>12, <1>13, <1>14
  DEF Next, SweeperStep

(* Nothing comes to a key whose ticket is past its cleanupAfter.           *)
LEMMA NothingComesLate ==
    ASSUME TypeOK, Custody, [Next]_vars, NEW u \in Tickets, ticket[u].age = CleanupAge
    PROVE  store'[u] \subseteq store[u]
<1> USE DEF rows, world, passes
<1>0. Typed /\ TicketSound(u)
  BY TypedIsTypeOK DEF Custody
<1>1. ASSUME NEW t \in Tickets, install(t)
      PROVE  store'[u] = store[u]
  <2>1. u # t
    BY <1>1, <1>0 DEF install, TicketSound
  <2> QED
    BY <2>1, <1>1, <1>0 DEF install, Typed
<1>2. ASSUME NEW s \in Sweepers, removeObject(s)
      PROVE  store'[u] \subseteq store[u]
  <2>1. sweeper[s] # Idle /\ InTurn(s) \in Tickets
    BY <1>2, InTurnLeft DEF removeObject, Custody
  <2> QED
    BY <2>1, <1>2, <1>0 DEF removeObject, Typed
<1>3. CASE removeRevision
  BY <1>3, <1>0 DEF removeRevision, Typed
<1>4. ASSUME NEW t \in Tickets, NEW b \in 1 .. MaxFile, admit(t, b) \/ receiveUpload(t, b)
      PROVE  store' = store
  BY <1>4 DEF admit, receiveUpload
<1>5. ASSUME NEW t \in Tickets,
             \/ insertReservation(t) \/ grantUpload(t) \/ statUpload(t)
             \/ completeUpload(t) \/ bind(t) \/ retire(t)
      PROVE  store' = store
  BY <1>5 DEF insertReservation, grantUpload, statUpload, completeUpload, bind, retire
<1>6. ASSUME NEW s \in Sweepers,
             \/ claimAbandonedReservations(s) \/ claimStagedAttachments(s)
             \/ writeOff(s) \/ sweepDies(s)
      PROVE  store' = store
  BY <1>6 DEF claimAbandonedReservations, claimStagedAttachments, writeOff, sweepDies
<1>7. ASSUME listRevisions \/ factsForKeys \/ judgeRevisions \/ reconcileStops
      PROVE  store' = store
  BY <1>7 DEF listRevisions, factsForKeys, judgeRevisions, reconcileStops
<1>8. Tick => store' = store
  BY DEF Tick
<1>9. UNCHANGED vars => store' = store
  BY DEF vars
<1> QED
  BY <1>1, <1>2, <1>3, <1>4, <1>5, <1>6, <1>7, <1>8, <1>9 DEF Next, SweeperStep, ReconcilerStep

(* What one sweep has claimed stays claimed whatever anybody does, and a   *)
(* key it has emptied stays empty until it writes the row off.             *)
LEMMA ClaimFrame ==
    ASSUME TypeOK, Custody, AdmissionsApart, [Next]_vars, NEW s \in Sweepers,
           sweeper'[s] = sweeper[s]
    PROVE  ClaimSound(s)'
<1>1. CASE sweeper[s] = Idle
  BY <1>1 DEF ClaimSound, Idle
<1>2. CASE sweeper[s] # Idle
  <2> DEFINE kind == sweeper[s].kind
  <2>1. /\ kind \in {"ticket", "file"} /\ sweeper[s].left # {}
        /\ sweeper[s].gone # None => sweeper[s].gone \in sweeper[s].left
                                     /\ store[sweeper[s].gone] = {}
        /\ \A t \in sweeper[s].left : t \in Tickets /\ Seized(t, kind)
    BY <1>2 DEF Custody, ClaimSound, TypeOK
  <2>2. \A t \in sweeper[s].left : Seized(t, kind)'
    BY <2>1, SeizedStays
  <2>3. sweeper[s].gone # None => store'[sweeper[s].gone] = {}
    BY <2>1, NothingComesLate DEF Seized
  <2> QED
    BY <2>1, <2>2, <2>3 DEF ClaimSound, Seized
<1> QED
  BY <1>1, <1>2

(* A sweep that has claimed rows finds them as it left them, or settled.   *)
LEMMA ClaimSoundStep ==
    ASSUME TypeOK, Custody, AdmissionsApart, [Next]_vars, NEW u \in Sweepers
    PROVE  ClaimSound(u)'
<1> USE DEF rows, world, passes
<1>0. Typed /\ ClaimSound(u)
  BY TypedIsTypeOK DEF Custody
<1>1. CASE sweeper'[u] = sweeper[u]
  BY <1>1, ClaimFrame
<1>2. CASE sweeper'[u] = Idle
  BY <1>2 DEF ClaimSound
<1>3. ASSUME NEW s \in Sweepers, claimAbandonedReservations(s)
      PROVE  ClaimSound(u)'
  <2>1. PICK S \in SUBSET {t \in Tickets : Abandoned(t)} :
             claimAbandonedReservations(s)!2!(S)
    BY <1>3 DEF claimAbandonedReservations
  <2>2. CASE u = s
    <3>1. sweeper'[u] = [kind |-> "ticket", left |-> S, gone |-> None]
      BY <2>1, <2>2, <1>0 DEF Typed
    <3>2. [by |-> s, age |-> 0] \in Claim
      BY Numbers DEF Claim
    <3>3. ASSUME NEW t \in S PROVE Seized(t, "ticket")'
      <4>1. Abandoned(t) /\ t \in Tickets /\ ticket[t] \in Row
        BY <1>0 DEF Typed
      <4>2. ticket'[t] = [ticket[t] EXCEPT !.claim = [by |-> s, age |-> 0]]
        BY <2>1, <4>1 DEF ClaimedBy
      <4> QED
        BY <4>1, <4>2, <3>2, NoneIsNoRow DEF Seized, Abandoned, Row
    <3> QED
      BY <2>1, <3>1, <3>3 DEF ClaimSound
  <2>3. CASE u # s
    BY <2>1, <2>3, <1>0, ClaimFrame DEF Typed
  <2> QED
    BY <2>2, <2>3
<1>4. ASSUME NEW s \in Sweepers, claimStagedAttachments(s)
      PROVE  ClaimSound(u)'
  <2>1. PICK S \in SUBSET {t \in Tickets : Unkept(t)} :
             claimStagedAttachments(s)!2!(S)
    BY <1>4 DEF claimStagedAttachments
  <2>2. CASE u = s
    <3>1. sweeper'[u] = [kind |-> "file", left |-> S, gone |-> None]
      BY <2>1, <2>2, <1>0 DEF Typed
    <3>2. [by |-> s, age |-> 0] \in Claim
      BY Numbers DEF Claim
    <3>3. ASSUME NEW t \in S PROVE Seized(t, "file")'
      <4>1. Unkept(t) /\ t \in Tickets /\ file[t] \in FileRow /\ ticket[t] \in Row
        BY <1>0 DEF Typed
      <4>2. /\ file'[t] = [file[t] EXCEPT !.claim = [by |-> s, age |-> 0]]
            /\ ticket' = ticket
        BY <2>1, <4>1 DEF ClaimedBy
      <4>3. ticket[t].age = CleanupAge
        <5>1. FileSound(t) /\ file[t].status = "staged" /\ file[t].age > StagedTtl
          BY <4>1 DEF Unkept, Custody
        <5>2. ticket[t].age \in Nat /\ ticket[t].age <= CleanupAge /\ file[t].age \in Nat
          BY <4>1, Numbers DEF Row, FileRow
        <5> QED
          BY <5>1, <5>2, Numbers DEF FileSound
      <4> QED
        BY <4>1, <4>2, <4>3, <3>2, NoneIsNoRow DEF Seized, Unkept, FileRow
    <3> QED
      BY <2>1, <3>1, <3>3 DEF ClaimSound
  <2>3. CASE u # s
    BY <2>1, <2>3, <1>0, ClaimFrame DEF Typed
  <2> QED
    BY <2>2, <2>3
<1>5. ASSUME NEW s \in Sweepers, NEW S \in SUBSET sweeper[u].left, u = s, sweeper[s] # Idle,
             sweeper'[s] = Rest(s, S)
      PROVE  ClaimSound(u)'
  <2>1. CASE S = {}
    BY <2>1, <1>5 DEF ClaimSound, Rest
  <2>2. CASE S # {}
    <3>1. sweeper[u] \in Pass
      BY <1>0 DEF Typed
    <3>2. /\ sweeper'[u].kind = sweeper[u].kind /\ sweeper'[u].left = S
          /\ sweeper'[u].gone = None
      BY <2>2, <3>1, <1>5 DEF Rest, Pass
    <3>3. /\ sweeper[u].kind \in {"ticket", "file"}
          /\ \A t \in S : t \in Tickets /\ Seized(t, sweeper[u].kind)
      BY <3>1, <1>0, <1>5 DEF ClaimSound, Pass
    <3>4. PICK kind \in {"ticket", "file"} : kind = sweeper[u].kind
      BY <3>3
    <3>5. \A t \in S : Seized(t, kind)'
      BY <3>3, <3>4, SeizedStays
    <3> QED
      BY <2>2, <3>2, <3>4, <3>5 DEF ClaimSound, Seized
  <2> QED
    BY <2>1, <2>2
<1>6. ASSUME NEW s \in Sweepers, removeObject(s)
      PROVE  ClaimSound(u)'
  <2>1. CASE u # s
    BY <2>1, <1>6, <1>0, ClaimFrame DEF removeObject, Typed
  <2>2. CASE u = s
    <3> DEFINE t == InTurn(s)
    <3>1. sweeper[s] # Idle /\ t \in sweeper[s].left /\ t \in Tickets /\ sweeper[s] \in Pass
      BY <1>6, InTurnLeft DEF removeObject, Custody
    <3>2. CASE sweeper' = [sweeper EXCEPT ![s] = Rest(s, @.left \ {t})]
      <4>1. sweeper'[s] = Rest(s, sweeper[s].left \ {t})
        BY <3>2, <1>0 DEF Typed
      <4> QED
        BY <4>1, <3>1, <2>2, <1>5
    <3>3. CASE store' = [store EXCEPT ![t] = {}] /\ sweeper' = [sweeper EXCEPT ![s].gone = t]
      <4>1. /\ sweeper'[u].kind = sweeper[u].kind /\ sweeper'[u].left = sweeper[u].left
            /\ sweeper'[u].gone = t /\ store'[t] = {}
        BY <3>1, <3>3, <2>2, <1>0 DEF Typed, Pass
      <4>2. /\ sweeper[u].kind \in {"ticket", "file"}
            /\ \A q \in sweeper[u].left : q \in Tickets /\ Seized(q, sweeper[u].kind)
        BY <3>1, <2>2, <1>0 DEF ClaimSound, Pass
      <4>3. PICK kind \in {"ticket", "file"} : kind = sweeper[u].kind
        BY <4>2
      <4>4. \A q \in sweeper[u].left : Seized(q, kind)'
        BY <4>2, <4>3, SeizedStays
      <4> QED
        BY <4>1, <4>3, <4>4, <3>1, <2>2 DEF ClaimSound, Seized
    <3> QED
      BY <3>2, <3>3, <1>6 DEF removeObject
  <2> QED
    BY <2>1, <2>2
<1>7. ASSUME NEW s \in Sweepers, writeOff(s)
      PROVE  ClaimSound(u)'
  <2>1. CASE u # s
    BY <2>1, <1>7, <1>0, ClaimFrame DEF writeOff, Typed
  <2>2. CASE u = s
    <3>1. sweeper'[s] = Rest(s, sweeper[s].left \ {sweeper[s].gone})
      BY <1>7, <1>0 DEF writeOff, Typed
    <3>2. sweeper[s] # Idle
      BY <1>7 DEF writeOff, Idle
    <3> QED
      BY <3>1, <3>2, <2>2, <1>5
  <2> QED
    BY <2>1, <2>2
<1>8. ASSUME NEW s \in Sweepers, sweepDies(s)
      PROVE  ClaimSound(u)'
  BY <1>8, <1>0, <1>1, <1>2 DEF sweepDies, Typed
<1>9. ASSUME NEW t \in Tickets, NEW b \in 1 .. MaxFile, admit(t, b) \/ receiveUpload(t, b)
      PROVE  sweeper' = sweeper
  BY <1>9 DEF admit, receiveUpload
<1>10. ASSUME NEW t \in Tickets,
              \/ insertReservation(t) \/ grantUpload(t) \/ install(t) \/ statUpload(t)
              \/ completeUpload(t) \/ bind(t) \/ retire(t)
      PROVE  sweeper' = sweeper
  BY <1>10 DEF insertReservation, grantUpload, install, statUpload, completeUpload, bind, retire
<1>11. ASSUME ReconcilerStep \/ reconcileStops
       PROVE  sweeper' = sweeper
  BY <1>11 DEF ReconcilerStep, listRevisions, factsForKeys, judgeRevisions, removeRevision,
               reconcileStops
<1>12. Tick => sweeper' = sweeper
  BY DEF Tick
<1>13. UNCHANGED vars => sweeper' = sweeper
  BY DEF vars
<1> QED
  BY <1>1, <1>3, <1>4, <1>6, <1>7, <1>8, <1>9, <1>10, <1>11, <1>12, <1>13
  DEF Next, SweeperStep

(* Until the last of its page is removed, the reconciliation goes by what  *)
(* is still true, or what became true since is marked as raced.            *)
LEMMA PageSoundStep ==
    ASSUME TypeOK, Custody, AdmissionsApart, [Next]_vars
    PROVE  PageSound'
<1> USE Numbers DEF rows, world, passes
<1>0. Typed /\ PageSound /\ reconciler \in Page
  BY TypedIsTypeOK DEF Custody, Typed
<1>1. CASE listRevisions \/ reconcileStops
  <2>1. reconciler'.stage = "listed"
    BY <1>1 DEF listRevisions, reconcileStops, Resting
  <2> QED
    BY <2>1 DEF PageSound
<1>2. CASE factsForKeys
  <2> DEFINE t == reconciler.key
  <2>1. t \in Tickets /\ file[t] \in FileRow /\ FileSound(t) /\ file' = file
    BY <1>2, <1>0, RowTypes DEF factsForKeys, Page, Custody
  <2>2. /\ reconciler'.key = t /\ reconciler'.stage = "known"
        /\ reconciler'.own = IF file[t].status \in Held THEN file[t].revision ELSE None
    BY <1>2, <1>0 DEF factsForKeys, Page
  <2>3. file[t].status \in Held => file[t].revision \in Revision /\ file[t].status # "none"
    BY <2>1 DEF FileSound, Held
  <2> QED
    BY <2>1, <2>2, <2>3, NoneIsNoRow DEF PageSound
<1>3. CASE judgeRevisions
  <2> DEFINE t == reconciler.key
             seen == reconciler.own \in store[reconciler.key]
             doomed == revisionVerdict(reconciler.page, reconciler.own, seen)
  <2>1. file' = file
    BY <1>3 DEF judgeRevisions
  <2>2. CASE doomed = {}
    BY <2>2, <1>3 DEF judgeRevisions, PageSound, Resting
  <2>3. CASE doomed # {}
    <3>1. /\ reconciler'.key = t /\ reconciler'.stage = "judged"
          /\ reconciler'.own = reconciler.own /\ reconciler'.page = doomed
      BY <2>3, <1>3, <1>0 DEF judgeRevisions, Page
    <3>2. reconciler.own # None => reconciler.own \notin doomed
      BY DEF revisionVerdict
    <3>3. reconciler.stage = "known"
      BY <1>3 DEF judgeRevisions
    <3> HIDE DEF doomed
    <3> QED
      BY <2>1, <3>1, <3>2, <3>3, <1>0 DEF PageSound
  <2> QED
    BY <2>2, <2>3
<1>4. CASE removeRevision
  <2>1. PICK r \in reconciler.page :
          /\ reconciler' = IF reconciler.page = {r} THEN Resting
                           ELSE [reconciler EXCEPT !.page = @ \ {r}]
          /\ reconciler.stage = "judged" /\ file' = file
    BY <1>4 DEF removeRevision
  <2>2. CASE reconciler.page = {r}
    BY <2>1, <2>2 DEF PageSound, Resting
  <2>3. CASE reconciler.page # {r}
    <3>1. /\ reconciler'.key = reconciler.key /\ reconciler'.stage = "judged"
          /\ reconciler'.own = reconciler.own /\ reconciler'.page = reconciler.page \ {r}
      BY <2>1, <2>3, <1>0 DEF Page
    <3> QED
      BY <2>1, <3>1, <1>0 DEF PageSound
  <2> QED
    BY <2>2, <2>3
<1>5. ASSUME reconciler' = reconciler,
             \A t \in Tickets :
                /\ file[t].status # "none" => /\ file'[t].status # "none"
                                              /\ file'[t].revision = file[t].revision
                /\ file'[t].status \in Held =>
                     \/ file[t].status \in Held /\ file'[t].raced = file[t].raced
                     \/ RacedBy(t, file'[t].revision) = file'[t].raced
      PROVE  PageSound'
  <2>1. CASE reconciler.stage = "listed"
    BY <2>1, <1>5 DEF PageSound
  <2>2. CASE reconciler.stage # "listed"
    <3> DEFINE t == reconciler.key
    <3>1. t \in Tickets
      BY <2>2, <1>0 DEF PageSound
    <3>2. RacedBy(t, file'[t].revision)
      BY <2>2 DEF RacedBy
    <3>3. reconciler.own = None => (file'[t].status \in Held => file'[t].raced)
      BY <2>2, <3>1, <3>2, <1>0, <1>5 DEF PageSound
    <3>4. reconciler.own # None => file'[t].status # "none" /\ file'[t].revision = reconciler.own
      BY <2>2, <3>1, <1>0, <1>5 DEF PageSound
    <3> QED
      BY <2>2, <3>1, <3>3, <3>4, <1>0, <1>5 DEF PageSound
  <2> QED
    BY <2>1, <2>2
<1>6. CASE UNCHANGED <<reconciler, file>>
  BY <1>6, <1>0 DEF PageSound
<1>7. ASSUME NEW t \in Tickets, completeUpload(t)
      PROVE  PageSound'
  <2>1. PICK r \in checked[t] : completeUpload(t)!(r)
    BY <1>7 DEF completeUpload
  <2>2. CASE ~Takeable(t)
    BY <2>1, <2>2, <1>6
  <2>3. CASE Takeable(t)
    <3>1. /\ file'[t].status = "staged" /\ file'[t].revision = r
          /\ file'[t].raced = RacedBy(t, r) /\ file[t].status = "none"
          /\ \A u \in Tickets : u # t => file'[u] = file[u]
      BY <2>1, <2>3, <1>0 DEF Typed, Takeable, Custody, FileSound
    <3> QED
      BY <2>1, <3>1, <1>5
  <2> QED
    BY <2>2, <2>3
<1>8. ASSUME NEW t \in Tickets, bind(t) \/ retire(t)
      PROVE  PageSound'
  <2>1. \A u \in Tickets :
          /\ file[u].status # "none" <=> file'[u].status # "none"
          /\ file[u].status \in Held <=> file'[u].status \in Held
          /\ file'[u].revision = file[u].revision /\ file'[u].raced = file[u].raced
    <3> TAKE u \in Tickets
    <3>1. file[u] \in FileRow
      BY <1>0 DEF Typed
    <3>2. \/ file'[u] = file[u]
          \/ /\ file[u].status \in {"staged", "bound"} /\ file'[u].status \in {"bound", "retired"}
             /\ file'[u].revision = file[u].revision /\ file'[u].raced = file[u].raced
      BY <1>8, <1>0, <3>1 DEF bind, retire, Typed, FileRow
    <3> QED
      BY <3>2 DEF Held
  <2>2. reconciler' = reconciler
    BY <1>8 DEF bind, retire
  <2> QED
    BY <2>1, <2>2, <1>5
<1>9. ASSUME NEW s \in Sweepers, claimStagedAttachments(s)
      PROVE  PageSound'
  <2>1. PICK S \in SUBSET {t \in Tickets : Unkept(t)} :
             claimStagedAttachments(s)!2!(S)
    BY <1>9 DEF claimStagedAttachments
  <2>2. \A u \in Tickets : /\ file'[u].status = file[u].status
                            /\ file'[u].revision = file[u].revision
                            /\ file'[u].raced = file[u].raced
    BY <2>1, <1>0 DEF ClaimedBy, Typed, FileRow
  <2> QED
    BY <2>1, <2>2, <1>5
<1>10. ASSUME NEW s \in Sweepers, writeOff(s)
       PROVE  PageSound'
  <2> DEFINE t == sweeper[s].gone
  <2>1. \/ file' = file
        \/ t \in Tickets /\ file' = [file EXCEPT ![t].status = "removed"]
    BY <1>10, <1>0 DEF writeOff, Typed, Pass
  <2>2. \A u \in Tickets :
          /\ file'[u].revision = file[u].revision /\ file'[u].raced = file[u].raced
          /\ file'[u].status = file[u].status \/ file'[u].status = "removed"
    BY <2>1, <1>0 DEF Typed, FileRow
  <2>3. reconciler' = reconciler
    BY <1>10 DEF writeOff
  <2> QED
    BY <2>2, <2>3, <1>5 DEF Held
<1>11. CASE Tick
  <2>1. \A u \in Tickets : /\ file'[u].status = file[u].status
                            /\ file'[u].revision = file[u].revision
                            /\ file'[u].raced = file[u].raced
    <3> TAKE u \in Tickets
    <3>1. file[u] \in FileRow
      BY <1>0 DEF Typed
    <3>2. file'[u] = IF file[u].status # "staged" THEN file[u]
             ELSE [file[u] EXCEPT !.age = Min({@ + 1, StagedTtl + 1}), !.claim = Older(@)]
      BY <1>11 DEF Tick
    <3> QED
      BY <3>1, <3>2 DEF FileRow
  <2>2. reconciler' = reconciler
    BY <1>11 DEF Tick
  <2> QED
    BY <2>1, <2>2, <1>5
<1>12. ASSUME NEW t \in Tickets, NEW b \in 1 .. MaxFile, admit(t, b) \/ receiveUpload(t, b)
       PROVE  UNCHANGED <<reconciler, file>>
  BY <1>12 DEF admit, receiveUpload
<1>13. ASSUME NEW t \in Tickets,
              insertReservation(t) \/ grantUpload(t) \/ install(t) \/ statUpload(t)
       PROVE  UNCHANGED <<reconciler, file>>
  BY <1>13 DEF insertReservation, grantUpload, install, statUpload
<1>14. ASSUME NEW s \in Sweepers,
              claimAbandonedReservations(s) \/ removeObject(s) \/ sweepDies(s)
       PROVE  UNCHANGED <<reconciler, file>>
  BY <1>14 DEF claimAbandonedReservations, removeObject, sweepDies
<1>15. UNCHANGED vars => UNCHANGED <<reconciler, file>>
  BY DEF vars
<1> QED
  BY <1>1, <1>2, <1>3, <1>4, <1>6, <1>7, <1>8, <1>9, <1>10, <1>11, <1>12, <1>13, <1>14, <1>15
  DEF Next, SweeperStep, ReconcilerStep

(* Custody holds at first, and every step keeps it.                        *)
LEMMA CustodyInit == Init => Custody
<1> SUFFICES ASSUME Init PROVE Custody
  OBVIOUS
<1>1. \A t \in Tickets : TicketSound(t) /\ FileSound(t)
  BY Numbers DEF Init, Empty, Fresh, NoFile, TicketSound, FileSound
<1> QED
  BY <1>1 DEF Init, Empty, Custody, ClaimSound, PageSound, Resting

(* Every part of it is kept, so all of it is.                              *)
LEMMA CustodyStep == TypeOK /\ Custody /\ AdmissionsApart /\ [Next]_vars => Custody'
BY TicketSoundStep, FileSoundStep, ClaimSoundStep, PageSoundStep DEF Custody

(* Nobody has been admitted at first.                                      *)
LEMMA AdmissionsApartInit == Init => AdmissionsApart
BY DEF Init, Empty, AdmissionsApart

(* The lock of an admission is held until its ticket is inserted or rolled *)
(* back, and nobody else has it meanwhile.                                 *)
LEMMA AdmissionsApartStep == TypeOK /\ AdmissionsApart /\ [Next]_vars => AdmissionsApart'
<1> SUFFICES ASSUME TypeOK, AdmissionsApart, [Next]_vars PROVE AdmissionsApart'
  OBVIOUS
<1> USE DEF rows, world, passes
<1>0. Typed
  BY TypedIsTypeOK
<1>1. ASSUME admitted' = admitted, \A u \in Tickets : ticket[u].status = "none" =>
                                                        ticket'[u].status = "none"
      PROVE  AdmissionsApart'
  BY <1>1 DEF AdmissionsApart
<1>2. ASSUME NEW t \in Tickets, NEW b \in 1 .. MaxFile, admit(t, b)
      PROVE  AdmissionsApart'
  BY <1>2, <1>0 DEF admit, LockFree, AdmissionsApart, Typed
<1>3. ASSUME NEW t \in Tickets, insertReservation(t)
      PROVE  AdmissionsApart'
  <2>1. \A u \in Tickets : admitted'[u] = 0
    BY <1>3, <1>0 DEF insertReservation, AdmissionsApart, Typed
  <2> QED
    BY <2>1 DEF AdmissionsApart
<1>4. ASSUME NEW t \in Tickets, grantUpload(t)
      PROVE  AdmissionsApart'
  <2>1. /\ ticket[t].status = "issued" /\ admitted' = admitted
        /\ \A u \in Tickets : u # t => ticket'[u] = ticket[u]
    BY <1>4, <1>0 DEF grantUpload, Typed
  <2> QED
    BY <2>1, <1>1
<1>5. ASSUME NEW t \in Tickets, completeUpload(t)
      PROVE  AdmissionsApart'
  <2>1. PICK r \in checked[t] : completeUpload(t)!(r)
    BY <1>5 DEF completeUpload
  <2>2. \A u \in Tickets : ticket[u].status = "none" => ticket'[u] = ticket[u]
    BY <2>1, <1>0 DEF Typed, Takeable
  <2> QED
    BY <2>1, <2>2, <1>1
<1>6. ASSUME NEW s \in Sweepers, claimAbandonedReservations(s)
      PROVE  AdmissionsApart'
  <2>1. PICK S \in SUBSET {t \in Tickets : Abandoned(t)} :
             claimAbandonedReservations(s)!2!(S)
    BY <1>6 DEF claimAbandonedReservations
  <2>2. \A u \in Tickets : ticket[u].status = "none" => ticket'[u] = ticket[u]
    BY <2>1 DEF ClaimedBy, Abandoned
  <2> QED
    BY <2>1, <2>2, <1>1
<1>7. ASSUME NEW s \in Sweepers, writeOff(s)
      PROVE  AdmissionsApart'
  <2> DEFINE t == sweeper[s].gone
  <2>1. \/ ticket' = ticket
        \/ /\ ticket' = [ticket EXCEPT ![t].status = "expired", ![t].claim = None]
           /\ ticket[t].status = "issued"
    BY <1>7 DEF writeOff
  <2>2. \A u \in Tickets : ticket[u].status = "none" => ticket'[u] = ticket[u]
    BY <2>1, <1>0 DEF Typed
  <2>3. admitted' = admitted
    BY <1>7 DEF writeOff
  <2> QED
    BY <2>2, <2>3, <1>1
<1>8. CASE Tick
  <2>1. \A u \in Tickets : ticket[u].status = "none" => ticket'[u] = ticket[u]
    BY <1>8 DEF Tick
  <2>2. admitted' = admitted
    BY <1>8 DEF Tick
  <2> QED
    BY <2>1, <2>2, <1>1
<1>9. CASE UNCHANGED <<ticket, admitted>>
  BY <1>9, <1>1
<1>10. ASSUME NEW t \in Tickets, NEW b \in 1 .. MaxFile, receiveUpload(t, b)
       PROVE  UNCHANGED <<ticket, admitted>>
  BY <1>10 DEF receiveUpload
<1>11. ASSUME NEW t \in Tickets, install(t) \/ statUpload(t) \/ bind(t) \/ retire(t)
       PROVE  UNCHANGED <<ticket, admitted>>
  BY <1>11 DEF install, statUpload, bind, retire
<1>12. ASSUME NEW s \in Sweepers, claimStagedAttachments(s) \/ removeObject(s) \/ sweepDies(s)
       PROVE  UNCHANGED <<ticket, admitted>>
  BY <1>12 DEF claimStagedAttachments, removeObject, sweepDies
<1>13. ASSUME ReconcilerStep \/ reconcileStops
       PROVE  UNCHANGED <<ticket, admitted>>
  BY <1>13 DEF ReconcilerStep, listRevisions, factsForKeys, judgeRevisions, removeRevision,
               reconcileStops
<1>14. UNCHANGED vars => UNCHANGED <<ticket, admitted>>
  BY DEF vars
<1> QED
  BY <1>2, <1>3, <1>4, <1>5, <1>6, <1>7, <1>8, <1>9, <1>10, <1>11, <1>12, <1>13, <1>14
  DEF Next, SweeperStep

-----------------------------------------------------------------------------
(* Every row, revision, claim and page is of its type, whatever the        *)
(* quotas, ages and faults (db.ts:51).                                     *)
THEOREM TypeCorrect == Spec => []TypeOK
BY TypeInit, TypeStep, CustodyInit, CustodyStep, AdmissionsApartInit, AdmissionsApartStep, PTL
DEF Spec

(* What a sweep has claimed cannot be completed, bound or written any      *)
(* more; a reconciliation goes by what is still true of the key it is at;  *)
(* a key is written only for a granted ticket whose time is not over; and  *)
(* one admission runs at a time (cleanup.ts, service.ts, quota.ts).        *)
THEOREM CustodyInvariant == Spec => [](Custody /\ AdmissionsApart)
BY TypeInit, TypeStep, CustodyInit, CustodyStep, AdmissionsApartInit, AdmissionsApartStep, PTL
DEF Spec

-----------------------------------------------------------------------------
(***************************************************************************)
(* A kept attachment reads back.                                           *)
(***************************************************************************)
Reads(t) ==
    \/ file[t].status \notin Held
    \/ file[t].status = "staged" /\ file[t].claim # None
    \/ file[t].raced
    \/ file[t].revision \in store[t]

(* Whatever does not touch the row reads back as long as its revision is   *)
(* not taken out of the store.                                             *)
LEMMA ReadsFrame ==
    ASSUME NEW t \in Tickets, Reads(t),
           /\ file'[t].status = file[t].status /\ file'[t].raced = file[t].raced
           /\ file'[t].revision = file[t].revision
           /\ file[t].claim # None => file'[t].claim # None,
           file[t].revision \in store[t] => file[t].revision \in store'[t]
    PROVE  Reads(t)'
BY DEF Reads

(* No step takes a kept attachment's revision away: a sweep holds only rows*)
(* that cannot be kept any more, and the reconciliation spares the own.    *)
LEMMA KeptStep ==
    ASSUME TypeOK, Custody, KeptReadsBack, [Next]_vars, NEW u \in Tickets
    PROVE  Reads(u)'
<1> USE DEF rows, world, passes
<1>0. Typed /\ Reads(u) /\ FileSound(u) /\ TicketSound(u)
  BY TypedIsTypeOK DEF Custody, KeptReadsBack, Reads
<1>a. file[u] \in FileRow
  BY RowTypes
<1>1. ASSUME NEW t \in Tickets, install(t)
      PROVE  Reads(u)'
  <2>1. file' = file /\ store[u] \subseteq store'[u]
    BY <1>1, <1>0 DEF install, Typed
  <2> QED
    BY <2>1, <1>0, ReadsFrame
<1>2. ASSUME NEW t \in Tickets, completeUpload(t)
      PROVE  Reads(u)'
  <2>1. PICK r \in checked[t] : completeUpload(t)!(r)
    BY <1>2 DEF completeUpload
  <2>2. CASE u # t \/ ~Takeable(t)
    <3>1. file'[u] = file[u] /\ store' = store
      BY <2>1, <2>2, <1>0 DEF Typed
    <3> QED
      BY <3>1, <1>0, ReadsFrame
  <2>3. CASE u = t /\ Takeable(t)
    <3>1. /\ file'[u].revision = r /\ file'[u].raced = RacedBy(u, r) /\ store' = store
      BY <2>1, <2>3, <1>0 DEF Typed
    <3>2. RacedBy(u, r) \/ r \in store[u]
      BY DEF RacedBy
    <3> QED
      BY <3>1, <3>2 DEF Reads
  <2> QED
    BY <2>2, <2>3
<1>3. ASSUME NEW t \in Tickets, bind(t) \/ retire(t)
      PROVE  Reads(u)'
  <2>1. store' = store
    BY <1>3 DEF bind, retire
  <2>2. CASE u # t
    <3>1. file'[u] = file[u]
      BY <2>2, <1>3, <1>0 DEF bind, retire, Typed
    <3> QED
      BY <2>1, <3>1, <1>0, ReadsFrame
  <2>3. CASE u = t
    <3>1. /\ file[u].status = "bound" \/ (file[u].status = "staged" /\ file[u].claim = None)
          /\ file'[u].raced = file[u].raced /\ file'[u].revision = file[u].revision
      BY <1>3, <2>3, <1>a, <1>0 DEF bind, retire, Typed, FileRow
    <3> QED
      BY <2>1, <3>1, <1>0 DEF Reads, Held
  <2> QED
    BY <2>2, <2>3
<1>4. ASSUME NEW s \in Sweepers, claimStagedAttachments(s)
      PROVE  Reads(u)'
  <2>1. PICK S \in SUBSET {t \in Tickets : Unkept(t)} :
             claimStagedAttachments(s)!2!(S)
    BY <1>4 DEF claimStagedAttachments
  <2>2. [by |-> s, age |-> 0] # None
    BY NoneIsNoRow, Numbers DEF Claim
  <2>3. /\ file'[u].status = file[u].status /\ file'[u].raced = file[u].raced
        /\ file'[u].revision = file[u].revision
        /\ file'[u].claim = file[u].claim \/ file'[u].claim = [by |-> s, age |-> 0]
        /\ store' = store
    BY <2>1, <1>a DEF ClaimedBy, FileRow
  <2> QED
    BY <2>2, <2>3, <1>0, ReadsFrame
<1>5. ASSUME NEW s \in Sweepers, removeObject(s)
      PROVE  Reads(u)'
  <2> DEFINE t == InTurn(s)
  <2>1. sweeper[s] # Idle /\ t \in sweeper[s].left /\ t \in Tickets
    BY <1>5, InTurnLeft DEF removeObject, Custody
  <2>2. file' = file
    BY <1>5 DEF removeObject
  <2>3. CASE u # t
    <3>1. store'[u] = store[u]
      BY <2>1, <2>3, <1>5, <1>0 DEF removeObject, Typed
    <3> QED
      BY <2>2, <3>1, <1>0, ReadsFrame
  <2>4. CASE u = t
    <3>1. /\ sweeper[s].kind \in {"ticket", "file"}
          /\ Seized(u, sweeper[s].kind)
      BY <2>1, <2>4 DEF Custody, ClaimSound
    <3>2. file[u].status \notin Held \/ (file[u].status = "staged" /\ file[u].claim # None)
      <4>1. CASE sweeper[s].kind = "ticket"
        <5>1. ticket[u].status # "completed"
          BY <3>1, <4>1 DEF Seized
        <5> QED
          BY <5>1, <1>0 DEF FileSound, Held
      <4>2. CASE sweeper[s].kind = "file"
        BY <3>1, <4>2 DEF Seized, Held
      <4> QED
        BY <3>1, <4>1, <4>2
    <3> QED
      BY <2>2, <3>2 DEF Reads
  <2> QED
    BY <2>3, <2>4
<1>6. ASSUME NEW s \in Sweepers, writeOff(s)
      PROVE  Reads(u)'
  <2> DEFINE t == sweeper[s].gone
  <2>1. \/ file' = file
        \/ t \in Tickets /\ file' = [file EXCEPT ![t].status = "removed"]
    BY <1>6, <1>0 DEF writeOff, Typed, Pass
  <2>2. file'[u] = file[u] \/ file'[u].status = "removed"
    BY <2>1, <1>a, <1>0 DEF Typed, FileRow
  <2>3. store' = store
    BY <1>6 DEF writeOff
  <2> QED
    BY <2>2, <2>3, <1>0 DEF Reads, Held
<1>7. CASE removeRevision
  <2>1. PICK r \in reconciler.page :
          /\ store' = [store EXCEPT ![reconciler.key] = @ \ {r}]
          /\ reconciler.stage = "judged" /\ file' = file
    BY <1>7 DEF removeRevision
  <2>2. CASE u # reconciler.key
    <3>1. store'[u] = store[u]
      BY <2>1, <2>2, <1>0 DEF Typed
    <3> QED
      BY <2>1, <3>1, <1>0, ReadsFrame
  <2>3. CASE u = reconciler.key
    <3>1. store'[u] = store[u] \ {r}
      BY <2>1, <2>3, <1>0 DEF Typed
    <3>2. \/ file[u].status \in Held => file[u].raced
          \/ file[u].revision \notin reconciler.page
      BY <2>1, <2>3 DEF Custody, PageSound
    <3> QED
      BY <2>1, <3>1, <3>2, <1>0 DEF Reads
  <2> QED
    BY <2>2, <2>3
<1>8. CASE Tick
  <2>1. file'[u] = IF file[u].status # "staged" THEN file[u]
           ELSE [file[u] EXCEPT !.age = Min({@ + 1, StagedTtl + 1}), !.claim = Older(@)]
    BY <1>8 DEF Tick
  <2>2. Older(file[u].claim) = None <=> file[u].claim = None
    BY <1>a, OlderClaim DEF FileRow
  <2>3. /\ file'[u].status = file[u].status /\ file'[u].raced = file[u].raced
        /\ file'[u].revision = file[u].revision
        /\ file[u].claim # None => file'[u].claim # None
    BY <2>1, <2>2, <1>a DEF FileRow
  <2>4. store' = store
    BY <1>8 DEF Tick
  <2> QED
    BY <2>3, <2>4, <1>0, ReadsFrame
<1>9. CASE UNCHANGED <<file, store>>
  BY <1>9, <1>0, ReadsFrame
<1>10. ASSUME NEW t \in Tickets, NEW b \in 1 .. MaxFile, admit(t, b) \/ receiveUpload(t, b)
       PROVE  UNCHANGED <<file, store>>
  BY <1>10 DEF admit, receiveUpload
<1>11. ASSUME NEW t \in Tickets, insertReservation(t) \/ grantUpload(t) \/ statUpload(t)
       PROVE  UNCHANGED <<file, store>>
  BY <1>11 DEF insertReservation, grantUpload, statUpload
<1>12. ASSUME NEW s \in Sweepers, claimAbandonedReservations(s) \/ sweepDies(s)
       PROVE  UNCHANGED <<file, store>>
  BY <1>12 DEF claimAbandonedReservations, sweepDies
<1>13. ASSUME listRevisions \/ factsForKeys \/ judgeRevisions \/ reconcileStops
       PROVE  UNCHANGED <<file, store>>
  BY <1>13 DEF listRevisions, factsForKeys, judgeRevisions, reconcileStops
<1>14. UNCHANGED vars => UNCHANGED <<file, store>>
  BY DEF vars
<1> QED
  BY <1>1, <1>2, <1>3, <1>4, <1>5, <1>6, <1>7, <1>8, <1>9, <1>10, <1>11, <1>12, <1>13, <1>14
  DEF Next, SweeperStep, ReconcilerStep

(* However sweeps whose leases ran out, reconciliations and completions    *)
(* interleave, an attachment somebody may still read has the revision that *)
(* was checked when it completed, unless it completed while the            *)
(* reconciliation was at its key (backend.ts:13).                          *)
THEOREM KeptAlwaysReadsBack == Spec => []KeptReadsBack
<1>1. Init => KeptReadsBack
  BY DEF Init, Empty, NoFile, KeptReadsBack, Held
<1>2. TypeOK /\ Custody /\ KeptReadsBack /\ [Next]_vars => KeptReadsBack'
  BY KeptStep DEF KeptReadsBack, Reads
<1> QED
  BY <1>1, <1>2, TypeCorrect, CustodyInvariant, PTL DEF Spec

-----------------------------------------------------------------------------
(***************************************************************************)
(* The quotas are never oversold.                                          *)
(*                                                                         *)
(* That the sums are within the limits is not inductive: an admission has  *)
(* looked at them some time before its ticket is inserted.  What every     *)
(* step keeps is that the room it found is still there (RoomKept), because *)
(* nobody else is admitted meanwhile and whatever else happens frees room. *)
(***************************************************************************)

(* HasRoom, of any three columns.                                          *)
Room(r, s, h, t, b) ==
    LET own == OfOwner(Owner[t])
    IN /\ SumOf(r, own) + b <= ReservedRoom
       /\ SumOf(s, own) + SumOf(r, own) + b <= StagedRoom
       /\ SumOf(h, own) + SumOf(r, own) + b <= StoredRoom
       /\ SumOf(h, Tickets) + SumOf(r, Tickets) + b <= TenantRoom

(* The two say the same, of a state and of the one after it.               *)
LEMMA HasRoomIsRoom ==
    ASSUME NEW t \in Tickets, NEW b
    PROVE  /\ HasRoom(t, b) <=> Room(Reserved, Staged, Stored, t, b)
           /\ HasRoom(t, b)' <=> Room(Reserved', Staged', Stored', t, b')
BY DEF HasRoom, Room

(* An owner's tickets are finitely many.                                   *)
LEMMA OwnFinite ==
    ASSUME NEW o
    PROVE  OfOwner(o) \in SUBSET Tickets /\ IsFiniteSet(OfOwner(o)) /\ IsFiniteSet(Tickets)
BY StorageConstants, FS_Subset DEF OfOwner

(* Less in every row, less in the sum: of one column, and of two.          *)
LEMMA SumsShrink ==
    ASSUME NEW r \in [Tickets -> Nat], NEW h \in [Tickets -> Nat],
           NEW r2 \in [Tickets -> Nat], NEW h2 \in [Tickets -> Nat],
           NEW T \in SUBSET Tickets, IsFiniteSet(T),
           \A t \in Tickets : r2[t] + h2[t] <= r[t] + h[t]
    PROVE  /\ SumOf(r, T) \in Nat /\ SumOf(h, T) \in Nat
           /\ SumOf(r2, T) \in Nat /\ SumOf(h2, T) \in Nat
           /\ SumOf(h2, T) + SumOf(r2, T) <= SumOf(h, T) + SumOf(r, T)
<1> DEFINE c == [t \in Tickets |-> r[t] + h[t]]
           c2 == [t \in Tickets |-> r2[t] + h2[t]]
<1>1. /\ SumOf(r, T) \in Nat /\ SumOf(h, T) \in Nat
      /\ SumOf(r2, T) \in Nat /\ SumOf(h2, T) \in Nat
  BY SumNat
<1>2. /\ \A t \in T : r[t] \in Nat /\ h[t] \in Nat /\ c[t] = r[t] + h[t] /\ c[t] \in Nat
      /\ \A t \in T : r2[t] \in Nat /\ h2[t] \in Nat /\ c2[t] = r2[t] + h2[t] /\ c2[t] \in Nat
      /\ \A t \in T : c2[t] <= c[t]
  OBVIOUS
<1> HIDE DEF c, c2
<1>3. SumOf(c, T) = SumOf(r, T) + SumOf(h, T) /\ SumOf(c2, T) = SumOf(r2, T) + SumOf(h2, T)
  BY <1>2, SumOfBoth
<1>4. SumOf(c2, T) <= SumOf(c, T)
  BY <1>2, SumAtMost
<1> QED
  BY <1>1, <1>3, <1>4

(* Room is not lost where rows come to hold less.                          *)
LEMMA RoomIsFreed ==
    ASSUME NEW r \in [Tickets -> Nat], NEW s \in [Tickets -> Nat], NEW h \in [Tickets -> Nat],
           NEW r2 \in [Tickets -> Nat], NEW s2 \in [Tickets -> Nat], NEW h2 \in [Tickets -> Nat],
           NEW t \in Tickets, NEW b \in Nat, Room(r, s, h, t, b),
           \A u \in Tickets : /\ r2[u] <= r[u]
                              /\ r2[u] + s2[u] <= r[u] + s[u]
                              /\ r2[u] + h2[u] <= r[u] + h[u]
    PROVE  Room(r2, s2, h2, t, b)
<1> DEFINE own == OfOwner(Owner[t])
<1>1. own \in SUBSET Tickets /\ IsFiniteSet(own) /\ IsFiniteSet(Tickets)
  BY OwnFinite
<1> HIDE DEF own
<1>2. /\ SumOf(r, own) \in Nat /\ SumOf(h, own) \in Nat
      /\ SumOf(r2, own) \in Nat /\ SumOf(h2, own) \in Nat
      /\ SumOf(h2, own) + SumOf(r2, own) <= SumOf(h, own) + SumOf(r, own)
  BY <1>1, SumsShrink
<1>3. /\ SumOf(s, own) \in Nat /\ SumOf(s2, own) \in Nat
      /\ SumOf(s2, own) + SumOf(r2, own) <= SumOf(s, own) + SumOf(r, own)
  BY <1>1, SumsShrink
<1>4. /\ SumOf(r, Tickets) \in Nat /\ SumOf(h, Tickets) \in Nat
      /\ SumOf(r2, Tickets) \in Nat /\ SumOf(h2, Tickets) \in Nat
      /\ SumOf(h2, Tickets) + SumOf(r2, Tickets) <= SumOf(h, Tickets) + SumOf(r, Tickets)
  BY <1>1, SumsShrink
<1>5. SumOf(r2, own) <= SumOf(r, own)
  BY <1>1, SumAtMost
<1>6. /\ SumOf(r, own) + b <= ReservedRoom
      /\ SumOf(s, own) + SumOf(r, own) + b <= StagedRoom
      /\ SumOf(h, own) + SumOf(r, own) + b <= StoredRoom
      /\ SumOf(h, Tickets) + SumOf(r, Tickets) + b <= TenantRoom
  BY DEF Room, own
<1>7. /\ SumOf(r2, own) + b <= ReservedRoom
      /\ SumOf(s2, own) + SumOf(r2, own) + b <= StagedRoom
      /\ SumOf(h2, own) + SumOf(r2, own) + b <= StoredRoom
  BY <1>2, <1>3, <1>5, <1>6, Numbers
<1>8. SumOf(h2, Tickets) + SumOf(r2, Tickets) + b <= TenantRoom
  BY <1>4, <1>6, Numbers
<1> QED
  BY <1>7, <1>8 DEF Room, own

(* Room that was found is what a new reservation takes, and no more.       *)
LEMMA RoomIsTaken ==
    ASSUME NEW r \in [Tickets -> Nat], NEW s \in [Tickets -> Nat], NEW h \in [Tickets -> Nat],
           NEW r2 \in [Tickets -> Nat],
           NEW t \in Tickets, NEW b \in Nat, Room(r, s, h, t, b), r[t] = 0, r2[t] = b,
           \A u \in Tickets \ {t} : r2[u] = r[u],
           NEW u \in Tickets, Room(r, s, h, u, 0)
    PROVE  Room(r2, s, h, u, 0)
<1> DEFINE own == OfOwner(Owner[u])
<1>1. own \in SUBSET Tickets /\ IsFiniteSet(own) /\ IsFiniteSet(Tickets)
  BY OwnFinite
<1>2. t \in own <=> own = OfOwner(Owner[t])
  BY DEF OfOwner
<1> HIDE DEF own
<1>3. /\ SumOf(r, own) \in Nat /\ SumOf(s, own) \in Nat /\ SumOf(h, own) \in Nat
      /\ SumOf(r2, own) \in Nat
      /\ SumOf(r, Tickets) \in Nat /\ SumOf(h, Tickets) \in Nat /\ SumOf(r2, Tickets) \in Nat
  BY <1>1, SumNat
<1>4. SumOf(r2, Tickets) + r[t] = SumOf(r, Tickets) + r2[t]
  BY <1>1, SumChange
<1>5. SumOf(h, Tickets) + SumOf(r2, Tickets) <= TenantRoom
  <2>1. SumOf(h, Tickets) + SumOf(r, Tickets) + b <= TenantRoom
    BY DEF Room
  <2> QED
    BY <1>3, <1>4, <2>1, Numbers
<1>6. CASE t \in own
  <2>1. SumOf(r2, own) + r[t] = SumOf(r, own) + r2[t]
    BY <1>1, <1>6, SumChange
  <2>2. /\ SumOf(r, own) + b <= ReservedRoom
        /\ SumOf(s, own) + SumOf(r, own) + b <= StagedRoom
        /\ SumOf(h, own) + SumOf(r, own) + b <= StoredRoom
    BY <1>2, <1>6 DEF Room
  <2>3. /\ SumOf(r2, own) + 0 <= ReservedRoom
        /\ SumOf(s, own) + SumOf(r2, own) + 0 <= StagedRoom
        /\ SumOf(h, own) + SumOf(r2, own) + 0 <= StoredRoom
        /\ SumOf(h, Tickets) + SumOf(r2, Tickets) + 0 <= TenantRoom
    BY <1>3, <1>5, <2>1, <2>2, Numbers
  <2> QED
    BY <2>3 DEF Room, own
<1>7. CASE t \notin own
  <2>1. SumOf(r2, own) = SumOf(r, own)
    BY <1>1, <1>7, SumSame
  <2>2. /\ SumOf(r, own) + 0 <= ReservedRoom
        /\ SumOf(s, own) + SumOf(r, own) + 0 <= StagedRoom
        /\ SumOf(h, own) + SumOf(r, own) + 0 <= StoredRoom
    BY DEF Room, own
  <2>3. SumOf(h, Tickets) + SumOf(r2, Tickets) + 0 <= TenantRoom
    BY <1>3, <1>5
  <2> QED
    BY <2>1, <2>2, <2>3 DEF Room, own
<1> QED
  BY <1>6, <1>7

(* A ticket's three columns are counted in natural numbers.                *)
LEMMA UsageTypes ==
    TypeOK /\ Custody => /\ Reserved \in [Tickets -> Nat] /\ Staged \in [Tickets -> Nat]
                         /\ Stored \in [Tickets -> Nat]
<1> SUFFICES ASSUME TypeOK, Custody
             PROVE  /\ Reserved \in [Tickets -> Nat] /\ Staged \in [Tickets -> Nat]
                    /\ Stored \in [Tickets -> Nat]
  OBVIOUS
<1>1. \A t \in Tickets : ticket[t].bytes \in Nat
  BY RowTypes DEF Row
<1>2. \A t \in Tickets : file[t].status # "none" => file[t].revision.size \in Nat
  BY DEF Custody, FileSound, Revision
<1> QED
  BY <1>1, <1>2 DEF Reserved, Staged, Stored, Held

(* What a step does to the three columns: nothing, or less is staged;      *)
(* a charge is given back, once the key is empty; a reservation becomes    *)
(* the size of what was stored; a reservation is made.                     *)
Keeps ==
    /\ Reserved' = Reserved /\ Stored' = Stored
    /\ \A u \in Tickets : Staged'[u] <= Staged[u]

GivesBack(t) ==
    /\ Reserved' = [Reserved EXCEPT ![t] = 0]
    /\ Staged' = [Staged EXCEPT ![t] = 0]
    /\ Stored' = [Stored EXCEPT ![t] = 0]
    /\ Reserved[t] + Stored[t] > 0 /\ store[t] = {}

Settles(t) ==
    \E size \in 1 .. MaxFile :
        /\ size <= Reserved[t] /\ Staged[t] = 0 /\ Stored[t] = 0
        /\ Reserved' = [Reserved EXCEPT ![t] = 0]
        /\ Staged' = [Staged EXCEPT ![t] = size]
        /\ Stored' = [Stored EXCEPT ![t] = size]

Takes(t) ==
    /\ admitted[t] \in 1 .. MaxFile
    /\ Reserved[t] = 0 /\ Stored[t] = 0 /\ store[t] = {}
    /\ Reserved' = [Reserved EXCEPT ![t] = admitted[t]]
    /\ UNCHANGED <<Staged, Stored>>

(* The columns of a row that says the same say the same.                   *)
LEMMA SameRow ==
    ASSUME NEW u \in Tickets,
           ticket'[u].status = ticket[u].status, ticket'[u].bytes = ticket[u].bytes,
           file'[u].status = file[u].status, file'[u].revision = file[u].revision
    PROVE  /\ Reserved'[u] = Reserved[u] /\ Staged'[u] = Staged[u] /\ Stored'[u] = Stored[u]
BY DEF Reserved, Staged, Stored

(* Steps that leave what rows say alone keep the columns.                  *)
LEMMA SameRows ==
    ASSUME TypeOK, Custody,
           \A u \in Tickets :
              /\ ticket'[u].status = ticket[u].status /\ ticket'[u].bytes = ticket[u].bytes
              /\ file'[u].status = file[u].status /\ file'[u].revision = file[u].revision
    PROVE  Keeps
<1>1. \A u \in Tickets :
         /\ Reserved'[u] = Reserved[u] /\ Staged'[u] = Staged[u] /\ Stored'[u] = Stored[u]
  BY SameRow
<1>2. \A u \in Tickets : Staged[u] \in Nat
  BY UsageTypes
<1>3. /\ Reserved = [t \in Tickets |-> Reserved[t]] /\ Reserved' = [t \in Tickets |-> Reserved'[t]]
      /\ Stored = [t \in Tickets |-> Stored[t]] /\ Stored' = [t \in Tickets |-> Stored'[t]]
  BY DEF Reserved, Stored
<1> QED
  BY <1>1, <1>2, <1>3 DEF Keeps

(* One row's columns change, and the others' do not.                       *)
LEMMA OneRow ==
    ASSUME NEW t \in Tickets,
           \A u \in Tickets \ {t} : ticket'[u] = ticket[u] /\ file'[u] = file[u]
    PROVE  /\ Reserved' = [Reserved EXCEPT ![t] = Reserved'[t]]
           /\ Staged' = [Staged EXCEPT ![t] = Staged'[t]]
           /\ Stored' = [Stored EXCEPT ![t] = Stored'[t]]
<1>1. \A u \in Tickets \ {t} :
         /\ Reserved'[u] = Reserved[u] /\ Staged'[u] = Staged[u] /\ Stored'[u] = Stored[u]
  BY SameRow
<1>2. /\ DOMAIN Reserved = Tickets /\ Reserved' = [u \in Tickets |-> Reserved'[u]]
      /\ DOMAIN Staged = Tickets /\ Staged' = [u \in Tickets |-> Staged'[u]]
      /\ DOMAIN Stored = Tickets /\ Stored' = [u \in Tickets |-> Stored'[u]]
  BY DEF Reserved, Staged, Stored
<1> QED
  BY <1>1, <1>2

(* Every step keeps the columns or does one of the three to one row, and   *)
(* then leaves the store alone.                                            *)
LEMMA UsageStep ==
    ASSUME TypeOK, Custody, AdmissionsApart, [Next]_vars
    PROVE  \/ Keeps
           \/ \E t \in Tickets : /\ GivesBack(t) \/ Settles(t) \/ (insertReservation(t) /\ Takes(t))
                                 /\ store' = store
<1> USE Numbers DEF rows, world, passes
<1>0. Typed
  BY TypedIsTypeOK
<1>a. \A t \in Tickets :
         /\ ticket[t] \in Row /\ file[t] \in FileRow /\ TicketSound(t) /\ FileSound(t)
         /\ Reserved[t] \in Nat /\ Staged[t] \in Nat /\ Stored[t] \in Nat
  BY RowTypes, UsageTypes DEF Custody
<1>1. ASSUME NEW t \in Tickets, insertReservation(t)
      PROVE  Keeps \/ (Takes(t) /\ store' = store)
  <2>1. PICK status \in {"issued", "none"} :
          ticket' = [ticket EXCEPT
              ![t].status = status,
              ![t].bytes = IF status = "issued" THEN admitted[t] ELSE 0]
    BY <1>1 DEF insertReservation
  <2>2. /\ ticket[t].status = "none" /\ file[t].status = "none" /\ file' = file
        /\ store[t] = {} /\ store' = store /\ admitted[t] \in 1 .. MaxFile
    BY <1>1, <1>a, <1>0 DEF AdmissionsApart, insertReservation, TicketSound, FileSound, Typed
  <2>3. /\ ticket'[t].status = status
        /\ ticket'[t].bytes = IF status = "issued" THEN admitted[t] ELSE 0
        /\ \A u \in Tickets \ {t} : ticket'[u] = ticket[u] /\ file'[u] = file[u]
    BY <2>1, <2>2, <1>a, <1>0 DEF Typed, Row
  <2>4. /\ Reserved[t] = 0 /\ Stored[t] = 0
        /\ Staged'[t] = Staged[t] /\ Stored'[t] = Stored[t]
        /\ Reserved'[t] = IF status = "issued" THEN admitted[t] ELSE 0
    BY <2>2, <2>3 DEF Reserved, Staged, Stored, Held
  <2>5. /\ Reserved' = [Reserved EXCEPT ![t] = Reserved'[t]]
        /\ Staged' = [Staged EXCEPT ![t] = Staged'[t]]
        /\ Stored' = [Stored EXCEPT ![t] = Stored'[t]]
    BY <2>3, OneRow
  <2>6. /\ Reserved = [Reserved EXCEPT ![t] = Reserved[t]]
        /\ Staged = [Staged EXCEPT ![t] = Staged[t]]
        /\ Stored = [Stored EXCEPT ![t] = Stored[t]]
    BY DEF Reserved, Staged, Stored
  <2>7. CASE status = "issued"
    BY <2>2, <2>4, <2>5, <2>6, <2>7 DEF Takes
  <2>8. CASE status = "none"
    BY <2>4, <2>5, <2>6, <2>8, <1>a DEF Keeps
  <2> QED
    BY <2>7, <2>8
<1>2. ASSUME NEW t \in Tickets, grantUpload(t)
      PROVE  Keeps \/ (GivesBack(t) /\ store' = store)
  <2>1. file' = file /\ store' = store /\ ticket[t].status = "issued" /\ ~ticket[t].granted
    BY <1>2 DEF grantUpload
  <2>2. CASE ticket' = [ticket EXCEPT ![t].granted = TRUE]
    <3>1. \A u \in Tickets : ticket'[u].status = ticket[u].status /\ ticket'[u].bytes = ticket[u].bytes
      BY <2>2, <1>a, <1>0 DEF Typed, Row
    <3> QED
      BY <2>1, <3>1, SameRows
  <2>3. CASE ticket' = [ticket EXCEPT ![t].status = "failed"]
    <3>1. /\ ticket'[t].status = "failed"
          /\ \A u \in Tickets \ {t} : ticket'[u] = ticket[u] /\ file'[u] = file[u]
      BY <2>1, <2>3, <1>a, <1>0 DEF Typed, Row
    <3>2. ticket[t].bytes > 0 /\ store[t] = {} /\ file[t].status = "none"
      BY <2>1, <1>a DEF TicketSound, FileSound
    <3>3. /\ Reserved'[t] = 0 /\ Reserved[t] > 0
          /\ Staged'[t] = 0 /\ Stored'[t] = 0 /\ Stored[t] = 0
      BY <2>1, <3>1, <3>2 DEF Reserved, Staged, Stored, Held
    <3>4. /\ Reserved' = [Reserved EXCEPT ![t] = 0]
          /\ Staged' = [Staged EXCEPT ![t] = 0] /\ Stored' = [Stored EXCEPT ![t] = 0]
      BY <3>1, <3>3, OneRow
    <3> QED
      BY <2>1, <3>2, <3>3, <3>4, <1>a DEF GivesBack
  <2> QED
    BY <2>2, <2>3, <1>2 DEF grantUpload
<1>3. ASSUME NEW t \in Tickets, completeUpload(t)
      PROVE  Keeps \/ (Settles(t) /\ store' = store)
  <2>1. PICK r \in checked[t] : completeUpload(t)!(r)
    BY <1>3 DEF completeUpload
  <2>2. CASE ~Takeable(t)
    BY <2>1, <2>2, SameRows
  <2>3. CASE Takeable(t)
    <3>1. /\ ticket'[t].status = "completed" /\ file'[t].status = "staged"
          /\ file'[t].revision = r /\ store' = store
          /\ \A u \in Tickets \ {t} : ticket'[u] = ticket[u] /\ file'[u] = file[u]
      BY <2>1, <2>3, <1>a, <1>0 DEF Typed, Row
    <3>2. /\ ticket[t].status = "issued" /\ file[t].status = "none"
          /\ r.size <= ticket[t].bytes /\ r.size \in 1 .. MaxFile
      BY <2>3, <1>a, <1>0 DEF Takeable, TicketSound, FileSound, Typed, Revision
    <3>3. /\ Reserved[t] = ticket[t].bytes /\ Staged[t] = 0 /\ Stored[t] = 0
          /\ Reserved'[t] = 0 /\ Staged'[t] = r.size /\ Stored'[t] = r.size
      BY <3>1, <3>2 DEF Reserved, Staged, Stored, Held
    <3>4. /\ Reserved' = [Reserved EXCEPT ![t] = 0]
          /\ Staged' = [Staged EXCEPT ![t] = r.size] /\ Stored' = [Stored EXCEPT ![t] = r.size]
      BY <3>1, <3>3, OneRow
    <3> QED
      BY <3>1, <3>2, <3>3, <3>4 DEF Settles
  <2> QED
    BY <2>2, <2>3
<1>4. ASSUME NEW t \in Tickets, bind(t) \/ retire(t)
      PROVE  Keeps
  <2>1. /\ ticket' = ticket /\ file'[t].revision = file[t].revision
        /\ file[t].status \in {"staged", "bound"} /\ file'[t].status \in {"bound", "retired"}
        /\ \A u \in Tickets \ {t} : ticket'[u] = ticket[u] /\ file'[u] = file[u]
    BY <1>4, <1>a, <1>0 DEF bind, retire, Typed, FileRow
  <2>2. Reserved'[t] = Reserved[t] /\ Staged'[t] = 0 /\ Stored'[t] = Stored[t]
    BY <2>1 DEF Reserved, Staged, Stored, Held
  <2>3. /\ Reserved' = [Reserved EXCEPT ![t] = Reserved'[t]]
        /\ Staged' = [Staged EXCEPT ![t] = Staged'[t]]
        /\ Stored' = [Stored EXCEPT ![t] = Stored'[t]]
    BY <2>1, OneRow
  <2>4. /\ Reserved = [Reserved EXCEPT ![t] = Reserved[t]]
        /\ Stored = [Stored EXCEPT ![t] = Stored[t]] /\ DOMAIN Staged = Tickets
    BY DEF Reserved, Staged, Stored
  <2> QED
    BY <2>2, <2>3, <2>4, <1>a DEF Keeps
<1>5. ASSUME NEW s \in Sweepers, claimAbandonedReservations(s)
      PROVE  Keeps
  <2>1. PICK S \in SUBSET {t \in Tickets : Abandoned(t)} :
             claimAbandonedReservations(s)!2!(S)
    BY <1>5 DEF claimAbandonedReservations
  <2>2. \A u \in Tickets : ticket'[u].status = ticket[u].status /\ ticket'[u].bytes = ticket[u].bytes
    BY <2>1, <1>a DEF ClaimedBy, Row
  <2> QED
    BY <2>1, <2>2, SameRows
<1>6. ASSUME NEW s \in Sweepers, claimStagedAttachments(s)
      PROVE  Keeps
  <2>1. PICK S \in SUBSET {t \in Tickets : Unkept(t)} :
             claimStagedAttachments(s)!2!(S)
    BY <1>6 DEF claimStagedAttachments
  <2>2. \A u \in Tickets : file'[u].status = file[u].status /\ file'[u].revision = file[u].revision
    BY <2>1, <1>a DEF ClaimedBy, FileRow
  <2> QED
    BY <2>1, <2>2, SameRows
<1>7. ASSUME NEW s \in Sweepers, writeOff(s)
      PROVE  Keeps \/ \E t \in Tickets : GivesBack(t) /\ store' = store
  <2> DEFINE t == sweeper[s].gone
             expires == sweeper[s].kind # "file" /\ ticket[t].status = "issued"
             ours == sweeper[s].kind = "file" /\ file[t].status = "staged"
                     /\ file[t].claim # None /\ file[t].claim.by = s
  <2>1. t \in Tickets /\ store[t] = {}
    BY <1>7 DEF writeOff, Custody, ClaimSound, Seized, Typed, TypeOK, Idle
  <2>2. store' = store
    BY <1>7 DEF writeOff
  <2>3. CASE expires
    <3>1. /\ ticket' = [ticket EXCEPT ![t].status = "expired", ![t].claim = None] /\ file' = file
      BY <2>3, <1>7 DEF writeOff
    <3>2. /\ ticket'[t].status = "expired"
          /\ \A u \in Tickets \ {t} : ticket'[u] = ticket[u] /\ file'[u] = file[u]
      BY <2>1, <3>1, <1>a, <1>0 DEF Typed, Row
    <3>3. ticket[t].bytes > 0 /\ file[t].status = "none"
      BY <2>1, <2>3, <1>a DEF TicketSound, FileSound
    <3> HIDE DEF t
    <3>4. /\ Reserved'[t] = 0 /\ Reserved[t] > 0
          /\ Staged'[t] = 0 /\ Stored'[t] = 0 /\ Stored[t] = 0
      BY <2>1, <2>3, <3>1, <3>2, <3>3 DEF Reserved, Staged, Stored, Held
    <3>5. /\ Reserved' = [Reserved EXCEPT ![t] = 0]
          /\ Staged' = [Staged EXCEPT ![t] = 0] /\ Stored' = [Stored EXCEPT ![t] = 0]
      BY <2>1, <3>2, <3>4, OneRow
    <3>6. Reserved[t] + Stored[t] > 0
      BY <2>1, <3>4, <1>a
    <3>7. GivesBack(t)
      BY <2>1, <3>5, <3>6 DEF GivesBack
    <3> QED
      BY <2>1, <2>2, <3>7
  <2>4. CASE ours
    <3>1. ticket' = ticket /\ file' = [file EXCEPT ![t].status = "removed"]
      BY <2>4, <1>7 DEF writeOff
    <3>2. /\ file'[t].status = "removed"
          /\ \A u \in Tickets \ {t} : ticket'[u] = ticket[u] /\ file'[u] = file[u]
      BY <2>1, <3>1, <1>a, <1>0 DEF Typed, FileRow
    <3>3. /\ ticket[t].status = "completed" /\ file[t].revision.size \in Nat
          /\ file[t].revision.size > 0
      BY <2>1, <2>4, <1>a DEF FileSound, Revision
    <3> HIDE DEF t
    <3>4. /\ Reserved'[t] = 0 /\ Reserved[t] = 0
          /\ Staged'[t] = 0 /\ Stored'[t] = 0 /\ Stored[t] > 0
      BY <2>1, <2>4, <3>1, <3>2, <3>3 DEF Reserved, Staged, Stored, Held
    <3>5. /\ Reserved' = [Reserved EXCEPT ![t] = 0]
          /\ Staged' = [Staged EXCEPT ![t] = 0] /\ Stored' = [Stored EXCEPT ![t] = 0]
      BY <2>1, <3>2, <3>4, OneRow
    <3>6. Reserved[t] + Stored[t] > 0
      BY <2>1, <3>4, <1>a
    <3>7. GivesBack(t)
      BY <2>1, <3>5, <3>6 DEF GivesBack
    <3> QED
      BY <2>1, <2>2, <3>7
  <2>5. CASE ~expires /\ ~ours
    <3>1. ticket' = ticket /\ file' = file
      BY <2>5, <1>7 DEF writeOff
    <3> QED
      BY <3>1, SameRows
  <2> QED
    BY <2>3, <2>4, <2>5
<1>8. CASE Tick
  <2>1. \A u \in Tickets : ticket'[u].status = ticket[u].status /\ ticket'[u].bytes = ticket[u].bytes
    BY <1>8, <1>a DEF Tick, Row
  <2>2. \A u \in Tickets : file'[u].status = file[u].status /\ file'[u].revision = file[u].revision
    BY <1>8, <1>a DEF Tick, FileRow
  <2> QED
    BY <2>1, <2>2, SameRows
<1>9. CASE UNCHANGED <<ticket, file>>
  BY <1>9, SameRows
<1>10. ASSUME NEW t \in Tickets, NEW b \in 1 .. MaxFile, admit(t, b) \/ receiveUpload(t, b)
       PROVE  UNCHANGED <<ticket, file>>
  BY <1>10 DEF admit, receiveUpload
<1>11. ASSUME NEW t \in Tickets, install(t) \/ statUpload(t)
       PROVE  UNCHANGED <<ticket, file>>
  BY <1>11 DEF install, statUpload
<1>12. ASSUME NEW s \in Sweepers, removeObject(s) \/ sweepDies(s)
       PROVE  UNCHANGED <<ticket, file>>
  BY <1>12 DEF removeObject, sweepDies
<1>13. ASSUME ReconcilerStep \/ reconcileStops
       PROVE  UNCHANGED <<ticket, file>>
  BY <1>13 DEF ReconcilerStep, listRevisions, factsForKeys, judgeRevisions, removeRevision,
               reconcileStops
<1>14. UNCHANGED vars => UNCHANGED <<ticket, file>>
  BY DEF vars
<1> QED
  BY <1>1, <1>2, <1>3, <1>4, <1>5, <1>6, <1>7, <1>8, <1>9, <1>10, <1>11, <1>12, <1>13, <1>14
  DEF Next, SweeperStep

(* Nothing has been reserved, staged or stored at first, and no room is    *)
(* below nothing.                                                          *)
LEMMA RoomKeptInit == Init => RoomKept
<1> SUFFICES ASSUME Init, NEW t \in Tickets PROVE HasRoom(t, admitted[t])
  BY DEF RoomKept
<1>1. /\ admitted[t] = 0
      /\ \A u \in Tickets : Reserved[u] = 0 /\ Staged[u] = 0 /\ Stored[u] = 0
  BY DEF Init, Empty, Fresh, NoFile, Held, Reserved, Staged, Stored
<1>2. /\ OfOwner(Owner[t]) \in SUBSET Tickets /\ IsFiniteSet(OfOwner(Owner[t]))
      /\ IsFiniteSet(Tickets)
  BY OwnFinite
<1>3. /\ SumOf(Reserved, OfOwner(Owner[t])) = 0 /\ SumOf(Staged, OfOwner(Owner[t])) = 0
      /\ SumOf(Stored, OfOwner(Owner[t])) = 0
      /\ SumOf(Reserved, Tickets) = 0 /\ SumOf(Stored, Tickets) = 0
  BY <1>1, <1>2, SumZero
<1> QED
  BY <1>1, <1>3, Numbers DEF HasRoom

(* An admission is for what it found room for; afterwards it is for that   *)
(* or for nothing.                                                         *)
LEMMA AdmittedStep ==
    ASSUME TypeOK, [Next]_vars
    PROVE  \/ \E t \in Tickets, b \in 1 .. MaxFile : admit(t, b)
           \/ \A u \in Tickets : admitted'[u] \in {admitted[u], 0}
<1> USE DEF rows, world, passes
<1>0. Typed
  BY TypedIsTypeOK
<1>1. ASSUME NEW t \in Tickets, insertReservation(t)
      PROVE  \A u \in Tickets : admitted'[u] \in {admitted[u], 0}
  BY <1>1, <1>0 DEF insertReservation, Typed
<1>2. ASSUME NEW t \in Tickets, NEW b \in 1 .. MaxFile, receiveUpload(t, b)
      PROVE  admitted' = admitted
  BY <1>2 DEF receiveUpload
<1>3. ASSUME NEW t \in Tickets, \/ grantUpload(t) \/ install(t) \/ statUpload(t)
                                \/ completeUpload(t) \/ bind(t) \/ retire(t)
      PROVE  admitted' = admitted
  BY <1>3 DEF grantUpload, install, statUpload, completeUpload, bind, retire
<1>4. ASSUME NEW s \in Sweepers, SweeperStep(s) \/ sweepDies(s)
      PROVE  admitted' = admitted
  BY <1>4 DEF SweeperStep, claimAbandonedReservations, claimStagedAttachments, removeObject,
              writeOff, sweepDies
<1>5. ASSUME ReconcilerStep \/ reconcileStops \/ Tick \/ UNCHANGED vars
      PROVE  admitted' = admitted
  BY <1>5 DEF ReconcilerStep, listRevisions, factsForKeys, judgeRevisions, removeRevision,
              reconcileStops, Tick, vars
<1> QED
  BY <1>1, <1>2, <1>3, <1>4, <1>5 DEF Next

(* Room for some bytes is room for fewer.                                  *)
LEMMA RoomForLess ==
    ASSUME NEW r \in [Tickets -> Nat], NEW s \in [Tickets -> Nat], NEW h \in [Tickets -> Nat],
           NEW t \in Tickets, NEW b \in Nat, NEW k \in {b, 0}, Room(r, s, h, t, b)
    PROVE  Room(r, s, h, t, k)
<1> DEFINE own == OfOwner(Owner[t])
<1>1. own \in SUBSET Tickets /\ IsFiniteSet(own) /\ IsFiniteSet(Tickets)
  BY OwnFinite
<1> HIDE DEF own
<1>2. /\ SumOf(r, own) \in Nat /\ SumOf(s, own) \in Nat /\ SumOf(h, own) \in Nat
      /\ SumOf(r, Tickets) \in Nat /\ SumOf(h, Tickets) \in Nat
  BY <1>1, SumNat
<1>3. /\ SumOf(r, own) + b <= ReservedRoom
      /\ SumOf(s, own) + SumOf(r, own) + b <= StagedRoom
      /\ SumOf(h, own) + SumOf(r, own) + b <= StoredRoom
      /\ SumOf(h, Tickets) + SumOf(r, Tickets) + b <= TenantRoom
  BY DEF Room, own
<1>4. /\ SumOf(r, own) + k <= ReservedRoom
      /\ SumOf(s, own) + SumOf(r, own) + k <= StagedRoom
      /\ SumOf(h, own) + SumOf(r, own) + k <= StoredRoom
      /\ SumOf(h, Tickets) + SumOf(r, Tickets) + k <= TenantRoom
  BY <1>2, <1>3, Numbers
<1> QED
  BY <1>4 DEF Room, own

(* The room an admission found is still there when its ticket is inserted, *)
(* and every other step only frees some.                                   *)
LEMMA RoomKeptStep ==
    TypeOK /\ Custody /\ AdmissionsApart /\ RoomKept /\ [Next]_vars /\ TypeOK' /\ Custody'
        => RoomKept'
<1> SUFFICES ASSUME TypeOK, Custody, AdmissionsApart, RoomKept, [Next]_vars, TypeOK', Custody',
                    NEW u \in Tickets
             PROVE  HasRoom(u, admitted[u])'
  BY DEF RoomKept
<1>0. Typed /\ Typed'
  BY TypedIsTypeOK
<1>1. /\ Reserved \in [Tickets -> Nat] /\ Staged \in [Tickets -> Nat] /\ Stored \in [Tickets -> Nat]
  BY UsageTypes
<1>2. /\ Reserved' \in [Tickets -> Nat] /\ Staged' \in [Tickets -> Nat]
      /\ Stored' \in [Tickets -> Nat]
  <2>1. (TypeOK /\ Custody => /\ Reserved \in [Tickets -> Nat] /\ Staged \in [Tickets -> Nat]
                              /\ Stored \in [Tickets -> Nat])'
    BY UsageTypes, PTL
  <2> QED
    BY <2>1
<1>3. \A t \in Tickets : admitted[t] \in Nat /\ admitted'[t] \in Nat
  BY <1>0, Numbers DEF Typed
<1>4. \A t \in Tickets : Room(Reserved, Staged, Stored, t, admitted[t])
  BY HasRoomIsRoom DEF RoomKept
<1> SUFFICES Room(Reserved', Staged', Stored', u, admitted'[u])
  BY DEF HasRoom, Room
<1>5. ASSUME NEW t \in Tickets, NEW b \in 1 .. MaxFile, admit(t, b)
      PROVE  Room(Reserved', Staged', Stored', u, admitted'[u])
  <2>1. /\ Reserved' = Reserved /\ Staged' = Staged /\ Stored' = Stored
        /\ Room(Reserved, Staged, Stored, t, b)
        /\ admitted' = [admitted EXCEPT ![t] = b]
    BY <1>5 DEF admit, Reserved, Staged, Stored, HasRoom, Room
  <2>2. CASE u = t
    BY <1>0, <2>1, <2>2 DEF Typed
  <2>3. CASE u # t
    <3>1. admitted'[u] = admitted[u]
      BY <1>0, <2>1, <2>3 DEF Typed
    <3> QED
      BY <1>4, <2>1, <3>1
  <2> QED
    BY <2>2, <2>3
<1>6. ASSUME admitted'[u] \in {admitted[u], 0},
             \A t \in Tickets : /\ Reserved'[t] <= Reserved[t]
                                /\ Reserved'[t] + Staged'[t] <= Reserved[t] + Staged[t]
                                /\ Reserved'[t] + Stored'[t] <= Reserved[t] + Stored[t]
      PROVE  Room(Reserved', Staged', Stored', u, admitted'[u])
  <2>1. Room(Reserved', Staged', Stored', u, admitted[u])
    BY <1>1, <1>2, <1>3, <1>4, <1>6, RoomIsFreed
  <2> QED
    BY <1>2, <1>3, <1>6, <2>1, RoomForLess
<1>7. ASSUME Keeps
      PROVE  \A t \in Tickets : /\ Reserved'[t] <= Reserved[t]
                                /\ Reserved'[t] + Staged'[t] <= Reserved[t] + Staged[t]
                                /\ Reserved'[t] + Stored'[t] <= Reserved[t] + Stored[t]
  BY <1>1, <1>2, <1>7 DEF Keeps
<1>8. ASSUME NEW g \in Tickets, GivesBack(g)
      PROVE  \A t \in Tickets : /\ Reserved'[t] <= Reserved[t]
                                /\ Reserved'[t] + Staged'[t] <= Reserved[t] + Staged[t]
                                /\ Reserved'[t] + Stored'[t] <= Reserved[t] + Stored[t]
  BY <1>1, <1>2, <1>8 DEF GivesBack
<1>9. ASSUME NEW g \in Tickets, Settles(g)
      PROVE  \A t \in Tickets : /\ Reserved'[t] <= Reserved[t]
                                /\ Reserved'[t] + Staged'[t] <= Reserved[t] + Staged[t]
                                /\ Reserved'[t] + Stored'[t] <= Reserved[t] + Stored[t]
  <2>1. PICK size \in 1 .. MaxFile :
            /\ size <= Reserved[g] /\ Staged[g] = 0 /\ Stored[g] = 0
            /\ Reserved' = [Reserved EXCEPT ![g] = 0]
            /\ Staged' = [Staged EXCEPT ![g] = size]
            /\ Stored' = [Stored EXCEPT ![g] = size]
    BY <1>9 DEF Settles
  <2> QED
    BY <1>1, <1>2, <2>1, Numbers
<1>10. ASSUME NEW g \in Tickets, insertReservation(g), Takes(g)
       PROVE  Room(Reserved', Staged', Stored', u, admitted'[u])
  <2>1. /\ admitted[g] > 0 /\ admitted' = [admitted EXCEPT ![g] = 0]
    BY <1>10 DEF insertReservation
  <2>2. admitted'[u] = 0
    BY <1>0, <1>3, <2>1 DEF AdmissionsApart, Typed
  <2>3. /\ Reserved[g] = 0 /\ Reserved'[g] = admitted[g]
        /\ \A t \in Tickets \ {g} : Reserved'[t] = Reserved[t]
        /\ Staged' = Staged /\ Stored' = Stored
    BY <1>1, <1>10 DEF Takes
  <2>4. Room(Reserved, Staged, Stored, u, 0)
    BY <1>1, <1>3, <1>4, RoomForLess
  <2>5. Room(Reserved, Staged, Stored, g, admitted[g])
    BY <1>4
  <2>6. Room(Reserved', Staged, Stored, u, 0)
    BY <1>1, <1>2, <1>3, <2>3, <2>4, <2>5, RoomIsTaken
  <2> QED
    BY <2>2, <2>3, <2>6
<1>11. CASE \E t \in Tickets, b \in 1 .. MaxFile : admit(t, b)
  BY <1>5, <1>11
<1>12. CASE admitted'[u] \in {admitted[u], 0}
  BY <1>6, <1>7, <1>8, <1>9, <1>10, <1>12, UsageStep
<1> QED
  BY <1>11, <1>12, AdmittedStep

(* The room there is for what is admitted is the room there is.            *)
LEMMA RoomKeptIsEnough == TypeOK /\ Custody /\ RoomKept => QuotaNeverOversold
<1> SUFFICES ASSUME TypeOK, Custody, RoomKept PROVE QuotaNeverOversold
  OBVIOUS
<1>1. /\ Reserved \in [Tickets -> Nat] /\ Staged \in [Tickets -> Nat] /\ Stored \in [Tickets -> Nat]
  BY UsageTypes
<1>2. \A t \in Tickets : Room(Reserved, Staged, Stored, t, 0)
  <2> TAKE t \in Tickets
  <2>1. admitted[t] \in Nat /\ Room(Reserved, Staged, Stored, t, admitted[t])
    BY RowTypes, HasRoomIsRoom, Numbers DEF RoomKept
  <2> QED
    BY <1>1, <2>1, RoomForLess
<1>3. ASSUME NEW o \in {Owner[t] : t \in Tickets}
      PROVE  /\ SumOf(Reserved, OfOwner(o)) <= ReservedRoom
             /\ SumOf(Reserved, OfOwner(o)) + SumOf(Staged, OfOwner(o)) <= StagedRoom
             /\ SumOf(Reserved, OfOwner(o)) + SumOf(Stored, OfOwner(o)) <= StoredRoom
  <2>1. PICK t \in Tickets : o = Owner[t]
    BY <1>3
  <2>2. /\ SumOf(Reserved, OfOwner(o)) \in Nat /\ SumOf(Staged, OfOwner(o)) \in Nat
        /\ SumOf(Stored, OfOwner(o)) \in Nat
    BY <1>1, OwnFinite, SumNat
  <2>3. /\ SumOf(Reserved, OfOwner(o)) + 0 <= ReservedRoom
        /\ SumOf(Staged, OfOwner(o)) + SumOf(Reserved, OfOwner(o)) + 0 <= StagedRoom
        /\ SumOf(Stored, OfOwner(o)) + SumOf(Reserved, OfOwner(o)) + 0 <= StoredRoom
    BY <1>2, <2>1 DEF Room
  <2> QED
    BY <2>2, <2>3, Numbers
<1>4. SumOf(Reserved, Tickets) + SumOf(Stored, Tickets) <= TenantRoom
  <2>1. CASE Tickets = {}
    <3>1. SumOf(Reserved, Tickets) = 0 /\ SumOf(Stored, Tickets) = 0
      BY <2>1, SumEmpty
    <3> QED
      BY <3>1, Numbers
  <2>2. CASE Tickets # {}
    <3>1. PICK t \in Tickets : TRUE
      BY <2>2
    <3>2. SumOf(Stored, Tickets) + SumOf(Reserved, Tickets) + 0 <= TenantRoom
      BY <1>2, <3>1 DEF Room
    <3>3. SumOf(Reserved, Tickets) \in Nat /\ SumOf(Stored, Tickets) \in Nat
      BY <1>1, OwnFinite, SumNat
    <3> QED
      BY <3>2, <3>3, Numbers
  <2> QED
    BY <2>1, <2>2
<1> QED
  BY <1>3, <1>4 DEF QuotaNeverOversold

(* The room an admission found stays there until its ticket is inserted    *)
(* (quota.ts, reserve in service.ts).                                      *)
THEOREM RoomStays == Spec => []RoomKept
BY RoomKeptInit, RoomKeptStep, TypeCorrect, CustodyInvariant, PTL DEF Spec

(* However admissions, completions and sweeps interleave, no owner and no  *)
(* tenant is ever charged past a limit of quota.ts.                        *)
THEOREM QuotasHold == Spec => []QuotaNeverOversold
BY RoomKeptIsEnough, RoomStays, TypeCorrect, CustodyInvariant, PTL

-----------------------------------------------------------------------------
(***************************************************************************)
(* Storage keeps its ledger.                                               *)
(*                                                                         *)
(* Charge is Reserved and Stored together, so a completion only settles    *)
(* it, and an unfinished upload stands under a key its owner is still      *)
(* charged for: a write is only let in for a granted ticket, and is over   *)
(* before that ticket is written off (Custody).                            *)
(***************************************************************************)

Charged == [t \in Tickets |-> Reserved[t] + Stored[t]]
HasBytes == [t \in Tickets |-> store[t] # {}]

(* The ledger's sums are the sums of the quotas.                           *)
LEMMA LedgerSum ==
    ASSUME NEW f, NEW S
    PROVE  Ledger!SumOf(f, S) = SumOf(f, S)
BY DEF SumOf, Ledger!SumOf, MapThenSumSet, Ledger!MapThenSumSet,
       MapThenFoldSet, Ledger!MapThenFoldSet

(* One row's two columns are written.                                      *)
LEMMA ChargedOne ==
    ASSUME NEW t \in Tickets, NEW r \in Nat, NEW h \in Nat,
           Reserved' = [Reserved EXCEPT ![t] = r], Stored' = [Stored EXCEPT ![t] = h]
    PROVE  Charged' = [Charged EXCEPT ![t] = r + h]
<1>1. DOMAIN Reserved = Tickets /\ DOMAIN Stored = Tickets
  BY DEF Reserved, Stored
<1>2. Charged' = [u \in Tickets |-> Reserved'[u] + Stored'[u]]
  BY DEF Charged
<1>3. \A u \in Tickets : Charged'[u] = IF u = t THEN r + h ELSE Charged[u]
  BY <1>1, <1>2 DEF Charged
<1>4. Charged' = [u \in Tickets |-> IF u = t THEN r + h ELSE Charged[u]]
  BY <1>2, <1>3
<1> QED
  BY <1>4 DEF Charged

(* What the ledger says an owner is charged is what the tables add up to.  *)
LEMMA LedgerCharges ==
    ASSUME TypeOK, Custody, NEW S \in SUBSET Tickets
    PROVE  /\ Ledger!ChargedFor(S) = SumOf(Reserved, S) + SumOf(Stored, S)
           /\ SumOf(Reserved, S) \in Nat /\ SumOf(Stored, S) \in Nat
<1>1. Reserved \in [Tickets -> Nat] /\ Stored \in [Tickets -> Nat]
  BY UsageTypes
<1>2. IsFiniteSet(S)
  BY StorageConstants, FS_Subset
<1>3. /\ \A t \in S : Reserved[t] \in Nat /\ Stored[t] \in Nat
      /\ \A t \in S : Charged[t] = Reserved[t] + Stored[t]
  BY <1>1 DEF Charged
<1>4. SumOf(Charged, S) = SumOf(Reserved, S) + SumOf(Stored, S)
  BY <1>2, <1>3, SumOfBoth
<1>5. SumOf(Reserved, S) \in Nat /\ SumOf(Stored, S) \in Nat
  BY <1>2, <1>3, SumNat
<1>6. Ledger!ChargedFor(S) = SumOf(Charged, S)
  BY LedgerSum DEF Ledger!ChargedFor, Charged
<1> QED
  BY <1>4, <1>5, <1>6

(* Where bytes are on their way, somebody is charged for them.             *)
LEMMA WritesAreCharged ==
    ASSUME TypeOK, Custody, NEW t \in Tickets, upload[t] > 0
    PROVE  Charged[t] > 0
<1>1. /\ ticket[t] \in Row /\ TicketSound(t) /\ FileSound(t) /\ upload[t] \in Nat
      /\ Reserved[t] \in Nat /\ Stored[t] \in Nat
  BY RowTypes, UsageTypes, Numbers DEF Custody
<1>2. ticket[t].granted /\ ticket[t].age # CleanupAge
  BY <1>1 DEF TicketSound
<1>3. ticket[t].status \in {"issued", "completed"}
  BY <1>1, <1>2 DEF TicketSound
<1>4. CASE ticket[t].status = "issued"
  <2>1. Reserved[t] = ticket[t].bytes /\ ticket[t].bytes > 0
    BY <1>1, <1>4 DEF TicketSound, Reserved
  <2> QED
    BY <1>1, <2>1 DEF Charged
<1>5. CASE ticket[t].status = "completed"
  <2>1. file[t].status \notin {"none", "removed"} /\ file[t].revision \in Revision
    BY <1>1, <1>2, <1>5 DEF FileSound
  <2>2. file[t].status \in Held
    BY <2>1, RowTypes DEF FileRow, Held
  <2>3. Stored[t] = file[t].revision.size /\ file[t].revision.size > 0
    BY <2>1, <2>2 DEF Stored, Revision
  <2> QED
    BY <1>1, <2>3 DEF Charged
<1> QED
  BY <1>3, <1>4, <1>5

(* One key at a time gains or loses revisions, and gains one only from the *)
(* bytes that were on their way to it.                                     *)
LEMMA StoreStep ==
    ASSUME TypeOK, Custody, [Next]_vars
    PROVE  \/ store' = store
           \/ \E t \in Tickets :
                /\ store' = [store EXCEPT ![t] = store'[t]]
                /\ store'[t] \subseteq store[t] \/ upload[t] > 0
<1> USE DEF rows, world, passes
<1>0. Typed
  BY TypedIsTypeOK
<1>1. ASSUME NEW t \in Tickets, install(t)
      PROVE  \/ store' = store
             \/ store' = [store EXCEPT ![t] = store'[t]] /\ upload[t] > 0
  BY <1>1, <1>0 DEF install, Typed
<1>2. ASSUME NEW s \in Sweepers, removeObject(s)
      PROVE  \E t \in Tickets :
                /\ store' = [store EXCEPT ![t] = store'[t]]
                /\ store'[t] \subseteq store[t]
  <2>1. InTurn(s) \in Tickets
    BY <1>2, InTurnLeft DEF removeObject, Custody
  <2>2. \E left \in SUBSET store[InTurn(s)] : store' = [store EXCEPT ![InTurn(s)] = left]
    BY <1>2 DEF removeObject
  <2> QED
    BY <2>1, <2>2, <1>0 DEF Typed
<1>3. CASE removeRevision
  <2>1. reconciler.key \in Tickets
    BY <1>3 DEF removeRevision, Custody, PageSound
  <2>2. \E left \in SUBSET store[reconciler.key] :
           store' = [store EXCEPT ![reconciler.key] = left]
    BY <1>3 DEF removeRevision
  <2> QED
    BY <2>1, <2>2, <1>0 DEF Typed
<1>4. ASSUME NEW t \in Tickets,
             \/ insertReservation(t) \/ grantUpload(t) \/ statUpload(t)
             \/ completeUpload(t) \/ bind(t) \/ retire(t)
      PROVE  store' = store
  BY <1>4 DEF insertReservation, grantUpload, statUpload, completeUpload, bind, retire
<1>5. ASSUME NEW t \in Tickets, NEW b \in 1 .. MaxFile, admit(t, b) \/ receiveUpload(t, b)
      PROVE  store' = store
  BY <1>5 DEF admit, receiveUpload
<1>6. ASSUME NEW s \in Sweepers,
             \/ claimAbandonedReservations(s) \/ claimStagedAttachments(s)
             \/ writeOff(s) \/ sweepDies(s)
      PROVE  store' = store
  BY <1>6 DEF claimAbandonedReservations, claimStagedAttachments, writeOff, sweepDies
<1>7. ASSUME \/ listRevisions \/ factsForKeys \/ judgeRevisions \/ reconcileStops
             \/ Tick \/ UNCHANGED vars
      PROVE  store' = store
  BY <1>7 DEF listRevisions, factsForKeys, judgeRevisions, reconcileStops, Tick, vars
<1> QED
  BY <1>1, <1>2, <1>3, <1>4, <1>5, <1>6, <1>7 DEF Next, SweeperStep, ReconcilerStep

(* Nobody is charged for anything and no key holds a byte at first.        *)
LEMMA LedgerInit == Init => Ledger!LInit
<1> SUFFICES ASSUME Init PROVE Ledger!LInit
  OBVIOUS
<1>1. \A t \in Tickets : Reserved[t] = 0 /\ Stored[t] = 0 /\ store[t] = {}
  BY DEF Init, Empty, Fresh, NoFile, Held, Reserved, Stored
<1>2. \A t \in Tickets : Reserved[t] + Stored[t] = 0 /\ (store[t] # {}) = FALSE
  BY <1>1
<1> QED
  BY <1>2 DEF Ledger!LInit

(* Whatever arrives or is removed while no charge changes is an arrival,   *)
(* a removal or nothing to the ledger.                                     *)
LEMMA KeepsIsLedger ==
    ASSUME TypeOK, Custody, [Next]_vars, Keeps
    PROVE  [Ledger!LNext]_(Ledger!lvars)
<1>1. Charged' = Charged
  BY DEF Keeps, Charged
<1>2. CASE HasBytes' = HasBytes
  BY <1>1, <1>2 DEF Charged, HasBytes, Ledger!lvars
<1>3. CASE HasBytes' # HasBytes
  <2>1. PICK t \in Tickets : /\ store' = [store EXCEPT ![t] = store'[t]]
                             /\ store'[t] \subseteq store[t] \/ upload[t] > 0
    BY <1>3, StoreStep DEF HasBytes
  <2>2. DOMAIN store = Tickets
    BY DEF TypeOK
  <2>3. HasBytes' = [HasBytes EXCEPT ![t] = store'[t] # {}]
    BY <2>1, <2>2 DEF HasBytes
  <2>4. (store'[t] # {}) # (store[t] # {})
    BY <1>3, <2>3 DEF HasBytes
  <2>5. CASE store'[t] # {}
    <3>1. store[t] = {} /\ Charged[t] > 0
      BY <2>1, <2>4, <2>5, WritesAreCharged
    <3>2. HasBytes' = [HasBytes EXCEPT ![t] = TRUE] /\ ~HasBytes[t]
      BY <2>3, <2>5, <3>1 DEF HasBytes
    <3>3. Ledger!Arrive(t)
      BY <1>1, <3>1, <3>2 DEF Charged, HasBytes, Ledger!Arrive
    <3> QED
      BY <3>3 DEF Ledger!LNext
  <2>6. CASE store'[t] = {}
    <3>1. HasBytes' = [HasBytes EXCEPT ![t] = FALSE] /\ HasBytes[t]
      BY <2>3, <2>4, <2>6 DEF HasBytes
    <3>2. Ledger!Vanish(t)
      BY <1>1, <3>1 DEF Charged, HasBytes, Ledger!Vanish
    <3> QED
      BY <3>2 DEF Ledger!LNext
  <2> QED
    BY <2>5, <2>6
<1> QED
  BY <1>2, <1>3

(* Every step is one of the ledger's, or nothing to it.                    *)
LEMMA LedgerStep ==
    TypeOK /\ Custody /\ AdmissionsApart /\ RoomKept /\ [Next]_vars
        => [Ledger!LNext]_(Ledger!lvars)
<1> SUFFICES ASSUME TypeOK, Custody, AdmissionsApart, RoomKept, [Next]_vars
             PROVE  [Ledger!LNext]_(Ledger!lvars)
  OBVIOUS
<1>1. Reserved \in [Tickets -> Nat] /\ Stored \in [Tickets -> Nat]
  BY UsageTypes
<1>2. store' = store => HasBytes' = HasBytes
  BY DEF HasBytes
<1>3. ASSUME NEW t \in Tickets, GivesBack(t), store' = store
      PROVE  [Ledger!LNext]_(Ledger!lvars)
  <2>1. Charged[t] > 0 /\ ~HasBytes[t] /\ Charged' = [Charged EXCEPT ![t] = 0]
    <3>1. Charged' = [Charged EXCEPT ![t] = 0 + 0]
      BY <1>3, ChargedOne DEF GivesBack
    <3>2. 0 + 0 = 0
      OBVIOUS
    <3>3. Charged[t] > 0 /\ ~HasBytes[t]
      BY <1>3 DEF GivesBack, Charged, HasBytes
    <3> QED
      BY <3>1, <3>2, <3>3
  <2>2. Ledger!GiveBack(t)
    BY <1>2, <1>3, <2>1 DEF Charged, HasBytes, Ledger!GiveBack
  <2> QED
    BY <2>2 DEF Ledger!LNext
<1>4. ASSUME NEW t \in Tickets, Settles(t), store' = store
      PROVE  [Ledger!LNext]_(Ledger!lvars)
  <2>1. PICK size \in 1 .. MaxFile :
            /\ size <= Reserved[t] /\ Stored[t] = 0
            /\ Reserved' = [Reserved EXCEPT ![t] = 0]
            /\ Stored' = [Stored EXCEPT ![t] = size]
    BY <1>4 DEF Settles
  <2>2. size \in Nat /\ size > 0 /\ Reserved[t] \in Nat
    BY <1>1, Numbers
  <2>3. Charged' = [Charged EXCEPT ![t] = size] /\ Charged[t] = Reserved[t]
    <3>0. Reserved' = [Reserved EXCEPT ![t] = 0] /\ Stored' = [Stored EXCEPT ![t] = size]
      BY <2>1
    <3>1. Charged' = [Charged EXCEPT ![t] = 0 + size]
      BY <2>2, <3>0, ChargedOne
    <3>2. 0 + size = size /\ Charged[t] = Reserved[t]
      BY <2>1, <2>2 DEF Charged
    <3> QED
      BY <3>1, <3>2
  <2>4. CASE size < Reserved[t]
    <3>1. Ledger!Settle(t, size)
      BY <1>2, <1>4, <2>2, <2>3, <2>4 DEF Charged, HasBytes, Ledger!Settle
    <3> QED
      BY <3>1 DEF Ledger!LNext
  <2>5. CASE size = Reserved[t]
    <3>1. Charged' = Charged
      BY <2>3, <2>5 DEF Charged
    <3> QED
      BY <1>2, <1>4, <3>1 DEF Charged, HasBytes, Ledger!lvars
  <2> QED
    BY <2>1, <2>2, <2>4, <2>5
<1>5. ASSUME NEW t \in Tickets, Takes(t), store' = store
      PROVE  [Ledger!LNext]_(Ledger!lvars)
  <2>1. PICK b \in 1 .. MaxFile : b = admitted[t]
    BY <1>5 DEF Takes
  <2>2. b \in Nat
    BY Numbers
  <2>3. Charged[t] = 0 /\ ~HasBytes[t] /\ Charged' = [Charged EXCEPT ![t] = b]
    <3>1. /\ Stored[t] = 0 /\ Reserved[t] = 0 /\ store[t] = {}
          /\ Reserved' = [Reserved EXCEPT ![t] = b] /\ Stored' = Stored
      BY <1>5, <2>1 DEF Takes
    <3>2. Stored' = [Stored EXCEPT ![t] = 0]
      BY <1>1, <3>1
    <3>0. Reserved' = [Reserved EXCEPT ![t] = b]
      BY <3>1
    <3>3. Charged' = [Charged EXCEPT ![t] = b + 0]
      BY <2>2, <3>0, <3>2, ChargedOne
    <3>4. b + 0 = b
      BY <2>2
    <3>5. Charged[t] = 0
      BY <3>1 DEF Charged
    <3>6. ~HasBytes[t]
      BY <3>1 DEF HasBytes
    <3> QED
      BY <3>3, <3>4, <3>5, <3>6
  <2> DEFINE own == OfOwner(Owner[t])
  <2>4. /\ SumOf(Stored, own) + SumOf(Reserved, own) + b <= StoredRoom
        /\ SumOf(Stored, Tickets) + SumOf(Reserved, Tickets) + b <= TenantRoom
    BY <2>1 DEF RoomKept, HasRoom
  <2>5. /\ Ledger!ChargedFor(own) = SumOf(Reserved, own) + SumOf(Stored, own)
        /\ SumOf(Reserved, own) \in Nat /\ SumOf(Stored, own) \in Nat
    BY OwnFinite, LedgerCharges
  <2>6. /\ Ledger!ChargedFor(Tickets) = SumOf(Reserved, Tickets) + SumOf(Stored, Tickets)
        /\ SumOf(Reserved, Tickets) \in Nat /\ SumOf(Stored, Tickets) \in Nat
    BY LedgerCharges
  <2>7. own = Ledger!Of(Owner[t])
    BY DEF OfOwner, Ledger!Of
  <2> HIDE DEF own
  <2>8. /\ Ledger!ChargedFor(own) + b <= StoredRoom
        /\ Ledger!ChargedFor(Tickets) + b <= TenantRoom
    BY <2>2, <2>4, <2>5, <2>6, Numbers
  <2>9. Ledger!Charge(t, b)
    BY <1>2, <1>5, <2>3, <2>7, <2>8 DEF Charged, HasBytes, Ledger!Charge
  <2> QED
    BY <2>9 DEF Ledger!LNext
<1> QED
  BY <1>3, <1>4, <1>5, UsageStep, KeepsIsLedger

(* Storage implements StorageLedger: an owner is charged from before the   *)
(* first byte may arrive until after the last is gone, and never past the  *)
(* room (quota.ts, service.ts, cleanup.ts).                                *)
THEOREM LedgerImplemented == Spec => LedgerKept
BY LedgerInit, LedgerStep, RoomStays, TypeCorrect, CustodyInvariant, PTL
DEF Spec, LedgerKept, Ledger!LSpec

=============================================================================
