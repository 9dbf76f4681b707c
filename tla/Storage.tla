------------------------------ MODULE Storage ------------------------------
(***************************************************************************)
(* Uploads from the ticket to the sweep (infra/storage/src/server): who    *)
(* may start one (quota.ts), the ticket, the bytes arriving at the store,  *)
(* the attachment made of them (service.ts), and the three passes that     *)
(* clean up behind everybody (cleanup.ts): abandoned tickets, attachments  *)
(* nobody kept, and the revisions nobody reads of stores that keep them.   *)
(*                                                                         *)
(* A transaction is one action; a call to the store is one of its own,     *)
(* and whatever was read before it may be old by then.  Each ticket is the *)
(* only way to its key and to its attachment, so all three go by its name. *)
(*                                                                         *)
(* Time is kept as ages that stop growing once nothing asks for more, so   *)
(* that it never runs out.  One tenant; its advisory lock covers the       *)
(* owner's, taken inside it, which is left out.  The limits on how many    *)
(* tickets an owner asks for in an hour, or holds, only refuse more.       *)
(***************************************************************************)
EXTENDS Integers, FiniteSets, FiniteSetsExt, Sums

CONSTANTS
    Tickets, Owner,   \* the upload tickets, and whose each is
    Versioned,        \* those whose store keeps revisions of a key
    Sweepers,         \* the processes that sweep
    MaxFile,          \* the file ceiling, in the unit the quotas are in
    ReservedRoom, StagedRoom, StoredRoom, TenantRoom, \* the limits of quota.ts
    GrantTtl, Grace, StagedTtl, Lease,                \* of config.ts, in ticks
    Writes,           \* bound: how many uploads arrive on one ticket
    Faults,           \* bound: how many sweeps die, are refused by the store, or
                      \* are still at a row when their lease on it runs out
    None

ASSUME StorageConstants ==
    /\ DOMAIN Owner = Tickets /\ Versioned \subseteq Tickets
    /\ IsFiniteSet(Tickets)
    /\ {MaxFile, GrantTtl, Grace, Writes} \subseteq Nat \ {0} /\ {Lease, Faults} \subseteq Nat
    /\ {ReservedRoom, StagedRoom, StoredRoom, TenantRoom} \subseteq Nat
    /\ None \notin Sweepers \cup Tickets
(* A ticket's writes are over a day before its attachment may be swept.    *)
ASSUME StagedOutlivesWrites == StagedTtl \in Nat /\ StagedTtl >= GrantTtl + Grace

VARIABLES
    ticket,    \* storage_upload_reservations
    admitted,  \* bytes an admission has found room for and not yet reserved
    file,      \* storage_attachments
    store,     \* the revisions the store holds under each key
    upload,    \* bytes on their way to each key, 0 for none
    writes,    \* how many have set out
    checked,   \* the revisions completions have looked at and not yet settled
    sweeper,   \* each sweeper's pass: what it claimed and has not finished
    reconciler,\* the reconciliation's page
    faults

rows == <<ticket, admitted, file>>
world == <<store, upload, writes>>
passes == <<sweeper, reconciler, faults>>
vars == <<ticket, admitted, file, store, upload, writes, checked, sweeper, reconciler, faults>>

CleanupAge == GrantTtl + Grace
Held == {"staged", "bound", "retired"}
Revision == [n : 1 .. Writes, size : 1 .. MaxFile]
Claim == [by : Sweepers, age : 0 .. Lease + 1]
ASSUME NoneIsNoRow == None \notin Revision \cup Claim
Idle == [kind |-> "idle", left |-> {}, gone |-> None]
Resting == [key |-> None, stage |-> "listed", page |-> {}, own |-> None]

OfOwner(o) == {t \in Tickets : Owner[t] = o}
Reserved == [t \in Tickets |-> IF ticket[t].status = "issued" THEN ticket[t].bytes ELSE 0]
Staged == [t \in Tickets |-> IF file[t].status = "staged" THEN file[t].revision.size ELSE 0]
Stored == [t \in Tickets |-> IF file[t].status \in Held THEN file[t].revision.size ELSE 0]

Fresh == [status |-> "none", bytes |-> 0, age |-> 0, granted |-> FALSE, claim |-> None]
NoFile == [status |-> "none", revision |-> None, age |-> 0, raced |-> FALSE, claim |-> None]

Empty ==
    /\ admitted = [t \in Tickets |-> 0]
    /\ file = [t \in Tickets |-> NoFile]
    /\ store = [t \in Tickets |-> {}]
    /\ upload = [t \in Tickets |-> 0]
    /\ checked = [t \in Tickets |-> {}]
    /\ sweeper = [s \in Sweepers |-> Idle]
    /\ reconciler = Resting

Init ==
    /\ ticket = [t \in Tickets |-> Fresh]
    /\ Empty
    /\ writes = [t \in Tickets |-> 0]
    /\ faults = 0

-----------------------------------------------------------------------------
(* Starting an upload. *)

(* mutant of LockFree: each owner's uploads queue behind their own only *)
Unlocked(t) == admitted[t] = 0
(* Admissions of a tenant run one at a time, and end with their insert.    *)
LockFree(t) == \A u \in Tickets : admitted[u] = 0

(* usageOf is one statement: all six sums are of one instant.              *)
HasRoom(t, b) ==
    LET own == OfOwner(Owner[t])
        reserved == SumOf(Reserved, own)
    IN /\ reserved + b <= ReservedRoom
       /\ SumOf(Staged, own) + reserved + b <= StagedRoom
       /\ SumOf(Stored, own) + reserved + b <= StoredRoom
       /\ SumOf(Stored, Tickets) + SumOf(Reserved, Tickets) + b <= TenantRoom

admit(t, b) ==
    /\ ticket[t].status = "none" /\ admitted[t] = 0
    /\ LockFree(t) /\ HasRoom(t, b)
    /\ admitted' = [admitted EXCEPT ![t] = b]
    /\ UNCHANGED <<ticket, file, checked, world, passes>>

(* The insert commits, or the transaction is rolled back; the lock ends    *)
(* either way.                                                             *)
insertReservation(t) ==
    /\ admitted[t] > 0
    /\ \E status \in {"issued", "none"} :
          ticket' = [ticket EXCEPT
              ![t].status = status,
              ![t].bytes = IF status = "issued" THEN admitted[t] ELSE 0]
    /\ admitted' = [admitted EXCEPT ![t] = 0]
    /\ UNCHANGED <<file, checked, world, passes>>

(* The credential is minted after the commit.  Refused, the ticket fails;  *)
(* if that write or the process fails too, the ticket stays to be swept.   *)
grantUpload(t) ==
    /\ ticket[t].status = "issued" /\ ~ticket[t].granted /\ ticket[t].age < GrantTtl
    /\ \/ ticket' = [ticket EXCEPT ![t].granted = TRUE]
       \/ ticket' = [ticket EXCEPT ![t].status = "failed"]
    /\ UNCHANGED <<admitted, file, checked, world, passes>>

-----------------------------------------------------------------------------
(* The bytes.  A store of its own door asks the credential, the disk's     *)
(* door asks the ticket and stops at the size it reserved.                 *)

receiveUpload(t, b) ==
    /\ ticket[t].granted /\ ticket[t].age < GrantTtl
    /\ upload[t] = 0 /\ writes[t] < Writes
    /\ t \notin Versioned => ticket[t].status = "issued" /\ b <= ticket[t].bytes
    /\ upload' = [upload EXCEPT ![t] = b]
    /\ writes' = [writes EXCEPT ![t] = @ + 1]
    /\ UNCHANGED <<rows, store, checked, passes>>

(* The whole of it is there, as one more revision; a disk writes a file    *)
(* once and refuses a second.                                              *)
install(t) ==
    /\ upload[t] > 0
    /\ upload' = [upload EXCEPT ![t] = 0]
    /\ IF t \in Versioned \/ store[t] = {}
       THEN store' = [store EXCEPT ![t] = @ \cup {[n |-> writes[t], size |-> upload[t]]}]
       ELSE UNCHANGED store
    /\ UNCHANGED <<rows, writes, checked, passes>>

(* What a key reads back when no revision is asked for.                    *)
Current(t) == CHOOSE r \in store[t] : \A q \in store[t] : q.n <= r.n

-----------------------------------------------------------------------------
(* Completing one: the ticket is read, the store asked, and then the       *)
(* transaction takes the ticket if it can still be had.                    *)

(* mutant of Takeable: a claim whose lease has run out is no claim *)
TakeableByLease(t) ==
    ticket[t].status = "issued"
    /\ (ticket[t].claim # None => ticket[t].claim.age > Lease)
(* Any claim of any age: an expired lease says nothing of the delete.      *)
Takeable(t) == ticket[t].status = "issued" /\ ticket[t].claim = None

statUpload(t) ==
    /\ Takeable(t) /\ store[t] # {}
    /\ Current(t).size <= ticket[t].bytes
    /\ checked' = [checked EXCEPT ![t] = @ \cup {Current(t)}]
    /\ checked' # checked
    /\ UNCHANGED <<rows, world, passes>>

(* For the properties: the reconciliation has read that nothing stands at  *)
(* the key, and may yet remove the revision or has done so.                *)
RacedBy(t, r) ==
    r \notin store[t] \/ (reconciler.key = t /\ reconciler.stage # "listed")

completeUpload(t) == \E r \in checked[t] :
    /\ checked' = [checked EXCEPT ![t] = @ \ {r}]
    /\ IF Takeable(t)
       THEN /\ ticket' = [ticket EXCEPT ![t].status = "completed"]
            /\ file' = [file EXCEPT ![t] = [status |-> "staged", revision |-> r, age |-> 0,
                                            raced |-> RacedBy(t, r), claim |-> None]]
       ELSE UNCHANGED <<ticket, file>>
    /\ UNCHANGED <<admitted, world, passes>>

bind(t) ==
    /\ file[t].status = "staged" /\ file[t].claim = None
    /\ file' = [file EXCEPT ![t].status = "bound"]
    /\ UNCHANGED <<ticket, admitted, checked, world, passes>>

retire(t) ==
    /\ file[t].status = "bound"
    /\ file' = [file EXCEPT ![t].status = "retired"]
    /\ UNCHANGED <<ticket, admitted, checked, world, passes>>

-----------------------------------------------------------------------------
(* The sweeps: claim some rows and commit; for each, delete what is under  *)
(* its key, and only then write the row off.                               *)

Unclaimed(c) == c = None \/ c.age > Lease
Abandoned(t) ==
    /\ ticket[t].status = "issued" /\ ticket[t].age = CleanupAge
    /\ Unclaimed(ticket[t].claim)
Unkept(t) ==
    /\ file[t].status = "staged" /\ file[t].age > StagedTtl
    /\ Unclaimed(file[t].claim)

(* Any part of what is due: a pass takes a batch, and skips the rows       *)
(* another transaction has locked.                                         *)
ClaimedBy(s, f, S) == [t \in Tickets |->
    IF t \in S THEN [f[t] EXCEPT !.claim = [by |-> s, age |-> 0]] ELSE f[t]]

Overtaken(kind, S) ==
    IF \E s \in Sweepers : sweeper[s].kind = kind /\ sweeper[s].left \cap S # {} THEN 1 ELSE 0

claimAbandonedReservations(s) == sweeper[s] = Idle /\
    \E S \in SUBSET {t \in Tickets : Abandoned(t)} :
        /\ S # {}
        /\ faults' = faults + Overtaken("ticket", S) /\ faults' <= Faults
        /\ ticket' = ClaimedBy(s, ticket, S)
        /\ sweeper' = [sweeper EXCEPT ![s] = [kind |-> "ticket", left |-> S, gone |-> None]]
        /\ UNCHANGED <<admitted, file, checked, world, reconciler>>

claimStagedAttachments(s) == sweeper[s] = Idle /\
    \E S \in SUBSET {t \in Tickets : Unkept(t)} :
        /\ S # {}
        /\ faults' = faults + Overtaken("file", S) /\ faults' <= Faults
        /\ file' = ClaimedBy(s, file, S)
        /\ sweeper' = [sweeper EXCEPT ![s] = [kind |-> "file", left |-> S, gone |-> None]]
        /\ UNCHANGED <<ticket, admitted, checked, world, reconciler>>

Rest(s, S) == IF S = {} THEN Idle ELSE [sweeper[s] EXCEPT !.left = S, !.gone = None]

(* The rows are taken in turn.                                             *)
InTurn(s) == CHOOSE t \in sweeper[s].left : TRUE

(* mutant of removeObject: a delete that failed passes for one that did not *)
RemoveUnchecked(s) ==
    /\ sweeper[s] # Idle /\ sweeper[s].gone = None
    /\ LET t == InTurn(s) IN
       /\ sweeper' = [sweeper EXCEPT ![s].gone = t]
       /\ \/ store' = [store EXCEPT ![t] = {}] /\ UNCHANGED faults
          \/ /\ faults < Faults /\ faults' = faults + 1
             /\ UNCHANGED store
    /\ UNCHANGED <<rows, upload, writes, checked, reconciler>>
(* Every revision is removed, one at a time: refused half way, the pass    *)
(* leaves the row claimed and goes on.                                     *)
removeObject(s) ==
    /\ sweeper[s] # Idle /\ sweeper[s].gone = None
    /\ LET t == InTurn(s) IN
       \/ /\ store' = [store EXCEPT ![t] = {}]
          /\ sweeper' = [sweeper EXCEPT ![s].gone = t]
          /\ UNCHANGED faults
       \/ /\ faults < Faults /\ faults' = faults + 1
          /\ \E left \in SUBSET store[t] : store' = [store EXCEPT ![t] = left]
          /\ sweeper' = [sweeper EXCEPT ![s] = Rest(s, @.left \ {t})]
    /\ UNCHANGED <<rows, upload, writes, checked, reconciler>>

(* mutant of writeOff: the claim is let go of with the ticket left as it was *)
LetGo(s) ==
    /\ sweeper[s].gone # None
    /\ LET t == sweeper[s].gone IN
       /\ ticket' = [ticket EXCEPT ![t].claim = None]
       /\ sweeper' = [sweeper EXCEPT ![s] = Rest(s, @.left \ {t})]
    /\ UNCHANGED <<admitted, file, checked, world, reconciler, faults>>
(* A ticket is expired if it is still issued, whoever claims it; a file's  *)
(* row goes if it is still staged and still this pass's.                   *)
writeOff(s) ==
    /\ sweeper[s].gone # None
    /\ LET t == sweeper[s].gone
           isFile == sweeper[s].kind = "file"
           expires == ~isFile /\ ticket[t].status = "issued"
           ours == isFile /\ file[t].status = "staged"
                   /\ file[t].claim # None /\ file[t].claim.by = s
       IN /\ ticket' = IF expires
                       THEN [ticket EXCEPT ![t].status = "expired", ![t].claim = None]
                       ELSE ticket
          /\ file' = IF ours THEN [file EXCEPT ![t].status = "removed"] ELSE file
          /\ sweeper' = [sweeper EXCEPT ![s] = Rest(s, @.left \ {t})]
    /\ UNCHANGED <<admitted, checked, world, reconciler, faults>>

(* The process dies, or the transaction fails: its claims stay behind.     *)
sweepDies(s) ==
    /\ sweeper[s] # Idle /\ faults < Faults
    /\ faults' = faults + 1
    /\ sweeper' = [sweeper EXCEPT ![s] = Idle]
    /\ UNCHANGED <<rows, checked, world, reconciler>>

-----------------------------------------------------------------------------
(* The reconciliation: a page of revisions is listed, what the tables say  *)
(* of its key is read, the store is asked for the attachment's own         *)
(* revision, and what is not to stay is removed one at a time.  A key      *)
(* whose writes may still arrive is passed over.                           *)

WritesOver(t) == ticket[t].age = CleanupAge

listRevisions == reconciler.stage = "listed" /\ reconciler.key = None /\
    \E t \in Versioned :
        /\ store[t] # {} /\ WritesOver(t)
        /\ reconciler' = [key |-> t, stage |-> "listed", page |-> store[t], own |-> None]
        /\ UNCHANGED <<rows, checked, world, sweeper, faults>>

factsForKeys ==
    /\ reconciler.stage = "listed" /\ reconciler.key # None
    /\ LET t == reconciler.key IN
       reconciler' = [reconciler EXCEPT !.stage = "known",
           !.own = IF file[t].status \in Held THEN file[t].revision ELSE None]
    /\ UNCHANGED <<rows, checked, world, sweeper, faults>>

(* Which of the page go.                                                   *)
revisionVerdict(page, own, seen) ==
    IF own = None THEN page ELSE {r \in page : seen /\ r # own}

judgeRevisions ==
    /\ reconciler.stage = "known"
    /\ LET seen == reconciler.own \in store[reconciler.key]
           doomed == revisionVerdict(reconciler.page, reconciler.own, seen)
       IN reconciler' = IF doomed = {} THEN Resting
                        ELSE [reconciler EXCEPT !.stage = "judged", !.page = doomed]
    /\ UNCHANGED <<rows, checked, world, sweeper, faults>>

removeRevision == reconciler.stage = "judged" /\ \E r \in reconciler.page :
    /\ store' = [store EXCEPT ![reconciler.key] = @ \ {r}]
    /\ reconciler' = IF reconciler.page = {r} THEN Resting
                     ELSE [reconciler EXCEPT !.page = @ \ {r}]
    /\ UNCHANGED <<rows, upload, writes, checked, sweeper, faults>>

(* A failed call, or a death, ends the pass.                               *)
reconcileStops ==
    /\ reconciler # Resting /\ faults < Faults
    /\ faults' = faults + 1
    /\ reconciler' = Resting
    /\ UNCHANGED <<rows, checked, world, sweeper>>

-----------------------------------------------------------------------------
Older(c) == IF c = None THEN None ELSE [c EXCEPT !.age = Min({@ + 1, Lease + 1})]

(* Time passes.  Nothing arrives past cleanupAfter: the grace is longer    *)
(* than the longest upload a door lets run.                                *)
Tick ==
    /\ ticket' = [t \in Tickets |-> IF ticket[t].status = "none" THEN ticket[t]
          ELSE [ticket[t] EXCEPT !.age = Min({@ + 1, CleanupAge}), !.claim = Older(@)]]
    /\ file' = [t \in Tickets |-> IF file[t].status # "staged" THEN file[t]
          ELSE [file[t] EXCEPT !.age = Min({@ + 1, StagedTtl + 1}), !.claim = Older(@)]]
    /\ upload' = [t \in Tickets |-> IF ticket'[t].age = CleanupAge THEN 0 ELSE upload[t]]
    /\ <<ticket, file, upload>>' # <<ticket, file, upload>>
    /\ UNCHANGED <<admitted, store, writes, checked, passes>>

SweeperStep(s) ==
    \/ claimAbandonedReservations(s) \/ claimStagedAttachments(s)
    \/ removeObject(s) \/ writeOff(s)
ReconcilerStep == listRevisions \/ factsForKeys \/ judgeRevisions \/ removeRevision

Next ==
    \/ \E t \in Tickets :
         \/ \E b \in 1 .. MaxFile : admit(t, b) \/ receiveUpload(t, b)
         \/ insertReservation(t) \/ grantUpload(t) \/ install(t)
         \/ statUpload(t) \/ completeUpload(t) \/ bind(t) \/ retire(t)
    \/ \E s \in Sweepers : SweeperStep(s) \/ sweepDies(s)
    \/ ReconcilerStep \/ reconcileStops
    \/ Tick

(* Clocks run, and the scheduler repeats each pass whatever became of the  *)
(* one before.                                                             *)
Fairness ==
    /\ WF_vars(Tick)
    /\ \A s \in Sweepers : WF_vars(SweeperStep(s))
    /\ WF_vars(ReconcilerStep)

Spec == Init /\ [][Next]_vars /\ Fairness

-----------------------------------------------------------------------------
(* Every variable is of its type. *)
TypeOK ==
    /\ ticket \in [Tickets -> [status : {"none", "issued", "completed", "expired", "failed"},
                               bytes : 0 .. MaxFile, age : 0 .. CleanupAge,
                               granted : BOOLEAN, claim : Claim \cup {None}]]
    /\ admitted \in [Tickets -> 0 .. MaxFile]
    /\ file \in [Tickets -> [status : Held \cup {"none", "removed"},
                             revision : Revision \cup {None}, age : 0 .. StagedTtl + 1,
                             raced : BOOLEAN, claim : Claim \cup {None}]]
    /\ store \in [Tickets -> SUBSET Revision]
    /\ upload \in [Tickets -> 0 .. MaxFile] /\ writes \in [Tickets -> 0 .. Writes]
    /\ checked \in [Tickets -> SUBSET Revision]
    /\ sweeper \in [Sweepers -> [kind : {"idle", "ticket", "file"}, left : SUBSET Tickets,
                                 gone : Tickets \cup {None}]]
    /\ reconciler \in [key : Tickets \cup {None}, stage : {"listed", "known", "judged"},
                       page : SUBSET Revision, own : Revision \cup {None}]
    /\ faults \in 0 .. Faults

(* However admissions, completions and sweeps interleave, what an owner    *)
(* has reserved, staged and stored never adds up past any of the limits    *)
(* (quota.ts:41), nor the tenant's past its own.                           *)
QuotaNeverOversold ==
    /\ \A o \in {Owner[t] : t \in Tickets} :
         LET own == OfOwner(o)
             reserved == SumOf(Reserved, own)
         IN /\ reserved <= ReservedRoom
            /\ reserved + SumOf(Staged, own) <= StagedRoom
            /\ reserved + SumOf(Stored, own) <= StoredRoom
    /\ SumOf(Reserved, Tickets) + SumOf(Stored, Tickets) <= TenantRoom

(* An attachment somebody may still read has the revision that was checked *)
(* when it completed in its store (backend.ts:13): no sweep whose lease    *)
(* has run out and no reconciliation takes it away.  Except for one that   *)
(* completed on a ticket past its cleanupAfter just as the reconciliation, *)
(* which claims nothing, was taking its bytes for abandoned.               *)
KeptReadsBack == \A t \in Tickets :
    \/ file[t].status \notin Held
    \/ file[t].status = "staged" /\ file[t].claim # None
    \/ file[t].raced
    \/ file[t].revision \in store[t]

(* Nothing is left lying: a ticket is settled, used or not, a file nobody  *)
(* keeps goes, and so do the bytes nobody reads, whether written after the *)
(* attachment completed or left behind by a sweep that died (cleanup.ts:17,*)
(* reconcileRevisions; a key that lost the revision its attachment reads   *)
(* is left as it is).                                                      *)
Lingers(t) ==
    \/ ticket[t].status = "issued" \/ file[t].status = "staged"
    \/ /\ store[t] \ {file[t].revision} # {}
       /\ file[t].status \in Held => file[t].revision \in store[t]
NothingLingers == \A t \in Tickets : Lingers(t) ~> ~Lingers(t)

(* Storage keeps what StorageLedger promises: charged from before the      *)
(* first byte may arrive until after the last is gone, never past the room.*)
Ledger == INSTANCE StorageLedger WITH
    OwnerRoom <- StoredRoom,
    charge <- [t \in Tickets |-> Reserved[t] + Stored[t]],
    held <- [t \in Tickets |-> store[t] # {}]
LedgerKept == Ledger!LSpec
=============================================================================
