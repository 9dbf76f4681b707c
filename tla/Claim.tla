------------------------------- MODULE Claim -------------------------------
(***************************************************************************)
(* One claim on one question: what is filed, the rounds that judge it, the *)
(* determinations it stands recognised as, and every act that moves it -   *)
(* its owner's (assessment/core/src/entry/service.ts), the reviewers'      *)
(* (review/service.ts), the staff's (entry/redetermine.ts, interveneOnEntry)*)
(* and those that reach it from outside: the question edited, withdrawn or *)
(* restored (item/service.ts), its owner taken off the roster              *)
(* (entry/exclusion.ts), the patrol.                                       *)
(*                                                                         *)
(* Every act is one transaction under the batch lock, so an atomic action, *)
(* and a refusal is a disabled one.  What is not atomic is a determination *)
(* about to become a fact: the transaction is run once, says what has to   *)
(* be proven, the calculator is asked outside any transaction, and the     *)
(* transaction is run again carrying the identity of what was proven       *)
(* (settleWithProbe).  A save of the question asks the same way what the   *)
(* candidate rule makes of the determinations that stand (the trial).      *)
(*                                                                         *)
(* Where a round stands on its route, and its sittings, are left out: a    *)
(* round here is begun, paused, blocked or concluded.  Who may act is left *)
(* open, except where it depends on the claim's own state.                 *)
(***************************************************************************)
EXTENDS Naturals, Sequences, FiniteSets

CONSTANTS
    Value,         \* what a claim may be recognised as
    None,          \* the null of a nullable column
    Rule,          \* the scoring rules a question may have: the values each scores
    MaxRounds,     \* bounds on the rows a claim gathers
    MaxRecs,
    MaxRevisions,
    MaxEvents,
    MaxItemRevs,
    MaxProofs      \* bound on determinations being proven at once

ASSUME NoneAssumption == None \notin Nat
ASSUME RuleAssumption == Rule \subseteq SUBSET Value
ASSUME ClaimBounds ==
    /\ MaxRounds \in Nat /\ MaxRecs \in Nat /\ MaxRevisions \in Nat
    /\ MaxEvents \in Nat /\ MaxItemRevs \in Nat /\ MaxProofs \in Nat

VARIABLES
    participant,  \* batch_participant.status of the claim's owner
    item,         \* the question: status, rev, and of its live revision the
                  \* review mode and the values its rule scores
    claim,        \* the entry row: status, source, current revision, version
                  \* handed in, round pointer, recognition pointer
    rounds,       \* its review_instances by round number
    recs,         \* its entry_recognitions in the order written
    events,       \* kinds of its redetermination events
    proofs,       \* determinations proven, each with the facts it rests on
    trial         \* the impact report of a candidate configuration

caseVars == <<claim, rounds, recs, events>>
worldVars == <<participant, item>>
vars == <<participant, item, claim, rounds, recs, events, proofs, trial>>

Decided == {"approved", "rejected"}
Status == {"absent", "draft", "in_review", "needs_revision", "voided"} \cup Decided
OpenReviewStates == {"active", "blocked", "awaiting_supplement"}
Ref == Nat \cup {None}
ConclusionTarget == [kind : {"round", "recognition", "revocation"}, id : Nat]

Round == [origin : {"initial", "appeal", "reopen", "reroute"},
          state : OpenReviewStates \cup {"completed"},
          outcome : Decided \cup {"ended", None},
          revision : Nat,                        \* the filing it judges
          target : ConclusionTarget \cup {None}, \* what it contests
          supersedes : Ref,                      \* the round it continues
          begun : BOOLEAN,                       \* somebody has worked on it
          ask : BOOLEAN]                         \* a request for more is open

Recognition == [value : Value, source : {"record", "system", "review", "redetermination"},
                revision : Nat, round : Ref]

Proof == [act : {"record", "submit", "decide", "redetermine"}, value : Value,
          rev : Nat, status : Status, revision : Nat, standing : Ref, open : Ref]

Token == [rev : Nat, status : Status, revision : Nat, standing : Ref, open : Ref,
          scores : SUBSET Value]

\* a null column is no row
ASSUME NoneIsNoRow == None \notin ConclusionTarget /\ None \notin Token

\* The tables' types, and the two checks on a claim: once a claim is handed
\* in the filing handed in is named (chk_entries_handed_in), and an approved
\* claim has a recognition (chk_entries_approved_has_recognition), whatever
\* of the many approvals and returns got it there.
TypeOK ==
    /\ participant \in {"active", "excluded"}
    /\ item \in [status : {"active", "voided"}, rev : Nat,
                 mode : {"none", "workflow"}, scores : SUBSET Value]
    /\ claim \in [status : Status, source : {"self", "record"}, revision : Nat,
                  handed : Nat, current : Ref, standing : Ref]
    /\ claim.status \in {"in_review", "approved", "rejected", "needs_revision"} => claim.handed # 0
    /\ claim.status = "approved" => claim.standing # None
    /\ rounds \in Seq(Round)
    /\ recs \in Seq(Recognition)
    /\ events \in Seq({"recognition-corrected", "approval-revoked", "rejection-overturned"})
    /\ proofs \subseteq Proof
    /\ trial \in Token \cup {None}

Init ==
    /\ participant = "active"
    /\ item \in [status : {"active"}, rev : {1}, mode : {"none", "workflow"}, scores : Rule]
    /\ claim = [status |-> "absent", source |-> "self", revision |-> 0,
                handed |-> 0, current |-> None, standing |-> None]
    /\ rounds = <<>> /\ recs = <<>> /\ events = <<>>
    /\ proofs = {} /\ trial = None

-----------------------------------------------------------------------------
(***************************************************************************)
(* Questions asked of the claim.                                           *)
(***************************************************************************)
Ended(r) == r.state = "completed"

\* the rounds still running: at most one, by the partial unique index
OpenRounds == {i \in DOMAIN rounds : ~Ended(rounds[i])}
hasOpenRound == OpenRounds # {}
openRoundOf == IF hasOpenRound THEN CHOOSE i \in OpenRounds : TRUE ELSE None

Contests(r) == r.origin \in {"appeal", "reopen"}

\* a round that reached a verdict, as against one that was ended
Concluded(r) == Ended(r) /\ r.outcome \in Decided

\* conclusionOf: what a decided claim stands on - its round, if that judged
\* the current filing; otherwise a determination staff made, or the
\* revocation that was the last word
StandsOn(t) ==
    CASE t.kind = "round" ->
            /\ claim.status \in Decided /\ claim.current = t.id
            /\ Concluded(rounds[t.id]) /\ rounds[t.id].revision = claim.revision
      [] t.kind = "recognition" ->
            /\ claim.status = "approved" /\ claim.current = None /\ claim.standing = t.id
            /\ recs[t.id].source \in {"record", "redetermination"}
      [] t.kind = "revocation" ->
            /\ claim.status = "rejected" /\ claim.current = None
            /\ t.id = Len(events) /\ events[t.id] = "approval-revoked"

Targets ==
    [kind : {"round"}, id : DOMAIN rounds] \cup [kind : {"recognition"}, id : DOMAIN recs]
        \cup [kind : {"revocation"}, id : DOMAIN events]

Conclusions == {t \in Targets : StandsOn(t)}

\* mutant of Exhausted: only an appeal against this very conclusion counts
Contested(t) == \E i \in DOMAIN rounds :
    rounds[i].origin = "appeal" /\ rounds[i].target = t /\ Concluded(rounds[i])

\* the one appeal a conclusion has is spent
Exhausted(t) ==
    \/ t.kind = "round" /\ rounds[t.id].origin = "appeal"
    \/ \E i \in DOMAIN rounds :
          rounds[i].origin = "appeal" /\ rounds[i].target = t /\ Concluded(rounds[i])

\* the round and the rounds it continues, back along supersedes
Lineage(i) ==
    LET back[j \in 0..Len(rounds)] ==
            IF j = 0 THEN {}
            ELSE {j} \cup back[IF rounds[j].supersedes = None THEN 0 ELSE rounds[j].supersedes]
    IN  back[i]

\* withdrawStandingsOf: review has begun, in this round or one it continues
Begun(i) == \E j \in Lineage(i) : rounds[j].begun

\* mutant of ownerMayRefile: the question is not asked
OwnerStillIn == participant = "active"

\* on the roster and the question live; what the phase says is left open
ownerMayRefile == participant = "active" /\ item.status = "active"

\* the verdict a conclusion gave
VerdictOf(t) ==
    CASE t.kind = "round" -> rounds[t.id].outcome
      [] t.kind = "recognition" -> "approved"
      [] t.kind = "revocation" -> "rejected"

\* mutant of settledBy: what the claim stands as now, for whichever round
SettledNow(i) == {recs[n].value : n \in {n \in DOMAIN recs : n = claim.standing}}

\* the determination a round settled, in a set of one or none
settledBy(i) == {recs[n].value : n \in {n \in DOMAIN recs : recs[n].round = i}}

\* roundEffectOf: what a round that revisited a conclusion did to it, read
\* off the rows long after; "none" where it revisited or concluded nothing
roundEffectOf(i) ==
    LET t == rounds[i].target
        before == IF t.kind = "recognition" THEN {recs[t.id].value} ELSE settledBy(t.id)
    IN  IF ~Contests(rounds[i]) \/ ~Concluded(rounds[i]) THEN "none"
        ELSE IF rounds[i].outcome = "rejected"
             THEN IF VerdictOf(t) = "approved" THEN "revoked" ELSE "upheld"
        ELSE IF VerdictOf(t) = "rejected" THEN "overturned"
        ELSE IF settledBy(i) # {} /\ settledBy(i) = before THEN "upheld" ELSE "corrected"

-----------------------------------------------------------------------------
(***************************************************************************)
(* The writes the acts are made of.                                        *)
(***************************************************************************)

\* cancelReviewInstance on a round that is open: the round is over without a
\* verdict, and its ask with it
CancelRound(i) ==
    [rounds EXCEPT ![i] = [@ EXCEPT !.state = "completed", !.outcome = "ended", !.ask = FALSE]]

\* cancelReviewInstance on the round the claim points at, if it is open
CancelCurrent ==
    IF claim.current \in OpenRounds THEN CancelRound(claim.current) ELSE rounds

\* insertReviewInstance: the round arrives at its first step, staffed or not
NewRound(state, origin, target, supersedes, revision) ==
    [origin |-> origin, state |-> state, outcome |-> None, revision |-> revision,
     target |-> target, supersedes |-> supersedes, begun |-> FALSE, ask |-> FALSE]

\* insertRecognition: appended, the pointer follows in the same statement
Recognise(value, source, revision, round) ==
    /\ Len(recs) < MaxRecs
    /\ recs' = Append(recs, [value |-> value, source |-> source,
                             revision |-> revision, round |-> round])

(***************************************************************************)
(* probeIdentity: the facts a proof rests on, per act.  A fact the act does*)
(* not name is left at its initial value.                                  *)
(***************************************************************************)
Identity(act, value) ==
    [act |-> act, value |-> value, rev |-> item.rev, status |-> "absent",
     revision |-> 0, standing |-> None, open |-> None]

SubmitIdentity(value) ==
    [Identity("submit", value) EXCEPT !.revision = claim.revision, !.standing = claim.standing]
DecideIdentity(i, value) ==
    [Identity("decide", value) EXCEPT !.standing = claim.standing, !.open = i]
RedetermineIdentity(value) ==
    [Identity("redetermine", value) EXCEPT !.status = claim.status,
                                           !.standing = claim.standing, !.open = openRoundOf]

\* the first run and the calculator's answer: the live rule scores the value
Prove(identity) ==
    /\ Cardinality(proofs) < MaxProofs
    /\ identity.value \in item.scores
    /\ proofs' = proofs \cup {identity}
    /\ UNCHANGED <<worldVars, caseVars, trial>>

\* the second run: every fact the proof rests on still stands
Proven(identity) ==
    /\ identity \in proofs
    /\ proofs' = proofs \ {identity}

\* the act is given up, or its facts moved and it is told so
DropProof ==
    /\ \E p \in proofs : proofs' = proofs \ {p}
    /\ UNCHANGED <<worldVars, caseVars, trial>>

-----------------------------------------------------------------------------
(***************************************************************************)
(* Filing and its owner's acts.                                            *)
(***************************************************************************)

\* createEntry by the owner: a draft with its first revision
CreateEntry ==
    /\ claim.status = "absent"
    /\ participant = "active" /\ item.status = "active"
    /\ claim' = [claim EXCEPT !.status = "draft", !.revision = 1]
    /\ UNCHANGED <<worldVars, rounds, recs, events, proofs, trial>>

MayRecord ==
    claim.status = "absent" /\ participant = "active" /\ item.status = "active"

ProveRecord(value) == MayRecord /\ Prove(Identity("record", value))

\* createEntry by the office: approved the moment it is written
RecordEntry(value) ==
    /\ MayRecord
    /\ Proven(Identity("record", value))
    /\ Recognise(value, "record", 1, None)
    /\ claim' = [claim EXCEPT !.status = "approved", !.source = "record", !.revision = 1,
                              !.handed = 1, !.standing = Len(recs) + 1]
    /\ UNCHANGED <<worldVars, rounds, events, trial>>

MayEdit ==
    /\ claim.status \in {"draft", "rejected", "needs_revision"}
    /\ claim.source = "self" /\ participant = "active" /\ item.status = "active"
    /\ ~hasOpenRound

\* appendEntryRevision
Edit ==
    /\ MayEdit
    /\ claim.revision < MaxRevisions
    /\ claim' = [claim EXCEPT !.status = "draft", !.revision = @ + 1]
    /\ UNCHANGED <<worldVars, rounds, recs, events, proofs, trial>>

MaySubmit ==
    /\ claim.status \in {"draft", "rejected"}
    /\ claim.source = "self" /\ participant = "active" /\ item.status = "active"
    /\ ~hasOpenRound

\* setEntryStatus to in_review: a first round on the ordinary route
Submit ==
    /\ MaySubmit /\ item.mode = "workflow"
    /\ Len(rounds) < MaxRounds
    /\ \E state \in {"active", "blocked"} :
          rounds' = Append(rounds, NewRound(state, "initial", None, None, claim.revision))
    /\ claim' = [claim EXCEPT !.status = "in_review", !.handed = claim.revision,
                              !.current = Len(rounds) + 1]
    /\ UNCHANGED <<worldVars, recs, events, proofs, trial>>

ProveSubmit(value) == MaySubmit /\ item.mode = "none" /\ Prove(SubmitIdentity(value))

\* mutant of ApprovedByRule: the refused round stays attached
ApprovedAside ==
    [claim EXCEPT !.status = "approved", !.handed = claim.revision, !.standing = Len(recs) + 1]

\* mutant of ApprovedByRule: the filing decided upon is not written down
ApprovedUnmarked ==
    [claim EXCEPT !.status = "approved", !.current = None, !.standing = Len(recs) + 1]

\* an approval by rule replaces whatever the claim stood on
ApprovedByRule ==
    [claim EXCEPT !.status = "approved", !.handed = claim.revision,
                  !.current = None, !.standing = Len(recs) + 1]

\* setEntryStatus to in_review on a question that answers to nobody
SubmitByRule(value) ==
    /\ MaySubmit /\ item.mode = "none"
    /\ Proven(SubmitIdentity(value))
    /\ Recognise(value, "system", claim.revision, None)
    /\ claim' = ApprovedByRule
    /\ UNCHANGED <<worldVars, rounds, events, trial>>

\* setEntryStatus to voided: a live round is closed first
Abandon ==
    /\ claim.status \notin {"absent", "voided"}
    /\ claim.source = "self" /\ participant = "active"
    /\ claim.status = "in_review" => claim.current \in OpenRounds
    /\ rounds' = CancelCurrent
    /\ claim' = [claim EXCEPT !.status = "voided", !.current = None]
    /\ UNCHANGED <<worldVars, recs, events, proofs, trial>>

\* mutant of MayWithdraw: only the round at hand is looked at
MayWithdrawRerouted(i) == rounds[i].origin # "appeal" /\ ~rounds[i].begun

\* no appeal is withdrawn, and nothing anybody has worked on
MayWithdraw(i) == rounds[i].origin # "appeal" /\ ~Begun(i)

\* setEntryStatus to draft
Withdraw ==
    /\ participant = "active"
    /\ hasOpenRound /\ claim.current \in OpenRounds
    /\ MayWithdraw(claim.current)
    /\ claim.status = "in_review"
    /\ rounds' = CancelRound(claim.current)
    /\ claim' = [claim EXCEPT !.status = "draft", !.current = None]
    /\ UNCHANGED <<worldVars, recs, events, proofs, trial>>

-----------------------------------------------------------------------------
(***************************************************************************)
(* The round: words, verdicts, asks, and the patrol.                       *)
(***************************************************************************)

\* decideReview, a word that ends nothing: a step confirmed, a ballot, an
\* opinion handed upward
Word(i) ==
    /\ rounds[i].state \in {"active", "blocked"}
    /\ \E state \in {"active", "blocked"} :
          rounds' = [rounds EXCEPT ![i] = [@ EXCEPT !.begun = TRUE, !.state = state]]
    /\ UNCHANGED <<worldVars, claim, recs, events, proofs, trial>>

ProveDecide(i, value) == rounds[i].state = "active" /\ Prove(DecideIdentity(i, value))

\* the compare-and-set of concludeClaim
Standing(i) == claim.status \in Decided \cup {"in_review"} /\ claim.current = i

\* completeInstance and concludeClaim: the one place a round moves the claim
Conclude(i, verdict) ==
    /\ rounds[i].state = "active"
    /\ Standing(i)
    /\ rounds' = [rounds EXCEPT ![i] =
                    [@ EXCEPT !.state = "completed", !.outcome = verdict, !.begun = TRUE]]

\* decideReview, the word that ends the round in an approval
DecideApprove(i, value) ==
    /\ Proven(DecideIdentity(i, value))
    /\ Conclude(i, "approved")
    /\ Recognise(value, "review", rounds[i].revision, i)
    /\ claim' = [claim EXCEPT !.status = "approved", !.standing = Len(recs) + 1]
    /\ UNCHANGED <<worldVars, events, trial>>

\* and in a refusal: it determines nothing, so it proves nothing
DecideReject(i) ==
    /\ Conclude(i, "rejected")
    /\ claim' = [claim EXCEPT !.status = "rejected"]
    /\ UNCHANGED <<worldVars, recs, events, proofs, trial>>

requestSupplement(i) ==
    /\ rounds[i].state = "active"
    /\ rounds' = [rounds EXCEPT ![i] =
                    [@ EXCEPT !.state = "awaiting_supplement", !.ask = TRUE, !.begun = TRUE]]
    /\ UNCHANGED <<worldVars, claim, recs, events, proofs, trial>>

cancelSupplement(i) ==
    /\ rounds[i].state = "awaiting_supplement" /\ rounds[i].ask
    /\ rounds' = [rounds EXCEPT ![i] = [@ EXCEPT !.state = "active", !.ask = FALSE]]
    /\ UNCHANGED <<worldVars, claim, recs, events, proofs, trial>>

\* mutant of answerSupplement: the round starts over
AnswerAnew(i) ==
    /\ participant = "active"
    /\ rounds[i].state = "awaiting_supplement" /\ rounds[i].ask
    /\ \E state \in {"active", "blocked"} :
          rounds' = [rounds EXCEPT ![i] = [@ EXCEPT !.state = state, !.ask = FALSE, !.begun = FALSE]]
    /\ UNCHANGED <<worldVars, claim, recs, events, proofs, trial>>

\* a sitting that had voted is constituted again, and may find nobody
answerSupplement(i) ==
    /\ participant = "active"
    /\ rounds[i].state = "awaiting_supplement" /\ rounds[i].ask
    /\ \E state \in {"active", "blocked"} :
          rounds' = [rounds EXCEPT ![i] = [@ EXCEPT !.state = state, !.ask = FALSE]]
    /\ UNCHANGED <<worldVars, claim, recs, events, proofs, trial>>

\* patrolReviewRounds: a step nobody holds is blocked, and released again
Patrol(i) ==
    /\ \/ rounds[i].state = "active" /\ rounds' = [rounds EXCEPT ![i].state = "blocked"]
       \/ rounds[i].state = "blocked" /\ rounds' = [rounds EXCEPT ![i].state = "active"]
    /\ UNCHANGED <<worldVars, claim, recs, events, proofs, trial>>

-----------------------------------------------------------------------------
(***************************************************************************)
(* Contesting and correcting a conclusion.                                 *)
(***************************************************************************)

\* openContestingRound: the claim keeps the standing it had
OpenContestingRound(origin, t) ==
    /\ ~hasOpenRound
    /\ item.status = "active" /\ participant = "active"
    /\ item.mode = "workflow"
    /\ Len(rounds) < MaxRounds
    /\ \E state \in {"active", "blocked"} :
          rounds' = Append(rounds, NewRound(state, origin, t, None, claim.revision))
    /\ claim' = [claim EXCEPT !.current = Len(rounds) + 1]
    /\ UNCHANGED <<worldVars, recs, events, proofs, trial>>

\* appealEntry, by the owner: once per conclusion
Appeal(t) == t \in Conclusions /\ ~Exhausted(t) /\ OpenContestingRound("appeal", t)

\* reopenEntry, by staff: not the owner's appeal, and does not spend it
Reopen(t) == t \in Conclusions /\ OpenContestingRound("reopen", t)

\* the determination a claim stands recognised as, if any
Recognised(value) == claim.standing # None /\ recs[claim.standing].value = value

MayRedetermine(value) ==
    /\ claim.status \in Decided /\ item.status = "active"
    /\ ~(claim.status = "approved" /\ Recognised(value))

ProveRedetermine(value) == MayRedetermine(value) /\ Prove(RedetermineIdentity(value))

\* the round still contesting the claim ends on the record
EndContest == IF hasOpenRound THEN CancelRound(openRoundOf) ELSE rounds

\* redetermineEntry: approved, as something it was not
Redetermine(value) ==
    /\ MayRedetermine(value)
    /\ Proven(RedetermineIdentity(value))
    /\ Len(events) < MaxEvents
    /\ Recognise(value, "redetermination", claim.revision, None)
    /\ rounds' = EndContest
    /\ claim' = [claim EXCEPT !.status = "approved", !.current = None,
                              !.standing = Len(recs) + 1]
    /\ events' = Append(events, IF claim.status = "rejected" THEN "rejection-overturned"
                                ELSE "recognition-corrected")
    /\ UNCHANGED <<worldVars, trial>>

\* redetermineEntry: an approval revoked, which writes no determination
Revoke ==
    /\ claim.status = "approved" /\ item.status = "active"
    /\ Len(events) < MaxEvents
    /\ rounds' = EndContest
    /\ claim' = [claim EXCEPT !.status = "rejected", !.current = None]
    /\ events' = Append(events, "approval-revoked")
    /\ UNCHANGED <<worldVars, recs, proofs, trial>>

\* interveneOnEntry, sending a claim back for revision
Return ==
    /\ claim.status \in {"in_review", "approved"} /\ claim.source = "self"
    /\ claim.status = "approved" => ownerMayRefile
    /\ rounds' = CancelCurrent
    /\ claim' = [claim EXCEPT !.status = "needs_revision", !.current = None]
    /\ UNCHANGED <<worldVars, recs, events, proofs, trial>>

\* interveneOnEntry, withdrawing a fact the office recorded
VoidRecord ==
    /\ claim.source = "record" /\ claim.status # "voided"
    /\ rounds' = CancelCurrent
    /\ claim' = [claim EXCEPT !.status = "voided",
                              !.current = IF @ \in OpenRounds THEN None ELSE @]
    /\ UNCHANGED <<worldVars, recs, events, proofs, trial>>

-----------------------------------------------------------------------------
(***************************************************************************)
(* What reaches the claim from outside.                                    *)
(***************************************************************************)

\* what a claim stood on before round i contested it: the round it names, or
\* none when it contested a determination or a revocation
StoodBefore(i) ==
    IF rounds[i].target # None /\ rounds[i].target.kind = "round"
    THEN rounds[i].target.id ELSE None

\* repointReviewRound, a compare-and-set on the pointer
Repointed(i, to) == [claim EXCEPT !.current = IF @ = i THEN to ELSE @]

\* setItemStatus to voided: open work dies with the question, decided work
\* stands, and a contested claim stands on what was contested
VoidItem ==
    /\ item.status = "active"
    /\ item' = [item EXCEPT !.status = "voided"]
    /\ IF claim.status \in {"draft", "in_review", "needs_revision"}
       THEN /\ rounds' = CancelCurrent
            /\ claim' = [claim EXCEPT !.status = "voided"]
       ELSE IF hasOpenRound
       THEN /\ rounds' = CancelRound(openRoundOf)
            /\ claim' = Repointed(openRoundOf, StoodBefore(openRoundOf))
       ELSE UNCHANGED <<rounds, claim>>
    /\ UNCHANGED <<participant, recs, events, proofs, trial>>

\* setItemStatus back to active
RestoreItem ==
    /\ item.status = "voided"
    /\ item' = [item EXCEPT !.status = "active"]
    /\ UNCHANGED <<participant, caseVars, proofs, trial>>

\* setParticipantStatus to excluded, with endRoundsOfExcluded
Exclude ==
    /\ participant = "active"
    /\ participant' = "excluded"
    /\ IF hasOpenRound
       THEN LET i == openRoundOf IN
            /\ rounds' = CancelRound(i)
            /\ claim' = IF Contests(rounds[i]) THEN Repointed(i, StoodBefore(i))
                        ELSE IF claim.status = "in_review" /\ claim.current = i
                        THEN [claim EXCEPT !.status = "draft", !.current = None]
                        ELSE claim
       ELSE UNCHANGED <<rounds, claim>>
    /\ UNCHANGED <<item, recs, events, proofs, trial>>

Readmit ==
    /\ participant = "excluded"
    /\ participant' = "active"
    /\ UNCHANGED <<item, caseVars, proofs, trial>>

Live == claim.status \in {"in_review", "approved"}

\* mutant of impactToken: the determination is not part of the state counted
ImpactOfFilings(scores) ==
    [rev |-> item.rev, scores |-> scores, open |-> openRoundOf,
     status |-> IF Live THEN claim.status ELSE "absent",
     revision |-> IF Live THEN claim.revision ELSE 0,
     standing |-> None]

\* impactToken: the candidate and the state its report was counted from
impactToken(scores) ==
    [rev |-> item.rev, scores |-> scores, open |-> openRoundOf,
     status |-> IF Live THEN claim.status ELSE "absent",
     revision |-> IF Live THEN claim.revision ELSE 0,
     standing |-> IF Live THEN claim.standing ELSE None]

\* a determination the candidate's arithmetic is owed a trial on
TrialOwed(scores) ==
    scores # item.scores /\ claim.status = "approved" /\ claim.standing # None

\* updateItem, the pass that stops to ask: the report, and the trial if owed;
\* a candidate that cannot score what stands is refused here
Report(scores) ==
    /\ item.status = "active" /\ item.rev < MaxItemRevs
    /\ Live \/ hasOpenRound
    /\ TrialOwed(scores) => recs[claim.standing].value \in scores
    /\ trial' = impactToken(scores)
    /\ UNCHANGED <<worldVars, caseVars, proofs>>

SaveRevision(mode, scores) ==
    /\ item.status = "active" /\ item.rev < MaxItemRevs
    /\ item' = [item EXCEPT !.rev = @ + 1, !.mode = mode, !.scores = scores]

\* updateItem, nobody's work disturbed
Save(mode, scores) ==
    /\ SaveRevision(mode, scores)
    /\ TrialOwed(scores) => trial = impactToken(scores)
    /\ trial' = None
    /\ UNCHANGED <<participant, caseVars, proofs>>

\* propagate: a claim the new form cannot read is sent back, as the answer to
\* the report says
SaveAndReturn(mode, scores) ==
    /\ SaveRevision(mode, scores)
    /\ trial = impactToken(scores)
    /\ Live /\ claim.source = "self"
    /\ rounds' = EndContest
    /\ claim' = [claim EXCEPT !.status = "needs_revision", !.current = None]
    /\ trial' = None
    /\ UNCHANGED <<participant, recs, events, proofs>>

\* mutant of Rerouted: a moved round is an ordinary one
ReroutedPlain(i, state) == NewRound(state, "reroute", rounds[i].target, i, rounds[i].revision)

\* a round keeps what it is across a re-route, and what it contests
Rerouted(i, state) ==
    NewRound(state, IF Contests(rounds[i]) THEN rounds[i].origin ELSE "reroute",
             rounds[i].target, i, rounds[i].revision)

\* propagate: the open round is moved onto the new policy
SaveAndReroute(scores) ==
    /\ SaveRevision("workflow", scores)
    /\ trial = impactToken(scores)
    /\ hasOpenRound /\ claim.current = openRoundOf
    /\ Len(rounds) < MaxRounds
    /\ \E state \in {"active", "blocked"} :
          rounds' = Append(CancelRound(openRoundOf), Rerouted(openRoundOf, state))
    /\ claim' = [claim EXCEPT !.current = Len(rounds) + 1]
    /\ trial' = None
    /\ UNCHANGED <<participant, recs, events, proofs>>

-----------------------------------------------------------------------------
OwnerAct ==
    \/ CreateEntry \/ Edit \/ Submit \/ Abandon \/ Withdraw
    \/ \E value \in Value : ProveSubmit(value) \/ SubmitByRule(value)
    \/ \E i \in DOMAIN rounds : answerSupplement(i)
    \/ \E t \in Targets : Appeal(t)

ReviewAct ==
    \E i \in DOMAIN rounds :
        \/ Word(i) \/ DecideReject(i) \/ requestSupplement(i) \/ cancelSupplement(i) \/ Patrol(i)
        \/ \E value \in Value : ProveDecide(i, value) \/ DecideApprove(i, value)

StaffAct ==
    \/ \E value \in Value : \/ ProveRecord(value) \/ RecordEntry(value)
                            \/ ProveRedetermine(value) \/ Redetermine(value)
    \/ Revoke \/ Return \/ VoidRecord
    \/ \E t \in Targets : Reopen(t)

OutsideAct ==
    \/ VoidItem \/ RestoreItem \/ Exclude \/ Readmit
    \/ \E scores \in Rule :
          \/ Report(scores) \/ SaveAndReroute(scores)
          \/ \E mode \in {"none", "workflow"} : Save(mode, scores) \/ SaveAndReturn(mode, scores)

Next == OwnerAct \/ ReviewAct \/ StaffAct \/ OutsideAct \/ DropProof

Spec == Init /\ [][Next]_vars

-----------------------------------------------------------------------------
(***************************************************************************)
(* What is meant to hold.                                                  *)
(***************************************************************************)

\* A claim and its open round move together: there is at most one, the claim
\* points at it, and the claim is in review exactly when that round is a first
\* look - a round contesting a decision leaves the claim its verdict meanwhile.
\* Redetermination, exclusion, the question and the patrol all reach rounds.
StandsOnItsRound ==
    /\ Cardinality(OpenRounds) <= 1
    /\ claim.status = "in_review" => hasOpenRound
    /\ \A i \in OpenRounds :
          /\ claim.current = i
          /\ IF Contests(rounds[i]) THEN claim.status = VerdictOf(rounds[i].target)
             ELSE claim.status = "in_review"

\* A decided claim with no round running stands on a conclusion its owner can
\* contest, one that says what the claim says; only an approval by rule has
\* nobody to appeal from, and an approved claim counts as what was determined
\* of the filing that stands.  However many contests were cut short by a voided
\* question or an exclusion, the claim is put back on what it stood on.
NeverStranded ==
    claim.status \in Decided /\ ~hasOpenRound =>
        /\ \A t \in Conclusions : VerdictOf(t) = claim.status
        /\ claim.status = "approved" => recs[claim.standing].revision = claim.revision
        /\ Conclusions # {} \/ ( /\ claim.status = "approved" /\ claim.current = None
                                /\ recs[claim.standing].source = "system")

\* A conclusion is appealed to a verdict once, and the verdict of an appeal
\* never: not through a re-route of it, not after the question was voided and
\* restored, not through a contest that was cut short.
OneAppealPerConclusion ==
    LET Appeals == {i \in DOMAIN rounds : rounds[i].origin = "appeal"} IN
    /\ \A i, j \in Appeals :
          Concluded(rounds[i]) /\ Concluded(rounds[j]) /\ rounds[i].target = rounds[j].target => i = j
    /\ \A i \in Appeals :
          rounds[i].target.kind = "round" => Lineage(rounds[i].target.id) \cap Appeals = {}

\* What an approved claim counts as is something the question's live rule
\* scores - though the rule may have been edited between the proof and the
\* write, and the claim moved between the report on the edit and the edit.
ApprovedIsScorable ==
    claim.status = "approved" => claim.standing # None /\ recs[claim.standing].value \in item.scores

\* A withdrawn question and an owner off the roster leave no work behind: no
\* round runs, nothing waits for a reviewer, and on a withdrawn question
\* nothing waits for its owner either.
QuietOnceClosed ==
    /\ item.status = "voided" =>
          ~hasOpenRound /\ claim.status \notin {"draft", "in_review", "needs_revision"}
    /\ participant = "excluded" => ~hasOpenRound /\ claim.status # "in_review"

\* A round waits for an answer exactly while a request for one is open: no way
\* a round can end leaves its owner asked for something nobody will read.
AskedWhileWaiting ==
    \A i \in DOMAIN rounds : rounds[i].ask <=> rounds[i].state = "awaiting_supplement"

\* A claim taken back by its owner takes back nothing anybody worked on, in
\* the round at hand or in the rounds it was re-routed from, and no verdict.
WorkNeverWithdrawn == [][
    claim.status \in Decided \cup {"in_review"} /\ claim'.status = "draft"
        /\ participant' = participant =>
        IF claim.status = "in_review" THEN ~Begun(claim.current)
        ELSE claim.status = "rejected" /\ claim'.revision > claim.revision ]_vars

\* Where the claim stood and as what, before and after a verdict
Moved(from, to, was, is) ==
    CASE from = "approved" /\ to = "rejected" -> "revoked"
      [] from = "rejected" /\ to = "approved" -> "overturned"
      [] from = "approved" /\ to = "approved" /\ was # is -> "corrected"
      [] OTHER -> "upheld"

\* The effect the history derives for a concluded contest is what happened to
\* the claim the moment it concluded, through re-routes of the contest and
\* re-determinations before it.
EffectIsTrue == [][
    \A i \in OpenRounds : Contests(rounds[i]) /\ Concluded(rounds'[i]) =>
        roundEffectOf(i)' =
            Moved(claim.status, claim'.status,
                  IF claim.standing = None THEN None ELSE recs[claim.standing].value,
                  IF claim'.standing = None THEN None ELSE recs'[claim'.standing].value) ]_vars

\* Every round of the claim lives the life RoundLife allows it, and what it
\* judges, contests and continues never changes: whatever act reaches it -
\* its owner's, staff's, a save or a withdrawal of the question, an exclusion,
\* the patrol - does to the row what ReviewRound does to its own.
Life(i) == INSTANCE RoundLife WITH
    state <- rounds[i].state, outcome <- rounds[i].outcome,
    fresh <- ~Ended(rounds[i]) /\ ~rounds[i].begun, asked <- rounds[i].ask
Subject(r) == <<r.origin, r.revision, r.target, r.supersedes>>
LivesKept == [][
    /\ \A i \in DOMAIN rounds :
          /\ i \in DOMAIN rounds' /\ Subject(rounds'[i]) = Subject(rounds[i])
          /\ Life(i)!LNext \/ rounds'[i] = rounds[i]
    /\ \A i \in DOMAIN rounds' \ DOMAIN rounds : Life(i)!LInit' ]_rounds
=============================================================================
