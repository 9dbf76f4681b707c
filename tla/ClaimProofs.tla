---------------------------- MODULE ClaimProofs ----------------------------
(***************************************************************************)
(* What TLAPS proves of Claim: for every set of values and rules and every *)
(* bound on the rows a claim gathers, a claim and its round move together, *)
(* a decided claim stands on something its owner can contest, a conclusion *)
(* is appealed once, and an approved claim counts as what the rule scores. *)
(***************************************************************************)
EXTENDS Claim, FiniteSetTheorems, WellFoundedInduction, TLAPS

-----------------------------------------------------------------------------
(***************************************************************************)
(* The inductive invariant.  None of the properties is inductive: that a   *)
(* cut-short contest puts the claim back on what it stood on needs the     *)
(* footing kept, unseen, while the contest runs; that an appeal is spent   *)
(* needs an open appeal to know no concluded one; that the live rule       *)
(* scores what was approved needs what a proof and a report were made of.  *)
(***************************************************************************)
Typed ==
    /\ TypeOK
    /\ claim.status # "absent" => claim.revision # 0
    /\ claim.source = "record" => claim.status # "absent"

\* what a contesting round names is there
Refers(t) ==
    /\ t \in ConclusionTarget
    /\ t.kind = "round" => t.id \in DOMAIN rounds /\ Concluded(rounds[t.id])
    /\ t.kind = "recognition" => t.id \in DOMAIN recs
    /\ t.kind = "revocation" => t.id \in DOMAIN events

\* what the rows point at is there, and a round settles one determination
Recorded ==
    /\ \A n \in DOMAIN recs : recs[n].round # None =>
          /\ recs[n].round \in DOMAIN rounds /\ Concluded(rounds[recs[n].round])
          /\ \A m \in DOMAIN recs : recs[m].round = recs[n].round => m = n
    /\ claim.standing # None => claim.standing \in DOMAIN recs
    /\ \A i \in DOMAIN rounds : Contests(rounds[i]) => Refers(rounds[i].target)

\* what a decided claim stands on when c is the round it points at, or none
StandsAs(c) ==
    /\ c # None =>
          /\ c \in DOMAIN rounds /\ Concluded(rounds[c])
          /\ rounds[c].outcome = claim.status /\ rounds[c].revision = claim.revision
          /\ claim.status = "approved" => recs[claim.standing].round = c
    /\ c = None /\ claim.status = "approved" =>
          recs[claim.standing].source \in {"record", "redetermination", "system"}
    /\ c = None /\ claim.status = "rejected" =>
          Len(events) # 0 /\ events[Len(events)] = "approval-revoked"

\* what a contested claim still stands on
HeldBy(t) ==
    /\ t.kind = "round" => StandsAs(t.id)
    /\ t.kind = "recognition" =>
          /\ claim.status = "approved" /\ claim.standing = t.id
          /\ recs[t.id].source \in {"record", "redetermination"}
    /\ t.kind = "revocation" =>
          claim.status = "rejected" /\ t.id = Len(events) /\ events[t.id] = "approval-revoked"

\* the footing of a claim, with a round running and without
Footing ==
    /\ \A i \in OpenRounds :
          /\ claim.current = i /\ rounds[i].revision = claim.revision
          /\ Contests(rounds[i]) => claim.status \in Decided /\ HeldBy(rounds[i].target)
          /\ ~Contests(rounds[i]) => claim.status = "in_review"
    /\ claim.status = "in_review" => hasOpenRound
    /\ claim.status \in Decided /\ ~hasOpenRound => StandsAs(claim.current)
    /\ claim.status = "approved" => recs[claim.standing].revision = claim.revision
    /\ claim.status = "absent" => claim.current = None

\* a re-route keeps an appeal an appeal
Continued ==
    \A i \in DOMAIN rounds : rounds[i].supersedes # None =>
        /\ rounds[i].supersedes \in DOMAIN rounds /\ rounds[i].supersedes < i
        /\ rounds[rounds[i].supersedes].origin = "appeal" <=> rounds[i].origin = "appeal"

\* an appeal that runs, or concluded, is the only one that can conclude
Appealed ==
    /\ \A i, j \in DOMAIN rounds :
          /\ rounds[i].origin = "appeal" /\ rounds[j].origin = "appeal"
          /\ rounds[i].target = rounds[j].target /\ Concluded(rounds[i])
          /\ ~Ended(rounds[j]) \/ Concluded(rounds[j])
          => i = j
    /\ \A i \in DOMAIN rounds :
          rounds[i].origin = "appeal" /\ rounds[i].target.kind = "round" =>
              rounds[rounds[i].target.id].origin # "appeal"

\* what was proven, reported and approved, the rule it was asked of scores
Scored ==
    /\ ApprovedIsScorable
    /\ \A p \in proofs : p.rev <= item.rev /\ (p.rev = item.rev => p.value \in item.scores)
    /\ trial # None /\ trial.status = "approved" =>
          /\ trial.standing # None /\ trial.standing \in DOMAIN recs
          /\ recs[trial.standing].value \in trial.scores

\* the whole of it
Sound ==
    /\ Typed /\ Recorded /\ Footing /\ Continued /\ Appealed
    /\ AskedWhileWaiting /\ QuietOnceClosed /\ Scored

-----------------------------------------------------------------------------
(***************************************************************************)
(* The writes the acts are made of.                                        *)
(***************************************************************************)

(* The round a claim has open is one of its rows.                          *)
LEMMA OpenIsARow ==
    ASSUME Typed
    PROVE  /\ OpenRounds \subseteq DOMAIN rounds
           /\ DOMAIN rounds = 1..Len(rounds) /\ Len(rounds) \in Nat
           /\ hasOpenRound => openRoundOf \in OpenRounds
           /\ openRoundOf \in Ref
<1>1. OpenRounds \subseteq DOMAIN rounds /\ DOMAIN rounds = 1..Len(rounds) /\ Len(rounds) \in Nat
  BY DEF OpenRounds, Typed, TypeOK
<1>2. hasOpenRound => openRoundOf \in OpenRounds
  BY DEF hasOpenRound, openRoundOf
<1>3. openRoundOf \in Ref
  BY <1>1, <1>2 DEF openRoundOf, Ref
<1> QED
  BY <1>1, <1>2, <1>3

\* the row keeps what it is: where it came from, what it judges, contests and
\* continues
SameRound(i) ==
    /\ rounds'[i].origin = rounds[i].origin /\ rounds'[i].revision = rounds[i].revision
    /\ rounds'[i].target = rounds[i].target /\ rounds'[i].supersedes = rounds[i].supersedes

(* cancelReviewInstance touches one row, and ends it.                      *)
LEMMA CancelIs ==
    ASSUME Typed, NEW i \in DOMAIN rounds
    PROVE  /\ CancelRound(i) \in Seq(Round) /\ Len(CancelRound(i)) = Len(rounds)
           /\ \A j \in DOMAIN rounds : j # i => CancelRound(i)[j] = rounds[j]
           /\ CancelRound(i)[i] = [rounds[i] EXCEPT !.state = "completed", !.outcome = "ended",
                                                    !.ask = FALSE]
           /\ CancelRound(i)[i] \in Round
<1> DEFINE r == [rounds[i] EXCEPT !.state = "completed", !.outcome = "ended", !.ask = FALSE]
<1>1. rounds \in Seq(Round) /\ rounds[i] \in Round
  BY DEF Typed, TypeOK
<1>2. r \in Round
  BY <1>1 DEF Round
<1>3. CancelRound(i) = [rounds EXCEPT ![i] = r]
  BY <1>1 DEF CancelRound
<1> HIDE DEF r
<1>4. /\ [rounds EXCEPT ![i] = r] \in Seq(Round) /\ Len([rounds EXCEPT ![i] = r]) = Len(rounds)
      /\ [rounds EXCEPT ![i] = r][i] = r
      /\ \A j \in DOMAIN rounds : j # i => [rounds EXCEPT ![i] = r][j] = rounds[j]
  BY <1>1, <1>2
<1> QED
  BY <1>2, <1>3, <1>4 DEF r

\* every open round ends, without a verdict; nothing else about a round moves
Over(new) ==
    /\ new \in Seq(Round) /\ Len(new) = Len(rounds)
    /\ \A j \in DOMAIN rounds :
          /\ Ended(rounds[j]) => new[j] = rounds[j]
          /\ ~Ended(rounds[j]) =>
                new[j] = [rounds[j] EXCEPT !.state = "completed", !.outcome = "ended", !.ask = FALSE]

(* Ending the round a claim has open ends all there are.                   *)
LEMMA EndContestIs ==
    ASSUME Typed, Footing
    PROVE  Over(EndContest) /\ CancelCurrent = EndContest
<1>1. \A i \in OpenRounds : i = claim.current /\ i = openRoundOf /\ i \in DOMAIN rounds
  BY OpenIsARow DEF Footing, hasOpenRound
<1>2. \A j \in DOMAIN rounds : ~Ended(rounds[j]) <=> j \in OpenRounds
  BY DEF OpenRounds
<1>3. CASE hasOpenRound
  <2>1. PICK i \in DOMAIN rounds : i = openRoundOf /\ i \in OpenRounds
    BY <1>3, OpenIsARow
  <2>2. EndContest = CancelRound(i) /\ CancelCurrent = CancelRound(i)
    BY <1>1, <1>3, <2>1 DEF EndContest, CancelCurrent
  <2>3. \A j \in DOMAIN rounds : j # i <=> Ended(rounds[j])
    BY <1>1, <1>2, <2>1
  <2> QED
    BY <2>1, <2>2, <2>3, CancelIs DEF Over
<1>4. CASE ~hasOpenRound
  <2>1. EndContest = rounds /\ CancelCurrent = rounds
    BY <1>4 DEF EndContest, CancelCurrent, hasOpenRound
  <2>2. \A j \in DOMAIN rounds : Ended(rounds[j])
    BY <1>2, <1>4 DEF hasOpenRound
  <2> QED
    BY <2>1, <2>2 DEF Over, Typed, TypeOK
<1> QED
  BY <1>3, <1>4

(* A round that is opened is a round.                                      *)
LEMMA NewRoundType ==
    ASSUME NEW state \in OpenReviewStates, NEW origin \in {"initial", "appeal", "reopen", "reroute"},
           NEW t \in ConclusionTarget \cup {None}, NEW sup \in Ref, NEW revision \in Nat
    PROVE  /\ NewRound(state, origin, t, sup, revision) \in Round
           /\ ~Ended(NewRound(state, origin, t, sup, revision))
BY DEF NewRound, Round, Ended, OpenReviewStates, Ref

(* What a conclusion is named by is a target of the right shape.           *)
LEMMA TargetsType ==
    ASSUME Typed, NEW t \in Targets
    PROVE  t \in ConclusionTarget
<1>1. DOMAIN rounds \subseteq Nat /\ DOMAIN recs \subseteq Nat /\ DOMAIN events \subseteq Nat
  BY DEF Typed, TypeOK
<1> QED
  BY <1>1 DEF Targets, ConclusionTarget

(* A determination written is appended (insertRecognition).                *)
LEMMA RecogniseIs ==
    ASSUME Typed, NEW value \in Value, NEW source \in {"record", "system", "review", "redetermination"},
           NEW revision \in Nat, NEW round \in Ref, Recognise(value, source, revision, round)
    PROVE  /\ recs' \in Seq(Recognition) /\ Len(recs) \in Nat /\ Len(recs') = Len(recs) + 1
           /\ \A n \in DOMAIN recs : n \in DOMAIN recs' /\ recs'[n] = recs[n]
           /\ \A n \in DOMAIN recs' : n \in DOMAIN recs \/ n = Len(recs) + 1
           /\ Len(recs) + 1 \in DOMAIN recs'
           /\ recs'[Len(recs) + 1] = [value |-> value, source |-> source,
                                      revision |-> revision, round |-> round]
<1> DEFINE rec == [value |-> value, source |-> source, revision |-> revision, round |-> round]
<1>1. recs \in Seq(Recognition) /\ rec \in Recognition
  BY DEF Typed, TypeOK, Recognition
<1>2. recs' = Append(recs, rec)
  BY DEF Recognise
<1> HIDE DEF rec
<1>3. /\ recs' \in Seq(Recognition) /\ Len(recs) \in Nat /\ Len(recs') = Len(recs) + 1
      /\ \A n \in DOMAIN recs : n \in DOMAIN recs' /\ recs'[n] = recs[n]
      /\ \A n \in DOMAIN recs' : n \in DOMAIN recs \/ n = Len(recs) + 1
      /\ Len(recs) + 1 \in DOMAIN recs' /\ recs'[Len(recs) + 1] = rec
  BY <1>1, <1>2
<1> QED
  BY <1>3 DEF rec

(* What is proven carries facts of the right shape.                        *)
LEMMA IdentityType ==
    ASSUME Typed, NEW value \in Value
    PROVE  /\ Identity("record", value) \in Proof
           /\ SubmitIdentity(value) \in Proof
           /\ RedetermineIdentity(value) \in Proof
           /\ \A i \in DOMAIN rounds : DecideIdentity(i, value) \in Proof
<1>1. /\ item.rev \in Nat /\ claim.revision \in Nat /\ claim.standing \in Ref
      /\ claim.status \in Status /\ openRoundOf \in Ref /\ None \in Ref /\ 0 \in Nat
      /\ "absent" \in Status
  BY OpenIsARow DEF Typed, TypeOK, Ref, Status
<1>2. Identity("record", value) \in Proof
  BY <1>1 DEF Identity, Proof
<1>3. SubmitIdentity(value) \in Proof
  BY <1>1 DEF Identity, SubmitIdentity, Proof
<1>4. RedetermineIdentity(value) \in Proof
  BY <1>1 DEF Identity, RedetermineIdentity, Proof
<1>5. ASSUME NEW i \in DOMAIN rounds PROVE DecideIdentity(i, value) \in Proof
  <2>1. i \in Ref
    BY OpenIsARow DEF Ref
  <2> QED
    BY <1>1, <2>1 DEF Identity, DecideIdentity, Proof
<1> QED
  BY <1>2, <1>3, <1>4, <1>5

(* A round replaced by a well-formed one.                                  *)
LEMMA RowReplaced ==
    ASSUME Typed, NEW i \in DOMAIN rounds, NEW r \in Round
    PROVE  /\ [rounds EXCEPT ![i] = r] \in Seq(Round) /\ Len([rounds EXCEPT ![i] = r]) = Len(rounds)
           /\ [rounds EXCEPT ![i] = r][i] = r
           /\ \A j \in DOMAIN rounds : j # i => [rounds EXCEPT ![i] = r][j] = rounds[j]
BY DEF Typed, TypeOK

\* what an act may make of a row, in the terms of Claim
Lives(a, b) ==
    \/ /\ {a.state, b.state} \subseteq {"active", "blocked"} /\ b.outcome = a.outcome
       /\ b.ask = a.ask /\ b.begun \in {a.begun, TRUE}
    \/ /\ a.state = "active" /\ b.state = "awaiting_supplement" /\ b.outcome = a.outcome
       /\ a.ask = FALSE /\ b.ask = TRUE /\ b.begun = TRUE
    \/ /\ a.state = "awaiting_supplement" /\ b.state \in {"active", "blocked"}
       /\ b.outcome = a.outcome /\ a.ask = TRUE /\ b.ask = FALSE /\ b.begun = a.begun
    \/ /\ a.state = "active" /\ b.state = "completed" /\ b.outcome \in Decided
       /\ b.ask = a.ask
    \/ /\ a.state # "completed" /\ b.state = "completed" /\ b.outcome = "ended"
       /\ b.ask = FALSE

\* what a round at work goes through: it stays open, and stays what it is
Worked(i) ==
    /\ i \in OpenRounds
    /\ rounds' \in Seq(Round) /\ Len(rounds') = Len(rounds)
    /\ \A j \in DOMAIN rounds : j # i => rounds'[j] = rounds[j]
    /\ SameRound(i) /\ ~Ended(rounds'[i]) /\ Lives(rounds[i], rounds'[i])
    /\ rounds'[i].ask <=> rounds'[i].state = "awaiting_supplement"

WorkStep ==
    \E i \in DOMAIN rounds :
        Word(i) \/ requestSupplement(i) \/ cancelSupplement(i) \/ answerSupplement(i) \/ Patrol(i)

(* Words, asks and the patrol leave a round running.                       *)
LEMMA WorkIs ==
    ASSUME Typed, AskedWhileWaiting, WorkStep
    PROVE  /\ \E i \in DOMAIN rounds : Worked(i)
           /\ UNCHANGED <<worldVars, claim, recs, events, proofs, trial>>
<1> USE DEF OpenReviewStates
<1>0. UNCHANGED <<worldVars, claim, recs, events, proofs, trial>>
  BY DEF WorkStep, Word, requestSupplement, cancelSupplement, answerSupplement, Patrol
<1>1. PICK i \in DOMAIN rounds :
        Word(i) \/ requestSupplement(i) \/ cancelSupplement(i) \/ answerSupplement(i) \/ Patrol(i)
  BY DEF WorkStep
<1>2. /\ rounds \in Seq(Round) /\ rounds[i] \in Round
      /\ rounds[i].ask <=> rounds[i].state = "awaiting_supplement"
  BY DEF Typed, TypeOK, AskedWhileWaiting
<1>3. ASSUME NEW r \in Round, rounds' = [rounds EXCEPT ![i] = r], ~Ended(rounds[i]), ~Ended(r),
             r.ask <=> r.state = "awaiting_supplement", Lives(rounds[i], r),
             r.origin = rounds[i].origin, r.revision = rounds[i].revision,
             r.target = rounds[i].target, r.supersedes = rounds[i].supersedes
      PROVE  Worked(i)
  BY <1>3, RowReplaced DEF Worked, SameRound, OpenRounds
<1>4. ASSUME Word(i) PROVE Worked(i)
  <2>1. PICK state \in {"active", "blocked"} :
          rounds' = [rounds EXCEPT ![i] = [@ EXCEPT !.begun = TRUE, !.state = state]]
    BY <1>4 DEF Word
  <2>2. PICK r : r = [rounds[i] EXCEPT !.begun = TRUE, !.state = state]
    OBVIOUS
  <2>3. rounds' = [rounds EXCEPT ![i] = r]
    BY <2>1, <2>2
  <2>4. rounds[i].state \in {"active", "blocked"} /\ rounds[i].ask = FALSE
    BY <1>2, <1>4 DEF Word, Round
  <2>5. r \in Round /\ r.state = state /\ r.ask = FALSE
    BY <1>2, <2>2, <2>4 DEF Round
  <2>a. r.origin = rounds[i].origin /\ r.revision = rounds[i].revision
        /\ r.target = rounds[i].target /\ r.supersedes = rounds[i].supersedes
    BY <1>2, <2>2 DEF Round
  <2>b. ~Ended(rounds[i]) /\ ~Ended(r)
    BY <1>2, <2>2, <2>3, <2>4, <2>5 DEF Ended, Round
  <2>c. r.ask <=> r.state = "awaiting_supplement"
    BY <1>2, <2>2, <2>3, <2>4, <2>5 DEF Round
  <2>d. Lives(rounds[i], r)
    BY <1>2, <2>1, <2>2, <2>4, <2>5 DEF Lives, Round
  <2> QED
    BY <1>3, <2>3, <2>5, <2>a, <2>b, <2>c, <2>d
<1>5. ASSUME requestSupplement(i) PROVE Worked(i)
  <2>1. PICK r : r = [rounds[i] EXCEPT !.state = "awaiting_supplement", !.ask = TRUE, !.begun = TRUE]
    OBVIOUS
  <2>2. rounds' = [rounds EXCEPT ![i] = r] /\ rounds[i].state = "active"
    BY <1>5, <2>1 DEF requestSupplement
  <2>3. r \in Round
    BY <1>2, <2>1 DEF Round
  <2>a. r.origin = rounds[i].origin /\ r.revision = rounds[i].revision
        /\ r.target = rounds[i].target /\ r.supersedes = rounds[i].supersedes
    BY <1>2, <2>1 DEF Round
  <2>b. ~Ended(rounds[i]) /\ ~Ended(r)
    BY <1>2, <2>1, <2>2, <2>3 DEF Ended, Round
  <2>c. r.ask <=> r.state = "awaiting_supplement"
    BY <1>2, <2>1, <2>2, <2>3 DEF Round
  <2>d. Lives(rounds[i], r)
    BY <1>2, <2>1, <2>2, <2>3 DEF Lives, Round
  <2> QED
    BY <1>3, <2>2, <2>3, <2>a, <2>b, <2>c, <2>d
<1>6. ASSUME cancelSupplement(i) PROVE Worked(i)
  <2>1. PICK r : r = [rounds[i] EXCEPT !.state = "active", !.ask = FALSE]
    OBVIOUS
  <2>2. rounds' = [rounds EXCEPT ![i] = r] /\ rounds[i].state = "awaiting_supplement"
    BY <1>6, <2>1 DEF cancelSupplement
  <2>3. r \in Round
    BY <1>2, <2>1 DEF Round
  <2>a. r.origin = rounds[i].origin /\ r.revision = rounds[i].revision
        /\ r.target = rounds[i].target /\ r.supersedes = rounds[i].supersedes
    BY <1>2, <2>1 DEF Round
  <2>b. ~Ended(rounds[i]) /\ ~Ended(r)
    BY <1>2, <2>1, <2>2, <2>3 DEF Ended, Round
  <2>c. r.ask <=> r.state = "awaiting_supplement"
    BY <1>2, <2>1, <2>2, <2>3 DEF Round
  <2>d. Lives(rounds[i], r)
    BY <1>2, <2>1, <2>2, <1>6 DEF Lives, Round
  <2> QED
    BY <1>3, <2>2, <2>3, <2>a, <2>b, <2>c, <2>d
<1>7. ASSUME answerSupplement(i) PROVE Worked(i)
  <2>1. PICK state \in {"active", "blocked"} :
          rounds' = [rounds EXCEPT ![i] = [@ EXCEPT !.state = state, !.ask = FALSE]]
    BY <1>7 DEF answerSupplement
  <2>2. PICK r : r = [rounds[i] EXCEPT !.state = state, !.ask = FALSE]
    OBVIOUS
  <2>3. rounds' = [rounds EXCEPT ![i] = r] /\ rounds[i].state = "awaiting_supplement"
    BY <1>7, <2>1, <2>2 DEF answerSupplement
  <2>4. r \in Round /\ r.state = state /\ r.ask = FALSE
    BY <1>2, <2>2 DEF Round
  <2>a. r.origin = rounds[i].origin /\ r.revision = rounds[i].revision
        /\ r.target = rounds[i].target /\ r.supersedes = rounds[i].supersedes
    BY <1>2, <2>2 DEF Round
  <2>b. ~Ended(rounds[i]) /\ ~Ended(r)
    BY <1>2, <2>2, <2>3, <2>4 DEF Ended, Round
  <2>c. r.ask <=> r.state = "awaiting_supplement"
    BY <1>2, <2>2, <2>3, <2>4 DEF Round
  <2>d. Lives(rounds[i], r)
    BY <1>2, <2>1, <2>2, <2>3, <1>7 DEF Lives, Round
  <2> QED
    BY <1>3, <2>3, <2>4, <2>a, <2>b, <2>c, <2>d
<1>8. ASSUME Patrol(i) PROVE Worked(i)
  <2>1. PICK state \in {"active", "blocked"} :
          /\ rounds' = [rounds EXCEPT ![i].state = state]
          /\ rounds[i].state \in {"active", "blocked"}
    BY <1>8 DEF Patrol
  <2>2. PICK r : r = [rounds[i] EXCEPT !.state = state]
    OBVIOUS
  <2>3. rounds' = [rounds EXCEPT ![i] = r] /\ rounds[i].ask = FALSE
    BY <1>2, <2>1, <2>2 DEF Round
  <2>4. r \in Round /\ r.state = state /\ r.ask = FALSE
    BY <1>2, <2>2, <2>3 DEF Round
  <2>a. r.origin = rounds[i].origin /\ r.revision = rounds[i].revision
        /\ r.target = rounds[i].target /\ r.supersedes = rounds[i].supersedes
    BY <1>2, <2>2 DEF Round
  <2>b. ~Ended(rounds[i]) /\ ~Ended(r)
    BY <1>2, <2>1, <2>2, <2>3, <2>4 DEF Ended, Round
  <2>c. r.ask <=> r.state = "awaiting_supplement"
    BY <1>2, <2>1, <2>2, <2>3, <2>4 DEF Round
  <2>d. Lives(rounds[i], r)
    BY <1>2, <2>1, <2>2, <2>3 DEF Lives, Round
  <2> QED
    BY <1>3, <2>3, <2>4, <2>a, <2>b, <2>c, <2>d
<1> QED
  BY <1>0, <1>1, <1>4, <1>5, <1>6, <1>7, <1>8

\* a verdict ends the round the claim points at, and no other row moves
Concludes(i, verdict) ==
    /\ i \in OpenRounds /\ claim.current = i /\ claim.status \in Decided \cup {"in_review"}
    /\ rounds' \in Seq(Round) /\ Len(rounds') = Len(rounds)
    /\ \A j \in DOMAIN rounds : j # i => rounds'[j] = rounds[j]
    /\ SameRound(i) /\ Ended(rounds'[i]) /\ rounds'[i].outcome = verdict /\ rounds'[i].ask = FALSE
    /\ Lives(rounds[i], rounds'[i])

(* completeInstance with the compare-and-set of concludeClaim.             *)
LEMMA ConcludeIs ==
    ASSUME Typed, AskedWhileWaiting, NEW i \in DOMAIN rounds, NEW verdict \in Decided,
           Conclude(i, verdict)
    PROVE  Concludes(i, verdict)
<1>1. PICK r : r = [rounds[i] EXCEPT !.state = "completed", !.outcome = verdict, !.begun = TRUE]
  OBVIOUS
<1>2. /\ rounds' = [rounds EXCEPT ![i] = r] /\ rounds[i].state = "active"
      /\ claim.current = i /\ claim.status \in Decided \cup {"in_review"}
  BY <1>1 DEF Conclude, Standing
<1>3. rounds[i] \in Round /\ (rounds[i].ask <=> rounds[i].state = "awaiting_supplement")
  BY DEF Typed, TypeOK, AskedWhileWaiting
<1>4. rounds[i].ask = FALSE
  BY <1>2, <1>3 DEF Round
<1>5. /\ r \in Round /\ r.state = "completed" /\ r.outcome = verdict /\ r.ask = FALSE
      /\ r.origin = rounds[i].origin /\ r.revision = rounds[i].revision
      /\ r.target = rounds[i].target /\ r.supersedes = rounds[i].supersedes
  BY <1>1, <1>3, <1>4 DEF Round, Decided
<1>6. i \in OpenRounds /\ Lives(rounds[i], r)
  BY <1>2, <1>4, <1>5 DEF OpenRounds, Ended, Lives
<1>7. /\ rounds' \in Seq(Round) /\ Len(rounds') = Len(rounds) /\ rounds'[i] = r
      /\ \A j \in DOMAIN rounds : j # i => rounds'[j] = rounds[j]
  BY <1>2, <1>5, RowReplaced
<1> QED
  BY <1>2, <1>5, <1>6, <1>7 DEF Concludes, SameRound, Ended

\* one more row at the end
Appends(r) ==
    /\ r \in Round
    /\ rounds' \in Seq(Round) /\ Len(rounds') = Len(rounds) + 1
    /\ DOMAIN rounds' = DOMAIN rounds \cup {Len(rounds) + 1}
    /\ Len(rounds) + 1 \notin DOMAIN rounds
    /\ \A j \in DOMAIN rounds : rounds'[j] = rounds[j]
    /\ rounds'[Len(rounds) + 1] = r

(* insertReviewInstance adds one row.                                      *)
LEMMA AppendIs ==
    ASSUME Typed, NEW r \in Round, rounds' = Append(rounds, r)
    PROVE  Appends(r)
<1>1. rounds \in Seq(Round) /\ Len(rounds) \in Nat /\ DOMAIN rounds = 1..Len(rounds)
  BY DEF Typed, TypeOK
<1>2. /\ rounds' \in Seq(Round) /\ Len(rounds') = Len(rounds) + 1
      /\ \A j \in DOMAIN rounds : rounds'[j] = rounds[j]
      /\ rounds'[Len(rounds) + 1] = r
  BY <1>1
<1>3. DOMAIN rounds' = 1..(Len(rounds) + 1)
  BY <1>2
<1>4. DOMAIN rounds' = DOMAIN rounds \cup {Len(rounds) + 1} /\ Len(rounds) + 1 \notin DOMAIN rounds
  BY <1>1, <1>3
<1> QED
  BY <1>2, <1>4 DEF Appends

\* a fresh round on a claim that has none running
Opens(origin, t) ==
    /\ ~hasOpenRound /\ participant = "active" /\ item.status = "active"
    /\ \E r \in Round :
          /\ Appends(r) /\ ~Ended(r) /\ r.ask = FALSE /\ r.state # "awaiting_supplement"
          /\ r.outcome = None /\ r.begun = FALSE
          /\ r.origin = origin /\ r.target = t /\ r.supersedes = None /\ r.revision = claim.revision

(* A submission, an appeal and a reopening open a round.                   *)
LEMMA OpenIs ==
    ASSUME Typed
    PROVE  /\ Submit => Opens("initial", None)
           /\ \A origin \in {"appeal", "reopen"}, t \in ConclusionTarget :
                 OpenContestingRound(origin, t) => Opens(origin, t)
<1> DEFINE R(state, origin, t) == NewRound(state, origin, t, None, claim.revision)
<1>0. claim.revision \in Nat /\ None \in Ref
  BY DEF Typed, TypeOK, Ref
<1>1. ASSUME NEW state \in {"active", "blocked"}, NEW origin \in {"initial", "appeal", "reopen"},
             NEW t \in ConclusionTarget \cup {None}, rounds' = Append(rounds, R(state, origin, t)),
             ~hasOpenRound, participant = "active", item.status = "active"
      PROVE  Opens(origin, t)
  <2>1. PICK r : r = R(state, origin, t)
    OBVIOUS
  <2>2. PICK n \in Nat : n = claim.revision
    BY <1>0
  <2>3. r \in Round /\ ~Ended(r)
    BY <1>0, <2>1, <2>2, NewRoundType DEF OpenReviewStates
  <2>4. /\ r.ask = FALSE /\ r.state # "awaiting_supplement" /\ r.origin = origin /\ r.target = t
        /\ r.outcome = None /\ r.begun = FALSE
        /\ r.supersedes = None /\ r.revision = claim.revision
    BY <2>1 DEF NewRound
  <2>5. Appends(r)
    BY <1>1, <2>1, <2>3, AppendIs
  <2> QED
    BY <1>1, <2>3, <2>4, <2>5 DEF Opens
<1>2. Submit => Opens("initial", None)
  BY <1>1 DEF Submit, MaySubmit
<1>3. ASSUME NEW origin \in {"appeal", "reopen"}, NEW t \in ConclusionTarget,
             OpenContestingRound(origin, t)
      PROVE  Opens(origin, t)
  BY <1>1, <1>3 DEF OpenContestingRound
<1> QED
  BY <1>2, <1>3

\* the open round moved: ended, and continued by a row that is like it
Reroutes(o) ==
    /\ o \in OpenRounds /\ claim.current = o
    /\ \E r \in Round :
          /\ rounds' \in Seq(Round) /\ Len(rounds') = Len(rounds) + 1
          /\ DOMAIN rounds' = DOMAIN rounds \cup {Len(rounds) + 1}
          /\ Len(rounds) + 1 \notin DOMAIN rounds
          /\ \A j \in DOMAIN rounds : j # o => rounds'[j] = rounds[j]
          /\ rounds'[o] = [rounds[o] EXCEPT !.state = "completed", !.outcome = "ended", !.ask = FALSE]
          /\ rounds'[Len(rounds) + 1] = r
          /\ ~Ended(r) /\ r.ask = FALSE /\ r.state # "awaiting_supplement"
          /\ r.outcome = None /\ r.begun = FALSE
          /\ r.origin = IF Contests(rounds[o]) THEN rounds[o].origin ELSE "reroute"
          /\ r.target = rounds[o].target /\ r.supersedes = o /\ r.revision = rounds[o].revision

(* propagate, moving a round onto a new policy.                            *)
LEMMA RerouteIs ==
    ASSUME Typed, NEW scores \in Rule, SaveAndReroute(scores)
    PROVE  Reroutes(openRoundOf)
<1>1. PICK o \in DOMAIN rounds : o = openRoundOf /\ o \in OpenRounds
  BY OpenIsARow DEF SaveAndReroute
<1>2. PICK state \in {"active", "blocked"} : rounds' = Append(CancelRound(o), Rerouted(o, state))
  BY <1>1 DEF SaveAndReroute
<1>3. PICK r : r = Rerouted(o, state)
  OBVIOUS
<1>4. rounds[o] \in Round /\ o \in Ref
  BY OpenIsARow DEF Typed, TypeOK, Ref
<1>5. /\ r.origin = IF Contests(rounds[o]) THEN rounds[o].origin ELSE "reroute"
      /\ r.target = rounds[o].target /\ r.supersedes = o /\ r.revision = rounds[o].revision
      /\ r.state = state /\ r.ask = FALSE /\ r.outcome = None /\ r.begun = FALSE
  BY <1>3 DEF Rerouted, NewRound
<1>6. r \in Round /\ ~Ended(r)
  BY <1>3, <1>4 DEF Rerouted, NewRound, Round, Ended, OpenReviewStates, Ref
<1>7. PICK c \in Seq(Round) :
        /\ c = CancelRound(o) /\ Len(c) = Len(rounds)
        /\ \A j \in DOMAIN rounds : j # o => c[j] = rounds[j]
        /\ c[o] = [rounds[o] EXCEPT !.state = "completed", !.outcome = "ended", !.ask = FALSE]
  BY CancelIs
<1>8. rounds' = Append(c, r) /\ Len(c) \in Nat /\ DOMAIN c = DOMAIN rounds /\ DOMAIN rounds = 1..Len(c)
  BY <1>2, <1>3, <1>7, OpenIsARow
<1>9. /\ rounds' \in Seq(Round) /\ Len(rounds') = Len(c) + 1
      /\ \A j \in 1..Len(c) : rounds'[j] = c[j]
      /\ rounds'[Len(c) + 1] = r
  BY <1>6, <1>8
<1>10. DOMAIN rounds' = 1..(Len(c) + 1)
  BY <1>9
<1>11. DOMAIN rounds' = DOMAIN rounds \cup {Len(rounds) + 1} /\ Len(rounds) + 1 \notin DOMAIN rounds
  BY <1>7, <1>8, <1>10
<1>12. claim.current = o
  BY <1>1 DEF SaveAndReroute
<1>13. /\ rounds' \in Seq(Round) /\ Len(rounds') = Len(rounds) + 1
       /\ \A j \in DOMAIN rounds : j # o => rounds'[j] = rounds[j]
       /\ rounds'[o] = [rounds[o] EXCEPT !.state = "completed", !.outcome = "ended", !.ask = FALSE]
       /\ rounds'[Len(rounds) + 1] = r /\ r.state # "awaiting_supplement"
  BY <1>5, <1>7, <1>8, <1>9
<1>14. Reroutes(o)
  BY <1>1, <1>5, <1>6, <1>11, <1>12, <1>13 DEF Reroutes
<1> QED
  BY <1>1, <1>14

-----------------------------------------------------------------------------
(***************************************************************************)
(* Type correctness.                                                       *)
(***************************************************************************)
ClaimRow(c) ==
    /\ c \in [status : Status, source : {"self", "record"}, revision : Nat,
              handed : Nat, current : Ref, standing : Ref]
    /\ c.status \in {"in_review", "approved", "rejected", "needs_revision"} => c.handed # 0
    /\ c.status = "approved" => c.standing # None
    /\ c.status # "absent" => c.revision # 0
    /\ c.source = "record" => c.status # "absent"

EventKind == {"recognition-corrected", "approval-revoked", "rejection-overturned"}

WorldTyped ==
    /\ participant \in {"active", "excluded"}
    /\ item \in [status : {"active", "voided"}, rev : Nat,
                 mode : {"none", "workflow"}, scores : SUBSET Value]

(* Type correctness, the claim's row and the world around it apart.        *)
LEMMA TypedIs ==
    Typed <=> /\ WorldTyped /\ ClaimRow(claim)
              /\ rounds \in Seq(Round) /\ recs \in Seq(Recognition) /\ events \in Seq(EventKind)
              /\ proofs \subseteq Proof /\ trial \in Token \cup {None}
BY DEF Typed, TypeOK, ClaimRow, EventKind, WorldTyped

(* A proof in hand is of the right shape, and a proof used is given up.    *)
LEMMA ProofsType ==
    ASSUME Typed
    PROVE  /\ \A identity \in Proof : Prove(identity) => proofs' \subseteq Proof
           /\ \A identity : Proven(identity) => proofs' \subseteq Proof
           /\ DropProof => proofs' \subseteq Proof
BY DEF Typed, TypeOK, Prove, Proven, DropProof

(* What a report's token names is of the right shape (impactToken).        *)
LEMMA TokenType ==
    ASSUME Typed, NEW scores \in Rule
    PROVE  impactToken(scores) \in Token
<1>1. /\ item.rev \in Nat /\ scores \in SUBSET Value /\ openRoundOf \in Ref
      /\ claim.status \in Status /\ claim.revision \in Nat /\ claim.standing \in Ref
      /\ None \in Ref /\ 0 \in Nat /\ "absent" \in Status
  BY OpenIsARow, RuleAssumption DEF Typed, TypeOK, Ref, Status
<1> QED
  BY <1>1 DEF impactToken, Token

(* What the owner does to the claim's row.                                 *)
LEMMA OwnerType ==
    ASSUME Typed, Footing, AskedWhileWaiting, OwnerAct
    PROVE  Typed'
<1> USE TypedIs
<1>0. Typed' <=> /\ WorldTyped' /\ ClaimRow(claim')
                 /\ rounds' \in Seq(Round) /\ recs' \in Seq(Recognition) /\ events' \in Seq(EventKind)
                 /\ proofs' \subseteq Proof /\ trial' \in Token \cup {None}
  BY DEF Typed, TypeOK, ClaimRow, EventKind, WorldTyped
<1>1. UNCHANGED worldVars => WorldTyped'
  BY DEF worldVars, WorldTyped
<1>2. claim.revision \in Nat /\ Len(recs) + 1 \in Nat /\ Len(recs) + 1 # None /\ None \in Ref
      /\ Len(rounds) + 1 \in Nat /\ ClaimRow(claim)
  BY NoneAssumption DEF ClaimRow, Ref
<1>3. CASE CreateEntry
  <2>1. ClaimRow(claim')
    <3>1. claim' = [claim EXCEPT !.status = "draft", !.revision = 1]
      BY <1>3 DEF CreateEntry
    <3>2. PICK n \in Nat \ {0} : n = 1
      OBVIOUS
    <3>3. claim' = [claim EXCEPT !.status = "draft", !.revision = n]
      BY <3>1, <3>2
    <3> QED
      BY <1>2, <3>3 DEF ClaimRow, Status, Decided
  <2> QED
    BY <1>0, <1>1, <1>3, <2>1 DEF CreateEntry
<1>4. CASE Edit
  <2>1. ClaimRow(claim')
    <3>1. claim' = [claim EXCEPT !.status = "draft", !.revision = claim.revision + 1]
      BY <1>2, <1>4 DEF Edit, ClaimRow
    <3>2. PICK n \in Nat \ {0} : n = claim.revision + 1
      BY <1>2
    <3>3. claim' = [claim EXCEPT !.status = "draft", !.revision = n]
      BY <3>1, <3>2
    <3> QED
      BY <1>2, <3>3 DEF ClaimRow, Status, Decided
  <2> QED
    BY <1>0, <1>1, <1>4, <2>1 DEF Edit
<1>5. CASE Submit
  <2>1. ClaimRow(claim')
    BY <1>2, <1>5 DEF Submit, MaySubmit, ClaimRow, Status, Decided, Ref
  <2>2. rounds' \in Seq(Round)
    BY <1>5, OpenIs DEF Opens, Appends
  <2> QED
    BY <1>0, <1>1, <1>5, <2>1, <2>2 DEF Submit
<1>6. CASE Abandon
  <2>1. ClaimRow(claim')
    BY <1>2, <1>6 DEF Abandon, ClaimRow, Status, Decided
  <2>2. rounds' \in Seq(Round)
    BY <1>6, EndContestIs DEF Abandon, Over
  <2> QED
    BY <1>0, <1>1, <1>6, <2>1, <2>2 DEF Abandon
<1>7. CASE Withdraw
  <2>1. ClaimRow(claim')
    BY <1>2, <1>7 DEF Withdraw, ClaimRow, Status, Decided
  <2>2. PICK i \in DOMAIN rounds : i = claim.current
    BY <1>7, OpenIsARow DEF Withdraw
  <2>3. rounds' \in Seq(Round)
    BY <1>7, <2>2, CancelIs DEF Withdraw
  <2> QED
    BY <1>0, <1>1, <1>7, <2>1, <2>3 DEF Withdraw
<1>8. ASSUME NEW value \in Value, ProveSubmit(value) PROVE Typed'
  <2>1. Prove(SubmitIdentity(value))
    BY <1>8 DEF ProveSubmit
  <2>2. proofs' \subseteq Proof
    BY <2>1, IdentityType, ProofsType
  <2> QED
    BY <1>0, <1>1, <2>1, <2>2 DEF Prove, caseVars
<1>9. ASSUME NEW value \in Value, SubmitByRule(value) PROVE Typed'
  <2>1. ClaimRow(claim')
    BY <1>2, <1>9 DEF SubmitByRule, ApprovedByRule, MaySubmit, ClaimRow, Status, Decided, Ref
  <2>2. recs' \in Seq(Recognition)
    BY <1>2, <1>9, RecogniseIs DEF SubmitByRule
  <2>3. proofs' \subseteq Proof
    BY <1>9, ProofsType DEF SubmitByRule
  <2> QED
    BY <1>0, <1>1, <1>9, <2>1, <2>2, <2>3 DEF SubmitByRule
<1>10. ASSUME NEW i \in DOMAIN rounds, answerSupplement(i) PROVE Typed'
  <2>1. WorkStep
    BY <1>10 DEF WorkStep
  <2> QED
    BY <1>0, <1>1, <2>1, WorkIs DEF Worked
<1>11. ASSUME NEW t \in Targets, Appeal(t) PROVE Typed'
  <2>1. t \in ConclusionTarget
    BY TargetsType
  <2>2. rounds' \in Seq(Round)
    BY <1>11, <2>1, OpenIs DEF Appeal, Opens, Appends
  <2>3. ClaimRow(claim')
    BY <1>2, <1>11 DEF Appeal, OpenContestingRound, ClaimRow, Status, Ref
  <2> QED
    BY <1>0, <1>1, <1>11, <2>2, <2>3 DEF Appeal, OpenContestingRound
<1> QED
  BY <1>3, <1>4, <1>5, <1>6, <1>7, <1>8, <1>9, <1>10, <1>11 DEF OwnerAct

(* What the reviewers do to it.                                            *)
LEMMA ReviewType ==
    ASSUME Typed, Footing, AskedWhileWaiting, ReviewAct
    PROVE  Typed'
<1> USE TypedIs
<1>0. Typed' <=> /\ WorldTyped' /\ ClaimRow(claim')
                 /\ rounds' \in Seq(Round) /\ recs' \in Seq(Recognition) /\ events' \in Seq(EventKind)
                 /\ proofs' \subseteq Proof /\ trial' \in Token \cup {None}
  BY DEF Typed, TypeOK, ClaimRow, EventKind, WorldTyped
<1>1. UNCHANGED worldVars => WorldTyped'
  BY DEF worldVars, WorldTyped
<1>2. claim.revision \in Nat /\ Len(recs) + 1 \in Nat /\ Len(recs) + 1 # None /\ ClaimRow(claim)
  BY NoneAssumption DEF ClaimRow
<1>3. CASE WorkStep
  BY <1>0, <1>1, <1>3, WorkIs DEF Worked
<1>4. ASSUME NEW i \in DOMAIN rounds, DecideReject(i) PROVE Typed'
  <2>1. Concludes(i, "rejected")
    BY <1>4, ConcludeIs DEF DecideReject, Decided
  <2>2. ClaimRow(claim')
    BY <1>2, <1>4, <2>1 DEF DecideReject, Concludes, ClaimRow, Status, Decided
  <2> QED
    BY <1>0, <1>1, <1>4, <2>1, <2>2 DEF DecideReject, Concludes
<1>5. ASSUME NEW i \in DOMAIN rounds, NEW value \in Value, ProveDecide(i, value) PROVE Typed'
  <2>1. Prove(DecideIdentity(i, value))
    BY <1>5 DEF ProveDecide
  <2>2. proofs' \subseteq Proof
    BY <2>1, IdentityType, ProofsType
  <2> QED
    BY <1>0, <1>1, <2>1, <2>2 DEF Prove, caseVars
<1>6. ASSUME NEW i \in DOMAIN rounds, NEW value \in Value, DecideApprove(i, value) PROVE Typed'
  <2>1. Concludes(i, "approved")
    BY <1>6, ConcludeIs DEF DecideApprove, Decided
  <2>2. ClaimRow(claim')
    BY <1>2, <1>6, <2>1 DEF DecideApprove, Concludes, ClaimRow, Status, Decided, Ref
  <2>3. rounds[i].revision \in Nat /\ i \in Ref
    <3>1. rounds[i] \in Round
      BY DEF Typed, TypeOK
    <3> QED
      BY <3>1, OpenIsARow DEF Round, Ref
  <2>4. PICK n \in Nat : n = rounds[i].revision
    BY <2>3
  <2>5. recs' \in Seq(Recognition)
    BY <1>6, <2>3, <2>4, RecogniseIs DEF DecideApprove
  <2>6. proofs' \subseteq Proof
    BY <1>6, ProofsType DEF DecideApprove
  <2> QED
    BY <1>0, <1>1, <1>6, <2>1, <2>2, <2>5, <2>6 DEF DecideApprove, Concludes
<1> QED
  BY <1>3, <1>4, <1>5, <1>6 DEF ReviewAct, WorkStep

(* What staff do to it.                                                    *)
LEMMA StaffType ==
    ASSUME Typed, Footing, StaffAct
    PROVE  Typed'
<1> USE TypedIs
<1>0. Typed' <=> /\ WorldTyped' /\ ClaimRow(claim')
                 /\ rounds' \in Seq(Round) /\ recs' \in Seq(Recognition) /\ events' \in Seq(EventKind)
                 /\ proofs' \subseteq Proof /\ trial' \in Token \cup {None}
  BY DEF Typed, TypeOK, ClaimRow, EventKind, WorldTyped
<1>1. UNCHANGED worldVars => WorldTyped'
  BY DEF worldVars, WorldTyped
<1>2. claim.revision \in Nat /\ Len(recs) + 1 \in Nat /\ Len(recs) + 1 # None /\ None \in Ref
      /\ Len(recs) + 1 \in Ref /\ ClaimRow(claim)
  BY NoneAssumption DEF ClaimRow, Ref
<1>3. rounds' = EndContest \/ rounds' = CancelCurrent => rounds' \in Seq(Round)
  BY EndContestIs DEF Over
<1>4. ASSUME NEW value \in Value, ProveRecord(value) \/ ProveRedetermine(value) PROVE Typed'
  <2>1. Prove(Identity("record", value)) \/ Prove(RedetermineIdentity(value))
    BY <1>4 DEF ProveRecord, ProveRedetermine
  <2>2. proofs' \subseteq Proof
    BY <2>1, IdentityType, ProofsType
  <2> QED
    BY <1>0, <1>1, <2>1, <2>2 DEF Prove, caseVars
<1>5. ASSUME NEW value \in Value, RecordEntry(value) PROVE Typed'
  <2>1. PICK n \in Nat \ {0} : n = 1
    OBVIOUS
  <2>2. claim' = [claim EXCEPT !.status = "approved", !.source = "record", !.revision = n,
                               !.handed = n, !.standing = Len(recs) + 1]
    BY <1>5, <2>1 DEF RecordEntry
  <2>3. ClaimRow(claim')
    BY <1>2, <2>2 DEF ClaimRow, Status, Decided
  <2>4. recs' \in Seq(Recognition)
    BY <1>2, <1>5, RecogniseIs DEF RecordEntry
  <2>5. proofs' \subseteq Proof
    BY <1>5, ProofsType DEF RecordEntry
  <2> QED
    BY <1>0, <1>1, <1>5, <2>3, <2>4, <2>5 DEF RecordEntry
<1>6. ASSUME NEW value \in Value, Redetermine(value) PROVE Typed'
  <2>1. ClaimRow(claim')
    BY <1>2, <1>6 DEF Redetermine, MayRedetermine, ClaimRow, Status, Decided
  <2>2. PICK n \in Nat : n = claim.revision
    BY <1>2
  <2>3. recs' \in Seq(Recognition)
    BY <1>2, <1>6, <2>2, RecogniseIs DEF Redetermine
  <2>4. proofs' \subseteq Proof
    BY <1>6, ProofsType DEF Redetermine
  <2>5. events' \in Seq(EventKind)
    BY <1>6 DEF Redetermine, EventKind
  <2> QED
    BY <1>0, <1>1, <1>3, <1>6, <2>1, <2>3, <2>4, <2>5 DEF Redetermine
<1>7. CASE Revoke
  <2>1. ClaimRow(claim')
    BY <1>2, <1>7 DEF Revoke, ClaimRow, Status, Decided
  <2>2. events' \in Seq(EventKind)
    BY <1>7 DEF Revoke, EventKind
  <2> QED
    BY <1>0, <1>1, <1>3, <1>7, <2>1, <2>2 DEF Revoke
<1>8. CASE Return
  <2>1. ClaimRow(claim')
    BY <1>2, <1>8 DEF Return, ClaimRow, Status, Decided
  <2> QED
    BY <1>0, <1>1, <1>3, <1>8, <2>1 DEF Return
<1>9. CASE VoidRecord
  <2>1. PICK c \in Ref : claim' = [claim EXCEPT !.status = "voided", !.current = c]
    <3>1. claim.current \in Ref
      BY <1>2 DEF ClaimRow
    <3>2. claim' = [claim EXCEPT !.status = "voided",
                                 !.current = IF claim.current \in OpenRounds THEN None ELSE claim.current]
      BY <1>9 DEF VoidRecord
    <3> QED
      BY <1>2, <3>1, <3>2
  <2>2. ClaimRow(claim')
    <3>1. claim.revision # 0
      BY <1>2, <1>9 DEF ClaimRow, VoidRecord
    <3> QED
      BY <1>2, <2>1, <3>1 DEF ClaimRow, Status, Decided
  <2> QED
    BY <1>0, <1>1, <1>3, <1>9, <2>2 DEF VoidRecord
<1>10. ASSUME NEW t \in Targets, Reopen(t) PROVE Typed'
  <2>1. t \in ConclusionTarget
    BY TargetsType
  <2>2. rounds' \in Seq(Round)
    BY <1>10, <2>1, OpenIs DEF Reopen, Opens, Appends
  <2>3. ClaimRow(claim')
    <3>1. Len(rounds) + 1 \in Ref
      BY OpenIsARow DEF Ref
    <3>2. claim' = [claim EXCEPT !.current = Len(rounds) + 1]
      BY <1>10 DEF Reopen, OpenContestingRound
    <3> QED
      BY <1>2, <3>1, <3>2 DEF ClaimRow
  <2> QED
    BY <1>0, <1>1, <1>10, <2>2, <2>3 DEF Reopen, OpenContestingRound
<1> QED
  BY <1>4, <1>5, <1>6, <1>7, <1>8, <1>9, <1>10 DEF StaffAct

(* What a claim stood on before it was contested is a reference.           *)
LEMMA RepointedRow ==
    ASSUME Typed, NEW i \in DOMAIN rounds
    PROVE  StoodBefore(i) \in Ref /\ ClaimRow(Repointed(i, StoodBefore(i)))
<1>1. rounds[i] \in Round /\ ClaimRow(claim)
  BY TypedIs
<1>2. rounds[i].target \in ConclusionTarget \cup {None}
  BY <1>1 DEF Round
<1>3. StoodBefore(i) \in Ref
  BY <1>2 DEF StoodBefore, ConclusionTarget, Ref
<1>4. PICK c \in Ref : Repointed(i, StoodBefore(i)) = [claim EXCEPT !.current = c]
  <2>1. claim.current \in Ref
    BY <1>1 DEF ClaimRow
  <2>2. Repointed(i, StoodBefore(i)) =
          [claim EXCEPT !.current = IF claim.current = i THEN StoodBefore(i) ELSE claim.current]
    BY DEF Repointed
  <2> QED
    BY <1>3, <2>1, <2>2
<1>5. ClaimRow(Repointed(i, StoodBefore(i)))
  BY <1>1, <1>4 DEF ClaimRow
<1> QED
  BY <1>3, <1>5

(* What reaches it from outside.                                           *)
LEMMA OutsideType ==
    ASSUME Typed, Footing, OutsideAct
    PROVE  Typed'
<1> USE TypedIs
<1>0. Typed' <=> /\ WorldTyped' /\ ClaimRow(claim')
                 /\ rounds' \in Seq(Round) /\ recs' \in Seq(Recognition) /\ events' \in Seq(EventKind)
                 /\ proofs' \subseteq Proof /\ trial' \in Token \cup {None}
  BY DEF Typed, TypeOK, ClaimRow, EventKind, WorldTyped
<1>1. UNCHANGED worldVars => WorldTyped'
  BY DEF worldVars, WorldTyped
<1>2. claim.revision \in Nat /\ None \in Ref /\ ClaimRow(claim) /\ WorldTyped
  BY DEF ClaimRow, Ref
<1>3. rounds' = EndContest \/ rounds' = CancelCurrent => rounds' \in Seq(Round)
  BY EndContestIs DEF Over
<1>4. item \in [status : {"active", "voided"}, rev : Nat, mode : {"none", "workflow"},
                scores : SUBSET Value]
  BY <1>2 DEF WorldTyped
<1>5. CASE VoidItem
  <2>1. WorldTyped'
    BY <1>2, <1>4, <1>5 DEF VoidItem, WorldTyped
  <2>2. rounds' \in Seq(Round) /\ ClaimRow(claim')
    <3>1. CASE claim.status \in {"draft", "in_review", "needs_revision"}
      <4>1. rounds' = CancelCurrent /\ claim' = [claim EXCEPT !.status = "voided"]
        BY <1>5, <3>1 DEF VoidItem
      <4> QED
        <5>1. claim.revision # 0
          BY <1>2, <3>1 DEF ClaimRow
        <5>2. ClaimRow(claim')
          BY <1>2, <4>1, <5>1 DEF ClaimRow, Status, Decided
        <5> QED
          BY <1>3, <4>1, <5>2
    <3>2. CASE claim.status \notin {"draft", "in_review", "needs_revision"} /\ hasOpenRound
      <4>1. PICK i \in DOMAIN rounds : i = openRoundOf
        BY <3>2, OpenIsARow
      <4>2. rounds' = CancelRound(i) /\ claim' = Repointed(i, StoodBefore(i))
        BY <1>5, <3>2, <4>1 DEF VoidItem
      <4> QED
        BY <4>2, CancelIs, RepointedRow
    <3>3. CASE claim.status \notin {"draft", "in_review", "needs_revision"} /\ ~hasOpenRound
      BY <1>2, <1>5, <3>3 DEF VoidItem
    <3> QED
      BY <3>1, <3>2, <3>3
  <2> QED
    BY <1>0, <1>5, <2>1, <2>2 DEF VoidItem
<1>6. CASE RestoreItem
  <2>1. WorldTyped'
    BY <1>2, <1>4, <1>6 DEF RestoreItem, WorldTyped
  <2> QED
    BY <1>0, <1>6, <2>1 DEF RestoreItem, caseVars
<1>7. CASE Exclude
  <2>1. WorldTyped'
    BY <1>2, <1>7 DEF Exclude, WorldTyped
  <2>2. rounds' \in Seq(Round) /\ ClaimRow(claim')
    <3>1. CASE hasOpenRound
      <4>1. PICK i \in DOMAIN rounds : i = openRoundOf
        BY <3>1, OpenIsARow
      <4>2. /\ rounds' = CancelRound(i)
            /\ \/ claim' = Repointed(i, StoodBefore(i))
               \/ claim' = [claim EXCEPT !.status = "draft", !.current = None] /\ claim.status = "in_review"
               \/ claim' = claim
        BY <1>7, <3>1, <4>1 DEF Exclude
      <4>3. claim' = [claim EXCEPT !.status = "draft", !.current = None] /\ claim.status = "in_review"
              => ClaimRow(claim')
        BY <1>2 DEF ClaimRow, Status, Decided
      <4> QED
        BY <1>2, <4>2, <4>3, CancelIs, RepointedRow
    <3>2. CASE ~hasOpenRound
      BY <1>2, <1>7, <3>2 DEF Exclude
    <3> QED
      BY <3>1, <3>2
  <2> QED
    BY <1>0, <1>7, <2>1, <2>2 DEF Exclude
<1>8. CASE Readmit
  <2>1. WorldTyped'
    BY <1>2, <1>8 DEF Readmit, WorldTyped
  <2> QED
    BY <1>0, <1>8, <2>1 DEF Readmit, caseVars
<1>9. ASSUME NEW scores \in Rule, Report(scores) PROVE Typed'
  BY <1>0, <1>1, <1>9, TokenType DEF Report, caseVars
<1>10. ASSUME NEW mode \in {"none", "workflow"}, NEW scores \in Rule, SaveRevision(mode, scores),
              participant' = participant
       PROVE  WorldTyped'
  <2>1. scores \in SUBSET Value /\ item.rev + 1 \in Nat
    BY <1>4, RuleAssumption
  <2>2. PICK n \in Nat : n = item.rev + 1
    BY <2>1
  <2>3. item' = [item EXCEPT !.rev = n, !.mode = mode, !.scores = scores]
    BY <1>10, <2>2 DEF SaveRevision
  <2>4. item' \in [status : {"active", "voided"}, rev : Nat, mode : {"none", "workflow"},
                   scores : SUBSET Value]
    BY <1>4, <2>1, <2>3
  <2> QED
    BY <1>2, <1>10, <2>4 DEF WorldTyped
<1>11. ASSUME NEW mode \in {"none", "workflow"}, NEW scores \in Rule, Save(mode, scores) PROVE Typed'
  <2>1. WorldTyped'
    BY <1>10, <1>11 DEF Save
  <2> QED
    BY <1>0, <1>11, <2>1 DEF Save, caseVars
<1>12. ASSUME NEW mode \in {"none", "workflow"}, NEW scores \in Rule, SaveAndReturn(mode, scores)
       PROVE Typed'
  <2>1. WorldTyped'
    BY <1>10, <1>12 DEF SaveAndReturn
  <2>2. ClaimRow(claim')
    BY <1>2, <1>12 DEF SaveAndReturn, Live, ClaimRow, Status, Decided
  <2> QED
    BY <1>0, <1>3, <1>12, <2>1, <2>2 DEF SaveAndReturn
<1>13. ASSUME NEW scores \in Rule, SaveAndReroute(scores) PROVE Typed'
  <2>1. WorldTyped'
    BY <1>10, <1>13 DEF SaveAndReroute
  <2>2. rounds' \in Seq(Round)
    BY <1>13, RerouteIs DEF Reroutes
  <2>3. Len(rounds) + 1 \in Ref
    BY OpenIsARow DEF Ref
  <2>4. ClaimRow(claim')
    BY <1>2, <1>13, <2>3 DEF SaveAndReroute, ClaimRow
  <2> QED
    BY <1>0, <1>13, <2>1, <2>2, <2>4 DEF SaveAndReroute
<1> QED
  BY <1>5, <1>6, <1>7, <1>8, <1>9, <1>11, <1>12, <1>13 DEF OutsideAct

(* Every act keeps the tables' types.                                      *)
LEMMA TypedStep ==
    ASSUME Typed, Footing, AskedWhileWaiting, [Next]_vars
    PROVE  Typed'
<1>1. CASE DropProof
  <2>1. proofs' \subseteq Proof
    BY <1>1, ProofsType
  <2> QED
    BY <1>1, <2>1 DEF DropProof, Typed, TypeOK, worldVars, caseVars
<1>2. CASE UNCHANGED vars
  BY <1>2 DEF vars, Typed, TypeOK
<1> QED
  BY <1>1, <1>2, OwnerType, ReviewType, StaffType, OutsideType DEF Next

-----------------------------------------------------------------------------
(***************************************************************************)
(* What any step does to the rounds: seven moves stand for thirty acts.    *)
(***************************************************************************)
OpensRound ==
    \/ Opens("initial", None)
    \/ \E t \in Conclusions : \/ ~Exhausted(t) /\ Opens("appeal", t)
                              \/ Opens("reopen", t)

\* the word that ends a round
Decides(i, verdict) ==
    \/ verdict = "rejected" /\ DecideReject(i)
    \/ verdict = "approved" /\ \E value \in Value : DecideApprove(i, value)

RoundsMove ==
    \/ rounds' = rounds
    \/ \E i \in DOMAIN rounds : Worked(i)
    \/ \E i \in DOMAIN rounds, verdict \in Decided : Concludes(i, verdict) /\ Decides(i, verdict)
    \/ Over(rounds')
    \/ OpensRound
    \/ \E o \in DOMAIN rounds : Reroutes(o)

(* Every act moves the rounds by one of the seven.                         *)
LEMMA MoveStep ==
    ASSUME Typed, Footing, AskedWhileWaiting, [Next]_vars
    PROVE  RoundsMove
<1>0. Over(EndContest) /\ CancelCurrent = EndContest
  BY EndContestIs
<1>1. ASSUME rounds' = EndContest \/ rounds' = CancelCurrent PROVE RoundsMove
  BY <1>0, <1>1 DEF RoundsMove
<1>2. hasOpenRound => CancelRound(openRoundOf) = EndContest
  BY DEF EndContest
<1>3. ASSUME NEW t \in Targets, Appeal(t) \/ Reopen(t) PROVE RoundsMove
  BY <1>3, OpenIs, TargetsType DEF Appeal, Reopen, RoundsMove, OpensRound
<1>4. CASE Submit
  BY <1>4, OpenIs DEF RoundsMove, OpensRound
<1>5. CASE Withdraw
  <2>1. claim.current \in OpenRounds /\ rounds' = CancelRound(claim.current)
    BY <1>5 DEF Withdraw
  <2>2. rounds' = CancelCurrent
    BY <2>1 DEF CancelCurrent
  <2> QED
    BY <1>1, <2>2
<1>6. CASE Abandon \/ Return \/ VoidRecord \/ Revoke
  BY <1>1, <1>6 DEF Abandon, Return, VoidRecord, Revoke
<1>7. ASSUME \/ \E value \in Value : Redetermine(value)
             \/ \E scores \in Rule, mode \in {"none", "workflow"} : SaveAndReturn(mode, scores)
      PROVE  RoundsMove
  BY <1>1, <1>7 DEF Redetermine, SaveAndReturn
<1>8. CASE VoidItem \/ Exclude
  <2>1. rounds' = CancelCurrent \/ (hasOpenRound /\ rounds' = CancelRound(openRoundOf)) \/ rounds' = rounds
    BY <1>8 DEF VoidItem, Exclude
  <2> QED
    BY <1>1, <1>2, <2>1 DEF RoundsMove
<1>9. ASSUME NEW scores \in Rule, SaveAndReroute(scores) PROVE RoundsMove
  <2>1. openRoundOf \in DOMAIN rounds
    BY <1>9, OpenIsARow DEF SaveAndReroute
  <2> QED
    BY <1>9, <2>1, RerouteIs DEF RoundsMove
<1>10. CASE ReviewAct
  <2>1. CASE WorkStep
    BY <2>1, WorkIs DEF RoundsMove
  <2>2. ASSUME NEW i \in DOMAIN rounds,
               DecideReject(i) \/ \E value \in Value : DecideApprove(i, value)
        PROVE  RoundsMove
    <3>1. PICK verdict \in Decided : Decides(i, verdict)
      BY <2>2 DEF Decides, Decided
    <3>2. Concludes(i, verdict)
      BY <3>1, ConcludeIs DEF Decides, DecideReject, DecideApprove
    <3> QED
      BY <3>1, <3>2 DEF RoundsMove
  <2>3. ASSUME NEW i \in DOMAIN rounds, NEW value \in Value, ProveDecide(i, value) PROVE RoundsMove
    BY <2>3 DEF ProveDecide, Prove, caseVars, RoundsMove
  <2> QED
    BY <1>10, <2>1, <2>2, <2>3 DEF ReviewAct, WorkStep
<1>11. ASSUME NEW i \in DOMAIN rounds, answerSupplement(i) PROVE RoundsMove
  BY <1>11, WorkIs DEF WorkStep, RoundsMove
<1>12. ASSUME \/ CreateEntry \/ Edit \/ RestoreItem \/ Readmit \/ DropProof \/ UNCHANGED vars
              \/ \E value \in Value : \/ ProveSubmit(value) \/ SubmitByRule(value)
                                      \/ ProveRecord(value) \/ RecordEntry(value)
                                      \/ ProveRedetermine(value)
              \/ \E scores \in Rule : Report(scores) \/ \E mode \in {"none", "workflow"} : Save(mode, scores)
       PROVE  RoundsMove
  <2>1. rounds' = rounds
    BY <1>12 DEF CreateEntry, Edit, RestoreItem, Readmit, DropProof, vars, ProveSubmit, SubmitByRule,
       ProveRecord, RecordEntry, ProveRedetermine, Prove, Report, Save, caseVars
  <2> QED
    BY <2>1 DEF RoundsMove
<1> QED
  BY <1>3, <1>4, <1>5, <1>6, <1>7, <1>8, <1>9, <1>10, <1>11, <1>12
  DEF Next, OwnerAct, StaffAct, OutsideAct

\* rows are never lost or rewritten, and an ended round is left alone
KeptRounds ==
    \A j \in DOMAIN rounds :
        /\ j \in DOMAIN rounds' /\ SameRound(j)
        /\ Ended(rounds[j]) => rounds'[j] = rounds[j]

(* No act loses a round or rewrites one that ended.                        *)
LEMMA KeptStep ==
    ASSUME Typed, RoundsMove
    PROVE  KeptRounds
<1>1. /\ rounds \in Seq(Round) /\ DOMAIN rounds = 1..Len(rounds)
      /\ \A j \in DOMAIN rounds : rounds[j] \in Round /\ (~Ended(rounds[j]) <=> j \in OpenRounds)
  BY DEF Typed, TypeOK, OpenRounds
<1>2. rounds' \in Seq(Round) => DOMAIN rounds' = 1..Len(rounds')
  OBVIOUS
<1>3. CASE rounds' = rounds
  BY <1>3 DEF KeptRounds, SameRound
<1>4. ASSUME NEW i \in DOMAIN rounds, Worked(i) \/ \E verdict \in Decided : Concludes(i, verdict)
      PROVE  KeptRounds
  <2>1. /\ i \in OpenRounds /\ DOMAIN rounds' = DOMAIN rounds /\ SameRound(i)
        /\ \A j \in DOMAIN rounds : j # i => rounds'[j] = rounds[j]
    BY <1>1, <1>2, <1>4 DEF Worked, Concludes
  <2> QED
    BY <1>1, <2>1 DEF KeptRounds, SameRound
<1>5. CASE Over(rounds')
  <2>1. DOMAIN rounds' = DOMAIN rounds
    BY <1>1, <1>2, <1>5 DEF Over
  <2> SUFFICES ASSUME NEW j \in DOMAIN rounds
               PROVE  SameRound(j) /\ (Ended(rounds[j]) => rounds'[j] = rounds[j])
    BY <2>1 DEF KeptRounds
  <2>2. CASE Ended(rounds[j])
    BY <1>5, <2>2 DEF Over, SameRound
  <2>3. CASE ~Ended(rounds[j])
    <3>1. rounds'[j] = [rounds[j] EXCEPT !.state = "completed", !.outcome = "ended", !.ask = FALSE]
      BY <1>5, <2>3 DEF Over
    <3> QED
      BY <1>1, <2>3, <3>1 DEF SameRound, Round
  <2> QED
    BY <2>2, <2>3
<1>6. CASE OpensRound
  <2>1. \E origin, t : Opens(origin, t)
    BY <1>6 DEF OpensRound
  <2>2. \A j \in DOMAIN rounds : j \in DOMAIN rounds' /\ rounds'[j] = rounds[j]
    BY <2>1 DEF Opens, Appends
  <2> QED
    BY <2>2 DEF KeptRounds, SameRound
<1>7. ASSUME NEW o \in DOMAIN rounds, Reroutes(o) PROVE KeptRounds
  <2>1. /\ o \in OpenRounds /\ \A j \in DOMAIN rounds : j \in DOMAIN rounds'
        /\ \A j \in DOMAIN rounds : j # o => rounds'[j] = rounds[j]
        /\ rounds'[o] = [rounds[o] EXCEPT !.state = "completed", !.outcome = "ended", !.ask = FALSE]
    BY <1>7 DEF Reroutes
  <2>2. SameRound(o)
    BY <1>1, <2>1 DEF SameRound, Round
  <2> QED
    BY <1>1, <2>1, <2>2 DEF KeptRounds, SameRound
<1> QED
  BY <1>3, <1>4, <1>5, <1>6, <1>7 DEF RoundsMove

(* A round waits for an answer exactly while one is asked for.             *)
LEMMA AskedStep ==
    ASSUME Typed, AskedWhileWaiting, RoundsMove
    PROVE  AskedWhileWaiting'
<1>1. /\ rounds \in Seq(Round) /\ DOMAIN rounds = 1..Len(rounds)
      /\ \A j \in DOMAIN rounds : /\ rounds[j] \in Round
                                  /\ rounds[j].ask <=> rounds[j].state = "awaiting_supplement"
  BY DEF Typed, TypeOK, AskedWhileWaiting
<1>2. rounds' \in Seq(Round) => DOMAIN rounds' = 1..Len(rounds')
  OBVIOUS
<1>3. CASE rounds' = rounds
  BY <1>3 DEF AskedWhileWaiting
<1>4. ASSUME NEW i \in DOMAIN rounds, Worked(i) PROVE AskedWhileWaiting'
  <2>1. DOMAIN rounds' = DOMAIN rounds
    BY <1>1, <1>2, <1>4 DEF Worked
  <2> QED
    BY <1>1, <1>4, <2>1 DEF Worked, AskedWhileWaiting
<1>5. ASSUME NEW i \in DOMAIN rounds, NEW verdict \in Decided, Concludes(i, verdict)
      PROVE  AskedWhileWaiting'
  <2>1. DOMAIN rounds' = DOMAIN rounds
    BY <1>1, <1>2, <1>5 DEF Concludes
  <2>2. rounds'[i].ask <=> rounds'[i].state = "awaiting_supplement"
    BY <1>5 DEF Concludes, Ended
  <2> QED
    BY <1>1, <1>5, <2>1, <2>2 DEF Concludes, AskedWhileWaiting
<1>6. CASE Over(rounds')
  <2>1. DOMAIN rounds' = DOMAIN rounds
    BY <1>1, <1>2, <1>6 DEF Over
  <2> SUFFICES ASSUME NEW j \in DOMAIN rounds
               PROVE  rounds'[j].ask <=> rounds'[j].state = "awaiting_supplement"
    BY <2>1 DEF AskedWhileWaiting
  <2>2. CASE Ended(rounds[j])
    BY <1>1, <1>6, <2>2 DEF Over
  <2>3. CASE ~Ended(rounds[j])
    <3>1. rounds'[j] = [rounds[j] EXCEPT !.state = "completed", !.outcome = "ended", !.ask = FALSE]
      BY <1>6, <2>3 DEF Over
    <3>2. rounds'[j].state = "completed" /\ rounds'[j].ask = FALSE
      BY <1>1, <3>1 DEF Round
    <3> QED
      BY <3>2
  <2> QED
    BY <2>2, <2>3
<1>7. CASE OpensRound
  <2>1. \E origin, t : Opens(origin, t)
    BY <1>7 DEF OpensRound
  <2>2. PICK r \in Round : Appends(r) /\ r.ask = FALSE /\ r.state # "awaiting_supplement"
    BY <2>1 DEF Opens
  <2> QED
    BY <1>1, <2>2 DEF Appends, AskedWhileWaiting
<1>8. ASSUME NEW o \in DOMAIN rounds, Reroutes(o) PROVE AskedWhileWaiting'
  <2>1. PICK r \in Round :
          /\ DOMAIN rounds' = DOMAIN rounds \cup {Len(rounds) + 1}
          /\ \A j \in DOMAIN rounds : j # o => rounds'[j] = rounds[j]
          /\ rounds'[o] = [rounds[o] EXCEPT !.state = "completed", !.outcome = "ended", !.ask = FALSE]
          /\ rounds'[Len(rounds) + 1] = r
          /\ r.ask = FALSE /\ r.state # "awaiting_supplement"
    BY <1>8 DEF Reroutes
  <2>2. rounds'[o].state = "completed" /\ rounds'[o].ask = FALSE
    BY <1>1, <2>1 DEF Round
  <2>3. \A j \in DOMAIN rounds' : rounds'[j].ask <=> rounds'[j].state = "awaiting_supplement"
    BY <1>1, <2>1, <2>2
  <2> QED
    BY <2>3 DEF AskedWhileWaiting
<1> QED
  BY <1>3, <1>4, <1>5, <1>6, <1>7, <1>8 DEF RoundsMove

(* A re-routed appeal stays an appeal.                                     *)
LEMMA ContinuedStep ==
    ASSUME Typed, Continued, RoundsMove
    PROVE  Continued'
<1>0. KeptRounds
  BY KeptStep
<1>1. ASSUME DOMAIN rounds' = DOMAIN rounds PROVE Continued'
  BY <1>0, <1>1 DEF KeptRounds, SameRound, Continued
<1>2. rounds \in Seq(Round) /\ DOMAIN rounds = 1..Len(rounds) /\ Len(rounds) \in Nat
  BY DEF Typed, TypeOK
<1>3. rounds' \in Seq(Round) => DOMAIN rounds' = 1..Len(rounds')
  OBVIOUS
<1>4. CASE rounds' = rounds \/ Over(rounds') \/ (\E i \in DOMAIN rounds : Worked(i))
           \/ \E i \in DOMAIN rounds, verdict \in Decided : Concludes(i, verdict)
  <2>1. DOMAIN rounds' = DOMAIN rounds
    BY <1>2, <1>3, <1>4 DEF Over, Worked, Concludes
  <2> QED
    BY <1>1, <2>1
<1>5. ASSUME NEW r \in Round, DOMAIN rounds' = DOMAIN rounds \cup {Len(rounds) + 1},
             rounds'[Len(rounds) + 1] = r, Len(rounds) + 1 \notin DOMAIN rounds,
             \/ r.supersedes = None
             \/ /\ r.supersedes \in DOMAIN rounds
                /\ rounds[r.supersedes].origin = "appeal" <=> r.origin = "appeal"
      PROVE  Continued'
  <2>1. \A j \in DOMAIN rounds : j < Len(rounds) + 1
    BY <1>2
  <2> SUFFICES ASSUME NEW i \in DOMAIN rounds', rounds'[i].supersedes # None
               PROVE  /\ rounds'[i].supersedes \in DOMAIN rounds' /\ rounds'[i].supersedes < i
                      /\ rounds'[rounds'[i].supersedes].origin = "appeal" <=> rounds'[i].origin = "appeal"
    BY DEF Continued
  <2>2. CASE i \in DOMAIN rounds
    <3>1. rounds'[i].supersedes = rounds[i].supersedes /\ rounds'[i].origin = rounds[i].origin
      BY <1>0, <2>2 DEF KeptRounds, SameRound
    <3>2. rounds[i].supersedes \in DOMAIN rounds
      BY <2>2, <3>1 DEF Continued
    <3>3. rounds'[rounds[i].supersedes].origin = rounds[rounds[i].supersedes].origin
      BY <1>0, <3>2 DEF KeptRounds, SameRound
    <3> QED
      BY <1>5, <2>2, <3>1, <3>2, <3>3 DEF Continued
  <2>3. CASE i = Len(rounds) + 1
    <3>1. r.supersedes \in DOMAIN rounds
      BY <1>5, <2>3
    <3>2. rounds'[r.supersedes].origin = rounds[r.supersedes].origin
      BY <1>0, <3>1 DEF KeptRounds, SameRound
    <3> QED
      BY <1>5, <2>1, <2>3, <3>1, <3>2
  <2> QED
    BY <1>5, <2>2, <2>3
<1>6. CASE OpensRound
  <2>1. \E origin, t : Opens(origin, t)
    BY <1>6 DEF OpensRound
  <2>2. PICK r \in Round : Appends(r) /\ r.supersedes = None
    BY <2>1 DEF Opens
  <2> QED
    BY <1>5, <2>2 DEF Appends
<1>7. ASSUME NEW o \in DOMAIN rounds, Reroutes(o) PROVE Continued'
  <2>1. PICK r \in Round :
          /\ DOMAIN rounds' = DOMAIN rounds \cup {Len(rounds) + 1}
          /\ Len(rounds) + 1 \notin DOMAIN rounds
          /\ rounds'[Len(rounds) + 1] = r
          /\ r.origin = IF Contests(rounds[o]) THEN rounds[o].origin ELSE "reroute"
          /\ r.supersedes = o
    BY <1>7 DEF Reroutes
  <2>2. rounds[o].origin = "appeal" <=> r.origin = "appeal"
    BY <2>1 DEF Contests
  <2> QED
    BY <1>5, <2>1, <2>2
<1> QED
  BY <1>4, <1>6, <1>7 DEF RoundsMove

(* An appeal that runs, or concluded, stays the only one that can.         *)
LEMMA AppealedStep ==
    ASSUME Typed, Recorded, Footing, Appealed, RoundsMove
    PROVE  Appealed'
<1>0. KeptRounds
  BY KeptStep
<1>1. rounds \in Seq(Round) /\ DOMAIN rounds = 1..Len(rounds) /\ Len(rounds) \in Nat
  BY DEF Typed, TypeOK
<1>2. rounds' \in Seq(Round) => DOMAIN rounds' = 1..Len(rounds')
  OBVIOUS
<1>3. \A i \in DOMAIN rounds : rounds[i].origin = "appeal" /\ rounds[i].target.kind = "round" =>
          /\ rounds[i].target.id \in DOMAIN rounds
          /\ rounds[rounds[i].target.id].origin # "appeal"
  BY DEF Recorded, Refers, Contests, Appealed
<1>4. \A i \in DOMAIN rounds : rounds'[i].origin = "appeal" /\ rounds'[i].target.kind = "round" =>
          rounds'[rounds'[i].target.id].origin # "appeal"
  BY <1>0, <1>3 DEF KeptRounds, SameRound
<1>5. ASSUME \A j \in DOMAIN rounds : /\ ~Ended(rounds'[j]) => ~Ended(rounds[j])
                                      /\ Concluded(rounds'[j]) => Concluded(rounds[j])
      PROVE  \A i, j \in DOMAIN rounds :
                /\ rounds'[i].origin = "appeal" /\ rounds'[j].origin = "appeal"
                /\ rounds'[i].target = rounds'[j].target /\ Concluded(rounds'[i])
                /\ ~Ended(rounds'[j]) \/ Concluded(rounds'[j])
                => i = j
  BY <1>0, <1>5 DEF KeptRounds, SameRound, Appealed
<1>6. ASSUME DOMAIN rounds' = DOMAIN rounds,
             \A j \in DOMAIN rounds : /\ ~Ended(rounds'[j]) => ~Ended(rounds[j])
                                      /\ Concluded(rounds'[j]) => Concluded(rounds[j])
      PROVE  Appealed'
  BY <1>4, <1>5, <1>6 DEF Appealed
<1>7. CASE rounds' = rounds
  BY <1>6, <1>7
<1>8. ASSUME NEW i \in DOMAIN rounds, Worked(i) PROVE Appealed'
  <2>1. DOMAIN rounds' = DOMAIN rounds
    BY <1>1, <1>2, <1>8 DEF Worked
  <2> QED
    BY <1>6, <1>8, <2>1 DEF Worked, OpenRounds, Concluded
<1>9. CASE Over(rounds')
  <2>1. DOMAIN rounds' = DOMAIN rounds
    BY <1>1, <1>2, <1>9 DEF Over
  <2> SUFFICES ASSUME NEW j \in DOMAIN rounds
               PROVE  /\ ~Ended(rounds'[j]) => ~Ended(rounds[j])
                      /\ Concluded(rounds'[j]) => Concluded(rounds[j])
    BY <1>6, <2>1
  <2>2. CASE Ended(rounds[j])
    BY <1>9, <2>2 DEF Over
  <2>3. CASE ~Ended(rounds[j])
    <3>1. rounds'[j] = [rounds[j] EXCEPT !.state = "completed", !.outcome = "ended", !.ask = FALSE]
      BY <1>9, <2>3 DEF Over
    <3>2. rounds'[j].outcome = "ended"
      BY <1>1, <3>1 DEF Round
    <3> QED
      BY <2>3, <3>2 DEF Concluded, Decided
  <2> QED
    BY <2>2, <2>3
<1>10. ASSUME NEW i \in DOMAIN rounds, NEW verdict \in Decided, Concludes(i, verdict)
       PROVE  Appealed'
  <2>1. DOMAIN rounds' = DOMAIN rounds
    BY <1>1, <1>2, <1>10 DEF Concludes
  <2>2. /\ ~Ended(rounds[i]) /\ \A j \in DOMAIN rounds : ~Ended(rounds[j]) => j = i
        /\ Ended(rounds'[i]) /\ SameRound(i)
        /\ \A j \in DOMAIN rounds : j # i => rounds'[j] = rounds[j]
    BY <1>10 DEF Concludes, OpenRounds, Footing
  <2>3. \A j \in DOMAIN rounds :
          rounds[i].origin = "appeal" /\ rounds[j].origin = "appeal"
            /\ rounds[i].target = rounds[j].target => ~Concluded(rounds[j])
    BY <2>2 DEF Appealed, Concluded
  <2>4. ASSUME NEW a \in DOMAIN rounds, NEW b \in DOMAIN rounds, a # b,
               rounds'[a].origin = "appeal", rounds'[b].origin = "appeal",
               rounds'[a].target = rounds'[b].target, Concluded(rounds'[a]),
               ~Ended(rounds'[b]) \/ Concluded(rounds'[b])
        PROVE  FALSE
    <3>1. /\ rounds[a].origin = "appeal" /\ rounds[b].origin = "appeal"
          /\ rounds[a].target = rounds[b].target
      BY <1>0, <2>4 DEF KeptRounds, SameRound
    <3>2. CASE a = i
      <4>1. rounds'[b] = rounds[b]
        BY <2>2, <2>4, <3>2
      <4>2. Concluded(rounds[b])
        BY <2>2, <2>4, <3>2, <4>1
      <4> QED
        BY <2>3, <3>1, <3>2, <4>2
    <3>3. CASE b = i
      <4>1. Concluded(rounds[a])
        BY <2>2, <2>4, <3>3
      <4> QED
        BY <2>3, <3>1, <3>3, <4>1
    <3>4. CASE a # i /\ b # i
      BY <2>2, <2>4, <3>1, <3>4 DEF Appealed
    <3> QED
      BY <3>2, <3>3, <3>4
  <2> QED
    BY <1>4, <2>1, <2>4 DEF Appealed
<1>11. ASSUME NEW r \in Round, DOMAIN rounds' = DOMAIN rounds \cup {Len(rounds) + 1},
              rounds'[Len(rounds) + 1] = r, Len(rounds) + 1 \notin DOMAIN rounds, ~Ended(r),
              \A j \in DOMAIN rounds : /\ ~Ended(rounds'[j]) => ~Ended(rounds[j])
                                       /\ Concluded(rounds'[j]) => Concluded(rounds[j]),
              r.origin = "appeal" =>
                  /\ \A j \in DOMAIN rounds : rounds[j].origin = "appeal" /\ rounds[j].target = r.target =>
                        ~Concluded(rounds'[j])
                  /\ r.target.kind = "round" =>
                        r.target.id \in DOMAIN rounds /\ rounds[r.target.id].origin # "appeal"
       PROVE  Appealed'
  <2>1. ~Concluded(r)
    BY <1>11 DEF Concluded
  <2>2. ASSUME NEW a \in DOMAIN rounds', NEW b \in DOMAIN rounds', a # b,
               rounds'[a].origin = "appeal", rounds'[b].origin = "appeal",
               rounds'[a].target = rounds'[b].target, Concluded(rounds'[a]),
               ~Ended(rounds'[b]) \/ Concluded(rounds'[b])
        PROVE  FALSE
    <3>1. a \in DOMAIN rounds
      BY <1>11, <2>1, <2>2
    <3>2. CASE b \in DOMAIN rounds
      BY <1>5, <1>11, <2>2, <3>1, <3>2
    <3>3. CASE b = Len(rounds) + 1
      <4>1. rounds[a].origin = "appeal" /\ rounds[a].target = r.target /\ r.origin = "appeal"
        BY <1>0, <1>11, <2>2, <3>1, <3>3 DEF KeptRounds, SameRound
      <4> QED
        BY <1>11, <2>2, <3>1, <4>1
    <3> QED
      BY <1>11, <3>2, <3>3
  <2>3. r.origin = "appeal" /\ r.target.kind = "round" => rounds'[r.target.id].origin # "appeal"
    BY <1>0, <1>11 DEF KeptRounds, SameRound
  <2> QED
    BY <1>4, <1>11, <2>2, <2>3 DEF Appealed
<1>12. CASE OpensRound
  <2>1. PICK origin, t : /\ Opens(origin, t)
                         /\ origin = "appeal" => t \in Conclusions /\ ~Exhausted(t)
    BY <1>12 DEF OpensRound
  <2>2. PICK r \in Round : Appends(r) /\ ~Ended(r) /\ r.origin = origin /\ r.target = t
    BY <2>1 DEF Opens
  <2>3. ASSUME r.origin = "appeal"
        PROVE  /\ \A j \in DOMAIN rounds : rounds[j].origin = "appeal" /\ rounds[j].target = r.target =>
                        ~Concluded(rounds[j])
               /\ r.target.kind = "round" =>
                        r.target.id \in DOMAIN rounds /\ rounds[r.target.id].origin # "appeal"
    <3>1. t \in Conclusions /\ ~Exhausted(t)
      BY <2>1, <2>2, <2>3
    <3>2. t.kind = "round" => t.id \in DOMAIN rounds
      BY <3>1 DEF Conclusions, Targets
    <3> QED
      BY <2>2, <3>1, <3>2 DEF Exhausted
  <2> QED
    BY <1>11, <2>2, <2>3 DEF Appends
<1>13. ASSUME NEW o \in DOMAIN rounds, Reroutes(o) PROVE Appealed'
  <2>1. PICK r \in Round :
          /\ DOMAIN rounds' = DOMAIN rounds \cup {Len(rounds) + 1}
          /\ Len(rounds) + 1 \notin DOMAIN rounds
          /\ \A j \in DOMAIN rounds : j # o => rounds'[j] = rounds[j]
          /\ rounds'[o] = [rounds[o] EXCEPT !.state = "completed", !.outcome = "ended", !.ask = FALSE]
          /\ rounds'[Len(rounds) + 1] = r /\ ~Ended(r)
          /\ r.origin = IF Contests(rounds[o]) THEN rounds[o].origin ELSE "reroute"
          /\ r.target = rounds[o].target
    BY <1>13 DEF Reroutes
  <2>2. /\ ~Ended(rounds[o]) /\ ~Concluded(rounds[o])
        /\ rounds'[o].outcome = "ended" /\ rounds'[o].state = "completed"
    BY <1>1, <1>13, <2>1 DEF Reroutes, OpenRounds, Round, Concluded
  <2>3. ~Concluded(rounds'[o]) /\ Ended(rounds'[o])
    BY <2>2 DEF Concluded, Decided, Ended
  <2>4. ASSUME r.origin = "appeal"
        PROVE  /\ \A j \in DOMAIN rounds : rounds[j].origin = "appeal" /\ rounds[j].target = r.target =>
                        ~Concluded(rounds'[j])
               /\ r.target.kind = "round" =>
                        r.target.id \in DOMAIN rounds /\ rounds[r.target.id].origin # "appeal"
    <3>1. rounds[o].origin = "appeal"
      BY <2>1, <2>4
    <3>2. ASSUME NEW j \in DOMAIN rounds, rounds[j].origin = "appeal", rounds[j].target = r.target,
                 Concluded(rounds'[j])
          PROVE  FALSE
      <4>1. j # o /\ Concluded(rounds[j])
        BY <2>1, <2>3, <3>2
      <4> QED
        BY <2>1, <2>2, <3>1, <3>2, <4>1 DEF Appealed
    <3> QED
      BY <1>3, <2>1, <3>1, <3>2
  <2>5. \A j \in DOMAIN rounds : /\ ~Ended(rounds'[j]) => ~Ended(rounds[j])
                                 /\ Concluded(rounds'[j]) => Concluded(rounds[j])
    BY <2>1, <2>3
  <2> QED
    BY <1>11, <2>1, <2>4, <2>5
<1> QED
  BY <1>7, <1>8, <1>9, <1>10, <1>12, <1>13 DEF RoundsMove

-----------------------------------------------------------------------------
(***************************************************************************)
(* What any step does to the determinations and events.                    *)
(***************************************************************************)

\* one determination more, which the claim stands as from here on: of the
\* filing that stands, by the round that concludes or by none
Determines(round) ==
    /\ Len(recs) \in Nat /\ Len(recs') = Len(recs) + 1
    /\ \A n \in DOMAIN recs : n \in DOMAIN recs' /\ recs'[n] = recs[n]
    /\ \A n \in DOMAIN recs' : n \in DOMAIN recs \/ n = Len(recs) + 1
    /\ Len(recs) + 1 \in DOMAIN recs' /\ Len(recs) + 1 \notin DOMAIN recs
    /\ claim'.standing = Len(recs) + 1
    /\ recs'[Len(recs) + 1].round = round

RecsMove ==
    \/ recs' = recs /\ claim'.standing = claim.standing
    \/ Determines(None)
    \/ \E i \in DOMAIN rounds : Concludes(i, "approved") /\ Determines(i)

EventsMove ==
    \/ events' = events
    \/ /\ Len(events') = Len(events) + 1 /\ Len(events') \in DOMAIN events'
       /\ \A n \in DOMAIN events : n \in DOMAIN events' /\ events'[n] = events[n]

(* insertRecognition, and the pointer that follows it.                     *)
LEMMA DeterminesIs ==
    ASSUME Typed, NEW value \in Value, NEW source \in {"record", "system", "review", "redetermination"},
           NEW revision \in Nat, NEW round \in Ref, Recognise(value, source, revision, round),
           claim'.standing = Len(recs) + 1
    PROVE  /\ Determines(round) /\ recs'[claim'.standing].value = value
           /\ recs'[claim'.standing].source = source /\ recs'[claim'.standing].revision = revision
<1>1. recs \in Seq(Recognition) /\ Len(recs) \in Nat
  BY DEF Typed, TypeOK
<1>2. Len(recs) + 1 \notin DOMAIN recs
  BY <1>1
<1>3. /\ Len(recs) \in Nat /\ Len(recs') = Len(recs) + 1
      /\ \A n \in DOMAIN recs : n \in DOMAIN recs' /\ recs'[n] = recs[n]
      /\ \A n \in DOMAIN recs' : n \in DOMAIN recs \/ n = Len(recs) + 1
      /\ Len(recs) + 1 \in DOMAIN recs'
      /\ recs'[Len(recs) + 1] = [value |-> value, source |-> source,
                                 revision |-> revision, round |-> round]
  BY RecogniseIs
<1>4. /\ recs'[Len(recs) + 1].value = value /\ recs'[Len(recs) + 1].source = source
      /\ recs'[Len(recs) + 1].revision = revision /\ recs'[Len(recs) + 1].round = round
  BY <1>3
<1> QED
  BY <1>2, <1>3, <1>4 DEF Determines

(* No act but a determination moves what a claim stands as.                *)
LEMMA RecsStep ==
    ASSUME Typed, Footing, AskedWhileWaiting, [Next]_vars
    PROVE  RecsMove /\ EventsMove
<1>0. /\ claim \in [status : Status, source : {"self", "record"}, revision : Nat,
                    handed : Nat, current : Ref, standing : Ref]
      /\ None \in Ref /\ claim.revision \in Nat
  BY DEF Typed, TypeOK, Ref
<1>1. ASSUME UNCHANGED <<recs, events>>, claim'.standing = claim.standing
      PROVE  RecsMove /\ EventsMove
  BY <1>1 DEF RecsMove, EventsMove
<1>2. ASSUME NEW value \in Value, RecordEntry(value) PROVE RecsMove /\ EventsMove
  <2>1. PICK n \in Nat : n = 1
    OBVIOUS
  <2>2. Recognise(value, "record", n, None) /\ events' = events
    BY <1>2, <2>1 DEF RecordEntry
  <2>3. claim'.standing = Len(recs) + 1
    BY <1>0, <1>2 DEF RecordEntry
  <2> QED
    BY <1>0, <2>2, <2>3, DeterminesIs DEF RecsMove, EventsMove
<1>3. ASSUME NEW value \in Value, SubmitByRule(value) PROVE RecsMove /\ EventsMove
  <2>1. PICK n \in Nat : n = claim.revision
    BY <1>0
  <2>2. Recognise(value, "system", n, None) /\ events' = events
    BY <1>3, <2>1 DEF SubmitByRule
  <2>3. claim'.standing = Len(recs) + 1
    BY <1>0, <1>3 DEF SubmitByRule, ApprovedByRule
  <2> QED
    BY <1>0, <2>2, <2>3, DeterminesIs DEF RecsMove, EventsMove
<1>4. ASSUME NEW i \in DOMAIN rounds, NEW value \in Value, DecideApprove(i, value)
      PROVE  RecsMove /\ EventsMove
  <2>1. Concludes(i, "approved")
    BY <1>4, ConcludeIs DEF DecideApprove, Decided
  <2>2. rounds[i].revision \in Nat /\ i \in Ref
    <3>1. rounds[i] \in Round
      BY DEF Typed, TypeOK
    <3> QED
      BY <3>1, OpenIsARow DEF Round, Ref
  <2>3. PICK n \in Nat : n = rounds[i].revision
    BY <2>2
  <2>4. Recognise(value, "review", n, i) /\ events' = events
    BY <1>4, <2>3 DEF DecideApprove
  <2>5. claim'.standing = Len(recs) + 1
    BY <1>0, <1>4 DEF DecideApprove
  <2> QED
    BY <2>1, <2>2, <2>4, <2>5, DeterminesIs DEF RecsMove, EventsMove
<1>5. ASSUME NEW kind \in EventKind, events' = Append(events, kind) PROVE EventsMove
  <2>1. events \in Seq(EventKind)
    BY TypedIs
  <2> QED
    BY <1>5, <2>1 DEF EventsMove
<1>6. ASSUME NEW value \in Value, Redetermine(value) PROVE RecsMove /\ EventsMove
  <2>1. PICK n \in Nat : n = claim.revision
    BY <1>0
  <2>2. Recognise(value, "redetermination", n, None)
    BY <1>6, <2>1 DEF Redetermine
  <2>3. claim'.standing = Len(recs) + 1
    BY <1>0, <1>6 DEF Redetermine
  <2>4. EventsMove
    BY <1>5, <1>6 DEF Redetermine, EventKind
  <2> QED
    BY <1>0, <2>2, <2>3, <2>4, DeterminesIs DEF RecsMove
<1>7. CASE Revoke
  <2>1. EventsMove
    BY <1>5, <1>7 DEF Revoke, EventKind
  <2>2. recs' = recs /\ claim'.standing = claim.standing
    BY <1>0, <1>7 DEF Revoke
  <2> QED
    BY <2>1, <2>2 DEF RecsMove
<1>8. CASE CreateEntry \/ Edit \/ Submit \/ Abandon \/ Withdraw
  <2>1. UNCHANGED <<recs, events>> /\ claim'.standing = claim.standing
    BY <1>0, <1>8 DEF CreateEntry, Edit, Submit, Abandon, Withdraw
  <2> QED
    BY <1>1, <2>1
<1>9. CASE Return \/ VoidRecord \/ \E t \in Targets : Appeal(t) \/ Reopen(t)
  <2>1. UNCHANGED <<recs, events>> /\ claim'.standing = claim.standing
    BY <1>0, <1>9 DEF Return, VoidRecord, Appeal, Reopen, OpenContestingRound
  <2> QED
    BY <1>1, <2>1
<1>10. ASSUME NEW i \in DOMAIN rounds, DecideReject(i) PROVE RecsMove /\ EventsMove
  <2>1. UNCHANGED <<recs, events>> /\ claim'.standing = claim.standing
    BY <1>0, <1>10 DEF DecideReject
  <2> QED
    BY <1>1, <2>1
<1>11. ASSUME \/ RestoreItem \/ Readmit \/ DropProof \/ UNCHANGED vars \/ WorkStep
              \/ \E value \in Value : \/ ProveSubmit(value) \/ ProveRecord(value)
                                      \/ ProveRedetermine(value)
                                      \/ \E i \in DOMAIN rounds : ProveDecide(i, value)
              \/ \E scores \in Rule : Report(scores) \/ \E mode \in {"none", "workflow"} : Save(mode, scores)
       PROVE  RecsMove /\ EventsMove
  <2>1. UNCHANGED <<claim, recs, events>>
    BY <1>11, WorkIs DEF RestoreItem, Readmit, DropProof, vars, ProveSubmit, ProveRecord, ProveRedetermine,
       ProveDecide, Prove, Report, Save, caseVars
  <2> QED
    BY <1>1, <2>1
<1>12. CASE VoidItem \/ Exclude
  <2>1. UNCHANGED <<recs, events>> /\ claim'.standing = claim.standing
    BY <1>0, <1>12 DEF VoidItem, Exclude, Repointed
  <2> QED
    BY <1>1, <2>1
<1>13. ASSUME NEW scores \in Rule,
              SaveAndReroute(scores) \/ \E mode \in {"none", "workflow"} : SaveAndReturn(mode, scores)
       PROVE  RecsMove /\ EventsMove
  <2>1. UNCHANGED <<recs, events>> /\ claim'.standing = claim.standing
    BY <1>0, <1>13 DEF SaveAndReroute, SaveAndReturn
  <2> QED
    BY <1>1, <2>1
<1> QED
  BY <1>2, <1>3, <1>4, <1>6, <1>7, <1>8, <1>9, <1>10, <1>11, <1>12, <1>13
  DEF Next, OwnerAct, ReviewAct, StaffAct, OutsideAct, WorkStep

\* a row written stays, as it was written
KeptRows ==
    /\ \A n \in DOMAIN recs : n \in DOMAIN recs' /\ recs'[n] = recs[n]
    /\ \A n \in DOMAIN events : n \in DOMAIN events' /\ events'[n] = events[n]

(* No act loses a determination or an event, or rewrites one.              *)
LEMMA KeptRowsStep ==
    ASSUME RecsMove, EventsMove
    PROVE  KeptRows
BY DEF RecsMove, EventsMove, Determines, KeptRows

(***************************************************************************)
(* What the rows point at.                                                 *)
(***************************************************************************)

(* A row a contest names stays, and stays concluded.                       *)
LEMMA RefersStays ==
    ASSUME KeptRounds, KeptRows, NEW t, Refers(t)
    PROVE  Refers(t)'
BY DEF KeptRounds, KeptRows, Refers, Concluded

(* The rows go on pointing at rows that are there, and a round settles one *)
(* determination: it ends by it.                                           *)
LEMMA RecordedStep ==
    ASSUME Typed, Recorded, RoundsMove, RecsMove, EventsMove
    PROVE  Recorded'
<1>0. KeptRounds /\ KeptRows
  BY KeptStep, KeptRowsStep
<1>1. ASSUME NEW n \in DOMAIN recs', recs'[n].round # None
      PROVE  /\ recs'[n].round \in DOMAIN rounds' /\ Concluded(rounds'[recs'[n].round])
             /\ \A m \in DOMAIN recs' : recs'[m].round = recs'[n].round => m = n
  <2>1. ASSUME NEW m \in DOMAIN recs, recs[m].round # None
        PROVE  /\ recs[m].round \in DOMAIN rounds /\ Concluded(rounds[recs[m].round])
               /\ recs[m].round \in DOMAIN rounds' /\ Concluded(rounds'[recs[m].round])
               /\ \A k \in DOMAIN recs : recs[k].round = recs[m].round => k = m
    BY <1>0, <2>1 DEF Recorded, KeptRounds, Concluded
  <2>2. CASE recs' = recs
    BY <1>1, <2>1, <2>2
  <2>3. CASE Determines(None)
    BY <1>1, <2>1, <2>3 DEF Determines
  <2>4. ASSUME NEW i \in DOMAIN rounds, Concludes(i, "approved"), Determines(i)
        PROVE  /\ recs'[n].round \in DOMAIN rounds' /\ Concluded(rounds'[recs'[n].round])
               /\ \A m \in DOMAIN recs' : recs'[m].round = recs'[n].round => m = n
    <3>1. i \in DOMAIN rounds' /\ Concluded(rounds'[i]) /\ ~Concluded(rounds[i])
      BY <1>0, <2>4 DEF Concludes, Concluded, Decided, KeptRounds, OpenRounds
    <3>2. i # None
      BY NoneAssumption, OpenIsARow
    <3>3. \A m \in DOMAIN recs : recs[m].round # i
      BY <2>1, <3>1, <3>2
    <3>4. CASE n \in DOMAIN recs
      BY <1>1, <2>1, <2>4, <3>3, <3>4 DEF Determines
    <3>5. CASE n = Len(recs) + 1
      BY <2>4, <3>1, <3>3, <3>5 DEF Determines
    <3> QED
      BY <2>4, <3>4, <3>5 DEF Determines
  <2> QED
    BY <2>2, <2>3, <2>4 DEF RecsMove
<1>2. claim'.standing # None => claim'.standing \in DOMAIN recs'
  BY DEF RecsMove, Determines, Recorded
<1>3. ASSUME NEW i \in DOMAIN rounds, Contests(rounds'[i]) PROVE Refers(rounds[i].target)'
  <2>1. PICK t : t = rounds[i].target
    OBVIOUS
  <2>2. rounds'[i].target = t /\ Contests(rounds[i])
    BY <1>0, <1>3, <2>1 DEF KeptRounds, SameRound, Contests
  <2>3. Refers(t)
    BY <2>1, <2>2 DEF Recorded
  <2>4. Refers(t)'
    BY <1>0, <2>3, RefersStays
  <2> QED
    BY <2>2, <2>4 DEF Refers
<1>4. ASSUME NEW i \in DOMAIN rounds', Contests(rounds'[i]) PROVE Refers(rounds[i].target)'
  <2>0. rounds \in Seq(Round) /\ DOMAIN rounds = 1..Len(rounds)
        /\ (rounds' \in Seq(Round) => DOMAIN rounds' = 1..Len(rounds'))
    BY DEF Typed, TypeOK
  <2>1. CASE i \in DOMAIN rounds
    BY <1>3, <1>4, <2>1
  <2>2. CASE rounds' = rounds \/ Over(rounds') \/ (\E j \in DOMAIN rounds : Worked(j))
             \/ \E j \in DOMAIN rounds, verdict \in Decided : Concludes(j, verdict)
    BY <1>3, <1>4, <2>0, <2>2 DEF Over, Worked, Concludes
  <2>3. CASE OpensRound /\ i \notin DOMAIN rounds
    <3>1. PICK origin, t : /\ Opens(origin, t)
                           /\ origin = "initial" \/ t \in Conclusions
      BY <2>3 DEF OpensRound
    <3>2. rounds'[i].origin = origin /\ rounds'[i].target = t
      BY <1>4, <2>3, <3>1 DEF Opens, Appends
    <3>3. t \in Conclusions
      BY <1>4, <3>1, <3>2 DEF Contests
    <3>4. t \in Targets /\ StandsOn(t) /\ t \in ConclusionTarget
      BY <3>3, TargetsType DEF Conclusions
    <3>5. /\ t.kind = "round" => t.id \in DOMAIN rounds
          /\ t.kind = "recognition" => t.id \in DOMAIN recs
          /\ t.kind = "revocation" => t.id \in DOMAIN events
      BY <3>4 DEF Targets
    <3>6. t.kind = "round" => Concluded(rounds[t.id])
      BY <3>4 DEF StandsOn
    <3>7. Refers(t)
      BY <3>4, <3>5, <3>6 DEF Refers
    <3>8. Refers(t)'
      BY <1>0, <3>7, RefersStays
    <3> QED
      BY <3>2, <3>8 DEF Refers
  <2>4. ASSUME NEW o \in DOMAIN rounds, Reroutes(o), i \notin DOMAIN rounds
        PROVE  Refers(rounds[i].target)'
    <3>1. PICK t : t = rounds[o].target
      OBVIOUS
    <3>2. rounds'[i].target = t /\ Contests(rounds[o])
      BY <1>4, <2>4, <3>1 DEF Reroutes, Contests
    <3>3. Refers(t)
      BY <3>1, <3>2 DEF Recorded
    <3>4. Refers(t)'
      BY <1>0, <3>3, RefersStays
    <3> QED
      BY <3>2, <3>4 DEF Refers
  <2> QED
    BY <2>1, <2>2, <2>3, <2>4 DEF RoundsMove
<1> QED
  BY <1>1, <1>2, <1>4 DEF Recorded

-----------------------------------------------------------------------------
(***************************************************************************)
(* The footing of a claim.                                                 *)
(***************************************************************************)

(* Which round runs after each move.                                       *)
LEMMA OpenAfter ==
    ASSUME Typed, Footing
    PROVE  /\ rounds' = rounds => OpenRounds' = OpenRounds
           /\ \A i \in DOMAIN rounds : Worked(i) => OpenRounds' = OpenRounds
           /\ \A i \in DOMAIN rounds : \A verdict : Concludes(i, verdict) => OpenRounds' = {}
           /\ Over(rounds') => OpenRounds' = {}
           /\ \A origin, t : Opens(origin, t) => OpenRounds' = {Len(rounds) + 1}
           /\ \A o \in DOMAIN rounds : Reroutes(o) => OpenRounds' = {Len(rounds) + 1}
<1>1. /\ rounds \in Seq(Round) /\ DOMAIN rounds = 1..Len(rounds)
      /\ \A j \in DOMAIN rounds : rounds[j] \in Round /\ (~Ended(rounds[j]) <=> j \in OpenRounds)
      /\ \A i, j \in OpenRounds : i = j
  BY DEF Typed, TypeOK, OpenRounds, Footing
<1>2. rounds' \in Seq(Round) => DOMAIN rounds' = 1..Len(rounds')
  OBVIOUS
<1>3. rounds' = rounds => OpenRounds' = OpenRounds
  BY DEF OpenRounds
<1>4. ASSUME NEW i \in DOMAIN rounds, Worked(i) PROVE OpenRounds' = OpenRounds
  <2>1. DOMAIN rounds' = DOMAIN rounds
    BY <1>1, <1>2, <1>4 DEF Worked
  <2> QED
    BY <1>4, <2>1 DEF Worked, OpenRounds
<1>5. ASSUME NEW i \in DOMAIN rounds, NEW verdict, Concludes(i, verdict) PROVE OpenRounds' = {}
  <2>1. DOMAIN rounds' = DOMAIN rounds
    BY <1>1, <1>2, <1>5 DEF Concludes
  <2>2. \A j \in DOMAIN rounds : Ended(rounds'[j])
    BY <1>1, <1>5 DEF Concludes
  <2> QED
    BY <2>1, <2>2 DEF OpenRounds
<1>6. ASSUME Over(rounds') PROVE OpenRounds' = {}
  <2>1. DOMAIN rounds' = DOMAIN rounds
    BY <1>1, <1>2, <1>6 DEF Over
  <2>2. ASSUME NEW j \in DOMAIN rounds PROVE Ended(rounds'[j])
    <3>1. CASE Ended(rounds[j])
      BY <1>6, <3>1 DEF Over
    <3>2. CASE ~Ended(rounds[j])
      <4>1. rounds'[j] = [rounds[j] EXCEPT !.state = "completed", !.outcome = "ended", !.ask = FALSE]
        BY <1>6, <3>2 DEF Over
      <4> QED
        BY <1>1, <4>1 DEF Ended, Round
    <3> QED
      BY <3>1, <3>2
  <2> QED
    BY <2>1, <2>2 DEF OpenRounds
<1>7. ASSUME NEW origin, NEW t, Opens(origin, t) PROVE OpenRounds' = {Len(rounds) + 1}
  BY <1>1, <1>7 DEF Opens, Appends, OpenRounds, hasOpenRound
<1>8. ASSUME NEW o \in DOMAIN rounds, Reroutes(o) PROVE OpenRounds' = {Len(rounds) + 1}
  <2>1. PICK r : /\ DOMAIN rounds' = DOMAIN rounds \cup {Len(rounds) + 1}
                 /\ \A j \in DOMAIN rounds : j # o => rounds'[j] = rounds[j]
                 /\ rounds'[o] = [rounds[o] EXCEPT !.state = "completed", !.outcome = "ended", !.ask = FALSE]
                 /\ rounds'[Len(rounds) + 1] = r /\ ~Ended(r) /\ o \in OpenRounds
    BY <1>8 DEF Reroutes
  <2>2. Ended(rounds'[o])
    BY <1>1, <2>1 DEF Ended, Round
  <2>3. \A j \in DOMAIN rounds : Ended(rounds'[j])
    BY <1>1, <2>1, <2>2
  <2> QED
    BY <2>1, <2>3 DEF OpenRounds
<1> QED
  BY <1>3, <1>4, <1>5, <1>6, <1>7, <1>8

(* What a claim stands on carries over while the claim keeps its standing. *)
LEMMA StandsCarries ==
    ASSUME KeptRounds, UNCHANGED <<recs, events>>, claim'.status = claim.status,
           claim'.revision = claim.revision, claim'.standing = claim.standing
    PROVE  /\ \A c : StandsAs(c) => StandsAs(c)'
           /\ \A t : HeldBy(t) => HeldBy(t)'
<1>1. \A c : StandsAs(c) => StandsAs(c)'
  BY DEF KeptRounds, StandsAs, Concluded
<1>2. ASSUME NEW t, HeldBy(t) PROVE HeldBy(t)'
  <2>1. t.kind = "round" => StandsAs(t.id)'
    BY <1>1, <1>2 DEF HeldBy
  <2> QED
    BY <1>2, <2>1 DEF HeldBy
<1> QED
  BY <1>1, <1>2

(* A contested claim can be put back on what it stood on.                  *)
LEMMA StoodIs ==
    ASSUME Typed, Recorded, Footing, NEW i \in OpenRounds, Contests(rounds[i])
    PROVE  StandsAs(StoodBefore(i)) /\ claim.status \in Decided
<1>1. PICK t : t = rounds[i].target
  OBVIOUS
<1>2. Refers(t) /\ HeldBy(t) /\ claim.status \in Decided
  BY <1>1 DEF Recorded, Footing, OpenRounds
<1>3. t \in ConclusionTarget /\ t # None
  BY <1>2, NoneIsNoRow DEF Refers
<1>4. CASE t.kind = "round"
  BY <1>1, <1>2, <1>3, <1>4 DEF HeldBy, StoodBefore
<1>5. CASE t.kind # "round"
  <2>1. StoodBefore(i) = None
    BY <1>1, <1>5 DEF StoodBefore
  <2>2. CASE t.kind = "recognition"
    <3>1. StandsAs(None)
      BY <1>2, <2>2 DEF HeldBy, StandsAs
    <3> QED
      BY <1>2, <2>1, <3>1
  <2>3. CASE t.kind = "revocation"
    <3>1. t.id \in DOMAIN events /\ events \in Seq(EventKind)
      BY <1>2, <2>3, TypedIs DEF Refers
    <3>2. Len(events) # 0
      BY <3>1
    <3>3. StandsAs(None)
      BY <1>2, <2>3, <3>2 DEF HeldBy, StandsAs
    <3> QED
      BY <1>2, <2>1, <3>3
  <2> QED
    BY <1>3, <1>5, <2>2, <2>3 DEF ConclusionTarget
<1> QED
  BY <1>4, <1>5

(* A claim with no round running has its footing if, decided, it stands on *)
(* something that says what it says.                                       *)
LEMMA Settles ==
    ASSUME OpenRounds' = {}, claim'.status \notin {"in_review", "absent"},
           claim'.status \in Decided => StandsAs(claim.current)',
           claim'.status = "approved" => recs'[claim'.standing].revision = claim'.revision
    PROVE  Footing'
BY DEF Footing, hasOpenRound

(* A claim left alone keeps its footing while its round is worked on.      *)
LEMMA FootingStays ==
    ASSUME Typed, Recorded, Footing, KeptRounds, UNCHANGED <<claim, recs, events>>,
           OpenRounds' = OpenRounds
    PROVE  Footing'
<1>1. ASSUME NEW i \in OpenRounds
      PROVE  /\ claim'.current = i /\ rounds'[i].revision = claim'.revision
             /\ Contests(rounds'[i]) => claim'.status \in Decided /\ HeldBy(rounds[i].target)'
             /\ ~Contests(rounds'[i]) => claim'.status = "in_review"
  <2>1. i \in DOMAIN rounds
    BY DEF OpenRounds
  <2>2. PICK t : t = rounds[i].target
    OBVIOUS
  <2>3. rounds'[i].target = t /\ (Contests(rounds'[i]) <=> Contests(rounds[i]))
        /\ rounds'[i].revision = rounds[i].revision
    BY <2>1, <2>2 DEF KeptRounds, SameRound, Contests
  <2>4. Contests(rounds[i]) => claim'.status \in Decided /\ HeldBy(t)'
    BY <2>2, StandsCarries DEF Footing
  <2>5. HeldBy(t)' => HeldBy(rounds[i].target)'
    BY <2>3 DEF HeldBy
  <2> QED
    BY <2>3, <2>4, <2>5 DEF Footing
<1>2. claim.status \in Decided /\ ~hasOpenRound => StandsAs(claim.current)'
  <2>1. PICK c : c = claim.current
    OBVIOUS
  <2>2. claim.status \in Decided /\ ~hasOpenRound => StandsAs(c)'
    BY <2>1, StandsCarries DEF Footing
  <2>3. c = claim'.current
    BY <2>1
  <2> QED
    BY <2>2, <2>3 DEF StandsAs
<1> QED
  BY <1>1, <1>2 DEF Footing, hasOpenRound

(* A verdict is what the claim stands on.                                  *)
LEMMA VerdictFooting ==
    ASSUME Typed, Recorded, Footing, AskedWhileWaiting, NEW i \in DOMAIN rounds,
           DecideReject(i) \/ \E value \in Value : DecideApprove(i, value)
    PROVE  Footing'
<1>1. /\ claim \in [status : Status, source : {"self", "record"}, revision : Nat,
                    handed : Nat, current : Ref, standing : Ref]
      /\ rounds[i].revision \in Nat /\ i \in Ref /\ rounds \in Seq(Round)
  <2>1. rounds[i] \in Round /\ rounds \in Seq(Round)
    BY DEF Typed, TypeOK
  <2> QED
    BY <2>1, OpenIsARow DEF Typed, TypeOK, Round, Ref
<1>2. i # None /\ "rejected" \in Decided /\ "approved" \in Decided
  BY NoneAssumption, OpenIsARow DEF Decided
<1>3. ASSUME NEW verdict \in Decided, Concludes(i, verdict)
      PROVE  /\ i \in DOMAIN rounds' /\ Concluded(rounds'[i]) /\ rounds'[i].outcome = verdict
             /\ rounds'[i].revision = claim.revision /\ rounds[i].revision = claim.revision
             /\ claim.current = i /\ OpenRounds' = {}
  <2>1. i \in DOMAIN rounds'
    BY <1>1, <1>3 DEF Concludes
  <2>2. rounds[i].revision = claim.revision
    BY <1>3 DEF Concludes, Footing
  <2> QED
    BY <1>3, <2>1, <2>2, OpenAfter DEF Concludes, SameRound, Concluded
<1>4. CASE DecideReject(i)
  <2>1. Concludes(i, "rejected")
    BY <1>2, <1>4, ConcludeIs DEF DecideReject
  <2>2. claim'.status = "rejected" /\ claim'.current = claim.current /\ claim'.revision = claim.revision
    BY <1>1, <1>4 DEF DecideReject
  <2>3. claim'.current = i /\ StandsAs(i)'
    BY <1>2, <1>3, <2>1, <2>2 DEF StandsAs
  <2>4. StandsAs(claim.current)'
    BY <2>3 DEF StandsAs
  <2> QED
    BY <1>2, <1>3, <2>1, <2>2, <2>4, Settles
<1>5. ASSUME NEW value \in Value, DecideApprove(i, value) PROVE Footing'
  <2>1. Concludes(i, "approved")
    BY <1>2, <1>5, ConcludeIs DEF DecideApprove
  <2>2. /\ claim'.status = "approved" /\ claim'.current = claim.current
        /\ claim'.revision = claim.revision /\ claim'.standing = Len(recs) + 1
    BY <1>1, <1>5 DEF DecideApprove
  <2>3. PICK n \in Nat : n = rounds[i].revision
    BY <1>1
  <2>4. Recognise(value, "review", n, i)
    BY <1>5, <2>3 DEF DecideApprove
  <2>5. Determines(i) /\ recs'[claim'.standing].revision = n
    BY <1>1, <2>2, <2>4, DeterminesIs
  <2>6. recs'[claim'.standing].round = i
    BY <2>2, <2>5 DEF Determines
  <2>7. claim'.current = i /\ StandsAs(i)'
    BY <1>2, <1>3, <2>1, <2>2, <2>6 DEF StandsAs
  <2>8. StandsAs(claim.current)'
    BY <2>7 DEF StandsAs
  <2> QED
    BY <1>2, <1>3, <2>1, <2>2, <2>3, <2>5, <2>8, Settles
<1> QED
  BY <1>4, <1>5

(* What staff and the rule determine is what the claim stands on.          *)
LEMMA DeterminedFooting ==
    ASSUME Typed, Recorded, Footing, NEW value \in Value,
           RecordEntry(value) \/ SubmitByRule(value) \/ Redetermine(value)
    PROVE  Footing'
<1>1. /\ claim \in [status : Status, source : {"self", "record"}, revision : Nat,
                    handed : Nat, current : Ref, standing : Ref]
      /\ claim.revision \in Nat /\ None \in Ref
  BY DEF Typed, TypeOK, Ref
<1>2. ASSUME NEW source \in {"record", "system", "redetermination"}, NEW n \in Nat,
             Recognise(value, source, n, None), claim'.standing = Len(recs) + 1,
             claim'.status = "approved", claim'.current = None, claim'.revision = n,
             OpenRounds' = {}
      PROVE  Footing'
  <2>0. source \in {"record", "system", "review", "redetermination"}
    OBVIOUS
  <2>1. recs'[claim'.standing].source = source /\ recs'[claim'.standing].revision = n
    BY <1>1, <1>2, <2>0, DeterminesIs
  <2>2. StandsAs(None)'
    BY <1>2, <2>1 DEF StandsAs
  <2>3. StandsAs(claim.current)'
    BY <1>2, <2>2 DEF StandsAs
  <2> QED
    BY <1>2, <2>1, <2>3, Settles
<1>3. CASE RecordEntry(value)
  <2>1. PICK n \in Nat : n = 1
    OBVIOUS
  <2>2. /\ claim'.standing = Len(recs) + 1 /\ claim'.status = "approved"
        /\ claim'.current = claim.current /\ claim'.revision = n /\ claim.status = "absent"
        /\ rounds' = rounds /\ Recognise(value, "record", n, None)
    BY <1>1, <1>3, <2>1 DEF RecordEntry, MayRecord
  <2>3. OpenRounds = {} /\ claim.current = None
    BY <2>2 DEF Footing, Decided
  <2>4. OpenRounds' = {}
    BY <2>2, <2>3, OpenAfter
  <2> QED
    BY <1>2, <2>2, <2>3, <2>4
<1>4. CASE SubmitByRule(value)
  <2>1. PICK n \in Nat : n = claim.revision
    BY <1>1
  <2>2. /\ claim'.standing = Len(recs) + 1 /\ claim'.status = "approved"
        /\ claim'.current = None /\ claim'.revision = n
        /\ rounds' = rounds /\ Recognise(value, "system", n, None) /\ OpenRounds = {}
    BY <1>1, <1>4, <2>1 DEF SubmitByRule, ApprovedByRule, MaySubmit, hasOpenRound
  <2>3. OpenRounds' = {}
    BY <2>2, OpenAfter
  <2> QED
    BY <1>2, <2>2, <2>3
<1>5. CASE Redetermine(value)
  <2>1. PICK n \in Nat : n = claim.revision
    BY <1>1
  <2>2. /\ claim'.standing = Len(recs) + 1 /\ claim'.status = "approved"
        /\ claim'.current = None /\ claim'.revision = n
        /\ rounds' = EndContest /\ Recognise(value, "redetermination", n, None)
    BY <1>1, <1>5, <2>1 DEF Redetermine
  <2>3. OpenRounds' = {}
    BY <2>2, OpenAfter, EndContestIs
  <2> QED
    BY <1>2, <2>2, <2>3
<1> QED
  BY <1>3, <1>4, <1>5

(* A round opened, or moved onto a new policy, is where the claim stands.  *)
LEMMA OpenedFooting ==
    ASSUME Typed, Recorded, Footing,
           \/ Submit
           \/ \E t \in Targets : Appeal(t) \/ Reopen(t)
           \/ \E scores \in Rule : SaveAndReroute(scores)
    PROVE  Footing'
<1>1. /\ claim \in [status : Status, source : {"self", "record"}, revision : Nat,
                    handed : Nat, current : Ref, standing : Ref]
      /\ rounds \in Seq(Round)
  BY DEF Typed, TypeOK
<1>l. PICK l : l = Len(rounds) + 1
  OBVIOUS
<1>2. ASSUME OpenRounds' = {l}, claim'.current = l,
             rounds'[l].revision = claim'.revision, claim'.status # "absent",
             claim'.status = "approved" => recs'[claim'.standing].revision = claim'.revision,
             IF Contests(rounds'[l])
             THEN claim'.status \in Decided /\ HeldBy(rounds[l].target)'
             ELSE claim'.status = "in_review"
      PROVE  Footing'
  BY <1>2 DEF Footing, hasOpenRound, Decided
<1>3. CASE Submit
  <2>1. PICK r : Appends(r) /\ r.origin = "initial" /\ r.revision = claim.revision
    BY <1>3, OpenIs DEF Opens
  <2>2. OpenRounds' = {l}
    BY <1>l, <1>3, OpenIs, OpenAfter
  <2>3. /\ claim'.current = l /\ claim'.status = "in_review"
        /\ claim'.revision = claim.revision
    BY <1>1, <1>l, <1>3 DEF Submit
  <2>4. ~Contests(rounds'[l]) /\ rounds'[l].revision = claim'.revision
    BY <1>l, <2>1, <2>3 DEF Appends, Contests
  <2> QED
    BY <1>2, <2>2, <2>3, <2>4
<1>4. ASSUME NEW t \in Targets, NEW origin \in {"appeal", "reopen"}, t \in Conclusions,
             OpenContestingRound(origin, t), Opens(origin, t)
      PROVE  Footing'
  <2>1. PICK r : Appends(r) /\ r.origin = origin /\ r.target = t /\ r.revision = claim.revision
    BY <1>4 DEF Opens
  <2>2. OpenRounds' = {l}
    BY <1>l, <1>4, OpenAfter
  <2>3. /\ claim'.current = l /\ claim'.status = claim.status
        /\ claim'.revision = claim.revision /\ claim'.standing = claim.standing
        /\ UNCHANGED <<recs, events>> /\ ~hasOpenRound
    BY <1>1, <1>l, <1>4 DEF OpenContestingRound
  <2>4. /\ Contests(rounds'[l]) /\ rounds'[l].target = t
        /\ rounds'[l].revision = claim'.revision
    BY <1>l, <2>1, <2>3 DEF Appends, Contests
  <2>5. t \in ConclusionTarget /\ StandsOn(t)
    BY <1>4, TargetsType DEF Conclusions
  <2>6. claim.status \in Decided
    BY <2>5 DEF StandsOn, ConclusionTarget, Decided
  <2>7. StandsAs(claim.current)
    BY <2>3, <2>6 DEF Footing
  <2>8. HeldBy(t)
    <3>1. t.kind = "round" => StandsAs(t.id)
      BY <2>5, <2>7 DEF StandsOn
    <3>2. t.kind = "recognition" => /\ claim.status = "approved" /\ claim.standing = t.id
                                    /\ recs[t.id].source \in {"record", "redetermination"}
      BY <2>5 DEF StandsOn
    <3>3. t.kind = "revocation" =>
             claim.status = "rejected" /\ t.id = Len(events) /\ events[t.id] = "approval-revoked"
      BY <2>5 DEF StandsOn
    <3> QED
      BY <3>1, <3>2, <3>3 DEF HeldBy
  <2>9. KeptRounds
    BY <2>1 DEF Appends, KeptRounds, SameRound
  <2>10. HeldBy(t)'
    BY <2>3, <2>8, <2>9, StandsCarries
  <2>11. HeldBy(rounds[l].target)'
    BY <2>4, <2>10 DEF HeldBy
  <2>12. claim.status = "approved" => recs[claim.standing].revision = claim.revision
    BY DEF Footing
  <2> QED
    BY <1>2, <2>2, <2>3, <2>4, <2>6, <2>11, <2>12 DEF Decided
<1>5. ASSUME NEW t \in Targets, Appeal(t) \/ Reopen(t) PROVE Footing'
  <2>1. t \in ConclusionTarget
    BY TargetsType
  <2> QED
    BY <1>4, <1>5, <2>1, OpenIs DEF Appeal, Reopen
<1>6. ASSUME NEW scores \in Rule, SaveAndReroute(scores) PROVE Footing'
  <2>1. PICK o \in DOMAIN rounds : o = openRoundOf /\ o \in OpenRounds /\ Reroutes(o)
    BY <1>6, OpenIsARow, RerouteIs DEF SaveAndReroute
  <2>2. PICK r : /\ rounds'[l] = r /\ r.target = rounds[o].target /\ r.revision = rounds[o].revision
                 /\ r.origin = IF Contests(rounds[o]) THEN rounds[o].origin ELSE "reroute"
    BY <1>l, <2>1 DEF Reroutes
  <2>3. OpenRounds' = {l}
    BY <1>l, <2>1, OpenAfter
  <2>4. /\ claim'.current = l /\ claim'.status = claim.status
        /\ claim'.revision = claim.revision /\ claim'.standing = claim.standing
        /\ UNCHANGED <<recs, events>>
    BY <1>1, <1>l, <1>6 DEF SaveAndReroute
  <2>5. PICK t : t = rounds[o].target
    OBVIOUS
  <2>6. KeptRounds
    <3>1. RoundsMove
      BY <2>1 DEF RoundsMove
    <3> QED
      BY <3>1, KeptStep
  <2>7. /\ rounds[o].revision = claim.revision
        /\ Contests(rounds[o]) => claim.status \in Decided /\ HeldBy(t)
        /\ ~Contests(rounds[o]) => claim.status = "in_review"
        /\ claim.status = "approved" => recs[claim.standing].revision = claim.revision
    BY <2>1, <2>5 DEF Footing
  <2>8. Contests(rounds'[l]) <=> Contests(rounds[o])
    BY <2>2 DEF Contests
  <2>9. Contests(rounds[o]) => HeldBy(t)'
    BY <2>4, <2>6, <2>7, StandsCarries
  <2>10. HeldBy(t)' => HeldBy(rounds[l].target)'
    BY <2>2, <2>5 DEF HeldBy
  <2> QED
    BY <1>2, <2>2, <2>3, <2>4, <2>7, <2>8, <2>9, <2>10 DEF Decided
<1> QED
  BY <1>3, <1>5, <1>6

(* A claim whose work is closed is undecided, or put back on what it stood *)
(* on: by its owner, by staff, with the question and with the roster.      *)
LEMMA ClosedFooting ==
    ASSUME Typed, Recorded, Footing,
           \/ CreateEntry \/ Edit \/ Abandon \/ Withdraw
           \/ Revoke \/ Return \/ VoidRecord \/ VoidItem \/ Exclude
           \/ \E mode, scores : SaveAndReturn(mode, scores)
    PROVE  Footing'
<1>0. /\ claim \in [status : Status, source : {"self", "record"}, revision : Nat,
                    handed : Nat, current : Ref, standing : Ref]
      /\ events \in Seq(EventKind)
  BY TypedIs DEF ClaimRow
<1>1. CancelCurrent = EndContest /\ Over(EndContest)
  BY EndContestIs
<1>2. rounds' = CancelCurrent \/ rounds' = EndContest => OpenRounds' = {}
  BY <1>1, OpenAfter
<1>3. ASSUME OpenRounds' = {}, claim'.status \in {"draft", "needs_revision", "voided"}
      PROVE  Footing'
  BY <1>3, Settles DEF Decided
<1>4. CASE CreateEntry \/ Edit
  <2>1. claim'.status = "draft" /\ rounds' = rounds /\ claim.status \notin {"in_review", "approved"}
    BY <1>0, <1>4 DEF CreateEntry, Edit, MayEdit
  <2>2. OpenRounds = {}
    BY <1>4 DEF CreateEntry, Edit, MayEdit, Footing, hasOpenRound, Decided
  <2> QED
    BY <1>3, <2>1, <2>2, OpenAfter
<1>5. CASE Abandon \/ Return \/ VoidRecord \/ \E mode, scores : SaveAndReturn(mode, scores)
  <2>1. claim'.status \in {"needs_revision", "voided"} /\ (rounds' = CancelCurrent \/ rounds' = EndContest)
    BY <1>0, <1>5 DEF Abandon, Return, VoidRecord, SaveAndReturn
  <2> QED
    BY <1>2, <1>3, <2>1
<1>6. CASE Withdraw
  <2>1. claim'.status = "draft" /\ rounds' = CancelCurrent
    BY <1>0, <1>6 DEF Withdraw, CancelCurrent
  <2> QED
    BY <1>2, <1>3, <2>1
<1>7. CASE Revoke
  <2>1. /\ claim'.status = "rejected" /\ claim'.current = None /\ rounds' = EndContest
        /\ events' = Append(events, "approval-revoked")
    BY <1>0, <1>7 DEF Revoke
  <2>2. Len(events') # 0 /\ events'[Len(events')] = "approval-revoked"
    BY <1>0, <2>1
  <2>3. StandsAs(None)'
    BY <2>1, <2>2 DEF StandsAs
  <2>4. StandsAs(claim.current)'
    BY <2>1, <2>3 DEF StandsAs
  <2> QED
    BY <1>2, <2>1, <2>4, Settles
<1>8. ASSUME NEW i \in OpenRounds, i = openRoundOf, Contests(rounds[i]), rounds' = CancelRound(i),
             claim' = Repointed(i, StoodBefore(i)), UNCHANGED <<recs, events>>
      PROVE  Footing'
  <2>1. OpenRounds' = {} /\ KeptRounds
    <3>1. rounds' = EndContest
      BY <1>8 DEF EndContest, hasOpenRound
    <3>2. Over(rounds')
      BY <1>1, <3>1
    <3> QED
      BY <3>2, OpenAfter, KeptStep DEF RoundsMove
  <2>2. PICK c : c = StoodBefore(i)
    OBVIOUS
  <2>3. StandsAs(c) /\ claim.status \in Decided /\ claim.current = i
    BY <1>8, <2>2, StoodIs DEF Footing
  <2>4. /\ claim'.status = claim.status /\ claim'.revision = claim.revision
        /\ claim'.standing = claim.standing /\ claim'.current = c
    BY <1>0, <1>8, <2>2, <2>3 DEF Repointed
  <2>5. StandsAs(c)'
    BY <1>8, <2>1, <2>3, <2>4, StandsCarries
  <2>6. StandsAs(claim.current)'
    BY <2>4, <2>5 DEF StandsAs
  <2>7. claim.status = "approved" => recs[claim.standing].revision = claim.revision
    BY DEF Footing
  <2> QED
    BY <1>8, <2>1, <2>3, <2>4, <2>6, <2>7, Settles DEF Decided
<1>9. ASSUME UNCHANGED <<claim, rounds, recs, events>> PROVE Footing'
  BY <1>9, FootingStays, OpenAfter DEF KeptRounds, SameRound
<1>10. CASE VoidItem
  <2>1. CASE claim.status \in {"draft", "in_review", "needs_revision"}
    <3>1. rounds' = CancelCurrent /\ claim'.status = "voided"
      BY <1>0, <1>10, <2>1 DEF VoidItem
    <3> QED
      BY <1>2, <1>3, <3>1
  <2>2. CASE claim.status \notin {"draft", "in_review", "needs_revision"} /\ hasOpenRound
    <3>1. PICK i \in OpenRounds : i = openRoundOf
      BY <2>2, OpenIsARow
    <3>2. Contests(rounds[i])
      BY <2>2, <3>1 DEF Footing
    <3>3. /\ rounds' = CancelRound(i) /\ claim' = Repointed(i, StoodBefore(i))
          /\ UNCHANGED <<recs, events>>
      BY <1>10, <2>2, <3>1 DEF VoidItem
    <3> QED
      BY <1>8, <3>1, <3>2, <3>3
  <2>3. CASE claim.status \notin {"draft", "in_review", "needs_revision"} /\ ~hasOpenRound
    BY <1>9, <1>10, <2>3 DEF VoidItem
  <2> QED
    BY <2>1, <2>2, <2>3
<1>11. CASE Exclude
  <2>1. CASE hasOpenRound
    <3>1. PICK i \in OpenRounds : i = openRoundOf
      BY <2>1, OpenIsARow
    <3>2. CASE Contests(rounds[i])
      <4>1. /\ rounds' = CancelRound(i) /\ claim' = Repointed(i, StoodBefore(i))
            /\ UNCHANGED <<recs, events>>
        BY <1>11, <2>1, <3>1, <3>2 DEF Exclude
      <4> QED
        BY <1>8, <3>1, <3>2, <4>1
    <3>3. CASE ~Contests(rounds[i])
      <4>1. claim.status = "in_review" /\ claim.current = i
        BY <3>1, <3>3 DEF Footing
      <4>2. claim' = [claim EXCEPT !.status = "draft", !.current = None] /\ rounds' = EndContest
        BY <1>11, <2>1, <3>1, <3>3, <4>1 DEF Exclude, EndContest
      <4>3. claim'.status = "draft"
        BY <1>0, <4>2
      <4> QED
        BY <1>2, <1>3, <4>2, <4>3
    <3> QED
      BY <3>2, <3>3
  <2>2. CASE ~hasOpenRound
    BY <1>9, <1>11, <2>2 DEF Exclude
  <2> QED
    BY <2>1, <2>2
<1> QED
  BY <1>4, <1>5, <1>6, <1>7, <1>10, <1>11

(* The footing of a claim survives every act.                              *)
LEMMA FootingStep ==
    ASSUME Typed, Recorded, Footing, AskedWhileWaiting, [Next]_vars
    PROVE  Footing'
<1>1. RoundsMove /\ KeptRounds
  BY MoveStep, KeptStep
<1>2. ASSUME \/ RestoreItem \/ Readmit \/ DropProof \/ UNCHANGED vars \/ WorkStep
             \/ \E value \in Value : \/ ProveSubmit(value) \/ ProveRecord(value)
                                     \/ ProveRedetermine(value)
                                     \/ \E i \in DOMAIN rounds : ProveDecide(i, value)
             \/ \E scores \in Rule : Report(scores) \/ \E mode \in {"none", "workflow"} : Save(mode, scores)
      PROVE  Footing'
  <2>1. UNCHANGED <<claim, recs, events>>
    BY <1>2, WorkIs DEF RestoreItem, Readmit, DropProof, vars, ProveSubmit, ProveRecord, ProveRedetermine,
       ProveDecide, Prove, Report, Save, caseVars
  <2>2. rounds' = rounds \/ \E i \in DOMAIN rounds : Worked(i)
    BY <1>2, WorkIs DEF RestoreItem, Readmit, DropProof, vars, ProveSubmit, ProveRecord, ProveRedetermine,
       ProveDecide, Prove, Report, Save, caseVars
  <2> QED
    BY <1>1, <2>1, <2>2, OpenAfter, FootingStays
<1>3. ASSUME \E i \in DOMAIN rounds : DecideReject(i) \/ \E value \in Value : DecideApprove(i, value)
      PROVE  Footing'
  BY <1>3, VerdictFooting
<1>4. ASSUME \E value \in Value : RecordEntry(value) \/ SubmitByRule(value) \/ Redetermine(value)
      PROVE  Footing'
  BY <1>4, DeterminedFooting
<1> QED
  BY <1>2, <1>3, <1>4, OpenedFooting, ClosedFooting
  DEF Next, OwnerAct, ReviewAct, StaffAct, OutsideAct, WorkStep

-----------------------------------------------------------------------------
(***************************************************************************)
(* A question withdrawn, an owner gone.                                    *)
(***************************************************************************)

(* Where no round runs none runs after, but for one that is opened.        *)
LEMMA NothingOpens ==
    ASSUME Typed, Footing, RoundsMove, ~hasOpenRound
    PROVE  ~hasOpenRound' \/ OpensRound
<1>1. OpenRounds = {}
  BY DEF hasOpenRound
<1>2. rounds' = rounds \/ Over(rounds') => OpenRounds' = {}
  BY <1>1, OpenAfter
<1>3. \A i \in DOMAIN rounds : ~Worked(i) /\ ~Reroutes(i) /\ \A verdict : ~Concludes(i, verdict)
  BY <1>1 DEF Worked, Reroutes, Concludes
<1> QED
  BY <1>2, <1>3 DEF RoundsMove, hasOpenRound

(* A round that is opened is opened on a live question, for an owner on    *)
(* the roster, by an act that changes neither.                             *)
LEMMA OpensOnLive ==
    ASSUME OpensRound
    PROVE  item.status = "active" /\ participant = "active"
BY DEF OpensRound, Opens

(* What comes to wait for its owner or a reviewer does so on a live        *)
(* question, and, where it waits for a reviewer, for an owner on the       *)
(* roster.                                                                 *)
LEMMA WaitingBegins ==
    ASSUME Typed, Footing, QuietOnceClosed, [Next]_vars
    PROVE  /\ claim'.status \in {"draft", "in_review", "needs_revision"} /\ claim'.status # claim.status =>
                 item'.status = "active"
           /\ claim'.status = "in_review" /\ claim'.status # claim.status => participant' = "active"
<1> DEFINE Pending == {"draft", "in_review", "needs_revision"}
<1> DEFINE Goal ==
      /\ claim'.status \in Pending /\ claim'.status # claim.status => item'.status = "active"
      /\ claim'.status = "in_review" /\ claim'.status # claim.status => participant' = "active"
<1>0. /\ claim \in [status : Status, source : {"self", "record"}, revision : Nat,
                    handed : Nat, current : Ref, standing : Ref]
      /\ item.status \in {"active", "voided"}
      /\ item \in [status : {"active", "voided"}, rev : Nat,
                   mode : {"none", "workflow"}, scores : SUBSET Value]
  BY DEF Typed, TypeOK
<1>1. ASSUME CreateEntry \/ Edit \/ Submit PROVE Goal
  BY <1>1 DEF CreateEntry, Edit, MayEdit, Submit, MaySubmit, worldVars
<1>2. ASSUME Withdraw PROVE Goal
  <2>1. claim'.status = "draft" /\ item' = item /\ hasOpenRound
    BY <1>0, <1>2 DEF Withdraw, worldVars
  <2> QED
    BY <1>0, <2>1 DEF QuietOnceClosed
<1>3. ASSUME Return PROVE Goal
  <2>1. claim'.status = "needs_revision" /\ item' = item
    BY <1>0, <1>3 DEF Return, worldVars
  <2>2. claim.status = "in_review" \/ item.status = "active"
    BY <1>3 DEF Return, ownerMayRefile
  <2> QED
    BY <1>0, <2>1, <2>2 DEF QuietOnceClosed
<1>4. ASSUME NEW mode, NEW scores, SaveAndReturn(mode, scores) PROVE Goal
  <2>1. claim'.status = "needs_revision" /\ item'.status = "active"
    BY <1>0, <1>4 DEF SaveAndReturn, SaveRevision
  <2> QED
    BY <2>1
<1>5. ASSUME Exclude PROVE Goal
  <2>1. claim'.status # claim.status => claim'.status = "draft" /\ hasOpenRound
    BY <1>0, <1>5 DEF Exclude, Repointed
  <2>2. item' = item
    BY <1>5 DEF Exclude
  <2> QED
    BY <1>0, <2>1, <2>2 DEF QuietOnceClosed
<1>6. ASSUME claim'.status = claim.status \/ claim'.status \in Decided \cup {"voided"} PROVE Goal
  BY <1>6 DEF Decided
<1>7. ASSUME \/ Abandon \/ Revoke \/ VoidRecord \/ VoidItem \/ RestoreItem \/ Readmit \/ DropProof
             \/ UNCHANGED vars
             \/ \E value \in Value : \/ ProveSubmit(value) \/ ProveRecord(value)
                                     \/ ProveRedetermine(value) \/ RecordEntry(value)
                                     \/ SubmitByRule(value) \/ Redetermine(value)
      PROVE  Goal
  <2>1. claim'.status = claim.status \/ claim'.status \in Decided \cup {"voided"}
    BY <1>0, <1>7 DEF Abandon, Revoke, VoidRecord, VoidItem, Repointed, RestoreItem, Readmit, DropProof,
       vars, caseVars, ProveSubmit, ProveRecord, ProveRedetermine, Prove, RecordEntry, SubmitByRule,
       ApprovedByRule, Redetermine, Decided
  <2> QED
    BY <1>6, <2>1
<1>8. ASSUME \/ \E i \in DOMAIN rounds :
                   \/ Word(i) \/ DecideReject(i) \/ requestSupplement(i) \/ cancelSupplement(i)
                   \/ Patrol(i) \/ answerSupplement(i)
                   \/ \E value \in Value : ProveDecide(i, value) \/ DecideApprove(i, value)
             \/ \E t \in Targets : Appeal(t) \/ Reopen(t)
             \/ \E scores \in Rule : \/ Report(scores) \/ SaveAndReroute(scores)
                                     \/ \E mode \in {"none", "workflow"} : Save(mode, scores)
      PROVE  Goal
  <2>1. claim'.status = claim.status \/ claim'.status \in Decided \cup {"voided"}
    BY <1>0, <1>8 DEF Word, DecideReject, requestSupplement, cancelSupplement, Patrol, answerSupplement,
       ProveDecide, Prove, DecideApprove, Appeal, Reopen, OpenContestingRound, Report, SaveAndReroute, Save,
       caseVars, Decided
  <2> QED
    BY <1>6, <2>1
<1> QED
  BY <1>1, <1>2, <1>3, <1>4, <1>5, <1>7, <1>8 DEF Next, OwnerAct, ReviewAct, StaffAct, OutsideAct

(* A withdrawn question and an owner off the roster stay without work.     *)
LEMMA QuietStep ==
    ASSUME Typed, Recorded, Footing, AskedWhileWaiting, QuietOnceClosed, [Next]_vars
    PROVE  QuietOnceClosed'
<1>1. RoundsMove
  BY MoveStep
<1>2. /\ claim \in [status : Status, source : {"self", "record"}, revision : Nat,
                    handed : Nat, current : Ref, standing : Ref]
      /\ item \in [status : {"active", "voided"}, rev : Nat,
                   mode : {"none", "workflow"}, scores : SUBSET Value]
      /\ participant \in {"active", "excluded"}
  BY DEF Typed, TypeOK
<1>3. Over(rounds') => ~hasOpenRound'
  BY OpenAfter DEF hasOpenRound
<1>4. rounds' = CancelCurrent \/ rounds' = EndContest => ~hasOpenRound'
  BY <1>3, EndContestIs
<1>5. hasOpenRound => EndContest = CancelRound(openRoundOf)
  BY DEF EndContest
<1>6. ASSUME VoidItem PROVE QuietOnceClosed'
  <2>1. ~hasOpenRound' /\ claim'.status \notin {"draft", "in_review", "needs_revision"}
    <3>1. CASE claim.status \in {"draft", "in_review", "needs_revision"}
      BY <1>2, <1>4, <1>6, <3>1 DEF VoidItem
    <3>2. CASE claim.status \notin {"draft", "in_review", "needs_revision"} /\ hasOpenRound
      BY <1>2, <1>4, <1>5, <1>6, <3>2 DEF VoidItem, Repointed
    <3>3. CASE claim.status \notin {"draft", "in_review", "needs_revision"} /\ ~hasOpenRound
      <4>1. UNCHANGED <<rounds, claim>>
        BY <1>6, <3>3 DEF VoidItem
      <4>2. ~hasOpenRound'
        BY <3>3, <4>1, OpenAfter DEF hasOpenRound
      <4> QED
        BY <3>3, <4>1, <4>2
    <3> QED
      BY <3>1, <3>2, <3>3
  <2> QED
    BY <2>1 DEF QuietOnceClosed
<1>7. ASSUME Exclude PROVE QuietOnceClosed'
  <2>1. ~hasOpenRound' /\ claim'.status # "in_review"
    <3>1. CASE hasOpenRound
      <4>1. rounds' = EndContest
        BY <1>5, <1>7, <3>1 DEF Exclude
      <4>2. PICK i \in OpenRounds : i = openRoundOf
        BY <3>1, OpenIsARow
      <4>3. CASE Contests(rounds[i])
        <5>1. claim.status \in Decided
          BY <4>3 DEF Footing
        <5>2. claim'.status = claim.status
          BY <1>2, <1>7, <3>1, <4>2, <4>3 DEF Exclude, Repointed
        <5> QED
          BY <1>4, <4>1, <5>1, <5>2 DEF Decided
      <4>4. CASE ~Contests(rounds[i])
        <5>1. claim.status = "in_review" /\ claim.current = i
          BY <4>4 DEF Footing
        <5>2. claim'.status = "draft"
          BY <1>2, <1>7, <3>1, <4>2, <4>4, <5>1 DEF Exclude
        <5> QED
          BY <1>4, <4>1, <5>2
      <4> QED
        BY <4>3, <4>4
    <3>2. CASE ~hasOpenRound
      <4>1. UNCHANGED <<rounds, claim>>
        BY <1>7, <3>2 DEF Exclude
      <4>2. ~hasOpenRound' /\ claim.status # "in_review"
        BY <3>2, <4>1, OpenAfter DEF hasOpenRound, Footing
      <4> QED
        BY <4>1, <4>2
    <3> QED
      BY <3>1, <3>2
  <2>2. item'.status = "voided" => item.status = "voided" /\ ~hasOpenRound
    BY <1>7 DEF Exclude, QuietOnceClosed
  <2>3. item'.status = "voided" => claim'.status \notin {"draft", "in_review", "needs_revision"}
    BY <1>2, <1>7, <2>2, WaitingBegins DEF Next, OutsideAct, QuietOnceClosed
  <2> QED
    BY <2>1, <2>3 DEF QuietOnceClosed
<1>8. ASSUME ~VoidItem, ~Exclude
      PROVE  (item'.status = "voided" => item.status = "voided")
             /\ (participant' = "excluded" => participant = "excluded")
  <2>1. UNCHANGED worldVars \/ RestoreItem \/ Readmit
        \/ \E mode, scores : SaveRevision(mode, scores) /\ participant' = participant
    <3>1. CASE OwnerAct \/ DropProof \/ UNCHANGED vars
      BY <3>1 DEF OwnerAct, CreateEntry, Edit, Submit, Abandon, Withdraw, ProveSubmit, Prove, SubmitByRule,
         answerSupplement, Appeal, OpenContestingRound, DropProof, vars, worldVars
    <3>2. CASE ReviewAct
      BY <3>2 DEF ReviewAct, Word, DecideReject, requestSupplement, cancelSupplement, Patrol, ProveDecide,
         Prove, DecideApprove
    <3>3. CASE StaffAct
      BY <3>3 DEF StaffAct, ProveRecord, RecordEntry, ProveRedetermine, Prove, Redetermine, Revoke, Return,
         VoidRecord, Reopen, OpenContestingRound
    <3>4. CASE OutsideAct
      BY <1>8, <3>4 DEF OutsideAct, Report, SaveAndReroute, Save, SaveAndReturn
    <3> QED
      BY <3>1, <3>2, <3>3, <3>4 DEF Next
  <2> QED
    BY <1>2, <2>1 DEF worldVars, RestoreItem, Readmit, SaveRevision
<1>9. ASSUME ~VoidItem, ~Exclude PROVE QuietOnceClosed'
  <2>1. item'.status = "voided" => ~hasOpenRound' /\ claim'.status \notin {"draft", "in_review", "needs_revision"}
    <3>1. item'.status = "voided" =>
            /\ item.status = "voided" /\ ~hasOpenRound
            /\ claim.status \notin {"draft", "in_review", "needs_revision"}
      BY <1>8, <1>9 DEF QuietOnceClosed
    <3> QED
      BY <1>1, <3>1, NothingOpens, OpensOnLive, WaitingBegins
  <2>2. participant' = "excluded" => ~hasOpenRound' /\ claim'.status # "in_review"
    <3>1. participant' = "excluded" =>
            /\ participant = "excluded" /\ ~hasOpenRound /\ claim.status # "in_review"
      BY <1>8, <1>9 DEF QuietOnceClosed
    <3> QED
      BY <1>1, <3>1, NothingOpens, OpensOnLive, WaitingBegins
  <2> QED
    BY <2>1, <2>2 DEF QuietOnceClosed
<1> QED
  BY <1>6, <1>7, <1>9

-----------------------------------------------------------------------------
(***************************************************************************)
(* What an approved claim counts as, the live rule scores.                 *)
(***************************************************************************)

\* a determination in hand is asked of the rule that is live while its
\* revision is, and scored by it
ProofsScored == \A p \in proofs : p.rev <= item.rev /\ (p.rev = item.rev => p.value \in item.scores)

\* the report on a candidate counted what the claim stands as
TrialScored ==
    trial # None /\ trial.status = "approved" =>
        /\ trial.standing # None /\ trial.standing \in DOMAIN recs
        /\ recs[trial.standing].value \in trial.scores

(* A determination proven and used counts as what the live rule scores.    *)
LEMMA DeterminedScored ==
    ASSUME Typed, ProofsScored, NEW value \in Value, item' = item,
           NEW identity, identity \in proofs, identity.value = value, identity.rev = item.rev,
           recs'[claim'.standing].value = value, claim'.standing = Len(recs) + 1
    PROVE  ApprovedIsScorable'
<1>1. value \in item.scores
  BY DEF ProofsScored
<1>2. claim'.standing # None
  BY NoneAssumption DEF Typed, TypeOK
<1> QED
  BY <1>1, <1>2 DEF ApprovedIsScorable

(* A candidate saved can score what stands: it was tried on it.            *)
LEMMA SavedScored ==
    ASSUME Typed, Scored, KeptRows, NEW scores \in Rule, item'.scores = scores,
           claim'.status = claim.status, claim'.standing = claim.standing, Recorded,
           TrialOwed(scores) => trial = impactToken(scores)
    PROVE  ApprovedIsScorable'
<1>1. CASE claim.status # "approved"
  BY <1>1 DEF ApprovedIsScorable
<1>2. CASE claim.status = "approved"
  <2>1. claim.standing # None /\ claim.standing \in DOMAIN recs
        /\ recs[claim.standing].value \in item.scores
    BY <1>2 DEF Scored, ApprovedIsScorable, Recorded
  <2>2. recs[claim.standing].value \in scores
    <3>1. CASE scores = item.scores
      BY <2>1, <3>1
    <3>2. CASE scores # item.scores
      <4>1. trial = impactToken(scores) /\ trial # None
        BY <1>2, <2>1, <3>2, TokenType, NoneIsNoRow DEF TrialOwed
      <4>2. trial.status = "approved" /\ trial.standing = claim.standing /\ trial.scores = scores
        BY <1>2, <4>1 DEF impactToken, Live
      <4> QED
        BY <4>1, <4>2 DEF Scored
    <3> QED
      BY <3>1, <3>2
  <2> QED
    BY <1>2, <2>1, <2>2 DEF ApprovedIsScorable, KeptRows
<1> QED
  BY <1>1, <1>2

(* Every act of the claim's leaves the rule alone; a save moves it on to a *)
(* new revision.                                                           *)
LEMMA RuleMoves ==
    ASSUME Typed, [Next]_vars
    PROVE  \/ item'.rev = item.rev /\ item'.scores = item.scores
           \/ \E scores \in Rule :
                 \/ SaveAndReroute(scores)
                 \/ \E mode \in {"none", "workflow"} : Save(mode, scores) \/ SaveAndReturn(mode, scores)
<1>0. item \in [status : {"active", "voided"}, rev : Nat,
                 mode : {"none", "workflow"}, scores : SUBSET Value]
  BY DEF Typed, TypeOK
<1>1. CASE OwnerAct \/ DropProof \/ UNCHANGED vars
  <2>1. item' = item
    BY <1>1 DEF OwnerAct, CreateEntry, Edit, Submit, Abandon, Withdraw, ProveSubmit, Prove, SubmitByRule,
       answerSupplement, Appeal, OpenContestingRound, DropProof, vars, worldVars
  <2> QED
    BY <2>1
<1>2. CASE ReviewAct
  <2>1. item' = item
    BY <1>2 DEF ReviewAct, Word, DecideReject, requestSupplement, cancelSupplement, Patrol, ProveDecide,
       Prove, DecideApprove, worldVars
  <2> QED
    BY <2>1
<1>3. CASE StaffAct
  <2>1. item' = item
    BY <1>3 DEF StaffAct, ProveRecord, RecordEntry, ProveRedetermine, Prove, Redetermine, Revoke, Return,
       VoidRecord, Reopen, OpenContestingRound, worldVars
  <2> QED
    BY <2>1
<1>4. CASE VoidItem \/ RestoreItem \/ Exclude \/ Readmit \/ \E scores \in Rule : Report(scores)
  BY <1>0, <1>4 DEF VoidItem, RestoreItem, Exclude, Readmit, Report, worldVars
<1> QED
  BY <1>1, <1>2, <1>3, <1>4 DEF Next, OutsideAct

(* A proof is of the revision that is live when it is made, and grows      *)
(* stale with it.                                                          *)
LEMMA ProofsStep ==
    ASSUME Typed, ProofsScored, [Next]_vars
    PROVE  ProofsScored'
<1>0. item \in [status : {"active", "voided"}, rev : Nat,
                 mode : {"none", "workflow"}, scores : SUBSET Value]
      /\ proofs \subseteq Proof
  BY DEF Typed, TypeOK
<1>1. ASSUME proofs' \subseteq proofs, item'.rev = item.rev /\ item'.scores = item.scores
      PROVE  ProofsScored'
  BY <1>1 DEF ProofsScored
<1>2. ASSUME NEW identity, Prove(identity), identity.rev = item.rev PROVE ProofsScored'
  <2>1. proofs' = proofs \cup {identity} /\ item' = item /\ identity.value \in item.scores
    BY <1>2 DEF Prove, worldVars
  <2>2. item.rev <= item.rev
    BY <1>0
  <2> QED
    BY <1>2, <2>1, <2>2 DEF ProofsScored
<1>3. ASSUME NEW value \in Value
      PROVE  /\ Identity("record", value).rev = item.rev
             /\ SubmitIdentity(value).rev = item.rev
             /\ RedetermineIdentity(value).rev = item.rev
             /\ \A i : DecideIdentity(i, value).rev = item.rev
  BY DEF Identity, SubmitIdentity, RedetermineIdentity, DecideIdentity
<1>4. CASE \E value \in Value : \/ ProveSubmit(value) \/ ProveRecord(value) \/ ProveRedetermine(value)
                                \/ \E i \in DOMAIN rounds : ProveDecide(i, value)
  BY <1>2, <1>3, <1>4 DEF ProveSubmit, ProveRecord, ProveRedetermine, ProveDecide
<1>5. CASE \E scores \in Rule :
             \/ SaveAndReroute(scores)
             \/ \E mode \in {"none", "workflow"} : Save(mode, scores) \/ SaveAndReturn(mode, scores)
  <2>1. item'.rev = item.rev + 1 /\ proofs' = proofs
    BY <1>0, <1>5 DEF SaveAndReroute, Save, SaveAndReturn, SaveRevision
  <2>2. \A p \in proofs : p.rev \in Nat /\ p.rev <= item.rev
    BY <1>0 DEF ProofsScored, Proof
  <2>3. \A p \in proofs : p.rev <= item'.rev /\ p.rev # item'.rev
    BY <1>0, <2>1, <2>2
  <2> QED
    BY <2>1, <2>3 DEF ProofsScored
<1>6. CASE OwnerAct \/ StaffAct \/ ReviewAct \/ OutsideAct
  <2>1. \/ proofs' \subseteq proofs
        \/ \E value \in Value : \/ ProveSubmit(value) \/ ProveRecord(value) \/ ProveRedetermine(value)
                                \/ \E i \in DOMAIN rounds : ProveDecide(i, value)
    BY <1>6 DEF OwnerAct, StaffAct, ReviewAct, OutsideAct, CreateEntry, Edit, Submit, Abandon, Withdraw,
       SubmitByRule, answerSupplement, Appeal, Reopen, OpenContestingRound, RecordEntry, Redetermine, Proven,
       Revoke, Return, VoidRecord, Word, DecideReject, requestSupplement, cancelSupplement, Patrol,
       DecideApprove, VoidItem, RestoreItem, Exclude, Readmit, Report, Save, SaveAndReturn, SaveAndReroute
  <2> QED
    BY <1>1, <1>4, <1>5, <2>1, RuleMoves
<1>7. CASE DropProof \/ UNCHANGED vars
  <2>1. proofs' \subseteq proofs /\ item' = item
    BY <1>7 DEF DropProof, vars, worldVars
  <2> QED
    BY <1>1, <2>1
<1> QED
  BY <1>6, <1>7 DEF Next

(* A report counts what stands, and is given up by the save.               *)
LEMMA TrialStep ==
    ASSUME Typed, Recorded, Scored, KeptRows, [Next]_vars
    PROVE  TrialScored'
<1>1. ASSUME trial' = trial \/ trial' = None PROVE TrialScored'
  BY <1>1 DEF TrialScored, Scored, KeptRows
<1>2. ASSUME NEW scores \in Rule, Report(scores) PROVE TrialScored'
  <2>1. /\ trial' = impactToken(scores) /\ recs' = recs
        /\ TrialOwed(scores) => recs[claim.standing].value \in scores
    BY <1>2 DEF Report, caseVars
  <2>2. CASE claim.status = "approved"
    <3>1. /\ claim.standing # None /\ claim.standing \in DOMAIN recs
          /\ recs[claim.standing].value \in item.scores
      BY <2>2 DEF Scored, ApprovedIsScorable, Recorded
    <3>2. recs[claim.standing].value \in scores
      BY <2>1, <2>2, <3>1 DEF TrialOwed
    <3>3. impactToken(scores).standing = claim.standing /\ impactToken(scores).scores = scores
      BY <2>2 DEF impactToken, Live
    <3> QED
      BY <2>1, <3>1, <3>2, <3>3 DEF TrialScored
  <2>3. CASE claim.status # "approved"
    <3>1. impactToken(scores).status # "approved"
      BY <2>3 DEF impactToken, Live
    <3> QED
      BY <2>1, <3>1 DEF TrialScored
  <2> QED
    BY <2>2, <2>3
<1>3. trial' = trial \/ trial' = None \/ \E scores \in Rule : Report(scores)
  <2>1. CASE OwnerAct \/ DropProof \/ UNCHANGED vars
    BY <2>1 DEF OwnerAct, CreateEntry, Edit, Submit, Abandon, Withdraw, ProveSubmit, Prove, SubmitByRule,
       answerSupplement, Appeal, OpenContestingRound, DropProof, vars
  <2>2. CASE ReviewAct
    BY <2>2 DEF ReviewAct, Word, DecideReject, requestSupplement, cancelSupplement, Patrol, ProveDecide,
       Prove, DecideApprove
  <2>3. CASE StaffAct
    BY <2>3 DEF StaffAct, ProveRecord, RecordEntry, ProveRedetermine, Prove, Redetermine, Revoke, Return,
       VoidRecord, Reopen, OpenContestingRound
  <2>4. CASE OutsideAct
    BY <2>4 DEF OutsideAct, VoidItem, RestoreItem, Exclude, Readmit, SaveAndReroute, Save, SaveAndReturn
  <2> QED
    BY <2>1, <2>2, <2>3, <2>4 DEF Next
<1> QED
  BY <1>1, <1>2, <1>3

(* The live rule goes on scoring what is approved.                         *)
LEMMA ScorableStep ==
    ASSUME Typed, Recorded, Footing, AskedWhileWaiting, Scored, [Next]_vars
    PROVE  ApprovedIsScorable'
<1>0. /\ claim \in [status : Status, source : {"self", "record"}, revision : Nat,
                    handed : Nat, current : Ref, standing : Ref]
      /\ None \in Ref /\ claim.revision \in Nat
      /\ item \in [status : {"active", "voided"}, rev : Nat,
                   mode : {"none", "workflow"}, scores : SUBSET Value]
  BY DEF Typed, TypeOK, Ref
<1>1. RecsMove /\ EventsMove /\ KeptRows /\ ProofsScored
  BY RecsStep, KeptRowsStep DEF Scored, ProofsScored
<1>2. ASSUME NEW value \in Value, NEW source \in {"record", "system", "review", "redetermination"},
             NEW n \in Nat, NEW round \in Ref, Recognise(value, source, n, round),
             claim'.standing = Len(recs) + 1, item' = item,
             NEW identity, identity \in proofs, identity.value = value, identity.rev = item.rev
      PROVE  ApprovedIsScorable'
  <2>1. recs'[claim'.standing].value = value
    BY <1>2, DeterminesIs
  <2> QED
    BY <1>1, <1>2, <2>1, DeterminedScored
<1>3. ASSUME NEW value \in Value, RecordEntry(value) PROVE ApprovedIsScorable'
  <2>1. PICK n \in Nat : n = 1
    OBVIOUS
  <2>2. PICK identity : identity = Identity("record", value)
    OBVIOUS
  <2>3. identity.value = value /\ identity.rev = item.rev
    BY <2>2 DEF Identity
  <2>4. /\ Recognise(value, "record", n, None) /\ identity \in proofs /\ item' = item
        /\ claim'.standing = Len(recs) + 1
    BY <1>0, <1>3, <2>1, <2>2 DEF RecordEntry, Proven, worldVars
  <2> QED
    BY <1>0, <1>2, <2>3, <2>4
<1>4. ASSUME NEW value \in Value, SubmitByRule(value) PROVE ApprovedIsScorable'
  <2>1. PICK n \in Nat : n = claim.revision
    BY <1>0
  <2>2. PICK identity : identity = SubmitIdentity(value)
    OBVIOUS
  <2>3. identity.value = value /\ identity.rev = item.rev
    BY <2>2 DEF Identity, SubmitIdentity
  <2>4. /\ Recognise(value, "system", n, None) /\ identity \in proofs /\ item' = item
        /\ claim'.standing = Len(recs) + 1
    BY <1>0, <1>4, <2>1, <2>2 DEF SubmitByRule, ApprovedByRule, Proven, worldVars
  <2> QED
    BY <1>0, <1>2, <2>3, <2>4
<1>5. ASSUME NEW i \in DOMAIN rounds, NEW value \in Value, DecideApprove(i, value)
      PROVE  ApprovedIsScorable'
  <2>1. rounds[i].revision \in Nat /\ i \in Ref
    <3>1. rounds[i] \in Round
      BY DEF Typed, TypeOK
    <3> QED
      BY <3>1, OpenIsARow DEF Round, Ref
  <2>2. PICK n \in Nat : n = rounds[i].revision
    BY <2>1
  <2>3. PICK identity : identity = DecideIdentity(i, value)
    OBVIOUS
  <2>4. identity.value = value /\ identity.rev = item.rev
    BY <2>3 DEF Identity, DecideIdentity
  <2>5. /\ Recognise(value, "review", n, i) /\ identity \in proofs /\ item' = item
        /\ claim'.standing = Len(recs) + 1
    BY <1>0, <1>5, <2>2, <2>3 DEF DecideApprove, Proven, worldVars
  <2> QED
    BY <1>2, <2>1, <2>4, <2>5
<1>6. ASSUME NEW value \in Value, Redetermine(value) PROVE ApprovedIsScorable'
  <2>1. PICK n \in Nat : n = claim.revision
    BY <1>0
  <2>2. PICK identity : identity = RedetermineIdentity(value)
    OBVIOUS
  <2>3. identity.value = value /\ identity.rev = item.rev
    BY <2>2 DEF Identity, RedetermineIdentity
  <2>4. /\ Recognise(value, "redetermination", n, None) /\ identity \in proofs /\ item' = item
        /\ claim'.standing = Len(recs) + 1
    BY <1>0, <1>6, <2>1, <2>2 DEF Redetermine, Proven, worldVars
  <2> QED
    BY <1>0, <1>2, <2>3, <2>4
<1>7. ASSUME NEW scores \in Rule,
             SaveAndReroute(scores) \/ \E mode \in {"none", "workflow"} : Save(mode, scores)
      PROVE  ApprovedIsScorable'
  <2>1. /\ claim'.status = claim.status /\ claim'.standing = claim.standing
        /\ TrialOwed(scores) => trial = impactToken(scores)
        /\ item'.scores = scores
    BY <1>0, <1>7 DEF SaveAndReroute, Save, SaveRevision, caseVars
  <2> QED
    BY <1>1, <2>1, SavedScored
<1>8. ASSUME NEW scores \in Rule, NEW mode, SaveAndReturn(mode, scores) PROVE ApprovedIsScorable'
  <2>1. claim'.status = "needs_revision"
    BY <1>0, <1>8 DEF SaveAndReturn
  <2> QED
    BY <2>1 DEF ApprovedIsScorable
<1>9. ASSUME item'.scores = item.scores, claim'.status = "approved" => claim.status = "approved",
             claim'.standing = claim.standing
      PROVE  ApprovedIsScorable'
  BY <1>1, <1>9 DEF Scored, ApprovedIsScorable, Recorded, KeptRows
<1>10. ASSUME CreateEntry \/ Edit \/ Submit \/ Abandon \/ Withdraw
              \/ \E t \in Targets : Appeal(t) \/ Reopen(t)
       PROVE  ApprovedIsScorable'
  <2>1. /\ item' = item /\ claim'.standing = claim.standing
        /\ claim'.status = "approved" => claim.status = "approved"
    BY <1>0, <1>10 DEF CreateEntry, Edit, Submit, Abandon, Withdraw, Appeal, Reopen, OpenContestingRound,
       worldVars
  <2> QED
    BY <1>9, <2>1
<1>11. ASSUME Revoke \/ Return \/ VoidRecord \/ \E i \in DOMAIN rounds : DecideReject(i)
       PROVE  ApprovedIsScorable'
  <2>1. claim'.status \in {"rejected", "needs_revision", "voided"}
    BY <1>0, <1>11 DEF Revoke, Return, VoidRecord, DecideReject
  <2> QED
    BY <2>1 DEF ApprovedIsScorable
<1>12. ASSUME VoidItem \/ Exclude PROVE ApprovedIsScorable'
  <2>1. /\ item'.scores = item.scores /\ claim'.standing = claim.standing
        /\ claim'.status = "approved" => claim.status = "approved"
    BY <1>0, <1>12 DEF VoidItem, Exclude, Repointed
  <2> QED
    BY <1>9, <2>1
<1>13. ASSUME \/ RestoreItem \/ Readmit \/ DropProof \/ UNCHANGED vars \/ WorkStep
              \/ \E value \in Value : \/ ProveSubmit(value) \/ ProveRecord(value)
                                      \/ ProveRedetermine(value)
                                      \/ \E i \in DOMAIN rounds : ProveDecide(i, value)
              \/ \E scores \in Rule : Report(scores)
       PROVE  ApprovedIsScorable'
  <2>1. claim' = claim
    BY <1>13, WorkIs DEF RestoreItem, Readmit, DropProof, vars, ProveSubmit, ProveRecord, ProveRedetermine,
       ProveDecide, Prove, Report, caseVars
  <2>2. item'.scores = item.scores
    BY <1>0, <1>13, WorkIs DEF RestoreItem, Readmit, DropProof, vars, ProveSubmit, ProveRecord,
       ProveRedetermine, ProveDecide, Prove, Report, worldVars
  <2> QED
    BY <1>9, <2>1, <2>2
<1> QED
  BY <1>3, <1>4, <1>5, <1>6, <1>7, <1>8, <1>10, <1>11, <1>12, <1>13
  DEF Next, OwnerAct, ReviewAct, StaffAct, OutsideAct, WorkStep

-----------------------------------------------------------------------------
(***************************************************************************)
(* The invariant, and what it says.                                        *)
(***************************************************************************)

(* A claim nobody has filed is sound.                                      *)
LEMMA InitSound == Init => Sound
<1> SUFFICES ASSUME Init PROVE Sound
  OBVIOUS
<1>1. /\ claim = [status |-> "absent", source |-> "self", revision |-> 0,
                  handed |-> 0, current |-> None, standing |-> None]
      /\ rounds = <<>> /\ recs = <<>> /\ events = <<>> /\ proofs = {} /\ trial = None
      /\ DOMAIN rounds = {} /\ DOMAIN recs = {}
  BY DEF Init
<1>2. PICK n \in Nat : n = 0
  OBVIOUS
<1>3. ClaimRow(claim)
  <2>1. claim = [status |-> "absent", source |-> "self", revision |-> n,
                 handed |-> n, current |-> None, standing |-> None]
    BY <1>1, <1>2
  <2> QED
    BY <2>1 DEF ClaimRow, Status, Ref
<1>4. WorldTyped
  <2>1. PICK m \in Nat : m = 1
    OBVIOUS
  <2>2. item \in [status : {"active"}, rev : {m}, mode : {"none", "workflow"}, scores : Rule]
        /\ participant = "active"
    BY <2>1 DEF Init
  <2>3. Rule \subseteq SUBSET Value
    BY RuleAssumption
  <2> QED
    BY <2>2, <2>3 DEF WorldTyped
<1>5. Typed
  BY <1>1, <1>3, <1>4, TypedIs
<1>6. OpenRounds = {}
  BY <1>1 DEF OpenRounds
<1>7. Recorded /\ Continued /\ Appealed /\ AskedWhileWaiting
  BY <1>1 DEF Recorded, Continued, Appealed, AskedWhileWaiting
<1>8. Footing /\ QuietOnceClosed
  BY <1>1, <1>6 DEF Footing, QuietOnceClosed, hasOpenRound, Decided, Init
<1>9. Scored
  BY <1>1 DEF Scored, ApprovedIsScorable
<1> QED
  BY <1>5, <1>7, <1>8, <1>9 DEF Sound

(* Every act keeps it.                                                     *)
LEMMA SoundStep == Sound /\ [Next]_vars => Sound'
<1> SUFFICES ASSUME Sound, [Next]_vars PROVE Sound'
  OBVIOUS
<1> USE DEF Sound
<1>1. RoundsMove /\ RecsMove /\ EventsMove /\ KeptRows
  BY MoveStep, RecsStep, KeptRowsStep
<1>2. Typed' /\ Recorded' /\ Footing' /\ Continued' /\ Appealed'
  BY <1>1, TypedStep, RecordedStep, FootingStep, ContinuedStep, AppealedStep
<1>3. AskedWhileWaiting' /\ QuietOnceClosed'
  BY <1>1, AskedStep, QuietStep
<1>4. ProofsScored
  BY DEF Scored, ProofsScored
<1>5. ApprovedIsScorable' /\ ProofsScored' /\ TrialScored'
  BY <1>1, <1>4, ScorableStep, ProofsStep, TrialStep
<1>6. Scored'
  BY <1>5 DEF Scored, ProofsScored, TrialScored
<1> QED
  BY <1>2, <1>3, <1>6

(* A claim is sound whatever its owner, the reviewers, the staff and the   *)
(* question do, in whatever order.                                         *)
THEOREM SoundInvariant == Spec => []Sound
<1>1. Init => Sound
  BY InitSound
<1>2. Sound /\ [Next]_vars => Sound'
  BY SoundStep
<1> QED
  BY <1>1, <1>2, PTL DEF Spec

(* The rows keep their types and the two checks of the claim's table: once *)
(* handed in the filing is named, once approved it is recognised.          *)
THEOREM TypeCorrect == Spec => []TypeOK
<1>1. Sound => TypeOK
  BY DEF Sound, Typed
<1> QED
  BY <1>1, SoundInvariant, PTL

(* A claim and its open round move together: there is one at most, the     *)
(* claim points at it, and it stands meanwhile as what is contested said.  *)
THEOREM MovesWithItsRound == Spec => []StandsOnItsRound
<1>1. ASSUME Sound PROVE StandsOnItsRound
  <2>0. Typed /\ Recorded /\ Footing
    BY <1>1 DEF Sound
  <2>1. OpenRounds = {} \/ OpenRounds = {claim.current}
    BY <2>0 DEF Footing
  <2>2. Cardinality(OpenRounds) <= 1
    <3>1. Cardinality({}) = 0 /\ Cardinality({claim.current}) = 1
      BY FS_EmptySet, FS_Singleton
    <3>2. Cardinality(OpenRounds) = 0 \/ Cardinality(OpenRounds) = 1
      BY <2>1, <3>1
    <3> QED
      BY <3>2
  <2>3. ASSUME NEW i \in OpenRounds, Contests(rounds[i])
        PROVE  claim.status = VerdictOf(rounds[i].target)
    <3>1. PICK t : t = rounds[i].target
      OBVIOUS
    <3>2. HeldBy(t) /\ Refers(t)
      BY <2>0, <2>3, <3>1 DEF Footing, Recorded, OpenRounds
    <3>3. t \in ConclusionTarget
      BY <3>2 DEF Refers
    <3>4. t.id \in Nat /\ t.id # None /\ t.kind \in {"round", "recognition", "revocation"}
      BY <3>3, NoneAssumption DEF ConclusionTarget
    <3>5. t.kind = "round" => rounds[t.id].outcome = claim.status
      BY <3>2, <3>4 DEF HeldBy, StandsAs
    <3>6. /\ t.kind = "recognition" => claim.status = "approved"
          /\ t.kind = "revocation" => claim.status = "rejected"
      BY <3>2 DEF HeldBy
    <3> QED
      BY <3>1, <3>4, <3>5, <3>6 DEF VerdictOf
  <2> QED
    BY <2>0, <2>2, <2>3 DEF Footing, StandsOnItsRound
<1>2. Sound => StandsOnItsRound
  BY <1>1
<1> QED
  BY <1>2, SoundInvariant, PTL

(* A decided claim with no round running stands on a conclusion its owner  *)
(* can contest, which says what the claim says; an approval by rule alone  *)
(* has nobody to appeal from.                                              *)
THEOREM StandsOnSomething == Spec => []NeverStranded
<1>1. ASSUME Sound, claim.status \in Decided, ~hasOpenRound
      PROVE  /\ \A t \in Conclusions : VerdictOf(t) = claim.status
             /\ Conclusions # {} \/ ( /\ claim.status = "approved" /\ claim.current = None
                                     /\ recs[claim.standing].source = "system")
  <2>0. Typed /\ Recorded /\ Footing
    BY <1>1 DEF Sound
  <2>1. StandsAs(claim.current)
    BY <1>1, <2>0 DEF Footing
  <2>2. ASSUME NEW t \in Conclusions PROVE VerdictOf(t) = claim.status
    <3>1. StandsOn(t) /\ t \in ConclusionTarget
      BY <2>0, TargetsType DEF Conclusions
    <3>2. t.id # None /\ t.kind \in {"round", "recognition", "revocation"}
      BY <3>1, NoneAssumption DEF ConclusionTarget
    <3>3. t.kind = "round" => rounds[t.id].outcome = claim.status
      BY <2>1, <3>1, <3>2 DEF StandsOn, StandsAs
    <3>4. /\ t.kind = "recognition" => claim.status = "approved"
          /\ t.kind = "revocation" => claim.status = "rejected"
      BY <3>1 DEF StandsOn
    <3> QED
      BY <3>2, <3>3, <3>4 DEF VerdictOf
  <2>3. CASE claim.current # None
    <3>1. PICK t : t = [kind |-> "round", id |-> claim.current]
      OBVIOUS
    <3>2. t.kind = "round" /\ t.id = claim.current
      BY <3>1
    <3>3. t \in Targets
      BY <2>1, <2>3, <3>1 DEF Targets, StandsAs
    <3>4. StandsOn(t)
      BY <1>1, <2>1, <2>3, <3>2 DEF StandsOn, StandsAs
    <3> QED
      BY <2>2, <3>3, <3>4 DEF Conclusions
  <2>4. CASE claim.current = None /\ claim.status = "approved"
    <3>1. claim.standing \in DOMAIN recs
      BY <2>0, <2>4 DEF Typed, TypeOK, Recorded
    <3>2. PICK t : t = [kind |-> "recognition", id |-> claim.standing]
      OBVIOUS
    <3>3. t.kind = "recognition" /\ t.id = claim.standing /\ t \in Targets
      BY <3>1, <3>2 DEF Targets
    <3>4. recs[claim.standing].source # "system" => StandsOn(t)
      BY <2>1, <2>4, <3>3 DEF StandsOn, StandsAs
    <3> QED
      BY <2>2, <2>4, <3>3, <3>4 DEF Conclusions
  <2>5. CASE claim.current = None /\ claim.status = "rejected"
    <3>1. Len(events) # 0 /\ events[Len(events)] = "approval-revoked"
      BY <2>1, <2>5 DEF StandsAs
    <3>2. events \in Seq(EventKind)
      BY <2>0, TypedIs
    <3>3. Len(events) \in DOMAIN events
      BY <3>1, <3>2
    <3>4. PICK t : t = [kind |-> "revocation", id |-> Len(events)]
      OBVIOUS
    <3>5. t.kind = "revocation" /\ t.id = Len(events) /\ t \in Targets
      BY <3>3, <3>4 DEF Targets
    <3>6. StandsOn(t)
      BY <2>5, <3>1, <3>5 DEF StandsOn
    <3> QED
      BY <2>2, <3>5, <3>6 DEF Conclusions
  <2> QED
    BY <1>1, <2>3, <2>4, <2>5 DEF Decided
<1>2. Sound => NeverStranded
  BY <1>1 DEF NeverStranded, Sound, Footing
<1> QED
  BY <1>2, SoundInvariant, PTL

(* A withdrawn question and an owner off the roster leave no work behind.  *)
THEOREM ClosedIsQuiet == Spec => []QuietOnceClosed
<1>1. Sound => QuietOnceClosed
  BY DEF Sound
<1> QED
  BY <1>1, SoundInvariant, PTL

(* However a round ends, its owner is asked nothing nobody will read.      *)
THEOREM AskedOnlyWhileWaiting == Spec => []AskedWhileWaiting
<1>1. Sound => AskedWhileWaiting
  BY DEF Sound
<1> QED
  BY <1>1, SoundInvariant, PTL

(* What an approved claim counts as the live rule scores, though a proof   *)
(* and a report on an edit are acted upon a transaction later.             *)
THEOREM RuleScoresWhatStands == Spec => []ApprovedIsScorable
<1>1. Sound => ApprovedIsScorable
  BY DEF Sound, Scored
<1> QED
  BY <1>1, SoundInvariant, PTL

-----------------------------------------------------------------------------
(***************************************************************************)
(* What a step may never do.                                               *)
(***************************************************************************)

(* An owner takes a claim back only before anybody worked on it, in the    *)
(* round at hand or in the ones it was re-routed from, and takes back no   *)
(* verdict.                                                                *)
THEOREM WorkIsKept == Spec => WorkNeverWithdrawn
<1>1. ASSUME Sound, [Next]_vars, claim.status \in Decided \cup {"in_review"}, claim'.status = "draft",
             participant' = participant
      PROVE  IF claim.status = "in_review" THEN ~Begun(claim.current)
             ELSE claim.status = "rejected" /\ claim'.revision > claim.revision
  <2>0. /\ claim \in [status : Status, source : {"self", "record"}, revision : Nat,
                      handed : Nat, current : Ref, standing : Ref]
    BY <1>1 DEF Sound, Typed, TypeOK
  <2>1. CASE Withdraw
    BY <2>1 DEF Withdraw, MayWithdraw
  <2>2. CASE Edit
    <3>1. claim.status = "rejected" /\ claim'.revision = claim.revision + 1
      BY <1>1, <2>0, <2>2 DEF Edit, MayEdit, Decided
    <3> QED
      BY <2>0, <3>1
  <2>3. CASE CreateEntry
    BY <1>1, <2>3 DEF CreateEntry, Decided
  <2>4. CASE OwnerAct /\ ~Withdraw /\ ~Edit /\ ~CreateEntry
    <3>1. claim'.status # "draft" \/ claim' = claim \/ claim'.status = claim.status
      BY <2>0, <2>4 DEF OwnerAct, Submit, Abandon, ProveSubmit, Prove, SubmitByRule, ApprovedByRule,
         answerSupplement, Appeal, OpenContestingRound, caseVars
    <3> QED
      BY <1>1, <3>1 DEF Decided
  <2>5. CASE ReviewAct
    <3>1. claim'.status # "draft" \/ claim' = claim
      BY <2>0, <2>5 DEF ReviewAct, Word, DecideReject, requestSupplement, cancelSupplement, Patrol, ProveDecide,
         Prove, DecideApprove, caseVars
    <3> QED
      BY <1>1, <3>1 DEF Decided
  <2>6. CASE StaffAct
    <3>1. claim'.status # "draft" \/ claim' = claim \/ claim'.status = claim.status
      BY <2>0, <2>6 DEF StaffAct, ProveRecord, RecordEntry, ProveRedetermine, Prove, Redetermine, Revoke, Return,
         VoidRecord, Reopen, OpenContestingRound, caseVars
    <3> QED
      BY <1>1, <3>1 DEF Decided
  <2>7. CASE OutsideAct
    <3>1. claim'.status # "draft" \/ claim' = claim \/ claim'.status = claim.status \/ participant' # participant
      BY <2>0, <2>7 DEF OutsideAct, VoidItem, RestoreItem, Exclude, Readmit, Report, Save, SaveAndReturn,
         SaveAndReroute, Repointed, caseVars
    <3> QED
      BY <1>1, <3>1 DEF Decided
  <2>8. CASE DropProof \/ UNCHANGED vars
    <3>1. claim' = claim
      BY <2>8 DEF DropProof, vars, caseVars
    <3> QED
      BY <1>1, <3>1 DEF Decided
  <2> QED
    BY <1>1, <2>1, <2>2, <2>3, <2>4, <2>5, <2>6, <2>7, <2>8 DEF Next
<1>2. Sound /\ [Next]_vars =>
        [ claim.status \in Decided \cup {"in_review"} /\ claim'.status = "draft"
              /\ participant' = participant =>
              IF claim.status = "in_review" THEN ~Begun(claim.current)
              ELSE claim.status = "rejected" /\ claim'.revision > claim.revision ]_vars
  BY <1>1
<1> QED
  BY <1>2, SoundInvariant, PTL DEF Spec, WorkNeverWithdrawn

(* What the claim stands as is what the conclusion a contest names settled:*)
(* nothing else was determined by that round.                              *)
LEMMA SettledBefore ==
    ASSUME Typed, Recorded, claim.status = "approved", NEW t, HeldBy(t), Refers(t)
    PROVE  /\ t.kind = "recognition" => {recs[t.id].value} = {recs[claim.standing].value}
           /\ t.kind = "round" => settledBy(t.id) = {recs[claim.standing].value}
           /\ t.kind # "revocation"
<1>1. t.kind = "recognition" => {recs[t.id].value} = {recs[claim.standing].value}
  BY DEF HeldBy
<1>2. t.kind # "revocation"
  BY DEF HeldBy
<1>3. CASE t.kind = "round"
  <2>1. t.id # None /\ StandsAs(t.id)
    BY <1>3, NoneAssumption DEF HeldBy, Refers, ConclusionTarget
  <2>2. claim.standing \in DOMAIN recs /\ recs[claim.standing].round = t.id
    BY <2>1 DEF StandsAs, Typed, TypeOK, Recorded
  <2>3. \A n \in DOMAIN recs : recs[n].round = t.id <=> n = claim.standing
    BY <2>1, <2>2 DEF Recorded
  <2>4. {n \in DOMAIN recs : recs[n].round = t.id} = {claim.standing}
    BY <2>2, <2>3
  <2>5. settledBy(t.id) = {recs[n].value : n \in {claim.standing}}
    BY <2>4 DEF settledBy
  <2>6. settledBy(t.id) = {recs[claim.standing].value}
    BY <2>5
  <2> QED
    BY <1>1, <1>2, <1>3, <2>6
<1> QED
  BY <1>1, <1>2, <1>3

(* A concluded contest did to the claim what its rows are read as saying.  *)
LEMMA EffectStep ==
    ASSUME Sound, [Next]_vars, NEW i \in OpenRounds, Contests(rounds[i]), Concluded(rounds'[i])
    PROVE  roundEffectOf(i)' =
             Moved(claim.status, claim'.status,
                   IF claim.standing = None THEN None ELSE recs[claim.standing].value,
                   IF claim'.standing = None THEN None ELSE recs'[claim'.standing].value)
<1>0. /\ Typed /\ Recorded /\ Footing /\ AskedWhileWaiting
      /\ claim \in [status : Status, source : {"self", "record"}, revision : Nat,
                    handed : Nat, current : Ref, standing : Ref]
      /\ i \in DOMAIN rounds /\ rounds[i] \in Round /\ i # None /\ i \in Ref
  <2>1. Typed /\ Recorded /\ Footing /\ AskedWhileWaiting
    BY DEF Sound
  <2>2. i \in DOMAIN rounds /\ i # None /\ i \in Ref
    BY <2>1, OpenIsARow, NoneAssumption DEF Ref
  <2> QED
    BY <2>1, <2>2 DEF Typed, TypeOK
<1>1. RoundsMove /\ KeptRounds /\ KeptRows
  BY <1>0, MoveStep, KeptStep, RecsStep, KeptRowsStep
<1>2. PICK t : t = rounds[i].target
  OBVIOUS
<1>3. Refers(t) /\ HeldBy(t) /\ claim.status \in Decided
  BY <1>0, <1>2 DEF Recorded, Footing
<1>4. t \in ConclusionTarget /\ t.id # None /\ t.kind \in {"round", "recognition", "revocation"}
  BY <1>3, NoneAssumption DEF Refers, ConclusionTarget
<1>5. rounds'[i].target = t /\ Contests(rounds'[i])
  BY <1>0, <1>1, <1>2 DEF KeptRounds, SameRound, Contests
<1>6. VerdictOf(t)' = claim.status
  <2>1. CASE t.kind = "round"
    <3>1. Concluded(rounds[t.id]) /\ t.id \in DOMAIN rounds /\ rounds[t.id].outcome = claim.status
      BY <1>3, <1>4, <2>1 DEF Refers, HeldBy, StandsAs
    <3>2. rounds'[t.id] = rounds[t.id]
      BY <1>1, <3>1 DEF KeptRounds, Concluded
    <3> QED
      BY <2>1, <3>1, <3>2 DEF VerdictOf
  <2>2. CASE t.kind # "round"
    BY <1>3, <1>4, <2>2 DEF VerdictOf, HeldBy
  <2> QED
    BY <2>1, <2>2
<1>7. PICK verdict \in Decided : Concludes(i, verdict) /\ Decides(i, verdict)
  <2>1. ~Ended(rounds[i])
    BY DEF OpenRounds
  <2>2. ~(rounds' = rounds) /\ ~OpensRound
    BY <2>1 DEF Concluded, OpensRound, Opens, hasOpenRound
  <2>3. \A j \in DOMAIN rounds : ~Worked(j) \/ j # i
    BY DEF Worked, Concluded
  <2>4. \A j \in DOMAIN rounds : j = i \/ ~(Worked(j) \/ Reroutes(j) \/ \E verdict : Concludes(j, verdict))
    BY DEF Worked, Reroutes, Concludes, Footing, Sound
  <2>5. rounds'[i] # [rounds[i] EXCEPT !.state = "completed", !.outcome = "ended", !.ask = FALSE]
    BY <1>0 DEF Concluded, Decided, Round
  <2>6. ~Over(rounds') /\ \A j \in DOMAIN rounds : ~Reroutes(j)
    BY <1>0, <2>1, <2>4, <2>5 DEF Over, Reroutes
  <2> QED
    BY <1>1, <2>2, <2>3, <2>4, <2>6 DEF RoundsMove
<1>8. rounds'[i].outcome = verdict /\ claim.current = i
  BY <1>7 DEF Concludes
<1>9. CASE verdict = "rejected"
  <2>1. claim'.status = "rejected"
    BY <1>0, <1>7, <1>9 DEF Decides, DecideReject
  <2>2. roundEffectOf(i)' = IF VerdictOf(t)' = "approved" THEN "revoked" ELSE "upheld"
    BY <1>5, <1>8, <1>9 DEF roundEffectOf
  <2>3. CASE claim.status = "approved"
    BY <1>6, <2>1, <2>2, <2>3 DEF Moved
  <2>4. CASE claim.status = "rejected"
    BY <1>6, <2>1, <2>2, <2>4 DEF Moved
  <2> QED
    BY <1>3, <2>3, <2>4 DEF Decided
<1>10. CASE verdict = "approved"
  <2>1. PICK value \in Value : DecideApprove(i, value)
    BY <1>7, <1>10 DEF Decides
  <2>2. rounds[i].revision \in Nat
    BY <1>0 DEF Round
  <2>3. PICK n \in Nat : n = rounds[i].revision
    BY <2>2
  <2>4. claim'.status = "approved" /\ claim'.standing = Len(recs) + 1 /\ Recognise(value, "review", n, i)
    BY <1>0, <2>1, <2>3 DEF DecideApprove
  <2>5. Determines(i) /\ recs'[claim'.standing].value = value
    BY <1>0, <2>4, DeterminesIs
  <2>6. claim'.standing # None
    BY <1>0, <2>4, NoneAssumption DEF Typed, TypeOK
  <2>7. CASE claim.status = "rejected"
    <3>1. roundEffectOf(i)' = "overturned"
      BY <1>5, <1>6, <1>8, <1>10, <2>7 DEF roundEffectOf
    <3> QED
      BY <2>4, <2>7, <3>1 DEF Moved
  <2>8. CASE claim.status = "approved"
    <3>1. claim.standing # None
      BY <1>0, <2>8 DEF Typed, TypeOK
    <3>2. settledBy(i)' = {value}
      <4>1. \A m \in DOMAIN recs : recs[m].round # i
        BY <1>0, <1>7 DEF Recorded, Concludes, OpenRounds, Concluded
      <4>2. \A m \in DOMAIN recs' : recs'[m].round = i <=> m = claim'.standing
        BY <2>4, <2>5, <4>1 DEF Determines
      <4>3. claim'.standing \in DOMAIN recs'
        BY <2>4, <2>5 DEF Determines
      <4>4. {m \in DOMAIN recs' : recs'[m].round = i} = {claim'.standing}
        BY <4>2, <4>3
      <4>5. settledBy(i)' = {recs'[m].value : m \in {claim'.standing}}
        BY <4>4 DEF settledBy
      <4> QED
        BY <2>5, <4>5
    <3>3. /\ t.kind = "recognition" => {recs'[t.id].value} = {recs[claim.standing].value}
          /\ t.kind # "revocation"
      BY <1>0, <1>1, <1>3, <2>8, SettledBefore DEF Refers, KeptRows
    <3>4. t.kind = "round" => settledBy(t.id)' = {recs[claim.standing].value}
      <4> SUFFICES ASSUME t.kind = "round"
                   PROVE  settledBy(t.id)' = {recs[claim.standing].value}
        OBVIOUS
      <4>1. t.id # i
        BY <1>3 DEF Refers, OpenRounds, Concluded
      <4>2. \A m : m \in DOMAIN recs' /\ recs'[m].round = t.id <=> m \in DOMAIN recs /\ recs[m].round = t.id
        BY <2>5, <4>1 DEF Determines
      <4>3. {m \in DOMAIN recs' : recs'[m].round = t.id} = {m \in DOMAIN recs : recs[m].round = t.id}
        BY <4>2
      <4>4. settledBy(t.id)' = {recs'[m].value : m \in {m \in DOMAIN recs : recs[m].round = t.id}}
        BY <4>3 DEF settledBy
      <4>5. \A m \in {m \in DOMAIN recs : recs[m].round = t.id} : recs'[m].value = recs[m].value
        BY <1>1 DEF KeptRows
      <4>6. settledBy(t.id)' = settledBy(t.id)
        BY <4>4, <4>5 DEF settledBy
      <4> QED
        BY <1>0, <1>3, <2>8, <4>6, SettledBefore
    <3>5. roundEffectOf(i)' = IF value = recs[claim.standing].value THEN "upheld" ELSE "corrected"
      <4>1. roundEffectOf(i)' =
              LET before == IF t.kind = "recognition" THEN {recs'[t.id].value} ELSE settledBy(t.id)'
              IN  IF settledBy(i)' # {} /\ settledBy(i)' = before THEN "upheld" ELSE "corrected"
        BY <1>5, <1>6, <1>8, <1>10, <2>8 DEF roundEffectOf
      <4>2. (IF t.kind = "recognition" THEN {recs'[t.id].value} ELSE settledBy(t.id)')
              = {recs[claim.standing].value}
        BY <1>4, <3>3, <3>4
      <4> QED
        BY <3>2, <4>1, <4>2
    <3> QED
      BY <2>4, <2>5, <2>6, <2>8, <3>1, <3>5 DEF Moved
  <2> QED
    BY <1>3, <2>7, <2>8 DEF Decided
<1> QED
  BY <1>9, <1>10 DEF Decided

(* The effect the history derives for a concluded contest is what happened *)
(* to the claim when it concluded.                                         *)
THEOREM EffectHolds == Spec => EffectIsTrue
<1>1. Sound /\ [Next]_vars =>
        [ \A i \in OpenRounds : Contests(rounds[i]) /\ Concluded(rounds'[i]) =>
            roundEffectOf(i)' =
                Moved(claim.status, claim'.status,
                      IF claim.standing = None THEN None ELSE recs[claim.standing].value,
                      IF claim'.standing = None THEN None ELSE recs'[claim'.standing].value) ]_vars
  BY EffectStep
<1> QED
  BY <1>1, SoundInvariant, PTL DEF Spec, EffectIsTrue

-----------------------------------------------------------------------------
(***************************************************************************)
(* One appeal per conclusion.                                              *)
(***************************************************************************)

\* the round a round continues, 0 for none
Before(j) == IF rounds[j].supersedes = None THEN 0 ELSE rounds[j].supersedes

LineageFcn(back) == [j \in 0..Len(rounds) |-> IF j = 0 THEN {} ELSE {j} \cup back[Before(j)]]

\* the rounds reached from round j, as what every set closed under going back
\* has in common: what the recursion is solved by
Closed(S) == \A k \in S : Before(k) # 0 => Before(k) \in S

Reached(j) == {k \in DOMAIN rounds : \A S \in SUBSET (DOMAIN rounds) : j \in S /\ Closed(S) => k \in S}

(* The recursion has a solution.                                           *)
LEMMA LineageExists ==
    ASSUME Typed, Continued
    PROVE  \E back : back = LineageFcn(back)
<1>1. /\ DOMAIN rounds = 1..Len(rounds) /\ Len(rounds) \in Nat
      /\ \A j \in DOMAIN rounds : j # 0 /\ Before(j) \in 0..Len(rounds)
                                  /\ (Before(j) # 0 => Before(j) \in DOMAIN rounds)
  <2>1. rounds \in Seq(Round) /\ DOMAIN rounds = 1..Len(rounds) /\ Len(rounds) \in Nat
    BY DEF Typed, TypeOK
  <2>2. \A j \in DOMAIN rounds : rounds[j].supersedes # None => rounds[j].supersedes \in DOMAIN rounds
    BY DEF Continued
  <2> QED
    BY <2>1, <2>2 DEF Before
<1> DEFINE f == [j \in 0..Len(rounds) |-> IF j = 0 THEN {} ELSE Reached(j)]
<1>2. ASSUME NEW j \in DOMAIN rounds, Before(j) = 0 PROVE Reached(j) = {j}
  <2>1. {j} \in SUBSET (DOMAIN rounds) /\ Closed({j})
    BY <1>2 DEF Closed
  <2> QED
    BY <2>1 DEF Reached
<1>3. ASSUME NEW j \in DOMAIN rounds, Before(j) # 0 PROVE Reached(j) = {j} \cup Reached(Before(j))
  <2>1. PICK b \in DOMAIN rounds : b = Before(j)
    BY <1>1, <1>3
  <2>2. \A S \in SUBSET (DOMAIN rounds) : j \in S /\ Closed(S) => b \in S
    BY <1>3, <2>1 DEF Closed
  <2>3. {j} \cup Reached(b) \subseteq Reached(j)
    BY <2>2 DEF Reached
  <2>4. b \in Reached(b) /\ Reached(b) \subseteq DOMAIN rounds
    BY DEF Reached
  <2>5. ASSUME NEW k \in Reached(b), Before(k) # 0 PROVE Before(k) \in Reached(b)
    <3>1. Before(k) \in DOMAIN rounds
      BY <1>1, <2>4, <2>5
    <3> QED
      BY <2>5, <3>1 DEF Reached, Closed
  <2>6. Closed({j} \cup Reached(b))
    BY <2>1, <2>4, <2>5 DEF Closed
  <2>7. {j} \cup Reached(b) \in SUBSET (DOMAIN rounds)
    BY <2>4
  <2>8. Reached(j) \subseteq {j} \cup Reached(b)
    BY <2>6, <2>7 DEF Reached
  <2> QED
    BY <2>1, <2>3, <2>8
<1>4. \A j \in DOMAIN rounds : Reached(j) = {j} \cup f[Before(j)]
  BY <1>1, <1>2, <1>3
<1>5. f = LineageFcn(f)
  <2>1. \A j \in 0..Len(rounds) : j # 0 => j \in DOMAIN rounds
    BY <1>1
  <2>2. \A j \in 0..Len(rounds) :
          (IF j = 0 THEN {} ELSE Reached(j)) = (IF j = 0 THEN {} ELSE {j} \cup f[Before(j)])
    BY <1>4, <2>1
  <2> HIDE DEF f
  <2>3. LineageFcn(f) = [j \in 0..Len(rounds) |-> IF j = 0 THEN {} ELSE Reached(j)]
    BY <2>2 DEF LineageFcn
  <2> QED
    BY <2>3 DEF f
<1> QED
  BY <1>5

(* A round's lineage is the round and the lineage of the one it continues. *)
LEMMA LineageIs ==
    ASSUME Typed, Continued
    PROVE  \A j \in DOMAIN rounds :
             Lineage(j) = {j} \cup IF rounds[j].supersedes = None THEN {} ELSE Lineage(rounds[j].supersedes)
<1>0. /\ DOMAIN rounds = 1..Len(rounds) /\ Len(rounds) \in Nat
      /\ \A j \in DOMAIN rounds : rounds[j].supersedes # None => rounds[j].supersedes \in DOMAIN rounds
  BY DEF Typed, TypeOK, Continued
<1> DEFINE B == CHOOSE back : back = LineageFcn(back)
<1>1. B = LineageFcn(B)
  BY LineageExists
<1>2. \A i : Lineage(i) = B[i]
  BY DEF Lineage, LineageFcn, Before
<1> HIDE DEF B
<1>3. \A j \in 0..Len(rounds) : B[j] = IF j = 0 THEN {} ELSE {j} \cup B[Before(j)]
  BY <1>1 DEF LineageFcn
<1>4. B[0] = {}
  <2>1. 0 \in 0..Len(rounds)
    BY <1>0
  <2> QED
    BY <1>3, <2>1
<1>5. ASSUME NEW j \in DOMAIN rounds PROVE B[j] = {j} \cup B[Before(j)]
  <2>1. j \in 0..Len(rounds) /\ j # 0
    BY <1>0
  <2> QED
    BY <1>3, <2>1
<1>6. \A j \in DOMAIN rounds :
        B[Before(j)] = IF rounds[j].supersedes = None THEN {} ELSE B[rounds[j].supersedes]
  BY <1>4 DEF Before
<1> QED
  BY <1>2, <1>5, <1>6

(* What goes back from a round that is no appeal meets none: a re-route    *)
(* keeps an appeal an appeal.  Were there a round to the contrary, the     *)
(* first of them would continue another.                                   *)
LEMMA NoAppealBefore ==
    ASSUME Typed, Continued, NEW i \in DOMAIN rounds, rounds[i].origin # "appeal"
    PROVE  Lineage(i) \cap {j \in DOMAIN rounds : rounds[j].origin = "appeal"} = {}
<1> DEFINE Appeals == {j \in DOMAIN rounds : rounds[j].origin = "appeal"}
           Bad == {j \in DOMAIN rounds : rounds[j].origin # "appeal" /\ Lineage(j) \cap Appeals # {}}
<1>1. DOMAIN rounds = 1..Len(rounds) /\ Len(rounds) \in Nat
  BY DEF Typed, TypeOK
<1>2. Bad \subseteq Nat
  BY <1>1
<1>3. ASSUME NEW x \in Bad PROVE \E y \in Bad : y < x
  <2>1. x \in DOMAIN rounds /\ rounds[x].origin # "appeal" /\ Lineage(x) \cap Appeals # {}
    OBVIOUS
  <2>2. x \notin Appeals
    BY <2>1
  <2>3. Lineage(x) = {x} \cup IF rounds[x].supersedes = None THEN {} ELSE Lineage(rounds[x].supersedes)
    BY <2>1, LineageIs
  <2> HIDE DEF Appeals
  <2>4. rounds[x].supersedes # None /\ Lineage(rounds[x].supersedes) \cap Appeals # {}
    BY <2>1, <2>2, <2>3
  <2>5. /\ rounds[x].supersedes \in DOMAIN rounds /\ rounds[x].supersedes < x
        /\ rounds[rounds[x].supersedes].origin # "appeal"
    BY <2>1, <2>4 DEF Continued
  <2>6. rounds[x].supersedes \in Bad
    BY <2>4, <2>5
  <2> QED
    BY <2>5, <2>6
<1> HIDE DEF Bad
<1>4. Bad = {}
  <2> SUFFICES ASSUME Bad # {} PROVE FALSE
    OBVIOUS
  <2>1. IsWellFoundedOn(OpToRel(<, Nat), Nat)
    BY NatLessThanWellFounded
  <2>2. PICK x \in Bad : \A y \in Bad : ~(<<y, x>> \in OpToRel(<, Nat))
    BY <1>2, <2>1, WFMin
  <2>3. PICK y \in Bad : y < x
    BY <1>3
  <2>4. <<y, x>> \in OpToRel(<, Nat)
    BY <1>2, <2>3 DEF OpToRel
  <2> QED
    BY <2>2, <2>4
<1> QED
  BY <1>4 DEF Bad

(* A conclusion is appealed to a verdict once, and the verdict of an       *)
(* appeal, or of a round that continues one, never.                        *)
THEOREM AppealIsSpent == Spec => []OneAppealPerConclusion
<1>1. ASSUME Sound PROVE OneAppealPerConclusion
  <2>0. Typed /\ Recorded /\ Continued /\ Appealed
    BY <1>1 DEF Sound
  <2>1. \A i, j \in DOMAIN rounds :
          rounds[i].origin = "appeal" /\ rounds[j].origin = "appeal" /\ Concluded(rounds[i])
            /\ Concluded(rounds[j]) /\ rounds[i].target = rounds[j].target => i = j
    BY <2>0 DEF Appealed
  <2>2. ASSUME NEW i \in DOMAIN rounds, rounds[i].origin = "appeal", rounds[i].target.kind = "round"
        PROVE  Lineage(rounds[i].target.id) \cap {j \in DOMAIN rounds : rounds[j].origin = "appeal"} = {}
    <3>1. PICK k : k = rounds[i].target.id
      OBVIOUS
    <3>2. k \in DOMAIN rounds /\ rounds[k].origin # "appeal"
      BY <2>0, <2>2, <3>1 DEF Recorded, Refers, Contests, Appealed
    <3> QED
      BY <2>0, <3>1, <3>2, NoAppealBefore
  <2> QED
    BY <2>1, <2>2 DEF OneAppealPerConclusion
<1>2. Sound => OneAppealPerConclusion
  BY <1>1
<1> QED
  BY <1>2, SoundInvariant, PTL


-----------------------------------------------------------------------------
(***************************************************************************)
(* The life of a round.                                                    *)
(***************************************************************************)

(* What Claim makes of a row is a step of RoundLife.                       *)
LEMMA LivesIs ==
    ASSUME NEW i, rounds[i] \in Round, rounds'[i] \in Round, Lives(rounds[i], rounds'[i])
    PROVE  Life(i)!LNext
<1> DEFINE a == rounds[i]
           b == rounds'[i]
<1>1. a.ask \in BOOLEAN /\ b.ask \in BOOLEAN /\ a.begun \in BOOLEAN /\ b.begun \in BOOLEAN
  BY DEF Round
<1>2. CASE /\ {a.state, b.state} \subseteq {"active", "blocked"} /\ b.outcome = a.outcome
           /\ b.ask = a.ask /\ b.begun = TRUE
  BY <1>2 DEF Life!LNext, Life!Word, Life!Standing
<1>3. CASE /\ {a.state, b.state} \subseteq {"active", "blocked"} /\ b.outcome = a.outcome
           /\ b.ask = a.ask /\ b.begun = a.begun
  <2>1. (~Ended(b) /\ ~b.begun) = (~Ended(a) /\ ~a.begun)
    BY <1>3 DEF Ended
  <2> QED
    BY <1>3, <2>1 DEF Life!LNext, Life!Restaff, Life!Standing
<1>4. CASE /\ a.state = "active" /\ b.state = "awaiting_supplement" /\ b.outcome = a.outcome
           /\ a.ask = FALSE /\ b.ask = TRUE /\ b.begun = TRUE
  BY <1>4 DEF Life!LNext, Life!Ask
<1>5. CASE /\ a.state = "awaiting_supplement" /\ b.state \in {"active", "blocked"}
           /\ b.outcome = a.outcome /\ a.ask = TRUE /\ b.ask = FALSE /\ b.begun = a.begun
  <2>1. (~Ended(b) /\ ~b.begun) = (~Ended(a) /\ ~a.begun)
    BY <1>5 DEF Ended
  <2> QED
    BY <1>5, <2>1 DEF Life!LNext, Life!AskEnds, Life!Standing
<1>6. CASE /\ a.state = "active" /\ b.state = "completed" /\ b.outcome \in Decided
           /\ b.ask = a.ask
  BY <1>6 DEF Life!LNext, Life!Verdict, Decided, Ended
<1>7. CASE /\ a.state # "completed" /\ b.state = "completed" /\ b.outcome = "ended"
           /\ b.ask = FALSE
  BY <1>7 DEF Life!LNext, Life!End, Ended
<1> QED
  BY <1>2, <1>3, <1>4, <1>5, <1>6, <1>7 DEF Lives

(* A row appended begins its life.                                         *)
LEMMA RowBegins ==
    ASSUME NEW i, NEW r \in Round, rounds'[i] = r, ~Ended(r), r.ask = FALSE,
           r.state # "awaiting_supplement", r.outcome = None, r.begun = FALSE
    PROVE  Life(i)!LInit'
<1>1. r.state \in {"active", "blocked"}
  BY DEF Round, Ended, OpenReviewStates
<1>2. (~Ended(r) /\ ~r.begun) = TRUE
  OBVIOUS
<1> QED
  BY <1>1, <1>2 DEF Life!LInit, Life!Standing

(* A round that is ended is a step of its life.                            *)
LEMMA RowEnds ==
    ASSUME NEW a \in Round, ~Ended(a),
           NEW b, b = [a EXCEPT !.state = "completed", !.outcome = "ended", !.ask = FALSE]
    PROVE  Lives(a, b) /\ b \in Round
BY DEF Lives, Round, Ended

(* Every act that moves the rounds moves each along its life, and the      *)
(* rounds it adds begin theirs.                                            *)
LEMMA MoveLives ==
    ASSUME Typed, RoundsMove, rounds' \in Seq(Round)
    PROVE  /\ \A i \in DOMAIN rounds : Lives(rounds[i], rounds'[i]) \/ rounds'[i] = rounds[i]
           /\ \A i \in DOMAIN rounds' \ DOMAIN rounds : Life(i)!LInit'
<1>1. /\ rounds \in Seq(Round) /\ DOMAIN rounds = 1..Len(rounds) /\ DOMAIN rounds' = 1..Len(rounds')
      /\ \A j \in DOMAIN rounds : rounds[j] \in Round
  BY DEF Typed, TypeOK
<1>2. CASE rounds' = rounds
  BY <1>2
<1>3. ASSUME NEW i \in DOMAIN rounds, Worked(i) \/ \E verdict \in Decided : Concludes(i, verdict)
      PROVE  /\ \A j \in DOMAIN rounds : Lives(rounds[j], rounds'[j]) \/ rounds'[j] = rounds[j]
             /\ DOMAIN rounds' = DOMAIN rounds
  BY <1>1, <1>3 DEF Worked, Concludes
<1>4. CASE Over(rounds')
  <2>1. DOMAIN rounds' = DOMAIN rounds
    BY <1>1, <1>4 DEF Over
  <2>2. ASSUME NEW j \in DOMAIN rounds
        PROVE  Lives(rounds[j], rounds'[j]) \/ rounds'[j] = rounds[j]
    BY <1>1, <1>4, RowEnds DEF Over
  <2> QED
    BY <2>1, <2>2
<1>5. CASE OpensRound
  <2>1. \E origin, t : Opens(origin, t)
    BY <1>5 DEF OpensRound
  <2>2. PICK r \in Round :
          /\ Appends(r) /\ ~Ended(r) /\ r.ask = FALSE /\ r.state # "awaiting_supplement"
          /\ r.outcome = None /\ r.begun = FALSE
    BY <2>1 DEF Opens
  <2>3. \A j \in DOMAIN rounds : rounds'[j] = rounds[j]
    BY <2>2 DEF Appends
  <2>4. ASSUME NEW i \in DOMAIN rounds' \ DOMAIN rounds PROVE Life(i)!LInit'
    <3>1. rounds'[i] = r
      BY <2>2 DEF Appends
    <3> QED
      BY <2>2, <3>1, RowBegins
  <2> QED
    BY <2>3, <2>4
<1>6. ASSUME NEW o \in DOMAIN rounds, Reroutes(o)
      PROVE  /\ \A i \in DOMAIN rounds : Lives(rounds[i], rounds'[i]) \/ rounds'[i] = rounds[i]
             /\ \A i \in DOMAIN rounds' \ DOMAIN rounds : Life(i)!LInit'
  <2>1. PICK r \in Round :
          /\ DOMAIN rounds' = DOMAIN rounds \cup {Len(rounds) + 1}
          /\ \A j \in DOMAIN rounds : j # o => rounds'[j] = rounds[j]
          /\ rounds'[o] = [rounds[o] EXCEPT !.state = "completed", !.outcome = "ended", !.ask = FALSE]
          /\ rounds'[Len(rounds) + 1] = r
          /\ ~Ended(r) /\ r.ask = FALSE /\ r.state # "awaiting_supplement"
          /\ r.outcome = None /\ r.begun = FALSE
    BY <1>6 DEF Reroutes
  <2>2. Lives(rounds[o], rounds'[o])
    BY <1>1, <1>6, <2>1, RowEnds DEF Reroutes, OpenRounds
  <2>3. ASSUME NEW i \in DOMAIN rounds' \ DOMAIN rounds PROVE Life(i)!LInit'
    <3>1. rounds'[i] = r
      BY <2>1
    <3> QED
      BY <2>1, <3>1, RowBegins
  <2> QED
    BY <2>1, <2>2, <2>3
<1> QED
  BY <1>2, <1>3, <1>4, <1>5, <1>6 DEF RoundsMove

(* Whatever act reaches a round - its owner's, the judges', staff's, a     *)
(* save or a withdrawal of the question, an exclusion, the patrol - moves  *)
(* its row as RoundLife has it move, leaves what it judges, contests and   *)
(* continues, and loses no row (review/db.ts, completeInstance,            *)
(* cancelReviewInstance).                                                  *)
THEOREM LivesImplemented == Spec => LivesKept
<1>1. ASSUME Sound, Sound', [Next]_vars
      PROVE  \/ /\ \A i \in DOMAIN rounds :
                      /\ i \in DOMAIN rounds' /\ Subject(rounds'[i]) = Subject(rounds[i])
                      /\ Life(i)!LNext \/ rounds'[i] = rounds[i]
                /\ \A i \in DOMAIN rounds' \ DOMAIN rounds : Life(i)!LInit'
             \/ UNCHANGED rounds
  <2>1. RoundsMove /\ Typed /\ rounds \in Seq(Round) /\ rounds' \in Seq(Round)
    BY <1>1, MoveStep DEF Sound, Typed, TypeOK
  <2>2. \A i \in DOMAIN rounds : i \in DOMAIN rounds' /\ SameRound(i)
    BY <2>1, KeptStep DEF KeptRounds
  <2>3. ASSUME NEW i \in DOMAIN rounds
        PROVE  Life(i)!LNext \/ rounds'[i] = rounds[i]
    <3>1. rounds[i] \in Round /\ rounds'[i] \in Round
      BY <2>1, <2>2
    <3>2. Lives(rounds[i], rounds'[i]) \/ rounds'[i] = rounds[i]
      BY <2>1, MoveLives
    <3> QED
      BY <3>1, <3>2, LivesIs
  <2>4. \A i \in DOMAIN rounds' \ DOMAIN rounds : Life(i)!LInit'
    BY <2>1, MoveLives
  <2>5. \A i \in DOMAIN rounds : Subject(rounds'[i]) = Subject(rounds[i])
    BY <2>2 DEF SameRound, Subject
  <2> QED
    BY <2>2, <2>3, <2>4, <2>5
<1> QED
  BY <1>1, SoundInvariant, PTL DEF Spec, LivesKept
=============================================================================
