---------------------------- MODULE ReviewRound ----------------------------
(***************************************************************************)
(* One review round (assessment/core/src/review): the two routes it walks, *)
(* frozen when it opened; the word of a single judge and the ballots of a  *)
(* sitting; asking for more and being answered; and the patrol, which      *)
(* holds no lock and keeps the round's state true to who could judge it.   *)
(*                                                                         *)
(* A decision reads the staffing in a statement of its own each time it    *)
(* asks, under the locks it takes: whether the judge may act, and at a     *)
(* sitting the seats and then who may sit now.  What it commits is one     *)
(* action.  Every other act on the round waits for those locks;            *)
(* appointments, and the patrol outside the round's own row, do not.  The  *)
(* patrol is an action for each thing it asks or writes, the other acts    *)
(* are one action each.                                                    *)
(*                                                                         *)
(* Each step stands for the one node it resolves to; its holders are those *)
(* who may review there.  A person holds a step or not; whether by role,   *)
(* by batch access or not denied is one fact here.  The determination a    *)
(* decision writes is Claim's.                                             *)
(***************************************************************************)
EXTENDS Integers, FiniteSets, SequencesExt

CONSTANTS
    People,
    Own,                \* whoever the filing is of: a member anywhere, eligible nowhere
    Normal, Escalation, \* the routes, as sequences of steps
    Panels,             \* the steps of quorum "all"
    Nearest,            \* the steps of a nearestRole selector, the others are roleAt
    Lineages,           \* the sets of roleAt steps the participant may have no unit of
    Staffings,          \* who may hold each step when the round opens
    Posts,              \* bound: the <<step, person>> to appoint or dismiss, and
    Changes,            \* bound: how many times
    Asks,               \* bound: supplements asked for
    None

Steps == Range(Normal) \cup Range(Escalation)

ASSUME RoundConstants ==
    /\ Normal \in Seq(Steps) /\ Escalation \in Seq(Steps)
    /\ IsInjective(Normal) /\ IsInjective(Escalation)
    /\ Range(Normal) \cap Range(Escalation) = {}
    /\ IsFiniteSet(People)
    /\ Panels \subseteq Range(Front(Escalation)) /\ Nearest \subseteq Steps
    /\ Lineages \subseteq SUBSET (Steps \ Nearest)
    /\ Staffings \subseteq [Steps -> SUBSET People]
    /\ Posts \subseteq Steps \X People /\ {Changes, Asks} \subseteq Nat
    /\ None \notin People \cup Steps \cup {"approved", "rejected", "cancelled"}

(* A row of review_panels and its assignments: the sitting each seat was   *)
(* made for, 0 for no seat.                                                *)
PanelRow == [stage : Panels, size : 1 .. Cardinality(People), seat : [People -> Nat],
             votes : [People -> {"none", "approve", "reject"}]]
ASSUME NoneIsNoPanel == None \notin PanelRow

VARIABLES
    holders, \* who holds each step now
    frozen,  \* what the routes resolved to: the steps skipped for want of a
             \* level, and those nobody held, which have no node
    round,   \* review_instances
    trail,   \* the judging and skipping events, and the ballots of resolved sittings
    panel,   \* the open sitting
    seated,  \* assignments ever made
    decision,\* the decision that holds the round's lock
    ask,     \* who asked for the open supplement
    patrol,  \* the patrol's look at the round
    bounds   \* appointments and asks so far

vars == <<holders, frozen, round, trail, panel, seated, decision, ask, patrol, bounds>>
sitting == <<panel, seated>>

-----------------------------------------------------------------------------
(* The routes. *)

RouteOf(s) == IF s \in Range(Normal) THEN Normal ELSE Escalation
Climbing(s) == RouteOf(s) = Escalation
Indexes == [s \in Steps |-> CHOOSE i \in DOMAIN RouteOf(s) : RouteOf(s)[i] = s]
IndexOf(s) == Indexes[s]

(* A step without its level is stepped over; one nobody holds is not.      *)
Enterable(s) == s \notin frozen.absent
EnterableFrom(route, from) ==
    {route[i] : i \in {j \in DOMAIN route : j >= from /\ Enterable(route[j])}}
FirstOf(S) == CHOOSE s \in S : \A t \in S : IndexOf(s) <= IndexOf(t)
After(s) == EnterableFrom(RouteOf(s), IndexOf(s) + 1)
isRouteEnd(s) == After(s) = {}
escalationOpen == EnterableFrom(Escalation, 1) # {}

-----------------------------------------------------------------------------
(* Who may judge. *)

Judging == {"approved", "rejected", "escalated", "opinion-approved", "opinion-rejected",
            "yes", "no"}
Voters(p) == IF p = None THEN {} ELSE {q \in People : p.votes[q] # "none"}

(* mutant of Judged: ballots are not events, and do not count *)
JudgedByEvent(said, p) == {e.who : e \in {e \in said : e.word \in Judging \ {"yes", "no"}}} \ {None}
(* Whoever has judged in this round, by a word or by a ballot that counts. *)
Judged(said, p) == ({e.who : e \in {e \in said : e.word \in Judging}} \ {None}) \cup Voters(p)

Independent(s, judged) == holders[s] \ (IF Climbing(s) THEN judged \cup {Own} ELSE {Own})

(* stageArrival asks the step's frozen node.                               *)
Eligible(s, judged) == IF s \in frozen.vacant THEN {} ELSE Independent(s, judged)
Conflicted(s, judged) ==
    s \notin frozen.vacant /\ holders[s] # {} /\ Independent(s, judged) = {}

Seated(p, q) == p.seat[q] # 0
Chairs(p) == p.size - Cardinality({q \in People : Seated(p, q)})

(* mutant of mayActOn: a member without a seat is let in, chair or no chair*)
ActUnseated(q) ==
    /\ round.placed
    /\ q \in Independent(round.stage, Judged(trail, panel))
    /\ panel # None /\ Seated(panel, q) => panel.votes[q] = "none"
(* Acting on a round asks the node it stands at.                           *)
mayActOn(q) ==
    /\ round.placed
    /\ q \in Independent(round.stage, Judged(trail, panel))
    /\ panel # None => \/ Seated(panel, q) /\ panel.votes[q] = "none"
                       \/ ~Seated(panel, q) /\ Chairs(panel) > 0

createPanel(s, members, nth) == [
    stage |-> s, size |-> Cardinality(members),
    seat |-> [q \in People |-> IF q \in members THEN nth ELSE 0],
    votes |-> [q \in People |-> "none"]]

Standing(s, state) == [state |-> state, stage |-> s, placed |-> s \notin frozen.vacant,
                       outcome |-> None]

(* The round comes to stand at a step, and a sitting is called if it is    *)
(* one's to judge.                                                         *)
arrive(s, judged) ==
    LET eligible == Eligible(s, judged)
        sits == eligible # {} /\ s \in Panels
    IN /\ round' = Standing(s, IF eligible = {} THEN "blocked" ELSE "active")
       /\ panel' = IF sits THEN createPanel(s, eligible, seated + 1) ELSE None
       /\ seated' = IF sits THEN seated + 1 ELSE seated

(* mutant of Landing: looked for from the start of the route *)
LandFromStart(from, judged) ==
    FirstOf({s \in EnterableFrom(Escalation, 1) : ~Conflicted(s, judged) \/ isRouteEnd(s)})
(* Up the escalation route: over the steps held only by people in conflict,*)
(* if there is one behind them, and onto the first other.                  *)
Landing(from, judged) ==
    FirstOf({s \in EnterableFrom(Escalation, from) : ~Conflicted(s, judged) \/ isRouteEnd(s)})
SteppedOver(from, landing) ==
    {[stage |-> s, who |-> None, word |-> "stage-skipped"] :
        s \in EnterableFrom(Escalation, from) \ EnterableFrom(Escalation, IndexOf(landing))}
climb(from, said) ==
    /\ EnterableFrom(Escalation, from) # {}
    /\ \E judged \in {Judged(said, None)} : \E landing \in {Landing(from, judged)} :
       /\ arrive(landing, judged)
       /\ trail' = said \cup SteppedOver(from, landing)

-----------------------------------------------------------------------------
(* A round opens at the first step of the ordinary route, or, contesting a *)
(* conclusion, on the escalation route.                                    *)

Idle == [at |-> "idle"]
Init ==
    /\ holders \in Staffings
    /\ \E absent \in Lineages :
          frozen = [absent |-> absent, vacant |-> {s \in Nearest : holders[s] = {}}]
    /\ \E s \in Steps :
          LET from == IF Climbing(s) THEN Landing(1, {}) ELSE FirstOf(EnterableFrom(Normal, 1))
              sits == Eligible(s, {}) # {} /\ s \in Panels
          IN /\ EnterableFrom(RouteOf(s), 1) # {} /\ s = from
             /\ round = Standing(s, IF Eligible(s, {}) = {} THEN "blocked" ELSE "active")
             /\ panel = IF sits THEN createPanel(s, Eligible(s, {}), 1) ELSE None
             /\ seated = IF sits THEN 1 ELSE 0
             /\ trail = IF Climbing(s) THEN SteppedOver(1, s) ELSE {}
    /\ decision = None /\ ask = None /\ patrol = Idle
    /\ bounds = [changes |-> 0, asks |-> 0]

-----------------------------------------------------------------------------
(* A decision. *)

(* The locks are taken, the round read again and the judge's standing      *)
(* asked.                                                                  *)
takeUp(q) ==
    /\ decision = None /\ round.state \in {"active", "blocked"}
    /\ mayActOn(q)
    /\ decision' = [at |-> "letIn", by |-> q, called |-> {}, own |-> FALSE, eligible |-> {}]
    /\ UNCHANGED <<holders, frozen, round, trail, sitting, ask, patrol, bounds>>

(* At a step of a sitting its seats are read; if none is open one is       *)
(* called, from whoever is eligible when that is asked.                    *)
findSitting ==
    /\ decision # None /\ decision.at = "letIn" /\ round.stage \in Panels
    /\ LET called == IF panel = None THEN Eligible(round.stage, Judged(trail, panel)) ELSE {}
           mine == IF panel = None THEN decision.by \in called
                   ELSE Seated(panel, decision.by) /\ panel.votes[decision.by] = "none"
       IN decision' = [decision EXCEPT !.at = "seats", !.called = called, !.own = mine]
    /\ UNCHANGED <<holders, frozen, round, trail, sitting, ask, patrol, bounds>>

(* And then who is eligible now: a seat is the judge's own if both say so. *)
reviewersAtStage ==
    /\ decision # None /\ decision.at = "seats"
    /\ panel = None => decision.called # {}
    /\ LET eligible == Eligible(round.stage, Judged(trail, panel))
           mine == decision.own /\ decision.by \in eligible
       IN decision' = [decision EXCEPT !.at = "read", !.eligible = eligible, !.own = mine]
    /\ UNCHANGED <<holders, frozen, round, trail, sitting, ask, patrol, bounds>>

(* Refused, owing a proof, or failed: nothing of it is written.            *)
letGo ==
    /\ decision # None /\ decision' = None
    /\ UNCHANGED <<holders, frozen, round, trail, sitting, ask, patrol, bounds>>

(* What may be said where the round stands.                                *)
decisionsAt(s) == {"approve", "reject"} \cup
    {w \in {"escalate"} : IF Climbing(s) THEN ~isRouteEnd(s) ELSE escalationOpen}

(* mutant of wordEnds: any step's yes is the round's *)
EndsAtOnce(s, word) ==
    \/ word = "approve"
    \/ word = "reject" /\ (~Climbing(s) \/ isRouteEnd(s))
wordEnds(s, word) ==
    \/ word = "approve" /\ isRouteEnd(s)
    \/ word = "reject" /\ (~Climbing(s) \/ isRouteEnd(s))

Event(s, q, word) == [stage |-> s, who |-> q, word |-> word]
Ballots(p) == {Event(p.stage, q, IF p.votes[q] = "approve" THEN "yes" ELSE "no") : q \in Voters(p)}

(* mutant of completeInstance: written over whatever state the round is in *)
CompleteAny(outcome, said) ==
    /\ round' = [round EXCEPT !.state = "completed", !.outcome = outcome]
    /\ trail' = said /\ panel' = None /\ UNCHANGED seated
completeInstance(outcome, said) ==
    /\ round.state = "active"
    /\ round' = [round EXCEPT !.state = "completed", !.outcome = outcome]
    /\ trail' = said /\ panel' = None /\ UNCHANGED seated

(* A single judge's word.                                                  *)
sayAlone(q, word) ==
    LET s == round.stage
        next == FirstOf(After(s))
        kind == CASE word = "escalate" -> "escalated"
                  [] word = "approve" /\ (~Climbing(s) \/ isRouteEnd(s)) -> "approved"
                  [] word = "reject" /\ wordEnds(s, word) -> "rejected"
                  [] word = "approve" /\ Climbing(s) /\ ~isRouteEnd(s) -> "opinion-approved"
                  [] OTHER -> "opinion-rejected"
        said == trail \cup {Event(s, q, kind)}
    IN IF wordEnds(s, word)
       THEN completeInstance(IF word = "approve" THEN "approved" ELSE "rejected", said)
       ELSE IF word = "approve" /\ ~Climbing(s)
       THEN After(s) # {} /\ arrive(next, {}) /\ trail' = said
       ELSE climb(IF Climbing(s) THEN IndexOf(s) + 1 ELSE 1, said)

(* The sitting as the decision finds it: called if there was none, and     *)
(* rid of the members who have not spoken and no longer may.               *)
Rid(p, eligible) == [p EXCEPT !.seat = [q \in People |->
    IF p.votes[q] = "none" /\ q \notin eligible THEN 0 ELSE p.seat[q]]]
Reconciled ==
    Rid(IF panel = None THEN createPanel(round.stage, decision.called, seated + 1) ELSE panel,
        decision.eligible)

(* mutant of resolved: a split always goes up *)
ResolvedUpward(p) ==
    LET s == p.stage
        unanimous == \A v \in Voters(p) : p.votes[v] = "approve"
        said(kind) == trail \cup Ballots(p) \cup {Event(s, None, kind)}
    IN IF unanimous /\ isRouteEnd(s) THEN completeInstance("approved", said("approved"))
       ELSE climb(IndexOf(s) + 1, said(IF unanimous THEN "opinion-approved" ELSE "escalated"))
(* Every ballot is in.                                                     *)
resolved(p) ==
    LET s == p.stage
        unanimous == \A v \in Voters(p) : p.votes[v] = "approve"
        said(kind) == trail \cup Ballots(p) \cup {Event(s, None, kind)}
    IN CASE unanimous /\ isRouteEnd(s)  -> completeInstance("approved", said("approved"))
         [] ~unanimous /\ isRouteEnd(s) -> completeInstance("rejected", said("rejected"))
         [] unanimous /\ ~isRouteEnd(s) -> climb(IndexOf(s) + 1, said("opinion-approved"))
         [] OTHER                       -> climb(IndexOf(s) + 1, said("escalated"))

(* mutant of AllIn: half of the ballots are enough *)
HalfIn(p) == 2 * Cardinality(Voters(p)) >= p.size
AllIn(p) == Cardinality(Voters(p)) >= p.size

(* A ballot is cast on the seat that was the judge's when the seats were   *)
(* read, and on a chair still empty otherwise.                             *)
sayAtSitting(q, word) ==
    LET claims == ~decision.own
        now == IF panel = None \/ claims THEN seated + 1 ELSE seated
    IN \E found \in {Reconciled} :
       \E cast \in {[found EXCEPT !.votes[q] = word,
                                 !.seat[q] = IF claims THEN seated + 1 ELSE @]} :
       /\ decision.at = "read"
       /\ IF word = "escalate"
          THEN climb(IndexOf(round.stage) + 1,
                     trail \cup Ballots(found) \cup {Event(round.stage, q, "escalated")})
          ELSE /\ claims => Chairs(found) > 0
               /\ IF AllIn(cast)
                  THEN resolved(cast)
                  ELSE /\ panel' = cast /\ seated' = now
                       /\ UNCHANGED <<round, trail>>

say(q, word) ==
    /\ decision # None /\ decision.by = q /\ word \in decisionsAt(round.stage)
    /\ IF round.stage \in Panels THEN sayAtSitting(q, word) ELSE sayAlone(q, word)
    /\ decision' = None
    /\ UNCHANGED <<holders, frozen, ask, patrol, bounds>>

-----------------------------------------------------------------------------
(* Asking for more. *)

requestSupplement(q) ==
    /\ decision = None /\ round.state = "active" /\ mayActOn(q)
    /\ bounds.asks < Asks
    /\ round' = [round EXCEPT !.state = "awaiting_supplement"]
    /\ ask' = q
    /\ bounds' = [bounds EXCEPT !.asks = @ + 1]
    /\ UNCHANGED <<holders, frozen, trail, sitting, decision, patrol>>

cancelSupplement ==
    /\ decision = None /\ round.state = "awaiting_supplement" /\ mayActOn(ask)
    /\ round' = [round EXCEPT !.state = "active"]
    /\ ask' = None
    /\ UNCHANGED <<holders, frozen, trail, sitting, decision, patrol, bounds>>

(* A sitting that has begun to vote is dissolved, and called again from    *)
(* whoever is eligible once its ballots count for nothing.  Its rows stay, *)
(* for a patrol that has found it.                                         *)
answerSupplement ==
    /\ decision = None /\ round.state = "awaiting_supplement"
    /\ IF Voters(panel) # {}
       THEN /\ arrive(round.stage, Judged(trail, None))
            /\ patrol' = IF patrol.at \in {"seats", "free"} /\ patrol.left = None
                         THEN [patrol EXCEPT !.left = panel] ELSE patrol
       ELSE round' = [round EXCEPT !.state = "active"] /\ UNCHANGED <<sitting, patrol>>
    /\ ask' = None
    /\ UNCHANGED <<holders, frozen, trail, decision, bounds>>

(* mutant of cancelReviewInstance: the sitting is left open on a closed round *)
EndRoundOnly ==
    /\ decision = None /\ round.state # "completed"
    /\ round' = [round EXCEPT !.state = "completed", !.outcome = "cancelled"]
    /\ ask' = None
    /\ UNCHANGED <<holders, frozen, trail, sitting, decision, patrol, bounds>>
(* Taken back, returned, voided or re-routed: over everybody's head.       *)
cancelReviewInstance ==
    /\ decision = None /\ round.state # "completed"
    /\ round' = [round EXCEPT !.state = "completed", !.outcome = "cancelled"]
    /\ panel' = None /\ ask' = None
    /\ UNCHANGED <<holders, frozen, trail, seated, decision, patrol, bounds>>

-----------------------------------------------------------------------------
(* Who may review changes underneath: nothing on the round is told.        *)

appoint(s, q) ==
    /\ <<s, q>> \in Posts /\ bounds.changes < Changes /\ q \notin holders[s]
    /\ holders' = [holders EXCEPT ![s] = @ \cup {q}]
    /\ bounds' = [bounds EXCEPT !.changes = @ + 1]
    /\ UNCHANGED <<frozen, round, trail, sitting, decision, ask, patrol>>

dismiss(s, q) ==
    /\ <<s, q>> \in Posts /\ bounds.changes < Changes /\ q \in holders[s]
    /\ holders' = [holders EXCEPT ![s] = @ \ {q}]
    /\ bounds' = [bounds EXCEPT !.changes = @ + 1]
    /\ UNCHANGED <<frozen, round, trail, sitting, decision, ask, patrol>>

-----------------------------------------------------------------------------
(* The patrol.  What it reads may be old by the time it writes; a write to *)
(* the round's row waits for a decision that holds it.                     *)

patrolled == <<holders, frozen, trail, decision, ask, bounds>>

Seen(at) == [at |-> at, stage |-> round.stage, state |-> round.state, eligible |-> {},
             left |-> None, works |-> FALSE, vacancies |-> 0, doomed |-> {}]

(* mutant of look: a round at a step without a node is not looked at again *)
LookPlaced ==
    /\ patrol = Idle /\ round.state \in {"active", "blocked"} /\ round.placed
    /\ patrol' = Seen("ask")
    /\ UNCHANGED <<round, sitting, patrolled>>
(* The round as the list of the open ones shows it.                        *)
look ==
    /\ patrol = Idle /\ round.state \in {"active", "blocked"}
    /\ \/ round.placed
       \/ round.state = "blocked" /\ round.stage \in Nearest
    /\ patrol' = Seen(IF round.placed THEN "ask" ELSE "nearest")
    /\ UNCHANGED <<round, sitting, patrolled>>

(* At a step without a node it is asked again who is nearest.              *)
nearestRoleNode ==
    /\ patrol.at = "nearest"
    /\ patrol' = IF holders[patrol.stage] = {} THEN Idle ELSE [patrol EXCEPT !.at = "place"]
    /\ UNCHANGED <<round, sitting, patrolled>>

StillThere == round.stage = patrol.stage

place ==
    /\ patrol.at = "place" /\ decision = None
    /\ IF StillThere /\ round.state \in {"active", "blocked"}
       THEN /\ round' = [round EXCEPT !.placed = TRUE, !.state = "blocked"]
            /\ patrol' = [patrol EXCEPT !.at = "ask"]
       ELSE UNCHANGED round /\ patrol' = Idle
    /\ UNCHANGED <<sitting, patrolled>>

(* What the patrol found asks of the round's state; when that is what the  *)
(* round was, and no seat has to be given up, it is done.                  *)
actionable(found) == found.works \/ found.vacancies > 0
StateFor(found) == IF actionable(found) THEN "active" ELSE "blocked"
Concluded(found) ==
    IF found.doomed = {} /\ StateFor(found) = found.state THEN Idle ELSE found
WithoutSitting(eligible) ==
    Concluded([patrol EXCEPT !.at = "free", !.eligible = {}, !.works = eligible # {}])

(* Who could act.  At the step of a single judge that is all there is.     *)
reviewersAt ==
    /\ patrol.at = "ask"
    /\ \E eligible \in {Independent(patrol.stage, Judged(trail, panel))} :
         patrol' = IF patrol.stage \in Panels
                   THEN [patrol EXCEPT !.at = "sitting", !.eligible = eligible]
                   ELSE WithoutSitting(eligible)
    /\ UNCHANGED <<round, sitting, patrolled>>

(* Whether a sitting is open there.                                        *)
openPanelOf ==
    /\ patrol.at = "sitting"
    /\ patrol' = IF panel # None /\ panel.stage = patrol.stage
                 THEN [patrol EXCEPT !.at = "seats"] ELSE WithoutSitting(patrol.eligible)
    /\ UNCHANGED <<round, sitting, patrolled>>

(* The sitting the patrol found, as it is or as it was when it was         *)
(* dissolved.  One that ended otherwise took the round with it, and no     *)
(* more is written of either.                                              *)
FoundSitting ==
    LET p == IF patrol.left = None THEN panel ELSE patrol.left
    IN IF p # None /\ p.stage = patrol.stage THEN p ELSE None

(* Its seats, and which of them have to be given up.  It can go on if a    *)
(* member may still vote, or somebody fill an empty chair.                 *)
livePanelSeats ==
    /\ patrol.at = "seats"
    /\ \E p \in {FoundSitting} :
         LET waiting == {q \in People : Seated(p, q) /\ p.votes[q] = "none"}
             lost == waiting \ patrol.eligible
             fillable == \E q \in patrol.eligible : ~Seated(p, q)
             vacancies == IF fillable THEN Chairs(p) + Cardinality(lost) ELSE 0
         IN patrol' = IF p = None THEN WithoutSitting({}) ELSE
              Concluded([patrol EXCEPT !.at = "free", !.eligible = {},
                                       !.works = waiting \cap patrol.eligible # {},
                                       !.vacancies = vacancies,
                                       !.doomed = {<<q, p.seat[q]>> : q \in lost}])
    /\ UNCHANGED <<round, sitting, patrolled>>

(* A decision is giving the same seat up, and has not committed.           *)
BeingGivenUp(q) ==
    /\ decision # None /\ decision.at = "read" /\ q \notin decision.eligible
    /\ patrol.left = None

(* A seat is given up if nobody's vote can be seen on it: one that a       *)
(* decision is casting cannot.                                             *)
endPanelAssignment ==
    /\ patrol.at = "free"
    /\ \E seat \in patrol.doomed : \E p \in {FoundSitting} :
         LET q == seat[1]
             holds == p # None /\ p.seat[q] = seat[2] /\ p.votes[q] = "none"
         IN /\ holds => ~BeingGivenUp(q)
            /\ panel' = IF holds /\ patrol.left = None
                        THEN [panel EXCEPT !.seat[q] = 0] ELSE panel
            /\ patrol' = Concluded([patrol EXCEPT
                   !.doomed = @ \ {seat},
                   !.vacancies = IF holds \/ @ = 0 THEN @ ELSE @ - 1])
    /\ UNCHANGED <<round, seated, patrolled>>

(* mutant of moveRound: written by the state alone, wherever the round is *)
MoveAnyRound ==
    /\ patrol.at = "free" /\ patrol.doomed = {} /\ decision = None
    /\ round' = [round EXCEPT !.state = StateFor(patrol)]
    /\ patrol' = Idle
    /\ UNCHANGED <<sitting, patrolled>>
(* The state follows, if the round is still where and what it was.         *)
moveRound ==
    /\ patrol.at = "free" /\ patrol.doomed = {} /\ decision = None
    /\ round' = IF round.state = patrol.state /\ StillThere
                THEN [round EXCEPT !.state = StateFor(patrol)] ELSE round
    /\ patrol' = Idle
    /\ UNCHANGED <<sitting, patrolled>>

PatrolStep ==
    \/ look \/ nearestRoleNode \/ place
    \/ reviewersAt \/ openPanelOf \/ livePanelSeats \/ endPanelAssignment
    \/ moveRound

-----------------------------------------------------------------------------
Next ==
    \/ \E q \in People :
         \/ takeUp(q) \/ requestSupplement(q)
         \/ \E word \in {"approve", "reject", "escalate"} : say(q, word)
         \/ \E s \in Steps : appoint(s, q) \/ dismiss(s, q)
    \/ findSitting \/ reviewersAtStage \/ letGo
    \/ cancelSupplement \/ answerSupplement \/ cancelReviewInstance
    \/ PatrolStep

(* A transaction ends, and the patrol repeats: it waits for a row lock in  *)
(* a queue, so it gets the lock however many decisions take it in turn.    *)
Fairness ==
    /\ WF_vars(letGo)
    /\ SF_vars(PatrolStep)

Spec == Init /\ [][Next]_vars /\ Fairness

-----------------------------------------------------------------------------
(* Every variable is of its type; a closed round and no other has an       *)
(* outcome; a sitting has no more members than chairs, none of them on a   *)
(* seat that was never made.                                               *)
TypeOK ==
    /\ holders \in [Steps -> SUBSET People]
    /\ frozen.absent \subseteq Steps \ Nearest /\ frozen.vacant \subseteq Nearest
    /\ round \in [state : {"active", "blocked", "awaiting_supplement", "completed"},
                  stage : Steps, placed : BOOLEAN,
                  outcome : {None, "approved", "rejected", "cancelled"}]
    /\ (round.state = "completed") = (round.outcome # None)
    /\ trail \subseteq [stage : Steps, who : People \cup {None},
                        word : Judging \cup {"stage-skipped"}]
    /\ panel # None =>
         /\ panel \in PanelRow
         /\ \A q \in People : panel.seat[q] <= seated
         /\ Chairs(panel) \in 0 .. panel.size
    /\ decision # None => decision.by \in People
    /\ ask \in People \cup {None} /\ seated \in Nat

(* One sitting at most is open, at the step the round stands at and only   *)
(* while the round does, and it waits for a ballot yet: whoever withdraws, *)
(* answers, dismisses or climbs leaves no sitting behind that would go on  *)
(* admitting voters to nothing (entry/db.ts:1324).                         *)
OneSitting == panel # None =>
    /\ round.state # "completed" /\ panel.stage = round.stage
    /\ Cardinality(Voters(panel)) < panel.size

(* Nobody judges again, by a word or by a ballot that counts, a round that *)
(* has left the ordinary route: not at a later step, not by taking a chair *)
(* at a sitting, not by voting and then handing the matter up             *)
(* (review/db.ts:151, independentAt).                                      *)
WordsOf(q) == {e \in trail : e.who = q /\ e.word \in Judging}
NobodyJudgesTwice == \A q \in People :
    LET climbed == {e \in WordsOf(q) : Climbing(e.stage)}
        voted == q \in Voters(panel)
    IN /\ Cardinality(climbed) + (IF voted THEN 1 ELSE 0) <= 1
       /\ climbed # {} \/ voted => climbed = WordsOf(q)

(* A round's history accounts for every step behind it: none that resolved *)
(* was passed without somebody's word or a record that everybody there was *)
(* in conflict, and a yes stands on every confirmation of the ordinary     *)
(* route, or on the word of the last step of the other.                    *)
SpokenAt(s) == \E e \in trail : e.stage = s
Behind(s) == EnterableFrom(RouteOf(s), 1) \ (After(s) \cup {s})
EveryStepAnswers ==
    /\ \A s \in Behind(round.stage) : SpokenAt(s)
    /\ round.outcome = "approved" =>
         /\ isRouteEnd(round.stage)
         /\ \E e \in trail : e.stage = round.stage /\ e.word = "approved"
         /\ ~\E e \in trail : e.stage = round.stage /\ e.word \in {"no", "rejected"}
         /\ ~Climbing(round.stage) => \A s \in EnterableFrom(Normal, 1) :
              \E e \in trail : e.stage = s /\ e.word = "approved"

(* A decision has read what it is going to read.                           *)
Settled ==
    \/ round.stage \notin Panels
    \/ decision.at = "read"
    \/ decision.at = "seats" /\ panel = None /\ decision.called = {}

(* A round that shows as active is one its judges can move: whoever has    *)
(* the standing to act on it, and has it still, has a yes and a no the     *)
(* decision accepts, and the queue never shows what the decision refuses   *)
(* (review/db.ts:312).                                                     *)
JudgeIsHeard ==
    decision # None /\ round.state = "active" /\ Settled /\ mayActOn(decision.by) =>
        \A word \in {"approve", "reject"} : ENABLED say(decision.by, word)

(* What a decision still finds out after it has taken the round up: nobody *)
(* to call the sitting from, or no chair for somebody without a seat.      *)
Refused ==
    /\ round.stage \in Panels
    /\ \/ panel = None /\ decision.called = {}
       \/ ~decision.own /\ ~(Chairs(Reconciled) > 0)

(* Nothing but that refuses a yes or a no to whoever holds an active round:*)
(* every word has somewhere to go, up the route or to an end, whatever     *)
(* levels are missing and however the ballots fall.                        *)
OnlyChairsRefuse == decision # None /\ round.state = "active" /\ Settled =>
    \A word \in {"approve", "reject"} : (ENABLED say(decision.by, word)) = ~Refused

(* And it refuses nobody who was let in while a sitting is open: seats are *)
(* given up between his being let in and his word, by the decision and by  *)
(* the patrol, he may be dismissed and somebody appointed, but there is a  *)
(* chair for him (review/service.ts:2097-2142).  Where none is open he is  *)
(* refused only if he is not among those the sitting is then called from   *)
(* (service.ts:2077): he was dismissed after he was let in, or the step    *)
(* had no unit when the round opened.                                      *)
ChairIsKept == decision # None /\ Settled =>
    ~Refused \/ (panel = None /\ decision.by \notin decision.called)

(* A sitting that ends by its ballots has heard every member still seated  *)
(* (review/service.ts:2128), unless the patrol gave up a seat while its    *)
(* member's ballot was being cast, which leaves a ballot without a seat.   *)
BallotConcludes == \E e \in trail' \ trail :
    decision # None /\ e.who = decision.by /\ e.word \in {"yes", "no"}
HeardEverySeat == [][
    BallotConcludes =>
        LET found == Reconciled
            spoken == Voters(panel) \cup {decision.by}
        IN \/ \A q \in People : Seated(found, q) => q \in spoken
           \/ \E q \in spoken : ~Seated(found, q) /\ (q = decision.by => decision.own)
    ]_vars

(* Somebody can act on the round as it stands, or could if the patrol      *)
(* found the unit of a step that had none.                                 *)
Workable ==
    \/ \E q \in People : mayActOn(q)
    \/ ~round.placed /\ round.stage \in Nearest
       /\ Independent(round.stage, Judged(trail, panel)) # {}
Untrue == \/ round.state = "blocked" /\ Workable
          \/ round.state = "active" /\ ~Workable
(* Appoint somebody and the stuck rounds wake by themselves, dismiss the   *)
(* last and the rounds say so (server/index.ts:6241): a state that is not  *)
(* true to the staffing does not stay so.                                  *)
StateFollowsStaffing == Untrue ~> ~Untrue

(* The round keeps what ReviewWalk promises.                               *)
Numbers == [s \in Steps |-> IF Climbing(s) THEN Len(Normal) + IndexOf(s) ELSE IndexOf(s)]
Number(s) == Numbers[s]
Walk == INSTANCE ReviewWalk WITH
    Final <- Len(Normal) + Len(Escalation),
    Turn <- Len(Normal),
    places <- {Number(s) : s \in {t \in Steps : Enterable(t)}},
    at <- Number(round.stage),
    outcome <- round.outcome
WalkKept == Walk!WSpec

(* Somebody has worked on the round: a word of a judge, a ballot, dissolved*)
(* since or not, a request for more (WORK_KINDS, review/db.ts:603).        *)
Worked ==
    \/ \E e \in trail : e.word \in Judging
    \/ Voters(panel) # {}
    \/ bounds.asks # 0

(* And what RoundLife promises: a verdict only on a round that is active,  *)
(* one open request at a time and only while the round waits, and work that*)
(* once done stays done - which is what Claim lets a round do.             *)
Life == INSTANCE RoundLife WITH
    state <- round.state,
    outcome <- IF round.outcome = "cancelled" THEN "ended" ELSE round.outcome,
    fresh <- round.state # "completed" /\ ~Worked,
    asked <- ask # None
LifeKept == Life!LSpec
=============================================================================
