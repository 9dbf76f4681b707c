------------------------- MODULE ReviewRoundProofs -------------------------
(***************************************************************************)
(* What is true of a review round whatever its routes, its people and      *)
(* whoever comes and goes while it is open.                                *)
(***************************************************************************)
EXTENDS ReviewRound, FiniteSetTheorems, WellFoundedInduction, TLAPS

-----------------------------------------------------------------------------
(***************************************************************************)
(* Lemmas about the routes.                                                *)
(***************************************************************************)

Routes == {Normal, Escalation}

(* A step is on one of the routes, at its index.                           *)
LEMMA OnItsRoute ==
    ASSUME NEW s \in Steps
    PROVE  /\ RouteOf(s) \in Routes /\ IndexOf(s) \in DOMAIN RouteOf(s)
           /\ RouteOf(s)[IndexOf(s)] = s
           /\ IndexOf(s) \in 1 .. Len(RouteOf(s)) /\ Len(RouteOf(s)) \in Nat
           /\ IndexOf(s) \in Nat
<1>1. RouteOf(s) \in Routes /\ s \in Range(RouteOf(s))
  BY DEF Steps, RouteOf, Routes
<1>2. RouteOf(s) \in Seq(Steps)
  BY <1>1, RoundConstants DEF Routes
<1>3. \E i \in DOMAIN RouteOf(s) : RouteOf(s)[i] = s
  BY <1>1 DEF Range
<1>4. IndexOf(s) \in DOMAIN RouteOf(s) /\ RouteOf(s)[IndexOf(s)] = s
  BY <1>3 DEF IndexOf, Indexes
<1>5. Len(RouteOf(s)) \in Nat /\ DOMAIN RouteOf(s) = 1 .. Len(RouteOf(s))
  BY <1>2
<1> QED
  BY <1>1, <1>4, <1>5

(* A step climbs if it is on the escalation route.                         *)
LEMMA ClimbingIs ==
    ASSUME NEW s \in Steps
    PROVE  /\ Climbing(s) <=> s \in Range(Escalation)
           /\ ~Climbing(s) <=> s \in Range(Normal)
           /\ ~Climbing(s) => RouteOf(s) = Normal
BY RoundConstants DEF Climbing, RouteOf, Steps

(* What stands on a route knows the route and the place.                   *)
LEMMA PlaceOf ==
    ASSUME NEW route \in Routes, NEW i \in DOMAIN route
    PROVE  route[i] \in Steps /\ RouteOf(route[i]) = route /\ IndexOf(route[i]) = i
<1>1. route[i] \in Range(route) /\ route[i] \in Steps
  BY DEF Range, Routes, Steps
<1>2. RouteOf(route[i]) = route
  BY <1>1, RoundConstants DEF Routes, RouteOf
<1>3. route[IndexOf(route[i])] = route[i] /\ IndexOf(route[i]) \in DOMAIN route
  BY <1>1, <1>2, OnItsRoute
<1>4. IndexOf(route[i]) = i
  BY <1>3, RoundConstants DEF IsInjective, Routes
<1> QED
  BY <1>1, <1>2, <1>4

(* The steps of a route from an index on that may be entered.              *)
LEMMA EnterableIs ==
    ASSUME NEW route \in Routes, NEW from \in Nat, NEW s
    PROVE  s \in EnterableFrom(route, from) <=>
               s \in Steps /\ RouteOf(s) = route /\ IndexOf(s) >= from /\ Enterable(s)
<1>1. ASSUME s \in EnterableFrom(route, from)
      PROVE  s \in Steps /\ RouteOf(s) = route /\ IndexOf(s) >= from /\ Enterable(s)
  <2>1. PICK i \in DOMAIN route : i >= from /\ Enterable(route[i]) /\ s = route[i]
    BY <1>1 DEF EnterableFrom
  <2> QED
    BY <2>1, PlaceOf
<1>2. ASSUME s \in Steps, RouteOf(s) = route, IndexOf(s) >= from, Enterable(s)
      PROVE  s \in EnterableFrom(route, from)
  <2>1. IndexOf(s) \in DOMAIN route /\ route[IndexOf(s)] = s
    BY <1>2, OnItsRoute
  <2> QED
    BY <1>2, <2>1 DEF EnterableFrom
<1> QED
  BY <1>1, <1>2

(* Of some steps there is a first, and a last if they are of one route.    *)
LEMMA FirstOfIs ==
    ASSUME NEW S \in SUBSET Steps, S # {}
    PROVE  FirstOf(S) \in S /\ \A t \in S : IndexOf(FirstOf(S)) <= IndexOf(t)
<1> DEFINE Places == {IndexOf(s) : s \in S}
<1>1. Places \in SUBSET Nat /\ Places # {}
  BY OnItsRoute
<1>2. PICK m \in Places : \A n \in Places : ~(<<n, m>> \in OpToRel(<, Nat))
  <2> HIDE DEF Places
  <2> QED
    BY <1>1, NatLessThanWellFounded, WFMin
<1>3. \A n \in Places : m <= n
  <2>1. \A n \in Places : n \in Nat /\ m \in Nat
    BY <1>1, <1>2
  <2> HIDE DEF Places
  <2>2. \A n \in Places : ~(n < m)
    BY <1>2, <2>1 DEF OpToRel
  <2> QED
    BY <2>1, <2>2
<1>4. PICK s \in S : m = IndexOf(s)
  BY <1>2
<1>5. \A t \in S : IndexOf(s) <= IndexOf(t)
  BY <1>3, <1>4
<1> QED
  BY <1>5 DEF FirstOf

(* A route with steps left has a last one.                                 *)
LEMMA LastOf ==
    ASSUME NEW route \in Routes, NEW from \in Nat, EnterableFrom(route, from) # {}
    PROVE  \E s \in EnterableFrom(route, from) :
              \A t \in EnterableFrom(route, from) : IndexOf(t) <= IndexOf(s)
<1> DEFINE S == EnterableFrom(route, from)
           Rest == {Len(route) - IndexOf(s) : s \in S}
<1>1. \A s \in S : IndexOf(s) \in Nat /\ Len(route) \in Nat /\ IndexOf(s) <= Len(route)
  BY EnterableIs, OnItsRoute
<1>2. Rest \in SUBSET Nat /\ Rest # {}
  BY <1>1
<1>3. PICK m \in Rest : \A n \in Rest : ~(<<n, m>> \in OpToRel(<, Nat))
  <2> HIDE DEF Rest
  <2> QED
    BY <1>2, NatLessThanWellFounded, WFMin
<1>4. \A n \in Rest : m <= n
  <2>1. \A n \in Rest : n \in Nat /\ m \in Nat
    BY <1>2, <1>3
  <2> HIDE DEF Rest
  <2>2. \A n \in Rest : ~(n < m)
    BY <1>3, <2>1 DEF OpToRel
  <2> QED
    BY <2>1, <2>2
<1>5. PICK s \in S : m = Len(route) - IndexOf(s)
  BY <1>3
<1>6. \A t \in S : IndexOf(t) <= IndexOf(s)
  <2> TAKE t \in S
  <2>1. m <= Len(route) - IndexOf(t)
    BY <1>4
  <2> HIDE DEF S
  <2> QED
    BY <1>1, <1>5, <2>1
<1> QED
  BY <1>6

(* What comes after a step, and what came before.                          *)
LEMMA AfterIs ==
    ASSUME NEW s \in Steps, NEW t
    PROVE  /\ t \in After(s) <=> /\ t \in Steps /\ RouteOf(t) = RouteOf(s)
                                 /\ IndexOf(t) > IndexOf(s) /\ Enterable(t)
           /\ Enterable(s) => (t \in Behind(s) <=> /\ t \in Steps /\ RouteOf(t) = RouteOf(s)
                                                   /\ IndexOf(t) < IndexOf(s) /\ Enterable(t))
<1>1. IndexOf(s) \in Nat /\ IndexOf(s) + 1 \in Nat /\ IndexOf(s) >= 1 /\ RouteOf(s) \in Routes
  BY OnItsRoute
<1>2. t \in After(s) <=> /\ t \in Steps /\ RouteOf(t) = RouteOf(s)
                         /\ IndexOf(t) >= IndexOf(s) + 1 /\ Enterable(t)
  BY <1>1, EnterableIs DEF After
<1>3. t \in EnterableFrom(RouteOf(s), 1) <=> t \in Steps /\ RouteOf(t) = RouteOf(s) /\ Enterable(t)
  BY <1>1, EnterableIs, OnItsRoute
<1>4. t \in Steps => IndexOf(t) \in Nat
  BY OnItsRoute
<1>5. t \in Steps /\ RouteOf(t) = RouteOf(s) /\ IndexOf(t) = IndexOf(s) => t = s
  BY OnItsRoute
<1> QED
  BY <1>1, <1>2, <1>3, <1>4, <1>5 DEF Behind

(* The first step after one is the next: nothing lies between.             *)
LEMMA NextStep ==
    ASSUME NEW s \in Steps, Enterable(s), After(s) # {}
    PROVE  /\ FirstOf(After(s)) \in After(s)
           /\ \A t \in Behind(FirstOf(After(s))) : t = s \/ t \in Behind(s)
<1>1. After(s) \in SUBSET Steps
  BY AfterIs
<1>2. PICK n : n = FirstOf(After(s))
  OBVIOUS
<1>3. n \in After(s) /\ \A t \in After(s) : IndexOf(n) <= IndexOf(t)
  BY <1>1, <1>2, FirstOfIs
<1>4. n \in Steps /\ Enterable(n) /\ RouteOf(n) = RouteOf(s)
  BY <1>3, AfterIs
<1>5. ASSUME NEW t \in Behind(n)
      PROVE  t = s \/ t \in Behind(s)
  <2>1. /\ t \in Steps /\ RouteOf(t) = RouteOf(s) /\ IndexOf(t) < IndexOf(n) /\ Enterable(t)
    BY <1>4, <1>5, AfterIs
  <2>2. IndexOf(t) \in Nat /\ IndexOf(s) \in Nat /\ IndexOf(n) \in Nat
    BY <1>4, <2>1, OnItsRoute
  <2>3. t \notin After(s)
    BY <1>3, <2>1, <2>2
  <2>4. IndexOf(t) <= IndexOf(s)
    BY <2>1, <2>2, <2>3, AfterIs
  <2>5. IndexOf(t) = IndexOf(s) => t = s
    BY <2>1, OnItsRoute
  <2> QED
    BY <2>1, <2>2, <2>4, <2>5, AfterIs
<1> QED
  BY <1>2, <1>3, <1>5

(* There is somewhere to land as long as there is anywhere to climb to.    *)
LEMMA LandingIs ==
    ASSUME NEW from \in Nat, NEW judged, EnterableFrom(Escalation, from) # {}
    PROVE  Landing(from, judged) \in EnterableFrom(Escalation, from)
<1> DEFINE S == EnterableFrom(Escalation, from)
           L == {s \in S : ~Conflicted(s, judged) \/ isRouteEnd(s)}
<1>0. Escalation \in Routes
  BY DEF Routes
<1>1. PICK s \in S : \A t \in S : IndexOf(t) <= IndexOf(s)
  BY <1>0, LastOf
<1>2. s \in Steps /\ RouteOf(s) = Escalation /\ IndexOf(s) >= from
  BY <1>0, EnterableIs
<1>3. ASSUME NEW t \in After(s)
      PROVE  FALSE
  <2>1. /\ t \in Steps /\ RouteOf(t) = Escalation /\ IndexOf(t) > IndexOf(s) /\ Enterable(t)
    BY <1>2, <1>3, AfterIs
  <2>2. IndexOf(t) \in Nat /\ IndexOf(s) \in Nat
    BY <1>2, <2>1, OnItsRoute
  <2>3. t \in S
    BY <1>0, <1>2, <2>1, <2>2, EnterableIs
  <2> QED
    BY <1>1, <2>1, <2>2, <2>3
<1>4. s \in L
  BY <1>3 DEF isRouteEnd
<1>5. L \in SUBSET Steps
  BY <1>0, EnterableIs
<1>6. FirstOf(L) \in L
  BY <1>4, <1>5, FirstOfIs
<1> QED
  BY <1>6 DEF Landing

(* The steps are numbered along the one route and then along the other.    *)
LEMMA NumberIs ==
    ASSUME NEW s \in Steps
    PROVE  /\ Number(s) \in 1 .. Len(Normal) + Len(Escalation)
           /\ Climbing(s) <=> Number(s) > Len(Normal)
           /\ Number(s) = IF Climbing(s) THEN Len(Normal) + IndexOf(s) ELSE IndexOf(s)
           /\ Len(Normal) \in Nat /\ Len(Escalation) \in Nat /\ Number(s) \in Nat
<1>1. Len(Normal) \in Nat /\ Len(Escalation) \in Nat
  BY RoundConstants
<1>2. CASE Climbing(s)
  <2>1. IndexOf(s) \in 1 .. Len(Escalation)
    BY <1>2, OnItsRoute DEF Climbing
  <2> QED
    BY <1>1, <1>2, <2>1 DEF Number, Numbers
<1>3. CASE ~Climbing(s)
  <2>1. IndexOf(s) \in 1 .. Len(Normal)
    BY <1>3, OnItsRoute, ClimbingIs
  <2> QED
    BY <1>1, <1>3, <2>1 DEF Number, Numbers
<1> QED
  BY <1>2, <1>3

(* Later on the route is later in number, and a number is one step's.      *)
LEMMA NumberOrder ==
    ASSUME NEW s \in Steps, NEW t \in Steps
    PROVE  /\ RouteOf(s) = RouteOf(t) => (Number(s) < Number(t) <=> IndexOf(s) < IndexOf(t))
           /\ ~Climbing(s) /\ Climbing(t) => Number(s) < Number(t)
           /\ Number(s) = Number(t) => s = t
<1>1. /\ Number(s) \in Nat /\ Number(t) \in Nat /\ IndexOf(s) \in Nat /\ IndexOf(t) \in Nat
      /\ Len(Normal) \in Nat
  BY NumberIs, OnItsRoute
<1>2. RouteOf(s) = RouteOf(t) => (Climbing(s) <=> Climbing(t))
  BY DEF Climbing
<1>3. RouteOf(s) = RouteOf(t) => (Number(s) < Number(t) <=> IndexOf(s) < IndexOf(t))
  BY <1>1, <1>2, NumberIs
<1>4. ~Climbing(s) /\ Climbing(t) => Number(s) < Number(t)
  BY <1>1, NumberIs
<1>5. ASSUME Number(s) = Number(t) PROVE s = t
  <2>1. Climbing(s) <=> Climbing(t)
    BY <1>5, NumberIs
  <2>2. RouteOf(s) = RouteOf(t)
    BY <2>1, ClimbingIs DEF Climbing
  <2>3. IndexOf(s) = IndexOf(t)
    BY <1>1, <1>5, <2>1, NumberIs
  <2> QED
    BY <2>2, <2>3, OnItsRoute
<1> QED
  BY <1>3, <1>4, <1>5

(* A sitting is only called above the ordinary route.                      *)
LEMMA PanelsClimb ==
    ASSUME NEW s \in Panels
    PROVE  s \in Steps /\ Climbing(s)
<1>1. s \in Range(Front(Escalation)) /\ Escalation \in Seq(Steps)
  BY RoundConstants
<1>2. \A i \in DOMAIN Front(Escalation) : i \in DOMAIN Escalation /\ Front(Escalation)[i] = Escalation[i]
  BY <1>1 DEF Front
<1>3. s \in Range(Escalation)
  BY <1>1, <1>2 DEF Range
<1>4. s \in Steps
  BY <1>3 DEF Steps
<1> QED
  BY <1>3, <1>4, ClimbingIs

-----------------------------------------------------------------------------
(***************************************************************************)
(* The types of the rows, and the lemmas about sittings.                   *)
(***************************************************************************)

RoundRow == [state : {"active", "blocked", "awaiting_supplement", "completed"},
             stage : Steps, placed : BOOLEAN,
             outcome : {None, "approved", "rejected", "cancelled"}]
EventRow == [stage : Steps, who : People \cup {None}, word : Judging \cup {"stage-skipped"}]
DecisionRow == [at : {"letIn", "seats", "read"}, by : People, called : SUBSET People,
                own : BOOLEAN, eligible : SUBSET People]
Looks == [at : {"nearest", "place", "ask", "sitting", "seats", "free"}, stage : Steps,
          state : {"active", "blocked"}, eligible : SUBSET People,
          left : PanelRow \cup {None}, works : BOOLEAN, vacancies : Int,
          doomed : SUBSET (People \X Nat)]

(* Of n seats ever made, this sitting has no more than its chairs.         *)
Fits(p, n) ==
    /\ \A q \in People : p.seat[q] <= n
    /\ Cardinality({q \in People : Seated(p, q)}) <= p.size

Typed ==
    /\ holders \in [Steps -> SUBSET People]
    /\ frozen \in [absent : SUBSET (Steps \ Nearest), vacant : SUBSET Nearest]
    /\ round \in RoundRow /\ (round.state = "completed" <=> round.outcome # None)
    /\ trail \in SUBSET EventRow
    /\ panel # None => panel \in PanelRow /\ Fits(panel, seated)
    /\ decision # None => decision \in DecisionRow
    /\ patrol \in {Idle} \cup Looks
    /\ ask \in People \cup {None} /\ seated \in Nat

(* Everybody at a sitting is somebody, and people are finitely many.       *)
LEMMA PeopleFinite ==
    ASSUME NEW S \in SUBSET People
    PROVE  IsFiniteSet(S) /\ Cardinality(S) \in Nat /\ Cardinality(S) <= Cardinality(People)
           /\ Cardinality(People) \in Nat /\ (S # {} => Cardinality(S) >= 1)
<1>1. IsFiniteSet(People) /\ IsFiniteSet(S) /\ Cardinality(S) <= Cardinality(People)
  BY RoundConstants, FS_Subset
<1>2. Cardinality(S) \in Nat /\ Cardinality(People) \in Nat
  BY <1>1, FS_CardinalityType
<1>3. S # {} => Cardinality(S) # 0
  BY <1>1, FS_EmptySet
<1> QED
  BY <1>1, <1>2, <1>3

(* What a sitting fits bounds its chairs and ballots.                      *)
LEMMA TypedIsTypeOK == Typed => TypeOK
<1> SUFFICES ASSUME Typed PROVE TypeOK
  OBVIOUS
<1>1. ASSUME panel # None PROVE Chairs(panel) \in 0 .. panel.size
  <2>1. /\ panel \in PanelRow
        /\ Cardinality({q \in People : Seated(panel, q)}) <= panel.size
    BY <1>1 DEF Typed, Fits
  <2>2. panel.size \in Nat /\ Cardinality({q \in People : Seated(panel, q)}) \in Nat
    BY <2>1, PeopleFinite DEF PanelRow
  <2> QED
    BY <2>1, <2>2 DEF Chairs
<1>2. ASSUME panel # None
      PROVE  panel \in PanelRow /\ \A q \in People : panel.seat[q] <= seated
  BY <1>2 DEF Typed, Fits
<1>3. decision # None => decision.by \in People
  BY DEF Typed, DecisionRow
<1> QED
  BY <1>1, <1>2, <1>3 DEF Typed, TypeOK, RoundRow, EventRow

(* A sitting just called seats those it is called from and has heard       *)
(* nobody.                                                                 *)
Called(p, s, members, n) ==
    /\ p \in PanelRow /\ p.stage = s /\ Fits(p, n)
    /\ \A q \in People : p.votes[q] = "none"
    /\ \A q \in People : Seated(p, q) <=> q \in members
    /\ p.size = Cardinality(members) /\ Voters(p) = {}

(* A sitting called seats whom it was called from, and nobody has voted.   *)
LEMMA PanelCalled ==
    ASSUME NEW s \in Panels, NEW members \in SUBSET People, members # {},
           NEW n \in Nat, n # 0
    PROVE  Called(createPanel(s, members, n), s, members, n)
<1>1. PICK p : p = createPanel(s, members, n)
  OBVIOUS
<1>2. Cardinality(members) \in 1 .. Cardinality(People)
  BY PeopleFinite
<1>3. /\ p.stage = s /\ p.size = Cardinality(members)
      /\ p.seat = [q \in People |-> IF q \in members THEN n ELSE 0]
      /\ p.votes = [q \in People |-> "none"]
  BY <1>1 DEF createPanel
<1>4. p \in PanelRow
  BY <1>1, <1>2 DEF createPanel, PanelRow
<1>5. \A q \in People : Seated(p, q) <=> q \in members
  BY <1>3 DEF Seated
<1>6. {q \in People : Seated(p, q)} = members
  BY <1>5
<1>7. Fits(p, n)
  BY <1>2, <1>3, <1>6 DEF Fits
<1>8. Voters(p) = {}
  BY <1>3 DEF Voters
<1> QED
  BY <1>1, <1>3, <1>4, <1>5, <1>7, <1>8 DEF Called

(* Whoever votes is somebody.                                              *)
LEMMA VotersOf ==
    ASSUME NEW p
    PROVE  Voters(p) \in SUBSET People
BY DEF Voters

(* A round that has come to a step stands there, undecided, and the        *)
(* sitting called for it has heard nobody.                                 *)
Arrived(s) ==
    /\ round' \in RoundRow /\ round'.stage = s /\ round'.outcome = None
    /\ round'.state \in {"active", "blocked"}
    /\ seated' \in Nat /\ Voters(panel)' = {}
    /\ panel' # None => /\ panel' \in PanelRow /\ panel'.stage = s /\ Fits(panel', seated')
                        /\ Cardinality(Voters(panel')) < panel'.size

(* Where a round arrives, it stands with a fresh sitting or none.          *)
LEMMA ArriveIs ==
    ASSUME Typed, NEW s \in Steps, NEW judged, arrive(s, judged)
    PROVE  Arrived(s)
<1>1. PICK eligible : eligible = Eligible(s, judged)
  OBVIOUS
<1>2. eligible \in SUBSET People
  BY <1>1 DEF Typed, Eligible, Independent
<1>3. /\ round' = Standing(s, IF eligible = {} THEN "blocked" ELSE "active")
      /\ panel' = IF eligible # {} /\ s \in Panels THEN createPanel(s, eligible, seated + 1) ELSE None
      /\ seated' = IF eligible # {} /\ s \in Panels THEN seated + 1 ELSE seated
  BY <1>1 DEF arrive
<1>4. /\ round' \in RoundRow /\ round'.stage = s /\ round'.outcome = None
      /\ round'.state \in {"active", "blocked"}
  BY <1>3 DEF Standing, RoundRow
<1>5. CASE eligible # {} /\ s \in Panels
  <2>1. seated \in Nat /\ seated' = seated + 1
    BY <1>3, <1>5 DEF Typed
  <2>2. PICK n \in Nat \ {0} : n = seated + 1
    BY <2>1
  <2>3. PICK p : p = createPanel(s, eligible, n)
    OBVIOUS
  <2>4. /\ p \in PanelRow /\ p.stage = s /\ Fits(p, n) /\ Voters(p) = {}
    BY <1>2, <1>5, <2>3, PanelCalled DEF Called
  <2>5. panel' = p /\ seated' = n /\ Voters(panel)' = Voters(p)
    BY <1>3, <1>5, <2>1, <2>2, <2>3 DEF Voters
  <2>6. Cardinality(Voters(p)) < p.size
    BY <2>4, FS_EmptySet DEF PanelRow
  <2>7. seated' \in Nat
    BY <2>1
  <2> QED
    BY <1>4, <2>4, <2>5, <2>6, <2>7 DEF Arrived, Voters
<1>6. CASE ~(eligible # {} /\ s \in Panels)
  <2>1. panel' = None /\ seated' = seated
    BY <1>3, <1>6
  <2> QED
    BY <1>4, <2>1 DEF Arrived, Voters, Typed
<1> QED
  BY <1>5, <1>6

-----------------------------------------------------------------------------
(***************************************************************************)
(* What a decision may come to.                                            *)
(***************************************************************************)

(* One sitting at most is open, where the round stands, and it waits for a *)
(* ballot (OneSitting); whoever decides has the lock of an open round, has *)
(* not judged it before if it climbs, and has somebody to call the sitting *)
(* from, if he is to call it.                                              *)
Deciding == decision # None =>
    /\ round.state \in {"active", "blocked"}
    /\ Climbing(round.stage) => decision.by \notin Judged(trail, panel)
    /\ decision.at = "read" /\ panel = None => decision.called # {}

(* The round climbs from a step: it stands at another one further up, and  *)
(* what it was carried over is on record.                                  *)
Climbs(from, said) ==
    \E landing \in EnterableFrom(Escalation, from) :
        Arrived(landing) /\ trail' = said \cup SteppedOver(from, landing)

(* A round that climbs lands on a step of the escalation route ahead of it.*)
LEMMA ClimbIs ==
    ASSUME Typed, NEW from \in Nat, NEW said, climb(from, said)
    PROVE  Climbs(from, said)
<1>1. PICK judged : \E landing \in {Landing(from, judged)} :
         arrive(landing, judged) /\ trail' = said \cup SteppedOver(from, landing)
  BY DEF climb
<1>2. PICK landing \in {Landing(from, judged)} :
         arrive(landing, judged) /\ trail' = said \cup SteppedOver(from, landing)
  BY <1>1
<1>3. landing \in EnterableFrom(Escalation, from)
  BY <1>2, LandingIs DEF climb
<1>4. landing \in Steps
  BY <1>3, EnterableIs DEF Routes
<1>5. Arrived(landing)
  BY <1>2, <1>4, ArriveIs
<1> QED
  BY <1>2, <1>3, <1>5 DEF Climbs

(* What one person's decision puts on record: words about the step the     *)
(* round stands at, of that person and of the sitting's voters, one each.  *)
Said(q, new) ==
    /\ new \in SUBSET EventRow /\ new # {}
    /\ \A e \in new : /\ e.stage = round.stage /\ e.word \in Judging
                      /\ e.who \in Voters(panel) \cup {q, None}
    /\ \A e, f \in new : e.who = f.who /\ e.who # None => e = f

Confirms(new) ==
    (\E e \in new : e.word = "approved") /\ ~\E e \in new : e.word \in {"no", "rejected"}

Concludes(new) ==
    \E outcome \in {"approved", "rejected"} :
        /\ round.state = "active"
        /\ round' = [round EXCEPT !.state = "completed", !.outcome = outcome]
        /\ trail' = trail \cup new /\ panel' = None /\ seated' = seated
        /\ outcome = "approved" => isRouteEnd(round.stage) /\ Confirms(new)
        /\ outcome = "rejected" => ~Climbing(round.stage) \/ isRouteEnd(round.stage)

GoesOn(new) ==
    /\ ~Climbing(round.stage) /\ After(round.stage) # {}
    /\ \E next \in {FirstOf(After(round.stage))} : Arrived(next)
    /\ trail' = trail \cup new /\ \E e \in new : e.word = "approved"

ClimbsOn(new) ==
    \E from \in {IF Climbing(round.stage) THEN IndexOf(round.stage) + 1 ELSE 1} :
        \E said \in {trail \cup new} : Climbs(from, said)

(* A ballot is in, and others are still to come.                           *)
Casts(q) ==
    /\ Climbing(round.stage) /\ round' = round /\ trail' = trail /\ seated' \in Nat
    /\ \E p \in PanelRow :
          /\ panel' = p /\ p.stage = round.stage /\ Fits(p, seated')
          /\ Cardinality(Voters(p)) < p.size
          /\ Voters(p) \subseteq Voters(panel) \cup {q} /\ q \in Voters(p)

(* A single judge's word.                                                  *)
LEMMA SaidAlone ==
    ASSUME Typed, NEW q \in People, NEW word \in {"approve", "reject", "escalate"},
           sayAlone(q, word)
    PROVE  \E new : /\ Said(q, new) /\ \A e \in new : e.word \notin {"yes", "no"}
                    /\ Concludes(new) \/ GoesOn(new) \/ ClimbsOn(new)
<1> DEFINE s == round.stage
           ends == ~Climbing(s) \/ isRouteEnd(s)
<1>1. s \in Steps /\ IndexOf(s) \in Nat
  BY OnItsRoute DEF Typed, RoundRow
<1>2. PICK kind : kind = CASE word = "escalate" -> "escalated"
                         [] word = "approve" /\ ends -> "approved"
                         [] word = "reject" /\ wordEnds(s, word) -> "rejected"
                         [] word = "approve" /\ Climbing(s) /\ ~isRouteEnd(s) -> "opinion-approved"
                         [] OTHER -> "opinion-rejected"
  OBVIOUS
<1>3. /\ kind \in Judging \ {"yes", "no"}
      /\ word = "approve" /\ ends => kind = "approved"
  BY <1>2 DEF Judging
<1>4. PICK new : new = {Event(s, q, kind)}
  OBVIOUS
<1>5. Said(q, new) /\ \A e \in new : e.word \notin {"yes", "no"}
  BY <1>1, <1>3, <1>4 DEF Said, Event, EventRow, Judging
<1>6. word = "approve" /\ ends => Confirms(new) /\ \E e \in new : e.word = "approved"
  BY <1>3, <1>4 DEF Confirms, Event
<1>7. IF wordEnds(s, word)
      THEN completeInstance(IF word = "approve" THEN "approved" ELSE "rejected", trail \cup new)
      ELSE IF word = "approve" /\ ~Climbing(s)
      THEN After(s) # {} /\ arrive(FirstOf(After(s)), {}) /\ trail' = trail \cup new
      ELSE climb(IF Climbing(s) THEN IndexOf(s) + 1 ELSE 1, trail \cup new)
  BY <1>2, <1>4 DEF sayAlone
<1>8. CASE wordEnds(s, word)
  <2>1. PICK outcome \in {"approved", "rejected"} :
           outcome = IF word = "approve" THEN "approved" ELSE "rejected"
    OBVIOUS
  <2>2. /\ round.state = "active"
        /\ round' = [round EXCEPT !.state = "completed", !.outcome = outcome]
        /\ trail' = trail \cup new /\ panel' = None /\ seated' = seated
    BY <1>7, <1>8, <2>1 DEF completeInstance
  <2>3. /\ outcome = "approved" => isRouteEnd(round.stage) /\ Confirms(new)
        /\ outcome = "rejected" => ~Climbing(round.stage) \/ isRouteEnd(round.stage)
    BY <1>6, <1>8, <2>1 DEF wordEnds
  <2>4. Concludes(new)
    BY <2>2, <2>3 DEF Concludes
  <2> QED
    BY <1>5, <2>4
<1>9. CASE ~wordEnds(s, word) /\ word = "approve" /\ ~Climbing(s)
  <2>1. PICK next : next = FirstOf(After(s))
    OBVIOUS
  <2>2. After(s) # {} /\ arrive(next, {}) /\ trail' = trail \cup new
    BY <1>7, <1>9, <2>1 DEF arrive
  <2>3. next \in Steps
    BY <1>1, <2>1, <2>2, AfterIs, FirstOfIs
  <2>4. Arrived(next)
    BY <2>2, <2>3, ArriveIs
  <2>5. GoesOn(new)
    BY <1>6, <1>9, <2>1, <2>2, <2>4 DEF GoesOn
  <2> QED
    BY <1>5, <2>5
<1>10. CASE ~wordEnds(s, word) /\ ~(word = "approve" /\ ~Climbing(s))
  <2>1. PICK from \in Nat : from = IF Climbing(s) THEN IndexOf(s) + 1 ELSE 1
    BY <1>1
  <2>2. PICK said : said = trail \cup new
    OBVIOUS
  <2>3. climb(from, said)
    BY <1>7, <1>10, <2>1, <2>2 DEF climb
  <2>4. ClimbsOn(new)
    BY <2>1, <2>2, <2>3, ClimbIs DEF ClimbsOn
  <2> QED
    BY <1>5, <2>4
<1> QED
  BY <1>8, <1>9, <1>10

(* The sitting a decision finds: nobody new on it, and all who have voted. *)
Found(p) ==
    /\ p \in PanelRow /\ p.stage = round.stage
    /\ Fits(p, IF panel = None THEN seated + 1 ELSE seated)
    /\ Voters(p) = Voters(panel)

(* Rid of some members a sitting is what it was, with fewer seated.        *)
LEMMA RidIs ==
    ASSUME NEW p \in PanelRow, NEW n \in Nat, Fits(p, n), NEW eligible
    PROVE  LET r == Rid(p, eligible) IN
           /\ r \in PanelRow /\ r.stage = p.stage /\ r.size = p.size /\ r.votes = p.votes
           /\ \A q \in People : r.seat[q] = IF p.votes[q] = "none" /\ q \notin eligible
                                            THEN 0 ELSE p.seat[q]
           /\ \A q \in People : Seated(r, q) => Seated(p, q)
           /\ Fits(r, n) /\ Voters(r) = Voters(p)
<1> DEFINE seats == [q \in People |-> IF p.votes[q] = "none" /\ q \notin eligible
                                      THEN 0 ELSE p.seat[q]]
<1>1. PICK r : r = Rid(p, eligible)
  OBVIOUS
<1>2. r = [p EXCEPT !.seat = seats]
  BY <1>1 DEF Rid
<1>3. seats \in [People -> Nat]
  BY DEF PanelRow
<1>4. /\ r \in PanelRow /\ r.stage = p.stage /\ r.size = p.size /\ r.votes = p.votes
      /\ r.seat = seats
  BY <1>2, <1>3 DEF PanelRow
<1>5. \A q \in People : r.seat[q] <= n /\ (Seated(r, q) => Seated(p, q))
  BY <1>4 DEF Fits, Seated
<1>6. Cardinality({q \in People : Seated(r, q)}) <= r.size
  <2> DEFINE A == {q \in People : Seated(r, q)}
             B == {q \in People : Seated(p, q)}
  <2>1. A \in SUBSET B /\ B \in SUBSET People /\ A \in SUBSET People
    BY <1>5
  <2>2. Cardinality(B) <= r.size /\ r.size \in Nat
    BY <1>4 DEF Fits, PanelRow
  <2> HIDE DEF A, B
  <2>3. IsFiniteSet(B) /\ Cardinality(A) \in Nat /\ Cardinality(B) \in Nat
    BY <2>1, PeopleFinite
  <2>4. Cardinality(A) <= Cardinality(B)
    BY <2>1, <2>3, FS_Subset
  <2>5. Cardinality(A) <= r.size
    BY <2>2, <2>3, <2>4
  <2> QED
    BY <2>5 DEF A
<1>7. Voters(r) = Voters(p)
  BY <1>4, NoneIsNoPanel DEF Voters
<1> QED
  BY <1>1, <1>4, <1>5, <1>6, <1>7 DEF Fits

(* The sitting a decision is read against has the votes of the one on      *)
(* record.                                                                 *)
LEMMA FoundIs ==
    ASSUME Typed, OneSitting, Deciding, decision # None, decision.at = "read",
           round.stage \in Panels, NEW p, p = Reconciled
    PROVE  Found(p)
<1>1. decision.called \in SUBSET People /\ seated \in Nat
  BY DEF Typed, DecisionRow
<1>2. PICK before : before = IF panel = None
                             THEN createPanel(round.stage, decision.called, seated + 1)
                             ELSE panel
  OBVIOUS
<1>3. PICK n \in Nat : n = IF panel = None THEN seated + 1 ELSE seated
  BY <1>1
<1>4. /\ before \in PanelRow /\ before.stage = round.stage /\ Fits(before, n)
      /\ Voters(before) = Voters(panel)
  <2>1. CASE panel = None
    <3>1. n # 0 /\ decision.called # {} /\ before = createPanel(round.stage, decision.called, n)
      BY <1>1, <1>2, <1>3, <2>1 DEF Deciding
    <3>2. PICK s \in Panels, members \in SUBSET People :
             s = round.stage /\ members = decision.called
      BY <1>1
    <3>3. Called(before, s, members, n)
      BY <3>1, <3>2, PanelCalled
    <3>4. Voters(panel) = {}
      BY <2>1 DEF Voters
    <3> QED
      BY <3>2, <3>3, <3>4 DEF Called
  <2>2. CASE panel # None
    BY <1>2, <1>3, <2>2 DEF Typed, OneSitting
  <2> QED
    BY <2>1, <2>2
<1>5. p = Rid(before, decision.eligible)
  BY <1>2 DEF Reconciled
<1> QED
  BY <1>3, <1>4, <1>5, RidIs DEF Found

(* A ballot is one more voice, and takes one more chair at most.           *)
OneMore(cast, p, q, claims) ==
    /\ cast \in PanelRow /\ cast.stage = round.stage
    /\ Fits(cast, IF panel = None \/ claims THEN seated + 1 ELSE seated)
    /\ Voters(cast) = Voters(panel) \cup {q} /\ cast.size = p.size

(* A ballot adds one voter to the sitting, and no chair that was not free. *)
LEMMA CastIs ==
    ASSUME Typed, NEW p, Found(p), NEW q \in People, NEW word \in {"approve", "reject"},
           NEW claims \in BOOLEAN, claims => Chairs(p) > 0,
           NEW cast, cast = [p EXCEPT !.votes[q] = word,
                                      !.seat[q] = IF claims THEN seated + 1 ELSE @]
    PROVE  OneMore(cast, p, q, claims)
<1>1. seated \in Nat /\ p \in PanelRow /\ p.size \in Nat
  BY DEF Typed, Found, PanelRow
<1>2. /\ cast.stage = p.stage /\ cast.size = p.size
      /\ cast.votes = [p.votes EXCEPT ![q] = word]
      /\ cast.seat = [p.seat EXCEPT ![q] = IF claims THEN seated + 1 ELSE p.seat[q]]
  BY <1>1 DEF PanelRow
<1>3. /\ cast.votes \in [People -> {"none", "approve", "reject"}]
      /\ cast.seat \in [People -> Nat]
  BY <1>1, <1>2 DEF PanelRow
<1>4. cast \in PanelRow
  BY <1>1, <1>2, <1>3 DEF PanelRow
<1>5. Voters(cast) = Voters(panel) \cup {q}
  <2>1. p # None /\ cast # None
    BY <1>1, <1>4, NoneIsNoPanel
  <2>2. \A v \in People : cast.votes[v] = IF v = q THEN word ELSE p.votes[v]
    BY <1>1, <1>2 DEF PanelRow
  <2>3. Voters(cast) = Voters(p) \cup {q}
    BY <2>1, <2>2 DEF Voters
  <2> QED
    BY <2>3 DEF Found
<1>6. \A v \in People : cast.seat[v] <= IF panel = None \/ claims THEN seated + 1 ELSE seated
  <2>1. \A v \in People : /\ p.seat[v] \in Nat
                          /\ p.seat[v] <= IF panel = None THEN seated + 1 ELSE seated
    BY <1>1 DEF Found, Fits, PanelRow
  <2>2. \A v \in People : cast.seat[v] = IF v = q /\ claims THEN seated + 1 ELSE p.seat[v]
    BY <1>1, <1>2 DEF PanelRow
  <2> QED
    BY <1>1, <2>1, <2>2
<1>7. Cardinality({v \in People : Seated(cast, v)}) <= cast.size
  <2> DEFINE A == {v \in People : Seated(p, v)}
             B == {v \in People : Seated(cast, v)}
  <2>1. A \in SUBSET People /\ B \in SUBSET People
    OBVIOUS
  <2>2. Cardinality(A) <= p.size /\ Chairs(p) = p.size - Cardinality(A)
    BY DEF Found, Fits, Chairs
  <2>3. \A v \in People : cast.seat[v] = IF v = q /\ claims THEN seated + 1 ELSE p.seat[v]
    BY <1>1, <1>2 DEF PanelRow
  <2>4. ~claims => B = A
    BY <2>3 DEF Seated
  <2>5. claims => B \in SUBSET (A \cup {q})
    BY <1>1, <2>3 DEF Seated
  <2> HIDE DEF A, B
  <2>6. IsFiniteSet(A) /\ Cardinality(A) \in Nat /\ Cardinality(B) \in Nat
    BY <2>1, PeopleFinite
  <2>7. /\ IsFiniteSet(A \cup {q}) /\ Cardinality(A \cup {q}) \in Nat
        /\ Cardinality(A \cup {q}) <= Cardinality(A) + 1
    <3>1. /\ IsFiniteSet(A \cup {q})
          /\ Cardinality(A \cup {q}) = IF q \in A THEN Cardinality(A) ELSE Cardinality(A) + 1
      BY <2>6, FS_AddElement
    <3> QED
      BY <2>6, <3>1, FS_CardinalityType
  <2>8. CASE claims
    <3>1. Cardinality(B) <= Cardinality(A \cup {q})
      BY <2>5, <2>7, <2>8, FS_Subset
    <3>2. Cardinality(A) + 1 <= p.size
      BY <1>1, <2>2, <2>6, <2>8
    <3>3. Cardinality(B) <= cast.size
      BY <1>1, <1>2, <2>6, <2>7, <3>1, <3>2
    <3> QED
      BY <3>3 DEF B
  <2>9. CASE ~claims
    <3>1. Cardinality(B) <= cast.size
      BY <1>2, <2>2, <2>4, <2>9
    <3> QED
      BY <3>1 DEF B
  <2> QED
    BY <2>8, <2>9
<1> QED
  BY <1>2, <1>4, <1>5, <1>6, <1>7 DEF Found, Fits, OneMore

(* What a sitting puts on record when it ends is a ballot for each voter.  *)
LEMMA BallotsAre ==
    ASSUME NEW p \in PanelRow, p.stage = round.stage
    PROVE  /\ Ballots(p) \in SUBSET EventRow
           /\ \A e \in Ballots(p) : /\ e.stage = round.stage /\ e.who \in Voters(p)
                                    /\ e.word \in {"yes", "no"}
                                    /\ e.word = "yes" <=> p.votes[e.who] = "approve"
           /\ \A e, f \in Ballots(p) : e.who = f.who => e = f
           /\ \A v \in Voters(p) : \E e \in Ballots(p) : e.who = v
<1>1. p.stage \in Steps /\ Voters(p) \in SUBSET People
  BY PanelsClimb, VotersOf DEF PanelRow
<1> DEFINE B(v) == [stage |-> p.stage, who |-> v,
                    word |-> IF p.votes[v] = "approve" THEN "yes" ELSE "no"]
<1>2. Ballots(p) = {B(v) : v \in Voters(p)}
  BY DEF Ballots, Event
<1>3. \A v \in Voters(p) :
         /\ B(v) \in EventRow /\ B(v).stage = round.stage /\ B(v).who = v
         /\ B(v).word \in {"yes", "no"}
         /\ B(v).word = "yes" <=> p.votes[v] = "approve"
  BY <1>1 DEF EventRow, Judging
<1> HIDE DEF B
<1> QED
  BY <1>2, <1>3

(* A ballot, or handing the matter up from a sitting.                      *)
LEMMA SaidAtSitting ==
    ASSUME Typed, OneSitting, Deciding, decision # None, round.stage \in Panels,
           NEW q \in People, q = decision.by,
           NEW word \in {"approve", "reject", "escalate"}, sayAtSitting(q, word)
    PROVE  \/ \E new : Said(q, new) /\ (Concludes(new) \/ ClimbsOn(new))
           \/ Casts(q)
<1>1. PICK claims \in BOOLEAN : claims = ~decision.own
  OBVIOUS
<1>2. PICK s \in Panels : s = round.stage
  OBVIOUS
<1>3. s \in Steps /\ Climbing(s) /\ IndexOf(s) \in Nat
  BY PanelsClimb, OnItsRoute
<1>4. PICK p, cast :
        /\ p = Reconciled
        /\ cast = [p EXCEPT !.votes[q] = word, !.seat[q] = IF claims THEN seated + 1 ELSE @]
        /\ decision.at = "read"
        /\ IF word = "escalate"
           THEN climb(IndexOf(s) + 1, trail \cup Ballots(p) \cup {Event(s, q, "escalated")})
           ELSE /\ claims => Chairs(p) > 0
                /\ IF AllIn(cast) THEN resolved(cast)
                   ELSE /\ panel' = cast
                        /\ seated' = IF panel = None \/ claims THEN seated + 1 ELSE seated
                        /\ round' = round /\ trail' = trail
  BY <1>1, <1>2 DEF sayAtSitting
<1>5. Found(p)
  BY <1>4, FoundIs
<1>6. q \notin Voters(panel) /\ None \notin People
  BY <1>2, <1>3, RoundConstants DEF Deciding, Judged
<1>7. PICK from \in Nat : from = IndexOf(s) + 1
  BY <1>3
<1>8. CASE word = "escalate"
  <2>1. PICK new : new = Ballots(p) \cup {Event(s, q, "escalated")}
    OBVIOUS
  <2>2. Said(q, new)
    <3>1. Event(s, q, "escalated") \in EventRow
      BY <1>3 DEF Event, EventRow, Judging
    <3>2. /\ Event(s, q, "escalated").stage = s /\ Event(s, q, "escalated").who = q
          /\ Event(s, q, "escalated").word = "escalated"
      BY DEF Event
    <3>3. /\ Ballots(p) \in SUBSET EventRow
          /\ \A e \in Ballots(p) : /\ e.stage = s /\ e.who \in Voters(panel)
                                   /\ e.word \in {"yes", "no"}
          /\ \A e, f \in Ballots(p) : e.who = f.who => e = f
      BY <1>2, <1>5, BallotsAre DEF Found
    <3> QED
      BY <1>2, <1>6, <2>1, <3>1, <3>2, <3>3 DEF Said, Judging
  <2>3. PICK said : said = trail \cup new
    OBVIOUS
  <2>4. climb(from, said)
    <3>1. said = trail \cup Ballots(p) \cup {Event(s, q, "escalated")}
      BY <2>1, <2>3
    <3> QED
      BY <1>4, <1>7, <1>8, <3>1 DEF climb
  <2>5. ClimbsOn(new)
    BY <1>2, <1>3, <1>7, <2>3, <2>4, ClimbIs DEF ClimbsOn
  <2> QED
    BY <2>2, <2>5
<1>9. CASE word # "escalate"
  <2>1. /\ cast \in PanelRow /\ cast.stage = s
        /\ Fits(cast, IF panel = None \/ claims THEN seated + 1 ELSE seated)
        /\ Voters(cast) = Voters(panel) \cup {q}
    <3>1. PICK spoken \in {"approve", "reject"} : spoken = word
      BY <1>9
    <3>2. claims => Chairs(p) > 0
      BY <1>4, <1>9
    <3>3. cast = [p EXCEPT !.votes[q] = spoken,
                           !.seat[q] = IF claims THEN seated + 1 ELSE @]
      BY <1>4, <3>1
    <3>4. OneMore(cast, p, q, claims)
      BY <1>5, <3>2, <3>3, CastIs
    <3> QED
      BY <1>2, <3>4 DEF OneMore
  <2>2. CASE AllIn(cast)
    <3>1. PICK unanimous \in BOOLEAN :
             unanimous = \A v \in Voters(cast) : cast.votes[v] = "approve"
      OBVIOUS
    <3>2. PICK kind \in {"approved", "rejected", "opinion-approved", "escalated"} :
             /\ kind = "approved" <=> unanimous /\ isRouteEnd(s)
             /\ kind = "rejected" <=> ~unanimous /\ isRouteEnd(s)
             /\ kind = "opinion-approved" <=> unanimous /\ ~isRouteEnd(s)
      <4>1. (unanimous \/ ~unanimous) /\ (isRouteEnd(s) \/ ~isRouteEnd(s))
        OBVIOUS
      <4> QED
        BY <4>1
    <3>3. PICK new : new = Ballots(cast) \cup {Event(s, None, kind)}
      OBVIOUS
    <3>4. PICK said : said = trail \cup new
      OBVIOUS
    <3>5. said = trail \cup Ballots(cast) \cup {Event(s, None, kind)}
      BY <3>3, <3>4
    <3>6. IF isRouteEnd(s) THEN completeInstance(kind, said) ELSE climb(from, said)
      <4>1. resolved(cast)
        BY <1>4, <1>9, <2>2
      <4>2. CASE unanimous /\ isRouteEnd(s)
        BY <1>7, <2>1, <3>1, <3>2, <3>5, <4>1, <4>2 DEF resolved
      <4>3. CASE ~unanimous /\ isRouteEnd(s)
        BY <1>7, <2>1, <3>1, <3>2, <3>5, <4>1, <4>3 DEF resolved
      <4>4. CASE unanimous /\ ~isRouteEnd(s)
        BY <1>7, <2>1, <3>1, <3>2, <3>5, <4>1, <4>4 DEF resolved
      <4>5. CASE ~unanimous /\ ~isRouteEnd(s)
        BY <1>7, <2>1, <3>1, <3>2, <3>5, <4>1, <4>5 DEF resolved
      <4> QED
        BY <4>2, <4>3, <4>4, <4>5
    <3>7. /\ Ballots(cast) \in SUBSET EventRow
          /\ \A e \in Ballots(cast) : /\ e.stage = s /\ e.who \in Voters(panel) \cup {q}
                                      /\ e.word \in {"yes", "no"}
                                      /\ e.word = "yes" <=> cast.votes[e.who] = "approve"
                                      /\ e.who \in Voters(cast)
          /\ \A e, f \in Ballots(cast) : e.who = f.who => e = f
      BY <1>2, <2>1, BallotsAre
    <3>8. /\ Event(s, None, kind) \in EventRow
          /\ Event(s, None, kind).stage = s /\ Event(s, None, kind).who = None
          /\ Event(s, None, kind).word = kind
      BY <1>3, <3>2 DEF Event, EventRow, Judging
    <3>9. Said(q, new)
      BY <1>2, <3>2, <3>3, <3>7, <3>8, VotersOf, RoundConstants DEF Said, Judging
    <3>10. kind = "approved" => Confirms(new)
      BY <3>1, <3>2, <3>3, <3>7, <3>8 DEF Confirms
    <3>11. CASE isRouteEnd(s)
      <4>1. kind \in {"approved", "rejected"}
        BY <3>2, <3>11
      <4>2. Concludes(new)
        BY <1>2, <3>4, <3>6, <3>10, <3>11, <4>1 DEF Concludes, completeInstance
      <4> QED
        BY <3>9, <4>2
    <3>12. CASE ~isRouteEnd(s)
      <4>1. climb(from, said)
        BY <3>6, <3>12
      <4>2. ClimbsOn(new)
        BY <1>2, <1>3, <1>7, <3>4, <4>1, ClimbIs DEF ClimbsOn
      <4> QED
        BY <3>9, <4>2
    <3> QED
      BY <3>11, <3>12
  <2>3. CASE ~AllIn(cast)
    <3>1. /\ panel' = cast /\ round' = round /\ trail' = trail
          /\ seated' = IF panel = None \/ claims THEN seated + 1 ELSE seated
      BY <1>4, <1>9, <2>3
    <3>2. seated' \in Nat
      BY <3>1 DEF Typed
    <3>3. Cardinality(Voters(cast)) < cast.size
      <4>1. Cardinality(Voters(cast)) \in Nat /\ cast.size \in Nat
        BY <2>1, VotersOf, PeopleFinite DEF PanelRow
      <4> QED
        BY <2>3, <4>1 DEF AllIn
    <3>4. Casts(q)
      BY <1>2, <1>3, <2>1, <3>1, <3>2, <3>3 DEF Casts
    <3> QED
      BY <3>4
  <2> QED
    BY <2>2, <2>3
<1> QED
  BY <1>8, <1>9

(* Whatever is decided ends the round, moves it on, or is one more ballot. *)
LEMMA SayIs ==
    ASSUME Typed, OneSitting, Deciding, NEW q \in People,
           NEW word \in {"approve", "reject", "escalate"}, say(q, word)
    PROVE  \/ \E new : Said(q, new) /\ (Concludes(new) \/ GoesOn(new) \/ ClimbsOn(new))
           \/ Casts(q)
<1>1. decision # None /\ q = decision.by
  BY DEF say
<1>2. CASE round.stage \in Panels
  BY <1>1, <1>2, SaidAtSitting DEF say
<1>3. CASE round.stage \notin Panels
  BY <1>3, SaidAlone DEF say
<1> QED
  BY <1>2, <1>3

-----------------------------------------------------------------------------
(***************************************************************************)
(* Every step keeps the types, the one sitting and the decider's standing: *)
(* the three need each other, for a ballot is one of a person who has not  *)
(* voted, at the sitting of the step where the round stands.               *)
(***************************************************************************)

Sound == Typed /\ OneSitting /\ Deciding

(* A round opens sound.                                                    *)
LEMMA SoundInit == Init => Sound
<1> SUFFICES ASSUME Init PROVE Sound
  OBVIOUS
<1>1. holders \in [Steps -> SUBSET People] /\ holders \in Staffings
  BY RoundConstants DEF Init
<1>2. PICK absent \in Lineages :
         frozen = [absent |-> absent, vacant |-> {s \in Nearest : holders[s] = {}}]
  BY DEF Init
<1>3. absent \in SUBSET (Steps \ Nearest)
  BY RoundConstants
<1>4. frozen \in [absent : SUBSET (Steps \ Nearest), vacant : SUBSET Nearest]
  BY <1>2, <1>3
<1>5. PICK s, eligible : s \in Steps /\
         LET sits == eligible # {} /\ s \in Panels IN
         /\ eligible = Eligible(s, {})
         /\ round = Standing(s, IF eligible = {} THEN "blocked" ELSE "active")
         /\ panel = IF sits THEN createPanel(s, eligible, 1) ELSE None
         /\ seated = IF sits THEN 1 ELSE 0
         /\ trail = IF Climbing(s) THEN SteppedOver(1, s) ELSE {}
  BY DEF Init
<1>6. eligible \in SUBSET People
  BY <1>1, <1>5 DEF Eligible, Independent
<1>7. round \in RoundRow /\ round.stage = s /\ round.outcome = None
      /\ round.state \in {"active", "blocked"}
  BY <1>5 DEF Standing, RoundRow
<1>8. trail \in SUBSET EventRow
  <2>1. \A t \in EnterableFrom(Escalation, 1) : t \in Steps
    BY EnterableIs DEF Routes
  <2> QED
    BY <1>5, <2>1 DEF SteppedOver, EventRow
<1>9. panel # None => /\ panel \in PanelRow /\ Fits(panel, seated) /\ panel.stage = s
                      /\ Cardinality(Voters(panel)) < panel.size
  <2> SUFFICES ASSUME panel # None
               PROVE  /\ panel \in PanelRow /\ Fits(panel, seated) /\ panel.stage = s
                      /\ Cardinality(Voters(panel)) < panel.size
    OBVIOUS
  <2>1. eligible # {} /\ s \in Panels /\ panel = createPanel(s, eligible, 1) /\ seated = 1
    BY <1>5
  <2>2. Called(panel, s, eligible, seated)
    BY <1>6, <2>1, PanelCalled
  <2>3. Cardinality({}) = 0
    BY FS_EmptySet
  <2> QED
    BY <2>2, <2>3 DEF Called, PanelRow
<1>10. seated \in Nat /\ decision = None /\ ask = None /\ patrol = Idle
  BY <1>5 DEF Init
<1>11. Typed
  BY <1>1, <1>4, <1>7, <1>8, <1>9, <1>10 DEF Typed
<1>12. OneSitting
  BY <1>7, <1>9 DEF OneSitting
<1> QED
  BY <1>10, <1>11, <1>12 DEF Sound, Deciding

(* What was stepped over are steps.                                        *)
LEMMA SteppedOverRows ==
    ASSUME NEW from \in Nat, NEW landing
    PROVE  SteppedOver(from, landing) \in SUBSET EventRow
<1>1. \A t \in EnterableFrom(Escalation, from) : t \in Steps
  BY EnterableIs DEF Routes
<1> QED
  BY <1>1 DEF SteppedOver, EventRow

(* A round that came to stand somewhere is typed, and so is its sitting.   *)
LEMMA ArrivedSound ==
    ASSUME Typed, NEW s, Arrived(s), holders' = holders, frozen' = frozen,
           patrol' \in {Idle} \cup Looks, decision' = None, ask' \in People \cup {None}, trail' \in SUBSET EventRow
    PROVE  Sound'
<1>1. Typed'
  BY DEF Typed, Arrived, RoundRow
<1>2. OneSitting'
  BY DEF Arrived, OneSitting
<1> QED
  BY <1>1, <1>2 DEF Sound, Deciding

(* A decision that is committed leaves the round sound.                    *)
LEMMA SayKeepsSound ==
    ASSUME Sound, NEW q \in People, NEW word \in {"approve", "reject", "escalate"}, say(q, word)
    PROVE  Sound'
<1>0. Typed /\ OneSitting /\ Deciding
  BY DEF Sound
<1>1. /\ holders' = holders /\ frozen' = frozen /\ ask' = ask /\ patrol' = patrol
      /\ decision' = None /\ decision # None
  BY DEF say
<1>2. /\ round.state \in {"active", "blocked"} /\ ask' \in People \cup {None}
      /\ patrol' \in {Idle} \cup Looks
  BY <1>0, <1>1 DEF Deciding, Typed
<1>3. ASSUME NEW new, Said(q, new), Concludes(new)
      PROVE  Sound'
  <2>1. PICK outcome \in {"approved", "rejected"} :
          /\ round' = [round EXCEPT !.state = "completed", !.outcome = outcome]
          /\ trail' = trail \cup new /\ panel' = None /\ seated' = seated
    BY <1>3 DEF Concludes
  <2>2. /\ round' \in RoundRow /\ round'.state = "completed" /\ round'.outcome = outcome
    BY <1>0, <2>1 DEF Typed, RoundRow
  <2>3. outcome # None
    BY RoundConstants
  <2>4. trail' \in SUBSET EventRow
    BY <1>0, <1>3, <2>1 DEF Typed, Said
  <2>5. Typed'
    BY <1>0, <1>1, <2>1, <2>2, <2>3, <2>4 DEF Typed
  <2> QED
    BY <1>1, <2>1, <2>5 DEF Sound, OneSitting, Deciding
<1>4. ASSUME NEW new, Said(q, new), GoesOn(new)
      PROVE  Sound'
  <2>1. PICK next : Arrived(next) /\ trail' = trail \cup new
    BY <1>4 DEF GoesOn
  <2>2. trail' \in SUBSET EventRow
    BY <1>0, <1>4, <2>1 DEF Typed, Said
  <2> QED
    BY <1>0, <1>1, <1>2, <2>1, <2>2, ArrivedSound
<1>5. ASSUME NEW new, Said(q, new), ClimbsOn(new)
      PROVE  Sound'
  <2>1. PICK from, said : /\ from = IF Climbing(round.stage) THEN IndexOf(round.stage) + 1 ELSE 1
                          /\ said = trail \cup new /\ Climbs(from, said)
    BY <1>5 DEF ClimbsOn
  <2>2. PICK landing : Arrived(landing) /\ trail' = said \cup SteppedOver(from, landing)
    BY <2>1 DEF Climbs
  <2>3. from \in Nat
    BY <1>0, <2>1, OnItsRoute DEF Typed, RoundRow
  <2>4. trail' \in SUBSET EventRow
    BY <1>0, <1>5, <2>1, <2>2, <2>3, SteppedOverRows DEF Typed, Said
  <2> QED
    BY <1>0, <1>1, <1>2, <2>2, <2>4, ArrivedSound
<1>6. ASSUME Casts(q)
      PROVE  Sound'
  <2>1. /\ round' = round /\ trail' = trail /\ seated' \in Nat
        /\ panel' \in PanelRow /\ panel'.stage = round.stage /\ Fits(panel', seated')
        /\ Cardinality(Voters(panel')) < panel'.size
    BY <1>6 DEF Casts
  <2>2. Typed'
    BY <1>0, <1>1, <1>2, <2>1 DEF Typed
  <2>3. OneSitting'
    BY <1>2, <2>1 DEF OneSitting
  <2> QED
    BY <1>1, <2>2, <2>3 DEF Sound, Deciding
<1> QED
  BY <1>0, <1>3, <1>4, <1>5, <1>6, SayIs

(* A decision taken up is somebody's who may still judge, and asking again *)
(* changes nothing but what it knows.                                      *)
LEMMA TakeUpKeepsSound ==
    ASSUME Sound, (\E q \in People : takeUp(q)) \/ findSitting \/ reviewersAtStage
    PROVE  Sound'
<1>0. Typed /\ OneSitting /\ Deciding
  BY DEF Sound
<1>1. /\ holders' = holders /\ frozen' = frozen /\ round' = round /\ trail' = trail
      /\ panel' = panel /\ seated' = seated /\ ask' = ask /\ patrol' = patrol
  BY DEF takeUp, findSitting, reviewersAtStage, sitting
<1>2. Judged(trail, panel)' = Judged(trail, panel)
  BY <1>1 DEF Judged, Voters
<1>3. ASSUME NEW q \in People, takeUp(q)
      PROVE  /\ decision' \in DecisionRow /\ decision'.at # "read" /\ decision'.by = q
             /\ round.state \in {"active", "blocked"}
             /\ Climbing(round.stage) => q \notin Judged(trail, panel)
  BY <1>3 DEF takeUp, mayActOn, Independent, DecisionRow
<1>4. round.stage \in Steps /\ Eligible(round.stage, Judged(trail, panel)) \in SUBSET People
  BY <1>0 DEF Typed, RoundRow, Eligible, Independent
<1>5. ASSUME findSitting
      PROVE  /\ decision # None /\ decision' \in DecisionRow /\ decision'.by = decision.by
             /\ decision'.at = "seats"
  <2>1. PICK called \in SUBSET People, mine \in BOOLEAN :
           decision' = [decision EXCEPT !.at = "seats", !.called = called, !.own = mine]
    <3>1. PICK called \in SUBSET People :
             called = IF panel = None THEN Eligible(round.stage, Judged(trail, panel)) ELSE {}
      BY <1>4
    <3>2. PICK mine \in BOOLEAN : mine = IF panel = None THEN decision.by \in called
                  ELSE Seated(panel, decision.by) /\ panel.votes[decision.by] = "none"
      <4>1. (decision.by \in called) \in BOOLEAN
        OBVIOUS
      <4>2. (Seated(panel, decision.by) /\ panel.votes[decision.by] = "none") \in BOOLEAN
        OBVIOUS
      <4> QED
        BY <4>1, <4>2
    <3> QED
      BY <1>5, <3>1, <3>2 DEF findSitting
  <2>2. decision # None /\ decision \in DecisionRow
    BY <1>0, <1>5 DEF findSitting, Typed
  <2> QED
    BY <2>1, <2>2 DEF DecisionRow
<1>6. ASSUME reviewersAtStage
      PROVE  /\ decision # None /\ decision' \in DecisionRow /\ decision'.by = decision.by
             /\ decision'.called = decision.called /\ (panel = None => decision.called # {})
  <2>1. decision # None /\ decision \in DecisionRow /\ (panel = None => decision.called # {})
    BY <1>0, <1>6 DEF reviewersAtStage, Typed
  <2>2. PICK eligible \in SUBSET People, mine \in BOOLEAN :
           decision' = [decision EXCEPT !.at = "read", !.eligible = eligible, !.own = mine]
    <3>1. PICK eligible \in SUBSET People : eligible = Eligible(round.stage, Judged(trail, panel))
      BY <1>4
    <3>2. PICK mine \in BOOLEAN : mine = (decision.own /\ decision.by \in eligible)
      OBVIOUS
    <3> QED
      BY <1>6, <3>1, <3>2 DEF reviewersAtStage
  <2> QED
    BY <2>1, <2>2 DEF DecisionRow
<1>7. decision' \in DecisionRow
  BY <1>3, <1>5, <1>6
<1>8. Typed'
  BY <1>0, <1>1, <1>7 DEF Typed
<1>9. OneSitting'
  BY <1>0, <1>1 DEF OneSitting
<1>10. Deciding'
  <2>1. ASSUME NEW q \in People, takeUp(q) PROVE Deciding'
    BY <1>1, <1>2, <1>3, <2>1 DEF Deciding
  <2>2. ASSUME findSitting PROVE Deciding'
    BY <1>0, <1>1, <1>2, <1>5, <2>2 DEF Deciding
  <2>3. ASSUME reviewersAtStage PROVE Deciding'
    BY <1>0, <1>1, <1>2, <1>6, <2>3 DEF Deciding
  <2> QED
    BY <2>1, <2>2, <2>3
<1> QED
  BY <1>8, <1>9, <1>10 DEF Sound

(* Asking for more, taking the question back, being answered, and ending   *)
(* the round wait for the decision that holds it.                          *)
LEMMA AskingKeepsSound ==
    ASSUME Sound,
           \/ \E q \in People : requestSupplement(q)
           \/ cancelSupplement \/ answerSupplement \/ cancelReviewInstance
    PROVE  Sound'
<1>0. Typed /\ OneSitting
  BY DEF Sound
<1>a. patrol' = patrol \/ (panel # None /\ patrol # Idle /\ patrol' = [patrol EXCEPT !.left = panel])
  <2>1. Voters(panel) # {} => panel # None
    BY DEF Voters
  <2>2. patrol.at \in {"seats", "free"} => patrol # Idle
    BY DEF Idle
  <2> QED
    BY <2>1, <2>2 DEF requestSupplement, cancelSupplement, answerSupplement, cancelReviewInstance
<1>b. patrol' \in {Idle} \cup Looks
  <2>1. patrol \in {Idle} \cup Looks /\ (panel # None => panel \in PanelRow)
    BY <1>0 DEF Typed
  <2> QED
    BY <1>a, <2>1 DEF Looks
<1>1. /\ holders' = holders /\ frozen' = frozen /\ trail' = trail
      /\ decision = None /\ decision' = None /\ ask' \in People \cup {None}
      /\ patrol' \in {Idle} \cup Looks
  BY <1>0, <1>b DEF requestSupplement, cancelSupplement, answerSupplement, cancelReviewInstance, Typed
<1>2. trail' \in SUBSET EventRow
  BY <1>0, <1>1 DEF Typed
<1>3. ASSUME NEW state \in {"active", "awaiting_supplement"}, round.state # "completed",
             round' = [round EXCEPT !.state = state], panel' = panel, seated' = seated
      PROVE  Sound'
  <2>1. round' \in RoundRow /\ round'.state = state /\ round'.outcome = round.outcome
        /\ round'.stage = round.stage
    BY <1>0, <1>3 DEF Typed, RoundRow
  <2>2. Typed'
    BY <1>0, <1>1, <1>2, <1>3, <2>1 DEF Typed
  <2>3. OneSitting'
    BY <1>0, <1>3, <2>1 DEF OneSitting
  <2> QED
    BY <1>1, <2>2, <2>3 DEF Sound, Deciding
<1>4. ASSUME NEW q \in People, requestSupplement(q)
      PROVE  Sound'
  BY <1>3, <1>4 DEF requestSupplement, sitting
<1>5. ASSUME cancelSupplement
      PROVE  Sound'
  BY <1>3, <1>5 DEF cancelSupplement, sitting
<1>6. ASSUME answerSupplement
      PROVE  Sound'
  <2>1. CASE Voters(panel) # {}
    <3>1. PICK s, judged : s = round.stage /\ judged = Judged(trail, None)
      OBVIOUS
    <3>2. arrive(s, judged) /\ s \in Steps
      BY <1>0, <1>6, <2>1, <3>1 DEF answerSupplement, arrive, Typed, RoundRow
    <3> QED
      BY <1>0, <1>1, <1>2, <3>2, ArriveIs, ArrivedSound
  <2>2. CASE Voters(panel) = {}
    BY <1>3, <1>6, <2>2 DEF answerSupplement, sitting
  <2> QED
    BY <2>1, <2>2
<1>7. ASSUME cancelReviewInstance
      PROVE  Sound'
  <2>1. /\ round' = [round EXCEPT !.state = "completed", !.outcome = "cancelled"]
        /\ panel' = None /\ seated' = seated
    BY <1>7 DEF cancelReviewInstance
  <2>2. round' \in RoundRow /\ round'.state = "completed" /\ round'.outcome # None
    BY <1>0, <2>1, RoundConstants DEF Typed, RoundRow
  <2>3. Typed'
    BY <1>0, <1>1, <1>2, <2>1, <2>2 DEF Typed
  <2> QED
    BY <1>1, <2>1, <2>3 DEF Sound, OneSitting, Deciding
<1> QED
  BY <1>4, <1>5, <1>6, <1>7

(* Appointments come between the steps of a decision and change neither    *)
(* the round nor what the decision has read.                               *)
LEMMA StaffingKeepsSound ==
    ASSUME Sound, NEW s \in Steps, NEW q \in People, appoint(s, q) \/ dismiss(s, q)
    PROVE  Sound'
<1>1. holders' \in [Steps -> SUBSET People]
  BY DEF Sound, Typed, appoint, dismiss
<1>2. /\ frozen' = frozen /\ round' = round /\ trail' = trail /\ panel' = panel
      /\ seated' = seated /\ decision' = decision /\ ask' = ask /\ patrol' = patrol
  BY DEF appoint, dismiss, sitting
<1>3. Typed'
  BY <1>1, <1>2 DEF Sound, Typed
<1>4. OneSitting' /\ Deciding'
  BY <1>2 DEF Sound, OneSitting, Deciding, Judged, Voters
<1> QED
  BY <1>3, <1>4 DEF Sound

(* What the patrol does to the round: nothing while it asks; a seat given  *)
(* up; or, when no decision holds it, the state of a round that stands.    *)
GivesUp(q) ==
    /\ panel # None /\ panel' = [panel EXCEPT !.seat[q] = 0] /\ round' = round
Restaffs ==
    /\ decision = None /\ panel' = panel /\ round.state \in {"active", "blocked"}
    /\ \E state \in {"active", "blocked"}, placed \in BOOLEAN :
          round' = [round EXCEPT !.placed = placed, !.state = state]

(* What the patrol remembers when it has nothing more to ask.              *)
LEMMA ConcludedIs ==
    ASSUME NEW found \in Looks
    PROVE  Concluded(found) \in {Idle} \cup Looks
BY DEF Concluded

LEMMA WithoutSittingIs ==
    ASSUME patrol \in Looks, NEW eligible
    PROVE  WithoutSitting(eligible) \in {Idle} \cup Looks
<1>1. PICK works \in BOOLEAN : works = (eligible # {})
  OBVIOUS
<1>2. PICK found : found = [patrol EXCEPT !.at = "free", !.eligible = {}, !.works = works]
  OBVIOUS
<1>3. found \in Looks
  BY <1>2 DEF Looks
<1>4. WithoutSitting(eligible) = Concluded(found)
  BY <1>1, <1>2 DEF WithoutSitting
<1> QED
  BY <1>3, <1>4, ConcludedIs

(* A patrol that is not idle remembers a look.                             *)
LEMMA LooksIs ==
    ASSUME Typed, patrol.at # "idle"
    PROVE  patrol \in Looks
BY DEF Typed, Idle

(* The patrol gives seats up and moves the round's state, and takes no     *)
(* ballot away.                                                            *)
LEMMA PatrolIs ==
    ASSUME Typed, PatrolStep
    PROVE  /\ UNCHANGED <<holders, frozen, trail, seated, decision, ask, bounds>>
           /\ patrol' \in {Idle} \cup Looks
           /\ \/ round' = round /\ panel' = panel
              \/ \E q \in People : GivesUp(q)
              \/ Restaffs
<1>1. UNCHANGED <<holders, frozen, trail, seated, decision, ask, bounds>>
  BY DEF PatrolStep, look, nearestRoleNode, place, reviewersAt, openPanelOf, livePanelSeats,
     endPanelAssignment, moveRound, patrolled, sitting
<1>2. ASSUME look
      PROVE  round' = round /\ panel' = panel /\ patrol' \in Looks
  <2>1. PICK at \in {"ask", "nearest"} : patrol' = Seen(at)
    BY <1>2 DEF look
  <2>2. round.state \in {"active", "blocked"} /\ round.stage \in Steps
    BY <1>2 DEF look, Typed, RoundRow
  <2> QED
    BY <1>2, <2>1, <2>2 DEF look, Seen, Looks, sitting
<1>3. ASSUME nearestRoleNode
      PROVE  round' = round /\ panel' = panel /\ patrol' \in {Idle} \cup Looks
  <2>1. patrol \in Looks
    BY <1>3, LooksIs DEF nearestRoleNode
  <2> QED
    BY <1>3, <2>1 DEF nearestRoleNode, Looks, sitting
<1>4. ASSUME place
      PROVE  /\ patrol' \in {Idle} \cup Looks
             /\ (round' = round /\ panel' = panel) \/ Restaffs
  <2>1. patrol \in Looks
    BY <1>4, LooksIs DEF place
  <2>2. patrol' \in {Idle} \cup Looks /\ panel' = panel
    BY <1>4, <2>1 DEF place, Looks, sitting
  <2> QED
    BY <1>4, <2>2 DEF place, Restaffs
<1>5. ASSUME reviewersAt
      PROVE  round' = round /\ panel' = panel /\ patrol' \in {Idle} \cup Looks
  <2>1. patrol \in Looks
    BY <1>5, LooksIs DEF reviewersAt
  <2>2. PICK eligible : /\ eligible = Independent(patrol.stage, Judged(trail, panel))
                        /\ patrol' = IF patrol.stage \in Panels
                              THEN [patrol EXCEPT !.at = "sitting", !.eligible = eligible]
                              ELSE WithoutSitting(eligible)
    BY <1>5 DEF reviewersAt
  <2>3. eligible \in SUBSET People
    BY <2>1, <2>2 DEF Independent, Typed, Looks
  <2>4. patrol' \in {Idle} \cup Looks
    BY <2>1, <2>2, <2>3, WithoutSittingIs DEF Looks
  <2> QED
    BY <1>5, <2>4 DEF reviewersAt, sitting
<1>6. ASSUME openPanelOf
      PROVE  round' = round /\ panel' = panel /\ patrol' \in {Idle} \cup Looks
  <2>1. patrol \in Looks
    BY <1>6, LooksIs DEF openPanelOf
  <2>2. \/ patrol' = [patrol EXCEPT !.at = "seats"]
        \/ \E eligible : patrol' = WithoutSitting(eligible)
    BY <1>6 DEF openPanelOf
  <2>3. patrol' \in {Idle} \cup Looks
    BY <2>1, <2>2, WithoutSittingIs DEF Looks
  <2> QED
    BY <1>6, <2>3 DEF openPanelOf, sitting
<1>7. ASSUME livePanelSeats
      PROVE  round' = round /\ panel' = panel /\ patrol' \in {Idle} \cup Looks
  <2>1. patrol \in Looks
    BY <1>7, LooksIs DEF livePanelSeats
  <2>2. PICK p : p = FoundSitting
    OBVIOUS
  <2>3. p = None \/ p \in PanelRow
    BY <2>1, <2>2 DEF FoundSitting, Looks, Typed
  <2> DEFINE waiting == {q \in People : Seated(p, q) /\ p.votes[q] = "none"}
             lost == waiting \ patrol.eligible
  <2>4. PICK doomed : doomed = {<<q, p.seat[q]>> : q \in lost}
    OBVIOUS
  <2>5. PICK works \in BOOLEAN : works = (waiting \cap patrol.eligible # {})
    OBVIOUS
  <2>6. PICK vacancies : vacancies = IF \E q \in patrol.eligible : ~Seated(p, q)
                                     THEN Chairs(p) + Cardinality(lost) ELSE 0
    OBVIOUS
  <2>7. PICK found : found = [patrol EXCEPT !.at = "free", !.eligible = {}, !.works = works,
                                            !.vacancies = vacancies, !.doomed = doomed]
    OBVIOUS
  <2>8. patrol' = IF p = None THEN WithoutSitting({}) ELSE Concluded(found)
    BY <1>7, <2>2, <2>4, <2>5, <2>6, <2>7 DEF livePanelSeats
  <2>9. CASE p = None
    BY <1>7, <2>1, <2>8, <2>9, WithoutSittingIs DEF livePanelSeats, sitting
  <2>10. CASE p # None
    <3>1. p.size \in Nat /\ p.seat \in [People -> Nat]
      BY <2>3, <2>10, PeopleFinite DEF PanelRow
    <3>2. doomed \in SUBSET (People \X Nat)
      BY <2>4, <3>1
    <3>3. Cardinality(lost) \in Nat /\ Cardinality({q \in People : Seated(p, q)}) \in Nat
      <4>1. lost \in SUBSET People /\ {q \in People : Seated(p, q)} \in SUBSET People
        OBVIOUS
      <4> HIDE DEF lost
      <4> QED
        BY <4>1, PeopleFinite
    <3>4. vacancies \in Int
      <4> HIDE DEF lost
      <4> QED
        BY <2>6, <3>1, <3>3 DEF Chairs
    <3>5. found \in Looks
      BY <2>1, <2>7, <3>2, <3>4 DEF Looks
    <3> QED
      BY <1>7, <2>8, <2>10, <3>5, ConcludedIs DEF livePanelSeats, sitting
  <2> QED
    BY <2>9, <2>10
<1>8. ASSUME endPanelAssignment
      PROVE  /\ patrol' \in {Idle} \cup Looks
             /\ (round' = round /\ panel' = panel) \/ \E q \in People : GivesUp(q)
  <2>1. patrol \in Looks
    BY <1>8, LooksIs DEF endPanelAssignment
  <2>2. PICK seat \in patrol.doomed, less \in {patrol.vacancies, patrol.vacancies - 1} :
        \E p \in {FoundSitting} :
          /\ panel' = panel \/ (/\ p # None /\ patrol.left = None
                                /\ panel' = [panel EXCEPT !.seat[seat[1]] = 0])
          /\ patrol' = Concluded([patrol EXCEPT !.doomed = @ \ {seat}, !.vacancies = less])
    BY <1>8 DEF endPanelAssignment
  <2>3. seat \in People \X Nat /\ patrol.doomed \in SUBSET (People \X Nat) /\ patrol.vacancies \in Int
    BY <2>1, <2>2 DEF Looks
  <2>a. PICK doomed : doomed = patrol.doomed \ {seat}
    OBVIOUS
  <2>b. doomed \in SUBSET (People \X Nat) /\ less \in Int
    BY <2>2, <2>3, <2>a
  <2>4. PICK found : found = [patrol EXCEPT !.doomed = doomed, !.vacancies = less]
    OBVIOUS
  <2>5. found \in Looks
    BY <2>1, <2>4, <2>b DEF Looks
  <2>6. patrol' \in {Idle} \cup Looks
    BY <2>2, <2>a, <2>4, <2>5, ConcludedIs
  <2>7. PICK q \in People : q = seat[1]
    BY <2>3
  <2>8. panel' = panel \/ (panel # None /\ panel' = [panel EXCEPT !.seat[q] = 0])
    BY <2>2, <2>7 DEF FoundSitting
  <2> QED
    BY <1>8, <2>6, <2>8 DEF endPanelAssignment, GivesUp
<1>9. ASSUME moveRound
      PROVE  /\ patrol' \in {Idle} \cup Looks
             /\ (round' = round /\ panel' = panel) \/ Restaffs
  <2>1. patrol \in Looks /\ patrol.state \in {"active", "blocked"}
    BY <1>9, LooksIs DEF moveRound, Looks
  <2>2. patrol' = Idle /\ panel' = panel /\ decision = None
    BY <1>9 DEF moveRound, sitting
  <2>3. CASE round' = round
    BY <2>2, <2>3
  <2>4. CASE round' # round
    <3>1. PICK to \in {"active", "blocked"} :
             to = StateFor(patrol) /\ round' = [round EXCEPT !.state = to]
      BY <1>9, <2>4 DEF moveRound, StateFor
    <3>2. round.state = patrol.state
      BY <1>9, <2>4 DEF moveRound
    <3>3. PICK placed \in BOOLEAN : placed = round.placed
      BY DEF Typed, RoundRow
    <3>4. round' = [round EXCEPT !.placed = placed, !.state = to]
      BY <3>1, <3>3 DEF Typed, RoundRow
    <3> QED
      BY <2>1, <2>2, <3>2, <3>4 DEF Restaffs
  <2> QED
    BY <2>3, <2>4
<1> QED
  BY <1>1, <1>2, <1>3, <1>4, <1>5, <1>6, <1>7, <1>8, <1>9 DEF PatrolStep

(* A sitting with one seat given up.                                       *)
LEMMA GivesUpIs ==
    ASSUME Typed, NEW q \in People, GivesUp(q)
    PROVE  /\ panel \in PanelRow /\ panel' \in PanelRow /\ panel' # None
           /\ panel'.stage = panel.stage /\ panel'.votes = panel.votes
           /\ panel'.size = panel.size /\ panel'.seat = [panel.seat EXCEPT ![q] = 0]
           /\ \A v \in People : Seated(panel', v) <=> Seated(panel, v) /\ v # q
           /\ Voters(panel') = Voters(panel) /\ Voters(panel)' = Voters(panel)
<1>1. panel \in PanelRow /\ panel # None /\ panel' = [panel EXCEPT !.seat[q] = 0]
  BY DEF Typed, GivesUp
<1>2. /\ panel' \in PanelRow /\ panel'.stage = panel.stage /\ panel'.votes = panel.votes
      /\ panel'.size = panel.size /\ panel'.seat = [panel.seat EXCEPT ![q] = 0]
  BY <1>1 DEF PanelRow
<1>3. panel' # None
  BY <1>2, NoneIsNoPanel
<1>4. \A v \in People : Seated(panel', v) <=> Seated(panel, v) /\ v # q
  BY <1>1, <1>2 DEF Seated, PanelRow
<1>5. Voters(panel') = Voters(panel) /\ Voters(panel)' = Voters(panel)
  BY <1>1, <1>2, <1>3 DEF Voters
<1> QED
  BY <1>1, <1>2, <1>3, <1>4, <1>5

(* The patrol keeps the round and its sitting together.                    *)
LEMMA PatrolKeepsSound ==
    ASSUME Sound, PatrolStep
    PROVE  Sound'
<1>0. Typed /\ OneSitting /\ Deciding
  BY DEF Sound
<1>1. /\ holders' = holders /\ frozen' = frozen /\ trail' = trail /\ seated' = seated
      /\ decision' = decision /\ ask' = ask /\ patrol' \in {Idle} \cup Looks
  BY <1>0, PatrolIs
<1>2. ASSUME round' = round, panel' = panel
      PROVE  Sound'
  <2>1. Typed'
    BY <1>0, <1>1, <1>2 DEF Typed
  <2>2. OneSitting' /\ Deciding'
    BY <1>0, <1>1, <1>2 DEF OneSitting, Deciding, Judged, Voters
  <2> QED
    BY <2>1, <2>2 DEF Sound
<1>3. ASSUME Restaffs
      PROVE  Sound'
  <2>1. PICK state \in {"active", "blocked"}, placed \in BOOLEAN :
           round' = [round EXCEPT !.placed = placed, !.state = state]
    BY <1>3 DEF Restaffs
  <2>2. /\ round' \in RoundRow /\ round'.state = state /\ round'.outcome = round.outcome
        /\ round'.stage = round.stage
    BY <1>0, <2>1 DEF Typed, RoundRow
  <2>3. panel' = panel /\ decision = None /\ round.state \in {"active", "blocked"}
    BY <1>3 DEF Restaffs
  <2>4. Typed'
    BY <1>0, <1>1, <2>2, <2>3 DEF Typed
  <2>5. OneSitting'
    BY <1>0, <2>2, <2>3 DEF OneSitting
  <2> QED
    BY <1>1, <2>3, <2>4, <2>5 DEF Sound, Deciding
<1>4. ASSUME NEW q \in People, GivesUp(q)
      PROVE  Sound'
  <2>1. panel # None /\ round' = round /\ panel \in PanelRow /\ Fits(panel, seated)
    BY <1>0, <1>4 DEF Typed, GivesUp
  <2>2. /\ panel' \in PanelRow /\ panel' # None /\ panel'.stage = panel.stage
        /\ panel'.size = panel.size /\ panel'.seat = [panel.seat EXCEPT ![q] = 0]
        /\ \A v \in People : Seated(panel', v) <=> Seated(panel, v) /\ v # q
        /\ Voters(panel') = Voters(panel) /\ Voters(panel)' = Voters(panel)
    BY <1>0, <1>4, GivesUpIs
  <2>3. Fits(panel', seated')
    <3> DEFINE A == {v \in People : Seated(panel, v)}
               B == {v \in People : Seated(panel', v)}
    <3>1. \A v \in People : panel'.seat[v] <= seated'
      BY <1>0, <1>1, <2>1, <2>2 DEF Fits, Typed, PanelRow
    <3>2. B \in SUBSET A /\ A \in SUBSET People /\ B \in SUBSET People
      BY <2>2
    <3>3. Cardinality(A) <= panel.size /\ panel.size \in Nat
      BY <2>1 DEF Fits, PanelRow
    <3>4. Cardinality(B) <= panel'.size
      <4> HIDE DEF A, B
      <4>1. IsFiniteSet(A) /\ Cardinality(A) \in Nat /\ Cardinality(B) \in Nat
        BY <3>2, PeopleFinite
      <4>2. Cardinality(B) <= Cardinality(A)
        BY <3>2, <4>1, FS_Subset
      <4> QED
        BY <2>2, <3>3, <4>1, <4>2
    <3> QED
      BY <3>1, <3>4 DEF Fits
  <2>4. Typed'
    BY <1>0, <1>1, <2>1, <2>2, <2>3 DEF Typed
  <2>5. OneSitting'
    BY <1>0, <2>1, <2>2 DEF OneSitting
  <2>6. Judged(trail, panel)' = Judged(trail, panel)
    BY <1>1, <2>2 DEF Judged
  <2>7. Deciding'
    BY <1>0, <1>1, <2>1, <2>2, <2>6 DEF Deciding
  <2> QED
    BY <2>4, <2>5, <2>7 DEF Sound
<1> QED
  BY <1>0, <1>2, <1>3, <1>4, PatrolIs

(* Every step keeps the round, its sitting and the decision in hand        *)
(* together.                                                               *)
LEMMA SoundStep == Sound /\ [Next]_vars => Sound'
<1> SUFFICES ASSUME Sound, [Next]_vars PROVE Sound'
  OBVIOUS
<1>1. ASSUME letGo PROVE Sound'
  <2>1. /\ holders' = holders /\ frozen' = frozen /\ round' = round /\ trail' = trail
        /\ panel' = panel /\ seated' = seated /\ decision' = None /\ ask' = ask /\ patrol' = patrol
    BY <1>1 DEF letGo, sitting
  <2>2. Typed'
    BY <2>1 DEF Sound, Typed
  <2> QED
    BY <2>1, <2>2 DEF Sound, OneSitting, Deciding, Voters
<1>2. ASSUME UNCHANGED vars PROVE Sound'
  <2>1. Typed'
    BY <1>2 DEF Sound, Typed, vars, sitting
  <2> QED
    BY <1>2, <2>1 DEF Sound, OneSitting, Deciding, Judged, Voters, vars, sitting
<1> QED
  BY <1>1, <1>2, SayKeepsSound, TakeUpKeepsSound, AskingKeepsSound, StaffingKeepsSound,
     PatrolKeepsSound DEF Next

(* Every variable is of its type, always: a closed round and no other has  *)
(* an outcome, and a sitting never has more members than chairs.           *)
THEOREM TypeCorrect == Spec => []TypeOK
BY SoundInit, SoundStep, TypedIsTypeOK, PTL DEF Spec, Sound

(* At most one sitting is open, where the round stands and while it does.  *)
THEOREM SittingIsOne == Spec => []OneSitting
BY SoundInit, SoundStep, PTL DEF Spec, Sound

-----------------------------------------------------------------------------
(***************************************************************************)
(* What a step may do to the round's history.                              *)
(***************************************************************************)

(* The round stands where it may, and its history is of the steps it has   *)
(* left, or, once it is over, of the one where it ended.                   *)
Walked ==
    /\ Enterable(round.stage)
    /\ \A e \in trail : \/ Number(e.stage) < Number(round.stage)
                        \/ round.outcome # None /\ e.stage = round.stage

(* The round comes to another step, further on: everything between is on   *)
(* record as stepped over, and on the ordinary route nothing is, which was *)
(* left with a yes.                                                        *)
WalksTo(n, new) ==
    /\ n \in Steps /\ Enterable(n) /\ Arrived(n) /\ Number(n) > Number(round.stage)
    /\ \E over \in SUBSET EventRow :
          /\ trail' = trail \cup new \cup over
          /\ \A e \in over : e.who = None /\ Number(e.stage) < Number(n)
          /\ \A t \in Behind(n) : \/ t = round.stage \/ t \in Behind(round.stage)
                                  \/ \E e \in over : e.stage = t
    /\ ~Climbing(n) =>
          /\ ~Climbing(round.stage) /\ \E e \in new : e.word = "approved"
          /\ \A t \in Behind(n) : t = round.stage \/ t \in Behind(round.stage)

(* A confirmation leads on to the next one.                                *)
LEMMA GoesOnWalks ==
    ASSUME Typed, Walked, NEW new, GoesOn(new)
    PROVE  \E n : WalksTo(n, new)
<1>1. PICK s \in Steps : s = round.stage
  BY DEF Typed, RoundRow
<1>2. ~Climbing(s) /\ After(s) # {} /\ Enterable(s)
  BY <1>1 DEF GoesOn, Walked
<1>3. PICK n : n = FirstOf(After(s))
  OBVIOUS
<1>4. Arrived(n) /\ trail' = trail \cup new /\ \E e \in new : e.word = "approved"
  BY <1>1, <1>3 DEF GoesOn
<1>5. n \in After(s) /\ \A t \in Behind(n) : t = s \/ t \in Behind(s)
  BY <1>2, <1>3, NextStep
<1>6. n \in Steps /\ RouteOf(n) = RouteOf(s) /\ IndexOf(n) > IndexOf(s) /\ Enterable(n)
  BY <1>5, AfterIs
<1>7. IndexOf(n) \in Nat /\ IndexOf(s) \in Nat /\ Number(n) \in Nat /\ Number(s) \in Nat
  BY <1>6, OnItsRoute, NumberIs
<1>8. Number(n) > Number(s)
  BY <1>6, <1>7, NumberOrder
<1>9. \E over \in SUBSET EventRow :
          /\ trail' = trail \cup new \cup over
          /\ \A e \in over : e.who = None /\ Number(e.stage) < Number(n)
          /\ \A t \in Behind(n) : \/ t = s \/ t \in Behind(s)
                                  \/ \E e \in over : e.stage = t
  <2>1. PICK over \in SUBSET EventRow : over = {}
    OBVIOUS
  <2> QED
    BY <1>4, <1>5, <2>1
<1>10. WalksTo(n, new)
  BY <1>1, <1>2, <1>4, <1>5, <1>6, <1>8, <1>9 DEF WalksTo
<1> QED
  BY <1>10

(* Climbing leads further up, over what is recorded.                       *)
LEMMA ClimbsOnWalks ==
    ASSUME Typed, Walked, NEW new, ClimbsOn(new)
    PROVE  \E n : WalksTo(n, new)
<1>1. PICK s \in Steps : s = round.stage
  BY DEF Typed, RoundRow
<1>2. Enterable(s) /\ IndexOf(s) \in Nat /\ IndexOf(s) >= 1
  BY <1>1, OnItsRoute DEF Walked
<1>3. PICK from \in Nat : from = IF Climbing(s) THEN IndexOf(s) + 1 ELSE 1
  BY <1>2
<1>4. PICK said : said = trail \cup new
  OBVIOUS
<1>5. Climbs(from, said)
  BY <1>1, <1>3, <1>4 DEF ClimbsOn
<1>6. PICK n \in EnterableFrom(Escalation, from) :
          Arrived(n) /\ trail' = said \cup SteppedOver(from, n)
  BY <1>5 DEF Climbs
<1>7. n \in Steps /\ RouteOf(n) = Escalation /\ IndexOf(n) >= from /\ Enterable(n) /\ Climbing(n)
  BY <1>6, EnterableIs DEF Routes, Climbing
<1>8. IndexOf(n) \in Nat /\ Number(n) \in Nat /\ Number(s) \in Nat
  BY <1>7, OnItsRoute, NumberIs
<1>9. Number(n) > Number(s)
  <2>1. CASE Climbing(s)
    <3>1. RouteOf(s) = RouteOf(n) /\ IndexOf(s) < IndexOf(n)
      BY <1>2, <1>3, <1>7, <1>8, <2>1 DEF Climbing
    <3> QED
      BY <1>7, <1>8, <3>1, NumberOrder
  <2>2. CASE ~Climbing(s)
    BY <1>7, <1>8, <2>2, NumberOrder
  <2> QED
    BY <2>1, <2>2
<1>10. PICK over \in SUBSET EventRow : over = SteppedOver(from, n)
  BY SteppedOverRows
<1>11. ASSUME NEW t \in Steps
       PROVE  t \in EnterableFrom(Escalation, from) \ EnterableFrom(Escalation, IndexOf(n)) <=>
                /\ RouteOf(t) = Escalation /\ Enterable(t)
                /\ IndexOf(t) >= from /\ IndexOf(t) < IndexOf(n)
  <2>1. IndexOf(t) \in Nat
    BY OnItsRoute
  <2>2. /\ t \in EnterableFrom(Escalation, from) <=>
             RouteOf(t) = Escalation /\ IndexOf(t) >= from /\ Enterable(t)
        /\ t \in EnterableFrom(Escalation, IndexOf(n)) <=>
             RouteOf(t) = Escalation /\ IndexOf(t) >= IndexOf(n) /\ Enterable(t)
    BY <1>8, EnterableIs DEF Routes
  <2> QED
    BY <1>8, <2>1, <2>2
<1>12. \A e \in over : e.who = None /\ Number(e.stage) < Number(n)
  <2> TAKE e \in over
  <2>1. e.who = None /\ e.stage \in EnterableFrom(Escalation, from) \ EnterableFrom(Escalation, IndexOf(n))
    BY <1>10 DEF SteppedOver
  <2>2. PICK t \in Steps : t = e.stage
    BY <1>10 DEF EventRow
  <2>3. RouteOf(t) = RouteOf(n) /\ IndexOf(t) < IndexOf(n)
    BY <1>7, <1>11, <2>1, <2>2
  <2> QED
    BY <1>7, <2>1, <2>2, <2>3, NumberOrder
<1>13. ASSUME NEW t \in Behind(n)
       PROVE  t = s \/ t \in Behind(s) \/ \E e \in over : e.stage = t
  <2>1. t \in Steps /\ RouteOf(t) = Escalation /\ IndexOf(t) < IndexOf(n) /\ Enterable(t)
    BY <1>7, <1>13, AfterIs
  <2>2. IndexOf(t) \in Nat /\ IndexOf(t) >= 1
    BY <2>1, OnItsRoute
  <2>3. CASE IndexOf(t) >= from
    <3>1. t \in EnterableFrom(Escalation, from) \ EnterableFrom(Escalation, IndexOf(n))
      BY <1>11, <2>1, <2>3
    <3>2. [stage |-> t, who |-> None, word |-> "stage-skipped"] \in over
      BY <1>10, <3>1 DEF SteppedOver
    <3> QED
      BY <3>2
  <2>4. CASE IndexOf(t) < from
    <3>1. Climbing(s) /\ IndexOf(t) <= IndexOf(s)
      BY <1>2, <1>3, <2>2, <2>4
    <3>2. RouteOf(t) = RouteOf(s)
      BY <2>1, <3>1 DEF Climbing
    <3>3. IndexOf(t) = IndexOf(s) => t = s
      BY <2>1, <3>2, OnItsRoute
    <3> QED
      BY <1>2, <2>1, <2>2, <3>1, <3>2, <3>3, AfterIs
  <2> QED
    BY <1>3, <2>2, <2>3, <2>4
<1>14. trail' = trail \cup new \cup over
  BY <1>4, <1>6, <1>10
<1>15. WalksTo(n, new)
  BY <1>1, <1>6, <1>7, <1>9, <1>12, <1>13, <1>14 DEF WalksTo
<1> QED
  BY <1>15

(* The round stands still and its record does not change, ballots may have *)
(* been dissolved; or it is ended over everybody's head; or somebody who   *)
(* may still judge has decided.                                            *)
StandsStill ==
    /\ round'.stage = round.stage /\ round'.outcome = round.outcome /\ trail' = trail
    /\ Voters(panel)' \subseteq Voters(panel)
CalledOff ==
    /\ round.outcome = None /\ round'.outcome = "cancelled"
    /\ round'.stage = round.stage /\ trail' = trail /\ Voters(panel)' = {}
DecidedBy(q) ==
    /\ round.outcome = None
    /\ Climbing(round.stage) => q \notin Judged(trail, panel)
    /\ \/ \E new : Said(q, new) /\ (Concludes(new) \/ \E n : WalksTo(n, new))
       \/ Casts(q)

(* A step leaves the record alone, calls the round off, or adds the word of*)
(* one person who had not spoken.                                          *)
LEMMA StepIs ==
    ASSUME Sound, Walked, [Next]_vars
    PROVE  /\ frozen' = frozen
           /\ StandsStill \/ CalledOff \/ \E q \in People : DecidedBy(q)
<1>0. Typed /\ OneSitting /\ Deciding
  BY DEF Sound
<1>1. ASSUME NEW q \in People, NEW word \in {"approve", "reject", "escalate"}, say(q, word)
      PROVE  frozen' = frozen /\ DecidedBy(q)
  <2>1. frozen' = frozen /\ decision # None /\ q = decision.by
    BY <1>1 DEF say
  <2>2. round.outcome = None /\ (Climbing(round.stage) => q \notin Judged(trail, panel))
    BY <1>0, <2>1 DEF Deciding, Typed
  <2>3. \/ \E new : Said(q, new) /\ (Concludes(new) \/ GoesOn(new) \/ ClimbsOn(new))
        \/ Casts(q)
    BY <1>0, <1>1, SayIs
  <2>4. \/ \E new : Said(q, new) /\ (Concludes(new) \/ \E n : WalksTo(n, new))
        \/ Casts(q)
    BY <1>0, <2>3, GoesOnWalks, ClimbsOnWalks
  <2> QED
    BY <2>1, <2>2, <2>4 DEF DecidedBy
<1>2. ASSUME answerSupplement
      PROVE  frozen' = frozen /\ StandsStill
  <2>1. frozen' = frozen /\ trail' = trail /\ round.outcome = None /\ round.stage \in Steps
    BY <1>0, <1>2 DEF answerSupplement, Typed, RoundRow
  <2>2. CASE Voters(panel) # {}
    <3>1. PICK s, judged : s \in Steps /\ s = round.stage /\ judged = Judged(trail, None)
      BY <2>1
    <3>2. arrive(s, judged)
      BY <1>2, <2>2, <3>1 DEF answerSupplement, arrive
    <3>3. Arrived(s)
      BY <3>1, <1>0, <3>2, ArriveIs
    <3> QED
      BY <2>1, <3>1, <3>3 DEF Arrived, StandsStill
  <2>3. CASE Voters(panel) = {}
    <3>1. round' = [round EXCEPT !.state = "active"] /\ panel' = panel
      BY <1>2, <2>3 DEF answerSupplement, sitting
    <3> QED
      BY <1>0, <2>1, <3>1 DEF Typed, RoundRow, StandsStill, Voters
  <2> QED
    BY <2>2, <2>3
<1>3. ASSUME cancelReviewInstance
      PROVE  frozen' = frozen /\ CalledOff
  BY <1>0, <1>3 DEF cancelReviewInstance, Typed, RoundRow, CalledOff, Voters
<1>4. ASSUME \/ \E q \in People : \/ takeUp(q) \/ requestSupplement(q)
                                  \/ \E s \in Steps : appoint(s, q) \/ dismiss(s, q)
             \/ findSitting \/ reviewersAtStage \/ letGo \/ cancelSupplement \/ UNCHANGED vars
      PROVE  frozen' = frozen /\ StandsStill
  <2>1. /\ frozen' = frozen /\ trail' = trail /\ panel' = panel
        /\ round' = round \/ \E state : round' = [round EXCEPT !.state = state]
    BY <1>4 DEF takeUp, findSitting, reviewersAtStage, requestSupplement, appoint, dismiss,
       letGo, cancelSupplement, vars, sitting
  <2>2. round'.stage = round.stage /\ round'.outcome = round.outcome
    BY <1>0, <2>1 DEF Typed, RoundRow
  <2> QED
    BY <2>1, <2>2 DEF StandsStill, Voters
<1>5. ASSUME PatrolStep
      PROVE  frozen' = frozen /\ StandsStill
  <2>1. frozen' = frozen /\ trail' = trail
    BY <1>0, <1>5, PatrolIs
  <2>2. ASSUME round' = round, panel' = panel PROVE StandsStill
    BY <2>1, <2>2 DEF StandsStill, Voters
  <2>3. ASSUME NEW q \in People, GivesUp(q) PROVE StandsStill
    BY <1>0, <2>1, <2>3, GivesUpIs DEF GivesUp, StandsStill
  <2>4. ASSUME Restaffs PROVE StandsStill
    BY <1>0, <2>1, <2>4 DEF Restaffs, StandsStill, Voters, Typed, RoundRow
  <2> QED
    BY <1>0, <1>5, <2>1, <2>2, <2>3, <2>4, PatrolIs
<1> QED
  BY <1>1, <1>2, <1>3, <1>4, <1>5 DEF Next

-----------------------------------------------------------------------------
(***************************************************************************)
(* The round's history.                                                    *)
(***************************************************************************)

(* A climbing step where somebody has judged is that person's only one,    *)
(* and whoever votes at the open sitting has not judged before.            *)
JudgedOnce == \A p \in People :
    /\ \A e, f \in WordsOf(p) : Climbing(e.stage) => e = f
    /\ p \in Voters(panel) => WordsOf(p) = {}

(* What resolved behind the round was spoken at, on the ordinary route     *)
(* with a yes; and a round ended with a yes has it on its last step.       *)
Answered ==
    /\ \A s \in Behind(round.stage) :
          /\ SpokenAt(s)
          /\ ~Climbing(round.stage) => \E e \in trail : e.stage = s /\ e.word = "approved"
    /\ round.outcome = "approved" =>
          /\ isRouteEnd(round.stage)
          /\ \E e \in trail : e.stage = round.stage /\ e.word = "approved"
          /\ ~\E e \in trail : e.stage = round.stage /\ e.word \in {"no", "rejected"}

History == Walked /\ JudgedOnce /\ Answered

(* The routes are settled when the round opens.                            *)
LEMMA RoutesStay ==
    ASSUME frozen' = frozen
    PROVE  /\ \A s : Enterable(s)' <=> Enterable(s)
           /\ \A s : Behind(s)' = Behind(s) /\ (isRouteEnd(s)' <=> isRouteEnd(s))
BY DEF Enterable, Behind, After, EnterableFrom, isRouteEnd

(* Where the round stands and what is behind it follow the stage alone.    *)
LEMMA WalkedStep ==
    ASSUME Sound, Walked, [Next]_vars
    PROVE  Walked'
<1>0. Typed /\ round.stage \in Steps
  BY DEF Sound, Typed, RoundRow
<1>1. \A s : Enterable(s)' <=> Enterable(s)
  BY StepIs, RoutesStay
<1>2. CASE StandsStill \/ CalledOff
  <2>1. /\ round'.stage = round.stage /\ trail' = trail
        /\ round.outcome # None => round'.outcome # None
    BY <1>2 DEF StandsStill, CalledOff
  <2> QED
    BY <1>1, <2>1 DEF Walked
<1>3. ASSUME NEW q \in People, NEW new, Said(q, new), Concludes(new)
      PROVE  Walked'
  <2>1. PICK outcome \in {"approved", "rejected"} :
          /\ round' = [round EXCEPT !.state = "completed", !.outcome = outcome]
          /\ trail' = trail \cup new
    BY <1>3 DEF Concludes
  <2>2. round'.stage = round.stage /\ round'.outcome # None
    BY <1>0, <2>1, RoundConstants DEF Typed, RoundRow
  <2>3. \A e \in new : e.stage = round.stage
    BY <1>3 DEF Said
  <2> QED
    BY <1>1, <2>1, <2>2, <2>3 DEF Walked
<1>4. ASSUME NEW q \in People, NEW new, Said(q, new), NEW n, WalksTo(n, new),
             round.outcome = None
      PROVE  Walked'
  <2>1. PICK over : /\ trail' = trail \cup new \cup over
                    /\ \A e \in over : Number(e.stage) < Number(n)
    BY <1>4 DEF WalksTo
  <2>2. n \in Steps /\ Enterable(n) /\ round'.stage = n /\ Number(n) > Number(round.stage)
    BY <1>4 DEF WalksTo, Arrived
  <2>3. PICK s \in Steps : s = round.stage
    BY <1>0
  <2>4. Number(n) \in Nat /\ Number(s) \in Nat
    BY <2>2, NumberIs
  <2>5. \A e \in trail : Number(e.stage) < Number(s)
    BY <1>4, <2>3 DEF Walked
  <2>6. \A e \in trail : e.stage \in Steps
    BY <1>0 DEF Typed, EventRow
  <2>7. \A e \in trail : Number(e.stage) < Number(n)
    <3> TAKE e \in trail
    <3>1. PICK t \in Steps : t = e.stage
      BY <2>6
    <3>2. Number(t) \in Nat
      BY NumberIs
    <3> QED
      BY <2>2, <2>3, <2>4, <2>5, <3>1, <3>2
  <2>8. \A e \in new : e.stage = s
    BY <1>4, <2>3 DEF Said
  <2>9. \A e \in trail' : Number(e.stage) < Number(n)
    BY <2>1, <2>2, <2>3, <2>7, <2>8
  <2> QED
    BY <1>1, <2>2, <2>9 DEF Walked
<1>5. ASSUME NEW q \in People, Casts(q)
      PROVE  Walked'
  BY <1>1, <1>5 DEF Walked, Casts
<1>6. CASE \E q \in People : DecidedBy(q)
  BY <1>3, <1>4, <1>5, <1>6 DEF DecidedBy
<1> QED
  BY <1>2, <1>6, StepIs

(* Nobody who has judged a round that climbs is heard on it again: a       *)
(* decision's words are of one who has not, and of the sitting's voters.   *)
LEMMA JudgedOnceStep ==
    ASSUME Sound, Walked, JudgedOnce, [Next]_vars
    PROVE  JudgedOnce'
<1>0. Typed /\ OneSitting /\ round.stage \in Steps
  BY DEF Sound, Typed, RoundRow
<1>1. CASE StandsStill \/ CalledOff
  <2>1. trail' = trail /\ Voters(panel)' \subseteq Voters(panel)
    BY <1>1 DEF StandsStill, CalledOff
  <2> QED
    BY <2>1 DEF JudgedOnce, WordsOf
<1>2. ASSUME NEW q \in People, q \notin Judged(trail, panel)
      PROVE  WordsOf(q) = {} /\ q \notin Voters(panel)
  BY <1>2, RoundConstants DEF Judged, WordsOf
<1>3. ASSUME NEW q \in People, NEW new, Said(q, new), round.outcome = None,
             Climbing(round.stage) => q \notin Judged(trail, panel),
             NEW over, \A e \in over : e.who = None, trail' = trail \cup new \cup over,
             Voters(panel)' = {}
      PROVE  JudgedOnce'
  <2>1. /\ \A e \in new : e.stage = round.stage /\ e.who \in Voters(panel) \cup {q, None}
        /\ \A e, f \in new : e.who = f.who /\ e.who # None => e = f
    BY <1>3 DEF Said
  <2>2. \A p \in People : \A e \in WordsOf(p)' : e \in WordsOf(p) \/ (e \in new /\ e.who = p)
    BY <1>3, RoundConstants DEF WordsOf
  <2>3. CASE Climbing(round.stage)
    <3>1. WordsOf(q) = {}
      BY <1>2, <1>3, <2>3
    <3>2. \A p \in People : p \in Voters(panel) \cup {q} => WordsOf(p) = {}
      BY <3>1 DEF JudgedOnce
    <3>3. ASSUME NEW p \in People, NEW e \in WordsOf(p)', NEW f \in WordsOf(p)',
                 Climbing(e.stage)
          PROVE  e = f
      <4>1. CASE p \in Voters(panel) \cup {q}
        BY <2>1, <2>2, <3>2, <3>3, <4>1, RoundConstants
      <4>2. CASE p \notin Voters(panel) \cup {q}
        <5>1. p # None /\ \A g \in new : g.who # p
          BY <2>1, <4>2, RoundConstants
        <5>2. e \in WordsOf(p) /\ f \in WordsOf(p)
          BY <2>2, <5>1
        <5> QED
          BY <3>3, <5>2 DEF JudgedOnce
      <4> QED
        BY <4>1, <4>2
    <3> QED
      BY <1>3, <3>3 DEF JudgedOnce
  <2>4. CASE ~Climbing(round.stage)
    <3>1. PICK s \in Steps : s = round.stage
      BY <1>0
    <3>2. ASSUME NEW e \in trail PROVE ~Climbing(e.stage)
      <4>1. PICK t \in Steps : t = e.stage
        BY <1>0 DEF Typed, EventRow
      <4>2. Number(t) < Number(s)
        BY <1>3, <3>1, <4>1 DEF Walked
      <4>3. /\ Number(t) \in Nat /\ Number(s) \in Nat /\ Len(Normal) \in Nat
            /\ (Climbing(t) <=> Number(t) > Len(Normal)) /\ ~(Number(s) > Len(Normal))
        BY <2>4, <3>1, NumberIs
      <4> QED
        BY <4>1, <4>2, <4>3
    <3>3. \A p \in People : \A e \in WordsOf(p)' : ~Climbing(e.stage)
      BY <2>1, <2>2, <2>4, <3>2 DEF WordsOf
    <3> QED
      BY <1>3, <3>3 DEF JudgedOnce
  <2> QED
    BY <2>3, <2>4
<1>4. ASSUME NEW q \in People, Casts(q), Climbing(round.stage) => q \notin Judged(trail, panel)
      PROVE  JudgedOnce'
  <2>1. WordsOf(q) = {}
    BY <1>2, <1>4 DEF Casts
  <2>2. trail' = trail /\ Voters(panel') \subseteq Voters(panel) \cup {q}
    BY <1>4 DEF Casts
  <2>3. \A p \in People : WordsOf(p)' = WordsOf(p)
    BY <2>2 DEF WordsOf
  <2>4. \A p \in People : p \in Voters(panel)' => WordsOf(p) = {}
    BY <2>1, <2>2 DEF JudgedOnce, Voters
  <2> QED
    BY <2>3, <2>4 DEF JudgedOnce
<1>5. ASSUME NEW q \in People, DecidedBy(q)
      PROVE  JudgedOnce'
  <2>1. /\ round.outcome = None
        /\ Climbing(round.stage) => q \notin Judged(trail, panel)
    BY <1>5 DEF DecidedBy
  <2>2. ASSUME NEW new, Said(q, new), Concludes(new)
        PROVE  JudgedOnce'
    <3>1. trail' = trail \cup new \cup {} /\ Voters(panel)' = {}
      BY <2>2 DEF Concludes, Voters
    <3> QED
      BY <1>3, <2>1, <2>2, <3>1
  <2>3. ASSUME NEW new, Said(q, new), NEW n, WalksTo(n, new)
        PROVE  JudgedOnce'
    <3>1. PICK over : /\ trail' = trail \cup new \cup over
                      /\ \A e \in over : e.who = None
      BY <2>3 DEF WalksTo
    <3>2. Voters(panel)' = {}
      BY <2>3 DEF WalksTo, Arrived
    <3> QED
      BY <1>3, <2>1, <2>3, <3>1, <3>2
  <2> QED
    BY <1>4, <1>5, <2>1, <2>2, <2>3 DEF DecidedBy
<1> QED
  BY <1>1, <1>5, StepIs

(* Every step that is left behind has been spoken at, and the yes that     *)
(* ends a round is on the step where it ended.                             *)
LEMMA AnsweredStep ==
    ASSUME Sound, Walked, Answered, [Next]_vars
    PROVE  Answered'
<1>0. Typed /\ round.stage \in Steps
  BY DEF Sound, Typed, RoundRow
<1>1. \A s : Behind(s)' = Behind(s) /\ (isRouteEnd(s)' <=> isRouteEnd(s))
  BY StepIs, RoutesStay
<1>2. PICK s \in Steps : s = round.stage
  BY <1>0
<1>3. \A t \in Behind(s) :
          /\ \E e \in trail : e.stage = t
          /\ ~Climbing(s) => \E e \in trail : e.stage = t /\ e.word = "approved"
  BY <1>2 DEF Answered, SpokenAt
<1>4. ASSUME round'.stage = s, trail \subseteq trail',
             round'.outcome = "approved" =>
                /\ isRouteEnd(s)
                /\ \E e \in trail' : e.stage = s /\ e.word = "approved"
                /\ ~\E e \in trail' : e.stage = s /\ e.word \in {"no", "rejected"}
      PROVE  Answered'
  <2>1. PICK b : b = Behind(s)
    OBVIOUS
  <2>2. Behind(round.stage)' = b
    <3>1. Behind(s)' = b
      BY <1>1, <2>1
    <3> QED
      BY <1>4, <3>1 DEF Behind, After
  <2>3. isRouteEnd(round.stage)' <=> isRouteEnd(s)
    <3>1. isRouteEnd(s)' <=> isRouteEnd(s)
      BY <1>1
    <3> QED
      BY <1>4, <3>1 DEF isRouteEnd, After
  <2> QED
    BY <1>3, <1>4, <2>1, <2>2, <2>3 DEF Answered, SpokenAt
<1>5. CASE StandsStill \/ CalledOff
  <2>1. /\ round'.stage = s /\ trail' = trail
        /\ round'.outcome = "approved" => round.outcome = "approved"
    BY <1>2, <1>5 DEF StandsStill, CalledOff
  <2> QED
    BY <1>2, <1>4, <2>1 DEF Answered
<1>6. ASSUME NEW q \in People, NEW new, Said(q, new), Concludes(new), round.outcome = None
      PROVE  Answered'
  <2>1. PICK outcome \in {"approved", "rejected"} :
          /\ round' = [round EXCEPT !.state = "completed", !.outcome = outcome]
          /\ trail' = trail \cup new
          /\ outcome = "approved" => isRouteEnd(s) /\ Confirms(new)
    BY <1>2, <1>6 DEF Concludes
  <2>2. round'.stage = s /\ round'.outcome = outcome
    BY <1>0, <1>2, <2>1 DEF Typed, RoundRow
  <2>3. \A e \in new : e.stage = s
    BY <1>2, <1>6 DEF Said
  <2>4. \A e \in trail : e.stage # s
    <3> TAKE e \in trail
    <3>1. Number(e.stage) < Number(s) /\ Number(s) \in Nat
      BY <1>2, <1>6, NumberIs DEF Walked
    <3> QED
      BY <3>1
  <2> QED
    BY <1>4, <2>1, <2>2, <2>3, <2>4 DEF Confirms
<1>7. ASSUME NEW q \in People, NEW new, Said(q, new), NEW n, WalksTo(n, new)
      PROVE  Answered'
  <2>1. PICK over : /\ trail' = trail \cup new \cup over
                    /\ \A t \in Behind(n) : \/ t = s \/ t \in Behind(s)
                                            \/ \E e \in over : e.stage = t
    BY <1>2, <1>7 DEF WalksTo
  <2>2. /\ round'.stage = n /\ round'.outcome = None
        /\ ~Climbing(n) => /\ ~Climbing(s) /\ \E e \in new : e.word = "approved"
                           /\ \A t \in Behind(n) : t = s \/ t \in Behind(s)
    BY <1>2, <1>7 DEF WalksTo, Arrived
  <2>3. new # {} /\ \A e \in new : e.stage = s
    BY <1>2, <1>7 DEF Said
  <2>4. PICK b : b = Behind(n)
    OBVIOUS
  <2>5. Behind(round.stage)' = b
    <3>1. Behind(n)' = b
      BY <1>1, <2>4
    <3> QED
      BY <2>2, <3>1 DEF Behind, After
  <2>6. ASSUME NEW t \in b
        PROVE  /\ \E e \in trail' : e.stage = t
               /\ ~Climbing(n) => \E e \in trail' : e.stage = t /\ e.word = "approved"
    <3>1. \E e \in trail' : e.stage = t
      BY <1>3, <2>1, <2>3, <2>4, <2>6
    <3>2. ASSUME ~Climbing(n)
          PROVE  \E e \in trail' : e.stage = t /\ e.word = "approved"
      BY <1>3, <2>1, <2>2, <2>3, <2>4, <2>6, <3>2
    <3> QED
      BY <3>1, <3>2
  <2>7. round'.outcome # "approved"
    BY <2>2, RoundConstants
  <2> QED
    BY <2>2, <2>5, <2>6, <2>7 DEF Answered, SpokenAt
<1>8. ASSUME NEW q \in People, Casts(q), round.outcome = None
      PROVE  Answered'
  <2>1. round' = round /\ trail' = trail
    BY <1>8 DEF Casts
  <2>2. round'.outcome # "approved"
    BY <1>8, <2>1, RoundConstants
  <2> QED
    BY <1>2, <1>4, <2>1, <2>2
<1> QED
  BY <1>5, <1>6, <1>7, <1>8, StepIs DEF DecidedBy

(* A round opens with nothing behind it but what it stepped over.          *)
LEMMA HistoryInit == Init => History
<1> SUFFICES ASSUME Init PROVE History
  OBVIOUS
<1>1. PICK s, eligible : s \in Steps /\
         LET sits == eligible # {} /\ s \in Panels IN
         /\ eligible = Eligible(s, {})
         /\ s = IF Climbing(s) THEN Landing(1, {}) ELSE FirstOf(EnterableFrom(Normal, 1))
         /\ EnterableFrom(RouteOf(s), 1) # {}
         /\ round = Standing(s, IF eligible = {} THEN "blocked" ELSE "active")
         /\ panel = IF sits THEN createPanel(s, eligible, 1) ELSE None
         /\ trail = IF Climbing(s) THEN SteppedOver(1, s) ELSE {}
  BY DEF Init
<1>0. s \in Steps
  BY <1>1
<1>2. round.stage = s /\ round.outcome = None /\ Voters(panel) = {}
  BY <1>1 DEF Standing, Voters, createPanel
<1>3. s \in EnterableFrom(RouteOf(s), 1)
  <2>1. CASE Climbing(s)
    <3>1. RouteOf(s) = Escalation
      BY <2>1 DEF Climbing
    <3> QED
      BY <1>1, <2>1, <3>1, LandingIs
  <2>2. CASE ~Climbing(s)
    <3>1. RouteOf(s) = Normal
      BY <1>0, <2>2, ClimbingIs
    <3>2. PICK S : S = EnterableFrom(Normal, 1)
      OBVIOUS
    <3>3. S \in SUBSET Steps /\ S # {}
      BY <1>1, <3>1, <3>2, EnterableIs DEF Routes
    <3>4. FirstOf(S) \in S
      BY <3>3, FirstOfIs
    <3> QED
      BY <1>1, <2>2, <3>1, <3>2, <3>4
  <2> QED
    BY <2>1, <2>2
<1>4. Enterable(s) /\ IndexOf(s) \in Nat /\ IndexOf(s) >= 1
  BY <1>0, <1>3, OnItsRoute, EnterableIs
<1>5. \A e \in trail : e.who = None /\ Number(e.stage) < Number(s) /\ Climbing(s)
  <2> TAKE e \in trail
  <2>1. /\ Climbing(s) /\ e.who = None
        /\ e.stage \in EnterableFrom(Escalation, 1) \ EnterableFrom(Escalation, IndexOf(s))
    BY <1>1 DEF SteppedOver
  <2>2. PICK t : t = e.stage
    OBVIOUS
  <2>3. t \in Steps /\ RouteOf(t) = Escalation /\ ~(IndexOf(t) >= IndexOf(s))
    BY <1>4, <2>1, <2>2, EnterableIs DEF Routes
  <2>4. IndexOf(t) < IndexOf(s) /\ RouteOf(t) = RouteOf(s)
    BY <1>4, <2>1, <2>3, OnItsRoute DEF Climbing
  <2> QED
    BY <1>0, <2>1, <2>2, <2>3, <2>4, NumberOrder
<1>6. Walked
  BY <1>2, <1>4, <1>5 DEF Walked
<1>7. JudgedOnce
  BY <1>2, <1>5, RoundConstants DEF JudgedOnce, WordsOf
<1>8. ASSUME NEW t \in Behind(s)
      PROVE  Climbing(s) /\ \E e \in trail : e.stage = t
  <2>1. t \in Steps /\ RouteOf(t) = RouteOf(s) /\ IndexOf(t) < IndexOf(s) /\ Enterable(t)
    BY <1>0, <1>4, <1>8, AfterIs
  <2>2. IndexOf(t) \in Nat /\ IndexOf(t) >= 1 /\ RouteOf(s) \in Routes
    BY <2>1, OnItsRoute
  <2>3. t \in EnterableFrom(RouteOf(s), 1) \ EnterableFrom(RouteOf(s), IndexOf(s))
    BY <1>4, <2>1, <2>2, EnterableIs
  <2>4. CASE Climbing(s)
    <3>1. [stage |-> t, who |-> None, word |-> "stage-skipped"] \in SteppedOver(1, s)
      BY <2>3, <2>4 DEF SteppedOver, Climbing
    <3> QED
      BY <1>1, <2>4, <3>1
  <2>5. CASE ~Climbing(s)
    <3>1. RouteOf(s) = Normal
      BY <1>0, <2>5, ClimbingIs
    <3>2. PICK S : S = EnterableFrom(Normal, 1)
      OBVIOUS
    <3>3. S \in SUBSET Steps /\ t \in S
      BY <2>3, <3>1, <3>2, EnterableIs DEF Routes
    <3>4. IndexOf(FirstOf(S)) <= IndexOf(t)
      BY <3>3, FirstOfIs
    <3>5. IndexOf(s) <= IndexOf(t)
      BY <1>1, <2>5, <3>2, <3>4
    <3> QED
      BY <1>4, <2>1, <2>2, <3>5
  <2> QED
    BY <2>4, <2>5
<1>9. round.outcome # "approved"
  BY <1>2, RoundConstants
<1>10. Answered
  BY <1>2, <1>8, <1>9 DEF Answered, SpokenAt
<1> QED
  BY <1>6, <1>7, <1>10 DEF History

(* Every step keeps the record.                                            *)
LEMMA HistoryStep == Sound /\ History /\ [Next]_vars => History'
BY WalkedStep, JudgedOnceStep, AnsweredStep DEF History

(* A person's words that are all one word are at most one.                 *)
LEMMA OnceIsEnough == JudgedOnce => NobodyJudgesTwice
<1> SUFFICES ASSUME JudgedOnce, NEW q \in People
             PROVE  LET climbed == {e \in WordsOf(q) : Climbing(e.stage)}
                        voted == q \in Voters(panel)
                    IN /\ Cardinality(climbed) + (IF voted THEN 1 ELSE 0) <= 1
                       /\ climbed # {} \/ voted => climbed = WordsOf(q)
  BY DEF NobodyJudgesTwice
<1> DEFINE climbed == {e \in WordsOf(q) : Climbing(e.stage)}
<1>1. \A e, f \in WordsOf(q) : Climbing(e.stage) => e = f
  BY DEF JudgedOnce
<1>2. q \in Voters(panel) => WordsOf(q) = {}
  BY DEF JudgedOnce
<1>3. climbed = {} \/ \E e : climbed = {e} /\ climbed = WordsOf(q)
  BY <1>1
<1>4. Cardinality({}) = 0 /\ \A e : Cardinality({e}) = 1
  BY FS_EmptySet, FS_Singleton
<1>5. Cardinality(climbed) \in {0, 1} /\ (q \in Voters(panel) => Cardinality(climbed) = 0)
  <2>1. q \in Voters(panel) => climbed = {}
    BY <1>2
  <2> HIDE DEF climbed
  <2> QED
    BY <1>3, <1>4, <2>1
<1> HIDE DEF climbed
<1>6. Cardinality(climbed) + (IF q \in Voters(panel) THEN 1 ELSE 0) <= 1
  BY <1>5
<1>7. climbed # {} \/ q \in Voters(panel) => climbed = WordsOf(q)
  BY <1>2, <1>3 DEF climbed
<1> QED
  BY <1>6, <1>7 DEF climbed

(* A record that answers step by step answers every step of the routes.    *)
LEMMA AnsweredIsEvery == Typed /\ Walked /\ Answered => EveryStepAnswers
<1> SUFFICES ASSUME Typed, Walked, Answered PROVE EveryStepAnswers
  OBVIOUS
<1>1. PICK s \in Steps : s = round.stage
  BY DEF Typed, RoundRow
<1>2. ASSUME round.outcome = "approved", ~Climbing(s), NEW t \in EnterableFrom(Normal, 1)
      PROVE  \E e \in trail : e.stage = t /\ e.word = "approved"
  <2>1. RouteOf(s) = Normal
    BY <1>2, ClimbingIs
  <2>2. After(s) = {}
    BY <1>1, <1>2 DEF Answered, isRouteEnd
  <2>3. t = s \/ t \in Behind(s)
    BY <1>2, <2>1, <2>2 DEF Behind
  <2> QED
    BY <1>1, <1>2, <2>3 DEF Answered
<1> QED
  BY <1>1, <1>2 DEF Answered, EveryStepAnswers

(* Nobody judges a climbing round twice, by a word or by a ballot.         *)
THEOREM JudgesOnce == Spec => []NobodyJudgesTwice
BY SoundInit, SoundStep, HistoryInit, HistoryStep, OnceIsEnough, PTL DEF Spec, History

(* A round's history accounts for every step behind it.                    *)
THEOREM StepsAnswer == Spec => []EveryStepAnswers
BY SoundInit, SoundStep, HistoryInit, HistoryStep, AnsweredIsEvery, PTL DEF Spec, History, Sound

-----------------------------------------------------------------------------
(***************************************************************************)
(* The round keeps what ReviewWalk promises.                               *)
(***************************************************************************)

Places == {Number(s) : s \in {t \in Steps : Enterable(t)}}

(* The end of a route has no later number: on the ordinary route among the *)
(* ordinary ones, on the other among all.                                  *)
LEMMA EndIsLast ==
    ASSUME NEW s \in Steps, Enterable(s), isRouteEnd(s),
           NEW t \in Steps, Enterable(t), Number(s) <= Len(Normal) => Number(t) <= Len(Normal)
    PROVE  Number(t) <= Number(s)
<1>1. /\ Number(s) \in Nat /\ Number(t) \in Nat /\ IndexOf(s) \in Nat /\ IndexOf(t) \in Nat
      /\ Len(Normal) \in Nat
  BY NumberIs, OnItsRoute
<1>2. CASE RouteOf(s) = RouteOf(t)
  <2>1. t \notin After(s)
    BY DEF isRouteEnd
  <2>2. IndexOf(t) <= IndexOf(s)
    BY <1>1, <1>2, <2>1, AfterIs
  <2>3. ~(Number(s) < Number(t))
    BY <1>1, <1>2, <2>2, NumberOrder
  <2> QED
    BY <1>1, <2>3
<1>3. CASE RouteOf(s) # RouteOf(t)
  <2>1. Climbing(s) /\ ~Climbing(t)
    <3>1. ~Climbing(s) => ~Climbing(t)
      BY <1>1, NumberIs
    <3> QED
      BY <1>3, <3>1, ClimbingIs DEF Climbing
  <2> QED
    BY <1>1, <2>1, NumberOrder
<1> QED
  BY <1>2, <1>3

(* A round opens where a walk begins.                                      *)
LEMMA WalkInit == Sound /\ Walked /\ round.outcome = None => Walk!Begin
<1> SUFFICES ASSUME Sound, Walked, round.outcome = None PROVE Walk!Begin
  OBVIOUS
<1>1. PICK s \in Steps : s = round.stage
  BY DEF Sound, Typed, RoundRow
<1>2. \A t \in Steps : Number(t) \in 1 .. Len(Normal) + Len(Escalation)
  BY NumberIs
<1>3. Places \subseteq 1 .. Len(Normal) + Len(Escalation)
  BY <1>2 DEF Places
<1>4. Number(s) \in Places
  BY <1>1 DEF Places, Walked
<1> QED
  BY <1>1, <1>3, <1>4 DEF Walk!Begin, Places

(* Every step of the round is a step of the walk, or none.                 *)
LEMMA WalkStep ==
    ASSUME Sound, Walked, [Next]_vars
    PROVE  [Walk!WNext]_(Walk!wvars)
<1>0. Typed /\ Enterable(round.stage)
  BY DEF Sound, Walked
<1>1. PICK s \in Steps : s = round.stage
  BY <1>0 DEF Typed, RoundRow
<1>2. Number(s) \in Nat /\ Len(Normal) \in Nat /\ (Climbing(s) <=> Number(s) > Len(Normal))
  BY NumberIs
<1>3. PICK places : places = Places
  OBVIOUS
<1>4. Places' = places
  BY <1>3, StepIs DEF Places, Enterable
<1>5. ASSUME round'.stage = s, round'.outcome = round.outcome
      PROVE  UNCHANGED Walk!wvars
  BY <1>1, <1>3, <1>4, <1>5 DEF Walk!wvars, Places
<1>6. ASSUME NEW word \in {"approved", "rejected", "cancelled"},
             round.outcome = None, round'.outcome = word, round'.stage = s,
             word = "approved" => isRouteEnd(s),
             word = "rejected" => ~Climbing(s) \/ isRouteEnd(s)
      PROVE  Walk!WNext
  <2>1. isRouteEnd(s) => Walk!Ends(Number(round.stage))
    <3> SUFFICES ASSUME isRouteEnd(s),
                        NEW m \in (IF Number(s) <= Len(Normal)
                                   THEN {n \in Places : n <= Len(Normal)} ELSE Places)
                 PROVE  m <= Number(s)
      BY <1>1 DEF Walk!Ends, Walk!Ordinary, Places
    <3>1. PICK t \in Steps : Enterable(t) /\ m = Number(t)
      BY DEF Places
    <3>2. Number(s) <= Len(Normal) => Number(t) <= Len(Normal)
      BY <3>1
    <3> QED
      BY <1>0, <1>1, <3>1, <3>2, EndIsLast
  <2>2. ~Climbing(s) => Number(round.stage) <= Len(Normal)
    BY <1>1, <1>2
  <2>3. Walk!Conclude(word)
    BY <1>1, <1>3, <1>4, <1>6, <2>1, <2>2 DEF Walk!Conclude, Places
  <2> QED
    BY <2>3 DEF Walk!WNext
<1>7. ASSUME NEW n, NEW new, WalksTo(n, new), round.outcome = None
      PROVE  Walk!WNext
  <2>1. /\ n \in Steps /\ Enterable(n) /\ Number(n) > Number(s)
        /\ round'.stage = n /\ round'.outcome = None
    BY <1>1, <1>7 DEF WalksTo, Arrived
  <2>2. Number(n) \in Places
    BY <2>1 DEF Places
  <2>3. Walk!Forward
    BY <1>1, <1>3, <1>4, <1>7, <2>1, <2>2 DEF Walk!Forward, Places
  <2> QED
    BY <2>3 DEF Walk!WNext
<1>8. CASE StandsStill
  BY <1>1, <1>5, <1>8 DEF StandsStill
<1>9. CASE CalledOff
  BY <1>1, <1>6, <1>9 DEF CalledOff
<1>10. ASSUME NEW new, Concludes(new), round.outcome = None
       PROVE  Walk!WNext
  <2>1. PICK outcome \in {"approved", "rejected"} :
          /\ round' = [round EXCEPT !.state = "completed", !.outcome = outcome]
          /\ outcome = "approved" => isRouteEnd(s)
          /\ outcome = "rejected" => ~Climbing(s) \/ isRouteEnd(s)
    BY <1>1, <1>10 DEF Concludes
  <2>2. round'.stage = s /\ round'.outcome = outcome
    BY <1>0, <1>1, <2>1 DEF Typed, RoundRow
  <2> QED
    BY <1>6, <1>10, <2>1, <2>2
<1>11. ASSUME NEW q \in People, Casts(q)
       PROVE  UNCHANGED Walk!wvars
  BY <1>1, <1>5, <1>11 DEF Casts
<1> QED
  BY <1>7, <1>8, <1>9, <1>10, <1>11, StepIs DEF DecidedBy

(* The round goes forward along its route and never back, and ends once,   *)
(* with a yes only at the end: ReviewRound implements ReviewWalk.          *)
THEOREM WalkImplemented == Spec => WalkKept
<1>1. Init => Walk!Begin
  <2>1. Init => round.outcome = None
    BY DEF Init, Standing
  <2> QED
    BY <2>1, SoundInit, HistoryInit, WalkInit DEF History
<1> QED
  BY <1>1, WalkStep, SoundInit, SoundStep, HistoryInit, HistoryStep, PTL
  DEF Spec, WalkKept, Walk!WSpec, History

-----------------------------------------------------------------------------
(***************************************************************************)
(* A sitting that ends by its ballots has heard every member still seated. *)
(***************************************************************************)

(* The ballot a sitting ends by is cast on the sitting as found, on a free *)
(* chair if the judge's seat was not theirs any more, and is the last.     *)
LastBallot(p, cast, q, word, claims) ==
    /\ word \in {"approve", "reject"} /\ claims = ~decision.own
    /\ p = Reconciled /\ decision # None /\ q = decision.by /\ round.stage \in Panels
    /\ cast = [p EXCEPT !.votes[q] = word, !.seat[q] = IF claims THEN seated + 1 ELSE @]
    /\ decision.at = "read"
    /\ claims => Chairs(p) > 0
    /\ AllIn(cast)

(* Only the ballot that ends a sitting puts its judge's ballot on record.  *)
LEMMA ConcludingBallot ==
    ASSUME Sound, Walked, [Next]_vars, BallotConcludes
    PROVE  \E p, cast : \E q \in People, claims \in BOOLEAN :
              \E word \in {"approve", "reject"} : LastBallot(p, cast, q, word, claims)
<1>0. Typed /\ OneSitting /\ Deciding
  BY DEF Sound
<1>1. PICK e \in trail' \ trail :
          decision # None /\ e.who = decision.by /\ e.word \in {"yes", "no"}
  BY DEF BallotConcludes
<1>2. PICK q \in People, word \in {"approve", "reject", "escalate"} : say(q, word)
  BY <1>1 DEF Next, takeUp, requestSupplement, appoint, dismiss, letGo, cancelSupplement,
     answerSupplement, cancelReviewInstance, findSitting, reviewersAtStage, PatrolStep, look, nearestRoleNode,
     place, reviewersAt, openPanelOf, livePanelSeats, endPanelAssignment, moveRound,
     patrolled, vars
<1>3. q = decision.by /\ q # None
  BY <1>2, RoundConstants DEF say
<1>4. ASSUME NEW new, trail' = trail \cup new \/ GoesOn(new) \/ ClimbsOn(new)
      PROVE  e \in new
  <2>1. CASE trail' = trail \cup new
    BY <1>1, <2>1
  <2>2. CASE \E n : WalksTo(n, new)
    <3>1. PICK over : trail' = trail \cup new \cup over /\ \A f \in over : f.who = None
      BY <2>2 DEF WalksTo
    <3> QED
      BY <1>1, <1>3, <3>1
  <2> QED
    BY <1>0, <1>4, <2>1, <2>2, GoesOnWalks, ClimbsOnWalks
<1>5. round.stage \in Panels
  <2> SUFFICES ASSUME round.stage \notin Panels PROVE FALSE
    OBVIOUS
  <2>1. sayAlone(q, word)
    BY <1>2 DEF say
  <2>2. PICK new : /\ \A f \in new : f.word \notin {"yes", "no"}
                   /\ Concludes(new) \/ GoesOn(new) \/ ClimbsOn(new)
    BY <1>0, <2>1, SaidAlone
  <2>3. e \in new
    BY <1>4, <2>2 DEF Concludes
  <2> QED
    BY <1>1, <2>2, <2>3
<1>6. PICK s \in Panels : s = round.stage
  BY <1>5
<1>7. s \in Steps /\ Climbing(s) /\ IndexOf(s) \in Nat
  BY PanelsClimb, OnItsRoute
<1>8. PICK claims \in BOOLEAN : claims = ~decision.own
  OBVIOUS
<1>9. sayAtSitting(q, word)
  BY <1>2, <1>5 DEF say
<1>10. PICK p, cast :
        /\ p = Reconciled
        /\ cast = [p EXCEPT !.votes[q] = word, !.seat[q] = IF claims THEN seated + 1 ELSE @]
        /\ decision.at = "read"
        /\ IF word = "escalate"
           THEN climb(IndexOf(s) + 1, trail \cup Ballots(p) \cup {Event(s, q, "escalated")})
           ELSE /\ claims => Chairs(p) > 0
                /\ AllIn(cast) \/ trail' = trail
  BY <1>6, <1>8, <1>9 DEF sayAtSitting
<1>11. word # "escalate"
  <2> SUFFICES ASSUME word = "escalate" PROVE FALSE
    OBVIOUS
  <2>1. Found(p)
    BY <1>0, <1>1, <1>5, <1>10, FoundIs
  <2>2. PICK new : new = Ballots(p) \cup {Event(s, q, "escalated")}
    OBVIOUS
  <2>a. PICK said : said = trail \cup new
    OBVIOUS
  <2>3. PICK from \in Nat : from = IndexOf(s) + 1
    BY <1>7
  <2>4. climb(from, said)
    <3>1. said = trail \cup Ballots(p) \cup {Event(s, q, "escalated")}
      BY <2>2, <2>a
    <3> QED
      BY <1>10, <2>3, <3>1
  <2>5. ClimbsOn(new)
    BY <1>0, <1>6, <1>7, <2>a, <2>3, <2>4, ClimbIs DEF ClimbsOn
  <2>6. e \in Ballots(p)
    <3>1. e \in new
      BY <1>4, <2>5
    <3>2. Event(s, q, "escalated").word = "escalated"
      BY DEF Event
    <3> QED
      BY <1>1, <2>2, <3>1, <3>2
  <2>7. e.who \in Voters(panel)
    BY <2>1, <2>6, BallotsAre DEF Found
  <2>8. q \notin Voters(panel)
    BY <1>0, <1>1, <1>3, <1>6, <1>7 DEF Deciding, Judged
  <2> QED
    BY <1>1, <1>3, <2>7, <2>8
<1>12. AllIn(cast)
  BY <1>1, <1>10, <1>11
<1>13. LastBallot(p, cast, q, word, claims)
  BY <1>1, <1>3, <1>5, <1>8, <1>10, <1>11, <1>12 DEF LastBallot
<1>14. word \in {"approve", "reject"}
  BY <1>11
<1> QED
  BY <1>13, <1>14

(* Those who have spoken are as many as there are chairs, so if each of    *)
(* them has a chair nobody seated is missing among them.                   *)
LEMMA LastBallotHeard ==
    ASSUME Sound, NEW p, NEW cast, NEW q \in People, NEW claims \in BOOLEAN,
           NEW word \in {"approve", "reject"}, LastBallot(p, cast, q, word, claims)
    PROVE  \/ \A v \in People : Seated(p, v) => v \in Voters(panel) \cup {q}
           \/ \E v \in Voters(panel) \cup {q} : ~Seated(p, v) /\ (v = q => decision.own)
<1>0. Typed /\ OneSitting /\ Deciding
  BY DEF Sound
<1>1. Found(p)
  BY <1>0, FoundIs DEF LastBallot
<1>2. claims => Chairs(p) > 0
  BY DEF LastBallot
<1>3. cast = [p EXCEPT !.votes[q] = word, !.seat[q] = IF claims THEN seated + 1 ELSE @]
  BY DEF LastBallot
<1>4. OneMore(cast, p, q, claims)
  BY <1>0, <1>1, <1>2, <1>3, CastIs
<1> DEFINE Spoken == Voters(panel) \cup {q}
           Seats == {v \in People : Seated(cast, v)}
<1>5. /\ Voters(cast) = Spoken /\ Cardinality(Seats) <= cast.size
      /\ Cardinality(Voters(cast)) >= cast.size /\ cast.size \in Nat
  <2>1. Voters(cast) = Spoken /\ cast \in PanelRow
    BY <1>4 DEF OneMore
  <2>2. cast.size \in Nat /\ Cardinality(Seats) <= cast.size
    BY <1>4, <2>1 DEF OneMore, Fits, PanelRow
  <2>3. Cardinality(Voters(cast)) >= cast.size
    BY DEF LastBallot, AllIn
  <2> QED
    BY <2>1, <2>2, <2>3
<1>6. SUFFICES ASSUME \A v \in Spoken : Seated(p, v) \/ (v = q /\ ~decision.own)
               PROVE  \A v \in People : Seated(p, v) => v \in Spoken
  OBVIOUS
<1>7. \A v \in People : cast.seat[v] = IF v = q /\ claims THEN seated + 1 ELSE p.seat[v]
  BY <1>1, <1>3 DEF Found, PanelRow
<1>8. seated \in Nat /\ Seats \in SUBSET People /\ Spoken \in SUBSET People
  BY <1>0, VotersOf DEF Typed
<1>9. \A v \in People : Seated(p, v) => v \in Seats
  BY <1>7, <1>8 DEF Seated
<1>10. q \in Seats
  <2>1. CASE claims
    BY <1>7, <1>8, <2>1 DEF Seated
  <2>2. CASE ~claims
    <3>1. decision.own
      BY <2>2 DEF LastBallot
    <3>2. Seated(p, q)
      BY <1>6, <3>1
    <3> QED
      BY <1>9, <3>2
  <2> QED
    BY <2>1, <2>2
<1>11. Spoken \in SUBSET Seats
  BY <1>6, <1>8, <1>9, <1>10
<1>12. Spoken = Seats
  <2> HIDE DEF Spoken, Seats
  <2>1. IsFiniteSet(Seats) /\ Cardinality(Seats) \in Nat /\ Cardinality(Spoken) \in Nat
    BY <1>8, PeopleFinite
  <2>2. Cardinality(Spoken) <= Cardinality(Seats)
    BY <1>11, <2>1, FS_Subset
  <2>3. Cardinality(Spoken) = Cardinality(Seats)
    BY <1>5, <2>1, <2>2
  <2> QED
    BY <1>11, <2>1, <2>3, FS_Subset
<1> QED
  BY <1>9, <1>12

(* A ballot that ends a sitting is the last of those it had to hear.       *)
LEMMA HeardStep ==
    ASSUME Sound, Walked, [Next]_vars, BallotConcludes
    PROVE  LET found == Reconciled
               spoken == Voters(panel) \cup {decision.by}
           IN \/ \A q \in People : Seated(found, q) => q \in spoken
              \/ \E q \in spoken : ~Seated(found, q) /\ (q = decision.by => decision.own)
<1>0. PICK p, cast : \E q \in People, claims \in BOOLEAN :
          \E word \in {"approve", "reject"} : LastBallot(p, cast, q, word, claims)
  BY ConcludingBallot
<1>1. PICK q \in People, claims \in BOOLEAN, word \in {"approve", "reject"} :
          LastBallot(p, cast, q, word, claims)
  BY <1>0
<1>2. p = Reconciled /\ q = decision.by
  BY <1>1 DEF LastBallot
<1>3. \/ \A v \in People : Seated(p, v) => v \in Voters(panel) \cup {q}
      \/ \E v \in Voters(panel) \cup {q} : ~Seated(p, v) /\ (v = q => decision.own)
  BY <1>1, LastBallotHeard
<1> QED
  BY <1>2, <1>3

(* A sitting that ends by its ballots has heard every member still seated, *)
(* unless a seat was given up under the ballot being cast on it.           *)
THEOREM EverySeatIsHeard == Spec => HeardEverySeat
BY HeardStep, SoundInit, SoundStep, HistoryInit, HistoryStep, PTL DEF Spec, HeardEverySeat, History

-----------------------------------------------------------------------------
(***************************************************************************)
(* A judge who was let in at an open sitting is not turned away, nor one   *)
(* who calls the sitting and is among those it is called from.             *)
(*                                                                         *)
(* The patrol and the appointments run while a decision is held.  They may *)
(* take the judge's standing, his seat, and seats of others.  What they    *)
(* cannot do is fill a chair: nobody but a decision does, and there is     *)
(* only one at a time.  So there is a chair for him throughout, the one he *)
(* was let in for, or the one that was his.                                *)
(***************************************************************************)

(* With fewer people seated there are chairs if there were any.            *)
LEMMA FewerSeats ==
    ASSUME NEW p, NEW r, p.size \in Nat, r.size = p.size, Chairs(p) > 0,
           \A q \in People : Seated(r, q) => Seated(p, q)
    PROVE  Chairs(r) > 0
<1> DEFINE A == {q \in People : Seated(r, q)}
           B == {q \in People : Seated(p, q)}
<1>1. A \in SUBSET B /\ B \in SUBSET People /\ A \in SUBSET People
  OBVIOUS
<1>2. Chairs(p) = p.size - Cardinality(B) /\ Chairs(r) = p.size - Cardinality(A)
  BY DEF Chairs
<1> HIDE DEF A, B
<1>3. IsFiniteSet(B) /\ Cardinality(A) \in Nat /\ Cardinality(B) \in Nat
  BY <1>1, PeopleFinite
<1>4. Cardinality(A) <= Cardinality(B)
  BY <1>1, <1>3, FS_Subset
<1> QED
  BY <1>2, <1>3, <1>4

(* A seat given up is a chair.                                             *)
LEMMA SeatGivenUp ==
    ASSUME NEW p \in PanelRow, NEW n \in Nat, Fits(p, n), NEW r, r.size = p.size,
           NEW by \in People, Seated(p, by), ~Seated(r, by),
           \A q \in People : Seated(r, q) => Seated(p, q)
    PROVE  Chairs(r) > 0
<1> DEFINE A == {q \in People : Seated(r, q)}
           B == {q \in People : Seated(p, q)}
<1>1. A \in SUBSET B /\ B \in SUBSET People /\ A \in SUBSET People /\ by \in B /\ by \notin A
  OBVIOUS
<1>2. /\ Cardinality(B) <= p.size /\ Chairs(r) = p.size - Cardinality(A)
      /\ p.size \in Nat
  BY DEF Fits, Chairs, PanelRow
<1> HIDE DEF A, B
<1>3. IsFiniteSet(B) /\ Cardinality(A) \in Nat /\ Cardinality(B) \in Nat
  BY <1>1, PeopleFinite
<1>4. Cardinality(A) <= Cardinality(B) /\ (Cardinality(A) = Cardinality(B) => A = B)
  BY <1>1, <1>3, FS_Subset
<1>5. Cardinality(A) < Cardinality(B)
  BY <1>1, <1>3, <1>4
<1> QED
  BY <1>2, <1>3, <1>5

(* The chair kept for whoever was let in: his seat, which has no vote on   *)
(* it, or another; and each time he asks, a seat he was found on, or found *)
(* among those to be called, is his own if he may still sit.               *)
HasPlace(q) ==
    /\ Seated(panel, q) => panel.votes[q] = "none"
    /\ ~Seated(panel, q) => Chairs(panel) > 0
KnowsPlace(d) ==
    LET his == IF panel = None THEN d.by \in d.called ELSE Seated(panel, d.by)
    IN /\ d.at = "seats" /\ his => d.own
       /\ d.at = "read" /\ his /\ d.by \in d.eligible => d.own
LetIn == decision # None => (panel # None => HasPlace(decision.by)) /\ KnowsPlace(decision)

(* Taking the round up asks for a place, and reading again finds it.       *)
LEMMA TakeUpLetsIn ==
    ASSUME Sound, LetIn, (\E q \in People : takeUp(q)) \/ findSitting \/ reviewersAtStage
    PROVE  LetIn'
<1>0. panel' = panel
  BY DEF takeUp, findSitting, reviewersAtStage, sitting
<1>1. SUFFICES (panel # None => HasPlace(decision'.by)) /\ KnowsPlace(decision')
  BY <1>0 DEF LetIn, HasPlace, KnowsPlace, Seated, Chairs
<1>2. ASSUME NEW q \in People, takeUp(q)
      PROVE  (panel # None => HasPlace(decision'.by)) /\ KnowsPlace(decision')
  <2>1. decision'.by = q /\ decision'.at = "letIn" /\ mayActOn(q)
    BY <1>2 DEF takeUp
  <2> QED
    BY <2>1 DEF mayActOn, HasPlace, KnowsPlace
<1>3. ASSUME findSitting \/ reviewersAtStage
      PROVE  decision # None /\ decision \in DecisionRow
  BY <1>3 DEF findSitting, reviewersAtStage, Sound, Typed
<1>4. ASSUME findSitting
      PROVE  (panel # None => HasPlace(decision'.by)) /\ KnowsPlace(decision')
  <2>1. PICK called, mine :
          /\ mine = IF panel = None THEN decision.by \in called
                    ELSE Seated(panel, decision.by) /\ panel.votes[decision.by] = "none"
          /\ decision' = [decision EXCEPT !.at = "seats", !.called = called, !.own = mine]
    BY <1>4 DEF findSitting
  <2>2. /\ decision'.by = decision.by /\ decision'.at = "seats"
        /\ decision'.called = called /\ decision'.own = mine
    BY <1>3, <1>4, <2>1 DEF DecisionRow
  <2>3. panel # None => HasPlace(decision.by)
    BY <1>3, <1>4 DEF LetIn
  <2> QED
    BY <2>1, <2>2, <2>3 DEF HasPlace, KnowsPlace
<1>5. ASSUME reviewersAtStage
      PROVE  (panel # None => HasPlace(decision'.by)) /\ KnowsPlace(decision')
  <2>1. PICK eligible, mine :
          /\ mine = (decision.own /\ decision.by \in eligible)
          /\ decision' = [decision EXCEPT !.at = "read", !.eligible = eligible, !.own = mine]
    BY <1>5 DEF reviewersAtStage
  <2>2. /\ decision'.by = decision.by /\ decision'.at = "read" /\ decision.at = "seats"
        /\ decision'.called = decision.called
        /\ decision'.eligible = eligible /\ decision'.own = mine
    BY <1>3, <1>5, <2>1 DEF DecisionRow, reviewersAtStage
  <2>3. (panel # None => HasPlace(decision.by)) /\ KnowsPlace(decision)
    BY <1>3, <1>5 DEF LetIn
  <2> QED
    BY <2>1, <2>2, <2>3 DEF HasPlace, KnowsPlace
<1> QED
  BY <1>2, <1>4, <1>5

(* While it is held, seats are only given up.                              *)
LEMMA LetInStep ==
    ASSUME Sound, LetIn, [Next]_vars
    PROVE  LetIn'
<1>0. Typed
  BY DEF Sound
<1>1. ASSUME UNCHANGED <<panel, decision>> PROVE LetIn'
  BY <1>1 DEF LetIn, HasPlace, KnowsPlace, Seated, Chairs
<1>2. ASSUME decision' = None PROVE LetIn'
  BY <1>2 DEF LetIn
<1>3. ASSUME NEW q \in People, NEW word \in {"approve", "reject", "escalate"}, say(q, word)
      PROVE  LetIn'
  BY <1>2, <1>3 DEF say
<1>4. ASSUME letGo PROVE LetIn'
  BY <1>2, <1>4 DEF letGo
<1>5. ASSUME \/ cancelSupplement \/ answerSupplement \/ cancelReviewInstance
             \/ \E q \in People : requestSupplement(q)
      PROVE  LetIn'
  BY <1>2, <1>5 DEF cancelSupplement, answerSupplement, cancelReviewInstance, requestSupplement
<1>6. ASSUME UNCHANGED vars \/ \E q \in People, s \in Steps : appoint(s, q) \/ dismiss(s, q)
      PROVE  LetIn'
  BY <1>1, <1>6 DEF vars, sitting, appoint, dismiss
<1>7. ASSUME PatrolStep PROVE LetIn'
  <2>1. decision' = decision
    BY <1>0, <1>7, PatrolIs
  <2>2. ASSUME NEW q \in People, GivesUp(q), decision # None PROVE LetIn'
    <3>1. /\ panel # None /\ panel \in PanelRow /\ Fits(panel, seated) /\ seated \in Nat
          /\ decision.by \in People
      BY <1>0, <2>2 DEF GivesUp, Typed, DecisionRow
    <3>2. /\ panel' # None /\ panel'.size = panel.size /\ panel'.votes = panel.votes
          /\ \A v \in People : Seated(panel', v) <=> Seated(panel, v) /\ v # q
      BY <1>0, <2>2, GivesUpIs
    <3>3. HasPlace(decision.by) /\ KnowsPlace(decision)
      BY <2>2, <3>1 DEF LetIn
    <3>4. ASSUME ~Seated(panel', decision.by) PROVE Chairs(panel') > 0
      <4>1. CASE Seated(panel, decision.by)
        BY <3>1, <3>2, <3>4, <4>1, SeatGivenUp
      <4>2. CASE ~Seated(panel, decision.by)
        <5>1. Chairs(panel) > 0 /\ panel.size \in Nat
          BY <3>1, <3>3, <4>2, PeopleFinite DEF HasPlace, PanelRow
        <5> QED
          BY <3>2, <5>1, FewerSeats
      <4> QED
        BY <4>1, <4>2
    <3>5. Seated(panel', decision.by) => Seated(panel, decision.by)
      BY <3>1, <3>2
    <3> QED
      BY <2>1, <3>1, <3>2, <3>3, <3>4, <3>5 DEF LetIn, HasPlace, KnowsPlace, Seated, Chairs
  <2> QED
    BY <1>0, <1>1, <1>2, <1>7, <2>1, <2>2, PatrolIs DEF Restaffs
<1> QED
  BY <1>3, <1>4, <1>5, <1>6, <1>7, TakeUpLetsIn DEF Next

(* Giving up seats of its own accord, the decision leaves the chair too.   *)
LEMMA LetInIsHeard == Sound /\ LetIn => ChairIsKept
<1> SUFFICES ASSUME Sound, LetIn, decision # None, Settled, Refused,
                    ~(panel = None /\ decision.by \notin decision.called)
             PROVE  FALSE
  BY DEF ChairIsKept
<1>0. Typed /\ OneSitting /\ Deciding
  BY DEF Sound
<1>1. /\ decision.called \in SUBSET People /\ decision.by \in People /\ seated \in Nat
  BY <1>0 DEF Typed, DecisionRow
<1>2. panel = None => decision.by \in decision.called
  OBVIOUS
<1>3. /\ round.stage \in Panels /\ ~decision.own /\ ~(Chairs(Reconciled) > 0)
      /\ decision.at = "read"
  BY <1>2 DEF Refused, Settled
<1>4. PICK before : before = IF panel = None
                             THEN createPanel(round.stage, decision.called, seated + 1)
                             ELSE panel
  OBVIOUS
<1>5. PICK n \in Nat : n = IF panel = None THEN seated + 1 ELSE seated
  BY <1>1
<1>6. /\ before \in PanelRow /\ Fits(before, n)
      /\ Seated(before, decision.by) => /\ before.votes[decision.by] = "none"
                                        /\ decision.by \notin decision.eligible
      /\ ~Seated(before, decision.by) => Chairs(before) > 0
  <2>1. CASE panel = None
    <3>1. /\ n # 0 /\ decision.called # {} /\ decision.by \in decision.called
          /\ before = createPanel(round.stage, decision.called, n)
      BY <1>1, <1>2, <1>4, <1>5, <2>1
    <3>2. PICK s \in Panels, members \in SUBSET People :
             s = round.stage /\ members = decision.called
      BY <1>1, <1>3
    <3>3. Called(before, s, members, n)
      BY <3>1, <3>2, PanelCalled
    <3>4. decision.by \notin decision.eligible
      BY <1>3, <2>1, <3>1 DEF LetIn, KnowsPlace
    <3> QED
      BY <1>1, <3>1, <3>2, <3>3, <3>4 DEF Called
  <2>2. CASE panel # None
    BY <1>0, <1>3, <1>4, <1>5, <2>2 DEF Typed, LetIn, HasPlace, KnowsPlace
  <2> QED
    BY <2>1, <2>2
<1>7. PICK r : r = Reconciled /\ r = Rid(before, decision.eligible)
  BY <1>4 DEF Reconciled
<1>8. /\ r.size = before.size
      /\ r.seat[decision.by] = IF before.votes[decision.by] = "none" /\ decision.by \notin decision.eligible
                               THEN 0 ELSE before.seat[decision.by]
      /\ \A q \in People : Seated(r, q) => Seated(before, q)
  BY <1>1, <1>5, <1>6, <1>7, RidIs
<1>9. CASE Seated(before, decision.by)
  <2>1. ~Seated(r, decision.by)
    BY <1>6, <1>8, <1>9 DEF Seated
  <2>2. Chairs(r) > 0
    BY <1>1, <1>5, <1>6, <1>8, <1>9, <2>1, SeatGivenUp
  <2> QED
    BY <1>3, <1>7, <2>2
<1>10. CASE ~Seated(before, decision.by)
  <2>1. Chairs(before) > 0 /\ before.size \in Nat
    BY <1>6, <1>10, PeopleFinite DEF PanelRow
  <2>2. Chairs(r) > 0
    BY <1>8, <2>1, FewerSeats
  <2> QED
    BY <1>3, <1>7, <2>2
<1> QED
  BY <1>9, <1>10

(* Whoever has taken the round up finds a chair at the open sitting,       *)
(* whatever the patrol gives up and whoever is appointed or dismissed      *)
(* between his reads; where none is open, he finds one at the sitting he   *)
(* calls if he is among those it is called from (review/service.ts:1603,   *)
(* 2071-2142).  If he is not, a chair is not promised: he was dismissed    *)
(* since he was let in, or the step had no unit when the round opened,     *)
(* which is the run `vacant`.                                              *)
THEOREM ChairsAreKept == Spec => []ChairIsKept
<1>1. Init => LetIn
  BY DEF Init, LetIn
<1> QED
  BY <1>1, SoundInit, SoundStep, LetInStep, LetInIsHeard, PTL DEF Spec

-----------------------------------------------------------------------------
(***************************************************************************)
(* The round lives the life Claim allows its rounds.                       *)
(***************************************************************************)

(* A request for more is open exactly while the round waits, and is work.  *)
Asking ==
    /\ bounds \in [changes : Nat, asks : Nat]
    /\ ask # None <=> round.state = "awaiting_supplement"
    /\ ask # None => bounds.asks # 0

(* What a step leaves of the row and of the work on it, in other words.    *)
SameLife ==
    /\ round'.state = round.state /\ round'.outcome = round.outcome
    /\ Worked' <=> Worked
    /\ ask' = ask
LEMMA SameLifeIs == SameLife => UNCHANGED Life!lvars
<1> SUFFICES ASSUME SameLife PROVE UNCHANGED Life!lvars
  OBVIOUS
<1>1. (round.state # "completed" /\ ~Worked)' = (round.state # "completed" /\ ~Worked)
  BY DEF SameLife
<1>2. (ask # None)' = (ask # None)
  BY DEF SameLife
<1>3. /\ (round.state)' = round.state
      /\ (IF round.outcome = "cancelled" THEN "ended" ELSE round.outcome)'
             = IF round.outcome = "cancelled" THEN "ended" ELSE round.outcome
  BY DEF SameLife
<1> QED
  BY <1>1, <1>2, <1>3 DEF Life!lvars

(* What is decided is work, on a round that stands, and ends one that is   *)
(* active.                                                                 *)
LEMMA SayLives ==
    ASSUME Sound, Asking, NEW q \in People,
           NEW word \in {"approve", "reject", "escalate"}, say(q, word)
    PROVE  Asking' /\ Life!LNext
<1>0. Typed /\ OneSitting /\ Deciding
  BY DEF Sound
<1>1. ask' = ask /\ bounds' = bounds /\ round.state \in {"active", "blocked"} /\ round.outcome = None
      /\ ask = None
  BY <1>0 DEF say, Deciding, Typed, Asking
<1>2. (ask # None)' = (ask # None)
  BY <1>1
<1>3. ASSUME NEW new, Said(q, new), Concludes(new)
      PROVE  Asking' /\ Life!LNext
  <2>1. PICK outcome \in {"approved", "rejected"} :
           round.state = "active"
           /\ round' = [round EXCEPT !.state = "completed", !.outcome = outcome]
    BY <1>3 DEF Concludes
  <2>2. round'.state = "completed" /\ round'.outcome = outcome
    BY <1>0, <2>1 DEF Typed, RoundRow
  <2>3. Life!Verdict(outcome)
    BY <1>2, <2>1, <2>2 DEF Life!Verdict
  <2>4. Asking'
    BY <1>1, <2>2 DEF Asking
  <2> QED
    BY <2>3, <2>4 DEF Life!LNext
<1>4. ASSUME round'.state \in {"active", "blocked"}, round'.outcome = None, Worked'
      PROVE  Asking' /\ Life!LNext
  <2>1. Asking'
    BY <1>1, <1>4 DEF Asking
  <2>2. ~(round.state # "completed" /\ ~Worked)'
    BY <1>4
  <2>3. (IF round.outcome = "cancelled" THEN "ended" ELSE round.outcome)'
            = IF round.outcome = "cancelled" THEN "ended" ELSE round.outcome
    BY <1>1, <1>4
  <2>4. Life!Word
    BY <1>1, <1>2, <1>4, <2>2, <2>3 DEF Life!Word, Life!Standing
  <2> QED
    BY <2>1, <2>4 DEF Life!LNext
<1>5. ASSUME NEW new, Said(q, new), new \subseteq trail' PROVE Worked'
  BY <1>5 DEF Said, Worked
<1>6. ASSUME NEW new, Said(q, new), GoesOn(new)
      PROVE  Asking' /\ Life!LNext
  <2>1. new \subseteq trail'
    BY <1>6 DEF GoesOn
  <2>2. round'.state \in {"active", "blocked"} /\ round'.outcome = None
    BY <1>6 DEF GoesOn, Arrived
  <2> QED
    BY <1>4, <1>5, <1>6, <2>1, <2>2
<1>7. ASSUME NEW new, Said(q, new), ClimbsOn(new)
      PROVE  Asking' /\ Life!LNext
  <2>1. PICK from, landing : Arrived(landing) /\ trail' = (trail \cup new) \cup SteppedOver(from, landing)
    BY <1>7 DEF ClimbsOn, Climbs
  <2>2. new \subseteq trail'
    BY <2>1
  <2>3. round'.state \in {"active", "blocked"} /\ round'.outcome = None
    BY <2>1 DEF Arrived
  <2> QED
    BY <1>4, <1>5, <1>7, <2>2, <2>3
<1>8. ASSUME Casts(q)
      PROVE  Asking' /\ Life!LNext
  <2>1. round' = round
    BY <1>8 DEF Casts
  <2>2. Voters(panel') # {}
    BY <1>8 DEF Casts
  <2>3. Worked'
    BY <2>2 DEF Worked, Voters
  <2> QED
    BY <1>1, <1>4, <2>1, <2>3
<1> QED
  BY <1>0, <1>3, <1>6, <1>7, <1>8, SayIs

(* A request for more opens, is taken back or answered.                    *)
LEMMA AskingLives ==
    ASSUME Sound, Asking,
           \/ cancelSupplement \/ answerSupplement \/ cancelReviewInstance
           \/ \E q \in People : requestSupplement(q)
    PROVE  Asking' /\ Life!LNext
<1>0. Typed /\ round \in RoundRow /\ (round.state = "completed" <=> round.outcome # None)
  BY DEF Sound, Typed
<1>1. ASSUME NEW q \in People, requestSupplement(q)
      PROVE  Asking' /\ Life!LNext
  <2>1. /\ round.state = "active" /\ round'.state = "awaiting_supplement"
        /\ round'.outcome = round.outcome /\ ask' = q /\ ask' # None /\ ask = None
        /\ bounds' \in [changes : Nat, asks : Nat] /\ bounds'.asks # 0
    BY <1>0, <1>1, RoundConstants DEF requestSupplement, RoundRow, Asking
  <2>2. Worked'
    BY <2>1 DEF Worked
  <2>3. Asking'
    BY <2>1 DEF Asking
  <2>4. Life!Ask
    BY <2>1, <2>2 DEF Life!Ask
  <2> QED
    BY <2>3, <2>4 DEF Life!LNext
<1>2. ASSUME cancelSupplement \/ answerSupplement
      PROVE  Asking' /\ Life!LNext
  <2>1. /\ round.state = "awaiting_supplement" /\ ask # None /\ ask' = None /\ bounds' = bounds
        /\ bounds.asks # 0 /\ round.outcome = None
    BY <1>0, <1>2 DEF cancelSupplement, answerSupplement, Asking
  <2>2. round'.state \in {"active", "blocked"} /\ round'.outcome = None
    <3>1. CASE round' = [round EXCEPT !.state = "active"]
      BY <1>0, <2>1, <3>1 DEF RoundRow
    <3>2. CASE round' # [round EXCEPT !.state = "active"]
      <4>1. PICK s, judged : s \in Steps /\ s = round.stage /\ judged = Judged(trail, None)
        BY <1>0 DEF RoundRow
      <4>2. arrive(s, judged)
        BY <1>2, <3>2, <4>1 DEF answerSupplement, cancelSupplement, arrive
      <4>3. Arrived(s)
        BY <1>0, <4>1, <4>2, ArriveIs
      <4> QED
        BY <4>3 DEF Arrived
    <3> QED
      BY <3>1, <3>2
  <2>3. Worked /\ Worked'
    BY <2>1 DEF Worked
  <2>4. Asking'
    BY <2>1, <2>2 DEF Asking
  <2>5. (round.state # "completed" /\ ~Worked)' = (round.state # "completed" /\ ~Worked)
    BY <2>3
  <2>6. (IF round.outcome = "cancelled" THEN "ended" ELSE round.outcome)'
            = IF round.outcome = "cancelled" THEN "ended" ELSE round.outcome
    BY <2>1, <2>2
  <2>7. Life!AskEnds
    BY <2>1, <2>2, <2>5, <2>6 DEF Life!AskEnds, Life!Standing
  <2> QED
    BY <2>4, <2>7 DEF Life!LNext
<1>3. ASSUME cancelReviewInstance
      PROVE  Asking' /\ Life!LNext
  <2>1. /\ round.state # "completed" /\ round'.state = "completed"
        /\ round'.outcome = "cancelled" /\ ask' = None /\ bounds' = bounds
    BY <1>0, <1>3 DEF cancelReviewInstance, RoundRow
  <2>2. Asking'
    BY <2>1 DEF Asking
  <2>3. Life!End
    BY <2>1 DEF Life!End
  <2> QED
    BY <2>2, <2>3 DEF Life!LNext
<1> QED
  BY <1>1, <1>2, <1>3

(* The patrol releases and blocks a round that stands, and frees seats     *)
(* nobody has voted from.                                                  *)
LEMMA PatrolLives ==
    ASSUME Sound, Asking, PatrolStep
    PROVE  Asking' /\ (Life!LNext \/ UNCHANGED Life!lvars)
<1>0. Typed /\ round \in RoundRow
  BY DEF Sound, Typed
<1>1. trail' = trail /\ ask' = ask /\ bounds' = bounds
  BY <1>0, PatrolIs
<1>2. \/ round' = round /\ panel' = panel
      \/ \E q \in People : GivesUp(q)
      \/ Restaffs
  BY <1>0, PatrolIs
<1>3. Voters(panel') = Voters(panel)
  BY <1>0, <1>2, GivesUpIs DEF Restaffs
<1>4. Worked' <=> Worked
  BY <1>1, <1>3 DEF Worked, Voters
<1>5. CASE round' = round
  BY <1>1, <1>4, <1>5, SameLifeIs DEF SameLife, Asking
<1>6. CASE round' # round
  <2>1. round.state \in {"active", "blocked"} /\ round'.state \in {"active", "blocked"}
        /\ round'.outcome = round.outcome
    <3>1. Restaffs
      BY <1>2, <1>6 DEF GivesUp
    <3> QED
      BY <1>0, <3>1 DEF Restaffs, RoundRow
  <2>2. Asking'
    BY <1>1, <2>1 DEF Asking
  <2>3. (round.state # "completed" /\ ~Worked)' = (round.state # "completed" /\ ~Worked)
    BY <1>4, <2>1
  <2>4. (ask # None)' = (ask # None)
    BY <1>1
  <2>5. (IF round.outcome = "cancelled" THEN "ended" ELSE round.outcome)'
            = IF round.outcome = "cancelled" THEN "ended" ELSE round.outcome
    BY <2>1
  <2>6. Life!Restaff
    BY <2>1, <2>3, <2>4, <2>5 DEF Life!Restaff, Life!Standing
  <2> QED
    BY <2>2, <2>6 DEF Life!LNext
<1> QED
  BY <1>5, <1>6

(* Every step is one RoundLife allows.                                     *)
LEMMA LifeStep ==
    Sound /\ Asking /\ [Next]_vars => Asking' /\ [Life!LNext]_(Life!lvars)
<1> SUFFICES ASSUME Sound, Asking, [Next]_vars
             PROVE  Asking' /\ (Life!LNext \/ UNCHANGED Life!lvars)
  OBVIOUS
<1>1. ASSUME \/ findSitting \/ reviewersAtStage \/ letGo \/ UNCHANGED vars
             \/ \E q \in People : takeUp(q) \/ \E s \in Steps : appoint(s, q) \/ dismiss(s, q)
      PROVE  Asking' /\ UNCHANGED Life!lvars
  <2>1. /\ round' = round /\ trail' = trail /\ panel' = panel /\ ask' = ask
        /\ bounds' = bounds \/ bounds' = [bounds EXCEPT !.changes = @ + 1]
    BY <1>1 DEF findSitting, reviewersAtStage, letGo, vars, takeUp, appoint, dismiss, sitting
  <2>2. bounds' \in [changes : Nat, asks : Nat] /\ bounds'.asks = bounds.asks
    BY <2>1 DEF Asking
  <2>3. Worked' <=> Worked
    BY <2>1, <2>2 DEF Worked, Voters
  <2> QED
    BY <2>1, <2>2, <2>3, SameLifeIs DEF SameLife, Asking
<1> QED
  BY <1>1, SayLives, AskingLives, PatrolLives DEF Next

(* A round opens as Claim opens one: nothing said yet, nothing asked.      *)
LEMMA LifeInit == Init => Asking /\ Life!LInit
<1> SUFFICES ASSUME Init PROVE Asking /\ Life!LInit
  OBVIOUS
<1>1. PICK s \in Steps :
        /\ round = Standing(s, IF Eligible(s, {}) = {} THEN "blocked" ELSE "active")
        /\ \/ panel = createPanel(s, Eligible(s, {}), 1) \/ panel = None
        /\ trail = {} \/ trail = SteppedOver(1, s)
  BY DEF Init
<1>2. round.state \in {"active", "blocked"} /\ round.outcome = None
  BY <1>1 DEF Standing
<1>3. ask = None /\ bounds = [changes |-> 0, asks |-> 0]
  BY DEF Init
<1>4. Voters(panel) = {}
  <2>1. CASE panel = None
    BY <2>1 DEF Voters
  <2>2. CASE panel = createPanel(s, Eligible(s, {}), 1)
    BY <2>2 DEF createPanel, Voters
  <2> QED
    BY <1>1, <2>1, <2>2
<1>5. \A e \in trail : e.word \notin Judging
  BY <1>1 DEF SteppedOver, Judging
<1>6. ~Worked
  BY <1>3, <1>4, <1>5 DEF Worked
<1>7. (round.state # "completed" /\ ~Worked) = TRUE /\ (ask # None) = FALSE
  BY <1>2, <1>3, <1>6
<1>8. Life!LInit
  <2>1. (IF round.outcome = "cancelled" THEN "ended" ELSE round.outcome) = None
    BY <1>2, RoundConstants
  <2>2. round.state \in Life!Standing
    BY <1>2 DEF Life!Standing
  <2> QED
    BY <1>7, <2>1, <2>2, Zenon DEF Life!LInit
<1>9. Asking
  BY <1>2, <1>3 DEF Asking
<1> QED
  BY <1>8, <1>9

(* What becomes of a round's row is what Claim has its rounds go through:  *)
(* a verdict only while it is active, a question only while it waits, and  *)
(* no work undone by the answer that dissolves a sitting                   *)
(* (review/service.ts, review/db.ts:600-676).                              *)
THEOREM LifeImplemented == Spec => LifeKept
BY LifeInit, LifeStep, SoundInit, SoundStep, PTL DEF Spec, LifeKept, Life!LSpec
=============================================================================
