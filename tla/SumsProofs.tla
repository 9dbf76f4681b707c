----------------------------- MODULE SumsProofs -----------------------------
(***************************************************************************)
(* What is true of a sum over any finite set.  SumOf is a fold, and a fold *)
(* is a function that recurs over the subsets of what is folded: it is     *)
(* shown first that there is such a function, then that any two agree, and *)
(* then whatever the storage proofs ask of the sums themselves.            *)
(*                                                                         *)
(* Each induction is by a smallest counterexample: a set on which the      *)
(* claim fails though it holds on every proper subset.                     *)
(***************************************************************************)
EXTENDS Sums, FiniteSetTheorems, WellFoundedInduction, TLAPS
(* The element a fold takes next. *)
First(s) == CHOOSE x \in s : TRUE

(* g is what the fold computes on the subsets of S. *)
Running(f, g, S) ==
    g = [s \in SUBSET S |-> IF s = {} THEN 0 ELSE f[First(s)] + g[s \ {First(s)}]]

(* SumOf, written with the function its fold recurs through.               *)
LEMMA SumIsRunning ==
  ASSUME NEW f, NEW S
  PROVE SumOf(f, S) = (CHOOSE g : Running(f, g, S))[S]
BY DEF SumOf, MapThenSumSet, MapThenFoldSet, Running, First

(* Among the subsets of a finite set that are bad there is a smallest one. *)
LEMMA SmallestBad ==
    ASSUME NEW S, IsFiniteSet(S), NEW Bad \in SUBSET SUBSET S, Bad # {}
    PROVE  \E s \in Bad : \A r \in SUBSET s : r # s => r \notin Bad
<1>1. FiniteSubsetsOf(S) = SUBSET S
  BY FS_FiniteSubsetsOfFinite
<1>2. IsWellFoundedOn(StrictSubsetOrdering(S), SUBSET S)
  BY <1>1, FS_StrictSubsetOrderingWellFounded
<1>3. PICK s \in Bad : \A r \in Bad : ~(<<r, s>> \in StrictSubsetOrdering(S))
  BY <1>2, WFMin
<1>4. ASSUME NEW r \in SUBSET s, r # s PROVE r \notin Bad
  <2>1. <<r, s>> \in StrictSubsetOrdering(S)
    BY <1>4 DEF StrictSubsetOrdering
  <2> QED
    BY <1>3, <2>1
<1> QED
  BY <1>4

(* The fold takes an element that is there.                                *)
LEMMA FirstIn == ASSUME NEW s, s # {} PROVE First(s) \in s
BY DEF First

(* Two such functions agree wherever both are defined.                     *)
LEMMA RunningAgree ==
    ASSUME NEW f, NEW S, IsFiniteSet(S), NEW A, NEW B, NEW g, NEW h,
           Running(f, g, A), Running(f, h, B), S \subseteq A, S \subseteq B
    PROVE  g[S] = h[S]
<1> DEFINE Bad == {s \in SUBSET S : g[s] # h[s]}
<1> SUFFICES ASSUME Bad # {} PROVE FALSE
  OBVIOUS
<1>0. Bad \in SUBSET SUBSET S
  OBVIOUS
<1>1. PICK s \in Bad : \A r \in SUBSET s : r # s => r \notin Bad
  <2> HIDE DEF Bad
  <2> QED
    BY <1>0, SmallestBad
<1>2. s \in SUBSET A /\ s \in SUBSET B
  OBVIOUS
<1>3. s # {}
  BY <1>2 DEF Running
<1>4. /\ g[s] = f[First(s)] + g[s \ {First(s)}]
      /\ h[s] = f[First(s)] + h[s \ {First(s)}]
  BY <1>2, <1>3 DEF Running
<1>5. g[s \ {First(s)}] = h[s \ {First(s)}]
  BY <1>1, <1>3, FirstIn
<1> QED
  BY <1>4, <1>5

(* There is one for every finite set: put together from those of its       *)
(* proper subsets.                                                         *)
LEMMA RunningExists ==
    ASSUME NEW f, NEW S, IsFiniteSet(S)
    PROVE  \E g : Running(f, g, S)
<1> DEFINE Bad == {s \in SUBSET S : ~\E g : Running(f, g, s)}
<1> SUFFICES ASSUME Bad # {} PROVE FALSE
  OBVIOUS
<1>0. Bad \in SUBSET SUBSET S
  OBVIOUS
<1>1. PICK s \in Bad : \A r \in SUBSET s : r # s => r \notin Bad
  <2> HIDE DEF Bad
  <2> QED
    BY <1>0, SmallestBad
<1> DEFINE Rest(r) == r \ {First(r)}
           Own(r) == CHOOSE g : Running(f, g, r)
           G == [r \in SUBSET s |-> IF r = {} THEN 0 ELSE f[First(r)] + Own(Rest(r))[Rest(r)]]
<1>2. ASSUME NEW r \in SUBSET s, r # s PROVE Running(f, Own(r), r)
  <2>1. \E g : Running(f, g, r)
    BY <1>1, <1>2
  <2> QED
    BY <2>1
<1>3. ASSUME NEW r \in SUBSET s, r # {}
      PROVE  /\ Rest(r) \in SUBSET s /\ Rest(r) # s
             /\ IsFiniteSet(Rest(r)) /\ Running(f, Own(Rest(r)), Rest(r))
  <2>1. Rest(r) \in SUBSET s /\ Rest(r) # s
    BY <1>3, FirstIn
  <2>2. Running(f, Own(Rest(r)), Rest(r))
    BY <1>2, <2>1
  <2> HIDE DEF Own
  <2>3. IsFiniteSet(Rest(r))
    BY FS_Subset
  <2> QED
    BY <2>1, <2>2, <2>3
<1>4. ASSUME NEW q \in SUBSET s, q # s, IsFiniteSet(q), Running(f, Own(q), q)
      PROVE  G[q] = Own(q)[q]
  <2>1. CASE q = {}
    <3> HIDE DEF Own
    <3>1. Own(q)[q] = 0
      BY <1>4, <2>1 DEF Running
    <3> QED
      BY <2>1, <3>1
  <2>2. CASE q # {}
    <3>1. Running(f, Own(Rest(q)), Rest(q)) /\ IsFiniteSet(Rest(q))
      BY <1>3, <2>2
    <3> HIDE DEF Own
    <3>2. Own(q)[q] = f[First(q)] + Own(q)[Rest(q)]
      BY <1>4, <2>2 DEF Running
    <3>3. Own(q)[Rest(q)] = Own(Rest(q))[Rest(q)]
      BY <1>4, <3>1, RunningAgree, Rest(q) \subseteq q
    <3>4. G[q] = f[First(q)] + Own(Rest(q))[Rest(q)]
      BY <2>2
    <3> QED
      BY <3>2, <3>3, <3>4
  <2> QED
    BY <2>1, <2>2
<1>5. ASSUME NEW r \in SUBSET s, r # {} PROVE G[r] = f[First(r)] + G[Rest(r)]
  <2>1. G[Rest(r)] = Own(Rest(r))[Rest(r)]
    BY <1>3, <1>4, <1>5
  <2> HIDE DEF Own
  <2> QED
    BY <1>5, <2>1
<1>6. Running(f, G, s)
  <2> HIDE DEF Own
  <2>1. \A r \in SUBSET s : G[r] = IF r = {} THEN 0 ELSE f[First(r)] + G[Rest(r)]
    BY <1>5
  <2>2. G = [r \in SUBSET s |-> G[r]]
    OBVIOUS
  <2> HIDE DEF G
  <2> QED
    BY <2>1, <2>2 DEF Running
<1> QED
  BY <1>1, <1>6

-----------------------------------------------------------------------------
(* The recursion of the fold, for SumOf itself. *)
LEMMA SumEmpty == ASSUME NEW f PROVE SumOf(f, {}) = 0
<1>1. PICK g : Running(f, g, {})
  BY RunningExists, FS_EmptySet
<1>2. Running(f, CHOOSE h : Running(f, h, {}), {})
  BY <1>1
<1> QED
  BY <1>2, SumIsRunning DEF Running

(* The same for a set that has a first element.                            *)
LEMMA SumFirst ==
    ASSUME NEW f, NEW S, IsFiniteSet(S), S # {}
    PROVE  SumOf(f, S) = f[First(S)] + SumOf(f, S \ {First(S)})
<1> DEFINE Own(r) == CHOOSE g : Running(f, g, r)
           R == S \ {First(S)}
<1>1. IsFiniteSet(R)
  BY FS_Subset
<1>2. Running(f, Own(S), S) /\ Running(f, Own(R), R)
  BY RunningExists, <1>1
<1>3. SumOf(f, S) = Own(S)[S] /\ SumOf(f, R) = Own(R)[R]
  BY SumIsRunning
<1> HIDE DEF Own
<1>4. Own(S)[S] = f[First(S)] + Own(S)[R]
  BY <1>2 DEF Running
<1>5. Own(S)[R] = Own(R)[R]
  BY <1>1, <1>2, RunningAgree
<1> QED
  BY <1>3, <1>4, <1>5

-----------------------------------------------------------------------------
(* A sum of natural numbers is one.                                        *)
LEMMA SumNat ==
    ASSUME NEW f, NEW S, IsFiniteSet(S), \A x \in S : f[x] \in Nat
    PROVE  SumOf(f, S) \in Nat
<1> DEFINE Bad == {s \in SUBSET S : SumOf(f, s) \notin Nat}
<1> SUFFICES ASSUME Bad # {} PROVE FALSE
  OBVIOUS
<1>0. Bad \in SUBSET SUBSET S
  OBVIOUS
<1>1. PICK s \in Bad : \A r \in SUBSET s : r # s => r \notin Bad
  <2> HIDE DEF Bad
  <2> QED
    BY <1>0, SmallestBad
<1>2. s # {} /\ IsFiniteSet(s)
  <2>1. SumOf(f, {}) \in Nat
    BY SumEmpty
  <2> QED
    BY <2>1, FS_Subset
<1>3. First(s) \in s
  BY <1>2, FirstIn
<1>4. SumOf(f, s \ {First(s)}) \in Nat
  BY <1>1, <1>3
<1>5. SumOf(f, s) \in Nat
  BY <1>2, <1>3, <1>4, SumFirst
<1> QED
  BY <1>5

(* Only the values on the set count.                                       *)
LEMMA SumSame ==
    ASSUME NEW f, NEW g, NEW S, IsFiniteSet(S), \A x \in S : f[x] = g[x]
    PROVE  SumOf(f, S) = SumOf(g, S)
<1> DEFINE Bad == {s \in SUBSET S : SumOf(f, s) # SumOf(g, s)}
<1> SUFFICES ASSUME Bad # {} PROVE FALSE
  OBVIOUS
<1>0. Bad \in SUBSET SUBSET S
  OBVIOUS
<1>1. PICK s \in Bad : \A r \in SUBSET s : r # s => r \notin Bad
  <2> HIDE DEF Bad
  <2> QED
    BY <1>0, SmallestBad
<1>2. s # {} /\ IsFiniteSet(s)
  BY SumEmpty, FS_Subset
<1>3. First(s) \in s
  BY <1>2, FirstIn
<1>4. SumOf(f, s \ {First(s)}) = SumOf(g, s \ {First(s)})
  BY <1>1, <1>3
<1>5. SumOf(f, s) = SumOf(g, s)
  BY <1>2, <1>3, <1>4, SumFirst
<1> QED
  BY <1>5

(* Any element may be taken out first.                                     *)
LEMMA SumWithout ==
    ASSUME NEW f, NEW S, IsFiniteSet(S), \A x \in S : f[x] \in Nat, NEW x \in S
    PROVE  SumOf(f, S) = f[x] + SumOf(f, S \ {x})
<1> DEFINE Bad == {s \in SUBSET S : \E y \in s : SumOf(f, s) # f[y] + SumOf(f, s \ {y})}
<1> SUFFICES ASSUME Bad # {} PROVE FALSE
  OBVIOUS
<1>0. Bad \in SUBSET SUBSET S
  OBVIOUS
<1>1. PICK s \in Bad : \A r \in SUBSET s : r # s => r \notin Bad
  <2> HIDE DEF Bad
  <2> QED
    BY <1>0, SmallestBad
<1>2. PICK y \in s : SumOf(f, s) # f[y] + SumOf(f, s \ {y})
  OBVIOUS
<1> DEFINE c == First(s)
<1>3. c \in s /\ IsFiniteSet(s) /\ c # y
  BY <1>2, FirstIn, FS_Subset, SumFirst
<1>4. SumOf(f, s) = f[c] + SumOf(f, s \ {c})
  BY <1>3, SumFirst
<1>5. SumOf(f, s \ {c}) = f[y] + SumOf(f, (s \ {c}) \ {y})
  BY <1>1, <1>3
<1>6. SumOf(f, s \ {y}) = f[c] + SumOf(f, (s \ {y}) \ {c})
  BY <1>1, <1>3
<1>7. (s \ {c}) \ {y} = (s \ {y}) \ {c}
  OBVIOUS
<1>8. PICK n \in Nat : n = SumOf(f, (s \ {c}) \ {y})
  BY SumNat, <1>3, FS_Subset, (s \ {c}) \ {y} \subseteq s
<1>9. PICK i \in Nat, j \in Nat : i = f[c] /\ j = f[y]
  BY <1>3
<1>10. SumOf(f, s) = i + (j + n) /\ SumOf(f, s \ {y}) = i + n
  BY <1>4, <1>5, <1>6, <1>7, <1>8, <1>9
<1>11. SumOf(f, s) = j + SumOf(f, s \ {y})
  BY <1>10
<1> QED
  BY <1>2, <1>9, <1>11

(* Where one value changes, the sum changes by as much.                    *)
LEMMA SumChange ==
    ASSUME NEW f, NEW g, NEW S, IsFiniteSet(S), \A y \in S : f[y] \in Nat /\ g[y] \in Nat,
           NEW x \in S, \A y \in S \ {x} : f[y] = g[y]
    PROVE  SumOf(g, S) + f[x] = SumOf(f, S) + g[x]
<1>1. IsFiniteSet(S \ {x})
  BY FS_Subset
<1>2. SumOf(f, S \ {x}) = SumOf(g, S \ {x})
  BY <1>1, SumSame
<1>3. SumOf(f, S) = f[x] + SumOf(f, S \ {x}) /\ SumOf(g, S) = g[x] + SumOf(g, S \ {x})
  BY SumWithout
<1>4. SumOf(f, S \ {x}) \in Nat
  BY <1>1, SumNat
<1> QED
  BY <1>2, <1>3, <1>4

(* A sum of smaller values is no larger.                                   *)
LEMMA SumAtMost ==
    ASSUME NEW f, NEW g, NEW S, IsFiniteSet(S),
           \A x \in S : f[x] \in Nat /\ g[x] \in Nat /\ f[x] <= g[x]
    PROVE  SumOf(f, S) <= SumOf(g, S)
<1> DEFINE Bad == {s \in SUBSET S : ~(SumOf(f, s) <= SumOf(g, s))}
<1> SUFFICES ASSUME Bad # {} PROVE FALSE
  OBVIOUS
<1>0. Bad \in SUBSET SUBSET S
  OBVIOUS
<1>1. PICK s \in Bad : \A r \in SUBSET s : r # s => r \notin Bad
  <2> HIDE DEF Bad
  <2> QED
    BY <1>0, SmallestBad
<1>2. s # {} /\ IsFiniteSet(s)
  <2>1. SumOf(f, {}) <= SumOf(g, {})
    BY SumEmpty
  <2> QED
    BY <2>1, FS_Subset
<1> DEFINE c == First(s)
           r == s \ {First(s)}
<1>3. c \in s /\ r \subseteq s /\ r # s /\ IsFiniteSet(r)
  BY <1>2, FirstIn, FS_Subset
<1>4. SumOf(f, r) <= SumOf(g, r)
  BY <1>1, <1>3
<1>5. SumOf(f, s) = f[c] + SumOf(f, r) /\ SumOf(g, s) = g[c] + SumOf(g, r)
  BY <1>2, SumFirst
<1>6. SumOf(f, r) \in Nat /\ SumOf(g, r) \in Nat
  BY <1>3, SumNat
<1> HIDE DEF c, r
<1>7. SumOf(f, s) <= SumOf(g, s)
  BY <1>3, <1>4, <1>5, <1>6
<1> QED
  BY <1>7

(* The sum of sums.                                                        *)
LEMMA SumOfBoth ==
    ASSUME NEW f, NEW g, NEW h, NEW S, IsFiniteSet(S),
           \A x \in S : f[x] \in Nat /\ g[x] \in Nat /\ h[x] = f[x] + g[x]
    PROVE  SumOf(h, S) = SumOf(f, S) + SumOf(g, S)
<1> DEFINE Bad == {s \in SUBSET S : SumOf(h, s) # SumOf(f, s) + SumOf(g, s)}
<1> SUFFICES ASSUME Bad # {} PROVE FALSE
  OBVIOUS
<1>0. Bad \in SUBSET SUBSET S
  OBVIOUS
<1>1. PICK s \in Bad : \A r \in SUBSET s : r # s => r \notin Bad
  <2> HIDE DEF Bad
  <2> QED
    BY <1>0, SmallestBad
<1>2. s # {} /\ IsFiniteSet(s)
  <2>1. SumOf(h, {}) = SumOf(f, {}) + SumOf(g, {})
    BY SumEmpty
  <2> QED
    BY <2>1, FS_Subset
<1> DEFINE c == First(s)
           r == s \ {First(s)}
<1>3. c \in s /\ r \subseteq s /\ r # s /\ IsFiniteSet(r)
  BY <1>2, FirstIn, FS_Subset
<1>4. SumOf(h, r) = SumOf(f, r) + SumOf(g, r)
  BY <1>1, <1>3
<1>5. /\ SumOf(f, s) = f[c] + SumOf(f, r) /\ SumOf(g, s) = g[c] + SumOf(g, r)
      /\ SumOf(h, s) = h[c] + SumOf(h, r)
  BY <1>2, SumFirst
<1>6. SumOf(f, r) \in Nat /\ SumOf(g, r) \in Nat
  BY <1>3, SumNat
<1> HIDE DEF c, r
<1>7. SumOf(h, s) = SumOf(f, s) + SumOf(g, s)
  BY <1>3, <1>4, <1>5, <1>6
<1> QED
  BY <1>7

(* Nothing adds up to nothing.                                             *)
LEMMA SumZero ==
    ASSUME NEW f, NEW S, IsFiniteSet(S), \A x \in S : f[x] = 0
    PROVE  SumOf(f, S) = 0
<1>1. PICK n \in Nat : n = SumOf(f, S)
  BY SumNat
<1>2. n + n <= n
  BY <1>1, SumOfBoth
<1> QED
  BY <1>1, <1>2
=============================================================================
