-------------------------------- MODULE Sums --------------------------------
(***************************************************************************)
(* The sum of the weights of a finite set, with what the theorems about    *)
(* balances and about the clearing account need of it: MapThenSumSet folds *)
(* over its set in an order that CHOOSE fixes, and no order matters.       *)
(***************************************************************************)
EXTENDS Integers, FiniteSetsExt, FiniteSetTheorems, WellFoundedInduction, TLAPS

CONSTANTS Element, Weight

\* The hypothesis of every lemma; who instantiates the module proves it.
Weighted == IsFiniteSet(Element) /\ Weight \in [Element -> Int]
Sum(S) == MapThenSumSet(LAMBDA x : Weight[x], S)

\* The function the fold of MapThenSumSet computes with.
Pick(s) == CHOOSE x \in s : TRUE
IsSum(it, S) ==
    it = [s \in SUBSET S |-> IF s = {} THEN 0 ELSE Weight[Pick(s)] + it[s \ {Pick(s)}]]
SumOver(S) == CHOOSE it : IsSum(it, S)

\* A family of sets of elements has a member none of whose proper subsets is in it.
LEMMA Smallest ==
    ASSUME Weighted, NEW F \in SUBSET (SUBSET Element), F # {}
    PROVE  \E s \in F : \A t \in SUBSET s : t # s => t \notin F
<1>1. FiniteSubsetsOf(Element) = SUBSET Element
  BY FS_FiniteSubsetsOfFinite DEF Weighted
<1>2. IsWellFoundedOn(StrictSubsetOrdering(Element), SUBSET Element)
  BY <1>1, FS_StrictSubsetOrderingWellFounded
<1>3. PICK s \in F : \A t \in F : ~(<<t, s>> \in StrictSubsetOrdering(Element))
  BY <1>2, WFMin
<1>4. \A t \in SUBSET s : t # s => t \notin F
  BY <1>3 DEF StrictSubsetOrdering
<1>5. QED
  BY <1>4

LEMMA PickIn ==
    ASSUME NEW s, s # {}
    PROVE  Pick(s) \in s
  BY DEF Pick

\* What a fold says of a set it covers.
LEMMA SumStep ==
    ASSUME NEW it, NEW S, IsSum(it, S), NEW s \in SUBSET S
    PROVE  it[s] = IF s = {} THEN 0 ELSE Weight[Pick(s)] + it[s \ {Pick(s)}]
  BY DEF IsSum

\* Two folds agree on what both cover, and give integers.
LEMMA SumsAgree ==
    ASSUME Weighted, NEW S \in SUBSET Element, NEW T \in SUBSET Element,
           NEW f, NEW g, IsSum(f, S), IsSum(g, T), NEW s \in SUBSET (S \cap T)
    PROVE  f[s] = g[s] /\ f[s] \in Int
<1> DEFINE Bad == {t \in SUBSET (S \cap T) : ~(f[t] = g[t] /\ f[t] \in Int)}
<1>1. SUFFICES Bad = {}
  BY <1>1
<1>2. SUFFICES ASSUME Bad # {}
               PROVE  FALSE
  BY <1>2
<1>3. Bad \in SUBSET (SUBSET Element)
  OBVIOUS
<1>4. PICK t \in Bad : \A u \in SUBSET t : u # t => u \notin Bad
  BY <1>2, <1>3, Smallest
<1>5. t \in SUBSET S /\ t \in SUBSET T
  OBVIOUS
<1>6. CASE t = {}
  <2>1. f[t] = 0
    BY <1>5, <1>6, SumStep
  <2>2. g[t] = 0
    BY <1>5, <1>6, SumStep
  <2>3. QED
    BY <2>1, <2>2
<1>7. CASE t # {}
  <2>1. Pick(t) \in t
    BY <1>7, PickIn
  <2>2. t \ {Pick(t)} \notin Bad /\ t \ {Pick(t)} \in SUBSET (S \cap T)
    BY <1>4, <1>5, <2>1
  <2>3. f[t \ {Pick(t)}] = g[t \ {Pick(t)}] /\ f[t \ {Pick(t)}] \in Int
    BY <2>2
  <2>4. f[t] = Weight[Pick(t)] + f[t \ {Pick(t)}]
    BY <1>5, <1>7, SumStep
  <2>5. g[t] = Weight[Pick(t)] + g[t \ {Pick(t)}]
    BY <1>5, <1>7, SumStep
  <2>6. Weight[Pick(t)] \in Int
    BY <1>5, <2>1 DEF Weighted
  <2>7. f[t] = g[t] /\ f[t] \in Int
    BY <2>3, <2>4, <2>5, <2>6
  <2>8. QED
    BY <2>7
<1>8. QED
  BY <1>6, <1>7

\* A fold exists over every set of elements.
LEMMA SumExists ==
    ASSUME Weighted, NEW S \in SUBSET Element
    PROVE  IsSum(SumOver(S), S)
<1> DEFINE Bad == {s \in SUBSET Element : ~IsSum(SumOver(s), s)}
<1>1. SUFFICES Bad = {}
  BY <1>1
<1>2. SUFFICES ASSUME Bad # {}
               PROVE  FALSE
  BY <1>2
<1>3. PICK s \in Bad : \A t \in SUBSET s : t # s => t \notin Bad
  BY <1>2, Smallest
<1>4. \A t \in SUBSET s : t # s => IsSum(SumOver(t), t)
  BY <1>3
<1> HIDE DEF Bad
<1> DEFINE it == [t \in SUBSET s |->
                    IF t = {} THEN 0
                    ELSE Weight[Pick(t)] + SumOver(t \ {Pick(t)})[t \ {Pick(t)}]]
<1>5. \A t \in SUBSET s : t # {} => it[t \ {Pick(t)}] = SumOver(t \ {Pick(t)})[t \ {Pick(t)}]
  <2> SUFFICES ASSUME NEW t \in SUBSET s, t # {}
               PROVE  it[t \ {Pick(t)}] = SumOver(t \ {Pick(t)})[t \ {Pick(t)}]
    OBVIOUS
  <2> DEFINE u == t \ {Pick(t)}
  <2>1. Pick(t) \in t
    BY PickIn
  <2>2. u \in SUBSET s /\ u # s /\ u \in SUBSET Element
    BY <2>1, <1>3 DEF Bad
  <2>3. IsSum(SumOver(u), u)
    BY <1>4, <2>2
  <2> HIDE DEF u
  <2>4. SumOver(u)[u] = IF u = {} THEN 0 ELSE Weight[Pick(u)] + SumOver(u)[u \ {Pick(u)}]
    BY <2>3, SumStep
  <2>5. it[u] = IF u = {} THEN 0 ELSE Weight[Pick(u)] + SumOver(u \ {Pick(u)})[u \ {Pick(u)}]
    BY <2>2
  <2>6. CASE u = {}
    BY <2>4, <2>5, <2>6 DEF u
  <2>7. CASE u # {}
    <3> DEFINE v == u \ {Pick(u)}
    <3>1. Pick(u) \in u
      BY <2>7, PickIn
    <3>2. v \in SUBSET s /\ v # s /\ v \in SUBSET Element /\ v \in SUBSET (u \cap v)
      BY <2>2, <3>1
    <3>3. IsSum(SumOver(v), v)
      BY <1>4, <3>2
    <3> HIDE DEF v
    <3>4. SumOver(u)[v] = SumOver(v)[v]
      BY <2>2, <2>3, <3>2, <3>3, SumsAgree
    <3>5. SumOver(u)[u] = it[u]
      BY <2>4, <2>5, <2>7, <3>4 DEF v
    <3>6. QED
      BY <3>5 DEF u
  <2>8. QED
    BY <2>6, <2>7
<1>6. \A t \in SUBSET s : it[t] = IF t = {} THEN 0 ELSE Weight[Pick(t)] + it[t \ {Pick(t)}]
  BY <1>5
<1>7. it = [t \in SUBSET s |-> it[t]]
  OBVIOUS
<1> HIDE DEF it
<1>8. IsSum(it, s)
  BY <1>6, <1>7 DEF IsSum
<1>9. IsSum(SumOver(s), s)
  BY <1>8 DEF SumOver
<1>10. QED
  BY <1>3, <1>9 DEF Bad

\* Sum, as a fold over its own set.
LEMMA SumIs ==
    ASSUME NEW S
    PROVE  Sum(S) = SumOver(S)[S]
<1>1. Sum(S) = (CHOOSE it : it = [s \in SUBSET S |->
                   IF s = {} THEN 0 ELSE Weight[Pick(s)] + it[s \ {Pick(s)}]])[S]
  BY DEF Sum, MapThenSumSet, MapThenFoldSet, Pick
<1>2. QED
  BY <1>1 DEF SumOver, IsSum

LEMMA SumTyped ==
    ASSUME Weighted, NEW S \in SUBSET Element
    PROVE  Sum(S) \in Int
<1>1. IsSum(SumOver(S), S)
  BY SumExists
<1>2. SumOver(S)[S] \in Int
  BY <1>1, SumsAgree
<1>3. QED
  BY <1>2, SumIs

LEMMA SumEmpty ==
    ASSUME Weighted
    PROVE  Sum({}) = 0
<1>1. IsSum(SumOver({}), {})
  BY SumExists
<1>2. SumOver({})[{}] = 0
  BY <1>1, SumStep
<1>3. QED
  BY <1>2, SumIs

LEMMA SumPick ==
    ASSUME Weighted, NEW S \in SUBSET Element, S # {}
    PROVE  Sum(S) = Weight[Pick(S)] + Sum(S \ {Pick(S)})
<1> DEFINE T == S \ {Pick(S)}
<1>1. IsSum(SumOver(S), S) /\ IsSum(SumOver(T), T)
  BY SumExists
<1>2. SumOver(S)[S] = Weight[Pick(S)] + SumOver(S)[T]
  BY <1>1, SumStep
<1>3. T \in SUBSET Element /\ T \in SUBSET (S \cap T)
  OBVIOUS
<1> HIDE DEF T
<1>4. SumOver(S)[T] = SumOver(T)[T]
  BY <1>1, <1>3, SumsAgree, Z3
<1>5. QED
  BY <1>2, <1>4, SumIs DEF T

\* In any order.
LEMMA SumRemove ==
    ASSUME Weighted, NEW S \in SUBSET Element, NEW x \in S
    PROVE  Sum(S) = Weight[x] + Sum(S \ {x})
<1> DEFINE Bad == {s \in SUBSET Element : \E y \in s : Sum(s) # Weight[y] + Sum(s \ {y})}
<1>1. SUFFICES Bad = {}
  BY <1>1
<1>2. SUFFICES ASSUME Bad # {}
               PROVE  FALSE
  BY <1>2
<1>3. PICK s \in Bad : \A t \in SUBSET s : t # s => t \notin Bad
  BY <1>2, Smallest
<1>4. PICK y \in s : Sum(s) # Weight[y] + Sum(s \ {y})
  OBVIOUS
<1>5. s \in SUBSET Element
  OBVIOUS
<1> DEFINE p == Pick(s)
           both == (s \ {p}) \ {y}
<1>6. p \in s /\ Sum(s) = Weight[p] + Sum(s \ {p})
  BY <1>4, <1>5, PickIn, SumPick
<1> HIDE DEF p
<1>7. p # y
  BY <1>4, <1>6
<1>8. Sum(s \ {p}) = Weight[y] + Sum(both)
  BY <1>3, <1>4, <1>5, <1>6, <1>7
<1>9. Sum(s \ {y}) = Weight[p] + Sum((s \ {y}) \ {p})
  BY <1>3, <1>4, <1>5, <1>6, <1>7
<1>10. (s \ {y}) \ {p} = both
  OBVIOUS
<1>11. Weight[p] \in Int /\ Weight[y] \in Int
  BY <1>4, <1>5, <1>6 DEF Weighted
<1>12. both \in SUBSET Element
  BY <1>5
<1> HIDE DEF both
<1>13. Sum(both) \in Int
  BY <1>12, SumTyped
<1>14. Sum(s) = Weight[y] + Sum(s \ {y})
  <2>1. Sum(s \ {y}) = Weight[p] + Sum(both)
    BY <1>9, <1>10
  <2>2. Sum(s) = Weight[p] + (Weight[y] + Sum(both))
    BY <1>6, <1>8
  <2>3. Weight[p] + (Weight[y] + Sum(both)) = Weight[y] + (Weight[p] + Sum(both))
    BY <1>11, <1>13
  <2>4. QED
    BY <2>1, <2>2, <2>3
<1>15. QED
  BY <1>4, <1>14

LEMMA SumUnion ==
    ASSUME Weighted, NEW X \in SUBSET Element, NEW Y \in SUBSET Element, X \cap Y = {}
    PROVE  Sum(X \cup Y) = Sum(X) + Sum(Y)
<1> DEFINE Bad == {s \in SUBSET Element : s \cap Y = {} /\ Sum(s \cup Y) # Sum(s) + Sum(Y)}
<1>1. SUFFICES Bad = {}
  BY <1>1
<1>2. SUFFICES ASSUME Bad # {}
               PROVE  FALSE
  BY <1>2
<1>3. PICK s \in Bad : \A t \in SUBSET s : t # s => t \notin Bad
  BY <1>2, Smallest
<1>4. s \in SUBSET Element /\ s \cap Y = {} /\ Sum(s \cup Y) # Sum(s) + Sum(Y)
  OBVIOUS
<1>5. Sum(Y) \in Int
  BY SumTyped
<1>6. CASE s = {}
  <2>1. s \cup Y = Y
    BY <1>6
  <2>2. QED
    BY <1>4, <1>5, <1>6, <2>1, SumEmpty
<1>7. CASE s # {}
  <2> DEFINE t == s \ {Pick(s)}
  <2>1. Pick(s) \in s /\ Sum(s) = Weight[Pick(s)] + Sum(t)
    BY <1>4, <1>7, PickIn, SumPick
  <2>2. t \in SUBSET s /\ t # s
    BY <2>1
  <2>3. t \notin Bad
    BY <1>3, <2>2
  <2>4. Sum(t \cup Y) = Sum(t) + Sum(Y)
    BY <1>4, <2>2, <2>3
  <2>5. (s \cup Y) \ {Pick(s)} = t \cup Y
    BY <1>4, <2>1
  <2>6. Sum(s \cup Y) = Weight[Pick(s)] + Sum(t \cup Y)
    <3>1. s \cup Y \in SUBSET Element /\ Pick(s) \in s \cup Y
      BY <1>4, <2>1
    <3>2. Sum(s \cup Y) = Weight[Pick(s)] + Sum((s \cup Y) \ {Pick(s)})
      BY <3>1, SumRemove
    <3>3. QED
      BY <2>5, <3>2
  <2>7. Sum(t) \in Int /\ Weight[Pick(s)] \in Int
    BY <1>4, <2>1, <2>2, SumTyped DEF Weighted
  <2>8. QED
    BY <1>4, <1>5, <2>1, <2>4, <2>6, <2>7
<1>8. QED
  BY <1>6, <1>7

\* Elements that come in pairs of opposite weights cancel out.
LEMMA SumPaired ==
    ASSUME Weighted, NEW S \in SUBSET Element, NEW mate \in [S -> S],
           \A x \in S : /\ mate[x] # x /\ mate[mate[x]] = x
                        /\ Weight[x] + Weight[mate[x]] = 0
    PROVE  Sum(S) = 0
<1> DEFINE Closed(s) == \A x \in s : mate[x] \in s
           Bad == {s \in SUBSET S : Closed(s) /\ Sum(s) # 0}
<1>1. SUFFICES Bad = {}
  BY <1>1
<1>2. SUFFICES ASSUME Bad # {}
               PROVE  FALSE
  BY <1>2
<1>3. PICK s \in Bad : \A t \in SUBSET s : t # s => t \notin Bad
  BY <1>2, Smallest
<1>4. s \in SUBSET S /\ Closed(s) /\ Sum(s) # 0
  OBVIOUS
<1>5. PICK x \in s : TRUE
  BY <1>4, SumEmpty
<1> DEFINE y == mate[x]
           t == (s \ {x}) \ {y}
<1>6. x \in Element /\ y \in s /\ y # x /\ mate[y] = x /\ Weight[x] + Weight[y] = 0
  BY <1>4, <1>5
<1>7. Closed(t)
  <2> SUFFICES ASSUME NEW z \in t
               PROVE  mate[z] \in t
    OBVIOUS
  <2>1. z \in S /\ mate[z] \in s /\ mate[mate[z]] = z
    BY <1>4
  <2>2. mate[z] # x /\ mate[z] # y
    BY <2>1, <1>6
  <2>3. QED
    BY <2>1, <2>2
<1>8. t \in SUBSET s /\ t # s /\ t \in SUBSET Element
  BY <1>4, <1>5
<1>9. Sum(t) = 0
  BY <1>3, <1>4, <1>7, <1>8
<1>10. Sum(s) = Weight[x] + Sum(s \ {x})
  BY <1>4, <1>5, SumRemove
<1>11. Sum(s \ {x}) = Weight[y] + Sum(t)
  <2>1. s \ {x} \in SUBSET Element /\ y \in s \ {x}
    BY <1>4, <1>6
  <2>2. QED
    BY <2>1, SumRemove
<1>12. Weight[x] \in Int /\ Weight[y] \in Int
  BY <1>4, <1>6 DEF Weighted
<1>13. QED
  BY <1>4, <1>6, <1>9, <1>10, <1>11, <1>12
=============================================================================
