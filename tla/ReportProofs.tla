----------------------------- MODULE ReportProofs -----------------------------
(***************************************************************************)
(* Proofs about Report and Percentile: that the nearest rank is one, that  *)
(* a phase's figures add up and are no better for waits and time-outs, and *)
(* that the saturation a report gives was read.                            *)
(*                                                                         *)
(* What a fold or an order statistic is takes an induction.  LeastNatural  *)
(* is the form of it used here: a set of naturals that is not empty has a  *)
(* least member, so of the counterexamples there would be a smallest one.  *)
(***************************************************************************)
EXTENDS Report, FiniteSetTheorems, SequenceTheorems, WellFoundedInduction, TLAPS

-----------------------------------------------------------------------------
Names == {"limiter", "compute", "health"}

\* The assumption on the constants, as the proofs use it.
LEMMA Constants ==
    /\ N \in Nat \ {0} /\ Loads \subseteq Nat /\ Lags \subseteq Nat /\ Timeout \in Nat
    /\ Latencies \subseteq 0 .. Timeout
    /\ Warmup \in Nat /\ Duration \in Nat /\ Drift \in Nat /\ MaxTime \in Nat
    /\ MaxCounts \in Nat
    /\ \A s \in Plans : s \in Seq(Names) /\ s # <<>>
<1>1. \A x : x \in 0 .. Largest => x \in Nat
  OBVIOUS
<1>2. MaxCounts \in 0 .. Largest
  BY ReportAssumption
<1>3. MaxCounts \in Nat
  BY <1>1, <1>2
<1> QED
  BY ReportAssumption, <1>3 DEF Names

-----------------------------------------------------------------------------
(* Least and greatest numbers, and sums.                                   *)

\* A set of natural numbers has a least one.
LEMMA LeastNatural ==
    ASSUME NEW T \in SUBSET Nat, T # {}
    PROVE  \E m \in T : \A k \in T : m <= k
<1> DEFINE R == OpToRel(<, Nat)
<1>1. IsWellFoundedOn(R, Nat)
  BY NatLessThanWellFounded
<1>2. \A x, y \in Nat : x < y => <<x, y>> \in R
  BY DEF OpToRel
<1> HIDE DEF R
<1>3. PICK m \in T : \A y \in T : <<y, m>> \notin R
  BY <1>1, WFMin
<1>4. ASSUME NEW k \in T PROVE m <= k
  <2>1. m \in Nat /\ k \in Nat
    OBVIOUS
  <2>2. ~ (k < m)
    BY <1>2, <1>3, <2>1
  <2> QED
    BY <2>1, <2>2
<1> QED
  BY <1>4

\* A bounded one has a greatest.
LEMMA GreatestNatural ==
    ASSUME NEW T \in SUBSET Nat, T # {}, NEW b \in Nat, \A k \in T : k <= b
    PROVE  \E m \in T : \A k \in T : m >= k
<1> DEFINE D == {b - k : k \in T}
<1>1. D \subseteq Nat /\ D # {}
  <2>1. ASSUME NEW k \in T PROVE b - k \in Nat
    <3>1. k \in Nat /\ k <= b
      OBVIOUS
    <3> QED
      BY <3>1
  <2> QED
    BY <2>1
<1>2. PICK d \in D : \A e \in D : d <= e
  BY <1>1, LeastNatural
<1>3. PICK m \in T : d = b - m
  OBVIOUS
<1>4. ASSUME NEW k \in T PROVE m >= k
  <2>1. b - k \in D
    OBVIOUS
  <2>2. b - m <= b - k /\ m \in Nat /\ k \in Nat
    BY <1>2, <1>3, <2>1
  <2> QED
    BY <2>2
<1> QED
  BY <1>4

\* A finite one is bounded.
LEMMA FiniteIsBounded ==
    ASSUME NEW T \in SUBSET Nat, IsFiniteSet(T)
    PROVE  \E b \in Nat : \A k \in T : k <= b
<1> DEFINE Bounded(S) == \E b \in Nat : \A k \in S : k <= b
           Bad == {n \in Nat : \E S \in SUBSET T : Cardinality(S) = n /\ ~ Bounded(S)}
<1>1. Bad = {}
  <2> SUFFICES ASSUME Bad # {} PROVE FALSE
    OBVIOUS
  <2>1. PICK n \in Bad : \A k \in Bad : n <= k
    BY LeastNatural
  <2>2. PICK S \in SUBSET T : Cardinality(S) = n /\ ~ Bounded(S)
    OBVIOUS
  <2>3. S # {}
    <3>1. \A k \in {} : k <= 0
      OBVIOUS
    <3> QED
      BY <2>2, <3>1
  <2>4. PICK x : x \in S
    BY <2>3
  <2>5. IsFiniteSet(S) /\ Cardinality(S \ {x}) = n - 1 /\ S \ {x} \in SUBSET T
    BY <2>2, <2>4, FS_Subset, FS_RemoveElement
  <2>6. n - 1 \in Nat
    BY <2>5, FS_CardinalityType, FS_Subset, FS_RemoveElement
  <2>7. n - 1 \notin Bad
    BY <2>1, <2>6
  <2>8. Bounded(S \ {x})
    BY <2>5, <2>6, <2>7
  <2>9. PICK b \in Nat : \A k \in S \ {x} : k <= b
    BY <2>8
  <2>10. x \in Nat /\ b + x \in Nat
    BY <2>4
  <2>11. \A k \in S : k <= b + x
    BY <2>9, <2>10
  <2> QED
    BY <2>2, <2>10, <2>11
<1>2. Cardinality(T) \in Nat
  BY FS_CardinalityType
<1> QED
  BY <1>1, <1>2

\* So Max is what its name says.
LEMMA MaxIsMax ==
    ASSUME NEW T \in SUBSET Nat, T # {}, IsFiniteSet(T)
    PROVE  Max(T) \in T /\ \A k \in T : k <= Max(T)
<1>1. PICK b \in Nat : \A k \in T : k <= b
  BY FiniteIsBounded
<1>2. \E m \in T : \A k \in T : m >= k
  BY <1>1, GreatestNatural
<1>3. Max(T) \in T /\ \A k \in T : Max(T) >= k
  BY <1>2 DEF Max
<1> QED
  BY <1>3

\* So is Min.
LEMMA MinIsMin ==
    ASSUME NEW T \in SUBSET Nat, T # {}
    PROVE  Min(T) \in T /\ \A k \in T : Min(T) <= k
BY LeastNatural DEF Min

-----------------------------------------------------------------------------
Pick(s) == CHOOSE x \in s : TRUE

\* One step of the fold SumFunction stands for, on the sets of D.
Unrolled(f, g, D) == [s \in D |-> IF s = {} THEN 0 ELSE f[Pick(s)] + g[s \ {Pick(s)}]]

UpTo(S, n) == {s \in SUBSET S : Cardinality(s) <= n}

\* Taking the picked element out of a set leaves a smaller one.
LEMMA PickedApart ==
    ASSUME NEW S, IsFiniteSet(S), NEW s \in SUBSET S, s # {}
    PROVE  /\ IsFiniteSet(s) /\ Pick(s) \in s /\ s \ {Pick(s)} \in SUBSET S
           /\ Cardinality(s) \in Nat \ {0}
           /\ Cardinality(s \ {Pick(s)}) = Cardinality(s) - 1
<1>1. IsFiniteSet(s)
  BY FS_Subset
<1>2. Pick(s) \in s
  BY DEF Pick
<1>3. Cardinality(s) \in Nat \ {0}
  BY <1>1, FS_CardinalityType, FS_EmptySet
<1> QED
  BY <1>1, <1>2, <1>3, FS_RemoveElement

\* There is a function that the fold defines.
LEMMA FoldExists ==
    ASSUME NEW S, IsFiniteSet(S), NEW f
    PROVE  \E g : g = Unrolled(f, g, SUBSET S)
<1> DEFINE Solved(n) == \E g : g = Unrolled(f, g, UpTo(S, n))
           Bad == {n \in Nat : ~ Solved(n)}
<1>1. Solved(0)
  <2>1. UpTo(S, 0) = {{}}
    BY FS_EmptySet, FS_Subset, FS_CardinalityType DEF UpTo
  <2> DEFINE g == [s \in {{}} |-> 0]
  <2>2. Unrolled(f, g, UpTo(S, 0)) = g
    BY <2>1 DEF Unrolled
  <2> QED
    BY <2>2
<1>2. ASSUME NEW n \in Nat, Solved(n) PROVE Solved(n + 1)
  <2>1. PICK g : g = Unrolled(f, g, UpTo(S, n))
    BY <1>2
  <2>2. PICK h : h = Unrolled(f, g, UpTo(S, n + 1))
    OBVIOUS
  <2>3. ASSUME NEW s \in UpTo(S, n + 1), s # {}
        PROVE  s \ {Pick(s)} \in UpTo(S, n) /\ s \ {Pick(s)} \in UpTo(S, n + 1)
    BY <2>3, PickedApart DEF UpTo
  <2>4. ASSUME NEW t \in UpTo(S, n), t \in UpTo(S, n + 1) PROVE g[t] = h[t]
    BY <2>1, <2>2, <2>4 DEF Unrolled
  <2>5. ASSUME NEW s \in UpTo(S, n + 1)
        PROVE  h[s] = IF s = {} THEN 0 ELSE f[Pick(s)] + h[s \ {Pick(s)}]
    <3>1. h[s] = IF s = {} THEN 0 ELSE f[Pick(s)] + g[s \ {Pick(s)}]
      BY <2>2 DEF Unrolled
    <3> QED
      BY <2>3, <2>4, <3>1
  <2>6. h = Unrolled(f, h, UpTo(S, n + 1))
    BY <2>2, <2>5, Zenon DEF Unrolled
  <2> QED
    BY <2>6
<1> HIDE DEF Solved
<1>3. Bad = {}
  <2> SUFFICES ASSUME Bad # {} PROVE FALSE
    OBVIOUS
  <2>1. PICK n \in Bad : \A k \in Bad : n <= k
    BY LeastNatural
  <2>2. n # 0 /\ n - 1 \in Nat /\ n \in Nat
    BY <1>1
  <2>3. Solved(n - 1)
    BY <2>1, <2>2
  <2>4. Solved((n - 1) + 1)
    BY <1>2, <2>2, <2>3
  <2> QED
    BY <2>2, <2>4
<1>4. Cardinality(S) \in Nat
  BY FS_CardinalityType
<1>5. UpTo(S, Cardinality(S)) = SUBSET S
  BY FS_Subset DEF UpTo
<1>6. Solved(Cardinality(S))
  BY <1>3, <1>4
<1> QED
  BY <1>5, <1>6 DEF Solved

\* And SumFunction is what it gives for the whole domain.
LEMMA FoldOf ==
    ASSUME NEW f, IsFiniteSet(DOMAIN f)
    PROVE  \E g : g = Unrolled(f, g, SUBSET DOMAIN f) /\ SumFunction(f) = g[DOMAIN f]
<1> DEFINE S == DOMAIN f
           g == CHOOSE g : g = [s \in SUBSET S |->
                    IF s = {} THEN 0
                    ELSE f[CHOOSE x \in s : TRUE] + g[s \ {CHOOSE x \in s : TRUE}]]
<1>1. SumFunction(f) = g[S]
  BY DEF SumFunction, SumFunctionOnSet, FoldFunctionOnSet, MapThenFoldSet
<1>2. \E h : h = [s \in SUBSET S |->
                    IF s = {} THEN 0
                    ELSE f[CHOOSE x \in s : TRUE] + h[s \ {CHOOSE x \in s : TRUE}]]
  <2>1. PICK h : h = Unrolled(f, h, SUBSET S)
    BY FoldExists
  <2>2. h = [s \in SUBSET S |->
                    IF s = {} THEN 0
                    ELSE f[CHOOSE x \in s : TRUE] + h[s \ {CHOOSE x \in s : TRUE}]]
    BY <2>1, Zenon DEF Unrolled, Pick
  <2> QED
    BY <2>2, Zenon
<1>3. g = [s \in SUBSET S |->
                    IF s = {} THEN 0
                    ELSE f[CHOOSE x \in s : TRUE] + g[s \ {CHOOSE x \in s : TRUE}]]
  BY <1>2, Zenon
<1>4. g = Unrolled(f, g, SUBSET S)
  BY <1>3, Zenon DEF Unrolled, Pick
<1> HIDE DEF g
<1> QED
  BY <1>1, <1>4

\* One step of it.
LEMMA FoldUnrolls ==
    ASSUME NEW S, NEW f, NEW g, g = Unrolled(f, g, SUBSET S), NEW s \in SUBSET S
    PROVE  g[s] = IF s = {} THEN 0 ELSE f[Pick(s)] + g[s \ {Pick(s)}]
BY Zenon DEF Unrolled

\* A fold of natural numbers is one.
LEMMA FoldIsNatural ==
    ASSUME NEW S, IsFiniteSet(S), NEW f, NEW g, g = Unrolled(f, g, SUBSET S),
           \A x \in S : f[x] \in Nat, NEW t \in SUBSET S
    PROVE  g[t] \in Nat
<1> DEFINE Bad == {n \in Nat : \E s \in SUBSET S : Cardinality(s) = n /\ g[s] \notin Nat}
<1>1. Bad = {}
  <2> SUFFICES ASSUME Bad # {} PROVE FALSE
    OBVIOUS
  <2>1. PICK n \in Bad : \A k \in Bad : n <= k
    BY LeastNatural
  <2>2. PICK s \in SUBSET S : Cardinality(s) = n /\ g[s] \notin Nat
    OBVIOUS
  <2>3. g[s] = IF s = {} THEN 0 ELSE f[Pick(s)] + g[s \ {Pick(s)}]
    BY FoldUnrolls
  <2>4. s # {}
    BY <2>2, <2>3
  <2>5. /\ Pick(s) \in s /\ s \ {Pick(s)} \in SUBSET S /\ n - 1 \in Nat
        /\ Cardinality(s \ {Pick(s)}) = n - 1
    BY <2>2, <2>4, PickedApart
  <2>6. n - 1 \notin Bad
    BY <2>1, <2>5
  <2>7. g[s \ {Pick(s)}] \in Nat
    BY <2>5, <2>6
  <2>8. f[Pick(s)] \in Nat
    BY <2>5
  <2>9. f[Pick(s)] + g[s \ {Pick(s)}] \in Nat
    BY <2>7, <2>8
  <2> QED
    BY <2>2, <2>3, <2>4, <2>9
<1>2. Cardinality(t) \in Nat
  BY FS_Subset, FS_CardinalityType
<1> QED
  BY <1>1, <1>2

\* A sum of natural numbers is one.
LEMMA SumIsNatural ==
    ASSUME NEW f, IsFiniteSet(DOMAIN f), \A x \in DOMAIN f : f[x] \in Nat
    PROVE  SumFunction(f) \in Nat
<1>1. PICK g : g = Unrolled(f, g, SUBSET DOMAIN f) /\ SumFunction(f) = g[DOMAIN f]
  BY FoldOf
<1>2. DOMAIN f \in SUBSET DOMAIN f
  OBVIOUS
<1> QED
  BY <1>1, <1>2, FoldIsNatural

IsFold(g, f, S) == g = Unrolled(f, g, SUBSET S)

\* Folds over different sets agree on what they share.
LEMMA FoldsAgree ==
    ASSUME NEW S, IsFiniteSet(S), NEW f, NEW g, IsFold(g, f, S),
           NEW T, NEW e, NEW h, IsFold(h, e, T),
           NEW t \in SUBSET S, t \in SUBSET T, \A x \in t : f[x] = e[x]
    PROVE  g[t] = h[t]
<1> DEFINE Bad == {n \in Nat : \E s \in SUBSET t : Cardinality(s) = n /\ g[s] # h[s]}
<1>1. Bad = {}
  <2> SUFFICES ASSUME Bad # {} PROVE FALSE
    OBVIOUS
  <2>1. PICK n \in Bad : \A k \in Bad : n <= k
    BY LeastNatural
  <2>2. PICK s \in SUBSET t : Cardinality(s) = n /\ g[s] # h[s]
    OBVIOUS
  <2>3. s \in SUBSET S /\ s \in SUBSET T
    OBVIOUS
  <2>41. g[s] = IF s = {} THEN 0 ELSE f[Pick(s)] + g[s \ {Pick(s)}]
    BY <2>3, Zenon DEF Unrolled, IsFold
  <2>42. h[s] = IF s = {} THEN 0 ELSE e[Pick(s)] + h[s \ {Pick(s)}]
    BY <2>3, Zenon DEF Unrolled, IsFold
  <2>4. /\ g[s] = IF s = {} THEN 0 ELSE f[Pick(s)] + g[s \ {Pick(s)}]
        /\ h[s] = IF s = {} THEN 0 ELSE e[Pick(s)] + h[s \ {Pick(s)}]
    BY <2>41, <2>42
  <2>5. s # {}
    BY <2>2, <2>4
  <2>6. /\ Pick(s) \in s /\ n - 1 \in Nat /\ Cardinality(s \ {Pick(s)}) = n - 1
    BY <2>2, <2>3, <2>5, PickedApart
  <2>7. n - 1 \notin Bad
    BY <2>1, <2>6
  <2>8. g[s \ {Pick(s)}] = h[s \ {Pick(s)}]
    BY <2>6, <2>7
  <2>9. f[Pick(s)] = e[Pick(s)]
    BY <2>6
  <2> QED
    BY <2>2, <2>4, <2>5, <2>8, <2>9
<1>2. Cardinality(t) \in Nat
  BY FS_Subset, FS_CardinalityType
<1> QED
  BY <1>1, <1>2

\* It does not matter which element a fold takes first.
LEMMA FoldAnyFirst ==
    ASSUME NEW S, IsFiniteSet(S), NEW f, NEW g, g = Unrolled(f, g, SUBSET S),
           \A y \in S : f[y] \in Nat, NEW t \in SUBSET S, NEW x \in t
    PROVE  g[t] = f[x] + g[t \ {x}]
<1> DEFINE Bad == {n \in Nat : \E s \in SUBSET S : \E y \in s :
                      Cardinality(s) = n /\ g[s] # f[y] + g[s \ {y}]}
<1>1. Bad = {}
  <2> SUFFICES ASSUME Bad # {} PROVE FALSE
    OBVIOUS
  <2>1. PICK n \in Bad : \A k \in Bad : n <= k
    BY LeastNatural
  <2>21. PICK s \in SUBSET S : \E y \in s : Cardinality(s) = n /\ g[s] # f[y] + g[s \ {y}]
    OBVIOUS
  <2>2. PICK y \in s : Cardinality(s) = n /\ g[s] # f[y] + g[s \ {y}]
    BY <2>21
  <2>3. PICK p : p = Pick(s)
    OBVIOUS
  <2>4. g[s] = f[p] + g[s \ {p}]
    <3>1. g[s] = IF s = {} THEN 0 ELSE f[Pick(s)] + g[s \ {Pick(s)}]
      BY Zenon DEF Unrolled
    <3>2. s # {}
      OBVIOUS
    <3> QED
      BY <2>3, <3>1, <3>2
  <2>5. p # y
    BY <2>2, <2>4
  <2>6. IsFiniteSet(s) /\ p \in s /\ n \in Nat \ {0}
    BY <2>2, <2>3, PickedApart
  <2>7. /\ Cardinality(s \ {p}) = n - 1 /\ Cardinality(s \ {y}) = n - 1 /\ n - 1 \in Nat
        /\ s \ {p} \in SUBSET S /\ s \ {y} \in SUBSET S
    <3>1. Cardinality(s \ {p}) = Cardinality(s) - 1
      BY <2>6, FS_RemoveElement
    <3>2. Cardinality(s \ {y}) = Cardinality(s) - 1
      BY <2>6, FS_RemoveElement
    <3> QED
      BY <2>2, <2>6, <3>1, <3>2
  <2>8. n - 1 \notin Bad
    <3> HIDE DEF Bad
    <3> QED
      BY <2>1, <2>6, <2>7
  <2>9. g[s \ {p}] = f[y] + g[(s \ {p}) \ {y}]
    BY <2>5, <2>7, <2>8
  <2>10. g[s \ {y}] = f[p] + g[(s \ {y}) \ {p}]
    BY <2>5, <2>6, <2>7, <2>8
  <2>14. g[s] # f[y] + g[s \ {y}]
    BY <2>2
  <2>11. PICK rest : rest = (s \ {p}) \ {y}
    OBVIOUS
  <2>12. (s \ {y}) \ {p} = rest /\ rest \in SUBSET S
    BY <2>11
  <2>13. g[rest] \in Nat /\ f[p] \in Nat /\ f[y] \in Nat
    BY <2>6, <2>12, FoldIsNatural
  <2>15. g[s] = f[p] + (f[y] + g[rest]) /\ g[s \ {y}] = f[p] + g[rest]
    BY <2>4, <2>9, <2>10, <2>11, <2>12
  <2> HIDE DEF Bad
  <2> QED
    BY ONLY <2>13, <2>14, <2>15
<1>2. Cardinality(t) \in Nat
  BY FS_Subset, FS_CardinalityType
<1> QED
  BY <1>1, <1>2

\* What f adds up to on a set.
SumOver(f, s) == SumFunction([x \in s |-> f[x]])

LEMMA SumOverIsNatural ==
    ASSUME NEW s, IsFiniteSet(s), NEW f, \A x \in s : f[x] \in Nat
    PROVE  SumOver(f, s) \in Nat
<1>1. PICK e : e = [x \in s |-> f[x]]
  OBVIOUS
<1>2. DOMAIN e = s /\ \A x \in s : e[x] \in Nat
  BY <1>1
<1>3. SumFunction(e) \in Nat
  BY <1>2, SumIsNatural
<1> QED
  BY <1>1, <1>3 DEF SumOver

LEMMA SumOverNothing == \A f : SumOver(f, {}) = 0
<1> SUFFICES ASSUME NEW f PROVE SumOver(f, {}) = 0
  OBVIOUS
<1>1. PICK e : e = [x \in {} |-> f[x]]
  OBVIOUS
<1>2. DOMAIN e = {} /\ IsFiniteSet(DOMAIN e)
  BY <1>1, FS_EmptySet
<1>3. PICK g : g = Unrolled(e, g, SUBSET DOMAIN e) /\ SumFunction(e) = g[DOMAIN e]
  BY <1>2, FoldOf
<1>4. {} \in SUBSET DOMAIN e
  OBVIOUS
<1>5. g[{}] = 0
  BY <1>3, <1>4, FoldUnrolls
<1> QED
  BY <1>1, <1>2, <1>3, <1>5 DEF SumOver

\* Any element can be added last.
LEMMA SumOverStep ==
    ASSUME NEW s, IsFiniteSet(s), NEW f, \A y \in s : f[y] \in Nat, NEW x \in s
    PROVE  SumOver(f, s) = f[x] + SumOver(f, s \ {x})
<1>1. PICK d : d = [y \in s |-> f[y]]
  OBVIOUS
<1>2. PICK e : e = [y \in s \ {x} |-> f[y]]
  OBVIOUS
<1>3. /\ DOMAIN d = s /\ DOMAIN e = s \ {x}
      /\ \A y \in s : d[y] = f[y] /\ \A z \in s \ {x} : d[z] = e[z]
  BY <1>1, <1>2
<1>4. IsFiniteSet(s \ {x})
  BY FS_RemoveElement
<1>5. PICK g : g = Unrolled(d, g, SUBSET s) /\ SumFunction(d) = g[s]
  BY <1>3, FoldOf
<1>6. PICK h : h = Unrolled(e, h, SUBSET (s \ {x})) /\ SumFunction(e) = h[s \ {x}]
  BY <1>3, <1>4, FoldOf
<1>7. \A y \in s : d[y] \in Nat
  BY <1>1
<1>8. s \in SUBSET s /\ s \ {x} \in SUBSET s /\ s \ {x} \in SUBSET (s \ {x})
  OBVIOUS
<1>9. g[s] = d[x] + g[s \ {x}]
  BY <1>5, <1>7, <1>8, FoldAnyFirst
<1>10. g[s \ {x}] = h[s \ {x}]
  <2>1. PICK t : t = s \ {x}
    OBVIOUS
  <2>2. \A z \in t : d[z] = e[z]
    BY <1>1, <1>2, <2>1
  <2>3. t \in SUBSET s /\ t \in SUBSET t /\ IsFold(g, d, s) /\ IsFold(h, e, t)
    BY <1>5, <1>6, <2>1 DEF IsFold
  <2>4. g[t] = h[t]
    BY <2>2, <2>3, FoldsAgree
  <2> QED
    BY <2>1, <2>4
<1>11. d[x] = f[x]
  BY <1>1
<1> QED
  BY <1>1, <1>2, <1>5, <1>6, <1>9, <1>10, <1>11 DEF SumOver

\* The sum over two sets apart is the sum of both.
LEMMA SumOverUnion ==
    ASSUME NEW A, NEW B, IsFiniteSet(A), IsFiniteSet(B), A \cap B = {},
           NEW f, \A x \in A \cup B : f[x] \in Nat
    PROVE  SumOver(f, A \cup B) = SumOver(f, A) + SumOver(f, B)
<1> DEFINE Bad == {n \in Nat : \E s \in SUBSET A :
                      Cardinality(s) = n /\ SumOver(f, s \cup B) # SumOver(f, s) + SumOver(f, B)}
<1>1. Bad = {}
  <2> SUFFICES ASSUME Bad # {} PROVE FALSE
    OBVIOUS
  <2>1. PICK n \in Bad : \A k \in Bad : n <= k
    BY LeastNatural
  <2>2. PICK s \in SUBSET A :
           Cardinality(s) = n /\ SumOver(f, s \cup B) # SumOver(f, s) + SumOver(f, B)
    OBVIOUS
  <2>3. IsFiniteSet(s) /\ IsFiniteSet(s \cup B) /\ SumOver(f, B) \in Nat
    <3>1. \A x \in B : f[x] \in Nat
      OBVIOUS
    <3> QED
      BY <3>1, FS_Subset, FS_Union, SumOverIsNatural
  <2>4. s # {}
    <3> SUFFICES ASSUME s = {} PROVE FALSE
      OBVIOUS
    <3>1. s \cup B = B /\ SumOver(f, s) = 0
      BY SumOverNothing
    <3> QED
      BY <2>2, <2>3, <3>1
  <2>5. PICK x : x \in s
    BY <2>4
  <2>6. PICK r : r = s \ {x}
    OBVIOUS
  <2>7. /\ IsFiniteSet(r) /\ r \in SUBSET A /\ (s \cup B) \ {x} = r \cup B
        /\ Cardinality(r) = n - 1 /\ n - 1 \in Nat
    <3>1. IsFiniteSet(r) /\ Cardinality(r) = Cardinality(s) - 1 /\ Cardinality(r) \in Nat
      BY <2>3, <2>5, <2>6, FS_RemoveElement, FS_CardinalityType
    <3>2. (s \cup B) \ {x} = r \cup B
      BY <2>5, <2>6
    <3> QED
      BY <2>2, <2>6, <3>1, <3>2
  <2>8. n - 1 \notin Bad
    <3>1. n \in Nat
      OBVIOUS
    <3> HIDE DEF Bad
    <3> QED
      BY <2>1, <2>7, <3>1
  <2>9. SumOver(f, r \cup B) = SumOver(f, r) + SumOver(f, B)
    BY <2>7, <2>8
  <2>10. SumOver(f, s \cup B) = f[x] + SumOver(f, r \cup B)
    <3>1. x \in s \cup B /\ \A y \in s \cup B : f[y] \in Nat
      BY <2>5
    <3> QED
      BY <2>3, <2>7, <3>1, SumOverStep
  <2>11. SumOver(f, s) = f[x] + SumOver(f, r)
    <3>1. \A y \in s : f[y] \in Nat
      OBVIOUS
    <3> QED
      BY <2>3, <2>5, <2>6, <3>1, SumOverStep
  <2>12. SumOver(f, r) \in Nat /\ f[x] \in Nat
    <3>1. \A y \in r : f[y] \in Nat
      BY <2>7
    <3> QED
      BY <2>5, <2>7, <3>1, SumOverIsNatural
  <2> QED
    BY <2>2, <2>3, <2>9, <2>10, <2>11, <2>12
<1>2. Cardinality(A) \in Nat /\ A \in SUBSET A
  BY FS_CardinalityType
<1> QED
  BY <1>1, <1>2

\* A sum can be taken group by group: those elements of D that have the same value of h.
Grouped(f, D, h, k) == SumOver(f, {x \in D : h[x] = k})

LEMMA SumByGroups ==
    ASSUME NEW D, IsFiniteSet(D), NEW f, \A x \in D : f[x] \in Nat,
           NEW h, NEW K, IsFiniteSet(K), \A x \in D : h[x] \in K,
           NEW e, e = [k \in K |-> Grouped(f, D, h, k)]
    PROVE  SumOver(f, D) = SumFunction(e) /\ \A k \in K : e[k] \in Nat
<1>1. \A k \in K : e[k] = Grouped(f, D, h, k) /\ e[k] \in Nat
  <2> SUFFICES ASSUME NEW k \in K PROVE Grouped(f, D, h, k) \in Nat
    OBVIOUS
  <2>1. PICK s : s = {x \in D : h[x] = k}
    OBVIOUS
  <2>2. IsFiniteSet(s) /\ \A x \in s : f[x] \in Nat
    BY <2>1, FS_Subset
  <2> QED
    BY <2>1, <2>2, SumOverIsNatural DEF Grouped
<1> DEFINE Part(J) == {x \in D : h[x] \in J}
           Bad == {n \in Nat : \E J \in SUBSET K :
                      Cardinality(J) = n /\ SumOver(f, Part(J)) # SumOver(e, J)}
<1>2. Bad = {}
  <2> SUFFICES ASSUME Bad # {} PROVE FALSE
    OBVIOUS
  <2>1. PICK n \in Bad : \A k \in Bad : n <= k
    BY LeastNatural
  <2>2. PICK J \in SUBSET K : Cardinality(J) = n /\ SumOver(f, Part(J)) # SumOver(e, J)
    OBVIOUS
  <2>3. J # {}
    <3> SUFFICES ASSUME J = {} PROVE FALSE
      OBVIOUS
    <3>1. Part(J) = {}
      OBVIOUS
    <3> QED
      BY <2>2, <3>1, SumOverNothing
  <2>4. PICK k : k \in J
    BY <2>3
  <2>5. PICK I : I = J \ {k}
    OBVIOUS
  <2>6. IsFiniteSet(J) /\ I \in SUBSET K /\ Cardinality(I) = n - 1 /\ n - 1 \in Nat
    <3>1. IsFiniteSet(J)
      BY FS_Subset
    <3>2. IsFiniteSet(I) /\ Cardinality(I) = Cardinality(J) - 1 /\ Cardinality(I) \in Nat
      BY <2>4, <2>5, <3>1, FS_RemoveElement, FS_CardinalityType
    <3> QED
      BY <2>2, <2>5, <3>1, <3>2
  <2>7. n - 1 \notin Bad
    <3>1. n \in Nat
      OBVIOUS
    <3> HIDE DEF Bad
    <3> QED
      BY <2>1, <2>6, <3>1
  <2>8. SumOver(f, Part(I)) = SumOver(e, I)
    BY <2>6, <2>7
  <2>9. SumOver(e, J) = e[k] + SumOver(e, I)
    <3>1. \A y \in J : e[y] \in Nat
      BY <1>1
    <3> QED
      BY <2>4, <2>5, <2>6, <3>1, SumOverStep
  <2>10. SumOver(f, Part(J)) = Grouped(f, D, h, k) + SumOver(f, Part(I))
    <3>1. PICK A : A = {x \in D : h[x] = k}
      OBVIOUS
    <3>2. PICK B : B = Part(I)
      OBVIOUS
    <3>3. Part(J) = A \cup B /\ A \cap B = {} /\ A \in SUBSET D /\ B \in SUBSET D
      BY <2>4, <2>5, <3>1, <3>2
    <3>4. IsFiniteSet(A) /\ IsFiniteSet(B) /\ \A x \in A \cup B : f[x] \in Nat
      BY <3>3, FS_Subset
    <3>5. SumOver(f, A \cup B) = SumOver(f, A) + SumOver(f, B)
      BY <3>3, <3>4, SumOverUnion
    <3> QED
      BY <3>1, <3>2, <3>3, <3>5 DEF Grouped
  <2>11. e[k] = Grouped(f, D, h, k)
    BY <1>1, <2>4
  <2> QED
    BY <2>2, <2>8, <2>9, <2>10, <2>11
<1>3. Cardinality(K) \in Nat /\ K \in SUBSET K /\ Part(K) = D
  BY FS_CardinalityType
<1>4. SumOver(f, Part(K)) = SumOver(e, K)
  BY <1>2, <1>3
<1>5. [k \in K |-> e[k]] = e
  OBVIOUS
<1>6. SumOver(e, K) = SumFunction(e)
  BY <1>5 DEF SumOver
<1> QED
  BY <1>1, <1>3, <1>4, <1>6

-----------------------------------------------------------------------------
(* The place percentile takes.                                             *)

\* The ceiling is the least multiple of 1000 that is not below a.
LEMMA CeilIsLeast ==
    ASSUME NEW a \in Nat
    PROVE  /\ CeilDiv(a, 1000) \in Nat
           /\ 1000 * CeilDiv(a, 1000) >= a
           /\ 1000 * (CeilDiv(a, 1000) - 1) < a
BY DEF CeilDiv

\* p of n lies between nothing and everything.
LEMMA ShareBounded ==
    ASSUME NEW p \in 1 .. 1000, NEW n \in Nat \ {0}
    PROVE  p * n \in Nat /\ p * n > 0 /\ p * n <= 1000 * n
<1>1. p * n \in Nat
  OBVIOUS
<1>2. p * n >= n
  BY p >= 1
<1>3. (1000 - p) * n >= 0
  BY p <= 1000
<1> QED
  BY <1>1, <1>2, <1>3

\* The ceiling of a share a of n is a rank; clamped it stays what it is, and one more than
\* it is at most one more.
LEMMA CeilOfShare ==
    ASSUME NEW n \in Nat \ {0}, NEW a \in Nat, a > 0, a <= 1000 * n
    PROVE  /\ CeilDiv(a, 1000) \in 1 .. n
           /\ Clamp(CeilDiv(a, 1000), n) = CeilDiv(a, 1000)
           /\ Clamp(CeilDiv(a, 1000) + 1, n)
                 \in {CeilDiv(a, 1000), CeilDiv(a, 1000) + 1} \cap (1 .. n)
<1> DEFINE c == CeilDiv(a, 1000)
<1>1. c \in Nat /\ 1000 * c >= a /\ 1000 * (c - 1) < a
  BY CeilIsLeast
<1> HIDE DEF c
<1>2. c \in 1 .. n
  BY <1>1
<1>3. Clamp(c, n) = c /\ Clamp(c + 1, n) \in {c, c + 1} \cap (1 .. n)
  BY <1>2 DEF Clamp
<1> QED
  BY <1>2, <1>3 DEF c

\* r is the nearest rank of p in n values, or one too high.
NearRank(r, p, n) == r \in 1 .. n /\ 1000 * r >= p * n /\ 1000 * (r - 2) < p * n

\* Rank is the nearest rank, but where RoundsUp it may be one too high.  (This is about the
\* operators; they describe the code for the percentages in use, up to Largest values.)
LEMMA RankIsNear ==
    ASSUME NEW p \in 1 .. 1000, NEW n \in Nat \ {0}
    PROVE  /\ NearRank(Rank(p, n), p, n)
           /\ p # 999 \/ (p * n) % 1000 # 0 => IsNearestRank(Rank(p, n), p, n)
<1> DEFINE a == p * n
           c == CeilDiv(a, 1000)
           d == IF RoundsUp(p, n) THEN 1 ELSE 0
<1>1. a \in Nat /\ a > 0 /\ a <= 1000 * n
  BY ShareBounded
<1>2. p # 999 \/ a % 1000 # 0 => d = 0
  BY DEF RoundsUp
<1>3. d \in {0, 1}
  OBVIOUS
<1>4. Rank(p, n) = Clamp(c + d, n)
  BY DEF Rank
<1> HIDE DEF a, d
<1>5. c \in 1 .. n /\ Clamp(c, n) = c /\ Clamp(c + 1, n) \in {c, c + 1} \cap (1 .. n)
  BY <1>1, CeilOfShare
<1>6. 1000 * c >= a /\ 1000 * (c - 1) < a
  BY <1>1, CeilIsLeast
<1> HIDE DEF c
<1>7. Rank(p, n) \in 1 .. n /\ Rank(p, n) \in {c, c + 1}
  BY <1>3, <1>4, <1>5
<1>8. d = 0 => Rank(p, n) = c
  BY <1>4, <1>5
<1>9. 1000 * Rank(p, n) >= a /\ 1000 * (Rank(p, n) - 2) < a
  BY <1>1, <1>5, <1>6, <1>7
<1>10. d = 0 => /\ 1000 * Rank(p, n) >= a /\ 1000 * (Rank(p, n) - 1) < a
  BY <1>1, <1>5, <1>6, <1>8
<1> QED
  BY <1>2, <1>7, <1>9, <1>10 DEF IsNearestRank, NearRank, a

\* Where nothing is rounded up, the rank is the nearest.
LEMMA RankExact ==
    ASSUME NEW p \in 1 .. 1000, NEW n \in Nat \ {0}, ~ RoundsUp(p, n)
    PROVE  IsNearestRank(Rank(p, n), p, n)
<1> DEFINE a == p * n
           c == CeilDiv(a, 1000)
<1>1. a \in Nat /\ a > 0 /\ a <= 1000 * n
  BY ShareBounded
<1>2. Rank(p, n) = Clamp(c + 0, n)
  BY DEF Rank
<1> HIDE DEF a
<1>3. c \in 1 .. n /\ Clamp(c, n) = c
  BY <1>1, CeilOfShare
<1>4. 1000 * c >= a /\ 1000 * (c - 1) < a
  <2> HIDE DEF c
  <2>1. c = CeilDiv(a, 1000)
    BY DEF c
  <2> QED
    BY ONLY <1>1, <2>1, CeilIsLeast
<1> HIDE DEF c
<1>5. Rank(p, n) = c
  BY <1>2, <1>3
<1> QED
  BY <1>3, <1>4, <1>5 DEF IsNearestRank, a

\* 99.9 of a multiple of 1000 is a whole number, and the next rank is still one of n.
LEMMA RankOfWhole ==
    ASSUME NEW n \in Nat \ {0}, RoundsUp(999, n)
    PROVE  n % 1000 = 0 /\ (IsNearestRank(Rank(999, n), 999, n)
                              \/ IsNearestRank(Rank(999, n) - 1, 999, n))
<1>1. PICK c \in Nat : 999 * n = 1000 * c
  <2>1. (999 * n) % 1000 = 0
    BY DEF RoundsUp
  <2>2. 999 * n = 1000 * ((999 * n) \div 1000) /\ (999 * n) \div 1000 \in Nat
    BY <2>1
  <2> QED
    BY <2>2
<1>2. n % 1000 = 0 /\ c < n /\ c > 0
  BY <1>1
<1>3. CeilDiv(999 * n, 1000) = c
  BY <1>1 DEF CeilDiv
<1>4. Rank(999, n) \in {c, c + 1}
  BY <1>2, <1>3 DEF Rank, Clamp
<1>5. IsNearestRank(c, 999, n)
  BY <1>1, <1>2 DEF IsNearestRank
<1>6. CASE Rank(999, n) = c
  BY <1>2, <1>5, <1>6
<1>7. CASE Rank(999, n) = c + 1
  <2>1. Rank(999, n) - 1 = c
    BY <1>7
  <2> QED
    BY <1>2, <1>5, <2>1
<1> QED
  BY <1>4, <1>6, <1>7

\* What percentile returns is inside the slice, whatever the floating point does
\* (stats.go:218-223), for each of the percentages in use and up to 2^30 values: it is the
\* nearest rank (stats.go:213-217), but for 99.9 of a multiple of 1000 values; there it is
\* one too high at most and never too low.
THEOREM RankIsNearest ==
    ASSUME NEW p \in InUse, NEW n \in 1 .. Largest
    PROVE  /\ NearRank(Rank(p, n), p, n)
           /\ p # 999 \/ n % 1000 # 0 => IsNearestRank(Rank(p, n), p, n)
<1>1. p \in 1 .. 1000
  BY DEF InUse
<1>2. n \in Nat \ {0}
  OBVIOUS
<1>3. NearRank(Rank(p, n), p, n)
  BY <1>1, <1>2, RankIsNear
<1>4. p # 999 \/ n % 1000 # 0 => ~ RoundsUp(p, n)
  BY <1>2, RankOfWhole DEF RoundsUp
<1>5. ~ RoundsUp(p, n) => IsNearestRank(Rank(p, n), p, n)
  BY <1>1, <1>2, RankExact
<1> QED
  BY <1>3, <1>4, <1>5

\* In both cases together.
LEMMA NearestOrNextRank ==
    ASSUME NEW p \in 1 .. 1000, NEW n \in Nat \ {0}
    PROVE  NearestOrNext(p, n)
<1>1. CASE ~ RoundsUp(p, n)
  BY <1>1, RankExact DEF NearestOrNext
<1>2. CASE RoundsUp(p, n)
  <2>1. p = 999
    BY <1>2 DEF RoundsUp
  <2> QED
    BY <1>2, <2>1, RankOfWhole DEF NearestOrNext
<1> QED
  BY <1>1, <1>2

\* The ranks behind every figure of the summary and of the confidence interval are the
\* nearest, for any number of values the floating point is described for and in every
\* state; 99.9 of a multiple of 1000 of them is the nearest or the next (stats.go:213-224).
THEOREM RanksNearest == Spec => []RanksAreNearest
<1>1. RanksAreNearest
  <2> DEFINE P == 1 .. 1000
             N0 == Nat \ {0}
             Q == InUse
             M == 1 .. MaxCounts
  <2>1. \A p \in P, n \in N0 : NearestOrNext(p, n)
    BY NearestOrNextRank
  <2>2. Q \subseteq P
    BY DEF InUse
  <2>3. M \subseteq N0
    BY Constants
  <2>4. (\A p \in Q, n \in M : NearestOrNext(p, n)) => RanksAreNearest
    BY DEF RanksAreNearest
  <2> HIDE DEF P, N0, Q, M
  <2> QED
    BY ONLY <2>1, <2>2, <2>3, <2>4
<1> QED
  BY <1>1, PTL

-----------------------------------------------------------------------------
(* The value at a place.                                                   *)

Below(values, v)    == {i \in DOMAIN values : values[i] < v}
NotAbove(values, v) == {i \in DOMAIN values : values[i] <= v}

\* Values as they are sorted: finitely many natural numbers.
Slice(values) == IsFiniteSet(DOMAIN values) /\ \A i \in DOMAIN values : values[i] \in Nat

\* Their counts are natural numbers.
LEMMA SliceFacts ==
    ASSUME NEW values, Slice(values)
    PROVE  /\ Range(values) \subseteq Nat /\ IsFiniteSet(Range(values))
           /\ Cardinality(DOMAIN values) \in Nat
           /\ (Cardinality(DOMAIN values) = 0 <=> DOMAIN values = {})
           /\ \A v : /\ IsFiniteSet(Below(values, v)) /\ Cardinality(Below(values, v)) \in Nat
                     /\ IsFiniteSet(NotAbove(values, v)) /\ Cardinality(NotAbove(values, v)) \in Nat
                     /\ Below(values, v) \subseteq DOMAIN values
                     /\ NotAbove(values, v) \subseteq DOMAIN values
<1>1. Range(values) \subseteq Nat
  BY DEF Slice, Range
<1>2. IsFiniteSet(Range(values))
  <2> DEFINE g == [i \in DOMAIN values |-> values[i]]
  <2>1. g \in Surjection(DOMAIN values, Range(values))
    BY DEF Surjection, Range
  <2> QED
    BY <2>1, FS_Surjection DEF Slice
<1>3. IsFiniteSet(DOMAIN values)
  BY DEF Slice
<1>4. ASSUME NEW v
      PROVE  /\ IsFiniteSet(Below(values, v)) /\ Cardinality(Below(values, v)) \in Nat
             /\ IsFiniteSet(NotAbove(values, v)) /\ Cardinality(NotAbove(values, v)) \in Nat
             /\ Below(values, v) \subseteq DOMAIN values
             /\ NotAbove(values, v) \subseteq DOMAIN values
  <2>1. Below(values, v) \in SUBSET DOMAIN values /\ NotAbove(values, v) \in SUBSET DOMAIN values
    BY DEF Below, NotAbove
  <2> QED
    BY <1>3, <2>1, FS_Subset, FS_CardinalityType
<1> QED
  BY <1>1, <1>2, <1>3, <1>4, FS_CardinalityType, FS_EmptySet

\* There is a value at every place.
LEMMA PlaceIsTaken ==
    ASSUME NEW values, Slice(values), NEW place \in 1 .. Cardinality(DOMAIN values)
    PROVE  LET v == AtPlace(values, place)
           IN  /\ v \in Range(values) /\ v \in Nat
               /\ Cardinality(Below(values, v)) < place
               /\ Cardinality(NotAbove(values, v)) >= place
<1> DEFINE V == Range(values)
           Reached == {v \in V : Cardinality(NotAbove(values, v)) >= place}
<1>1. V \subseteq Nat /\ IsFiniteSet(V) /\ V # {}
  BY SliceFacts DEF Range
<1>2. Reached # {}
  <2>1. Max(V) \in V /\ \A k \in V : k <= Max(V)
    BY <1>1, MaxIsMax
  <2>2. NotAbove(values, Max(V)) = DOMAIN values
    BY <2>1 DEF NotAbove, Range
  <2>3. Cardinality(DOMAIN values) >= place
    BY SliceFacts
  <2> HIDE DEF V
  <2> QED
    BY <2>1, <2>2, <2>3
<1>3. PICK m \in Reached : \A k \in Reached : m <= k
  <2>1. Reached \subseteq Nat
    BY <1>1
  <2> HIDE DEF Reached
  <2> QED
    BY <1>2, <2>1, LeastNatural
<1>4. m \in V /\ m \in Nat
  BY <1>1, <1>3
<1>5. Cardinality(Below(values, m)) < place
  <2>1. CASE Below(values, m) = {}
    BY <2>1, FS_EmptySet, SliceFacts
  <2>2. CASE Below(values, m) # {}
    <3> DEFINE W == {values[i] : i \in Below(values, m)}
    <3>1. W \subseteq V /\ W # {} /\ \A k \in W : k < m
      BY <2>2 DEF Below, Range
    <3>2. PICK u \in W : \A k \in W : u >= k
      <4>1. W \subseteq Nat /\ \A k \in W : k <= m
        BY <1>1, <1>4, <3>1
      <4> HIDE DEF W
      <4> QED
        BY <1>4, <3>1, <4>1, GreatestNatural
    <3>3. u \in V /\ u \in Nat /\ u < m
      BY <1>1, <3>1
    <3>4. u \notin Reached
      BY <1>3, <1>4, <3>3
    <3>5. Cardinality(NotAbove(values, u)) < place
      BY <3>3, <3>4, SliceFacts
    <3>6. Below(values, m) = NotAbove(values, u)
      <4>1. ASSUME NEW i \in DOMAIN values PROVE values[i] < m <=> values[i] <= u
        <5>1. values[i] \in Nat
          BY DEF Slice
        <5>2. values[i] < m => values[i] \in W
          BY DEF Below
        <5> HIDE DEF W
        <5> QED
          BY <1>4, <3>2, <3>3, <5>1, <5>2
      <4> QED
        BY <4>1 DEF Below, NotAbove
    <3> QED
      BY <3>5, <3>6
  <2> QED
    BY <2>1, <2>2
<1>6. \E v \in V : /\ Cardinality(Below(values, v)) < place
                   /\ Cardinality(NotAbove(values, v)) >= place
  BY <1>3, <1>4, <1>5
<1>7. AtPlace(values, place) = CHOOSE v \in V : /\ Cardinality(Below(values, v)) < place
                                               /\ Cardinality(NotAbove(values, v)) >= place
  BY DEF AtPlace, Range, Below, NotAbove
<1>8. AtPlace(values, place) \in V /\ /\ Cardinality(Below(values, AtPlace(values, place))) < place
                                      /\ Cardinality(NotAbove(values, AtPlace(values, place))) >= place
  <2> HIDE DEF V
  <2> QED
    BY <1>6, <1>7, Zenon
<1> QED
  BY <1>1, <1>8

\* Where everything is as slow or slower, so is the value at a place.
LEMMA SlowerIsNotFaster ==
    ASSUME NEW f, NEW g, Slice(f), Slice(g), DOMAIN f = DOMAIN g,
           \A i \in DOMAIN f : f[i] <= g[i],
           NEW place \in 1 .. Cardinality(DOMAIN f)
    PROVE  AtPlace(f, place) <= AtPlace(g, place)
<1>1. PICK v : v = AtPlace(f, place)
  OBVIOUS
<1>2. PICK w : w = AtPlace(g, place)
  OBVIOUS
<1>3. v \in Nat /\ Cardinality(Below(f, v)) < place
  BY <1>1, PlaceIsTaken
<1>4. w \in Nat /\ Cardinality(NotAbove(g, w)) >= place
  BY <1>2, PlaceIsTaken
<1>5. SUFFICES ASSUME w < v PROVE FALSE
  BY <1>1, <1>2, <1>3, <1>4
<1>6. NotAbove(g, w) \in SUBSET Below(f, v)
  BY <1>3, <1>4, <1>5 DEF Slice, NotAbove, Below
<1>7. Cardinality(NotAbove(g, w)) <= Cardinality(Below(f, v))
  BY <1>6, SliceFacts, FS_Subset
<1> QED
  BY <1>3, <1>4, <1>7, SliceFacts

\* Values that are not below any other do not lower the value at a place, which then is
\* further up.
LEMMA SlowestCount ==
    ASSUME NEW f, NEW g, Slice(f), Slice(g), DOMAIN f \subseteq DOMAIN g,
           \A i \in DOMAIN f : f[i] = g[i],
           \A i \in DOMAIN g \ DOMAIN f : \A j \in DOMAIN g : g[j] <= g[i],
           NEW r \in 1 .. Cardinality(DOMAIN f), NEW s \in 1 .. Cardinality(DOMAIN g), r <= s
    PROVE  AtPlace(f, r) <= AtPlace(g, s)
<1>1. PICK v : v = AtPlace(f, r)
  OBVIOUS
<1>2. PICK w : w = AtPlace(g, s)
  OBVIOUS
<1>3. v \in Nat /\ v \in Range(f) /\ Cardinality(Below(f, v)) < r
  BY <1>1, PlaceIsTaken
<1>4. w \in Nat /\ Cardinality(NotAbove(g, w)) >= s
  BY <1>2, PlaceIsTaken
<1>5. SUFFICES ASSUME w < v PROVE FALSE
  BY <1>1, <1>2, <1>3, <1>4
<1>6. NotAbove(g, w) \in SUBSET Below(f, v)
  <2> SUFFICES ASSUME NEW i \in NotAbove(g, w) PROVE i \in Below(f, v)
    OBVIOUS
  <2>1. PICK j \in DOMAIN f : f[j] = v
    BY <1>3 DEF Range
  <2>2. i \in DOMAIN g /\ g[i] <= w /\ g[i] \in Nat /\ g[j] = v
    BY <2>1 DEF NotAbove, Slice
  <2>3. i \in DOMAIN f
    BY <1>3, <1>4, <1>5, <2>1, <2>2
  <2> QED
    BY <1>3, <1>4, <1>5, <2>2, <2>3 DEF Below
<1>7. Cardinality(NotAbove(g, w)) <= Cardinality(Below(f, v))
  BY <1>6, SliceFacts, FS_Subset
<1> QED
  BY <1>3, <1>4, <1>7, SliceFacts

\* More values, no lower a rank.
LEMMA RankGrows ==
    ASSUME NEW p \in 1 .. 1000, NEW m \in Nat \ {0}, NEW n \in Nat, m <= n
    PROVE  Rank(p, m) <= Rank(p, n)
<1>1. CASE m = n
  <2>1. NearRank(Rank(p, m), p, m)
    BY RankIsNear
  <2>2. Rank(p, m) \in Int
    BY <2>1 DEF NearRank
  <2> QED
    BY <1>1, <2>2
<1>2. CASE m < n
  <2>1. PICK r : r = Rank(p, m)
    OBVIOUS
  <2>2. PICK s : s = Rank(p, n)
    OBVIOUS
  <2>3. NearRank(r, p, m) /\ NearRank(s, p, n)
    <3>1. n \in Nat \ {0}
      BY <1>2
    <3> QED
      BY <2>1, <2>2, <3>1, RankIsNear
  <2>7. r \in Nat /\ s \in Nat /\ 1000 * s >= p * n
    BY <2>3 DEF NearRank
  <2>4. p * m \in Nat /\ p * n \in Nat /\ p * m + p <= p * n
    <3>1. p * (m + 1) <= p * n
      BY <1>2
    <3> QED
      BY <3>1
  <2>5. CASE ~ RoundsUp(p, m)
    <3>1. IsNearestRank(r, p, m)
      BY <2>1, <2>5, RankExact
    <3>2. 1000 * (r - 1) < p * m
      BY <3>1 DEF IsNearestRank
    <3> QED
      BY <2>1, <2>2, <2>4, <2>7, <3>2
  <2>6. CASE RoundsUp(p, m)
    <3>1. p = 999
      BY <2>6 DEF RoundsUp
    <3>2. m % 1000 = 0
      BY <2>6, <3>1, RankOfWhole
    <3>3. 1000 * s >= 999 * n /\ 1000 * (r - 2) < 999 * m
      BY <2>3, <3>1 DEF NearRank
    <3> QED
      BY <1>2, <2>1, <2>2, <2>7, <3>2, <3>3
  <2> QED
    BY <2>5, <2>6
<1> QED
  BY <1>1, <1>2

\* "The smallest value whose rank is at or above p% of the set" (stats.go:213): at least p
\* of the values are not above what percentile returns, and of no smaller one; for the
\* percentages in use and up to 2^30 values, except for 99.9 of a multiple of 1000 of them
\* (where it may be the next value: RankIsNearest).
THEOREM PercentileIsSmallest ==
    ASSUME NEW values, Slice(values), DOMAIN values # {}, NEW p \in InUse,
           Cardinality(DOMAIN values) <= Largest,
           p # 999 \/ Cardinality(DOMAIN values) % 1000 # 0
    PROVE  LET n == Cardinality(DOMAIN values)
               v == percentile(values, p)
           IN  /\ v \in Range(values)
               /\ 1000 * Cardinality(NotAbove(values, v)) >= p * n
               /\ \A u \in Range(values) :
                     u < v => 1000 * Cardinality(NotAbove(values, u)) < p * n
<1>1. PICK n \in Nat \ {0} : n = Cardinality(DOMAIN values)
  BY SliceFacts
<1>2. PICK r : r = Rank(p, n)
  OBVIOUS
<1>3. r \in 1 .. n /\ 1000 * r >= p * n /\ 1000 * (r - 1) < p * n
  <2>1. n \in 1 .. Largest
    BY <1>1 DEF Largest
  <2>2. IsNearestRank(r, p, n)
    BY <1>1, <1>2, <2>1, RankIsNearest
  <2> QED
    BY <2>2 DEF IsNearestRank
<1>4. PICK v : v = percentile(values, p)
  OBVIOUS
<1>5. v = AtPlace(values, r)
  BY <1>1, <1>2, <1>4 DEF percentile
<1>6. /\ v \in Range(values) /\ v \in Nat /\ Cardinality(Below(values, v)) < r
      /\ Cardinality(NotAbove(values, v)) >= r
  BY <1>1, <1>3, <1>5, PlaceIsTaken
<1>7. p * n \in Nat
  BY DEF InUse
<1>8. 1000 * Cardinality(NotAbove(values, v)) >= p * n
  BY <1>3, <1>6, <1>7, SliceFacts
<1>9. ASSUME NEW u \in Range(values), u < v
      PROVE  1000 * Cardinality(NotAbove(values, u)) < p * n
  <2>1. u \in Nat
    BY SliceFacts
  <2>2. NotAbove(values, u) \in SUBSET Below(values, v)
    BY <1>6, <1>9, <2>1 DEF NotAbove, Below, Slice
  <2>3. PICK k \in Nat : k = Cardinality(NotAbove(values, u))
    BY SliceFacts
  <2>4. k <= r - 1
    <3>1. Cardinality(NotAbove(values, u)) <= Cardinality(Below(values, v))
      BY <2>2, SliceFacts, FS_Subset
    <3> QED
      BY <1>3, <1>6, <2>3, <3>1, SliceFacts
  <2> QED
    BY <1>3, <1>7, <2>3, <2>4
<1> QED
  BY <1>1, <1>4, <1>6, <1>8, <1>9

-----------------------------------------------------------------------------
(* The figures of a phase.                                                 *)

SampleType == [at : Nat, outcome : Outcomes, latency : 0 .. Timeout, lag : Lags \cup {0}]

\* The samples of a phase; those without an answer have the timeout for latency.
SamplesSound ==
    /\ samples \in Seq(SampleType)
    /\ \A i \in DOMAIN samples : samples[i].outcome = "timeout" => samples[i].latency = Timeout
    /\ clock \in Nat /\ began \in Nat /\ open \in BOOLEAN

\* The window of a phase has finitely many samples.
LEMMA CountsFinite ==
    ASSUME SamplesSound, NEW A
    PROVE  /\ windowed(A) \subseteq DOMAIN samples
           /\ IsFiniteSet(windowed(A)) /\ Count(A) \in Nat
           /\ Count(A) = Cardinality(windowed(A))
<1>1. windowed(A) \in SUBSET DOMAIN samples
  BY DEF windowed
<1>2. Len(samples) \in Nat /\ DOMAIN samples = 1 .. Len(samples)
  BY DEF SamplesSound
<1>3. IsFiniteSet(DOMAIN samples)
  BY <1>2, FS_Interval
<1>4. IsFiniteSet(windowed(A))
  BY <1>1, <1>3, FS_Subset
<1> QED
  BY <1>1, <1>4, FS_CardinalityType DEF Count

\* Outcomes of two kinds are counted apart.
LEMMA CountsAdd ==
    ASSUME SamplesSound, NEW A, NEW B, A \cap B = {}
    PROVE  Count(A \cup B) = Count(A) + Count(B)
<1>1. windowed(A \cup B) = windowed(A) \cup windowed(B) /\ windowed(A) \cap windowed(B) = {}
  BY DEF windowed
<1>2. IsFiniteSet(windowed(A)) /\ IsFiniteSet(windowed(B))
  BY CountsFinite
<1>3. Cardinality(windowed(A) \cup windowed(B)) =
        Cardinality(windowed(A)) + Cardinality(windowed(B)) - Cardinality({})
  BY <1>1, <1>2, FS_Union
<1>4. PICK a \in Nat : a = Cardinality(windowed(A)) /\ a = Count(A)
  BY CountsFinite
<1>5. PICK b \in Nat : b = Cardinality(windowed(B)) /\ b = Count(B)
  BY CountsFinite
<1>6. Cardinality({}) = 0
  BY FS_EmptySet
<1>7. Count(A \cup B) = a + b - 0
  BY <1>1, <1>3, <1>4, <1>5, <1>6, CountsFinite
<1> QED
  BY <1>4, <1>5, <1>7

\* What was accepted, what got another answer and what got none are all there is.
LEMMA AllCounted ==
    ASSUME SamplesSound
    PROVE  /\ Count(Outcomes) = Count({"ok"}) + Count({"other"}) + Count(Outcomes \ answered)
           /\ Count(Outcomes) = Count(timed) + Count({"unsent"})
<1>1. Count(answered) = Count({"ok"}) + Count({"other"})
  <2>1. answered = {"ok"} \cup {"other"} /\ {"ok"} \cap {"other"} = {}
    BY DEF answered
  <2> QED
    BY <2>1, CountsAdd
<1>2. Count(Outcomes) = Count(answered) + Count(Outcomes \ answered)
  <2>1. Outcomes = answered \cup (Outcomes \ answered) /\ answered \cap (Outcomes \ answered) = {}
    BY DEF answered, Outcomes
  <2> QED
    BY <2>1, CountsAdd
<1>3. Count(Outcomes) = Count(timed) + Count({"unsent"})
  <2>1. Outcomes = timed \cup {"unsent"} /\ timed \cap {"unsent"} = {}
    BY DEF timed, Outcomes
  <2> QED
    BY <2>1, CountsAdd
<1> QED
  BY <1>1, <1>2, <1>3, CountsFinite

\* The latencies of some samples can be sorted, corrected or not.
LEMMA LatenciesSlice ==
    ASSUME SamplesSound, NEW A
    PROVE  /\ Slice(latencies(A)) /\ DOMAIN latencies(A) = windowed(A)
           /\ \A i \in windowed(A) : latencies(A)[i] = samples[i].latency
           /\ \A i \in windowed(A) : /\ samples[i] \in SampleType
                                     /\ samples[i].latency \in 0 .. Timeout
<1>1. IsFiniteSet(windowed(A)) /\ windowed(A) \subseteq DOMAIN samples
  BY CountsFinite
<1>2. \A i \in DOMAIN samples : samples[i] \in SampleType
  BY DEF SamplesSound
<1>3. \A i \in windowed(A) : samples[i] \in SampleType /\ samples[i].latency \in 0 .. Timeout
  BY <1>1, <1>2, Constants DEF SampleType
<1> QED
  BY <1>1, <1>3, Constants DEF latencies, Slice

\* The time a request waited for its slot is only added.
LEMMA CorrectedSlice ==
    ASSUME SamplesSound
    PROVE  /\ Slice(correctedLatencies) /\ DOMAIN correctedLatencies = windowed(timed)
           /\ \A i \in windowed(timed) : correctedLatencies[i] >= latencies(timed)[i]
<1>1. IsFiniteSet(windowed(timed))
  BY CountsFinite
<1>2. ASSUME NEW i \in windowed(timed)
      PROVE  /\ Corrected(samples[i]) \in Nat
             /\ Corrected(samples[i]) >= latencies(timed)[i]
  <2>1. samples[i].latency \in 0 .. Timeout /\ latencies(timed)[i] = samples[i].latency
    BY LatenciesSlice
  <2>2. samples[i].lag \in Lags \cup {0}
    BY LatenciesSlice DEF SampleType
  <2>3. schedLag(samples[i]) \in Nat
    <3>1. samples[i].lag \in Nat
      <4>1. Lags \cup {0} \subseteq Nat
        BY Constants
      <4> QED
        BY <2>2, <4>1
    <3> QED
      BY <3>1 DEF schedLag
  <2> QED
    BY <2>1, <2>3, Constants DEF Corrected
<1> QED
  BY <1>1, <1>2 DEF correctedLatencies, Slice

\* The greatest value is one of them.
LEMMA RangeFacts ==
    ASSUME NEW values, Slice(values), DOMAIN values # {}
    PROVE  Max(Range(values)) \in Range(values) /\ \A i \in DOMAIN values : values[i] <= Max(Range(values))
<1>1. Range(values) \subseteq Nat /\ IsFiniteSet(Range(values)) /\ Range(values) # {}
  BY SliceFacts DEF Range
<1>2. \A i \in DOMAIN values : values[i] \in Range(values)
  BY DEF Range
<1> HIDE DEF Range
<1> QED
  BY <1>1, <1>2, MaxIsMax

\* The fields of summarize the properties speak of.
LEMMA SummaryFields ==
    /\ summarize.total = Count(Outcomes)
    /\ summarize.transport = Count(Outcomes \ answered)
    /\ summarize.accepted = Count({"ok"})
    /\ summarize.nonOK = Count(Outcomes) - Count(Outcomes \ answered) - Count({"ok"})
    /\ summarize.failed = Count(Outcomes) - Count({"ok"})
    /\ summarize.name = Head(plan) /\ summarize.from = WindowStart /\ summarize.to = WindowEnd
    /\ summarize.all = Stats(allLatencies) /\ summarize.acc = Stats(latencies({"ok"}))
    /\ summarize.corrected = Stats(correctedLatencies)
    /\ summarize.censored = Censored(allLatencies)
BY DEF summarize

\* The fields of Stats they speak of.
LEMMA StatsFields ==
    ASSUME NEW values
    PROVE  /\ Stats(values).n = Cardinality(DOMAIN values)
           /\ \A p \in Percentages : Stats(values).at[p] = percentile(values, p)
BY DEF Stats

\* A phase's figures add up, when its samples are sound.
LEMMA FiguresAddUp == SamplesSound => SummaryAddsUp
<1> SUFFICES ASSUME SamplesSound PROVE SummaryAddsUp
  OBVIOUS
<1>1. /\ Count(Outcomes) \in Nat /\ Count({"ok"}) \in Nat /\ Count({"other"}) \in Nat
      /\ Count(Outcomes \ answered) \in Nat /\ Count(timed) \in Nat /\ Count({"unsent"}) \in Nat
      /\ Count({"timeout"}) \in Nat
  BY CountsFinite
<1>2. /\ summarize.nonOK = Count({"other"})
      /\ summarize.failed = summarize.transport + summarize.nonOK
  BY <1>1, AllCounted, SummaryFields
<1>3. /\ summarize.all.n = summarize.total - Count({"unsent"})
      /\ summarize.acc.n = summarize.accepted
  <2>1. summarize.all.n = Count(timed) /\ summarize.acc.n = Count({"ok"})
    BY SummaryFields, StatsFields, LatenciesSlice, CountsFinite DEF allLatencies
  <2> QED
    BY <1>1, <2>1, AllCounted, SummaryFields
<1>4. ASSUME Count({"timeout"}) > 0 PROVE summarize.censored
  <2>1. PICK i : i \in windowed({"timeout"})
    <3>1. windowed({"timeout"}) # {}
      BY <1>4, CountsFinite, FS_EmptySet
    <3> QED
      BY <3>1
  <2>2. i \in windowed(timed) /\ samples[i].latency = Timeout
    BY <2>1 DEF windowed, timed, Outcomes, SamplesSound
  <2>3. /\ Slice(allLatencies) /\ i \in DOMAIN allLatencies
        /\ allLatencies[i] = Timeout
    BY <2>2, LatenciesSlice DEF allLatencies
  <2>4. PICK m : m = Max(Range(allLatencies))
    OBVIOUS
  <2>5. m \in Nat /\ m >= Timeout
    <3>1. Range(allLatencies) \subseteq Nat /\ m \in Range(allLatencies) /\ Timeout <= m
      BY <2>3, <2>4, RangeFacts, SliceFacts
    <3> QED
      BY <3>1, Constants
  <2>6. Censored(allLatencies)
    BY <2>3, <2>4, <2>5, Constants DEF Censored
  <2> QED
    BY <2>6, SummaryFields
<1> QED
  BY <1>2, <1>3, <1>4 DEF SummaryAddsUp

\* In tenths.
LEMMA PercentageRange == \A p \in Percentages : p \in 1 .. 1000
BY DEF Percentages

\* And no percentile is made better: where a request waited every value is as large or
\* larger, and a time-out is as large as any.
LEMMA NoneFlatters == SamplesSound => NothingFlatters
<1> SUFFICES ASSUME SamplesSound, NEW p \in Percentages
             PROVE  /\ summarize.corrected.at[p] >= summarize.all.at[p]
                    /\ summarize.all.at[p] >= percentile(latencies(timed \ {"timeout"}), p)
  BY DEF NothingFlatters
<1>1. PICK f : f = latencies(timed)
  OBVIOUS
<1>2. PICK g : g = correctedLatencies
  OBVIOUS
<1>3. PICK h : h = latencies(timed \ {"timeout"})
  OBVIOUS
<1>4. Slice(f) /\ Slice(g) /\ Slice(h)
  BY <1>1, <1>2, <1>3, LatenciesSlice, CorrectedSlice
<1>5. DOMAIN f = windowed(timed) /\ DOMAIN g = DOMAIN f /\ DOMAIN h = windowed(timed \ {"timeout"})
  BY <1>1, <1>2, <1>3, LatenciesSlice, CorrectedSlice
<1>6. PICK n \in Nat : n = Cardinality(DOMAIN f) /\ (n = 0 <=> DOMAIN f = {})
  BY <1>4, SliceFacts
<1>7. PICK k \in Nat : k = Cardinality(DOMAIN h) /\ (k = 0 <=> DOMAIN h = {})
  BY <1>4, SliceFacts
<1>8. p \in 1 .. 1000
  BY PercentageRange
<1>9. ASSUME NEW m \in Nat \ {0} PROVE Rank(p, m) \in 1 .. m
  <2>1. NearRank(Rank(p, m), p, m)
    BY <1>8, RankIsNear
  <2> QED
    BY <2>1 DEF NearRank
<1>10. percentile(g, p) >= percentile(f, p)
  <2>1. CASE n = 0
    BY <1>5, <1>6, <2>1 DEF percentile
  <2>2. CASE n # 0
    <3>1. Rank(p, n) \in 1 .. n
      BY <1>9, <2>2
    <3>2. \A i \in DOMAIN f : f[i] <= g[i]
      BY <1>1, <1>2, <1>4, <1>5, CorrectedSlice DEF Slice
    <3>3. AtPlace(f, Rank(p, n)) <= AtPlace(g, Rank(p, n))
      BY <1>4, <1>5, <1>6, <3>1, <3>2, SlowerIsNotFaster
    <3>4. AtPlace(f, Rank(p, n)) \in Nat /\ AtPlace(g, Rank(p, n)) \in Nat
      BY <1>4, <1>5, <1>6, <3>1, PlaceIsTaken
    <3>5. percentile(f, p) = AtPlace(f, Rank(p, n)) /\ percentile(g, p) = AtPlace(g, Rank(p, n))
      BY <1>5, <1>6, <2>2 DEF percentile
    <3> QED
      BY <3>3, <3>4, <3>5
  <2> QED
    BY <2>1, <2>2
<1>11. percentile(f, p) >= percentile(h, p)
  <2>1. DOMAIN h \subseteq DOMAIN f /\ \A i \in DOMAIN h : h[i] = f[i]
    <3>1. DOMAIN h \subseteq DOMAIN f
      BY <1>5 DEF windowed
    <3>2. \A i \in DOMAIN h : h[i] = samples[i].latency
      BY <1>3, <1>5, LatenciesSlice
    <3>3. \A i \in DOMAIN f : f[i] = samples[i].latency
      BY <1>1, <1>5, LatenciesSlice
    <3> QED
      BY <3>1, <3>2, <3>3
  <2>2. \A i \in DOMAIN f \ DOMAIN h : \A j \in DOMAIN f : f[j] <= f[i]
    <3> SUFFICES ASSUME NEW i \in DOMAIN f \ DOMAIN h, NEW j \in DOMAIN f PROVE f[j] <= f[i]
      OBVIOUS
    <3>1. i \in DOMAIN samples /\ samples[i].outcome = "timeout"
      BY <1>5 DEF windowed
    <3>2. f[i] = Timeout
      BY <1>1, <1>5, <3>1, LatenciesSlice DEF SamplesSound
    <3>3. f[j] \in 0 .. Timeout
      BY <1>1, <1>5, LatenciesSlice
    <3> QED
      BY <3>2, <3>3, Constants
  <2>3. CASE k = 0
    <3>1. percentile(h, p) = 0
      BY <1>7, <2>3 DEF percentile
    <3>2. percentile(f, p) \in Nat
      <4>1. CASE n = 0
        BY <1>6, <4>1 DEF percentile
      <4>2. CASE n # 0
        <5>1. Rank(p, n) \in 1 .. n
          BY <1>9, <4>2
        <5>2. AtPlace(f, Rank(p, n)) \in Nat
          BY <1>4, <1>6, <5>1, PlaceIsTaken
        <5> QED
          BY <1>6, <4>2, <5>2 DEF percentile
      <4> QED
        BY <4>1, <4>2
    <3> QED
      BY <3>1, <3>2
  <2>4. CASE k # 0
    <3>1. k <= n /\ n # 0
      <4>1. DOMAIN h \in SUBSET DOMAIN f /\ IsFiniteSet(DOMAIN f)
        BY <1>4, <2>1 DEF Slice
      <4> QED
        BY <1>6, <1>7, <2>4, <4>1, FS_Subset
    <3>2. Rank(p, k) \in 1 .. k /\ Rank(p, n) \in 1 .. n
      BY <1>9, <2>4, <3>1
    <3>3. Rank(p, k) <= Rank(p, n)
      BY <1>8, <2>4, <3>1, RankGrows
    <3>4. AtPlace(h, Rank(p, k)) <= AtPlace(f, Rank(p, n))
      BY <1>4, <1>6, <1>7, <2>1, <2>2, <3>2, <3>3, SlowestCount
    <3>5. AtPlace(h, Rank(p, k)) \in Nat /\ AtPlace(f, Rank(p, n)) \in Nat
      BY <1>4, <1>6, <1>7, <3>2, PlaceIsTaken
    <3>6. percentile(h, p) = AtPlace(h, Rank(p, k)) /\ percentile(f, p) = AtPlace(f, Rank(p, n))
      BY <1>6, <1>7, <2>4, <3>1 DEF percentile
    <3> QED
      BY <3>4, <3>5, <3>6
  <2> QED
    BY <2>3, <2>4
<1> QED
  BY <1>1, <1>2, <1>3, <1>10, <1>11, SummaryFields, StatsFields DEF allLatencies

-----------------------------------------------------------------------------
(* The inductive invariant of Report, part by part.                        *)

RowType     == [at : Int, container : 1 .. N, cpu : Loads, reading : Nat]
ReadingType == [at : Nat, total : Nat]

\* The host's clock shows t at the generator's instant i, or may.
Near(t, i) == t \in i - Drift .. i + Drift

Basics ==
    /\ clock \in 0 .. MaxTime /\ began \in 0 .. clock /\ open \in BOOLEAN /\ skipped \in BOOLEAN
    /\ stage \in {"phase", "between", "done", "collected", "reported", "failed"}

\* While the generator runs, the phase it is in is the first of the plan.
PlanSound == plan \in Seq(Names) /\ (stage \in {"phase", "between"} => plan # <<>>)

SamplesPast == \A i \in DOMAIN samples : samples[i].at <= clock

PhaseSound(p) ==
    /\ p.name \in Names /\ p.from \in Nat /\ p.to \in p.from .. p.from + Duration
    /\ {p.total, p.accepted, p.transport, p.nonOK} \subseteq Nat

PhasesSound == (\E S : phases \in Seq(S)) /\ \A i \in DOMAIN phases : PhaseSound(phases[i])

RowsSound ==
    /\ rows \in Seq(RowType) /\ readings \in Seq(ReadingType)
    /\ \A i \in DOMAIN rows : /\ rows[i].at \in 0 - Drift .. clock + Drift
                             /\ rows[i].reading \in DOMAIN readings
    /\ \A k \in DOMAIN readings : readings[k].at <= clock

\* docker prints a container once.
OneRowEach ==
    \A i, j \in DOMAIN rows :
        rows[i].reading = rows[j].reading /\ rows[i].container = rows[j].container => i = j

\* The rows of a reading, and what they show together.
GroupSum(file, k) ==
    SumFunction([i \in {j \in DOMAIN file : file[j].reading = k} |-> file[i].cpu])

TotalsTrue == \A k \in DOMAIN readings : readings[k].total = GroupSum(rows, k)

\* As long as docker has a figure of every container a reading's rows bear one stamp, which
\* the host's clock showed when it was taken: a timestamp is taken for every N of them.
StampsTrue ==
    ~ skipped =>
      \A i \in DOMAIN rows :
        /\ Near(rows[i].at, readings[rows[i].reading].at)
        /\ \A j \in DOMAIN rows : rows[j].reading = rows[i].reading => rows[j].at = rows[i].at

WholeReadings ==
    ~ skipped /\ stage \in {"phase", "between", "done"} => Len(rows) = N * Len(readings)

ReportMade ==
    IF stage = "reported"
    THEN /\ phases # <<>>
         /\ report = [phase |-> headline,
                      cpu |-> IF rows = <<>> THEN None ELSE aggregate(headline.from, headline.to)]
    ELSE report = None

CollectorInv == RowsSound /\ OneRowEach /\ TotalsTrue /\ StampsTrue /\ WholeReadings

ReportInv ==
    /\ Basics /\ PlanSound /\ SamplesSound /\ SamplesPast /\ PhasesSound
    /\ CollectorInv /\ ReportMade

-----------------------------------------------------------------------------
(* The generator's part of it.                                             *)

\* The window of a phase is at most as long as was asked for, and never of negative length.
LEMMA MeasuredInDuration ==
    ASSUME Basics
    PROVE  Measured \in 0 .. Duration
<1>1. clock \in Int /\ began \in Int /\ Warmup \in Int /\ Duration \in Nat
  BY Constants DEF Basics
<1>2. PICK left \in Int : left = clock - began - Warmup
  BY <1>1
<1>3. \A a, b \in Int : Min({a, b}) = IF a <= b THEN a ELSE b
  <2> SUFFICES ASSUME NEW a \in Int, NEW b \in Int
               PROVE  Min({a, b}) = IF a <= b THEN a ELSE b
    OBVIOUS
  <2>1. \E x \in {a, b} : \A y \in {a, b} : x <= y
    <3>1. CASE a <= b
      BY <3>1
    <3>2. CASE b <= a
      BY <3>2
    <3> QED
      BY <3>1, <3>2
  <2>2. Min({a, b}) \in {a, b} /\ \A y \in {a, b} : Min({a, b}) <= y
    BY <2>1 DEF Min
  <2> QED
    BY <2>2
<1>4. \A a, b \in Int : Max({a, b}) = IF a <= b THEN b ELSE a
  <2> SUFFICES ASSUME NEW a \in Int, NEW b \in Int
               PROVE  Max({a, b}) = IF a <= b THEN b ELSE a
    OBVIOUS
  <2>1. \E x \in {a, b} : \A y \in {a, b} : x >= y
    <3>1. CASE a <= b
      BY <3>1
    <3>2. CASE b <= a
      BY <3>2
    <3> QED
      BY <3>1, <3>2
  <2>2. Max({a, b}) \in {a, b} /\ \A y \in {a, b} : Max({a, b}) >= y
    BY <2>1 DEF Max
  <2> QED
    BY <2>2
<1>5. PICK m \in Int : m = Min({Duration, left}) /\ m <= Duration
  BY <1>1, <1>2, <1>3
<1>6. Max({0, m}) \in 0 .. Duration
  BY <1>1, <1>4, <1>5
<1> QED
  BY <1>1, <1>2, <1>5, <1>6 DEF Measured

\* The summary of the running phase is one.
LEMMA SummarySound ==
    ASSUME Basics, PlanSound, SamplesSound, stage = "phase"
    PROVE  PhaseSound(summarize)
<1>1. summarize.name \in Names
  BY SummaryFields DEF PlanSound
<1>2. summarize.from \in Nat /\ summarize.to \in summarize.from .. summarize.from + Duration
  <2>1. WindowStart \in Nat
    BY Constants DEF WindowStart, Basics
  <2>2. WindowEnd \in WindowStart .. WindowStart + Duration
    BY <2>1, MeasuredInDuration, Constants DEF WindowEnd
  <2> QED
    BY <2>1, <2>2, SummaryFields
<1>3. summarize.total \in Nat /\ summarize.accepted \in Nat /\ summarize.transport \in Nat
  BY SummaryFields, CountsFinite
<1>4. summarize.nonOK \in Nat
  <2>1. summarize.nonOK = Count({"other"})
    BY FiguresAddUp DEF SummaryAddsUp
  <2> QED
    BY <2>1, CountsFinite
<1> QED
  BY <1>1, <1>2, <1>3, <1>4 DEF PhaseSound

\* The phase a report is about is one of the file, and a limiter phase only where there is
\* no other.
LEMMA HeadlineFacts ==
    ASSUME PhasesSound, phases # <<>>
    PROVE  /\ headline \in ToSet(phases) /\ PhaseSound(headline)
           /\ headline.name = "limiter" => \A q \in ToSet(phases) : q.name = "limiter"
<1>1. Len(phases) \in Nat /\ DOMAIN phases = 1 .. Len(phases) /\ Len(phases) \in DOMAIN phases
  <2>1. PICK S : phases \in Seq(S)
    BY DEF PhasesSound
  <2> QED
    BY <2>1
<1>2. PICK capacity : capacity = {i \in DOMAIN phases : phases[i].name \in {"compute", "health"}}
  OBVIOUS
<1>3. CASE capacity # {}
  <2>1. capacity \in SUBSET Nat
    BY <1>1, <1>2
  <2>2. PICK i \in capacity : i = Min(capacity)
    BY <1>3, <2>1, MinIsMin
  <2>3. headline = phases[i] /\ i \in DOMAIN phases /\ phases[i].name # "limiter"
    BY <1>2, <1>3, <2>2 DEF headline
  <2> QED
    BY <2>3 DEF ToSet, PhasesSound
<1>4. CASE capacity = {}
  <2>1. headline = phases[Len(phases)]
    BY <1>2, <1>4 DEF headline
  <2>2. \A i \in DOMAIN phases : phases[i].name = "limiter"
    BY <1>2, <1>4 DEF PhasesSound, PhaseSound, Names
  <2> QED
    BY <1>1, <2>1, <2>2 DEF ToSet, PhasesSound
<1> QED
  BY <1>3, <1>4

-----------------------------------------------------------------------------
(* The collector's part.                                                   *)

\* The rows of whole readings are a multiple of the containers.
LEMMA WholeMultiple == \A k \in Nat : (N * k) % N = 0
<1>1. N \in Nat \ {0}
  BY Constants
<1> QED
  BY <1>1

\* A timestamp is what the host's clock may have shown; when the rows so far are whole
\* readings it is what it shows now.
LEMMA StampFacts ==
    ASSUME RowsSound, clock \in Nat, NEW host \in clock - Drift .. clock + Drift,
           NEW n \in Nat, NEW i \in 1 .. n
    PROVE  /\ Stamp(Len(rows) + i, host) \in 0 - Drift .. clock + Drift
           /\ \A k \in Nat : Len(rows) = N * k => Stamp(Len(rows) + i, host) = host
<1>1. Len(rows) \in Nat /\ DOMAIN rows = 1 .. Len(rows)
  BY DEF RowsSound
<1>2. Len(rows) + 1 \in Len(rows) + 1 .. Len(rows) + i /\ (Len(rows) + 1) - 1 = Len(rows)
  BY <1>1
<1>3. Len(rows) % N = 0 => Stamp(Len(rows) + i, host) = host
  BY <1>1, <1>2 DEF Stamp
<1>4. Len(rows) = 0 => Len(rows) % N = 0
  <2>1. N * 0 = 0
    BY Constants
  <2> QED
    BY <2>1, WholeMultiple
<1>5. Stamp(Len(rows) + i, host) \in {host, rows[Len(rows)].at}
  BY DEF Stamp
<1>6. Len(rows) # 0 => rows[Len(rows)].at \in 0 - Drift .. clock + Drift
  <2> SUFFICES ASSUME Len(rows) # 0 PROVE rows[Len(rows)].at \in 0 - Drift .. clock + Drift
    OBVIOUS
  <2>1. Len(rows) \in DOMAIN rows
    BY <1>1
  <2> QED
    BY <2>1 DEF RowsSound
<1>7. host \in 0 - Drift .. clock + Drift
  BY Constants
<1> QED
  BY <1>3, <1>4, <1>5, <1>6, <1>7, WholeMultiple

\* The file keeps its rows, and the new ones follow.
FileGrows(file, n, shown, loads, host) ==
    /\ file \in Seq(RowType) /\ Len(file) = Len(rows) + n
    /\ \A i \in 1 .. Len(rows) : file[i] = rows[i]
    /\ \A i \in Len(rows) + 1 .. Len(rows) + n :
          file[i] = [at |-> Stamp(i, host), container |-> shown[i - Len(rows)],
                     cpu |-> loads[i - Len(rows)], reading |-> Len(readings) + 1]

\* The rows a reading adds have the shape of rows.
LEMMA StampedFacts ==
    ASSUME RowsSound, clock \in Nat, NEW host \in clock - Drift .. clock + Drift, NEW n \in Nat,
           NEW shown \in [1 .. n -> 1 .. N], NEW loads \in [1 .. n -> Loads],
           NEW file, file = Stamped(shown, loads, host)
    PROVE  FileGrows(file, n, shown, loads, host)
<1>1. PICK new : new = [i \in 1 .. n |->
                          [at |-> Stamp(Len(rows) + i, host), container |-> shown[i], cpu |-> loads[i],
                           reading |-> Len(readings) + 1]]
  OBVIOUS
<1>2. file = rows \o new
  BY <1>1 DEF Stamped
<1>3. rows \in Seq(RowType) /\ Len(readings) \in Nat /\ Len(rows) \in Nat
  BY DEF RowsSound
<1>4. \A i \in 1 .. n : new[i] \in RowType
  <2> SUFFICES ASSUME NEW i \in 1 .. n PROVE new[i] \in RowType
    OBVIOUS
  <2>1. Stamp(Len(rows) + i, host) \in Int
    <3>1. Stamp(Len(rows) + i, host) \in 0 - Drift .. clock + Drift
      BY StampFacts
    <3> QED
      BY <3>1
  <2> QED
    BY <1>1, <1>3, <2>1 DEF RowType
<1>5. new \in Seq(RowType) /\ Len(new) = n
  BY <1>1, <1>4
<1>6. file \in Seq(RowType) /\ Len(file) = Len(rows) + n
  <2>1. rows \o new \in Seq(RowType) /\ Len(rows \o new) = Len(rows) + Len(new)
    BY <1>3, <1>5, ConcatProperties
  <2> QED
    BY <1>2, <1>5, <2>1
<1>7. \A i \in 1 .. Len(rows) : file[i] = rows[i]
  BY <1>2, <1>3, <1>5
<1>8. ASSUME NEW i \in Len(rows) + 1 .. Len(rows) + n
      PROVE  file[i] = [at |-> Stamp(i, host), container |-> shown[i - Len(rows)],
                        cpu |-> loads[i - Len(rows)], reading |-> Len(readings) + 1]
  <2>1. PICK j \in 1 .. n : j = i - Len(rows) /\ Len(rows) + j = i
    <3>1. i \in Int /\ Len(rows) + 1 <= i /\ i <= Len(rows) + n
      BY <1>3
    <3>2. i - Len(rows) \in 1 .. n /\ Len(rows) + (i - Len(rows)) = i
      BY <1>3, <3>1
    <3> QED
      BY <3>2
  <2>2. file[i] = new[j]
    BY <1>2, <1>3, <1>5, <2>1
  <2> QED
    BY <1>1, <2>1, <2>2
<1> QED
  BY <1>6, <1>7, <1>8 DEF FileGrows

\* A reading of the collector.
LEMMA ReadingKeeps ==
    ASSUME Basics, CollectorInv, stage \in {"phase", "between", "done"},
           NEW upTo \in 1 .. N, Reading(upTo), clock' = clock
    PROVE  /\ RowsSound' /\ OneRowEach' /\ TotalsTrue' /\ StampsTrue'
           /\ ~ skipped' /\ upTo = N => Len(rows') = N * Len(readings')
<1>1. clock \in Nat /\ N \in Nat \ {0} /\ Loads \subseteq Nat /\ upTo \in Nat /\ upTo <= N
  BY Constants DEF Basics
<1>27. PICK n \in 0 .. upTo : \E host \in clock - Drift .. clock + Drift :
        \E shown \in [1 .. n -> 1 .. upTo], loads \in [1 .. n -> Loads] :
        LET file == Stamped(shown, loads, host)
            new  == DOMAIN file \ DOMAIN rows
        IN  /\ \A i, j \in 1 .. n : i < j => shown[i] < shown[j]
            /\ rows' = file
            /\ readings' = Append(readings, [at |-> clock,
                                             total |-> SumFunction([i \in new |-> file[i].cpu])])
            /\ skipped' = (skipped \/ n < upTo)
  BY DEF Reading
<1>2. PICK host \in clock - Drift .. clock + Drift :
        \E shown \in [1 .. n -> 1 .. upTo], loads \in [1 .. n -> Loads] :
        LET file == Stamped(shown, loads, host)
            new  == DOMAIN file \ DOMAIN rows
        IN  /\ \A i, j \in 1 .. n : i < j => shown[i] < shown[j]
            /\ rows' = file
            /\ readings' = Append(readings, [at |-> clock,
                                             total |-> SumFunction([i \in new |-> file[i].cpu])])
            /\ skipped' = (skipped \/ n < upTo)
  BY <1>27
<1>3. PICK shown \in [1 .. n -> 1 .. upTo], loads \in [1 .. n -> Loads] :
        LET file == Stamped(shown, loads, host)
            new  == DOMAIN file \ DOMAIN rows
        IN  /\ \A i, j \in 1 .. n : i < j => shown[i] < shown[j]
            /\ rows' = file
            /\ readings' = Append(readings, [at |-> clock,
                                             total |-> SumFunction([i \in new |-> file[i].cpu])])
            /\ skipped' = (skipped \/ n < upTo)
  BY <1>2
<1>4. PICK file : file = Stamped(shown, loads, host)
  OBVIOUS
<1>5. PICK new : new = DOMAIN file \ DOMAIN rows
  OBVIOUS
<1>6. PICK total : total = SumFunction([i \in new |-> file[i].cpu])
  OBVIOUS
<1>7. /\ \A i, j \in 1 .. n : i < j => shown[i] < shown[j]
      /\ rows' = file
      /\ readings' = Append(readings, [at |-> clock, total |-> total])
      /\ skipped' = (skipped \/ n < upTo)
  BY <1>3, <1>4, <1>5, <1>6, Zenon
<1>8. n \in Nat /\ n <= upTo /\ shown \in [1 .. n -> 1 .. N]
  BY <1>1, <1>3
<1>9. RowsSound /\ Len(rows) \in Nat /\ DOMAIN rows = 1 .. Len(rows) /\ Len(readings) \in Nat
      /\ DOMAIN readings = 1 .. Len(readings)
  BY DEF CollectorInv, RowsSound
<1>10. /\ file \in Seq(RowType) /\ Len(file) = Len(rows) + n
       /\ \A i \in 1 .. Len(rows) : file[i] = rows[i]
       /\ \A i \in Len(rows) + 1 .. Len(rows) + n :
             file[i] = [at |-> Stamp(i, host), container |-> shown[i - Len(rows)],
                        cpu |-> loads[i - Len(rows)], reading |-> Len(readings) + 1]
  <2>1. RowsSound /\ clock \in Nat /\ n \in Nat /\ shown \in [1 .. n -> 1 .. N]
        /\ loads \in [1 .. n -> Loads] /\ file = Stamped(shown, loads, host)
    BY <1>1, <1>3, <1>4, <1>8, <1>9
  <2> QED
    <3>1. FileGrows(file, n, shown, loads, host)
      BY <2>1, StampedFacts
    <3> QED
      BY <3>1 DEF FileGrows
<1>11. DOMAIN file = 1 .. Len(rows) + n /\ new = Len(rows) + 1 .. Len(rows) + n
  BY <1>5, <1>8, <1>9, <1>10
<1>12. DOMAIN file = DOMAIN rows \cup new /\ DOMAIN rows \cap new = {} /\ DOMAIN rows \subseteq DOMAIN file
  BY <1>5, <1>8, <1>9, <1>11
<1>13. \A i \in DOMAIN rows : file[i] = rows[i]
  BY <1>9, <1>10
<1>14. \A i \in new : /\ file[i].reading = Len(readings) + 1 /\ file[i].at = Stamp(i, host)
                      /\ file[i].container = shown[i - Len(rows)]
                      /\ file[i].cpu = loads[i - Len(rows)]
  <2> SUFFICES ASSUME NEW i \in new
               PROVE  /\ file[i].reading = Len(readings) + 1 /\ file[i].at = Stamp(i, host)
                      /\ file[i].container = shown[i - Len(rows)]
                      /\ file[i].cpu = loads[i - Len(rows)]
    OBVIOUS
  <2>1. file[i] = [at |-> Stamp(i, host), container |-> shown[i - Len(rows)],
                   cpu |-> loads[i - Len(rows)], reading |-> Len(readings) + 1]
    BY <1>10, <1>11
  <2> QED
    BY <2>1
<1>15. ASSUME NEW i \in new
       PROVE  /\ i - Len(rows) \in 1 .. n /\ Stamp(i, host) \in 0 - Drift .. clock + Drift
              /\ \A k \in Nat : Len(rows) = N * k => Stamp(i, host) = host
  <2>1. i \in Int /\ Len(rows) + 1 <= i /\ i <= Len(rows) + n
    BY <1>8, <1>9, <1>11
  <2>2. PICK j \in 1 .. n : j = i - Len(rows) /\ i = Len(rows) + j
    <3>1. i - Len(rows) \in 1 .. n /\ i = Len(rows) + (i - Len(rows))
      BY <1>8, <1>9, <2>1
    <3> QED
      BY <3>1
  <2> QED
    BY <1>1, <1>8, <1>9, <2>2, StampFacts
<1>16. IsFiniteSet(new) /\ \A i \in new : file[i].cpu \in Nat
  <2>1. IsFiniteSet(new)
    BY <1>8, <1>9, <1>11, FS_Interval
  <2>2. ASSUME NEW i \in new PROVE file[i].cpu \in Nat
    <3>1. loads[i - Len(rows)] \in Loads
      BY <1>3, <1>15
    <3> QED
      BY <1>1, <1>14, <3>1
  <2> QED
    BY <2>1, <2>2
<1>17. total \in Nat
  <2>1. PICK f : f = [i \in new |-> file[i].cpu]
    OBVIOUS
  <2>2. DOMAIN f = new /\ \A i \in new : f[i] \in Nat
    BY <1>16, <2>1
  <2> QED
    BY <1>6, <1>16, <2>1, <2>2, SumIsNatural
<1>18. /\ readings' \in Seq(ReadingType) /\ DOMAIN readings' = 1 .. Len(readings) + 1
       /\ Len(readings') = Len(readings) + 1
       /\ \A k \in DOMAIN readings : readings'[k] = readings[k]
       /\ readings'[Len(readings) + 1] = [at |-> clock, total |-> total]
  <2>1. [at |-> clock, total |-> total] \in ReadingType /\ readings \in Seq(ReadingType)
    BY <1>1, <1>9, <1>17 DEF ReadingType, RowsSound
  <2> QED
    BY <1>7, <1>9, <2>1
<1>19. \A i \in DOMAIN rows : rows[i].reading \in 1 .. Len(readings)
  BY <1>9 DEF RowsSound
<1>20. RowsSound'
  <2>1. ASSUME NEW i \in DOMAIN file
        PROVE  /\ file[i].at \in 0 - Drift .. clock + Drift
               /\ file[i].reading \in 1 .. Len(readings) + 1
    <3>1. CASE i \in DOMAIN rows
      BY <1>9, <1>13, <1>19, <3>1 DEF RowsSound
    <3>2. CASE i \in new
      <4>1. Stamp(i, host) \in 0 - Drift .. clock + Drift
        BY <1>15, <3>2
      <4> QED
        BY <1>1, <1>9, <1>14, <3>2, <4>1
    <3> QED
      BY <1>12, <3>1, <3>2
  <2>2. ASSUME NEW k \in 1 .. Len(readings) + 1 PROVE readings'[k].at <= clock
    <3>1. CASE k \in DOMAIN readings
      BY <1>9, <1>18, <3>1 DEF RowsSound
    <3>2. CASE k = Len(readings) + 1
      BY <1>1, <1>18, <3>2
    <3> QED
      BY <1>9, <3>1, <3>2
  <2> QED
    BY <1>7, <1>10, <1>18, <2>1, <2>2 DEF RowsSound
<1>21. OneRowEach'
  <2> SUFFICES ASSUME NEW i \in DOMAIN file, NEW j \in DOMAIN file,
                      file[i].reading = file[j].reading, file[i].container = file[j].container
               PROVE  i = j
    BY <1>7 DEF OneRowEach
  <2>1. CASE i \in DOMAIN rows /\ j \in DOMAIN rows
    BY <1>13, <2>1 DEF CollectorInv, OneRowEach
  <2>2. ASSUME NEW a \in DOMAIN rows, NEW b \in new PROVE file[a].reading # file[b].reading
    BY <1>9, <1>13, <1>14, <1>19
  <2>3. CASE i \in new /\ j \in new
    <3>1. PICK a \in 1 .. n : a = i - Len(rows) /\ i = Len(rows) + a
      BY <1>9, <1>11, <1>15, <2>3
    <3>2. PICK b \in 1 .. n : b = j - Len(rows) /\ j = Len(rows) + b
      BY <1>9, <1>11, <1>15, <2>3
    <3>3. shown[a] = shown[b]
      BY <1>14, <2>3, <3>1, <3>2
    <3>4. shown[a] \in Nat /\ shown[b] \in Nat
      BY <1>8
    <3>5. ~ (a < b) /\ ~ (b < a)
      BY <1>7, <3>3, <3>4
    <3> QED
      BY <1>8, <3>1, <3>2, <3>5
  <2> QED
    BY <1>12, <2>1, <2>2, <2>3
<1>22. TotalsTrue'
  <2> SUFFICES ASSUME NEW k \in 1 .. Len(readings) + 1
               PROVE  readings'[k].total = GroupSum(file, k)
    BY <1>7, <1>18 DEF TotalsTrue
  <2>1. CASE k \in DOMAIN readings
    <3>1. {j \in DOMAIN file : file[j].reading = k} = {j \in DOMAIN rows : rows[j].reading = k}
      BY <1>9, <1>12, <1>13, <1>14, <2>1
    <3>2. [i \in {j \in DOMAIN file : file[j].reading = k} |-> file[i].cpu]
            = [i \in {j \in DOMAIN rows : rows[j].reading = k} |-> rows[i].cpu]
      BY <1>13, <3>1
    <3>3. GroupSum(file, k) = GroupSum(rows, k)
      BY <3>2 DEF GroupSum
    <3> QED
      BY <1>18, <2>1, <3>3 DEF CollectorInv, TotalsTrue
  <2>2. CASE k = Len(readings) + 1
    <3>1. {j \in DOMAIN file : file[j].reading = k} = new
      BY <1>9, <1>12, <1>13, <1>14, <1>19, <2>2
    <3>2. GroupSum(file, k) = total
      BY <1>6, <3>1 DEF GroupSum
    <3> QED
      BY <1>18, <2>2, <3>2
  <2> QED
    BY <1>9, <2>1, <2>2
<1>23. StampsTrue'
  <2> SUFFICES ASSUME ~ skipped'
               PROVE  \A i \in DOMAIN file :
                        /\ Near(file[i].at, readings'[file[i].reading].at)
                        /\ \A j \in DOMAIN file :
                              file[j].reading = file[i].reading => file[j].at = file[i].at
    BY <1>7 DEF StampsTrue, Near
  <2>1. ~ skipped
    BY <1>7 DEF Basics
  <2>2. ASSUME NEW i \in new
        PROVE  /\ file[i].at = host /\ file[i].reading = Len(readings) + 1
               /\ Near(file[i].at, readings'[file[i].reading].at)
    <3>1. Len(rows) = N * Len(readings)
      BY <2>1 DEF CollectorInv, WholeReadings
    <3>2. file[i].at = host
      BY <1>9, <1>14, <1>15, <3>1
    <3> QED
      BY <1>1, <1>14, <1>18, <3>2 DEF Near
  <2>3. ASSUME NEW i \in DOMAIN rows
        PROVE  /\ file[i] = rows[i] /\ file[i].reading \in 1 .. Len(readings)
               /\ Near(file[i].at, readings'[file[i].reading].at)
    BY <1>9, <1>13, <1>18, <1>19, <2>1 DEF CollectorInv, StampsTrue, Near
  <2>4. ASSUME NEW i \in DOMAIN rows, NEW j \in new PROVE file[i].reading # file[j].reading
    BY <1>9, <2>2, <2>3
  <2>5. ASSUME NEW i \in DOMAIN file, NEW j \in DOMAIN file, file[j].reading = file[i].reading
        PROVE  file[j].at = file[i].at
    <3>1. CASE i \in new /\ j \in new
      BY <2>2, <3>1
    <3>2. CASE i \in DOMAIN rows /\ j \in DOMAIN rows
      BY <2>1, <2>3, <2>5, <3>2 DEF CollectorInv, StampsTrue
    <3> QED
      BY <1>12, <2>4, <2>5, <3>1, <3>2
  <2> QED
    BY <1>12, <2>2, <2>3, <2>5
<1>24. ASSUME ~ skipped', upTo = N PROVE Len(rows') = N * Len(readings')
  <2>1. ~ skipped /\ n = N
    <3>1. ~ skipped /\ ~ (n < upTo)
      BY <1>7, <1>24
    <3> QED
      BY <1>1, <1>8, <1>24, <3>1
  <2>2. Len(rows) = N * Len(readings)
    BY <2>1 DEF CollectorInv, WholeReadings
  <2>3. N * (Len(readings) + 1) = (N * Len(readings)) + N
    BY <1>1, <1>9
  <2> QED
    BY <1>7, <1>10, <1>18, <2>1, <2>2, <2>3
<1> QED
  BY <1>20, <1>21, <1>22, <1>23, <1>24

-----------------------------------------------------------------------------
(* The invariant holds at the start and is kept by every step.             *)

GeneratorInv == PlanSound /\ SamplesSound /\ SamplesPast /\ PhasesSound

\* What a report says depends on nothing but the files.
LEMMA ReportStays ==
    ASSUME UNCHANGED <<phases, rows>>
    PROVE  /\ headline' = headline
           /\ \A from, to : aggregate(from, to)' = aggregate(from, to)
<1>1. headline' = headline
  BY DEF headline
<1>2. \A from, to : aggregate(from, to)' = aggregate(from, to)
  BY DEF aggregate, Times, Container, CpuOf, TakenBy, CombinedPeak, At
<1> QED
  BY <1>1, <1>2

\* A step that is not the collector's.
LEMMA CollectorStays ==
    ASSUME CollectorInv, UNCHANGED <<rows, readings, skipped>>,
           clock \in Nat, clock' \in Nat, clock <= clock',
           stage' \in {"phase", "between", "done"} => stage \in {"phase", "between", "done"}
    PROVE  CollectorInv'
<1>1. RowsSound'
  <2>1. RowsSound
    BY DEF CollectorInv
  <2>2. \A i \in DOMAIN rows : rows[i] \in RowType
    BY <2>1 DEF RowsSound
  <2>3. \A k \in DOMAIN readings : readings[k] \in ReadingType
    BY <2>1 DEF RowsSound
  <2>4. \A i \in DOMAIN rows : rows[i].at \in 0 - Drift .. clock' + Drift
    <3>1. ASSUME NEW i \in DOMAIN rows PROVE rows[i].at \in 0 - Drift .. clock' + Drift
      <4>1. rows[i].at \in 0 - Drift .. clock + Drift
        BY <2>1 DEF RowsSound
      <4> QED
        BY <4>1, Constants
    <3> QED
      BY <3>1
  <2>5. \A k \in DOMAIN readings : readings[k].at <= clock'
    BY <2>1, <2>3 DEF RowsSound, ReadingType
  <2> QED
    BY <2>1, <2>4, <2>5 DEF RowsSound
<1>2. OneRowEach' /\ StampsTrue'
  BY DEF CollectorInv, OneRowEach, StampsTrue, Near
<1>3. TotalsTrue'
  BY DEF CollectorInv, TotalsTrue
<1>4. WholeReadings'
  BY DEF CollectorInv, WholeReadings
<1> QED
  BY <1>1, <1>2, <1>3, <1>4 DEF CollectorInv

\* A step that is not the generator's, nor time's.
LEMMA GeneratorStays ==
    ASSUME Basics, GeneratorInv, UNCHANGED <<clock, plan, open, began, samples, phases>>,
           stage' \in {"phase", "between"} => stage \in {"phase", "between"}
    PROVE  GeneratorInv'
<1>1. PlanSound'
  BY DEF GeneratorInv, PlanSound
<1>2. SamplesSound' /\ SamplesPast'
  BY DEF GeneratorInv, SamplesSound, SamplesPast
<1>3. PhasesSound'
  BY DEF GeneratorInv, PhasesSound
<1> QED
  BY <1>1, <1>2, <1>3 DEF GeneratorInv

\* The invariant in four parts.
LEMMA ReportInvParts ==
    ReportInv <=> Basics /\ GeneratorInv /\ CollectorInv /\ ReportMade
BY DEF ReportInv, GeneratorInv

\* Until the report is made there is none.
LEMMA NoneYet ==
    ASSUME ReportMade, report' = report, stage # "reported", stage' # "reported"
    PROVE  ReportMade'
BY DEF ReportMade

\* At the start there is nothing in any file.
LEMMA InvInit == Init => ReportInv
<1> SUFFICES ASSUME Init PROVE ReportInv
  OBVIOUS
<1>1. Basics
  <2>1. 0 \in 0 .. MaxTime /\ 0 \in 0 .. 0
    BY Constants
  <2> QED
    BY <2>1 DEF Init, Basics
<1>2. PlanSound
  BY Constants DEF Init, PlanSound
<1>3. SamplesSound /\ SamplesPast
  BY DEF Init, SamplesSound, SamplesPast
<1>4. PhasesSound
  BY DEF Init, PhasesSound
<1>5. RowsSound
  BY DEF Init, RowsSound
<1>6. OneRowEach /\ TotalsTrue /\ StampsTrue
  BY DEF Init, OneRowEach, TotalsTrue, StampsTrue
<1>7. WholeReadings
  BY Constants DEF Init, WholeReadings
<1>8. ReportMade
  BY DEF Init, ReportMade
<1> QED
  BY <1>1, <1>2, <1>3, <1>4, <1>5, <1>6, <1>7, <1>8 DEF ReportInv, CollectorInv

\* What has been stays in the past.
LEMMA TickKeeps == ReportInv /\ Tick => ReportInv'
<1> SUFFICES ASSUME ReportInv, Tick PROVE ReportInv'
  OBVIOUS
<1>1. clock \in Nat /\ clock' \in Nat /\ clock <= clock' /\ began \in Nat
  BY Constants DEF ReportInv, Basics, Tick
<1>2. Basics'
  BY Constants DEF ReportInv, Basics, Tick
<1>3. PlanSound' /\ SamplesSound' /\ PhasesSound'
  BY <1>1 DEF ReportInv, Tick, PlanSound, SamplesSound, PhasesSound
<1>4. SamplesPast'
  <2>1. \A i \in DOMAIN samples : samples[i] \in SampleType
    BY DEF ReportInv, SamplesSound
  <2>2. \A i \in DOMAIN samples : samples[i].at \in Nat
    BY <2>1 DEF SampleType
  <2> QED
    BY <1>1, <2>2 DEF ReportInv, Tick, SamplesPast
<1>5. CollectorInv'
  BY <1>1, CollectorStays DEF ReportInv, Tick
<1>6. ReportMade'
  BY NoneYet DEF ReportInv, Tick
<1> QED
  BY <1>2, <1>3, <1>4, <1>5, <1>6 DEF ReportInv

\* A sample is entered now, and one that timed out with the timeout.
LEMMA RecordKeeps == ReportInv /\ Record => ReportInv'
<1> SUFFICES ASSUME ReportInv, Record PROVE ReportInv'
  OBVIOUS
<1>1. clock \in Nat /\ clock <= clock
  BY Constants DEF ReportInv, Basics
<1>2. Basics'
  BY DEF ReportInv, Basics, Record
<1>3. PlanSound' /\ PhasesSound'
  BY DEF ReportInv, Record, PlanSound, PhasesSound
<1>4. PICK outcome \in Outcomes, latency \in Latencies \cup {0, Timeout}, lag \in Lags \cup {0} :
        /\ outcome = "timeout" => latency = Timeout
        /\ samples' = Append(samples, [at |-> clock, outcome |-> outcome,
                                       latency |-> latency, lag |-> lag])
  BY DEF Record
<1>5. PICK s : s = [at |-> clock, outcome |-> outcome, latency |-> latency, lag |-> lag]
  OBVIOUS
<1>6. s \in SampleType /\ s.at <= clock /\ (s.outcome = "timeout" => s.latency = Timeout)
  <2>1. latency \in 0 .. Timeout
    BY Constants
  <2> QED
    BY <1>1, <1>4, <1>5, <2>1 DEF SampleType
<1>7. /\ samples' \in Seq(SampleType) /\ DOMAIN samples' = 1 .. Len(samples) + 1
      /\ Len(samples) \in Nat /\ DOMAIN samples = 1 .. Len(samples)
      /\ \A i \in 1 .. Len(samples) : samples'[i] = samples[i]
      /\ samples'[Len(samples) + 1] = s
  BY <1>4, <1>5, <1>6 DEF ReportInv, SamplesSound
<1>8. ASSUME NEW i \in DOMAIN samples'
      PROVE  /\ samples'[i].at <= clock
             /\ samples'[i].outcome = "timeout" => samples'[i].latency = Timeout
  <2>1. i \in 1 .. Len(samples) \/ i = Len(samples) + 1
    BY <1>7
  <2>2. CASE i \in 1 .. Len(samples)
    BY <1>7, <2>2 DEF ReportInv, SamplesSound, SamplesPast
  <2>3. CASE i = Len(samples) + 1
    BY <1>6, <1>7, <2>3
  <2> QED
    BY <2>1, <2>2, <2>3
<1>9. SamplesSound' /\ SamplesPast'
  BY <1>7, <1>8 DEF ReportInv, Record, SamplesSound, SamplesPast
<1>10. CollectorInv'
  BY <1>1, CollectorStays DEF ReportInv, Record
<1>11. ReportMade'
  BY NoneYet DEF ReportInv, Record
<1> QED
  BY <1>2, <1>3, <1>9, <1>10, <1>11 DEF ReportInv

\* The summary of a phase joins the others.
LEMMA EndPhaseKeeps == ReportInv /\ EndPhase => ReportInv'
<1> SUFFICES ASSUME ReportInv, EndPhase PROVE ReportInv'
  OBVIOUS
<1>1. clock \in Nat /\ clock <= clock /\ began \in Nat /\ open \in BOOLEAN
  BY Constants DEF ReportInv, Basics
<1>2. stage = "phase" /\ stage' \in {"between", "done"}
  BY DEF EndPhase
<1>3. Basics'
  BY <1>2 DEF ReportInv, Basics, EndPhase
<1>4. PlanSound'
  <2>1. CASE stage' = "between"
    <3>1. plan \in Seq(Names) /\ Len(plan) > 1 /\ plan' = Tail(plan)
      BY <2>1 DEF EndPhase, ReportInv, PlanSound
    <3>2. plan' \in Seq(Names) /\ Len(plan') = Len(plan) - 1 /\ Len(plan) \in Nat
      BY <3>1
    <3>3. Len(plan') > 0
      BY <3>1, <3>2
    <3>4. plan' # <<>>
      BY <3>3
    <3> QED
      BY <3>2, <3>4 DEF PlanSound
  <2>2. CASE stage' = "done"
    BY <2>2 DEF EndPhase, PlanSound
  <2> QED
    BY <1>2, <2>1, <2>2
<1>5. SamplesSound' /\ SamplesPast'
  BY <1>1 DEF EndPhase, SamplesSound, SamplesPast
<1>6. PhasesSound'
  <2>1. PICK p : p = summarize
    OBVIOUS
  <2>2. PhaseSound(p)
    BY <1>2, <2>1, SummarySound DEF ReportInv
  <2>3. PICK S : phases \in Seq(S)
    BY DEF ReportInv, PhasesSound
  <2>4. phases' = Append(phases, p)
    BY <2>1 DEF EndPhase
  <2>5. phases \in Seq(S \cup {p})
    BY <2>3
  <2>6. /\ phases' \in Seq(S \cup {p}) /\ DOMAIN phases' = 1 .. Len(phases) + 1
        /\ Len(phases) \in Nat /\ DOMAIN phases = 1 .. Len(phases)
        /\ \A i \in 1 .. Len(phases) : phases'[i] = phases[i]
        /\ phases'[Len(phases) + 1] = p
    BY <2>4, <2>5
  <2>7. ASSUME NEW i \in DOMAIN phases' PROVE PhaseSound(phases'[i])
    <3>1. i \in 1 .. Len(phases) \/ i = Len(phases) + 1
      BY <2>6
    <3>2. CASE i \in 1 .. Len(phases)
      BY <2>6, <3>2 DEF ReportInv, PhasesSound
    <3>3. CASE i = Len(phases) + 1
      BY <2>2, <2>6, <3>3
    <3> QED
      BY <3>1, <3>2, <3>3
  <2> QED
    BY <2>6, <2>7 DEF PhasesSound
<1>7. CollectorInv'
  BY <1>1, <1>2, CollectorStays DEF ReportInv, EndPhase
<1>8. ReportMade'
  BY <1>2, NoneYet DEF ReportInv, EndPhase
<1> QED
  BY <1>3, <1>4, <1>5, <1>6, <1>7, <1>8 DEF ReportInv

\* The generator's other steps.
LEMMA StageKeeps ==
    ASSUME ReportInv, NextPhase \/ NoPhase \/ GeneratorFails
    PROVE  ReportInv'
<1>1. clock \in Nat /\ clock <= clock /\ began \in Nat
  BY Constants DEF ReportInv, Basics
<1>2. /\ stage \in {"phase", "between", "done"} /\ stage' \in {"phase", "done", "failed"}
      /\ stage' = "phase" => stage = "between" /\ plan' = plan
      /\ stage' # "phase" => plan' \in {plan, <<>>}
      /\ began' \in {began, clock}
      /\ UNCHANGED <<clock, open, samples, phases, rows, readings, skipped, report>>
  BY DEF NextPhase, NoPhase, GeneratorFails
<1>3. Basics'
  BY <1>1, <1>2 DEF ReportInv, Basics
<1>4. PlanSound'
  <2>1. plan' \in Seq(Names)
    <3>1. plan \in Seq(Names) /\ <<>> \in Seq(Names)
      BY DEF ReportInv, PlanSound
    <3> QED
      BY <1>2, <3>1
  <2>2. stage' = "phase" => plan' # <<>>
    BY <1>2 DEF ReportInv, PlanSound
  <2> QED
    BY <1>2, <2>1, <2>2 DEF PlanSound
<1>5. SamplesSound' /\ SamplesPast' /\ PhasesSound'
  BY <1>1, <1>2 DEF ReportInv, SamplesSound, SamplesPast, PhasesSound
<1>6. CollectorInv'
  BY <1>1, <1>2, CollectorStays DEF ReportInv
<1>7. ReportMade'
  BY <1>2, NoneYet DEF ReportInv
<1> QED
  BY <1>3, <1>4, <1>5, <1>6, <1>7 DEF ReportInv

\* A whole reading.
LEMMA CollectKeeps == ReportInv /\ Collect => ReportInv'
<1> SUFFICES ASSUME ReportInv, Collect PROVE ReportInv'
  OBVIOUS
<1>1. N \in 1 .. N
  BY Constants
<1>2. stage \in {"phase", "between"} /\ stage' = stage /\ clock' = clock
  BY DEF Collect
<1>3. /\ RowsSound' /\ OneRowEach' /\ TotalsTrue' /\ StampsTrue'
      /\ ~ skipped' => Len(rows') = N * Len(readings')
  BY <1>1, <1>2, ReadingKeeps DEF ReportInv, Collect
<1>4. CollectorInv'
  BY <1>3 DEF CollectorInv, WholeReadings
<1>5. Basics'
  <2>1. skipped' \in BOOLEAN
    BY DEF ReportInv, Basics, Collect, Reading
  <2> QED
    BY <2>1 DEF ReportInv, Basics, Collect
<1>6. GeneratorInv'
  BY GeneratorStays, ReportInvParts DEF Collect
<1>7. ReportMade'
  BY <1>2, NoneYet DEF ReportInv, Collect
<1> QED
  BY <1>4, <1>5, <1>6, <1>7 DEF ReportInv, GeneratorInv

\* No reading, or the part of one that was taken when the collector was killed.
LEMMA StopCollectorKeeps == ReportInv /\ StopCollector => ReportInv'
<1> SUFFICES ASSUME ReportInv, StopCollector PROVE ReportInv'
  OBVIOUS
<1>1. stage = "done" /\ stage' = "collected" /\ clock' = clock /\ clock \in Nat /\ clock <= clock
  BY Constants DEF StopCollector, ReportInv, Basics
<1>2. CollectorInv' /\ skipped' \in BOOLEAN
  <2>1. CASE UNCHANGED <<rows, readings, skipped>>
    BY <1>1, <2>1, CollectorStays DEF ReportInv, Basics
  <2>2. ASSUME NEW upTo \in 1 .. N - 1, Reading(upTo)
        PROVE  CollectorInv' /\ skipped' \in BOOLEAN
    <3>1. upTo \in 1 .. N
      BY Constants
    <3>2. RowsSound' /\ OneRowEach' /\ TotalsTrue' /\ StampsTrue'
      BY <1>1, <2>2, <3>1, ReadingKeeps DEF ReportInv
    <3>3. WholeReadings'
      BY <1>1 DEF WholeReadings
    <3>4. skipped' \in BOOLEAN
      BY <2>2 DEF ReportInv, Basics, Reading
    <3> QED
      BY <3>2, <3>3, <3>4 DEF CollectorInv
  <2> QED
    BY <2>1, <2>2 DEF StopCollector
<1>3. Basics'
  BY <1>1, <1>2 DEF ReportInv, Basics, StopCollector
<1>4. GeneratorInv'
  BY <1>1, GeneratorStays, ReportInvParts DEF StopCollector
<1>5. ReportMade'
  BY <1>1, NoneYet DEF ReportInv, StopCollector
<1> QED
  BY <1>2, <1>3, <1>4, <1>5 DEF ReportInv, GeneratorInv

\* The report is made of the files as they are.
LEMMA LoadReportKeeps ==
    ASSUME ReportInv, LoadReport \/ NoReport
    PROVE  ReportInv'
<1>1. /\ stage = "collected" /\ stage' \in {"reported", "failed"}
      /\ UNCHANGED <<clock, plan, open, began, samples, phases, rows, readings, skipped>>
  BY DEF LoadReport, NoReport
<1>2. Basics'
  BY <1>1 DEF ReportInv, Basics
<1>3. GeneratorInv'
  BY <1>1, GeneratorStays, ReportInvParts
<1>4. CollectorInv'
  <2>1. clock \in Nat /\ clock <= clock
    BY DEF ReportInv, Basics
  <2> QED
    BY <1>1, <2>1, CollectorStays DEF ReportInv
<1>5. ReportMade'
  <2>1. CASE LoadReport
    <3>1. PICK h : h = headline /\ h = headline'
      BY <1>1, ReportStays
    <3>2. PICK a : a = aggregate(h.from, h.to) /\ a = aggregate(h.from, h.to)'
      BY <1>1, ReportStays
    <3>3. /\ stage' = "reported" /\ phases' # <<>>
          /\ report' = [phase |-> h, cpu |-> IF rows' = <<>> THEN None ELSE a]
      BY <1>1, <2>1, <3>1, <3>2 DEF LoadReport
    <3> QED
      BY <3>1, <3>2, <3>3 DEF ReportMade
  <2>2. CASE NoReport
    BY <2>2, NoneYet DEF ReportInv, NoReport
  <2> QED
    BY <2>1, <2>2
<1> QED
  BY <1>2, <1>3, <1>4, <1>5 DEF ReportInv, GeneratorInv

\* The files and the report stay.
LEMMA StutterKeeps == ReportInv /\ UNCHANGED vars => ReportInv'
<1> SUFFICES ASSUME ReportInv, UNCHANGED vars PROVE ReportInv'
  OBVIOUS
<1>1. Basics'
  BY DEF ReportInv, Basics, vars
<1>2. GeneratorInv'
  BY GeneratorStays, ReportInvParts DEF vars
<1>3. CollectorInv'
  <2>1. clock \in Nat /\ clock <= clock
    BY DEF ReportInv, Basics
  <2> QED
    BY <2>1, CollectorStays DEF ReportInv, vars
<1>4. ReportMade'
  <2>1. PICK h : h = headline /\ h = headline'
    BY ReportStays DEF vars
  <2>2. PICK a : a = aggregate(h.from, h.to) /\ a = aggregate(h.from, h.to)'
    BY ReportStays DEF vars
  <2>3. /\ phases' = phases /\ rows' = rows /\ report' = report /\ stage' = stage /\ ReportMade
    BY DEF ReportInv, vars
  <2> QED
    BY <2>1, <2>2, <2>3 DEF ReportMade
<1> QED
  BY <1>1, <1>2, <1>3, <1>4 DEF ReportInv, GeneratorInv

\* So every step keeps the invariant.
LEMMA InvStep == ReportInv /\ [Next]_vars => ReportInv'
<1> SUFFICES ASSUME ReportInv, [Next]_vars PROVE ReportInv'
  OBVIOUS
<1>1. CASE Tick
  BY <1>1, TickKeeps
<1>2. CASE Record
  BY <1>2, RecordKeeps
<1>3. CASE EndPhase
  BY <1>3, EndPhaseKeeps
<1>4. CASE NextPhase \/ NoPhase \/ GeneratorFails
  BY <1>4, StageKeeps
<1>5. CASE Collect
  BY <1>5, CollectKeeps
<1>6. CASE StopCollector
  BY <1>6, StopCollectorKeeps
<1>7. CASE LoadReport \/ NoReport
  BY <1>7, LoadReportKeeps
<1>8. CASE UNCHANGED vars
  BY <1>8, StutterKeeps
<1> QED
  BY <1>1, <1>2, <1>3, <1>4, <1>5, <1>6, <1>7, <1>8 DEF Next, Generator, Script

\* What the report's properties rest on holds in every state.
THEOREM ReportInvariant == Spec => []ReportInv
<1>1. Init => ReportInv
  BY InvInit
<1>2. ReportInv /\ [Next]_vars => ReportInv'
  BY InvStep
<1> QED
  BY <1>1, <1>2, PTL DEF Spec

-----------------------------------------------------------------------------
(* What the invariant is for.                                              *)

\* Every part of the type invariant is a part of it.
LEMMA InvTypes == ReportInv => TypeOK
<1> SUFFICES ASSUME ReportInv PROVE TypeOK
  OBVIOUS
<1>1. clock \in Nat
  BY Constants DEF ReportInv, Basics
<1>2. ASSUME NEW i \in DOMAIN samples
      PROVE  samples[i] \in [at : 0 .. clock, outcome : Outcomes,
                             latency : 0 .. Timeout, lag : Lags \cup {0}]
  <2>1. samples[i] \in SampleType /\ samples[i].at <= clock
    BY DEF ReportInv, SamplesSound, SamplesPast
  <2> QED
    BY <1>1, <2>1 DEF SampleType
<1>3. \A p \in ToSet(phases) : PhaseSound(p)
  BY DEF ReportInv, PhasesSound, ToSet
<1>4. ASSUME NEW i \in DOMAIN rows
      PROVE  rows[i] \in [at : 0 - Drift .. clock + Drift, container : 1 .. N, cpu : Loads,
                          reading : DOMAIN readings]
  <2>1. /\ rows[i] \in RowType /\ rows[i].at \in 0 - Drift .. clock + Drift
        /\ rows[i].reading \in DOMAIN readings
    BY DEF ReportInv, CollectorInv, RowsSound
  <2> QED
    BY <1>1, <2>1 DEF RowType
<1>5. ASSUME NEW k \in DOMAIN readings
      PROVE  readings[k] \in [at : 0 .. clock, total : Nat]
  <2>1. readings[k] \in ReadingType /\ readings[k].at <= clock
    BY DEF ReportInv, CollectorInv, RowsSound
  <2> QED
    BY <1>1, <2>1 DEF ReadingType
<1>6. report # None => report.phase \in ToSet(phases)
  <2> SUFFICES ASSUME report # None PROVE report.phase \in ToSet(phases)
    OBVIOUS
  <2>1. phases # <<>> /\ report.phase = headline
    BY DEF ReportInv, ReportMade
  <2> QED
    BY <2>1, HeadlineFacts DEF ReportInv
<1>7. \A s \in ToSet(samples) : s \in [at : 0 .. clock, outcome : Outcomes,
                                       latency : 0 .. Timeout, lag : Lags \cup {0}]
  BY <1>2 DEF ToSet
<1>8. \A r \in ToSet(rows) : r \in [at : 0 - Drift .. clock + Drift, container : 1 .. N, cpu : Loads,
                                    reading : DOMAIN readings]
  BY <1>4 DEF ToSet
<1>9. \A r \in ToSet(readings) : r \in [at : 0 .. clock, total : Nat]
  BY <1>5 DEF ToSet
<1>10. \A p \in ToSet(phases) : /\ p.name \in {"limiter", "compute", "health"}
                                /\ p.to \in p.from .. p.from + Duration
                                /\ {p.total, p.accepted, p.transport, p.nonOK} \subseteq Nat
  BY <1>3 DEF PhaseSound, Names
<1> QED
  BY <1>6, <1>7, <1>8, <1>9, <1>10 DEF TypeOK, ReportInv, Basics

\* The readings some rows are of, and those of them that bear a stamp.
ReadingsOf(s)  == {rows[i].reading : i \in s}
StampedAt(s, t) == {j \in s : rows[j].at = t}

\* A row's reading was taken, and its rows bear one stamp, near that.
LEMMA RowFacts ==
    ASSUME ReportInv, ~ skipped, NEW i \in DOMAIN rows
    PROVE  /\ rows[i].at \in Int /\ rows[i].cpu \in Nat /\ rows[i].reading \in DOMAIN readings
           /\ readings[rows[i].reading].at \in Nat /\ readings[rows[i].reading].total \in Nat
           /\ readings[rows[i].reading].total = GroupSum(rows, rows[i].reading)
           /\ Near(rows[i].at, readings[rows[i].reading].at)
           /\ \A j \in DOMAIN rows : rows[j].reading = rows[i].reading => rows[j].at = rows[i].at
<1>1. rows[i] \in RowType /\ rows[i].reading \in DOMAIN readings
  BY DEF ReportInv, CollectorInv, RowsSound
<1>2. readings[rows[i].reading] \in ReadingType
  BY <1>1 DEF ReportInv, CollectorInv, RowsSound
<1>3. readings[rows[i].reading].total = GroupSum(rows, rows[i].reading)
  BY <1>1 DEF ReportInv, CollectorInv, TotalsTrue
<1>4. /\ Near(rows[i].at, readings[rows[i].reading].at)
      /\ \A j \in DOMAIN rows : rows[j].reading = rows[i].reading => rows[j].at = rows[i].at
  BY DEF ReportInv, CollectorInv, StampsTrue
<1>5. rows[i].cpu \in Nat /\ rows[i].at \in Int
  BY <1>1, Constants DEF RowType
<1> QED
  BY <1>1, <1>2, <1>3, <1>4, <1>5 DEF ReadingType

\* Of rows among which are all that bear the same stamps: what those of one stamp add up to
\* are their readings' totals together.
LEMMA AtIsTotal ==
    ASSUME ReportInv, ~ skipped, NEW s \in SUBSET DOMAIN rows, IsFiniteSet(s),
           \A i \in s : \A j \in DOMAIN rows : rows[j].at = rows[i].at => j \in s,
           NEW i \in s
    PROVE  LET K == ReadingsOf(StampedAt(s, rows[i].at))
           IN  /\ At(s, rows[i].at) = SumFunction([k \in K |-> readings[k].total])
               /\ At(s, rows[i].at) \in Nat
               /\ readings[rows[i].reading].total <= At(s, rows[i].at)
<1>1. PICK t : t = rows[i].at
  OBVIOUS
<1>2. PICK D : D = StampedAt(s, t)
  OBVIOUS
<1>3. PICK K : K = ReadingsOf(D)
  OBVIOUS
<1>4. PICK f : f = [j \in D |-> rows[j].cpu]
  OBVIOUS
<1>5. PICK h : h = [j \in D |-> rows[j].reading]
  OBVIOUS
<1>6. PICK e : e = [k \in K |-> Grouped(f, D, h, k)]
  OBVIOUS
<1>7. D \in SUBSET s /\ D \in SUBSET DOMAIN rows /\ i \in D
  BY <1>1, <1>2 DEF StampedAt
<1>8. IsFiniteSet(D) /\ IsFiniteSet(K) /\ \A j \in D : h[j] \in K /\ f[j] \in Nat
  <2>1. h \in Surjection(D, K)
    BY <1>3, <1>5 DEF Surjection, ReadingsOf
  <2>2. IsFiniteSet(D)
    BY <1>7, FS_Subset
  <2>3. \A j \in D : h[j] \in K
    BY <1>3, <1>5 DEF ReadingsOf
  <2>4. \A j \in D : f[j] \in Nat
    BY <1>4, <1>7, RowFacts
  <2> QED
    BY <2>1, <2>2, <2>3, <2>4, FS_Surjection
<1>9. SumOver(f, D) = SumFunction(e) /\ \A k \in K : e[k] \in Nat
  BY <1>6, <1>8, SumByGroups
<1>10. ASSUME NEW k \in K PROVE e[k] = readings[k].total
  <2>1. PICK j \in D : k = rows[j].reading
    BY <1>3 DEF ReadingsOf
  <2>2. PICK A : A = {x \in D : h[x] = k}
    OBVIOUS
  <2>3. A = {x \in DOMAIN rows : rows[x].reading = k}
    <3>1. ASSUME NEW x \in DOMAIN rows, rows[x].reading = k PROVE x \in D
      <4>1. rows[x].at = rows[j].at
        BY <1>7, <2>1, <3>1, RowFacts
      <4>2. rows[j].at = t /\ j \in s
        BY <1>2, <2>1 DEF StampedAt
      <4>3. x \in s
        BY <4>1, <4>2
      <4> QED
        BY <1>2, <4>1, <4>2, <4>3 DEF StampedAt
    <3>2. \A x \in D : h[x] = rows[x].reading
      BY <1>5
    <3> QED
      BY <1>7, <2>2, <3>1, <3>2
  <2>4. [x \in A |-> f[x]] = [x \in A |-> rows[x].cpu]
    BY <1>4, <2>2
  <2>5. SumOver(f, A) = GroupSum(rows, k)
    BY <2>3, <2>4 DEF SumOver, GroupSum
  <2>6. readings[k].total = GroupSum(rows, k)
    BY <1>7, <2>1, RowFacts
  <2> QED
    BY <1>6, <2>2, <2>5, <2>6 DEF Grouped
<1>11. e = [k \in K |-> readings[k].total]
  BY <1>6, <1>10
<1>12. At(s, t) = SumOver(f, D)
  <2>1. [j \in D |-> f[j]] = f
    BY <1>4
  <2>2. At(s, t) = SumFunction(f)
    BY <1>2, <1>4 DEF At, CpuOf, StampedAt
  <2> QED
    BY <2>1, <2>2 DEF SumOver
<1>13. PICK k \in K : k = rows[i].reading
  BY <1>3, <1>7 DEF ReadingsOf
<1>14. SumFunction(e) = e[k] + SumOver(e, K \ {k}) /\ SumOver(e, K \ {k}) \in Nat
  <2>1. SumOver(e, K) = e[k] + SumOver(e, K \ {k})
    BY <1>8, <1>9, SumOverStep
  <2>2. SumOver(e, K) = SumFunction(e)
    <3>1. [x \in K |-> e[x]] = e
      BY <1>6
    <3> QED
      BY <3>1 DEF SumOver
  <2>3. IsFiniteSet(K \ {k}) /\ \A x \in K \ {k} : e[x] \in Nat
    BY <1>8, <1>9, FS_RemoveElement
  <2>4. SumOver(e, K \ {k}) \in Nat
    BY <2>3, SumOverIsNatural
  <2> QED
    BY <2>1, <2>2, <2>4
<1>15. At(s, t) \in Nat /\ readings[k].total <= At(s, t)
  <2>1. e[k] \in Nat /\ e[k] = readings[k].total
    BY <1>9, <1>10
  <2> QED
    BY <1>9, <1>12, <1>14, <2>1
<1>16. At(s, t) = SumFunction([x \in K |-> readings[x].total])
  BY <1>9, <1>11, <1>12
<1> QED
  BY <1>1, <1>2, <1>3, <1>13, <1>15, <1>16

\* There are no more stamps than readings.
LEMMA StampsAreFew ==
    ASSUME ReportInv, ~ skipped, NEW s \in SUBSET DOMAIN rows, IsFiniteSet(s)
    PROVE  Cardinality(Times(s)) <= Cardinality(ReadingsOf(s)) /\ IsFiniteSet(ReadingsOf(s))
<1>1. PICK h : h = [i \in s |-> rows[i].reading]
  OBVIOUS
<1>2. h \in Surjection(s, ReadingsOf(s))
  BY <1>1 DEF Surjection, ReadingsOf
<1>3. IsFiniteSet(ReadingsOf(s))
  BY <1>2, FS_Surjection
<1> DEFINE row(k) == CHOOSE i \in s : rows[i].reading = k
<1>4. PICK g : g = [k \in ReadingsOf(s) |-> rows[row(k)].at]
  OBVIOUS
<1>5. ASSUME NEW k \in ReadingsOf(s) PROVE row(k) \in s /\ rows[row(k)].reading = k
  BY DEF ReadingsOf
<1>6. ASSUME NEW i \in s PROVE rows[i].reading \in ReadingsOf(s) /\ g[rows[i].reading] = rows[i].at
  <2>1. PICK k \in ReadingsOf(s) : k = rows[i].reading
    BY DEF ReadingsOf
  <2>2. PICK j \in s : j = row(k) /\ rows[j].reading = k
    BY <1>5
  <2>3. rows[j].at = rows[i].at
    BY <2>1, <2>2, RowFacts
  <2> HIDE DEF row
  <2> QED
    BY <1>4, <2>1, <2>2, <2>3
<1>7. \A k \in ReadingsOf(s) : g[k] \in Times(s)
  BY <1>4, <1>5 DEF Times
<1> HIDE DEF row
<1>8. g \in Surjection(ReadingsOf(s), Times(s))
  <2>1. g \in [ReadingsOf(s) -> Times(s)]
    BY <1>4, <1>7
  <2>2. \A t \in Times(s) : \E k \in ReadingsOf(s) : g[k] = t
    BY <1>6 DEF Times
  <2> QED
    BY <2>1, <2>2 DEF Surjection
<1> QED
  BY <1>3, <1>8, FS_Surjection

\* What aggregate counts: the rows of a stretch of time, or all.
LEMMA Aggregated ==
    ASSUME ReportInv, NEW from \in Nat, NEW to \in Nat, rows # <<>>
    PROVE  LET cpu == aggregate(from, to)
           IN  /\ cpu.counted \in SUBSET DOMAIN rows /\ cpu.counted # {}
               /\ IsFiniteSet(cpu.counted)
               /\ cpu.windowed => \A i \in cpu.counted : rows[i].at \in from .. to
               /\ ~ cpu.windowed => cpu.counted = DOMAIN rows
               /\ \A i \in cpu.counted : \A j \in DOMAIN rows :
                     rows[j].at = rows[i].at => j \in cpu.counted
               /\ cpu.combinedPeak = CombinedPeak(cpu.counted)
               /\ cpu.polls = Cardinality(Times(cpu.counted))
               /\ \A c \in DOMAIN cpu.containers :
                     cpu.containers[c].n = Cardinality(TakenBy(cpu.counted, c))
<1>1. PICK in : in = {i \in DOMAIN rows : from <= rows[i].at /\ rows[i].at <= to}
  OBVIOUS
<1>2. PICK cpu : cpu = aggregate(from, to)
  OBVIOUS
<1>3. PICK counted : counted = IF Cardinality(in) >= 3 THEN in ELSE DOMAIN rows
  OBVIOUS
<1>4. /\ cpu.windowed = (Cardinality(in) >= 3) /\ cpu.counted = counted
      /\ cpu.combinedPeak = CombinedPeak(counted)
      /\ cpu.polls = Cardinality(Times(counted))
      /\ cpu.containers = [c \in {rows[i].container : i \in counted} |-> Container(counted, c)]
  BY <1>1, <1>2, <1>3 DEF aggregate
<1>5. \A c : Container(counted, c).n = Cardinality(TakenBy(counted, c))
  BY DEF Container, CpuOf
<1>6. rows \in Seq(RowType) /\ Len(rows) \in Nat /\ DOMAIN rows = 1 .. Len(rows)
  BY DEF ReportInv, CollectorInv, RowsSound
<1>7. IsFiniteSet(DOMAIN rows) /\ DOMAIN rows # {}
  <2>1. Len(rows) # 0
    BY <1>6
  <2>2. 1 \in DOMAIN rows
    BY <1>6, <2>1
  <2>3. IsFiniteSet(1 .. Len(rows))
    BY <1>6, FS_Interval
  <2> QED
    BY <1>6, <2>2, <2>3
<1>8. Cardinality(in) >= 3 => in # {}
  BY FS_EmptySet
<1>9. counted \in SUBSET DOMAIN rows /\ counted # {}
  BY <1>1, <1>3, <1>7, <1>8
<1>10. IsFiniteSet(counted)
  BY <1>7, <1>9, FS_Subset
<1>11. \A i \in DOMAIN rows : rows[i].at \in Int
  <2>1. \A i \in DOMAIN rows : rows[i] \in RowType
    BY <1>6
  <2> QED
    BY <2>1 DEF RowType
<1>12. Cardinality(in) >= 3 => \A i \in counted : rows[i].at \in from .. to
  BY <1>1, <1>3, <1>11
<1>13. \A i \in counted : \A j \in DOMAIN rows : rows[j].at = rows[i].at => j \in counted
  BY <1>1, <1>3
<1>14. \A c \in DOMAIN cpu.containers : cpu.containers[c].n = Cardinality(TakenBy(counted, c))
  BY <1>4, <1>5
<1>15. ~ (Cardinality(in) >= 3) => counted = DOMAIN rows
  BY <1>3
<1> QED
  BY <1>2, <1>4, <1>9, <1>10, <1>12, <1>13, <1>14, <1>15

\* The greatest sum is one of the sums.
LEMMA PeakIsReached ==
    ASSUME NEW s, IsFiniteSet(s), s # {}, \A i \in s : At(s, rows[i].at) \in Nat
    PROVE  /\ \E i \in s : CombinedPeak(s) = At(s, rows[i].at)
           /\ \A i \in s : At(s, rows[i].at) <= CombinedPeak(s)
<1>1. PICK f : f = [i \in s |-> At(s, rows[i].at)]
  OBVIOUS
<1>2. Slice(f) /\ DOMAIN f = s /\ \A i \in s : f[i] = At(s, rows[i].at)
  BY <1>1 DEF Slice
<1>3. PICK sums : sums = {At(s, t) : t \in Times(s)}
  OBVIOUS
<1>4. sums = Range(f)
  <2>1. sums = {At(s, rows[i].at) : i \in s}
    BY <1>3 DEF Times
  <2> QED
    BY <1>2, <2>1 DEF Range
<1>5. IsFiniteSet(sums) /\ sums \in SUBSET Nat
  BY <1>2, <1>4, SliceFacts
<1>6. PICK all : all = {0} \cup sums
  OBVIOUS
<1>7. IsFiniteSet(all) /\ all \in SUBSET Nat /\ all # {}
  BY <1>5, <1>6, FS_AddElement
<1>8. Max(all) \in all /\ \A v \in all : v <= Max(all)
  BY <1>7, MaxIsMax
<1>9. CombinedPeak(s) = Max(all)
  BY <1>3, <1>6 DEF CombinedPeak
<1>10. \A i \in s : At(s, rows[i].at) \in sums
  BY <1>3 DEF Times
<1>11. \A i \in s : At(s, rows[i].at) <= Max(all)
  BY <1>6, <1>8, <1>10
<1>12. \E i \in s : Max(all) = At(s, rows[i].at)
  <2>1. CASE Max(all) \in sums
    BY <1>3, <2>1 DEF Times
  <2>2. CASE Max(all) = 0
    <3>1. PICK i : i \in s
      OBVIOUS
    <3>2. At(s, rows[i].at) \in Nat /\ At(s, rows[i].at) <= 0
      BY <1>11, <2>2, <3>1
    <3> QED
      BY <2>2, <3>1, <3>2
  <2> QED
    BY <1>6, <1>8, <2>1, <2>2
<1> QED
  BY <1>9, <1>11, <1>12

\* What is counted are whole readings, so the peak is what those of one stamp add up to.
LEMMA InvFigures == ReportInv => CpuFiguresWereRead
<1> SUFFICES ASSUME ReportInv, report # None, report.cpu # None PROVE CpuFiguresWereRead
  BY DEF CpuFiguresWereRead
<1>1. PICK cpu : cpu = report.cpu
  OBVIOUS
<1>2. PICK p : p = report.phase
  OBVIOUS
<1>3. phases # <<>> /\ rows # <<>> /\ p = headline /\ cpu = aggregate(p.from, p.to)
  BY <1>1, <1>2 DEF ReportInv, ReportMade
<1>4. p.name = "limiter" => \A q \in ToSet(phases) : q.name = "limiter"
  BY <1>3, HeadlineFacts DEF ReportInv
<1>5. p.from \in Nat /\ p.to \in Nat
  <2>1. p.from \in Nat /\ p.to \in p.from .. p.from + Duration
    BY <1>3, HeadlineFacts DEF ReportInv, PhaseSound
  <2> QED
    BY <2>1, Constants
<1>6. PICK s : s = cpu.counted
  OBVIOUS
<1>7. /\ s \in SUBSET DOMAIN rows /\ s # {} /\ IsFiniteSet(s)
      /\ cpu.windowed => \A i \in s : rows[i].at \in p.from .. p.to
      /\ ~ cpu.windowed => s = DOMAIN rows
      /\ \A i \in s : \A j \in DOMAIN rows : rows[j].at = rows[i].at => j \in s
      /\ cpu.combinedPeak = CombinedPeak(s) /\ cpu.polls = Cardinality(Times(s))
      /\ \A c \in DOMAIN cpu.containers : cpu.containers[c].n = Cardinality(TakenBy(s, c))
  BY <1>3, <1>5, <1>6, Aggregated
<1>8. ASSUME ~ skipped, cpu.windowed, NEW k \in ReadingsOf(s)
      PROVE  readings[k].at \in p.from - Drift .. p.to + Drift
  <2>1. PICK i \in s : k = rows[i].reading
    BY DEF ReadingsOf
  <2>2. readings[k].at \in Nat /\ Near(rows[i].at, readings[k].at)
    BY <1>7, <1>8, <2>1, RowFacts
  <2>3. rows[i].at \in p.from .. p.to
    BY <1>7, <1>8
  <2> QED
    BY <1>5, <2>2, <2>3, Constants DEF Near
<1>9. ASSUME ~ skipped
      PROVE  /\ \E t \in Times(s) :
                  cpu.combinedPeak = SumFunction([k \in ReadingsOf(StampedAt(s, t)) |-> readings[k].total])
             /\ \A k \in ReadingsOf(s) : readings[k].total <= cpu.combinedPeak
  <2>1. ASSUME NEW i \in s
        PROVE  /\ At(s, rows[i].at) =
                    SumFunction([k \in ReadingsOf(StampedAt(s, rows[i].at)) |-> readings[k].total])
               /\ At(s, rows[i].at) \in Nat
               /\ readings[rows[i].reading].total <= At(s, rows[i].at)
    BY <1>7, <1>9, AtIsTotal
  <2>2. /\ \E i \in s : CombinedPeak(s) = At(s, rows[i].at)
        /\ \A i \in s : At(s, rows[i].at) <= CombinedPeak(s)
    BY <1>7, <2>1, PeakIsReached
  <2>3. PICK i \in s : CombinedPeak(s) = At(s, rows[i].at)
    BY <2>2
  <2>4. rows[i].at \in Times(s)
    BY DEF Times
  <2>5. ASSUME NEW k \in ReadingsOf(s) PROVE readings[k].total <= cpu.combinedPeak
    <3>1. PICK j \in s : k = rows[j].reading
      BY DEF ReadingsOf
    <3>2. PICK a \in Nat : a = At(s, rows[j].at) /\ readings[k].total <= a
      BY <2>1, <3>1
    <3>3. PICK b \in Nat : b = CombinedPeak(s) /\ b = At(s, rows[i].at)
      BY <2>1, <2>3
    <3>4. a <= b
      BY <2>2, <3>2, <3>3
    <3>5. readings[k].total \in Nat
      BY <1>7, <1>9, <3>1, RowFacts
    <3> QED
      BY <1>7, <3>2, <3>3, <3>4, <3>5
  <2> QED
    BY <1>7, <2>1, <2>3, <2>4, <2>5
<1>10. ASSUME ~ skipped, NEW t \in Times(s),
              NEW k \in ReadingsOf(StampedAt(s, t)), NEW l \in ReadingsOf(StampedAt(s, t))
       PROVE  readings[k].at - readings[l].at <= 2 * Drift
  <2>1. PICK i \in s : rows[i].at = t /\ k = rows[i].reading
    BY DEF ReadingsOf, StampedAt
  <2>2. PICK j \in s : rows[j].at = t /\ l = rows[j].reading
    BY DEF ReadingsOf, StampedAt
  <2>3. readings[k].at \in Nat /\ Near(t, readings[k].at) /\ t \in Int
    BY <1>7, <1>10, <2>1, RowFacts
  <2>4. readings[l].at \in Nat /\ Near(t, readings[l].at)
    BY <1>7, <1>10, <2>2, RowFacts
  <2>5. PICK x \in Nat : x = readings[k].at
    BY <2>3
  <2>6. PICK y \in Nat : y = readings[l].at
    BY <2>4
  <2>7. t <= y + Drift /\ x - Drift <= t /\ t \in Int /\ Drift \in Nat
    BY <2>3, <2>4, <2>5, <2>6, Constants DEF Near
  <2>8. x - y <= 2 * Drift
    BY <2>7
  <2> QED
    BY <2>5, <2>6, <2>8
<1>11. ASSUME ~ skipped, NEW c \in DOMAIN cpu.containers
       PROVE  cpu.containers[c].n <= Cardinality(ReadingsOf(s))
  <2>1. PICK f : f = [i \in TakenBy(s, c) |-> rows[i].reading]
    OBVIOUS
  <2>2. f \in [TakenBy(s, c) -> ReadingsOf(s)]
    BY <2>1 DEF TakenBy, ReadingsOf
  <2>3. \A i, j \in TakenBy(s, c) : f[i] = f[j] => i = j
    <3> SUFFICES ASSUME NEW i \in TakenBy(s, c), NEW j \in TakenBy(s, c), f[i] = f[j] PROVE i = j
      OBVIOUS
    <3>1. /\ i \in DOMAIN rows /\ j \in DOMAIN rows /\ rows[i].reading = rows[j].reading
          /\ rows[i].container = rows[j].container
      BY <1>7, <2>1 DEF TakenBy
    <3> QED
      BY <3>1 DEF ReportInv, CollectorInv, OneRowEach
  <2>4. IsFiniteSet(ReadingsOf(s))
    BY <1>7, <1>11, StampsAreFew
  <2>5. f \in Injection(TakenBy(s, c), ReadingsOf(s))
    BY <2>2, <2>3 DEF Injection, IsInjective
  <2>6. Cardinality(TakenBy(s, c)) <= Cardinality(ReadingsOf(s))
    BY <2>4, <2>5, FS_Injection
  <2> QED
    BY <1>7, <1>11, <2>6
<1>12. ~ skipped => cpu.polls <= Cardinality(ReadingsOf(s))
  BY <1>7, StampsAreFew
<1>13. /\ ReadingsOf(s) = {rows[i].reading : i \in report.cpu.counted}
       /\ \A t : ReadingsOf(StampedAt(s, t)) =
                   {rows[i].reading : i \in {j \in report.cpu.counted : rows[j].at = t}}
  BY <1>1, <1>6 DEF ReadingsOf, StampedAt
<1> HIDE DEF ReportInv
<1> QED
  BY <1>1, <1>2, <1>4, <1>6, <1>7, <1>8, <1>9, <1>10, <1>11, <1>12, <1>13, Zenon
  DEF CpuFiguresWereRead

\* What every variable of a run and its report may hold; so no phase's window is longer
\* than was asked for, and no figure of a phase is negative.
THEOREM ReportWellTyped == Spec => []TypeOK
BY ReportInvariant, InvTypes, PTL

\* A phase's figures add up.
THEOREM FiguresAgree == Spec => []SummaryAddsUp
<1>1. ReportInv => SummaryAddsUp
  BY FiguresAddUp DEF ReportInv
<1> QED
  BY <1>1, ReportInvariant, PTL

\* Neither waiting nor time-outs make a percentile better.
THEOREM NothingIsFlattered == Spec => []NothingFlatters
<1>1. ReportInv => NothingFlatters
  BY NoneFlatters DEF ReportInv
<1> QED
  BY <1>1, ReportInvariant, PTL

\* The saturation in a report was read, and when the report says, up to the drift between
\* the two clocks.
THEOREM SaturationWasRead == Spec => []CpuFiguresWereRead
BY ReportInvariant, InvFigures, PTL
===============================================================================
