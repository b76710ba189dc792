---- MODULE InductionProofs ----
(****************************************************************************)
(* Facts that need induction over data. The library's induction rules take  *)
(* an operator, so each proof looks at a least counterexample instead.      *)
(*                                                                          *)
(* Sums over finite sets are those MapThenSumSet of FiniteSetsExt computes: *)
(* a recursive function on the subsets, which takes the elements in the     *)
(* order in which CHOOSE finds them. The order does not matter.             *)
(****************************************************************************)
EXTENDS Integers, FiniteSets, FiniteSetTheorems, WellFoundedInduction, TLAPS

\* A set of natural numbers has a least one.
LEMMA LeastNatural ==
    ASSUME NEW S, S \subseteq Nat, S # {}
    PROVE  \E n \in S : \A m \in S : n <= m
<1> DEFINE less == OpToRel(<, Nat)
<1>1. IsWellFoundedOn(less, Nat)
      BY NatLessThanWellFounded
<1>2. PICK n \in S : \A m \in S : <<m, n>> \notin less
      BY ONLY <1>1, WFMin, S \subseteq Nat, S # {}
<1>3. ASSUME NEW m \in S PROVE n <= m
  <2>1. n \in Nat /\ m \in Nat
        OBVIOUS
  <2>2. ~(m < n)
        BY <1>2, <2>1 DEF OpToRel
  <2>3. QED  BY <2>1, <2>2
<1>4. QED  BY <1>3

----
\* Sums.

First(s) == CHOOSE x \in s : TRUE

\* g adds v up over the subsets of S.
IsSum(g, v, S) ==
    g = [s \in SUBSET S |->
            IF s = {} THEN 0 ELSE v[First(s)] + g[s \ {First(s)}]]

\* The same, for a finite set of numbers.
IsIntSum(g, v, S) ==
    /\ IsFiniteSet(S)
    /\ \A x \in S : v[x] \in Int
    /\ g \in [SUBSET S -> Int]
    /\ IsSum(g, v, S)

\* The subsets of at most n elements.
UpTo(S, n) == {s \in SUBSET S : Cardinality(s) <= n}
IsPartialSum(g, v, S, n) ==
    /\ g \in [UpTo(S, n) -> Int]
    /\ \A s \in UpTo(S, n) :
          g[s] = IF s = {} THEN 0 ELSE v[First(s)] + g[s \ {First(s)}]

----
LEMMA FirstIsElement ==
    ASSUME NEW s, s # {}
    PROVE  First(s) \in s
    BY DEF First

\* A subset without one of its elements is smaller.
LEMMA Smaller ==
    ASSUME NEW S, IsFiniteSet(S), NEW s \in SUBSET S, NEW x \in s
    PROVE  /\ s \ {x} \in SUBSET S
           /\ Cardinality(s) \in Nat /\ Cardinality(s \ {x}) \in Nat
           /\ Cardinality(s \ {x}) = Cardinality(s) - 1
<1>1. IsFiniteSet(s)
      BY FS_Subset
<1>2. /\ IsFiniteSet(s \ {x})
      /\ Cardinality(s \ {x}) = Cardinality(s) - 1
      BY <1>1, FS_RemoveElement
<1>3. QED  BY <1>1, <1>2, FS_CardinalityType

\* The value a sum has on a subset.
LEMMA SumAt ==
    ASSUME NEW g, NEW v, NEW S, IsSum(g, v, S), NEW s \in SUBSET S
    PROVE  g[s] = IF s = {} THEN 0 ELSE v[First(s)] + g[s \ {First(s)}]
    BY DEF IsSum

----
\* There is a sum. First on the subsets of at most n elements, for every n.
LEMMA PartialSums ==
    ASSUME NEW S, IsFiniteSet(S), NEW v, \A x \in S : v[x] \in Int,
           NEW n \in Nat
    PROVE  \E g : IsPartialSum(g, v, S, n)
<1> DEFINE upTo(k) == UpTo(S, k)
           sum(g, k) == \A s \in upTo(k) :
                            g[s] = IF s = {} THEN 0
                                   ELSE v[First(s)] + g[s \ {First(s)}]
           has(k) == \E g \in [upTo(k) -> Int] : sum(g, k)
           bad == {k \in Nat : ~has(k)}
<1> USE DEF UpTo
<1>0. ASSUME NEW s \in SUBSET S, s # {}
      PROVE  /\ First(s) \in s /\ s \ {First(s)} \in SUBSET S
             /\ Cardinality(s) \in Nat /\ Cardinality(s \ {First(s)}) \in Nat
             /\ Cardinality(s \ {First(s)}) = Cardinality(s) - 1
             /\ v[First(s)] \in Int
      BY <1>0, FirstIsElement, Smaller
<1>1. has(0)
  <2> DEFINE g0 == [s \in upTo(0) |-> 0]
  <2>1. \A s \in upTo(0) : s = {}
    <3> SUFFICES ASSUME NEW s \in upTo(0), s # {} PROVE FALSE
        OBVIOUS
    <3>1. /\ Cardinality(s) \in Nat /\ Cardinality(s \ {First(s)}) \in Nat
          /\ Cardinality(s \ {First(s)}) = Cardinality(s) - 1
          BY <1>0
    <3>2. Cardinality(s) <= 0
          OBVIOUS
    <3>3. QED  BY ONLY <3>1, <3>2
  <2>2. g0 \in [upTo(0) -> Int] /\ sum(g0, 0)
        BY <2>1
  <2>3. QED  BY <2>2
<1>2. ASSUME NEW k \in Nat, has(k) PROVE has(k + 1)
  <2>1. PICK g \in [upTo(k) -> Int] : sum(g, k)
        BY <1>2
  <2> DEFINE h == [s \in upTo(k + 1) |->
                      IF s \in upTo(k) THEN g[s]
                      ELSE v[First(s)] + g[s \ {First(s)}]]
  <2>2. ASSUME NEW s \in upTo(k + 1), s # {}
        PROVE  s \ {First(s)} \in upTo(k)
    <3>1. /\ s \ {First(s)} \in SUBSET S
          /\ Cardinality(s) \in Nat /\ Cardinality(s \ {First(s)}) \in Nat
          /\ Cardinality(s \ {First(s)}) = Cardinality(s) - 1
          BY <1>0, <2>2
    <3>2. Cardinality(s) <= k + 1
          OBVIOUS
    <3>3. Cardinality(s \ {First(s)}) <= k
          BY ONLY <3>1, <3>2, k \in Nat
    <3>4. QED  BY <3>1, <3>3
  <2>3. {} \in upTo(k)
        BY FS_EmptySet
  <2>4. upTo(k) \subseteq upTo(k + 1)
    <3> SUFFICES ASSUME NEW s \in upTo(k) PROVE Cardinality(s) <= k + 1
        OBVIOUS
    <3>1. Cardinality(s) \in Nat
          BY FS_Subset, FS_CardinalityType
    <3>2. Cardinality(s) <= k
          OBVIOUS
    <3>3. QED  BY ONLY <3>1, <3>2, k \in Nat
  <2> HIDE DEF UpTo
  <2>5. \A s \in upTo(k + 1) : s # {} => v[First(s)] \in Int
        BY <1>0 DEF UpTo
  <2>6. h \in [upTo(k + 1) -> Int]
    <3>1. ASSUME NEW s \in upTo(k + 1), s \notin upTo(k)
          PROVE  v[First(s)] + g[s \ {First(s)}] \in Int
      <4>1. s # {}
            BY <2>3, <3>1
      <4>2. v[First(s)] \in Int /\ g[s \ {First(s)}] \in Int
            BY <2>2, <2>5, <4>1
      <4>3. QED  BY ONLY <4>2
    <3>2. \A s \in upTo(k) : g[s] \in Int
          OBVIOUS
    <3>3. QED  BY <3>1, <3>2
  <2>7. sum(h, k + 1)
    <3> SUFFICES ASSUME NEW s \in upTo(k + 1)
                 PROVE  h[s] = IF s = {} THEN 0
                               ELSE v[First(s)] + h[s \ {First(s)}]
        OBVIOUS
    <3>1. CASE s = {}
          BY <2>1, <2>3, <2>4, <3>1
    <3>2. CASE s # {}
      <4>1. s \ {First(s)} \in upTo(k) /\ s \ {First(s)} \in upTo(k + 1)
            BY <2>2, <2>4, <3>2
      <4>2. h[s \ {First(s)}] = g[s \ {First(s)}]
            BY <4>1
      <4>3. h[s] = v[First(s)] + g[s \ {First(s)}]
            BY <2>1, <3>2
      <4>4. QED  BY <3>2, <4>2, <4>3
    <3>3. QED  BY <3>1, <3>2
  <2>8. QED  BY <2>6, <2>7
<1> HIDE DEF has, UpTo
<1>3. bad = {}
  <2> SUFFICES ASSUME bad # {} PROVE FALSE
      OBVIOUS
  <2>1. PICK m \in bad : \A k \in bad : m <= k
        BY LeastNatural
  <2>2. m \in Nat /\ m # 0 /\ ~has(m)
        BY <1>1
  <2>3. m - 1 \in Nat /\ m - 1 \notin bad
        BY <2>1, <2>2
  <2>4. has((m - 1) + 1)
        BY <1>2, <2>3
  <2>5. (m - 1) + 1 = m
        BY <2>2
  <2>6. QED  BY <2>2, <2>4, <2>5
<1>4. has(n)
      BY <1>3
<1>5. QED  BY <1>4 DEF has, IsPartialSum

LEMMA SumExists ==
    ASSUME NEW S, IsFiniteSet(S), NEW v, \A x \in S : v[x] \in Int
    PROVE  \E g : IsIntSum(g, v, S)
<1>1. PICK n \in Nat : n = Cardinality(S)
      BY FS_CardinalityType
<1>2. \A s \in SUBSET S : Cardinality(s) <= n
      BY <1>1, FS_Subset
<1>3. PICK g : IsPartialSum(g, v, S, n)
      BY PartialSums
<1>4. /\ g \in [SUBSET S -> Int]
      /\ \A s \in SUBSET S :
            g[s] = IF s = {} THEN 0 ELSE v[First(s)] + g[s \ {First(s)}]
  <2>1. UpTo(S, n) = SUBSET S
        BY <1>2 DEF UpTo
  <2>2. QED  BY <1>3, <2>1 DEF IsPartialSum
<1>5. g = [s \in SUBSET S |->
             IF s = {} THEN 0 ELSE v[First(s)] + g[s \ {First(s)}]]
      BY <1>4
<1>6. QED  BY <1>4, <1>5 DEF IsIntSum, IsSum

----
\* A sum is determined by the values of its elements.
LEMMA SumsAgree ==
    ASSUME NEW S, NEW T, NEW R, IsFiniteSet(R), R \subseteq S, R \subseteq T,
           NEW v, NEW u, \A x \in R : v[x] = u[x],
           NEW g, IsSum(g, v, S), NEW h, IsSum(h, u, T)
    PROVE  g[R] = h[R]
<1> DEFINE differ(r) == g[r] # h[r]
           bad == {n \in Nat : \E r \in SUBSET R :
                                  Cardinality(r) = n /\ differ(r)}
<1>1. bad = {}
  <2> SUFFICES ASSUME bad # {} PROVE FALSE
      OBVIOUS
  <2>1. PICK n \in bad : \A m \in bad : n <= m
        BY LeastNatural
  <2>2. PICK r \in SUBSET R : Cardinality(r) = n /\ differ(r)
        OBVIOUS
  <2>3. r \in SUBSET S /\ r \in SUBSET T
        BY <2>2
  <2>4. /\ g[r] = IF r = {} THEN 0 ELSE v[First(r)] + g[r \ {First(r)}]
        /\ h[r] = IF r = {} THEN 0 ELSE u[First(r)] + h[r \ {First(r)}]
    <3>1. g[r] = IF r = {} THEN 0 ELSE v[First(r)] + g[r \ {First(r)}]
          BY <2>3, IsSum(g, v, S), SumAt
    <3>2. h[r] = IF r = {} THEN 0 ELSE u[First(r)] + h[r \ {First(r)}]
          BY <2>3, IsSum(h, u, T), SumAt
    <3>3. QED  BY <3>1, <3>2
  <2>5. r # {}
        BY <2>2, <2>4
  <2>6. First(r) \in r /\ v[First(r)] = u[First(r)]
        BY <2>5, FirstIsElement
  <2>7. /\ r \ {First(r)} \in SUBSET R
        /\ Cardinality(r \ {First(r)}) \in Nat
        /\ Cardinality(r \ {First(r)}) = n - 1
        BY <2>2, <2>6, Smaller
  <2>8. n - 1 \notin bad
        BY <2>1
  <2>9. ~differ(r \ {First(r)})
        BY <2>7, <2>8
  <2>10. QED  BY <2>2, <2>4, <2>5, <2>6, <2>9
<1>2. Cardinality(R) \in Nat
      BY FS_CardinalityType
<1>3. QED  BY <1>1, <1>2

\* Any element may be added last.
LEMMA SumWithout ==
    ASSUME NEW S, NEW v, NEW g, IsIntSum(g, v, S),
           NEW R, R \subseteq S, NEW e \in R
    PROVE  g[R] = g[R \ {e}] + v[e]
<1> USE DEF IsIntSum
<1> DEFINE off(r, x) == g[r] # g[r \ {x}] + v[x]
           bad == {n \in Nat : \E r \in SUBSET S : \E x \in r :
                                  Cardinality(r) = n /\ off(r, x)}
<1>1. bad = {}
  <2> SUFFICES ASSUME bad # {} PROVE FALSE
      OBVIOUS
  <2>1. PICK n \in bad : \A m \in bad : n <= m
        BY LeastNatural
  <2>2. PICK r \in SUBSET S :
               \E x \in r : Cardinality(r) = n /\ off(r, x)
        OBVIOUS
  <2>0. PICK x \in r : Cardinality(r) = n /\ off(r, x)
        BY <2>2
  <2>3. PICK y \in r : y = First(r)
        BY FirstIsElement
  <2>4. g[r] = v[y] + g[r \ {y}]
        BY <2>3, SumAt
  <2>5. x # y
    <3>1. v[y] \in Int /\ g[r \ {y}] \in Int
          OBVIOUS
    <3>2. g[r \ {y}] + v[y] = v[y] + g[r \ {y}]
          BY ONLY <3>1
    <3>3. QED  BY <2>0, <2>4, <3>2
  <2>6. /\ r \ {x} \in SUBSET S /\ r \ {y} \in SUBSET S
        /\ Cardinality(r \ {x}) \in Nat /\ Cardinality(r \ {y}) \in Nat
        /\ Cardinality(r \ {x}) = n - 1 /\ Cardinality(r \ {y}) = n - 1
        BY <2>0, Smaller
  <2>7. n - 1 \notin bad
    <3> SUFFICES ASSUME n - 1 \in bad PROVE FALSE
        OBVIOUS
    <3>1. n <= n - 1
          BY <2>1
    <3>2. n \in Nat
          BY <2>1
    <3>3. QED  BY ONLY <3>1, <3>2
  <2>8. ~off(r \ {x}, y) /\ ~off(r \ {y}, x)
        BY <2>5, <2>6, <2>7
  <2>9. (r \ {x}) \ {y} = (r \ {y}) \ {x}
        OBVIOUS
  <2>10. /\ v[x] \in Int /\ v[y] \in Int
         /\ g[r \ {x}] \in Int /\ g[r \ {y}] \in Int
         /\ g[(r \ {x}) \ {y}] \in Int
         BY <2>6
  <2>11. g[r] = g[r \ {x}] + v[x]
    <3>1. /\ g[r \ {x}] = g[(r \ {y}) \ {x}] + v[y]
          /\ g[r \ {y}] = g[(r \ {y}) \ {x}] + v[x]
          BY <2>8, <2>9
    <3>2. /\ v[x] \in Int /\ v[y] \in Int
          /\ g[(r \ {y}) \ {x}] \in Int
          BY <2>9, <2>10
    <3> DEFINE a == g[(r \ {y}) \ {x}]
               b == g[r \ {x}]
               c == g[r \ {y}]
    <3>3. /\ b = a + v[y] /\ c = a + v[x]
          /\ g[r] = v[y] + c
          BY <2>4, <3>1
    <3> HIDE DEF a, b, c
    <3>4. a \in Int
          BY <3>2 DEF a
    <3>5. g[r] = b + v[x]
          BY ONLY <3>2, <3>3, <3>4
    <3>6. QED  BY <3>5 DEF b
  <2>12. QED  BY <2>0, <2>11
<1>2. R \in SUBSET S /\ Cardinality(R) \in Nat
      BY FS_Subset, FS_CardinalityType
<1>3. ~off(R, e)
      BY <1>1, <1>2
<1>4. QED  BY <1>3

\* A new element adds its value, and the others need only keep theirs.
LEMMA SumInsert ==
    ASSUME NEW C, NEW u, NEW g, IsIntSum(g, u, C),
           NEW e, e \notin C, NEW v, v[e] \in Int, \A x \in C : v[x] = u[x],
           NEW h, IsSum(h, v, C \cup {e})
    PROVE  h[C \cup {e}] = g[C] + v[e]
<1> DEFINE D == C \cup {e}
<1>1. IsFiniteSet(C) /\ IsFiniteSet(D) /\ \A x \in D : v[x] \in Int
      BY FS_AddElement DEF IsIntSum
<1>2. PICK k : IsIntSum(k, v, D)
      BY <1>1, SumExists
<1>3. IsSum(k, v, D) /\ IsSum(g, u, C)
      BY <1>2 DEF IsIntSum
<1>4. h[D] = k[D]
      BY <1>1, <1>3, SumsAgree
<1>5. k[D] = k[D \ {e}] + v[e]
      BY <1>2, SumWithout
<1>6. D \ {e} = C /\ C \subseteq D
      OBVIOUS
<1>7. k[C] = g[C]
      BY <1>1, <1>3, <1>6, SumsAgree
<1>8. QED  BY <1>4, <1>5, <1>6, <1>7
====
