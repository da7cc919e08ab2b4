----------------------------- MODULE SumProofs -----------------------------
(***************************************************************************)
(* What a sum of the community modules is (SumFunctionOnSet): byte counts  *)
(* of queues and inboxes are such sums.  It is defined by recursion over   *)
(* the subsets of a finite set; the lemmas reason by the least number of   *)
(* elements for which a claim would fail.                                  *)
(***************************************************************************)
EXTENDS Functions, FiniteSetTheorems, WellFoundedInduction, TLAPS

\* Every non-empty set of natural numbers has a least element.
LEMMA LeastNumber ==
    ASSUME NEW T \in SUBSET Nat, T # {}
    PROVE  \E n \in T : \A m \in T : n <= m
<1> DEFINE R == {p \in Nat \X Nat : p[1] < p[2]}
<1>1. IsWellFoundedOn(R, Nat)
  BY NatLessThanWellFounded DEF OpToRel
<1>2. PICK n \in T : \A m \in T : ~(<<m, n>> \in R)
  BY <1>1, WFMin
<1>3. \A m \in T : m < n => <<m, n>> \in R
  OBVIOUS
<1> HIDE DEF R
<1>4. \A m \in T : ~(m < n)
  BY <1>2, <1>3
<1> QED
  BY <1>4

\* The element the sum takes out of a set first.
Pick(s) == CHOOSE x \in s : TRUE

\* Sums are what their definition makes of smaller sums, on a family of sets.
Sums(g, f, F) ==
    g = [s \in F |-> IF s = {} THEN 0 ELSE f[Pick(s)] + g[s \ {Pick(s)}]]

\* The sum over S is taken from some family of sums over all its subsets.
LEMMA SumIsChosen ==
    ASSUME NEW f, NEW S
    PROVE  SumFunctionOnSet(f, S) = (CHOOSE g : Sums(g, f, SUBSET S))[S]
BY DEF SumFunctionOnSet, FoldFunctionOnSet, MapThenFoldSet, Sums, Pick

\* A set without its pick has one element less.
LEMMA PickFacts ==
    ASSUME NEW s, IsFiniteSet(s), s # {}
    PROVE  /\ Pick(s) \in s
           /\ s \ {Pick(s)} \in SUBSET s
           /\ IsFiniteSet(s \ {Pick(s)})
           /\ Cardinality(s \ {Pick(s)}) = Cardinality(s) - 1
           /\ Cardinality(s) \in Nat /\ Cardinality(s) > 0
<1>1. Pick(s) \in s
  BY DEF Pick
<1>2. Cardinality(s) \in Nat /\ Cardinality(s) # 0
  BY FS_CardinalityType, FS_EmptySet
<1>3. IsFiniteSet(s \ {Pick(s)}) /\ Cardinality(s \ {Pick(s)}) = Cardinality(s) - 1
  BY <1>1, FS_RemoveElement
<1> QED
  BY <1>1, <1>2, <1>3

\* The same for a subset of n elements, as the inductions below use it.
LEMMA PickRest ==
    ASSUME NEW S, NEW s \in SUBSET S, IsFiniteSet(s), s # {}, NEW n, n = Cardinality(s)
    PROVE  \E c \in s, r \in SUBSET S : /\ c = Pick(s) /\ r = s \ {c}
                                        /\ Cardinality(r) = n - 1 /\ n > 0
<1>1. Pick(s) \in s /\ s \ {Pick(s)} \in SUBSET S
  BY PickFacts
<1>2. Cardinality(s \ {Pick(s)}) = n - 1 /\ n > 0
  BY PickFacts
<1> QED
  BY <1>1, <1>2

\* The subsets of S with at most n elements.
Small(S, n) == {s \in SUBSET S : Cardinality(s) <= n}

\* Sums over the subsets of a finite set exist.
LEMMA SumsExist ==
    ASSUME NEW S, IsFiniteSet(S), NEW f
    PROVE  \E g : Sums(g, f, SUBSET S)
<1> DEFINE T == {n \in Nat : ~ \E g : Sums(g, f, Small(S, n))}
<1>1. ASSUME T # {}
      PROVE  FALSE
  <2>1. PICK n \in T : \A m \in T : n <= m
    BY <1>1, LeastNumber
  <2>2. n \in Nat
    BY <2>1
  <2>3. \A s \in SUBSET S : IsFiniteSet(s) /\ Cardinality(s) \in Nat
    BY FS_Subset, FS_CardinalityType
  <2>4. CASE n = 0
    <3>1. \A s \in Small(S, 0) : s = {}
      BY <2>3, FS_EmptySet DEF Small
    <3>2. Sums([s \in Small(S, 0) |-> 0], f, Small(S, 0))
      BY <3>1 DEF Sums
    <3> QED
      BY <2>1, <2>4, <3>2
  <2>5. CASE n > 0
    <3>1. PICK m \in Nat : n = m + 1
      BY <2>2, <2>5
    <3>2. PICK g : Sums(g, f, Small(S, m))
      BY <2>1, <3>1
    <3> DEFINE h == [s \in Small(S, n) |->
                        IF s = {} THEN 0 ELSE f[Pick(s)] + g[s \ {Pick(s)}]]
    <3>3. \A s \in Small(S, m) : s \in Small(S, n)
      BY <2>3, <3>1 DEF Small
    <3>4. ASSUME NEW s \in Small(S, m)
          PROVE  h[s] = g[s]
      <4>1. h[s] = IF s = {} THEN 0 ELSE f[Pick(s)] + g[s \ {Pick(s)}]
        BY <3>3
      <4>2. g[s] = IF s = {} THEN 0 ELSE f[Pick(s)] + g[s \ {Pick(s)}]
        BY <3>2 DEF Sums
      <4> QED
        BY <4>1, <4>2
    <3>5. ASSUME NEW s \in Small(S, n), s # {}
          PROVE  s \ {Pick(s)} \in Small(S, m)
      BY <2>3, <3>1, <3>5, PickFacts DEF Small
    <3>6. \A s \in Small(S, n) : s # {} => h[s \ {Pick(s)}] = g[s \ {Pick(s)}]
      BY <3>4, <3>5
    <3> HIDE DEF h
    <3>7. h = [s \in Small(S, n) |-> IF s = {} THEN 0 ELSE f[Pick(s)] + h[s \ {Pick(s)}]]
      BY <3>6 DEF h
    <3> QED
      BY <2>1, <3>7 DEF Sums
  <2> QED
    BY <2>2, <2>4, <2>5
<1>2. PICK n \in Nat : n = Cardinality(S)
  BY FS_CardinalityType
<1>3. Small(S, n) = SUBSET S
  BY <1>2, FS_Subset, FS_CardinalityType DEF Small
<1>4. n \notin T
  BY <1>1
<1>5. \E g : Sums(g, f, Small(S, n))
  BY <1>2, <1>4
<1> QED
  BY <1>3, <1>5

\* Two functions that agree on a set have the same sums over its subsets,
\* whichever families of sets the sums were defined for.
LEMMA SumsAgree ==
    ASSUME NEW S, IsFiniteSet(S), NEW f, NEW h, \A x \in S : f[x] = h[x],
           NEW F, SUBSET S \subseteq F, NEW G, SUBSET S \subseteq G,
           NEW g, Sums(g, f, F), NEW k, Sums(k, h, G)
    PROVE  g[S] = k[S]
<1> DEFINE T == {n \in Nat : \E s \in SUBSET S : Cardinality(s) = n /\ g[s] # k[s]}
<1>1. T \in SUBSET Nat
  OBVIOUS
<1>2. \A n \in T : n \in Nat /\ \E s \in SUBSET S : Cardinality(s) = n /\ g[s] # k[s]
  OBVIOUS
<1>3. \A s \in SUBSET S : \A n \in Nat : Cardinality(s) = n /\ n \notin T => g[s] = k[s]
  OBVIOUS
<1> HIDE DEF T
<1>4. ASSUME T # {}
      PROVE  FALSE
  <2>1. PICK n \in T : \A m \in T : n <= m
    BY <1>1, <1>4, LeastNumber
  <2>2. PICK s \in SUBSET S : Cardinality(s) = n /\ g[s] # k[s]
    BY <1>2, <2>1
  <2>3. IsFiniteSet(s) /\ n \in Nat
    BY <1>2, <2>1, FS_Subset
  <2>4. s \in F /\ s \in G
    OBVIOUS
  <2>5. g[s] = (IF s = {} THEN 0 ELSE f[Pick(s)] + g[s \ {Pick(s)}])
    BY <2>4 DEF Sums
  <2>6. k[s] = (IF s = {} THEN 0 ELSE h[Pick(s)] + k[s \ {Pick(s)}])
    BY <2>4 DEF Sums
  <2>7. s # {}
    BY <2>2, <2>5, <2>6
  <2>8. PICK c \in s, r \in SUBSET S : /\ c = Pick(s) /\ r = s \ {c}
                                       /\ Cardinality(r) = n - 1 /\ n > 0
    <3>1. n = Cardinality(s)
      BY <2>2
    <3> QED
      BY <2>3, <2>7, <3>1, PickRest, SMTT(30)
  <2>9. n - 1 \notin T /\ n - 1 \in Nat
    BY <2>1, <2>3, <2>8
  <2>10. g[r] = k[r]
    BY <1>3, <2>8, <2>9
  <2>11. f[c] = h[c]
    OBVIOUS
  <2> QED
    BY <2>2, <2>5, <2>6, <2>7, <2>8, <2>10, <2>11
<1>5. PICK n \in Nat : n = Cardinality(S)
  BY FS_CardinalityType
<1> QED
  BY <1>3, <1>4, <1>5

\* The sums a sum is taken from.
LEMMA SumIsOne ==
    ASSUME NEW S, IsFiniteSet(S), NEW f
    PROVE  \E g : Sums(g, f, SUBSET S) /\ SumFunctionOnSet(f, S) = g[S]
<1> DEFINE g == CHOOSE g : Sums(g, f, SUBSET S)
<1>1. Sums(g, f, SUBSET S)
  BY SumsExist
<1>2. SumFunctionOnSet(f, S) = g[S]
  BY SumIsChosen
<1> QED
  BY <1>1, <1>2

\* A sum depends on the function only where it is summed.
LEMMA SumSame ==
    ASSUME NEW S, IsFiniteSet(S), NEW f, NEW h, \A x \in S : f[x] = h[x]
    PROVE  SumFunctionOnSet(f, S) = SumFunctionOnSet(h, S)
<1>1. PICK F : F = SUBSET S
  OBVIOUS
<1>2. PICK g : Sums(g, f, F) /\ SumFunctionOnSet(f, S) = g[S]
  BY <1>1, SumIsOne
<1>3. PICK k : Sums(k, h, F) /\ SumFunctionOnSet(h, S) = k[S]
  BY <1>1, SumIsOne
<1>4. g[S] = k[S]
  BY <1>1, <1>2, <1>3, SumsAgree
<1> QED
  BY <1>2, <1>3, <1>4

\* The sum over nothing.
LEMMA SumEmpty ==
    ASSUME NEW f
    PROVE  SumFunctionOnSet(f, {}) = 0
<1>1. PICK g : Sums(g, f, SUBSET {}) /\ SumFunctionOnSet(f, {}) = g[{}]
  BY SumIsOne, FS_EmptySet
<1> QED
  BY <1>1 DEF Sums

\* The pick of a set can be split off.
LEMMA SumPick ==
    ASSUME NEW S, IsFiniteSet(S), S # {}, NEW f
    PROVE  SumFunctionOnSet(f, S) = f[Pick(S)] + SumFunctionOnSet(f, S \ {Pick(S)})
<1>1. PICK F : F = SUBSET S
  OBVIOUS
<1>2. PICK g : Sums(g, f, F) /\ SumFunctionOnSet(f, S) = g[S]
  BY <1>1, SumIsOne
<1>3. PICK r \in SUBSET S : r = S \ {Pick(S)} /\ IsFiniteSet(r)
  BY PickFacts
<1>4. PICK G : G = SUBSET r
  OBVIOUS
<1>5. PICK k : Sums(k, f, G) /\ SumFunctionOnSet(f, r) = k[r]
  BY <1>3, <1>4, SumIsOne
<1>6. g[r] = k[r]
  <2>1. PICK h : h = f
    OBVIOUS
  <2>2. \A x \in r : f[x] = h[x]
    BY <2>1
  <2>3. SUBSET r \subseteq F /\ SUBSET r \subseteq G
    BY <1>1, <1>3, <1>4
  <2>4. Sums(g, f, F) /\ Sums(k, h, G) /\ IsFiniteSet(r)
    BY <1>2, <1>3, <1>5, <2>1
  <2> QED
    BY <2>2, <2>3, <2>4, SumsAgree
<1>7. g[S] = f[Pick(S)] + g[r]
  BY <1>1, <1>2, <1>3 DEF Sums
<1> QED
  BY <1>2, <1>3, <1>5, <1>6, <1>7

\* A sum of natural numbers is one.
LEMMA SumNat ==
    ASSUME NEW S, IsFiniteSet(S), NEW f, \A x \in S : f[x] \in Nat
    PROVE  SumFunctionOnSet(f, S) \in Nat
<1> DEFINE T == {n \in Nat : \E s \in SUBSET S :
                                Cardinality(s) = n /\ SumFunctionOnSet(f, s) \notin Nat}
<1>1. T \in SUBSET Nat
  OBVIOUS
<1>2. \A n \in T : n \in Nat /\ \E s \in SUBSET S :
                      Cardinality(s) = n /\ SumFunctionOnSet(f, s) \notin Nat
  OBVIOUS
<1>3. \A s \in SUBSET S : \A n \in Nat :
          Cardinality(s) = n /\ n \notin T => SumFunctionOnSet(f, s) \in Nat
  OBVIOUS
<1> HIDE DEF T
<1>4. ASSUME T # {}
      PROVE  FALSE
  <2>1. PICK n \in T : \A m \in T : n <= m
    BY <1>1, <1>4, LeastNumber
  <2>2. PICK s \in SUBSET S : Cardinality(s) = n /\ SumFunctionOnSet(f, s) \notin Nat
    BY <1>2, <2>1
  <2>3. IsFiniteSet(s) /\ n \in Nat
    BY <1>2, <2>1, FS_Subset
  <2>4. s # {}
    BY <2>2, SumEmpty
  <2>5. PICK c \in s, r \in SUBSET S : /\ c = Pick(s) /\ r = s \ {c}
                                       /\ Cardinality(r) = n - 1 /\ n > 0
    BY <2>2, <2>3, <2>4, PickRest
  <2>6. n - 1 \notin T /\ n - 1 \in Nat
    BY <2>1, <2>3, <2>5
  <2>7. SumFunctionOnSet(f, r) \in Nat
    BY <1>3, <2>5, <2>6
  <2>8. SumFunctionOnSet(f, s) = f[c] + SumFunctionOnSet(f, r)
    BY <2>3, <2>4, <2>5, SumPick
  <2>9. f[c] \in Nat
    OBVIOUS
  <2> QED
    BY <2>2, <2>7, <2>8, <2>9
<1>5. PICK n \in Nat : n = Cardinality(S)
  BY FS_CardinalityType
<1> QED
  BY <1>3, <1>4, <1>5

\* Any element can be split off: the order of the summation does not matter.
LEMMA SumSplit ==
    ASSUME NEW S, IsFiniteSet(S), NEW f, \A x \in S : f[x] \in Nat, NEW x \in S
    PROVE  SumFunctionOnSet(f, S) = f[x] + SumFunctionOnSet(f, S \ {x})
<1> DEFINE Splits(s, y) == SumFunctionOnSet(f, s) = f[y] + SumFunctionOnSet(f, s \ {y})
<1> DEFINE T == {n \in Nat : \E s \in SUBSET S, y \in S :
                                Cardinality(s) = n /\ y \in s /\ ~Splits(s, y)}
<1>1. T \in SUBSET Nat
  OBVIOUS
<1> HIDE DEF Splits
<1>2. \A n \in T : n \in Nat /\ \E s \in SUBSET S, y \in S :
                      Cardinality(s) = n /\ y \in s /\ ~Splits(s, y)
  OBVIOUS
<1>3. \A s \in SUBSET S, y \in S : \A n \in Nat :
          Cardinality(s) = n /\ n \notin T /\ y \in s => Splits(s, y)
  OBVIOUS
<1> HIDE DEF T
<1>4. ASSUME T # {}
      PROVE  FALSE
  <2>1. PICK n \in T : \A m \in T : n <= m
    BY <1>1, <1>4, LeastNumber
  <2>2. PICK s \in SUBSET S, y \in S : Cardinality(s) = n /\ y \in s /\ ~Splits(s, y)
    BY <1>2, <2>1
  <2>3. IsFiniteSet(s) /\ n \in Nat /\ s # {}
    BY <1>2, <2>1, <2>2, FS_Subset
  <2>4. PICK c \in s, r \in SUBSET S : /\ c = Pick(s) /\ r = s \ {c}
                                       /\ Cardinality(r) = n - 1 /\ n > 0
    BY <2>2, <2>3, PickRest
  <2>5. SumFunctionOnSet(f, s) = f[c] + SumFunctionOnSet(f, r)
    BY <2>3, <2>4, SumPick
  <2>6. y # c
    BY <2>2, <2>4, <2>5 DEF Splits
  <2>7. n - 1 \notin T /\ n - 1 \in Nat
    BY <2>1, <2>3, <2>4
  <2>8. PICK u \in SUBSET S : u = s \ {y} /\ Cardinality(u) = n - 1
    BY <2>2, <2>3, FS_RemoveElement
  <2>9. PICK w \in SUBSET S : w = s \ {c, y}
    OBVIOUS
  <2>10. w = r \ {y} /\ w = u \ {c} /\ y \in r /\ c \in u /\ c \in S
    BY <2>2, <2>4, <2>6, <2>8, <2>9
  <2>11. Splits(r, y) /\ Splits(u, c)
    BY <1>3, <2>4, <2>7, <2>8, <2>10
  <2>12. SumFunctionOnSet(f, r) = f[y] + SumFunctionOnSet(f, w)
    BY <2>10, <2>11 DEF Splits
  <2>13. SumFunctionOnSet(f, u) = f[c] + SumFunctionOnSet(f, w)
    BY <2>10, <2>11 DEF Splits
  <2>14. SumFunctionOnSet(f, w) \in Nat
    <3>1. IsFiniteSet(w) /\ \A z \in w : f[z] \in Nat
      BY FS_Subset
    <3> QED
      BY <3>1, SumNat
  <2>15. f[c] \in Nat /\ f[y] \in Nat
    OBVIOUS
  <2>16. SumFunctionOnSet(f, s) = f[y] + SumFunctionOnSet(f, u)
    BY <2>5, <2>12, <2>13, <2>14, <2>15
  <2> QED
    BY <2>2, <2>8, <2>16 DEF Splits
<1>5. PICK n \in Nat : n = Cardinality(S)
  BY FS_CardinalityType
<1>6. S \in SUBSET S
  OBVIOUS
<1>7. Splits(S, x)
  BY <1>3, <1>4, <1>5, <1>6
<1> QED
  BY <1>7 DEF Splits
-----------------------------------------------------------------------------
(***************************************************************************)
(* Sums over the indices of a sequence                                     *)
(***************************************************************************)

\* The sum of the first n values of f.
SumTo(f, n) == SumFunctionOnSet(f, 1..n)

\* The first n values are natural numbers.
Counts(f, n) == \A i \in 1..n : f[i] \in Nat

\* Nothing comes before the first value.
LEMMA SumToZero ==
    ASSUME NEW f
    PROVE  SumTo(f, 0) = 0
<1>1. 1..0 = {}
  OBVIOUS
<1> QED
  BY <1>1, SumEmpty DEF SumTo

\* Such a sum is a natural number.
LEMMA SumToNat ==
    ASSUME NEW n \in Nat, NEW f, Counts(f, n)
    PROVE  SumTo(f, n) \in Nat
<1>1. IsFiniteSet(1..n) /\ \A i \in 1..n : f[i] \in Nat
  BY FS_Interval DEF Counts
<1> QED
  BY <1>1, SumNat DEF SumTo

\* The last value is added to the sum of those before it.
LEMMA SumToNext ==
    ASSUME NEW n \in Nat, NEW f, Counts(f, n + 1)
    PROVE  SumTo(f, n + 1) = SumTo(f, n) + f[n + 1] /\ SumTo(f, n) \in Nat /\ f[n + 1] \in Nat
<1>1. PICK m \in Nat : m = n + 1 /\ m \in 1..m
  OBVIOUS
<1>2. IsFiniteSet(1..m) /\ \A i \in 1..m : f[i] \in Nat
  BY <1>1, FS_Interval DEF Counts
<1>3. (1..m) \ {m} = 1..n
  BY <1>1
<1>4. SumTo(f, m) = f[m] + SumTo(f, n)
  BY <1>1, <1>2, <1>3, SumSplit, SMTT(30) DEF SumTo
<1>5. Counts(f, n)
  BY DEF Counts
<1>6. SumTo(f, n) \in Nat /\ f[m] \in Nat
  BY <1>1, <1>2, <1>5, SumToNat
<1> QED
  BY <1>1, <1>4, <1>6

\* The sum of the first values of two functions that agree on them.
LEMMA SumToSame ==
    ASSUME NEW n \in Nat, NEW f, NEW g, \A i \in 1..n : f[i] = g[i]
    PROVE  SumTo(f, n) = SumTo(g, n)
<1>1. IsFiniteSet(1..n)
  BY FS_Interval
<1> QED
  BY <1>1, SumSame DEF SumTo

\* The values of g continue those of f from m on.
Continues(f, m, g, n) == \A i \in 1..n : f[m + i] = g[i]

\* The sum over what is joined is the sum of the parts.
LEMMA SumToJoin ==
    ASSUME NEW m \in Nat, NEW n \in Nat, NEW f, NEW g, Counts(f, m + n), Continues(f, m, g, n)
    PROVE  SumTo(f, m + n) = SumTo(f, m) + SumTo(g, n) /\ SumTo(f, m) \in Nat /\ SumTo(g, n) \in Nat
<1>0. Counts(f, m) /\ \A k \in 0..n : Counts(f, m + k) /\ Counts(g, k)
  <2>1. Counts(f, m)
    BY DEF Counts
  <2>2. ASSUME NEW k \in 0..n
        PROVE  Counts(f, m + k)
    BY DEF Counts
  <2>3. ASSUME NEW k \in 0..n, NEW i \in 1..k
        PROVE  g[i] \in Nat
    BY DEF Counts, Continues
  <2> QED
    BY <2>1, <2>2, <2>3 DEF Counts
<1> DEFINE T == {k \in Nat : k <= n /\ SumTo(f, m + k) # SumTo(f, m) + SumTo(g, k)}
<1>1. T \in SUBSET Nat
  OBVIOUS
<1>2. \A k \in T : k \in 0..n /\ SumTo(f, m + k) # SumTo(f, m) + SumTo(g, k)
  OBVIOUS
<1>3. \A k \in 0..n : k \notin T => SumTo(f, m + k) = SumTo(f, m) + SumTo(g, k)
  OBVIOUS
<1> HIDE DEF T
<1>4. SumTo(f, m) \in Nat
  BY <1>0, SumToNat
<1>5. ASSUME T # {}
      PROVE  FALSE
  <2>1. PICK k \in T : \A j \in T : k <= j
    BY <1>1, <1>5, LeastNumber
  <2>2. k \in 0..n /\ SumTo(f, m + k) # SumTo(f, m) + SumTo(g, k)
    BY <1>2, <2>1
  <2>3. k # 0
    <3>1. SumTo(g, 0) = 0
      BY SumToZero
    <3> QED
      BY <1>4, <2>2, <3>1
  <2>4. PICK j \in Nat : k = j + 1 /\ j \in 0..n /\ j \notin T
    BY <2>1, <2>2, <2>3
  <2>5. SumTo(f, m + j) = SumTo(f, m) + SumTo(g, j)
    BY <1>3, <2>4
  <2>6. SumTo(g, k) = SumTo(g, j) + g[k] /\ SumTo(g, j) \in Nat /\ g[k] \in Nat
    BY <1>0, <2>2, <2>4, SumToNext
  <2>7. PICK i \in Nat : i = m + j /\ m + k = i + 1
    BY <2>4
  <2>8. SumTo(f, m + k) = SumTo(f, i) + f[m + k]
    BY <1>0, <2>2, <2>7, SumToNext
  <2>9. f[m + k] = g[k]
    BY <2>2, <2>3 DEF Continues
  <2> QED
    BY <1>4, <2>2, <2>5, <2>6, <2>7, <2>8, <2>9
<1>6. n \in 0..n
  OBVIOUS
<1>7. SumTo(g, n) \in Nat
  BY <1>0, <1>6, SumToNat
<1> QED
  BY <1>3, <1>4, <1>5, <1>6, <1>7

\* The sum without the first value.
LEMMA SumToRest ==
    ASSUME NEW n \in Nat, NEW f, NEW g, Counts(f, n + 1), Continues(f, 1, g, n)
    PROVE  SumTo(f, n + 1) = f[1] + SumTo(g, n) /\ f[1] \in Nat /\ SumTo(g, n) \in Nat
<1>1. Counts(f, 1 + n) /\ n + 1 = 1 + n /\ 1 \in Nat
  OBVIOUS
<1>2. SumTo(f, 1 + n) = SumTo(f, 1) + SumTo(g, n) /\ SumTo(g, n) \in Nat
  BY <1>1, SumToJoin
<1>3. Counts(f, 0 + 1) /\ 0 \in Nat /\ 0 + 1 = 1
  BY DEF Counts
<1>4. SumTo(f, 1) = SumTo(f, 0) + f[1] /\ f[1] \in Nat
  BY <1>3, SumToNext
<1> QED
  BY <1>1, <1>2, <1>4, SumToZero
=============================================================================
