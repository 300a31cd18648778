--------------------------- MODULE OrderedProofs ---------------------------
(***************************************************************************)
(* What the operators of Ordered return, and Max, MapThenSumSet and        *)
(* FlattenSeq of the community modules: facts the proofs about the hub     *)
(* cite.  Sums and joins are recursive functions; what they compute is     *)
(* shown by a least counterexample, in the form of a set.                  *)
(***************************************************************************)
EXTENDS Ordered, Sequences, SequencesExt, FiniteSetsExt, FiniteSetTheorems,
        WellFoundedInduction, NaturalsInduction, SequenceTheorems, TLAPS

Less == {p \in Nat \X Nat : p[1] < p[2]}

(* Every set of numbers that has an element has a least one.               *)
LEMMA LeastExists ==
  ASSUME NEW T, T \subseteq Nat, T # {}
  PROVE  \E x \in T : \A y \in T : x <= y
<1>1. IsWellFoundedOn(Less, Nat)
  <2>1. SUFFICES ASSUME NEW f \in [Nat -> Nat], \A n \in Nat : <<f[n+1], f[n]>> \in Less
                 PROVE  FALSE
    BY DEF IsWellFoundedOn
  <2>2. \A n \in Nat : f[n+1] < f[n]
    BY <2>1 DEF Less
  <2> QED
    BY <2>2, NatLessThanWellFounded DEF IsWellFoundedOn, OpToRel
<1>2. PICK x \in T : \A y \in T : ~ (<<y, x>> \in Less)
  BY <1>1, WFMin
<1>3. ASSUME NEW y \in T  PROVE x <= y
  <2>1. <<y, x>> \in Nat \X Nat
    OBVIOUS
  <2>2. ~ (y < x)
    BY <1>2, <2>1 DEF Less
  <2> QED
    BY <2>2
<1> QED
  BY <1>3

(* A set of numbers with a bound has a largest element, and Max is it.     *)
LEMMA MaxIsLargest ==
  ASSUME NEW n \in Nat, NEW T, T \subseteq 0..n, T # {}
  PROVE  /\ Max(T) \in T
         /\ \A y \in T : y <= Max(T)
<1> DEFINE U == {m \in Nat : \A y \in T : y <= m}
<1>1. n \in U
  OBVIOUS
<1>2. PICK m \in U : \A k \in U : m <= k
  BY <1>1, LeastExists
<1>3. m \in T
  <2>1. SUFFICES ASSUME m \notin T  PROVE FALSE
    OBVIOUS
  <2>2. PICK t \in T : TRUE
    OBVIOUS
  <2>3. \A y \in T : y < m
    BY <2>1, <1>2
  <2>4. m - 1 \in U
    BY <2>2, <2>3, <1>2
  <2> QED
    BY <2>4, <1>2
<1>4. m \in T /\ \A y \in T : m >= y
  BY <1>2, <1>3
<1>5. Max(T) \in T /\ \A y \in T : Max(T) >= y
  BY <1>4, Zenon DEF Max
<1> QED
  BY <1>5

(* A bounded set of numbers is finite.                                     *)
LEMMA FiniteBelow ==
  ASSUME NEW n \in Nat, NEW K, K \subseteq 0..n
  PROVE  IsFiniteSet(K) /\ Cardinality(K) \in Nat
<1>1. IsFiniteSet(0..n)
  BY FS_Interval
<1>2. IsFiniteSet(K)
  BY <1>1, FS_Subset
<1> QED
  BY <1>2, FS_CardinalityType

(* How many elements of K are at most m.                                   *)
CountUpTo(K, m) == Cardinality({i \in K : i <= m})

(* Nth(K, j) is an element of K, with exactly j elements up to it.         *)
LEMMA NthIsElement ==
  ASSUME NEW n \in Nat, NEW K, K \subseteq 0..n, NEW j \in 1..Cardinality(K)
  PROVE  /\ Nth(K, j) \in K
         /\ Cardinality({i \in K : i <= Nth(K, j)}) = j
<1>1. IsFiniteSet(K) /\ Cardinality(K) \in Nat
  BY FiniteBelow
<1>0. \A i \in K : i \in Nat /\ i <= n
  OBVIOUS
<1>2. ASSUME NEW m \in Nat
      PROVE  /\ IsFiniteSet({i \in K : i <= m})
             /\ CountUpTo(K, m) \in Nat
  BY <1>1, FS_Subset, FS_CardinalityType DEF CountUpTo
<1> DEFINE U == {m \in Nat : CountUpTo(K, m) >= j}
<1>3. n \in U
  <2>1. {i \in K : i <= n} = K
    BY <1>0
  <2> QED
    BY <2>1, <1>1 DEF CountUpTo
<1>4. PICK m \in U : \A k \in U : m <= k
  BY <1>3, LeastExists
<1>5. ASSUME m = 0  PROVE m \in K /\ CountUpTo(K, m) = j
  <2>1. 0 \in K
    <3>1. SUFFICES ASSUME 0 \notin K  PROVE FALSE
      OBVIOUS
    <3>2. \A i \in K : ~ (i <= 0)
      BY <3>1, <1>0
    <3>3. {i \in K : i <= 0} = {}
      BY <3>2
    <3>4. CountUpTo(K, 0) = 0
      BY <3>3, FS_EmptySet DEF CountUpTo
    <3> QED
      BY <3>4, <1>4, <1>5
  <2>2. {i \in K : i <= 0} = {0}
    <3>1. \A i \in K : i <= 0 <=> i = 0
      BY <1>0
    <3> QED
      BY <2>1, <3>1
  <2>3. CountUpTo(K, 0) = 1
    BY <2>2, FS_Singleton DEF CountUpTo
  <2>4. 1 >= j
    BY <2>3, <1>4, <1>5
  <2> QED
    BY <2>1, <2>3, <2>4, <1>1, <1>5
<1>6. ASSUME m # 0  PROVE m \in K /\ CountUpTo(K, m) = j
  <2>1. m \in Nat /\ m - 1 \in Nat /\ ~ (m <= m - 1)
    BY <1>6
  <2>2. CountUpTo(K, m - 1) < j
    <3>1. m - 1 \notin U
      BY <2>1, <1>4
    <3>2. ~ (CountUpTo(K, m - 1) >= j)
      BY <2>1, <3>1
    <3>3. CountUpTo(K, m - 1) \in Nat
      BY <2>1, <1>2
    <3>4. j \in Nat
      BY <1>1
    <3> QED
      BY <3>2, <3>3, <3>4
  <2>3. m \in K
    <3>1. SUFFICES ASSUME m \notin K  PROVE FALSE
      OBVIOUS
    <3>2. \A i \in K : i <= m <=> i <= m - 1
      BY <3>1, <1>0, <2>1
    <3>3. {i \in K : i <= m} = {i \in K : i <= m - 1}
      BY <3>2
    <3> QED
      BY <3>3, <1>4, <2>1, <2>2, <1>2 DEF CountUpTo
  <2>4. CountUpTo(K, m) = CountUpTo(K, m - 1) + 1
    <3>1. \A i \in K : i \in Int /\ (i <= m <=> i <= m - 1 \/ i = m)
      BY <1>0, <2>1
    <3>2. {i \in K : i <= m} = {i \in K : i <= m - 1} \cup {m}
      BY <3>1, <2>3
    <3>3. m \notin {i \in K : i <= m - 1}
      BY <2>1
    <3> QED
      BY <3>2, <3>3, <2>1, <1>2, FS_AddElement DEF CountUpTo
  <2>5. CountUpTo(K, m) >= j /\ CountUpTo(K, m - 1) \in Nat
    BY <2>1, <1>4, <1>2
  <2> QED
    BY <2>2, <2>3, <2>4, <2>5, <1>1
<1>7. \E k \in K : Cardinality({i \in K : i <= k}) = j
  BY <1>5, <1>6 DEF CountUpTo
<1> QED
  BY <1>7, Zenon DEF Nth

(* Further up in K there is more of K.                                     *)
LEMMA CountGrows ==
  ASSUME NEW n \in Nat, NEW K, K \subseteq 0..n, NEW k \in K, NEW l \in K, k < l
  PROVE  Cardinality({i \in K : i <= k}) < Cardinality({i \in K : i <= l})
<1> DEFINE A == {i \in K : i <= k}
           B == {i \in K : i <= l}
<1>1. IsFiniteSet(A) /\ IsFiniteSet(B)
  BY FiniteBelow, FS_Subset
<1>2. \A i \in K : i \in Int
  OBVIOUS
<1>3. A \subseteq B
  <2>1. \A i \in K : i <= k => i <= l
    BY <1>2
  <2> QED
    BY <2>1
<1>4. l \in B /\ l \notin A
  BY <1>2
<1>5. Cardinality(A) \in Nat /\ Cardinality(B) \in Nat
  BY <1>1, FS_CardinalityType
<1>6. Cardinality(A) <= Cardinality(B) /\ Cardinality(A) # Cardinality(B)
  BY <1>1, <1>3, <1>4, FS_Subset
<1> QED
  BY <1>5, <1>6

(* Nth lists all of K, each element once and in order.                     *)
LEMMA NthLists ==
  ASSUME NEW n \in Nat, NEW K, K \subseteq 0..n
  PROVE  /\ \A i, j \in 1..Cardinality(K) : i < j => Nth(K, i) < Nth(K, j)
         /\ \A k \in K : \E j \in 1..Cardinality(K) : Nth(K, j) = k
<1>1. IsFiniteSet(K) /\ Cardinality(K) \in Nat
  BY FiniteBelow
<1>2. \A k \in K : k \in Int
  OBVIOUS
<1>3. ASSUME NEW i \in 1..Cardinality(K), NEW j \in 1..Cardinality(K), i < j
      PROVE  Nth(K, i) < Nth(K, j)
  <2>1. /\ Nth(K, i) \in K
        /\ Nth(K, j) \in K
        /\ Cardinality({a \in K : a <= Nth(K, i)}) = i
        /\ Cardinality({a \in K : a <= Nth(K, j)}) = j
    BY NthIsElement
  <2>2. ~ (Nth(K, j) < Nth(K, i))
    <3>1. Nth(K, j) < Nth(K, i) => j < i
      BY <2>1, CountGrows
    <3> QED
      BY <3>1, <1>1, <1>3
  <2>3. Nth(K, i) # Nth(K, j)
    BY <2>1, <1>3, <1>1
  <2>4. Nth(K, i) \in Int /\ Nth(K, j) \in Int
    BY <2>1, <1>2
  <2> QED
    BY <2>2, <2>3, <2>4
<1>4. ASSUME NEW k \in K
      PROVE  \E j \in 1..Cardinality(K) : Nth(K, j) = k
  <2> DEFINE A == {a \in K : a <= k}
             j == Cardinality(A)
  <2>1. IsFiniteSet(A) /\ j \in Nat /\ j <= Cardinality(K)
    BY <1>1, FS_Subset, FS_CardinalityType
  <2>2. j # 0
    <3>1. k \in A
      BY <1>2
    <3> QED
      BY <3>1, <2>1, FS_EmptySet
  <2>3. j \in 1..Cardinality(K)
    BY <2>1, <2>2, <1>1
  <2>4. Nth(K, j) \in K /\ Cardinality({a \in K : a <= Nth(K, j)}) = j
    BY <2>3, NthIsElement
  <2>5. ~ (Nth(K, j) < k) /\ ~ (k < Nth(K, j))
    <3>1. Nth(K, j) < k => j < j
      BY <2>4, CountGrows
    <3>2. k < Nth(K, j) => j < j
      BY <2>4, CountGrows
    <3> QED
      BY <3>1, <3>2, <2>1
  <2>6. Nth(K, j) \in Int /\ k \in Int
    BY <2>4, <1>2
  <2>7. Nth(K, j) = k
    BY <2>5, <2>6
  <2> QED
    BY <2>3, <2>7
<1> QED
  BY <1>3, <1>4

(* A function on 1..n is a sequence of length n.                           *)
LEMMA FunctionIsSequence ==
  ASSUME NEW S, NEW n \in Nat, NEW f \in [1..n -> S]
  PROVE  f \in Seq(S) /\ Len(f) = n
OBVIOUS

(* A subsequence is a sequence of the elements at its positions, and of    *)
(* nothing else.                                                           *)
LEMMA SubsequenceElements ==
  ASSUME NEW S, NEW q \in Seq(S), NEW K, K \subseteq DOMAIN q
  PROVE  /\ Subsequence(q, K) \in Seq(S)
         /\ Len(Subsequence(q, K)) = Cardinality(K)
         /\ \A j \in 1..Cardinality(K) :
              Nth(K, j) \in K /\ Subsequence(q, K)[j] = q[Nth(K, j)]
         /\ \A k \in K : \E j \in 1..Cardinality(K) : Subsequence(q, K)[j] = q[k]
<1>1. Len(q) \in Nat /\ DOMAIN q = 1..Len(q) /\ q \in [1..Len(q) -> S]
  BY LenProperties
<1>2. Cardinality(K) \in Nat
  BY <1>1, FiniteBelow
<1>3. \A j \in 1..Cardinality(K) : Nth(K, j) \in K
  <2>1. K \subseteq 0..Len(q)
    BY <1>1
  <2> QED
    BY <1>1, <2>1, NthIsElement
<1>4. \A j \in 1..Cardinality(K) : q[Nth(K, j)] \in S
  BY <1>1, <1>3
<1>5. Subsequence(q, K) \in [1..Cardinality(K) -> S]
  BY <1>4 DEF Subsequence
<1>6. Subsequence(q, K) \in Seq(S) /\ Len(Subsequence(q, K)) = Cardinality(K)
  BY <1>2, <1>5
<1>7. \A j \in 1..Cardinality(K) : Subsequence(q, K)[j] = q[Nth(K, j)]
  BY DEF Subsequence
<1>8. \A k \in K : \E j \in 1..Cardinality(K) : Nth(K, j) = k
  BY <1>1, NthLists
<1> QED
  BY <1>3, <1>6, <1>7, <1>8

----------------------------------------------------------------------------
(* Two sequences of a length that agree everywhere are one.                *)
LEMMA SameElements ==
  ASSUME NEW S, NEW s \in Seq(S), NEW t \in Seq(S), NEW n \in Nat, Len(s) = n, Len(t) = n,
         \A j \in 1..n : s[j] = t[j]
  PROVE  s = t
OBVIOUS

LEMMA LargerOfTwo ==
  ASSUME NEW a \in Int, NEW b \in Int
  PROVE  Max({a, b}) = IF a >= b THEN a ELSE b
<1> DEFINE l == IF a >= b THEN a ELSE b
<1>1. \A x \in {a, b} : (\A y \in {a, b} : x >= y) <=> x = l
  OBVIOUS
<1>2. l \in {a, b}
  OBVIOUS
<1> HIDE DEF l
<1>3. Max({a, b}) = l
  BY <1>1, <1>2 DEF Max
<1> QED
  BY <1>3 DEF l

LEMMA SmallerOfTwo ==
  ASSUME NEW a \in Int, NEW b \in Int
  PROVE  Min({a, b}) = IF a <= b THEN a ELSE b
<1> DEFINE l == IF a <= b THEN a ELSE b
<1>1. \A x \in {a, b} : (\A y \in {a, b} : x <= y) <=> x = l
  OBVIOUS
<1>2. l \in {a, b}
  OBVIOUS
<1> HIDE DEF l
<1>3. Min({a, b}) = l
  BY <1>1, <1>2 DEF Min
<1> QED
  BY <1>3 DEF l

(* Where each element of K is followed by the one that begins where it     *)
(* ends, up to top, so are they in their order.                            *)
LEMMA NthIsNext ==
  ASSUME NEW r \in Nat, NEW K, K \subseteq 0..r, NEW top \in Nat,
         NEW end, \A o \in K : end[o] \in Nat /\ o < end[o] /\ o < top,
         \A o \in K : end[o] \in K \/ end[o] >= top,
         \A o, d \in K : o < d => end[o] <= d,
         NEW k \in 1..Cardinality(K)
  PROVE  /\ k + 1 \in 1..Cardinality(K) => Nth(K, k + 1) = end[Nth(K, k)]
         /\ k = Cardinality(K) => end[Nth(K, k)] >= top
<1> DEFINE n == Cardinality(K)
           o == Nth(K, k)
<1>0. n \in Nat
  BY FiniteBelow
<1>1. n \in Nat /\ \A x \in K : x \in Nat
  BY <1>0
<1>2. /\ \A j \in 1..n : Nth(K, j) \in K
      /\ \A i, j \in 1..n : i < j => Nth(K, i) < Nth(K, j)
      /\ \A x \in K : \E j \in 1..n : Nth(K, j) = x
  BY NthIsElement, NthLists
<1> HIDE DEF n
<1>3. o \in K /\ o \in Nat /\ end[o] \in Nat /\ o < end[o]
  BY <1>1, <1>2 DEF n
<1>7. k \in 1..n /\ o = Nth(K, k)
  BY DEF n
<1> HIDE DEF o
<1>4. ASSUME NEW j \in 1..n, Nth(K, j) = end[o]  PROVE k < j
  <2>1. ~ (j < k)
    <3>1. j < k => end[o] < o
      BY <1>2, <1>4, <1>7
    <3> QED
      BY <1>3, <3>1
  <2>2. j # k
    <3>1. j = k => end[o] = o
      BY <1>4, <1>7
    <3> QED
      BY <1>3, <3>1
  <2> QED
    BY <2>1, <2>2, <1>1, <1>7
<1>5. ASSUME k + 1 \in 1..n  PROVE Nth(K, k + 1) = end[o]
  <2> DEFINE d == Nth(K, k + 1)
  <2>1. d \in K /\ o < d /\ d < top /\ end[o] <= d
    <3>1. k < k + 1
      BY <1>1, <1>7
    <3>2. d \in K /\ o < d
      BY <1>2, <1>5, <1>7, <3>1
    <3> QED
      BY <1>3, <3>2
  <2> HIDE DEF d
  <2>2. end[o] \in K
    <3>1. d \in Nat /\ end[o] \in Nat
      BY <1>1, <1>3, <2>1
    <3>2. ~ (end[o] >= top)
      BY <2>1, <3>1
    <3> QED
      BY <1>3, <3>2
  <2>3. PICK j \in 1..n : Nth(K, j) = end[o]
    BY <1>2, <2>2
  <2>4. j = k + 1 \/ k + 1 < j
    BY <1>1, <1>4, <1>7, <2>3
  <2>5. d = end[o] \/ d < end[o]
    BY <1>2, <1>5, <2>3, <2>4 DEF d
  <2>6. d \in Nat
    BY <1>1, <2>1
  <2>7. d = end[o]
    BY <1>3, <2>1, <2>5, <2>6
  <2> QED
    BY <2>7 DEF d
<1>6. ASSUME k = n  PROVE end[o] >= top
  <2>1. SUFFICES ASSUME end[o] \in K  PROVE FALSE
    BY <1>3
  <2>2. PICK j \in 1..n : Nth(K, j) = end[o]
    BY <1>2, <2>1
  <2> QED
    BY <1>1, <1>4, <1>6, <2>2
<1> QED
  BY <1>5, <1>6 DEF n, o

----------------------------------------------------------------------------
(* Induction over the subsets of a finite set: what contains the empty     *)
(* set, and a set whenever it contains that set less any one element,      *)
(* contains them all.                                                      *)
LEMMA SubsetInduction ==
  ASSUME NEW S, IsFiniteSet(S), NEW G, {} \in G,
         \A s \in SUBSET S : s # {} /\ (\A x \in s : s \ {x} \in G) => s \in G
  PROVE  \A s \in SUBSET S : s \in G
<1> SUFFICES ASSUME NEW t \in SUBSET S, t \notin G  PROVE FALSE
  OBVIOUS
<1> DEFINE N == {Cardinality(s) : s \in {s \in SUBSET S : s \notin G}}
<1>1. ASSUME NEW s \in SUBSET S
      PROVE  IsFiniteSet(s) /\ Cardinality(s) \in Nat
  BY FS_Subset, FS_CardinalityType
<1>2. N \subseteq Nat /\ N # {}
  BY <1>1
<1>3. PICK n \in N : \A m \in N : n <= m
  BY <1>2, LeastExists
<1>4. PICK s \in SUBSET S : s \notin G /\ Cardinality(s) = n
  OBVIOUS
<1>5. s # {}
  BY <1>4
<1>6. ASSUME NEW x \in s  PROVE s \ {x} \in G
  <2>1. Cardinality(s \ {x}) = n - 1
    BY <1>1, <1>4, FS_RemoveElement
  <2>2. n \in Nat
    BY <1>2
  <2>3. ~ (n <= n - 1)
    BY <2>2
  <2>4. n - 1 \notin N
    BY <2>3, <1>3
  <2>5. s \ {x} \in SUBSET S
    OBVIOUS
  <2> QED
    BY <2>1, <2>4, <2>5
<1> QED
  BY <1>4, <1>5, <1>6

----------------------------------------------------------------------------
(* Sums over finite sets.                                                  *)

Some(s) == CHOOSE x \in s : TRUE

(* g sums w over the subsets of S, as MapThenSumSet does.                  *)
IsSum(g, w, S) ==
  g = [s \in SUBSET S |-> IF s = {} THEN 0 ELSE w[Some(s)] + g[s \ {Some(s)}]]

Total(w, S) == (CHOOSE g : IsSum(g, w, S))[S]

(* The equation of a sum has a solution.                                   *)
LEMMA SumExists ==
  ASSUME NEW S, IsFiniteSet(S), NEW w
  PROVE  \E g : IsSum(g, w, S)
<1> DEFINE Eq(g, s) == g[s] = IF s = {} THEN 0 ELSE w[Some(s)] + g[s \ {Some(s)}]
           Upto(g, n) == \A s \in SUBSET S : Cardinality(s) <= n => Eq(g, s)
           Missing == {n \in Nat : ~ \E g : Upto(g, n)}
<1>1. ASSUME NEW s \in SUBSET S
      PROVE  /\ IsFiniteSet(s) /\ Cardinality(s) \in Nat
             /\ Cardinality(s) = 0 <=> s = {}
             /\ \A x \in s : Cardinality(s \ {x}) = Cardinality(s) - 1
  BY FS_Subset, FS_CardinalityType, FS_EmptySet, FS_RemoveElement
<1>2. 0 \notin Missing
  <2>1. Upto([s \in SUBSET S |-> 0], 0)
    BY <1>1
  <2> HIDE DEF Upto
  <2> QED
    BY <2>1
<1>3. ASSUME NEW n \in Nat, n \notin Missing  PROVE n + 1 \notin Missing
  <2>1. PICK g : Upto(g, n)
    BY <1>3
  <2> DEFINE h == [s \in SUBSET S |-> IF s = {} THEN 0 ELSE w[Some(s)] + g[s \ {Some(s)}]]
  <2>2. ASSUME NEW s \in SUBSET S, Cardinality(s) <= n  PROVE h[s] = g[s]
    BY <2>1, <2>2
  <2>3. ASSUME NEW s \in SUBSET S, Cardinality(s) <= n + 1, s # {}
        PROVE  h[s \ {Some(s)}] = g[s \ {Some(s)}]
    <3>1. Some(s) \in s
      BY <2>3 DEF Some
    <3>2. Cardinality(s \ {Some(s)}) <= n
      BY <3>1, <2>3, <1>1
    <3> QED
      BY <3>2, <2>2
  <2>4. Upto(h, n + 1)
    BY <2>3
  <2> HIDE DEF Upto, h
  <2> QED
    BY <2>4
<1>4. Missing = {}
  <2> HIDE DEF Missing
  <2>1. Missing \subseteq Nat
    BY DEF Missing
  <2>2. SUFFICES ASSUME Missing # {}  PROVE FALSE
    OBVIOUS
  <2>3. PICK n \in Missing : \A m \in Missing : n <= m
    BY <2>1, <2>2, LeastExists
  <2>4. n \in Nat /\ n # 0
    BY <2>1, <2>3, <1>2
  <2>5. n - 1 \in Nat /\ ~ (n <= n - 1)
    BY <2>4
  <2>6. n - 1 \notin Missing
    BY <2>3, <2>5
  <2>7. (n - 1) + 1 = n
    BY <2>4
  <2> QED
    BY <1>3, <2>3, <2>5, <2>6, <2>7
<1>5. Cardinality(S) \in Nat /\ \A s \in SUBSET S : Cardinality(s) <= Cardinality(S)
  BY FS_CardinalityType, FS_Subset
<1>6. PICK g : Upto(g, Cardinality(S))
  BY <1>4, <1>5
<1> DEFINE h == [s \in SUBSET S |-> g[s]]
<1>7. ASSUME NEW s \in SUBSET S
      PROVE  g[s] = IF s = {} THEN 0 ELSE w[Some(s)] + h[s \ {Some(s)}]
  BY <1>5, <1>6
<1>8. h = [s \in SUBSET S |-> IF s = {} THEN 0 ELSE w[Some(s)] + h[s \ {Some(s)}]]
  BY <1>7
<1>9. IsSum(h, w, S)
  BY <1>8, Zenon DEF IsSum
<1> QED
  BY <1>9

(* Any element may be counted first.                                       *)
LEMMA SumLessOne ==
  ASSUME NEW S, IsFiniteSet(S), NEW w, \A x \in S : w[x] \in Nat, NEW g, IsSum(g, w, S)
  PROVE  /\ g[{}] = 0
         /\ \A s \in SUBSET S : g[s] \in Nat
         /\ \A s \in SUBSET S : \A a \in s : g[s] = w[a] + g[s \ {a}]
<1>1. /\ g[{}] = 0
      /\ \A s \in SUBSET S : s # {} => g[s] = w[Some(s)] + g[s \ {Some(s)}]
  BY DEF IsSum
<1>2. \A s \in SUBSET S : s # {} => Some(s) \in s
  BY DEF Some
<1>3. \A s \in SUBSET S : g[s] \in Nat
  <2> DEFINE G == {s \in SUBSET S : g[s] \in Nat}
  <2>1. {} \in G
    BY <1>1
  <2>2. ASSUME NEW s \in SUBSET S, s # {}, \A x \in s : s \ {x} \in G
        PROVE  s \in G
    <3>1. g[s \ {Some(s)}] \in Nat /\ w[Some(s)] \in Nat
      BY <2>2, <1>2
    <3>2. g[s] = w[Some(s)] + g[s \ {Some(s)}]
      BY <1>1, <2>2
    <3>3. g[s] \in Nat
      BY <3>1, <3>2
    <3> QED
      BY <3>3
  <2> HIDE DEF G
  <2>3. \A s \in SUBSET S : s \in G
    BY <2>1, <2>2, SubsetInduction
  <2> QED
    BY <2>3 DEF G
<1> DEFINE Adds(s) == \A a \in s : g[s] = w[a] + g[s \ {a}]
           G == {s \in SUBSET S : Adds(s)}
<1>4. {} \in G
  OBVIOUS
<1>5. ASSUME NEW s \in SUBSET S, s # {}, \A x \in s : s \ {x} \in G
      PROVE  s \in G
  <2> DEFINE x == Some(s)
  <2>1. x \in s
    BY <1>2, <1>5
  <2>2. g[s] = w[x] + g[s \ {x}]
    BY <1>1, <1>5
  <2> HIDE DEF x
  <2>3. ASSUME NEW a \in s, a # x  PROVE g[s] = w[a] + g[s \ {a}]
    <3>1. g[s \ {x}] = w[a] + g[(s \ {x}) \ {a}]
      BY <1>5, <2>1, <2>3
    <3>2. g[s \ {a}] = w[x] + g[(s \ {a}) \ {x}]
      BY <1>5, <2>1, <2>3
    <3>3. (s \ {x}) \ {a} = (s \ {a}) \ {x}
      OBVIOUS
    <3>4. w[a] \in Nat /\ w[x] \in Nat /\ g[(s \ {a}) \ {x}] \in Nat
      BY <1>3, <2>1
    <3> QED
      BY <2>2, <3>1, <3>2, <3>3, <3>4
  <2> QED
    BY <2>2, <2>3
<1> HIDE DEF G
<1>6. \A s \in SUBSET S : s \in G
  BY <1>4, <1>5, SubsetInduction
<1>7. \A s \in SUBSET S : \A a \in s : g[s] = w[a] + g[s \ {a}]
  BY <1>6 DEF G
<1> QED
  BY <1>1, <1>3, <1>7

(* What is summed over less, or is less, sums to no more.                  *)
LEMMA SumIsMonotone ==
  ASSUME NEW S, IsFiniteSet(S), NEW w, \A x \in S : w[x] \in Nat, NEW g, IsSum(g, w, S),
         NEW T, IsFiniteSet(T), NEW v, \A x \in T : v[x] \in Nat, NEW h, IsSum(h, v, T),
         \A x \in S \cap T : v[x] <= w[x]
  PROVE  \A s \in SUBSET S : h[s \cap T] <= g[s]
<1> DEFINE G == {s \in SUBSET S : h[s \cap T] <= g[s]}
<1>1. /\ g[{}] = 0
      /\ \A s \in SUBSET S : g[s] \in Nat
      /\ \A s \in SUBSET S : \A a \in s : g[s] = w[a] + g[s \ {a}]
  BY SumLessOne
<1>2. /\ h[{}] = 0
      /\ \A s \in SUBSET T : h[s] \in Nat
      /\ \A s \in SUBSET T : \A a \in s : h[s] = v[a] + h[s \ {a}]
  BY SumLessOne
<1>3. {} \in G
  <2>1. {} \cap T = {}
    OBVIOUS
  <2> QED
    BY <2>1, <1>1, <1>2
<1>4. ASSUME NEW s \in SUBSET S, s # {}, \A x \in s : s \ {x} \in G
      PROVE  s \in G
  <2>1. PICK a \in s : TRUE
    BY <1>4
  <2>2. h[(s \ {a}) \cap T] <= g[s \ {a}]
    BY <1>4, <2>1
  <2>3. g[s] = w[a] + g[s \ {a}] /\ w[a] \in Nat /\ g[s \ {a}] \in Nat
    BY <1>1, <2>1
  <2>4. h[(s \ {a}) \cap T] \in Nat /\ h[s \cap T] \in Nat
    BY <1>2
  <2>5. CASE a \in T
    <3>1. h[s \cap T] = v[a] + h[(s \cap T) \ {a}]
      BY <1>2, <2>5, <2>1
    <3>2. (s \cap T) \ {a} = (s \ {a}) \cap T
      OBVIOUS
    <3>3. v[a] \in Nat /\ v[a] <= w[a]
      BY <2>1, <2>5
    <3>4. h[s \cap T] = v[a] + h[(s \ {a}) \cap T]
      BY <3>1, <3>2
    <3>5. h[s \cap T] <= g[s]
      BY <2>2, <2>3, <2>4, <3>3, <3>4
    <3> QED
      BY <3>5
  <2>6. CASE a \notin T
    <3>1. (s \ {a}) \cap T = s \cap T
      BY <2>6
    <3>2. h[s \cap T] <= g[s \ {a}]
      BY <2>2, <3>1
    <3>3. h[s \cap T] <= g[s]
      BY <2>3, <2>4, <3>2
    <3> QED
      BY <3>3
  <2> QED
    BY <2>5, <2>6
<1> HIDE DEF G
<1>5. \A s \in SUBSET S : s \in G
  BY <1>3, <1>4, SubsetInduction
<1> QED
  BY <1>5 DEF G

LEMMA TotalIs ==
  ASSUME NEW S, IsFiniteSet(S), NEW w, \A x \in S : w[x] \in Nat, NEW g, IsSum(g, w, S)
  PROVE  g[S] = Total(w, S) /\ g[S] \in Nat
<1> DEFINE h == CHOOSE f : IsSum(f, w, S)
<1>1. IsSum(h, w, S)
  BY SumExists, Zenon
<1>2. Total(w, S) = h[S]
  BY DEF Total
<1> HIDE DEF h
<1>3. g[S] \in Nat /\ h[S] \in Nat
  BY <1>1, SumLessOne
<1>4. S \cap S = S /\ S \in SUBSET S /\ \A x \in S \cap S : w[x] <= w[x]
  OBVIOUS
<1>5. h[S \cap S] <= g[S]
  BY <1>1, <1>4, SumIsMonotone
<1>6. g[S \cap S] <= h[S]
  BY <1>1, <1>4, SumIsMonotone
<1> QED
  BY <1>2, <1>3, <1>4, <1>5, <1>6

(* The total of less is no more, ...                                       *)
LEMMA TotalOfLess ==
  ASSUME NEW S, IsFiniteSet(S), NEW w, \A x \in S : w[x] \in Nat,
         NEW T \in SUBSET S, NEW v, \A x \in T : v[x] \in Nat /\ v[x] <= w[x]
  PROVE  Total(v, T) \in Nat /\ Total(w, S) \in Nat /\ Total(v, T) <= Total(w, S)
<1>1. IsFiniteSet(T)
  BY FS_Subset
<1>2. PICK g : IsSum(g, w, S)
  BY SumExists
<1>3. PICK h : IsSum(h, v, T)
  BY <1>1, SumExists
<1>4. h[S \cap T] <= g[S]
  BY <1>1, <1>2, <1>3, SumIsMonotone
<1>5. S \cap T = T
  OBVIOUS
<1> QED
  BY <1>1, <1>2, <1>3, <1>4, <1>5, TotalIs

(* ... and one element adds what it counts.                                *)
LEMMA TotalWithOne ==
  ASSUME NEW S, IsFiniteSet(S), NEW w, \A x \in S : w[x] \in Nat,
         NEW a, a \notin S, NEW v, v[a] \in Nat, \A x \in S : v[x] = w[x]
  PROVE  /\ Total(w, S) \in Nat
         /\ Total(v, S \cup {a}) = Total(w, S) + v[a]
<1> DEFINE T == S \cup {a}
<1>1. IsFiniteSet(T)
  BY FS_AddElement
<1>2. \A x \in T : v[x] \in Nat
  OBVIOUS
<1>3. PICK g : IsSum(g, w, S)
  BY SumExists
<1>4. PICK h : IsSum(h, v, T)
  BY <1>1, <1>2, SumExists
<1>5. h[T] = v[a] + h[S] /\ h[S] \in Nat
  <2>1. T \ {a} = S /\ a \in T /\ T \in SUBSET T /\ S \in SUBSET T
    OBVIOUS
  <2> HIDE DEF T
  <2>2. /\ \A s \in SUBSET T : h[s] \in Nat
        /\ \A s \in SUBSET T : \A b \in s : h[s] = v[b] + h[s \ {b}]
    BY <1>1, <1>2, <1>4, SumLessOne
  <2>3. h[T] = v[a] + h[T \ {a}]
    BY <2>1, <2>2
  <2> QED
    BY <2>1, <2>2, <2>3
<1>6. /\ \A x \in S \cap T : v[x] <= w[x]
      /\ \A x \in T \cap S : w[x] <= v[x]
  OBVIOUS
<1>7. S \cap T = S /\ S \cap S = S /\ S \in SUBSET T /\ S \in SUBSET S
  OBVIOUS
<1> HIDE DEF T
<1>8. h[S \cap T] <= g[S]
  BY <1>1, <1>2, <1>3, <1>4, <1>6, <1>7, SumIsMonotone
<1>9. g[S \cap S] <= h[S]
  BY <1>1, <1>2, <1>3, <1>4, <1>6, <1>7, SumIsMonotone
<1>10. g[S] = Total(w, S) /\ g[S] \in Nat
  BY <1>3, TotalIs
<1>11. h[T] = Total(v, T)
  BY <1>1, <1>2, <1>4, TotalIs
<1>12. h[S] <= g[S] /\ g[S] <= h[S]
  BY <1>7, <1>8, <1>9
<1>13. h[S] = g[S] /\ v[a] \in Nat
  BY <1>5, <1>10, <1>12
<1>14. Total(v, T) = Total(w, S) + v[a]
  BY <1>5, <1>10, <1>11, <1>13
<1> QED
  BY <1>10, <1>14 DEF T

(* Nothing sums to nothing.                                                *)
LEMMA TotalOfNone == ASSUME NEW w PROVE Total(w, {}) = 0
<1>1. IsFiniteSet({}) /\ \A x \in {} : w[x] \in Nat
  BY FS_EmptySet
<1>2. PICK g : IsSum(g, w, {})
  BY <1>1, SumExists
<1>3. g[{}] = 0
  BY <1>1, <1>2, SumLessOne
<1> QED
  BY <1>1, <1>2, <1>3, TotalIs

----------------------------------------------------------------------------
(* Induction up to n.                                                      *)
LEMMA UpToInduction ==
  ASSUME NEW n \in Nat, NEW G, 1 \in G, \A i \in 1..n : i + 1 \in 1..n /\ i \in G => i + 1 \in G
  PROVE  \A i \in 1..n : i \in G
<1> SUFFICES ASSUME NEW k \in 1..n, k \notin G  PROVE FALSE
  OBVIOUS
<1> DEFINE N == {i \in 1..n : i \notin G}
<1>1. N \subseteq Nat /\ k \in N
  OBVIOUS
<1>2. PICK m \in N : \A i \in N : m <= i
  BY <1>1, LeastExists
<1>3. m \in 1..n /\ m \notin G /\ m # 1
  OBVIOUS
<1>4. m - 1 \in 1..n /\ (m - 1) + 1 = m /\ ~ (m <= m - 1)
  BY <1>3
<1>5. m - 1 \notin N
  BY <1>2, <1>4
<1> QED
  BY <1>3, <1>4, <1>5

----------------------------------------------------------------------------
(* Joining sequences.                                                      *)

LEMMA JoinOfTwo ==
  ASSUME NEW S, NEW a \in Seq(S), NEW b \in Seq(S)
  PROVE  /\ a \o b \in Seq(S)
         /\ Len(a \o b) = Len(a) + Len(b)
         /\ \A j \in 1..Len(a) : (a \o b)[j] = a[j]
         /\ \A j \in 1..Len(b) : (a \o b)[Len(a) + j] = b[j]
OBVIOUS

IsFlat(g, q, n) == g = [i \in 1..n |-> IF i = 1 THEN q[i] ELSE g[i-1] \o q[i]]

LEMMA FlatExists ==
  ASSUME NEW n \in Nat \ {0}, NEW q
  PROVE  \E g : IsFlat(g, q, n)
<1> DEFINE Upto(g, i) == \A j \in 1..i : g[j] = IF j = 1 THEN q[j] ELSE g[j-1] \o q[j]
           G == {i \in 1..n : \E g : Upto(g, i)}
<1>1. 1 \in G
  <2>1. Upto([j \in 1..n |-> q[1]], 1)
    OBVIOUS
  <2> HIDE DEF Upto
  <2> QED
    BY <2>1
<1>2. ASSUME NEW i \in 1..n, i + 1 \in 1..n, i \in G  PROVE i + 1 \in G
  <2>1. PICK g : Upto(g, i)
    BY <1>2
  <2> DEFINE h == [j \in 1..n |-> IF j <= i THEN g[j] ELSE g[i] \o q[i + 1]]
  <2>2. \A j \in 1..i : h[j] = g[j]
    OBVIOUS
  <2>3. h[i + 1] = g[i] \o q[i + 1]
    <3>1. ~ (i + 1 <= i)
      OBVIOUS
    <3> QED
      BY <1>2, <3>1
  <2> HIDE DEF h
  <2>4. ASSUME NEW j \in 1..(i + 1)
        PROVE  h[j] = IF j = 1 THEN q[j] ELSE h[j-1] \o q[j]
    <3>1. CASE j = i + 1
      <4>1. j # 1 /\ j - 1 = i /\ i \in 1..i
        BY <3>1
      <4> QED
        BY <2>2, <2>3, <3>1, <4>1
    <3>2. CASE j # i + 1
      <4>1. j \in 1..i /\ (j # 1 => j - 1 \in 1..i)
        BY <3>2
      <4> QED
        BY <2>1, <2>2, <4>1
    <3> QED
      BY <3>1, <3>2
  <2>5. Upto(h, i + 1)
    BY <2>4
  <2> HIDE DEF Upto
  <2> QED
    BY <1>2, <2>5
<1>3. n \in Nat /\ n \in 1..n
  OBVIOUS
<1>4. n \in G
  <2> HIDE DEF G
  <2> QED
    BY <1>1, <1>2, <1>3, UpToInduction
<1>5. PICK g : Upto(g, n)
  BY <1>4
<1> DEFINE h == [i \in 1..n |-> g[i]]
<1>6. ASSUME NEW i \in 1..n
      PROVE  g[i] = IF i = 1 THEN q[i] ELSE h[i-1] \o q[i]
  BY <1>5
<1>7. h = [i \in 1..n |-> IF i = 1 THEN q[i] ELSE h[i-1] \o q[i]]
  BY <1>6
<1>8. IsFlat(h, q, n)
  BY <1>7, Zenon DEF IsFlat
<1> QED
  BY <1>8

(* q has n pieces, and st tells how much comes before each.                *)
Pieces(q, n, st, S) ==
  /\ n \in Nat \ {0}
  /\ q \in [1..n -> Seq(S)]
  /\ st \in [1..n -> Nat]
  /\ st[1] = 0
  /\ \A k \in 1..n : k + 1 \in 1..n => st[k + 1] = st[k] + Len(q[k])

(* FlattenSeq puts the pieces one behind the other.                        *)
LEMMA FlattenJoins ==
  ASSUME NEW S, NEW n, NEW q, NEW st, Pieces(q, n, st, S)
  PROVE  /\ FlattenSeq(q) \in Seq(S)
         /\ Len(FlattenSeq(q)) = st[n] + Len(q[n])
         /\ \A k \in 1..n : \A p \in 1..Len(q[k]) : FlattenSeq(q)[st[k] + p] = q[k][p]
<1> DEFINE f == CHOOSE g : IsFlat(g, q, n)
<1>0. /\ n \in Nat \ {0}
      /\ q \in [1..n -> Seq(S)]
      /\ st \in [1..n -> Nat]
      /\ st[1] = 0
      /\ \A k \in 1..n : k + 1 \in 1..n => st[k + 1] = st[k] + Len(q[k])
  BY DEF Pieces
<1> USE <1>0
<1>1. IsFlat(f, q, n)
  BY FlatExists, Zenon
<1>2. Len(q) = n
  OBVIOUS
<1>3. FlattenSeq(q) = f[n]
  <2>1. FlattenSeq(q) = (CHOOSE g : g = [i \in 1..Len(q) |->
                            IF i = 1 THEN q[i] ELSE g[i-1] \o q[i]])[Len(q)]
    BY <1>2 DEF FlattenSeq
  <2> QED
    BY <1>2, <2>1, Zenon DEF IsFlat
<1> HIDE DEF f
<1>4. f[1] = q[1] /\ \A i \in 1..n : i + 1 \in 1..n => f[i + 1] = f[i] \o q[i + 1]
  <2>1. ASSUME NEW i \in 1..n
        PROVE  f[i] = IF i = 1 THEN q[i] ELSE f[i-1] \o q[i]
    BY <1>1 DEF IsFlat
  <2>2. f[1] = q[1]
    <3>1. 1 \in 1..n
      OBVIOUS
    <3> QED
      BY <2>1, <3>1
  <2>3. ASSUME NEW i \in 1..n, i + 1 \in 1..n  PROVE f[i + 1] = f[i] \o q[i + 1]
    <3>1. i + 1 # 1 /\ (i + 1) - 1 = i
      OBVIOUS
    <3> QED
      BY <2>1, <2>3, <3>1
  <2> QED
    BY <2>2, <2>3
<1> DEFINE Whole(i) ==
             /\ f[i] \in Seq(S)
             /\ Len(f[i]) = st[i] + Len(q[i])
             /\ \A k \in 1..i : st[k] + Len(q[k]) <= Len(f[i])
             /\ \A k \in 1..i : \A p \in 1..Len(q[k]) : f[i][st[k] + p] = q[k][p]
           G == {i \in 1..n : Whole(i)}
<1>5. \A k \in 1..n : q[k] \in Seq(S) /\ Len(q[k]) \in Nat /\ st[k] \in Nat
  OBVIOUS
<1>6. 1 \in G
  <2>1. 1 \in 1..n
    OBVIOUS
  <2> QED
    BY <1>4, <1>5, <2>1
<1>7. ASSUME NEW i \in 1..n, i + 1 \in 1..n, i \in G  PROVE i + 1 \in G
  <2> DEFINE a == f[i]
             b == q[i + 1]
             c == f[i + 1]
  <2>1. /\ a \in Seq(S)
        /\ Len(a) = st[i] + Len(q[i])
        /\ \A k \in 1..i : st[k] + Len(q[k]) <= Len(a)
        /\ \A k \in 1..i : \A p \in 1..Len(q[k]) : a[st[k] + p] = q[k][p]
    BY <1>7
  <2>2. c = a \o b /\ b \in Seq(S) /\ st[i + 1] = Len(a)
    BY <1>4, <1>5, <1>7, <2>1
  <2> HIDE DEF a, b, c, G
  <2>3. /\ c \in Seq(S) /\ Len(c) = Len(a) + Len(b)
        /\ \A j \in 1..Len(a) : c[j] = a[j]
        /\ \A j \in 1..Len(b) : c[Len(a) + j] = b[j]
    <3>1. a \in Seq(S) /\ b \in Seq(S)
      BY <2>1, <2>2
    <3> QED
      BY <2>2, <3>1, JoinOfTwo
  <2>4. Len(a) \in Nat /\ Len(b) \in Nat
    BY <2>1, <2>2
  <2>5. Len(c) = st[i + 1] + Len(q[i + 1])
    BY <2>2, <2>3 DEF b
  <2>6. \A k \in 1..(i + 1) : k \in 1..i \/ k = i + 1
    OBVIOUS
  <2>7. \A k \in 1..(i + 1) : st[k] + Len(q[k]) <= Len(c)
    <3>1. Len(b) \in Nat /\ Len(q[i + 1]) = Len(b)
      BY <2>4 DEF b
    <3>2. ASSUME NEW k \in 1..i  PROVE st[k] + Len(q[k]) <= Len(c)
      <4>1. st[k] + Len(q[k]) <= Len(a) /\ st[k] \in Nat /\ Len(q[k]) \in Nat
        BY <1>5, <2>1
      <4> QED
        BY <2>3, <2>4, <4>1
    <3>3. st[i + 1] + Len(q[i + 1]) <= Len(c)
      BY <2>2, <2>3, <2>4, <3>1
    <3> QED
      BY <2>6, <3>2, <3>3
  <2>8. ASSUME NEW k \in 1..(i + 1), NEW p \in 1..Len(q[k])
        PROVE  c[st[k] + p] = q[k][p]
    <3>1. CASE k \in 1..i
      <4>0. st[k] + Len(q[k]) <= Len(a) /\ st[k] \in Nat /\ Len(q[k]) \in Nat
        BY <1>5, <2>1, <3>1
      <4>1. st[k] + p \in 1..Len(a)
        BY <2>4, <4>0
      <4> QED
        BY <2>1, <2>3, <3>1, <4>1
    <3>2. CASE k = i + 1
      BY <2>2, <2>3, <3>2 DEF b
    <3> QED
      BY <2>6, <3>1, <3>2
  <2>9. Whole(i + 1)
    BY <2>3, <2>5, <2>7, <2>8 DEF c
  <2> HIDE DEF Whole
  <2> QED
    BY <1>7, <2>9 DEF G
<1>8. n \in G
  <2>1. n \in Nat /\ n \in 1..n
    OBVIOUS
  <2> HIDE DEF G
  <2> QED
    BY <1>6, <1>7, <2>1, UpToInduction
<1>9. Whole(n) /\ n \in 1..n
  BY <1>8
<1> QED
  BY <1>3, <1>9
=============================================================================
