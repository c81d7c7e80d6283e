------------------------------ MODULE Induction ------------------------------
(***************************************************************************)
(* What the proofs about numbers share.  First induction, for what the     *)
(* components compute step by step: over the lines of a journal, the       *)
(* actions of a bar, the rows of a list.  A predicate is given as the set  *)
(* of numbers it holds of and a step as a function, so that every fact can *)
(* be cited by name.  The principle comes from the well-foundedness of     *)
(* strict inclusion between finite sets, taken of the sets 1 .. n.  Then   *)
(* the ascending order of a finite set, and what is taken from a sequence  *)
(* in its order.                                                           *)
(***************************************************************************)
EXTENDS Numbers, FiniteSetTheorems, SequenceTheorems, WellFoundedInduction, TLAPS

\* A set of numbers that is not empty has a least element.
LEMMA LeastNumber ==
    ASSUME NEW T \in SUBSET Nat, T # {}
    PROVE  \E m \in T : \A k \in T : m <= k
<1> DEFINE W == {1 .. k : k \in T}
           R == StrictSubsetOrdering(Nat)
<1>1. W \subseteq FiniteSubsetsOf(Nat)
  <2> SUFFICES ASSUME NEW k \in T PROVE 1 .. k \in FiniteSubsetsOf(Nat)
    OBVIOUS
  <2>1. IsFiniteSet(1 .. k)
    BY FS_Interval
  <2> QED BY <2>1 DEF FiniteSubsetsOf
<1>2. PICK v \in W : \A w \in W : ~(<<w, v>> \in R)
  <2>1. IsWellFoundedOn(R, FiniteSubsetsOf(Nat)) /\ W # {}
    BY FS_StrictSubsetOrderingWellFounded
  <2> HIDE DEF W, R
  <2> QED BY <1>1, <2>1, WFMin
<1>3. PICK m \in T : v = 1 .. m
  BY <1>2
<1>4. ASSUME NEW k \in T, k < m PROVE FALSE
  <2>1. 1 .. k \subseteq 1 .. m /\ m \in 1 .. m /\ m \notin 1 .. k /\ 1 .. k \subseteq Nat /\ 1 .. m \subseteq Nat
    BY <1>4
  <2>2. <<1 .. k, 1 .. m>> \in R
    BY <2>1 DEF StrictSubsetOrdering
  <2> QED BY <1>2, <1>3, <2>2
<1> QED BY <1>4

\* What holds of 0, and of n + 1 if of n, holds of every number.
LEMMA SetInduction ==
    ASSUME NEW A, 0 \in A, \A n \in Nat : n \in A => n + 1 \in A
    PROVE  Nat \subseteq A
<1> DEFINE B == {n \in Nat : n \notin A}
<1> SUFFICES ASSUME B # {} PROVE FALSE
  OBVIOUS
<1>1. PICK m \in B : \A k \in B : m <= k
  BY LeastNumber
<1>2. m \in Nat /\ m \notin A /\ m # 0
  BY <1>1
<1>3. m - 1 \in Nat /\ m - 1 \in A /\ (m - 1) + 1 = m
  BY <1>1, <1>2
<1> QED BY <1>2, <1>3

\* The same as far as N.
LEMMA IntervalInduction ==
    ASSUME NEW N \in Nat, NEW A, 0 \in A, \A n \in 1 .. N : n - 1 \in A => n \in A
    PROVE  0 .. N \subseteq A
<1> DEFINE B == {n \in Nat : n <= N => n \in A}
<1>1. 0 \in B
  OBVIOUS
<1>2. ASSUME NEW n \in Nat, n \in B PROVE n + 1 \in B
  <2> SUFFICES ASSUME n + 1 <= N PROVE n + 1 \in A
    OBVIOUS
  <2>1. n \in A /\ n + 1 \in 1 .. N /\ (n + 1) - 1 = n
    BY <1>2
  <2> QED BY <2>1
<1>3. Nat \subseteq B
  <2> HIDE DEF B
  <2> QED BY <1>1, <1>2, SetInduction
<1> QED BY <1>3

\* g begins with b, and h takes it from step to step as far as n.
Iterates(g, n, b, h) ==
    /\ g[0] = b
    /\ \A m \in 1 .. n : g[m] = h[m][g[m - 1]]

\* A recursive function over 0 .. N exists, so the definition of one can be unfolded.
LEMMA Recursion ==
    ASSUME NEW S, NEW b \in S, NEW N \in Nat, NEW h, \A n \in 1 .. N : \A s \in S : h[n][s] \in S
    PROVE  \E f \in [0 .. N -> S] : Iterates(f, N, b, h)
<1> DEFINE A == {n \in Nat : \E g \in [0 .. n -> S] : Iterates(g, n, b, h)}
<1>1. 0 \in A
  <2> DEFINE g == [m \in 0 .. 0 |-> b]
  <2>1. g \in [0 .. 0 -> S] /\ Iterates(g, 0, b, h)
    BY DEF Iterates
  <2> QED BY <2>1
<1>2. ASSUME NEW n \in 1 .. N, n - 1 \in A PROVE n \in A
  <2>1. PICK g \in [0 .. n - 1 -> S] : Iterates(g, n - 1, b, h)
    BY <1>2
  <2> DEFINE k == [m \in 0 .. n |-> IF m = n THEN h[n][g[n - 1]] ELSE g[m]]
  <2>2. h[n][g[n - 1]] \in S
    <3>1. n - 1 \in 0 .. n - 1
      OBVIOUS
    <3> QED BY <2>1, <3>1
  <2>3. k \in [0 .. n -> S]
    <3> SUFFICES ASSUME NEW m \in 0 .. n, m # n PROVE g[m] \in S
      BY <2>2
    <3>1. m \in 0 .. n - 1
      OBVIOUS
    <3> QED BY <2>1, <3>1
  <2>4. k[0] = b
    BY <2>1 DEF Iterates
  <2>5. ASSUME NEW m \in 1 .. n PROVE k[m] = h[m][k[m - 1]]
    <3>1. k[m - 1] = g[m - 1]
      <4>1. m - 1 \in 0 .. n /\ m - 1 # n
        OBVIOUS
      <4> QED BY <4>1
    <3>2. CASE m = n
      <4>1. k[m] = h[n][g[n - 1]]
        BY <3>2
      <4> HIDE DEF k
      <4> QED BY <3>1, <3>2, <4>1
    <3>3. CASE m # n
      <4>1. k[m] = g[m] /\ m \in 1 .. n - 1
        BY <3>3
      <4> HIDE DEF k
      <4> QED BY <2>1, <3>1, <4>1 DEF Iterates
    <3> QED BY <3>2, <3>3
  <2> HIDE DEF k
  <2>6. Iterates(k, n, b, h)
    BY <2>4, <2>5 DEF Iterates
  <2>7. n \in Nat
    OBVIOUS
  <2> QED BY <2>3, <2>6, <2>7
<1>3. N \in A
  <2>1. 0 .. N \subseteq A
    <3> HIDE DEF A
    <3> QED BY <1>1, <1>2, IntervalInduction
  <2> HIDE DEF A
  <2> QED BY <2>1
<1> QED BY <1>3
\* The same for a function whose value at n is computed from that at an earlier prev[n].
IteratesFrom(g, n, b, h, prev) ==
    /\ g[0] = b
    /\ \A m \in 1 .. n : g[m] = h[m][g[prev[m]]]

LEMMA EarlierRecursion ==
    ASSUME NEW T, NEW e \in T, NEW N \in Nat,
           NEW prev \in [1 .. N -> 0 .. N], \A n \in 1 .. N : prev[n] < n,
           NEW h, \A n \in 1 .. N : \A x \in T : h[n][x] \in T
    PROVE  \E f \in [0 .. N -> T] : IteratesFrom(f, N, e, h, prev)
<1> DEFINE S == [0 .. N -> T]
           b == [k \in 0 .. N |-> e]
           H == [n \in 1 .. N |-> [s \in S |-> [s EXCEPT ![n] = h[n][s[prev[n]]]]]]
<1>1. b \in S
  OBVIOUS
<1>2. ASSUME NEW n \in 1 .. N, NEW s \in S
      PROVE  H[n][s] = [s EXCEPT ![n] = h[n][s[prev[n]]]] /\ H[n][s] \in S
  <2>1. s[prev[n]] \in T /\ n \in 0 .. N
    OBVIOUS
  <2> QED BY <2>1
<1>3. PICK g \in [0 .. N -> S] : Iterates(g, N, b, H)
  <2>1. \A n \in 1 .. N : \A s \in S : H[n][s] \in S
    BY <1>2
  <2> HIDE DEF H, S, b
  <2> QED BY <1>1, <2>1, Recursion
<1>4. g[0] = b /\ \A n \in 1 .. N : g[n - 1] \in S /\ g[n] = [g[n - 1] EXCEPT ![n] = h[n][g[n - 1][prev[n]]]]
  <2>1. \A n \in 1 .. N : n - 1 \in 0 .. N
    OBVIOUS
  <2> HIDE DEF H, S, b
  <2> QED BY <1>2, <1>3, <2>1 DEF Iterates
<1> DEFINE A == {m \in 0 .. N : \A k \in 0 .. m : g[m][k] = g[k][k]}
<1>5. \A m \in 0 .. N : \A k \in 0 .. m : g[m][k] = g[k][k]
  <2>1. 0 \in A
    <3>1. 0 \in 0 .. N /\ \A k \in 0 .. 0 : k = 0
      OBVIOUS
    <3> QED BY <3>1
  <2>2. ASSUME NEW m \in 1 .. N, m - 1 \in A PROVE m \in A
    <3>1. m \in 0 .. N /\ \A k \in 0 .. m : k = m \/ (k \in 0 .. m - 1 /\ k # m /\ k \in 0 .. N)
      OBVIOUS
    <3>2. \A k \in 0 .. m - 1 : g[m - 1][k] = g[k][k]
      BY <2>2
    <3>3. \A k \in 0 .. N : k # m => g[m][k] = g[m - 1][k]
      BY <1>4
    <3> QED BY <3>1, <3>2, <3>3
  <2>3. 0 .. N \subseteq A
    <3> HIDE DEF A
    <3> QED BY <2>1, <2>2, IntervalInduction
  <2> QED BY <2>3
<1> DEFINE f == [n \in 0 .. N |-> g[n][n]]
<1>6. f \in [0 .. N -> T]
  BY <1>3
<1>7. f[0] = e
  BY <1>4
<1>8. ASSUME NEW n \in 1 .. N PROVE f[n] = h[n][f[prev[n]]]
  <2>1. n \in 0 .. N /\ n - 1 \in 0 .. N /\ prev[n] \in 0 .. n - 1 /\ prev[n] \in 0 .. N
    OBVIOUS
  <2>2. g[n][n] = h[n][g[n - 1][prev[n]]]
    BY <1>4, <2>1
  <2>3. g[n - 1][prev[n]] = g[prev[n]][prev[n]]
    BY <1>5, <2>1
  <2> QED BY <2>1, <2>2, <2>3
<1> HIDE DEF f
<1> QED BY <1>6, <1>7, <1>8 DEF IteratesFrom

-----------------------------------------------------------------------------
\* s grows from each place to the next.
Increasing(s) == \A i, j \in 1 .. Len(s) : i < j => s[i] < s[j]

\* The elements of S up to x.
UpTo(S, x) == {y \in S : y <= x}

LEMMA RankGrows ==
    ASSUME NEW S \in SUBSET Int, IsFiniteSet(S), NEW x \in Int
    PROVE  /\ Cardinality(UpTo(S, x)) \in 0 .. Cardinality(S)
           /\ x \in S => Cardinality(UpTo(S, x)) # 0
           /\ \A y \in S : x < y => Cardinality(UpTo(S, x)) < Cardinality(UpTo(S, y))
<1>1. IsFiniteSet(UpTo(S, x)) /\ Cardinality(UpTo(S, x)) <= Cardinality(S)
  BY FS_Subset DEF UpTo
<1>2. Cardinality(UpTo(S, x)) \in Nat /\ Cardinality(S) \in Nat
  BY <1>1, FS_CardinalityType
<1>3. x \in S => Cardinality(UpTo(S, x)) # 0
  <2>1. x \in S => UpTo(S, x) # {}
    BY DEF UpTo
  <2> QED BY <1>1, <2>1, FS_EmptySet
<1>4. ASSUME NEW y \in S, x < y PROVE Cardinality(UpTo(S, x)) < Cardinality(UpTo(S, y))
  <2>1. IsFiniteSet(UpTo(S, y))
    BY FS_Subset DEF UpTo
  <2>2. UpTo(S, x) \subseteq UpTo(S, y) /\ y \in UpTo(S, y) /\ y \notin UpTo(S, x)
    <3>1. y \in Int /\ y <= y /\ ~(y <= x) /\ \A z \in S : z <= x => z <= y
      BY <1>4
    <3> QED BY <3>1 DEF UpTo
  <2>3. Cardinality(UpTo(S, x)) <= Cardinality(UpTo(S, y)) /\ Cardinality(UpTo(S, x)) # Cardinality(UpTo(S, y))
    BY <2>1, <2>2, FS_Subset
  <2>4. Cardinality(UpTo(S, y)) \in Nat
    BY <2>1, FS_CardinalityType
  <2> QED BY <1>2, <2>3, <2>4
<1> QED BY <1>1, <1>2, <1>3, <1>4

\* An element is determined by the number of those up to it.
LEMMA RankDetermines ==
    ASSUME NEW S \in SUBSET Int, IsFiniteSet(S), NEW x \in S, NEW y \in S,
           Cardinality(UpTo(S, x)) = Cardinality(UpTo(S, y))
    PROVE  x = y
<1>1. ~(x < y) /\ ~(y < x)
  <2> DEFINE a == Cardinality(UpTo(S, x))
             b == Cardinality(UpTo(S, y))
  <2>1. a \in Nat /\ (x < y => a < b) /\ (y < x => b < a)
    BY FS_CardinalityType, RankGrows
  <2>2. a = b
    OBVIOUS
  <2> QED BY <2>1, <2>2
<1> QED BY <1>1

\* Each number of a finite set is in its place.
LEMMA AscendingFacts ==
    ASSUME NEW S \in SUBSET Int, IsFiniteSet(S)
    PROVE  /\ Cardinality(S) \in Nat
           /\ Ascending(S) \in Seq(S) /\ Ascending(S) \in Seq(Int)
           /\ Len(Ascending(S)) = Cardinality(S) /\ DOMAIN Ascending(S) = 1 .. Cardinality(S)
           /\ Increasing(Ascending(S))
           /\ \A i \in 1 .. Len(Ascending(S)) :
                 Ascending(S)[i] \in S /\ Cardinality(UpTo(S, Ascending(S)[i])) = i
           /\ \A x \in S : \E i \in 1 .. Len(Ascending(S)) : Ascending(S)[i] = x
<1> DEFINE N == Cardinality(S)
           rank == [x \in S |-> Cardinality(UpTo(S, x))]
           A == Ascending(S)
<1>1. N \in Nat
  BY FS_CardinalityType
<1>2. rank \in [S -> 1 .. N]
  <2>1. \A x \in S : Cardinality(UpTo(S, x)) \in 1 .. N
    BY <1>1, RankGrows
  <2> QED BY <2>1
<1>3. rank \in Injection(S, 1 .. N)
  <2>1. \A x, y \in S : rank[x] = rank[y] => x = y
    BY RankDetermines
  <2> QED BY <1>2, <2>1 DEF Injection, IsInjective
<1>4. rank \in Surjection(S, 1 .. N)
  BY <1>1, <1>3, FS_Interval, FS_Injection
<1>5. \A n \in 1 .. N : \E x \in S : Cardinality(UpTo(S, x)) = n
  BY <1>4 DEF Surjection
<1>6. A = [n \in 1 .. N |-> CHOOSE x \in S : Cardinality(UpTo(S, x)) = n]
  BY DEF Ascending, UpTo
<1>7. \A n \in 1 .. N : A[n] \in S /\ Cardinality(UpTo(S, A[n])) = n
  BY <1>5, <1>6
<1>8. A \in Seq(S) /\ A \in Seq(Int) /\ Len(A) = N /\ DOMAIN A = 1 .. N
  <2>1. DOMAIN A = 1 .. N
    BY <1>6
  <2>2. A \in [1 .. N -> S]
    <3> HIDE DEF A
    <3> QED BY <1>6, <1>7
  <2>3. A \in [1 .. N -> Int]
    <3> HIDE DEF A
    <3> QED BY <2>2
  <2> HIDE DEF A, N
  <2>4. A \in Seq(S) /\ A \in Seq(Int)
    BY <1>1, <2>2, <2>3, SeqDef
  <2> QED BY <1>1, <2>1, <2>4, LenProperties
<1> HIDE DEF A
<1>9. \A i, j \in 1 .. N : i < j => A[i] < A[j]
  <2> SUFFICES ASSUME NEW i \in 1 .. N, NEW j \in 1 .. N, i < j PROVE A[i] < A[j]
    OBVIOUS
  <2>1. A[i] \in Int /\ A[j] \in Int /\ A[i] \in S /\ A[j] \in S
    BY <1>7
  <2>2. ~(A[j] < A[i])
    <3>1. A[j] < A[i] => Cardinality(UpTo(S, A[j])) < Cardinality(UpTo(S, A[i]))
      BY <2>1, RankGrows
    <3> QED BY <1>7, <3>1
  <2>3. A[i] # A[j]
    BY <1>7
  <2> QED BY <2>1, <2>2, <2>3
<1>10. \A x \in S : \E i \in 1 .. N : A[i] = x
  <2> SUFFICES ASSUME NEW x \in S PROVE \E i \in 1 .. N : A[i] = x
    OBVIOUS
  <2>1. Cardinality(UpTo(S, x)) \in 1 .. N
    BY <1>2
  <2>2. PICK i \in 1 .. N : i = Cardinality(UpTo(S, x))
    BY <2>1
  <2> QED BY <1>7, <2>2, RankDetermines
<1> QED BY <1>1, <1>7, <1>8, <1>9, <1>10 DEF A, Increasing

\* A growing sequence is the ascending order of what it holds.
LEMMA IncreasingIsAscending ==
    ASSUME NEW s \in Seq(Int), Increasing(s), NEW S,
           \A i \in 1 .. Len(s) : s[i] \in S,
           \A x \in S : \E i \in 1 .. Len(s) : s[i] = x
    PROVE  IsFiniteSet(S) /\ S \subseteq Int /\ Cardinality(S) = Len(s) /\ s = Ascending(S)
<1> DEFINE N == Len(s)
<1>1. N \in Nat /\ \A i \in 1 .. N : s[i] \in Int
  BY LenProperties, ElementOfSeq
<1>2. \A i, j \in 1 .. N : s[i] < s[j] <=> i < j
  <2> SUFFICES ASSUME NEW i \in 1 .. N, NEW j \in 1 .. N PROVE s[i] < s[j] <=> i < j
    OBVIOUS
  <2>1. i < j => s[i] < s[j]
    BY DEF Increasing
  <2>2. j < i => s[j] < s[i]
    BY DEF Increasing
  <2>3. s[i] \in Int /\ s[j] \in Int /\ i \in Int /\ j \in Int
    BY <1>1
  <2> HIDE DEF N
  <2> QED BY <2>1, <2>2, <2>3
<1> HIDE DEF N
<1>3. ASSUME NEW i \in 0 .. N, NEW U, \A x : x \in U <=> \E j \in 1 .. i : s[j] = x
      PROVE  IsFiniteSet(U) /\ Cardinality(U) = i
  <2> DEFINE f == [j \in 1 .. i |-> s[j]]
  <2>1. f \in [1 .. i -> U]
    BY <1>3
  <2>2. \A j, k \in 1 .. i : f[j] = f[k] => j = k
    <3> SUFFICES ASSUME NEW j \in 1 .. i, NEW k \in 1 .. i, s[j] = s[k] PROVE j = k
      OBVIOUS
    <3>1. j \in 1 .. N /\ k \in 1 .. N
      BY <1>1
    <3>2. ~(s[j] < s[k]) /\ ~(s[k] < s[j])
      BY <1>1, <3>1
    <3> QED BY <1>2, <3>1, <3>2
  <2>3. \A x \in U : \E j \in 1 .. i : f[j] = x
    BY <1>3
  <2>4. f \in Bijection(1 .. i, U)
    BY <2>1, <2>2, <2>3 DEF Bijection, Injection, Surjection, IsInjective
  <2>5. ExistsBijection(1 .. i, U)
    BY <2>4 DEF ExistsBijection
  <2>6. IsFiniteSet(1 .. i) /\ Cardinality(1 .. i) = i
    BY <1>1, FS_Interval
  <2> QED BY <2>5, <2>6, FS_Bijection
<1>4. IsFiniteSet(S) /\ S \subseteq Int /\ Cardinality(S) = N
  <2>1. \A x : x \in S <=> \E j \in 1 .. N : s[j] = x
    BY DEF N
  <2> QED BY <1>1, <1>3, <2>1
<1>5. \A i \in 1 .. N : Cardinality(UpTo(S, s[i])) = i
  <2> SUFFICES ASSUME NEW i \in 1 .. N PROVE Cardinality(UpTo(S, s[i])) = i
    OBVIOUS
  <2>1. \A j \in 1 .. N : s[j] <= s[i] <=> j <= i
    <3> SUFFICES ASSUME NEW j \in 1 .. N PROVE s[j] <= s[i] <=> j <= i
      OBVIOUS
    <3>1. s[i] \in Int /\ s[j] \in Int /\ (s[i] < s[j] <=> i < j)
      BY <1>1, <1>2
    <3> QED BY <1>1, <3>1
  <2>2. \A x : x \in UpTo(S, s[i]) <=> \E j \in 1 .. N : s[j] = x /\ s[j] <= s[i]
    BY DEF N, UpTo
  <2>3. \A j : j \in 1 .. i <=> j \in 1 .. N /\ j <= i
    BY <1>1
  <2>4. \A x : x \in UpTo(S, s[i]) <=> \E j \in 1 .. i : s[j] = x
    BY <2>1, <2>2, <2>3
  <2> QED BY <1>1, <1>3, <2>4
<1>6. \A i \in 1 .. N : s[i] = Ascending(S)[i]
  <2> SUFFICES ASSUME NEW i \in 1 .. N PROVE s[i] = Ascending(S)[i]
    OBVIOUS
  <2>1. Ascending(S)[i] \in S /\ Cardinality(UpTo(S, Ascending(S)[i])) = i
    BY <1>4, AscendingFacts
  <2>2. s[i] \in S /\ Cardinality(UpTo(S, s[i])) = i
    BY <1>5 DEF N
  <2> QED BY <1>4, <2>1, <2>2, RankDetermines
<1>7. Ascending(S) \in Seq(Int) /\ Len(Ascending(S)) = N
  BY <1>4, AscendingFacts
<1> QED BY <1>4, <1>6, <1>7, SeqEqual DEF N

\* What is taken from a sequence, place by place.
LEMMA EntriesFacts ==
    ASSUME NEW T, NEW s \in Seq(T), NEW P \in SUBSET (1 .. Len(s))
    PROVE  /\ IsFiniteSet(P) /\ Cardinality(P) \in 0 .. Len(s)
           /\ EntriesAt(s, P) \in Seq(T) /\ Len(EntriesAt(s, P)) = Cardinality(P)
           /\ \A n \in 1 .. Cardinality(P) :
                 Ascending(P)[n] \in P /\ EntriesAt(s, P)[n] = s[Ascending(P)[n]]
<1> DEFINE A == Ascending(P)  N == Cardinality(P)  E == EntriesAt(s, P)
<1>1. Len(s) \in Nat
  BY LenProperties
<1>2. IsFiniteSet(P) /\ N <= Len(s)
  <2>1. \A n \in Nat : IsFiniteSet(1 .. n) /\ Cardinality(1 .. n) = n
    BY FS_Interval
  <2>2. IsFiniteSet(1 .. Len(s)) /\ Cardinality(1 .. Len(s)) = Len(s)
    BY <1>1, <2>1
  <2>3. IsFiniteSet(P) /\ N <= Cardinality(1 .. Len(s))
    BY <2>2, FS_Subset
  <2> QED BY <2>2, <2>3
<1>3. P \in SUBSET Int /\ N \in Nat
  BY <1>2, FS_CardinalityType
<1>4. DOMAIN A = 1 .. N /\ \A n \in 1 .. N : A[n] \in P
  BY <1>2, <1>3, AscendingFacts
<1>5. E = [n \in 1 .. N |-> s[A[n]]]
  BY <1>4 DEF EntriesAt
<1>6. \A n \in 1 .. N : s[A[n]] \in T
  BY <1>4, ElementOfSeq
<1>7. E \in Seq(T) /\ Len(E) = N
  <2>1. E \in [1 .. N -> T] /\ DOMAIN E = 1 .. N
    <3> HIDE DEF E, A, N
    <3> QED BY <1>5, <1>6
  <2> HIDE DEF E, N
  <2>2. E \in Seq(T)
    BY <1>3, <2>1, SeqDef
  <2> QED BY <1>3, <2>1, <2>2, LenProperties
<1> HIDE DEF E, A, N
<1>8. N \in 0 .. Len(s)
  BY <1>1, <1>2, <1>3
<1>9. \A n \in 1 .. N : E[n] = s[A[n]]
  BY <1>5
<1> QED BY <1>2, <1>4, <1>7, <1>8, <1>9 DEF E, A, N

\* The rows of a growing sequence that are taken are in ascending order.
LEMMA EntriesAscending ==
    ASSUME NEW s \in Seq(Int), Increasing(s), NEW P \in SUBSET (1 .. Len(s))
    PROVE  EntriesAt(s, P) = Ascending({s[i] : i \in P})
<1> DEFINE A == Ascending(P)  N == Cardinality(P)  E == EntriesAt(s, P)  S == {s[i] : i \in P}
<1>1. IsFiniteSet(P) /\ E \in Seq(Int) /\ Len(E) = N /\ \A n \in 1 .. N : A[n] \in P /\ E[n] = s[A[n]]
  BY EntriesFacts
<1>2. Increasing(A) /\ Len(A) = N /\ \A x \in P : \E i \in 1 .. N : A[i] = x
  BY <1>1, AscendingFacts
<1> HIDE DEF A, E, N
<1>3. Increasing(E)
  <2> SUFFICES ASSUME NEW i \in 1 .. N, NEW j \in 1 .. N, i < j PROVE E[i] < E[j]
    BY <1>1 DEF Increasing
  <2>1. A[i] < A[j] /\ A[i] \in 1 .. Len(s) /\ A[j] \in 1 .. Len(s)
    BY <1>1, <1>2 DEF Increasing
  <2> QED BY <1>1, <2>1 DEF Increasing
<1>4. \A i \in 1 .. N : E[i] \in S
  BY <1>1
<1>5. \A x \in S : \E i \in 1 .. N : E[i] = x
  <2> SUFFICES ASSUME NEW k \in P PROVE \E i \in 1 .. N : E[i] = s[k]
    OBVIOUS
  <2>1. PICK i \in 1 .. N : A[i] = k
    BY <1>2
  <2> QED BY <1>1, <2>1
<1> HIDE DEF S
<1>6. E = Ascending(S)
  BY <1>1, <1>3, <1>4, <1>5, IncreasingIsAscending
<1> QED BY <1>6 DEF E, S

\* What grows beyond all of s can follow s.
LEMMA IncreasingConcat ==
    ASSUME NEW s \in Seq(Int), NEW t \in Seq(Int), Increasing(s), Increasing(t),
           \A i \in 1 .. Len(s) : \A j \in 1 .. Len(t) : s[i] < t[j]
    PROVE  Increasing(s \o t)
<1> DEFINE M == Len(s)  N == Len(t)  u == s \o t
<1>1. /\ M \in Nat /\ N \in Nat /\ Len(u) = M + N
      /\ \A i \in 1 .. M + N : u[i] = IF i <= M THEN s[i] ELSE t[i - M]
  BY ConcatProperties, LenProperties
<1>2. /\ \A i, j \in 1 .. M : i < j => s[i] < s[j]
      /\ \A i, j \in 1 .. N : i < j => t[i] < t[j]
      /\ \A i \in 1 .. M : \A j \in 1 .. N : s[i] < t[j]
  BY DEF Increasing
<1> HIDE DEF M, N, u
<1>3. \A i, j \in 1 .. M + N : i < j => u[i] < u[j]
  <2> SUFFICES ASSUME NEW i \in 1 .. M + N, NEW j \in 1 .. M + N, i < j PROVE u[i] < u[j]
    OBVIOUS
  <2>1. CASE j <= M
    BY <1>1, <1>2, <2>1
  <2>2. CASE i <= M /\ M < j
    <3>1. i \in 1 .. M /\ j - M \in 1 .. N
      BY <1>1, <2>2
    <3>2. u[i] = s[i] /\ u[j] = t[j - M]
      BY <1>1, <2>2
    <3> QED BY <1>2, <3>1, <3>2
  <2>3. CASE M < i
    <3>1. i - M \in 1 .. N /\ j - M \in 1 .. N /\ i - M < j - M
      BY <1>1, <2>3
    <3>2. u[i] = t[i - M] /\ u[j] = t[j - M]
      BY <1>1, <2>3
    <3> QED BY <1>2, <3>1, <3>2
  <2> QED BY <1>1, <2>1, <2>2, <2>3
<1> QED BY <1>1, <1>3 DEF Increasing, u
=============================================================================
