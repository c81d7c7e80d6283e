----------------------------- MODULE StoreProofs -----------------------------
(***************************************************************************)
(* Proofs about what one process keeps, for any number of threads, keys    *)
(* and entries: the bounded cache in memory (app/infra/memory_cache.py),   *)
(* the memory of the engineering loop (loop/loop_context.py), the position *)
(* page (frontend/hooks/use-position.ts), the watchlist with its mirror in *)
(* Redis (app/infra/watchlist_store.py) and the journal of the tuning loop *)
(* with its rotation (app/loop/state.py).                                  *)
(***************************************************************************)
EXTENDS LruCache, LoopMemory, PositionPage, Watchlist, HistoryJournal, Induction, SequenceTheorems

\* Sequences of entries in which no key occurs twice.
Entry == [key : CacheKey, expires : Int]
Distinct(s) == \A i, j \in DOMAIN s : s[i].key = s[j].key => i = j

\* w is s without the entry of k, which is at p; p is behind the end if there is none.
Removed(s, w, k, p) ==
    /\ p \in 1 .. Len(s) + 1
    /\ p <= Len(s) => s[p].key = k
    /\ \A i \in 1 .. Len(s) : i # p => s[i].key # k
    /\ w \in Seq(Entry)
    /\ Len(w) = IF p <= Len(s) THEN Len(s) - 1 ELSE Len(s)
    /\ \A i \in 1 .. Len(w) : w[i] = s[IF i < p THEN i ELSE i + 1]

LEMMA WithoutFacts ==
    ASSUME NEW s \in Seq(Entry), NEW k, Distinct(s)
    PROVE  \E p \in 1 .. Len(s) + 1 : Removed(s, Without(s, k), k, p)
<1> DEFINE spots == {i \in DOMAIN s : s[i].key = k}
<1>0. Len(s) \in Nat /\ DOMAIN s = 1 .. Len(s)
  BY LenProperties
<1>1. CASE spots = {}
  <2>1. Without(s, k) = s
    BY <1>1 DEF Without
  <2>2. \A i \in 1 .. Len(s) : s[i].key # k
    BY <1>0, <1>1
  <2>3. Len(s) + 1 \in 1 .. Len(s) + 1
    BY <1>0
  <2>4. \A i \in 1 .. Len(s) : i < Len(s) + 1
    BY <1>0
  <2>5. ~(Len(s) + 1 <= Len(s))
    BY <1>0
  <2>6. Removed(s, s, k, Len(s) + 1)
    BY <2>2, <2>3, <2>4, <2>5 DEF Removed
  <2> QED BY <2>1, <2>3, <2>6
<1>2. CASE spots # {}
  <2> DEFINE p == CHOOSE i \in spots : TRUE
             front == SubSeq(s, 1, p - 1)
             back == SubSeq(s, p + 1, Len(s))
             w == front \o back
  <2>1. p \in spots
    BY <1>2
  <2>2. p \in 1 .. Len(s) /\ s[p].key = k
    BY <1>0, <2>1
  <2>3. Without(s, k) = w
    BY <1>2 DEF Without, RemoveAt
  <2>4. \A i \in 1 .. Len(s) : i # p => s[i].key # k
    BY <1>0, <2>2 DEF Distinct
  <2> HIDE DEF p, Entry
  <2>5. front \in Seq(Entry) /\ Len(front) = p - 1 /\ \A i \in 1 .. p - 1 : front[i] = s[i]
    <3>1. 1 \in 1 .. Len(s) + 1 /\ p - 1 \in 1 - 1 .. Len(s)
      BY <1>0, <2>2
    <3>2. IF 1 <= p - 1 THEN p - 1 - 1 + 1 = p - 1 ELSE p - 1 = 0
      BY <2>2
    <3>3. Len(front) = p - 1
      BY <3>1, <3>2, SubSeqProperties
    <3>4. \A i \in 1 .. p - 1 : 1 + i - 1 = i
      OBVIOUS
    <3>5. \A i \in 1 .. p - 1 - 1 + 1 : front[i] = s[1 + i - 1]
      BY <3>1, SubSeqProperties
    <3>6. p - 1 - 1 + 1 = p - 1
      BY <2>2
    <3> QED BY <3>1, <3>3, <3>4, <3>5, <3>6, SubSeqProperties
  <2>6. back \in Seq(Entry) /\ Len(back) = Len(s) - p /\ \A i \in 1 .. Len(s) - p : back[i] = s[p + i]
    <3>1. p + 1 \in 1 .. Len(s) + 1 /\ Len(s) \in (p + 1) - 1 .. Len(s)
      BY <1>0, <2>2
    <3>2. ASSUME ~(p + 1 <= Len(s)) PROVE Len(s) - p = 0
      <4>1. \A l \in Nat : \A q \in 1 .. l : ~(q + 1 <= l) => l - q = 0
        OBVIOUS
      <4> QED BY <1>0, <2>2, <3>2, <4>1
    <3>3. Len(s) - (p + 1) + 1 = Len(s) - p
      BY <1>0, <2>2
    <3>4. Len(back) = Len(s) - p
      BY <3>1, <3>2, <3>3, SubSeqProperties
    <3>5. \A i \in 1 .. Len(s) - p : p + 1 + i - 1 = p + i
      BY <1>0, <2>2
    <3>6. \A i \in 1 .. Len(s) - (p + 1) + 1 : back[i] = s[p + 1 + i - 1]
      BY <3>1, SubSeqProperties
    <3> QED BY <3>1, <3>4, <3>5, <3>6, <3>3, SubSeqProperties
  <2> HIDE DEF front, back
  <2>7. w \in Seq(Entry) /\ Len(w) = Len(s) - 1
    <3>1. p - 1 + (Len(s) - p) = Len(s) - 1
      BY <1>0, <2>2
    <3> QED BY <2>5, <2>6, <3>1, ConcatProperties
  <2>8. ASSUME NEW i \in 1 .. Len(s) - 1 PROVE w[i] = s[IF i < p THEN i ELSE i + 1]
    <3>0. w[i] = IF i <= p - 1 THEN front[i] ELSE back[i - (p - 1)]
      <4>1. i \in 1 .. Len(front) + Len(back)
        BY <1>0, <2>2, <2>5, <2>6
      <4> QED BY <2>5, <2>6, <4>1, ConcatProperties
    <3>1. CASE i < p
      <4>1. i \in 1 .. p - 1 /\ i <= p - 1
        BY <2>2, <3>1
      <4> QED BY <2>5, <3>0, <3>1, <4>1
    <3>2. CASE ~(i < p)
      <4>1. i - (p - 1) \in 1 .. Len(s) - p /\ ~(i <= p - 1) /\ p + (i - (p - 1)) = i + 1
        BY <1>0, <2>2, <3>2
      <4> QED BY <2>6, <3>0, <3>2, <4>1
    <3> QED BY <3>1, <3>2
  <2> HIDE DEF w
  <2>9. p \in 1 .. Len(s) + 1 /\ p <= Len(s)
    BY <1>0, <2>2
  <2>10. Removed(s, w, k, p)
    BY <2>2, <2>4, <2>7, <2>8, <2>9 DEF Removed
  <2> QED BY <2>3, <2>9, <2>10
<1> QED BY <1>1, <1>2

\* Every entry of d is an entry of u, and in the same order.
Linked(d, u) ==
    /\ \A i \in 1 .. Len(d) : \E a \in 1 .. Len(u) : u[a] = d[i]
    /\ \A i, j \in 1 .. Len(d) : \A a, b \in 1 .. Len(u) : u[a] = d[i] /\ u[b] = d[j] /\ i < j => a < b

\* The last max_size of u are in d, or have expired.
Recent(d, u) ==
    \A i \in 1 .. Len(u) : i > Len(u) - max_size =>
        (\E j \in 1 .. Len(d) : d[j].key = u[i].key) \/ clock > u[i].expires

\* An entry e of the key k at the end of s, in place of the old one.
Moved(s, e) == Append(Without(s, e.key), e)

\* Where the entries of Moved(s, e) were, and where those of s go.
LEMMA MovedFacts ==
    ASSUME NEW s \in Seq(Entry), NEW e \in Entry, Distinct(s)
    PROVE  LET r == Moved(s, e)
           IN  /\ r \in Seq(Entry) /\ Len(r) \in Nat \ {0} /\ r[Len(r)] = e
               /\ Len(r) = Len(s) + 1 \/ (Len(r) = Len(s) /\ \E i \in 1 .. Len(s) : s[i].key = e.key)
               /\ \A i \in 1 .. Len(r) : i # Len(r) =>
                     \E x \in 1 .. Len(s) : r[i] = s[x] /\ s[x].key # e.key /\ i <= x
               /\ \A x \in 1 .. Len(s) : s[x].key # e.key =>
                     \E i \in 1 .. Len(r) : i # Len(r) /\ r[i] = s[x]
               /\ \A i, j \in 1 .. Len(r) : \A x, y \in 1 .. Len(s) :
                     i # Len(r) /\ j # Len(r) /\ r[i] = s[x] /\ r[j] = s[y] => (i < j <=> x < y)
               /\ Distinct(r)
<1> DEFINE w == Without(s, e.key)
           r == Moved(s, e)
           n == Len(s)
           m == Len(w)
<1>1. PICK p \in 1 .. n + 1 : Removed(s, w, e.key, p)
  BY WithoutFacts
<1> DEFINE from(i) == IF i < p THEN i ELSE i + 1
<1>2. /\ p <= n => s[p].key = e.key
      /\ \A i \in 1 .. n : i # p => s[i].key # e.key
      /\ w \in Seq(Entry)
      /\ m = IF p <= n THEN n - 1 ELSE n
      /\ \A i \in 1 .. m : w[i] = s[from(i)]
  BY <1>1 DEF Removed
<1>3. n \in Nat /\ m \in Nat /\ DOMAIN s = 1 .. n
  BY <1>2, LenProperties
<1>4. r \in Seq(Entry) /\ Len(r) = m + 1 /\ r[m + 1] = e /\ \A i \in 1 .. m : r[i] = w[i]
  <2> HIDE DEF w, Entry
  <2>1. r = Append(w, e)
    BY DEF w, Moved
  <2> QED BY <1>2, <2>1, AppendProperties
<1>5. DOMAIN r = 1 .. m + 1
  <2> HIDE DEF w, r, m, Entry
  <2> QED BY <1>4, LenProperties
<1> HIDE DEF w, r, n, m, Entry
<1>6. \A i \in 1 .. m : from(i) \in 1 .. n /\ from(i) # p /\ i <= from(i)
  BY <1>2, <1>3
<1>7. \A i, j \in 1 .. m : (i < j <=> from(i) < from(j)) /\ (from(i) = from(j) => i = j)
  BY <1>3
<1>8. \A x \in 1 .. n : x # p => \E i \in 1 .. m : from(i) = x
  <2> SUFFICES ASSUME NEW x \in 1 .. n, x # p PROVE \E i \in 1 .. m : from(i) = x
    OBVIOUS
  <2>1. CASE x < p
    <3>1. x \in 1 .. m /\ from(x) = x
      BY <1>2, <1>3, <2>1
    <3> QED BY <3>1
  <2>2. CASE ~(x < p)
    <3>1. x - 1 \in 1 .. m /\ from(x - 1) = x
      BY <1>2, <1>3, <2>2
    <3> QED BY <3>1
  <2> QED BY <2>1, <2>2
<1> HIDE DEF from
<1>9. \A i \in 1 .. m : r[i] = s[from(i)] /\ r[i].key # e.key
  BY <1>2, <1>4, <1>6
<1>10. \A i \in 1 .. m + 1 : i # m + 1 <=> i \in 1 .. m
  BY <1>3
<1>11. \A i \in 1 .. m + 1 : i # m + 1 => \E x \in 1 .. n : r[i] = s[x] /\ s[x].key # e.key /\ i <= x
  BY <1>6, <1>9, <1>10
<1>12. \A x \in 1 .. n : s[x].key # e.key => \E i \in 1 .. m + 1 : i # m + 1 /\ r[i] = s[x]
  <2> SUFFICES ASSUME NEW x \in 1 .. n, s[x].key # e.key
               PROVE  \E i \in 1 .. m + 1 : i # m + 1 /\ r[i] = s[x]
    OBVIOUS
  <2>1. PICK i \in 1 .. m : from(i) = x
    BY <1>2, <1>8
  <2>2. i \in 1 .. m + 1 /\ i # m + 1
    BY <1>3
  <2> QED BY <1>9, <2>1, <2>2
<1>13. \A x, y \in 1 .. n : s[x].key = s[y].key => x = y
  BY <1>3 DEF Distinct
<1>14. \A i, j \in 1 .. m + 1 : \A x, y \in 1 .. n :
          i # m + 1 /\ j # m + 1 /\ r[i] = s[x] /\ r[j] = s[y] => (i < j <=> x < y)
  <2> SUFFICES ASSUME NEW i \in 1 .. m, NEW j \in 1 .. m, NEW x \in 1 .. n, NEW y \in 1 .. n,
                      r[i] = s[x], r[j] = s[y]
               PROVE  i < j <=> x < y
    BY <1>10
  <2>1. x = from(i) /\ y = from(j)
    BY <1>6, <1>9, <1>13
  <2> QED BY <1>7, <2>1
<1>15. Distinct(r)
  <2> SUFFICES ASSUME NEW i \in 1 .. m + 1, NEW j \in 1 .. m + 1, r[i].key = r[j].key
               PROVE  i = j
    BY <1>5 DEF Distinct
  <2>1. CASE i \in 1 .. m /\ j \in 1 .. m
    <3>1. from(i) = from(j)
      BY <1>6, <1>9, <1>13, <2>1
    <3> QED BY <1>7, <2>1, <3>1
  <2>2. CASE i = m + 1 \/ j = m + 1
    BY <1>4, <1>9, <1>10, <2>2
  <2> QED BY <1>10, <2>1, <2>2
<1>16. m + 1 \in Nat \ {0} /\ (m + 1 = n + 1 \/ (m + 1 = n /\ p \in 1 .. n))
  BY <1>2, <1>3
<1>17. m + 1 = n + 1 \/ (m + 1 = n /\ \E i \in 1 .. n : s[i].key = e.key)
  <2>1. p \in 1 .. n => p <= n
    BY <1>3
  <2> QED BY <1>2, <1>16, <2>1
<1> QED BY <1>4, <1>11, <1>12, <1>14, <1>15, <1>16, <1>17 DEF r, n

LEMMA LinkedTransitive ==
    ASSUME NEW w, NEW d, NEW u, Len(w) \in Nat, Len(d) \in Nat, Len(u) \in Nat, Linked(w, d), Linked(d, u)
    PROVE  Linked(w, u)
<1> DEFINE l == Len(w)
           m == Len(d)
           n == Len(u)
<1>1. /\ \A i \in 1 .. l : \E x \in 1 .. m : d[x] = w[i]
      /\ \A i, j \in 1 .. l : \A x, y \in 1 .. m : d[x] = w[i] /\ d[y] = w[j] /\ i < j => x < y
      /\ \A x \in 1 .. m : \E a \in 1 .. n : u[a] = d[x]
      /\ \A x, y \in 1 .. m : \A a, b \in 1 .. n : u[a] = d[x] /\ u[b] = d[y] /\ x < y => a < b
  BY DEF Linked
<1> HIDE DEF l, m, n
<1>2. /\ \A i \in 1 .. l : \E a \in 1 .. n : u[a] = w[i]
      /\ \A i, j \in 1 .. l : \A a, b \in 1 .. n : u[a] = w[i] /\ u[b] = w[j] /\ i < j => a < b
  <2>1. ASSUME NEW i \in 1 .. l PROVE \E a \in 1 .. n : u[a] = w[i]
    BY <1>1
  <2>2. ASSUME NEW i \in 1 .. l, NEW j \in 1 .. l, NEW a \in 1 .. n, NEW b \in 1 .. n,
               u[a] = w[i], u[b] = w[j], i < j
        PROVE  a < b
    <3>1. PICK x \in 1 .. m, y \in 1 .. m : d[x] = w[i] /\ d[y] = w[j]
      BY <1>1
    <3>2. x < y
      BY <1>1, <2>2, <3>1
    <3> QED BY <1>1, <2>2, <3>1, <3>2
  <2> QED BY <2>1, <2>2
<1> QED BY <1>2 DEF Linked, l, n

\* What Without leaves: the other entries, in their order.
LEMMA WithoutLinked ==
    ASSUME NEW s \in Seq(Entry), NEW k, Distinct(s)
    PROVE  LET w == Without(s, k)
           IN  /\ w \in Seq(Entry) /\ Len(w) \in Nat /\ Len(w) <= Len(s) /\ Distinct(w) /\ Linked(w, s)
               /\ \A i \in 1 .. Len(w) : w[i].key # k
               /\ \A x \in 1 .. Len(s) : s[x].key # k => \E i \in 1 .. Len(w) : w[i] = s[x]
<1> DEFINE w == Without(s, k)
           n == Len(s)
           m == Len(w)
<1>1. PICK p \in 1 .. n + 1 : Removed(s, w, k, p)
  BY WithoutFacts
<1> DEFINE from(i) == IF i < p THEN i ELSE i + 1
<1>2. /\ p <= n => s[p].key = k
      /\ \A i \in 1 .. n : i # p => s[i].key # k
      /\ w \in Seq(Entry)
      /\ m = IF p <= n THEN n - 1 ELSE n
      /\ \A i \in 1 .. m : w[i] = s[from(i)]
  BY <1>1 DEF Removed
<1>3. n \in Nat /\ m \in Nat /\ DOMAIN s = 1 .. n /\ DOMAIN w = 1 .. m
  BY <1>2, LenProperties
<1> HIDE DEF w, n, m, Entry
<1>4. \A i \in 1 .. m : from(i) \in 1 .. n /\ from(i) # p
  BY <1>2, <1>3
<1>5. \A i, j \in 1 .. m : (i < j => from(i) < from(j)) /\ (from(i) = from(j) => i = j)
  BY <1>3
<1>6. ASSUME NEW x \in 1 .. n, x # p PROVE \E i \in 1 .. m : from(i) = x
  <2>1. CASE x < p
    <3>1. x \in 1 .. m /\ from(x) = x
      BY <1>2, <1>3, <2>1
    <3> QED BY <3>1
  <2>2. CASE ~(x < p)
    <3>1. x - 1 \in 1 .. m /\ from(x - 1) = x
      BY <1>2, <1>3, <1>6, <2>2
    <3> QED BY <3>1
  <2> QED BY <2>1, <2>2
<1> HIDE DEF from
<1>7. \A x, y \in 1 .. n : s[x].key = s[y].key => x = y
  BY <1>3 DEF Distinct
<1>8. \A i \in 1 .. m : w[i].key # k
  BY <1>2, <1>4
<1>9. \A x \in 1 .. n : s[x].key # k => \E i \in 1 .. m : w[i] = s[x]
  <2> SUFFICES ASSUME NEW x \in 1 .. n, s[x].key # k PROVE \E i \in 1 .. m : w[i] = s[x]
    OBVIOUS
  <2>1. x # p
    BY <1>2, <1>3
  <2>2. PICK i \in 1 .. m : from(i) = x
    BY <1>6, <2>1
  <2> QED BY <1>2, <2>2
<1>10. Distinct(w)
  <2> SUFFICES ASSUME NEW i \in 1 .. m, NEW j \in 1 .. m, w[i].key = w[j].key PROVE i = j
    BY <1>3 DEF Distinct
  <2>1. from(i) \in 1 .. n /\ from(j) \in 1 .. n /\ s[from(i)].key = s[from(j)].key
    BY <1>2, <1>4
  <2>2. from(i) = from(j)
    BY <1>7, <2>1
  <2> QED BY <1>5, <2>2
<1>11. Linked(w, s)
  <2>1. \A i \in 1 .. m : \E x \in 1 .. n : s[x] = w[i]
    BY <1>2, <1>4
  <2>2. \A i \in 1 .. m : \A x \in 1 .. n : s[x] = w[i] => x = from(i)
    BY <1>2, <1>4, <1>7
  <2>3. \A i, j \in 1 .. m : \A x, y \in 1 .. n : s[x] = w[i] /\ s[y] = w[j] /\ i < j => x < y
    BY <1>5, <2>2
  <2> QED BY <2>1, <2>3 DEF Linked, m, n
<1>12. m <= n
  BY <1>2, <1>3
<1> QED BY <1>2, <1>3, <1>8, <1>9, <1>10, <1>11, <1>12 DEF w, m, n

LEMMA MovedLinked ==
    ASSUME NEW d \in Seq(Entry), NEW u \in Seq(Entry), NEW e \in Entry, Distinct(d), Distinct(u), Linked(d, u)
    PROVE  Linked(Moved(d, e), Moved(u, e))
<1> DEFINE r == Moved(d, e)
           v == Moved(u, e)
           m == Len(d)
           n == Len(u)
           rl == Len(r)
           vl == Len(v)
<1>1. /\ rl \in Nat \ {0} /\ r[rl] = e
      /\ \A i \in 1 .. rl : i # rl => \E x \in 1 .. m : r[i] = d[x] /\ d[x].key # e.key /\ i <= x
      /\ \A i, j \in 1 .. rl : \A x, y \in 1 .. m : i # rl /\ j # rl /\ r[i] = d[x] /\ r[j] = d[y] => (i < j <=> x < y)
      /\ Distinct(r) /\ DOMAIN r = 1 .. rl
  <2>1. r \in Seq(Entry)
    BY MovedFacts
  <2>2. DOMAIN r = 1 .. rl
    BY <2>1, LenProperties
  <2>3. /\ rl \in Nat \ {0} /\ r[rl] = e /\ Distinct(r)
        /\ \A i \in 1 .. rl : i # rl => \E x \in 1 .. m : r[i] = d[x] /\ d[x].key # e.key /\ i <= x
    BY MovedFacts
  <2>4. \A i, j \in 1 .. rl : \A x, y \in 1 .. m : i # rl /\ j # rl /\ r[i] = d[x] /\ r[j] = d[y] => (i < j <=> x < y)
    BY MovedFacts
  <2> QED BY <2>2, <2>3, <2>4
<1>2. /\ vl \in Nat \ {0} /\ v[vl] = e
      /\ \A a \in 1 .. vl : a # vl => \E x \in 1 .. n : v[a] = u[x] /\ u[x].key # e.key /\ a <= x
      /\ \A x \in 1 .. n : u[x].key # e.key => \E a \in 1 .. vl : a # vl /\ v[a] = u[x]
      /\ \A a, b \in 1 .. vl : \A x, y \in 1 .. n : a # vl /\ b # vl /\ v[a] = u[x] /\ v[b] = u[y] => (a < b <=> x < y)
      /\ Distinct(v) /\ DOMAIN v = 1 .. vl
  <2>1. v \in Seq(Entry)
    BY MovedFacts
  <2>2. DOMAIN v = 1 .. vl
    BY <2>1, LenProperties
  <2>3. /\ vl \in Nat \ {0} /\ v[vl] = e /\ Distinct(v)
        /\ \A a \in 1 .. vl : a # vl => \E x \in 1 .. n : v[a] = u[x] /\ u[x].key # e.key /\ a <= x
    BY MovedFacts
  <2>4. \A x \in 1 .. n : u[x].key # e.key => \E a \in 1 .. vl : a # vl /\ v[a] = u[x]
    BY MovedFacts
  <2>5. \A a, b \in 1 .. vl : \A x, y \in 1 .. n : a # vl /\ b # vl /\ v[a] = u[x] /\ v[b] = u[y] => (a < b <=> x < y)
    BY MovedFacts
  <2> QED BY <2>2, <2>3, <2>4, <2>5
<1>3. /\ \A i \in 1 .. m : \E a \in 1 .. n : u[a] = d[i]
      /\ \A i, j \in 1 .. m : \A a, b \in 1 .. n : u[a] = d[i] /\ u[b] = d[j] /\ i < j => a < b
  BY DEF Linked
<1> HIDE DEF r, v, m, n, rl, vl, Entry
<1>4. \A i \in 1 .. rl : \E a \in 1 .. vl : v[a] = r[i]
  <2> SUFFICES ASSUME NEW i \in 1 .. rl PROVE \E a \in 1 .. vl : v[a] = r[i]
    OBVIOUS
  <2>1. CASE i = rl
    <3>1. vl \in 1 .. vl
      BY <1>2
    <3> QED BY <1>1, <1>2, <2>1, <3>1
  <2>2. CASE i # rl
    <3>1. PICK x \in 1 .. m : r[i] = d[x] /\ d[x].key # e.key
      BY <1>1, <2>2
    <3>2. PICK y \in 1 .. n : u[y] = d[x]
      BY <1>3
    <3> QED BY <1>2, <3>1, <3>2
  <2> QED BY <2>1, <2>2
<1>5. ASSUME NEW i \in 1 .. rl, NEW j \in 1 .. rl, NEW a \in 1 .. vl, NEW b \in 1 .. vl,
             v[a] = r[i], v[b] = r[j], i < j
      PROVE  a < b
  <2>1. i # rl
    BY <1>1, <1>5
  <2>2. PICK x \in 1 .. m : r[i] = d[x] /\ d[x].key # e.key
    BY <1>1, <2>1
  <2>3. a # vl
    BY <1>2, <1>5, <2>2
  <2>4. CASE j = rl
    <3>1. b = vl
      <4>1. v[b] = v[vl] /\ vl \in 1 .. vl
        BY <1>1, <1>2, <1>5, <2>4
      <4> QED BY <1>2, <4>1 DEF Distinct
    <3> QED BY <1>2, <2>3, <3>1
  <2>5. CASE j # rl
    <3>1. PICK y \in 1 .. m : r[j] = d[y] /\ d[y].key # e.key
      BY <1>1, <2>5
    <3>2. x < y
      BY <1>1, <1>5, <2>1, <2>2, <2>5, <3>1
    <3>3. b # vl
      BY <1>2, <1>5, <3>1
    <3>4. PICK xx \in 1 .. n : v[a] = u[xx]
      BY <1>2, <2>3
    <3>5. PICK yy \in 1 .. n : v[b] = u[yy]
      BY <1>2, <3>3
    <3>6. xx < yy
      BY <1>3, <1>5, <2>2, <3>1, <3>2, <3>4, <3>5
    <3> QED BY <1>2, <2>3, <3>3, <3>4, <3>5, <3>6
  <2> QED BY <2>4, <2>5
<1> QED BY <1>4, <1>5 DEF Linked, r, v, rl, vl

LEMMA MovedRecent ==
    ASSUME NEW d \in Seq(Entry), NEW u \in Seq(Entry), NEW e \in Entry, Distinct(d), Distinct(u), Recent(d, u)
    PROVE  Recent(Moved(d, e), Moved(u, e))
<1> DEFINE r == Moved(d, e)
           v == Moved(u, e)
           m == Len(d)
           n == Len(u)
           rl == Len(r)
           vl == Len(v)
<1>1. /\ rl \in Nat \ {0} /\ r[rl] = e
      /\ \A x \in 1 .. m : d[x].key # e.key => \E i \in 1 .. rl : i # rl /\ r[i] = d[x]
  BY MovedFacts
<1>2. /\ vl \in Nat \ {0} /\ v[vl] = e /\ (vl = n + 1 \/ vl = n)
      /\ \A a \in 1 .. vl : a # vl => \E x \in 1 .. n : v[a] = u[x] /\ u[x].key # e.key /\ a <= x
  <2>1. vl \in Nat \ {0} /\ v[vl] = e /\ (vl = n + 1 \/ vl = n)
    BY MovedFacts
  <2>2. \A a \in 1 .. vl : a # vl => \E x \in 1 .. n : v[a] = u[x] /\ u[x].key # e.key /\ a <= x
    BY MovedFacts
  <2> QED BY <2>1, <2>2
<1>3. \A x \in 1 .. n : x > n - max_size =>
         (\E j \in 1 .. m : d[j].key = u[x].key) \/ clock > u[x].expires
  BY DEF Recent
<1>4. n \in Nat /\ max_size \in Nat
  BY LenProperties, LruAssumption
<1> HIDE DEF r, v, m, n, rl, vl, Entry
<1>5. ASSUME NEW a \in 1 .. vl, a > vl - max_size
      PROVE  (\E j \in 1 .. rl : r[j].key = v[a].key) \/ clock > v[a].expires
  <2>1. CASE a = vl
    <3>1. rl \in 1 .. rl
      BY <1>1
    <3> QED BY <1>1, <1>2, <2>1, <3>1
  <2>2. CASE a # vl
    <3>1. PICK x \in 1 .. n : v[a] = u[x] /\ u[x].key # e.key /\ a <= x
      BY <1>2, <2>2
    <3>2. x > n - max_size
      BY <1>2, <1>4, <1>5, <3>1
    <3>3. CASE clock > u[x].expires
      BY <3>1, <3>3
    <3>4. CASE \E j \in 1 .. m : d[j].key = u[x].key
      BY <1>1, <3>1, <3>4
    <3> QED BY <1>3, <3>2, <3>3, <3>4
  <2> QED BY <2>1, <2>2
<1> QED BY <1>5 DEF Recent, r, v, rl, vl

\* Eviction drops the first entry if there is one too many.
Kept(g) == SubSeq(g, Max({1, Len(g) - max_size + 1}), Len(g))

LEMMA KeptFacts ==
    ASSUME NEW g \in Seq(Entry), Len(g) <= max_size + 1, Distinct(g)
    PROVE  /\ Kept(g) \in Seq(Entry) /\ Len(Kept(g)) <= max_size /\ Distinct(Kept(g)) /\ Linked(Kept(g), g)
           /\ Len(g) <= max_size => Kept(g) = g
           /\ Len(g) = max_size + 1 => \A i \in 2 .. Len(g) : \E j \in 1 .. Len(Kept(g)) : Kept(g)[j] = g[i]
<1> DEFINE l == Len(g)
           first == Max({1, l - max_size + 1})
           t == SubSeq(g, first, l)
           tl == Len(t)
<1>1. l \in Nat /\ max_size \in Nat \ {0} /\ l <= max_size + 1 /\ DOMAIN g = 1 .. l
      /\ \A i \in 1 .. l : g[i] \in Entry
  BY LenProperties, LruAssumption, ElementOfSeq
<1>2. first = IF l = max_size + 1 THEN 2 ELSE 1
  <2> HIDE DEF l
  <2>1. l = max_size + 1 => l - max_size + 1 = 2
    BY <1>1
  <2>2. l # max_size + 1 => l - max_size + 1 <= 1 /\ l - max_size + 1 \in Int
    BY <1>1
  <2>3. Max({1, 2}) = 2
    BY DEF Max
  <2>4. \A z \in Int : z <= 1 => Max({1, z}) = 1
    BY DEF Max
  <2> QED BY <2>1, <2>2, <2>3, <2>4
<1> HIDE DEF first
<1>3. /\ t \in Seq(Entry) /\ tl = l - first + 1 /\ tl \in Nat /\ DOMAIN t = 1 .. tl
      /\ \A i \in 1 .. tl : t[i] = g[first + i - 1]
  <2> HIDE DEF l, Entry
  <2>1. first \in Int /\ l \in Int /\ \A i \in first .. l : g[i] \in Entry
    BY <1>1, <1>2
  <2>2. t \in Seq(Entry) /\ tl = (IF first <= l THEN l - first + 1 ELSE 0) /\ \A i \in 1 .. l - first + 1 : t[i] = g[first + i - 1]
    BY <2>1, SubSeqProperties
  <2>3. (IF first <= l THEN l - first + 1 ELSE 0) = l - first + 1 /\ l - first + 1 \in Nat
    BY <1>1, <1>2
  <2>4. DOMAIN t = 1 .. tl
    <3> HIDE DEF t
    <3> QED BY <2>2, LenProperties
  <2> HIDE DEF t, tl
  <2> QED BY <2>2, <2>3, <2>4
<1>4. ASSUME l <= max_size PROVE t = g
  <2>1. first = 1
    <3> HIDE DEF t, l
    <3> QED BY <1>1, <1>2, <1>4
  <2> QED BY <1>1, <2>1, SubSeqFull
<1> HIDE DEF t, tl, l, Entry
<1>5. \A i \in 1 .. tl : first + i - 1 \in 1 .. l /\ t[i] = g[first + i - 1]
  BY <1>1, <1>2, <1>3
<1>6. \A i, j \in 1 .. l : g[i].key = g[j].key => i = j
  BY <1>1 DEF Distinct
<1>7. Distinct(t)
  <2> SUFFICES ASSUME NEW i \in 1 .. tl, NEW j \in 1 .. tl, t[i].key = t[j].key PROVE i = j
    BY <1>3 DEF Distinct
  <2>1. first + i - 1 = first + j - 1
    BY <1>5, <1>6
  <2> QED BY <1>2, <2>1
<1>8. Linked(t, g)
  <2>1. \A i \in 1 .. tl : \E x \in 1 .. l : g[x] = t[i]
    BY <1>5
  <2>2. \A i \in 1 .. tl : \A x \in 1 .. l : g[x] = t[i] => x = first + i - 1
    BY <1>5, <1>6
  <2>3. \A i, j \in 1 .. tl : i < j => first + i - 1 < first + j - 1
    BY <1>2
  <2>4. \A i, j \in 1 .. tl : \A x, y \in 1 .. l : g[x] = t[i] /\ g[y] = t[j] /\ i < j => x < y
    BY <2>2, <2>3
  <2> QED BY <2>1, <2>4 DEF Linked, l, tl
<1>9. ASSUME l = max_size + 1 PROVE \A i \in 2 .. l : \E j \in 1 .. tl : t[j] = g[i]
  <2> SUFFICES ASSUME NEW i \in 2 .. l PROVE \E j \in 1 .. tl : t[j] = g[i]
    OBVIOUS
  <2>1. i - 1 \in 1 .. tl /\ first + (i - 1) - 1 = i
    BY <1>1, <1>2, <1>3, <1>9
  <2> QED BY <1>5, <2>1
<1>10. tl <= max_size
  BY <1>1, <1>2, <1>3
<1> QED BY <1>3, <1>4, <1>7, <1>8, <1>9, <1>10 DEF Kept, t, tl, l, first

\* An eviction takes an entry that max_size keys were used after.
LEMMA KeptRecent ==
    ASSUME NEW g \in Seq(Entry), NEW u \in Seq(Entry), Len(g) <= max_size + 1, Distinct(g), Distinct(u),
           Linked(g, u), Recent(g, u)
    PROVE  Recent(Kept(g), u)
<1> DEFINE l == Len(g)
           n == Len(u)
           t == Kept(g)
           tl == Len(t)
<1>1. /\ l \in Nat /\ n \in Nat /\ max_size \in Nat \ {0} /\ l <= max_size + 1
      /\ \A i, j \in 1 .. n : u[i].key = u[j].key => i = j
  BY LenProperties, LruAssumption DEF Distinct
<1>2. /\ l <= max_size => t = g
      /\ l = max_size + 1 => \A i \in 2 .. l : \E j \in 1 .. tl : t[j] = g[i]
  BY KeptFacts
<1>3. /\ \A i \in 1 .. l : \E a \in 1 .. n : u[a] = g[i]
      /\ \A i, j \in 1 .. l : \A a, b \in 1 .. n : u[a] = g[i] /\ u[b] = g[j] /\ i < j => a < b
  BY DEF Linked
<1>4. \A a \in 1 .. n : a > n - max_size => (\E j \in 1 .. l : g[j].key = u[a].key) \/ clock > u[a].expires
  BY DEF Recent
<1>5. CASE l <= max_size
  BY <1>2, <1>5
<1>6. CASE ~(l <= max_size)
  <2> HIDE DEF l, n, t, tl, Entry
  <2>1. l = max_size + 1
    BY <1>1, <1>6
  <2>2. ASSUME NEW a \in 1 .. n, a > n - max_size, ~(clock > u[a].expires)
        PROVE  \E j \in 1 .. tl : t[j].key = u[a].key
    <3>1. PICK i \in 1 .. l : g[i].key = u[a].key
      BY <1>4, <2>2
    <3>2. CASE i \in 2 .. l
      BY <1>2, <2>1, <3>1, <3>2
    <3>3. CASE i = 1
      <4>1. u[a] = g[1]
        BY <1>1, <1>3, <3>1, <3>3
      <4> DEFINE S == 2 .. l
                 T == a + 1 .. n
                 f == [j \in S |-> CHOOSE b \in 1 .. n : u[b] = g[j]]
      <4>2. ASSUME NEW j \in S PROVE f[j] \in 1 .. n /\ u[f[j]] = g[j] /\ f[j] > a
        <5>1. j \in 1 .. l /\ 1 \in 1 .. l /\ 1 < j
          BY <1>1
        <5>2. f[j] \in 1 .. n /\ u[f[j]] = g[j]
          BY <1>3, <5>1
        <5> HIDE DEF f
        <5> QED BY <1>3, <4>1, <5>1, <5>2
      <4>3. \A j \in S : f[j] \in T
        <5> HIDE DEF f
        <5> QED BY <1>1, <4>2
      <4>4. \A j, k \in S : f[j] = f[k] => j = k
        <5>1. \A j \in S : j \in 1 .. l /\ j \in Int
          BY <1>1
        <5> HIDE DEF f, S
        <5>2. \A j \in S : f[j] \in 1 .. n /\ u[f[j]] = g[j] /\ f[j] \in Int
          BY <1>1, <4>2
        <5>3. ASSUME NEW j \in S, NEW k \in S, j < k PROVE f[j] < f[k]
          <6>1. j \in 1 .. l /\ k \in 1 .. l
            BY <5>1
          <6>2. f[j] \in 1 .. n /\ u[f[j]] = g[j]
            BY <5>2
          <6>3. f[k] \in 1 .. n /\ u[f[k]] = g[k]
            BY <5>2
          <6> DEFINE a1 == f[j]  a2 == f[k]
          <6> HIDE DEF a1, a2
          <6>4. a1 \in 1 .. n /\ u[a1] = g[j] /\ a2 \in 1 .. n /\ u[a2] = g[k]
            BY <6>2, <6>3 DEF a1, a2
          <6>5. a1 < a2
            BY <1>3, <5>3, <6>1, <6>4
          <6> QED BY <6>5 DEF a1, a2
        <5>4. \A j, k \in S : f[j] = f[k] => ~(j < k) /\ ~(k < j)
          BY <5>2, <5>3
        <5> QED BY <5>1, <5>4
      <4>5. f \in Injection(S, T)
        <5>1. f \in [S -> T]
          BY <4>3
        <5> HIDE DEF f, S, T
        <5> QED BY <4>4, <5>1 DEF Injection, IsInjective
      <4>6. IsFiniteSet(T) /\ Cardinality(T) = IF a + 1 > n THEN 0 ELSE n - (a + 1) + 1
        <5>1. a + 1 \in Int /\ n \in Int
          BY <1>1
        <5> QED BY <5>1, FS_Interval
      <4>7. Cardinality(S) = IF 2 > l THEN 0 ELSE l - 2 + 1
        BY <1>1, FS_Interval
      <4>8. Cardinality(S) <= Cardinality(T)
        <5> HIDE DEF f, S, T
        <5> QED BY <4>5, <4>6, FS_Injection
      <4> HIDE DEF S, T
      <4> QED BY <1>1, <2>1, <2>2, <4>6, <4>7, <4>8
    <3>4. i = 1 \/ i \in 2 .. l
      BY <1>1
    <3> QED BY <3>2, <3>3, <3>4
  <2> QED BY <2>2 DEF Recent, n, t, tl
<1> QED BY <1>5, <1>6
-----------------------------------------------------------------------------
CallType == {NoCall} \cup [op : {"get", "set", "delete", "clear"}, key : CacheKey, now : Nat]

LruType ==
    /\ data \in Seq(Entry) /\ used \in Seq(Entry)
    /\ clock \in Nat
    /\ call \in [CacheThread -> CallType]

\* The time a call works with is not ahead of the clock.
Punctual == \A t \in CacheThread : call[t].op # "none" => call[t].now <= clock

LruInv ==
    /\ LruType /\ Punctual
    /\ Len(data) <= max_size
    /\ Distinct(data) /\ Distinct(used)
    /\ Linked(data, used)
    /\ Recent(data, used)

LEMMA CallFacts ==
    ASSUME LruInv, NEW t \in CacheThread, call[t].op # "none"
    PROVE  call[t].key \in CacheKey /\ call[t].now \in Nat /\ call[t].now <= clock
<1>1. call[t] \in CallType
  BY DEF LruInv, LruType
<1> QED BY <1>1 DEF LruInv, Punctual, CallType, NoCall

LEMMA ReturnsFacts ==
    ASSUME LruInv, NEW t \in CacheThread, NEW op, Returns(t, op)
    PROVE  call[t].op = op /\ clock' = clock /\ call' \in [CacheThread -> CallType] /\ Punctual'
<1>1. NoCall \in CallType /\ NoCall.op = "none"
  BY DEF CallType, NoCall
<1> QED BY <1>1 DEF LruInv, LruType, Returns, Punctual

\* The entry a hit moves.
LEMMA HeldFacts ==
    ASSUME LruInv, NEW k, Holds(k)
    PROVE  /\ EntryOf(k) \in Entry /\ EntryOf(k).key = k
           /\ \E i \in 1 .. Len(data) : data[i] = EntryOf(k)
<1>1. data \in Seq(Entry) /\ DOMAIN data = 1 .. Len(data)
  BY LenProperties DEF LruInv, LruType
<1>2. \E i \in DOMAIN data : data[i].key = k
  BY DEF Holds
<1> DEFINE i == CHOOSE i \in DOMAIN data : data[i].key = k
<1>3. i \in DOMAIN data /\ data[i].key = k
  BY <1>2
<1> HIDE DEF i
<1>4. EntryOf(k) = data[i]
  BY DEF EntryOf, i
<1>5. data[i] \in Entry
  BY <1>1, <1>3, ElementOfSeq
<1> QED BY <1>1, <1>3, <1>4, <1>5

\* A key is used: its entry is the last of both, and what is too much goes.
LEMMA UsedStep ==
    ASSUME LruInv, NEW t \in CacheThread, NEW op, Returns(t, op), NEW e \in Entry,
           used' = Moved(used, e),
           \/ data' = Kept(Moved(data, e))
           \/ data' = Moved(data, e) /\ \E i \in 1 .. Len(data) : data[i].key = e.key
    PROVE  LruInv'
<1> DEFINE g == Moved(data, e)
           u == Moved(used, e)
<1>1. /\ data \in Seq(Entry) /\ used \in Seq(Entry) /\ Len(data) \in Nat /\ max_size \in Nat \ {0}
      /\ Len(data) <= max_size /\ Distinct(data) /\ Distinct(used) /\ Linked(data, used) /\ Recent(data, used)
      /\ clock \in Nat
  BY LenProperties, LruAssumption DEF LruInv, LruType
<1>2. /\ g \in Seq(Entry) /\ Distinct(g) /\ Len(g) \in Nat /\ (Len(g) = Len(data) + 1 \/ Len(g) = Len(data))
      /\ u \in Seq(Entry) /\ Distinct(u) /\ Len(u) \in Nat
  BY <1>1, MovedFacts
<1>3. Linked(g, u)
  BY <1>1, MovedLinked
<1>4. Recent(g, u)
  BY <1>1, MovedRecent
<1>5. Len(g) <= max_size + 1
  BY <1>1, <1>2
<1>6. clock' = clock /\ call' \in [CacheThread -> CallType] /\ Punctual'
  BY ReturnsFacts
<1> HIDE DEF g, u, Entry
<1>7. CASE data' = Kept(g)
  <2>1. Kept(g) \in Seq(Entry) /\ Len(Kept(g)) <= max_size /\ Distinct(Kept(g)) /\ Linked(Kept(g), g)
    BY <1>2, <1>5, KeptFacts DEF Entry
  <2>2. Len(Kept(g)) \in Nat
    BY <2>1, LenProperties
  <2>3. Linked(Kept(g), u)
    BY <1>2, <1>3, <2>1, <2>2, LinkedTransitive
  <2>4. Recent(Kept(g), u)
    BY <1>2, <1>3, <1>4, <1>5, KeptRecent DEF Entry
  <2>5. used' = u
    BY DEF u
  <2> QED BY <1>1, <1>2, <1>6, <1>7, <2>1, <2>3, <2>4, <2>5 DEF LruInv, LruType, Recent
<1>8. CASE data' = g /\ \E i \in 1 .. Len(data) : data[i].key = e.key
  <2>1. Len(g) = Len(data)
    <3>1. PICK i \in 1 .. Len(data) : data[i].key = e.key
      BY <1>8
    <3>2. PICK j \in 1 .. Len(data) + 1 : Removed(data, Without(data, e.key), e.key, j)
      BY <1>1, WithoutFacts DEF Entry
    <3>3. j <= Len(data) /\ Len(Without(data, e.key)) = Len(data) - 1
      BY <1>1, <3>1, <3>2 DEF Removed
    <3>4. Len(g) = Len(Without(data, e.key)) + 1
      BY <3>2, AppendProperties DEF g, Moved, Removed
    <3> QED BY <1>1, <3>3, <3>4
  <2>2. used' = u
    BY DEF u
  <2> QED BY <1>1, <1>2, <1>3, <1>4, <1>6, <1>8, <2>1, <2>2 DEF LruInv, LruType, Recent
<1> QED BY <1>7, <1>8 DEF g

LEMMA LruStarts ==
    ASSUME LruInit
    PROVE  LruInv
<1>1. data = <<>> /\ used = <<>> /\ clock = 0 /\ call = [t \in CacheThread |-> NoCall]
  BY DEF LruInit
<1>2. <<>> \in Seq(Entry) /\ Len(<<>>) = 0 /\ max_size \in Nat
  BY EmptySeq, LruAssumption
<1>3. LruType /\ Punctual
  BY <1>1, <1>2 DEF LruType, Punctual, CallType, NoCall
<1>4. Distinct(data) /\ Linked(data, used) /\ Recent(data, used) /\ Distinct(used) /\ Len(data) <= max_size
  BY <1>1, <1>2 DEF Distinct, Linked, Recent
<1> QED BY <1>3, <1>4 DEF LruInv

\* A key that has expired is dropped.
LEMMA ExpiredStep ==
    ASSUME LruInv, NEW t \in CacheThread, NEW op, Returns(t, op), op # "none",
           Holds(call[t].key), call[t].now > EntryOf(call[t].key).expires,
           data' = Without(data, call[t].key), used' = used
    PROVE  LruInv'
<1> DEFINE k == call[t].key
           w == Without(data, k)
<1>1. /\ data \in Seq(Entry) /\ used \in Seq(Entry) /\ Len(data) \in Nat /\ Len(used) \in Nat
      /\ max_size \in Nat /\ Len(data) <= max_size /\ Distinct(data) /\ Distinct(used)
      /\ Linked(data, used) /\ Recent(data, used) /\ DOMAIN used = 1 .. Len(used)
  BY LenProperties, LruAssumption DEF LruInv, LruType
<1>2. clock' = clock /\ call' \in [CacheThread -> CallType] /\ Punctual' /\ clock \in Nat
      /\ call[t].now \in Nat /\ call[t].now <= clock
  BY ReturnsFacts, CallFacts DEF LruInv, LruType
<1>3. /\ w \in Seq(Entry) /\ Len(w) \in Nat /\ Len(w) <= Len(data) /\ Distinct(w) /\ Linked(w, data)
      /\ \A x \in 1 .. Len(data) : data[x].key # k => \E i \in 1 .. Len(w) : w[i] = data[x]
  <2>1. data \in Seq(Entry) /\ Distinct(data)
    BY <1>1
  <2> HIDE DEF k
  <2> QED BY <2>1, WithoutLinked
<1>4. Linked(w, used)
  BY <1>1, <1>3, LinkedTransitive
<1>5. \A a \in 1 .. Len(used) : used[a].key = k => clock > used[a].expires
  <2> SUFFICES ASSUME NEW a \in 1 .. Len(used), used[a].key = k PROVE clock > used[a].expires
    OBVIOUS
  <2>1. PICK i \in 1 .. Len(data) : data[i] = EntryOf(k) /\ EntryOf(k).key = k /\ EntryOf(k) \in Entry
    BY HeldFacts
  <2>2. PICK b \in 1 .. Len(used) : used[b] = data[i]
    BY <1>1, <2>1 DEF Linked
  <2>3. a = b
    BY <1>1, <2>1, <2>2 DEF Distinct
  <2>4. call[t].now > used[a].expires /\ used[a].expires \in Int
    BY <2>1, <2>2, <2>3 DEF Entry
  <2> QED BY <1>2, <2>4
<1>6. Recent(w, used)
  <2> SUFFICES ASSUME NEW a \in 1 .. Len(used), a > Len(used) - max_size, ~(clock > used[a].expires)
               PROVE  \E j \in 1 .. Len(w) : w[j].key = used[a].key
    BY DEF Recent
  <2>1. PICK j \in 1 .. Len(data) : data[j].key = used[a].key
    BY <1>1 DEF Recent
  <2>2. data[j].key # k
    BY <1>5, <2>1
  <2> QED BY <1>3, <2>1, <2>2
<1>7. data' = w
  OBVIOUS
<1> HIDE DEF w, k, Entry
<1>8. Len(w) <= max_size
  BY <1>1, <1>3
<1> QED BY <1>1, <1>2, <1>3, <1>4, <1>6, <1>7, <1>8 DEF LruInv, LruType, Recent

LEMMA LruGets ==
    ASSUME LruInv, NEW t \in CacheThread, get(t)
    PROVE  LruInv'
<1> DEFINE k == call[t].key
<1>1. Returns(t, "get")
  BY DEF get
<1>2. call[t].op = "get" /\ clock' = clock /\ call' \in [CacheThread -> CallType] /\ Punctual'
  BY <1>1, ReturnsFacts
<1>3. CASE ~Holds(k) /\ UNCHANGED <<data, used>>
  BY <1>2, <1>3 DEF LruInv, LruType, Recent
<1>4. CASE Holds(k) /\ call[t].now > EntryOf(k).expires /\ data' = Without(data, k) /\ UNCHANGED used
  BY <1>1, <1>4, ExpiredStep
<1>5. CASE /\ Holds(k) /\ data' = Append(Without(data, k), EntryOf(k)) /\ Uses(k, EntryOf(k).expires)
  <2>1. EntryOf(k) \in Entry /\ EntryOf(k).key = k /\ \E i \in 1 .. Len(data) : data[i] = EntryOf(k)
    BY <1>5, HeldFacts
  <2>2. [key |-> k, expires |-> EntryOf(k).expires] = EntryOf(k)
    BY <2>1 DEF Entry
  <2>3. data' = Moved(data, EntryOf(k)) /\ used' = Moved(used, EntryOf(k))
    BY <1>5, <2>1, <2>2 DEF Moved, Uses
  <2> QED BY <1>1, <2>1, <2>3, UsedStep
<1> QED BY <1>3, <1>4, <1>5 DEF get

LEMMA LruSets ==
    ASSUME LruInv, NEW t \in CacheThread, set(t)
    PROVE  LruInv'
<1> DEFINE k == call[t].key
           e == [key |-> k, expires |-> call[t].now + ttl_seconds]
<1>1. Returns(t, "set") /\ call[t].op = "set"
  BY DEF set, Returns
<1>2. k \in CacheKey /\ call[t].now \in Nat /\ ttl_seconds \in Nat
  BY <1>1, CallFacts, LruAssumption
<1>3. e \in Entry /\ e.key = k
  BY <1>2 DEF Entry
<1>4. used' = Moved(used, e) /\ data' = Kept(Moved(data, e))
  BY <1>3 DEF set, Uses, Moved, Kept
<1> HIDE DEF e
<1> QED BY <1>1, <1>3, <1>4, UsedStep

LEMMA LruDeletes ==
    ASSUME LruInv, NEW t \in CacheThread, delete(t)
    PROVE  LruInv'
<1> DEFINE k == call[t].key
           w == Without(data, k)
           n == Len(used)
<1>1. /\ data \in Seq(Entry) /\ used \in Seq(Entry) /\ Len(data) \in Nat /\ n \in Nat
      /\ max_size \in Nat /\ Len(data) <= max_size /\ Distinct(data) /\ Distinct(used)
      /\ Linked(data, used) /\ Recent(data, used) /\ DOMAIN used = 1 .. n
  BY LenProperties, LruAssumption DEF LruInv, LruType
<1>2. Returns(t, "delete")
  BY DEF delete
<1>3. clock' = clock /\ call' \in [CacheThread -> CallType] /\ Punctual' /\ clock \in Nat
  BY <1>2, ReturnsFacts DEF LruInv, LruType
<1>4. /\ w \in Seq(Entry) /\ Len(w) \in Nat /\ Len(w) <= Len(data) /\ Distinct(w) /\ Linked(w, data)
      /\ \A i \in 1 .. Len(w) : w[i].key # k
      /\ \A x \in 1 .. Len(data) : data[x].key # k => \E i \in 1 .. Len(w) : w[i] = data[x]
  BY <1>1, WithoutLinked
<1>5. Linked(w, used)
  BY <1>1, <1>4, LinkedTransitive
<1>6. data' = w /\ used' = [i \in 1 .. n |-> IF used[i].key = k THEN [used[i] EXCEPT !.expires = -1] ELSE used[i]]
  BY <1>1 DEF delete
<1>7. \A i \in 1 .. n : used[i] \in Entry
  BY <1>1, ElementOfSeq
<1>8. \A i \in 1 .. n : /\ used'[i] \in Entry /\ used'[i].key = used[i].key
                        /\ used[i].key # k => used'[i] = used[i]
                        /\ used[i].key = k => used'[i].expires = -1
  BY <1>6, <1>7 DEF Entry
<1>9. used' \in Seq(Entry) /\ Len(used') = n /\ DOMAIN used' = 1 .. n
  <2>1. used' \in [1 .. n -> Entry]
    BY <1>6, <1>8
  <2> QED BY <1>1, <2>1, IsASeq, LenProperties
<1> HIDE DEF w, k, Entry
<1>10. Distinct(used')
  BY <1>1, <1>8, <1>9 DEF Distinct
<1>11. Linked(w, used')
  <2>1. \A i \in 1 .. Len(w) : \E a \in 1 .. n : used[a] = w[i]
    BY <1>5 DEF Linked
  <2>2. \A i, j \in 1 .. Len(w) : \A a, b \in 1 .. n : used[a] = w[i] /\ used[b] = w[j] /\ i < j => a < b
    BY <1>5 DEF Linked
  <2>3. \A i \in 1 .. Len(w) : \A a \in 1 .. n : used'[a] = w[i] <=> used[a] = w[i]
    BY <1>4, <1>8
  <2> QED BY <1>9, <2>1, <2>2, <2>3 DEF Linked
<1>12. \A a \in 1 .. n : a > n - max_size =>
          (\E j \in 1 .. Len(w) : w[j].key = used'[a].key) \/ clock > used'[a].expires
  <2> SUFFICES ASSUME NEW a \in 1 .. n, a > n - max_size
               PROVE  (\E j \in 1 .. Len(w) : w[j].key = used'[a].key) \/ clock > used'[a].expires
    OBVIOUS
  <2>1. CASE used[a].key = k
    BY <1>3, <1>8, <2>1
  <2>2. CASE used[a].key # k
    <3>1. (\E j \in 1 .. Len(data) : data[j].key = used[a].key) \/ clock > used[a].expires
      BY <1>1 DEF Recent
    <3> QED BY <1>4, <1>8, <2>2, <3>1
  <2> QED BY <2>1, <2>2
<1>13. Recent(data, used)'
  BY <1>3, <1>6, <1>9, <1>12 DEF Recent
<1>14. Len(w) <= max_size
  BY <1>1, <1>4
<1> QED BY <1>3, <1>4, <1>6, <1>9, <1>10, <1>11, <1>13, <1>14 DEF LruInv, LruType

\* The cache is never larger than max_size, and no thread, however late the time it
\* works with, evicts a live entry that is among the max_size last used.
THEOREM RecentKept == LruSpec => []RecentSurvives
<1>1. LruInit => LruInv
  BY LruStarts
<1>2. LruInv /\ [LruNext]_lruVars => LruInv'
  <2> SUFFICES ASSUME LruInv, [LruNext]_lruVars PROVE LruInv'
    OBVIOUS
  <2>0. LruType /\ Punctual
    BY DEF LruInv
  <2>1. ASSUME NEW t \in CacheThread, Enter(t) PROVE LruInv'
    <3>1. PICK op \in {"get", "set", "delete", "clear"}, k \in CacheKey :
             /\ call' = [call EXCEPT ![t] = [op |-> op, key |-> k, now |-> clock]]
             /\ UNCHANGED <<data, clock, used>>
      BY <2>1 DEF Enter
    <3>2. [op |-> op, key |-> k, now |-> clock] \in CallType
      BY <2>0 DEF CallType, LruType
    <3>3. call' \in [CacheThread -> CallType]
      BY <2>0, <3>1, <3>2 DEF LruType
    <3>4. Punctual'
      BY <2>0, <3>1 DEF Punctual, LruType
    <3> QED BY <3>1, <3>3, <3>4 DEF LruInv, LruType, Recent
  <2>2. ASSUME NEW t \in CacheThread, clear(t) PROVE LruInv'
    <3>1. data' = <<>> /\ used' = <<>> /\ clock' = clock /\ call' \in [CacheThread -> CallType] /\ Punctual'
      BY <2>2, ReturnsFacts DEF clear
    <3>2. <<>> \in Seq(Entry) /\ Len(<<>>) = 0 /\ max_size \in Nat
      BY EmptySeq, LruAssumption
    <3>3. Distinct(<<>>) /\ Linked(<<>>, <<>>)
      BY <3>2 DEF Distinct, Linked
    <3>4. Recent(data, used)'
      BY <3>1, <3>2 DEF Recent
    <3> QED BY <2>0, <3>1, <3>2, <3>3, <3>4 DEF LruInv, LruType
  <2>3. CASE Later
    <3>1. clock' = clock + 1 /\ clock \in Nat /\ UNCHANGED <<data, call, used>>
      BY <2>0, <2>3 DEF Later, LruType
    <3>2. Punctual'
      <4>1. \A t \in CacheThread : call[t].op # "none" => call[t].now \in Nat /\ call[t].now <= clock
        BY CallFacts
      <4> QED BY <3>1, <4>1 DEF Punctual
    <3>3. Recent(data, used)'
      <4>0. \A i \in 1 .. Len(used) : used[i] \in Entry
        <5>1. used \in Seq(Entry)
          BY <2>0 DEF LruType
        <5> HIDE DEF Entry
        <5> QED BY <5>1, ElementOfSeq
      <4>1. \A i \in 1 .. Len(used) : used[i].expires \in Int
        BY <4>0 DEF Entry
      <4>2. Recent(data, used)
        BY DEF LruInv
      <4> QED BY <3>1, <4>1, <4>2 DEF Recent
    <3> QED BY <3>1, <3>2, <3>3 DEF LruInv, LruType
  <2>4. CASE UNCHANGED lruVars
    BY <2>4 DEF lruVars, LruInv, LruType, Punctual, Recent
  <2> QED BY <2>1, <2>2, <2>3, <2>4, LruGets, LruSets, LruDeletes DEF LruNext
<1>3. LruInv => RecentSurvives
  <2> SUFFICES ASSUME LruInv PROVE RecentSurvives
    OBVIOUS
  <2>1. DOMAIN used = 1 .. Len(used) /\ DOMAIN data = 1 .. Len(data)
    BY LenProperties DEF LruInv, LruType
  <2> QED BY <2>1 DEF LruInv, Recent, RecentSurvives, Holds
<1> QED BY <1>1, <1>2, <1>3, PTL DEF LruSpec
-----------------------------------------------------------------------------
\* The memory of the loop.

Line == [ts : Nat, value : Nat]
PromoterType ==
    [at : {"idle", "next", "append", "delete", "rewrite"}, left : SUBSET MemKey,
     key : MemKey \cup {"none"}, read : Seq(Nat \cup Line), hygiene : BOOLEAN]
Fact == [uuid : Nat, key : MemKey, named : BOOLEAN, by : Nat]

ScratchType ==
    /\ scratch \in [MemKey -> [value : Nat, since : Nat]]
    /\ episodic \in Seq(Line)
    /\ promoter \in [Promoter -> PromoterType]
    /\ puts \in Nat /\ day \in Nat

FactType ==
    /\ facts \in Seq(Fact)
    /\ fact \in [uuid : Nat, key : MemKey \cup {"none"}]
    /\ uuids \in Nat

\* The values of the lines of q, each on one line.
Once(q) == \A i, j \in 1 .. Len(q) : q[i].value = q[j].value => i = j
On(q, v) == \E i \in 1 .. Len(q) : q[i].value = v

\* The number of a put is not used again, and stands in scratch for one key.
PutInv ==
    /\ \A k \in MemKey : scratch[k].value <= puts /\ (scratch[k].value = 0 => scratch[k] = NoEntry)
    /\ \A k, l \in MemKey : scratch[k].value = scratch[l].value /\ scratch[k].value # 0 => k = l
    /\ \A i \in 1 .. Len(episodic) : episodic[i].value \in 1 .. puts

\* What is in the file is in scratch no longer, but for the entry that is about to be
\* deleted there.
FileInv ==
    /\ Once(episodic)
    /\ \A k \in MemKey : On(episodic, scratch[k].value) =>
          \E t \in Promoter : promoter[t].at = "delete" /\ promoter[t].key = k

\* What a promotion holds is in no line yet, and in scratch for its key only; what
\* hygiene holds is in the file.
HoldInv ==
    \A t \in Promoter :
        /\ promoter[t].at \in {"append", "delete"} => promoter[t].key \in MemKey
        /\ promoter[t].at = "append" =>
              /\ promoter[t].read[1] \in 1 .. puts /\ ~On(episodic, promoter[t].read[1])
              /\ \A k \in MemKey : scratch[k].value = promoter[t].read[1] => k = promoter[t].key
        /\ promoter[t].at = "rewrite" =>
              /\ promoter[t].read \in Seq(Line) /\ Once(promoter[t].read)
              /\ \A i \in 1 .. Len(promoter[t].read) : On(episodic, promoter[t].read[i].value)

Current(f) == f.named /\ f.by = NotSuperseded

\* Between the two halves of a promotion no fact whose text names the key is current.
FactInv ==
    /\ \A m, n \in 1 .. Len(facts) :
          Current(facts[m]) /\ Current(facts[n]) /\ facts[m].key = facts[n].key => m = n
    /\ fact # NoFact => fact.key \in MemKey /\ \A n \in 1 .. Len(facts) : Current(facts[n]) => facts[n].key # fact.key

ScratchInv == ScratchType /\ PutInv /\ FileInv /\ HoldInv
FactsInv == FactType /\ FactInv

LEMMA MemoryStarts ==
    ASSUME MemoryInit
    PROVE  ScratchInv /\ FactsInv
<1>1. <<>> \in Seq(Line) /\ <<>> \in Seq(Nat \cup Line) /\ <<>> \in Seq(Fact) /\ Len(<<>>) = 0
  BY EmptySeq
<1>2. Resting \in PromoterType /\ Resting.at = "idle"
  BY <1>1 DEF Resting, PromoterType
<1>3. ScratchType /\ FactType
  BY <1>1, <1>2 DEF MemoryInit, ScratchType, FactType, NoEntry, NoFact
<1>4. PutInv
  BY <1>1 DEF MemoryInit, PutInv, NoEntry
<1>5. FileInv /\ HoldInv
  BY <1>1, <1>2 DEF MemoryInit, FileInv, HoldInv, Once, On
<1>6. FactInv
  BY <1>1 DEF MemoryInit, FactInv
<1> QED BY <1>3, <1>4, <1>5, <1>6 DEF ScratchInv, FactsInv

LEMMA MarkedFacts ==
    ASSUME FactType, NEW key \in MemKey, NEW new \in Nat \ {0}
    PROVE  LET marked == _mark_superseded(key, new)
           IN  /\ marked \in Seq(Fact) /\ Len(marked) = Len(facts)
               /\ \A n \in 1 .. Len(facts) :
                     /\ marked[n].key = facts[n].key /\ marked[n].named = facts[n].named
                     /\ marked[n].by = facts[n].by \/ marked[n].by = new
                     /\ facts[n].named /\ facts[n].key = key => ~Current(marked[n])
<1> DEFINE m == _mark_superseded(key, new)
           l == Len(facts)
<1>1. /\ l \in Nat /\ DOMAIN facts = 1 .. l /\ facts \in Seq(Fact) /\ \A n \in 1 .. l : facts[n] \in Fact
  <2>1. facts \in Seq(Fact)
    BY DEF FactType
  <2> HIDE DEF Fact
  <2> QED BY <2>1, LenProperties, ElementOfSeq
<1>2. \E open : m = [n \in 1 .. l |->
                 IF (open[n - 1] \/ (facts[n].named /\ facts[n].key = key)) /\ facts[n].by = NotSuperseded
                 THEN [facts[n] EXCEPT !.by = new] ELSE facts[n]]
  BY <1>1 DEF _mark_superseded
<1>3. \A n \in 1 .. l :
         /\ m[n] \in Fact
         /\ m[n].key = facts[n].key /\ m[n].named = facts[n].named
         /\ m[n].by = facts[n].by \/ m[n].by = new
         /\ facts[n].named /\ facts[n].key = key => m[n].by # NotSuperseded
  <2> HIDE DEF m, l
  <2>1. PICK open : m = [n \in 1 .. l |->
                 IF (open[n - 1] \/ (facts[n].named /\ facts[n].key = key)) /\ facts[n].by = NotSuperseded
                 THEN [facts[n] EXCEPT !.by = new] ELSE facts[n]]
    BY <1>2
  <2> SUFFICES ASSUME NEW n \in 1 .. l
               PROVE  /\ m[n] \in Fact
                      /\ m[n].key = facts[n].key /\ m[n].named = facts[n].named
                      /\ m[n].by = facts[n].by \/ m[n].by = new
                      /\ facts[n].named /\ facts[n].key = key => m[n].by # NotSuperseded
    OBVIOUS
  <2>2. facts[n] \in Fact
    BY <1>1
  <2>3. CASE m[n] = [facts[n] EXCEPT !.by = new]
    BY <2>2, <2>3 DEF Fact, NotSuperseded
  <2>4. CASE /\ m[n] = facts[n]
             /\ ~(facts[n].named /\ facts[n].key = key) \/ facts[n].by # NotSuperseded
    BY <2>2, <2>4
  <2> QED BY <2>1, <2>3, <2>4
<1>4. m \in Seq(Fact) /\ Len(m) = l
  <2>1. m \in [1 .. l -> Fact]
    <3> HIDE DEF m, l
    <3> QED BY <1>2, <1>3
  <2> HIDE DEF m
  <2> QED BY <1>1, <2>1, IsASeq, LenProperties
<1> HIDE DEF m, l
<1> QED BY <1>3, <1>4 DEF m, l, Current

\* A put and a clear.  The number of a put is in no line yet.
LEMMA ScratchPuts ==
    ASSUME ScratchInv, scratch_put
    PROVE  ScratchInv'
<1> DEFINE e == [value |-> puts + 1, since |-> day]
<1>1. PICK k \in MemKey : scratch' = [scratch EXCEPT ![k] = e]
  BY DEF scratch_put
<1>2. puts \in Nat /\ day \in Nat /\ puts' = puts + 1
  BY DEF ScratchInv, ScratchType, scratch_put
<1>3. e \in [value : Nat, since : Nat] /\ e.value = puts + 1
  BY <1>2
<1> HIDE DEF e
<1>4. /\ scratch'[k] = e
      /\ \A l \in MemKey : l # k => scratch'[l] = scratch[l]
  BY <1>1 DEF ScratchInv, ScratchType
<1>5. UNCHANGED <<episodic, promoter, day>>
  BY DEF scratch_put
<1>6. ScratchType'
  BY <1>1, <1>2, <1>3, <1>5 DEF ScratchInv, ScratchType
<1>7. \A l \in MemKey : scratch[l].value \in Nat
  BY DEF ScratchInv, ScratchType
<1>8. PutInv'
  <2>1. \A l \in MemKey : scratch'[l].value <= puts' /\ (scratch'[l].value = 0 => scratch'[l] = NoEntry)
    BY <1>2, <1>3, <1>4, <1>7 DEF ScratchInv, PutInv
  <2>2. \A l, o \in MemKey : scratch'[l].value = scratch'[o].value /\ scratch'[l].value # 0 => l = o
    BY <1>2, <1>3, <1>4, <1>7 DEF ScratchInv, PutInv
  <2>3. \A i \in 1 .. Len(episodic') : episodic'[i].value \in 1 .. puts'
    BY <1>2, <1>5 DEF ScratchInv, PutInv
  <2> QED BY <2>1, <2>2, <2>3 DEF PutInv
<1>9. ~On(episodic, e.value)
  BY <1>2, <1>3 DEF ScratchInv, PutInv, On
<1>10. FileInv'
  BY <1>4, <1>5, <1>9 DEF ScratchInv, FileInv
<1>11. HoldInv'
  <2>1. \A t \in Promoter : promoter[t].at = "append" => promoter[t].read[1] \in 1 .. puts
    BY DEF ScratchInv, HoldInv
  <2>2. \A t \in Promoter : promoter[t].at = "append" =>
           /\ promoter[t].read[1] \in 1 .. puts'
           /\ \A l \in MemKey : scratch'[l].value = promoter[t].read[1] => l = promoter[t].key
    BY <1>2, <1>3, <1>4, <2>1 DEF ScratchInv, HoldInv
  <2> QED BY <1>5, <2>2 DEF ScratchInv, HoldInv
<1> QED BY <1>6, <1>8, <1>10, <1>11 DEF ScratchInv

LEMMA ScratchClears ==
    ASSUME ScratchInv, scratch' = [k \in MemKey |-> NoEntry], UNCHANGED <<episodic, promoter, puts, day>>
    PROVE  ScratchInv'
<1>1. /\ NoEntry \in [value : Nat, since : Nat] /\ NoEntry.value = 0
      /\ puts \in Nat
  BY DEF NoEntry, ScratchInv, ScratchType
<1>2. \A k \in MemKey : scratch'[k] = NoEntry
  OBVIOUS
<1>3. ScratchType'
  BY <1>1 DEF ScratchInv, ScratchType
<1>4. PutInv'
  BY <1>1, <1>2 DEF ScratchInv, PutInv
<1>5. FileInv'
  BY <1>1, <1>2 DEF ScratchInv, FileInv, PutInv, On
<1>6. HoldInv'
  BY <1>1, <1>2 DEF ScratchInv, HoldInv
<1> QED BY <1>3, <1>4, <1>5, <1>6 DEF ScratchInv

\* With one promoting thread no other is between its append and its delete.
LEMMA OthersRest ==
    ASSUME ScratchInv, \A s, t \in Promoter : s = t, NEW t \in Promoter, promoter[t].at # "delete"
    PROVE  \A k \in MemKey : ~On(episodic, scratch[k].value)
BY DEF ScratchInv, FileInv

LEMMA ScratchCollects ==
    ASSUME ScratchInv, \A s, t \in Promoter : s = t, NEW t \in Promoter, Collect(t)
    PROVE  ScratchInv'
<1>1. promoter \in [Promoter -> PromoterType] /\ promoter[t].at # "delete"
  BY DEF ScratchInv, ScratchType, Collect
<1>2. PICK h \in BOOLEAN : promoter' = [promoter EXCEPT ![t] =
          [Resting EXCEPT !.at = "next", !.hygiene = h, !.left = {k \in MemKey : should_promote(scratch[k])}]]
  BY DEF Collect
<1> DEFINE r == [Resting EXCEPT !.at = "next", !.hygiene = h, !.left = {k \in MemKey : should_promote(scratch[k])}]
<1>3. r.at = "next" /\ r \in PromoterType
  <2>1. <<>> \in Seq(Nat \cup Line)
    BY EmptySeq
  <2> QED BY <2>1 DEF Resting, PromoterType
<1> HIDE DEF r
<1>4. promoter'[t] = r /\ promoter' \in [Promoter -> PromoterType]
  BY <1>1, <1>2, <1>3 DEF r
<1>5. UNCHANGED <<scratch, episodic, puts, day>>
  BY DEF Collect
<1>6. ScratchType' /\ PutInv'
  BY <1>4, <1>5 DEF ScratchInv, ScratchType, PutInv
<1>7. FileInv'
  BY <1>1, <1>5, OthersRest DEF ScratchInv, FileInv
<1>8. HoldInv'
  BY <1>3, <1>4, <1>5 DEF HoldInv
<1> QED BY <1>6, <1>7, <1>8 DEF ScratchInv

LEMMA ScratchReads ==
    ASSUME ScratchInv, \A s, t \in Promoter : s = t, NEW t \in Promoter, ReadEntry(t)
    PROVE  ScratchInv'
<1>1. promoter \in [Promoter -> PromoterType] /\ promoter[t] \in PromoterType /\ promoter[t].at = "next"
  BY DEF ScratchInv, ScratchType, ReadEntry
<1>2. PICK k \in promoter[t].left :
          promoter' = [promoter EXCEPT ![t].left = @ \ {k},
              ![t].at = IF scratch[k] = NoEntry THEN "next" ELSE "append",
              ![t].key = k, ![t].read = <<scratch[k].value>>]
  BY DEF ReadEntry
<1>3. k \in MemKey /\ scratch[k].value \in Nat
  <2>1. k \in MemKey
    BY <1>1 DEF PromoterType
  <2> QED BY <2>1 DEF ScratchInv, ScratchType
<1> DEFINE r == [promoter[t] EXCEPT !.left = @ \ {k}, !.at = IF scratch[k] = NoEntry THEN "next" ELSE "append",
                                    !.key = k, !.read = <<scratch[k].value>>]
<1>4. /\ r \in PromoterType /\ r.at \in {"next", "append"} /\ r.key = k /\ r.read = <<scratch[k].value>>
      /\ r.at = "append" => scratch[k] # NoEntry
  <2>1. <<scratch[k].value>> \in Seq(Nat \cup Line)
    BY <1>3, EmptySeq
  <2> QED BY <1>1, <1>3, <2>1 DEF PromoterType
<1>5. promoter' = [promoter EXCEPT ![t] = r]
  BY <1>1, <1>2
<1> HIDE DEF r
<1>6. promoter'[t] = r /\ promoter' \in [Promoter -> PromoterType]
  BY <1>1, <1>4, <1>5
<1>7. UNCHANGED <<scratch, episodic, puts, day>>
  BY DEF ReadEntry
<1>8. ScratchType' /\ PutInv'
  BY <1>6, <1>7 DEF ScratchInv, ScratchType, PutInv
<1>9. FileInv'
  BY <1>1, <1>7, OthersRest DEF ScratchInv, FileInv
<1>10. r.at = "append" => r.read[1] \in 1 .. puts /\ ~On(episodic, r.read[1])
  <2>1. ~On(episodic, scratch[k].value)
    BY <1>1, <1>3, OthersRest
  <2>2. scratch[k] # NoEntry => scratch[k].value \in 1 .. puts
    BY <1>3 DEF ScratchInv, PutInv, ScratchType
  <2> QED BY <1>4, <2>1, <2>2
<1>11. r.at = "append" => \A l \in MemKey : scratch[l].value = r.read[1] => l = r.key
  <2>1. scratch[k] # NoEntry => scratch[k].value # 0
    BY <1>3 DEF ScratchInv, PutInv
  <2> QED BY <1>3, <1>4, <2>1 DEF ScratchInv, PutInv
<1>12. HoldInv'
  BY <1>3, <1>4, <1>6, <1>7, <1>10, <1>11 DEF HoldInv
<1> QED BY <1>8, <1>9, <1>12 DEF ScratchInv

LEMMA ScratchAppends ==
    ASSUME ScratchInv, \A s, t \in Promoter : s = t, NEW t \in Promoter, AppendRecord(t)
    PROVE  ScratchInv'
<1> DEFINE v == promoter[t].read[1]
           line == [ts |-> day, value |-> v]
           l == Len(episodic)
<1>1. /\ promoter \in [Promoter -> PromoterType] /\ promoter[t] \in PromoterType
      /\ promoter[t].at = "append" /\ puts \in Nat /\ episodic \in Seq(Line)
  BY DEF ScratchInv, ScratchType, AppendRecord
<1>2. /\ v \in 1 .. puts /\ ~On(episodic, v) /\ promoter[t].key \in MemKey
      /\ \A k \in MemKey : scratch[k].value = v => k = promoter[t].key
  BY <1>1 DEF ScratchInv, HoldInv
<1>3. line \in Line /\ line.value = v
  BY <1>1, <1>2 DEF Line, ScratchInv, ScratchType
<1>4. UNCHANGED <<scratch, puts, day>> /\ episodic' = Append(episodic, line)
      /\ promoter' = [promoter EXCEPT ![t].at = "delete"]
  BY DEF AppendRecord
<1> HIDE DEF v, line
<1>5. /\ l \in Nat /\ episodic' \in Seq(Line) /\ Len(episodic') = l + 1
      /\ \A i \in 1 .. l : episodic'[i] = episodic[i]
      /\ episodic'[l + 1] = line
  BY <1>1, <1>3, <1>4, AppendProperties, LenProperties
<1>6. /\ promoter' \in [Promoter -> PromoterType] /\ promoter'[t].at = "delete"
      /\ promoter'[t].key = promoter[t].key
  <2>1. [promoter[t] EXCEPT !.at = "delete"] \in PromoterType
    BY <1>1 DEF PromoterType
  <2>2. promoter' = [promoter EXCEPT ![t] = [promoter[t] EXCEPT !.at = "delete"]]
    BY <1>1, <1>4
  <2> QED BY <1>1, <2>1, <2>2 DEF PromoterType
<1> HIDE DEF l
<1>7. ScratchType'
  BY <1>4, <1>5, <1>6 DEF ScratchInv, ScratchType
<1>8. \A k \in MemKey : ~On(episodic, scratch[k].value)
  BY <1>1, OthersRest
<1>9. \A i \in 1 .. l + 1 : i = l + 1 \/ i \in 1 .. l
  BY <1>5
<1>10. PutInv'
  <2>1. \A i \in 1 .. Len(episodic') : episodic'[i].value \in 1 .. puts
    BY <1>2, <1>3, <1>5, <1>9 DEF ScratchInv, PutInv, l
  <2> QED BY <1>4, <2>1 DEF ScratchInv, PutInv
<1>11. Once(episodic')
  <2>1. \A i, j \in 1 .. l : episodic[i].value = episodic[j].value => i = j
    BY DEF ScratchInv, FileInv, Once, l
  <2>2. \A i \in 1 .. l : episodic[i].value # v
    BY <1>2 DEF On, l
  <2> QED BY <1>3, <1>5, <1>9, <2>1, <2>2 DEF Once
<1>12. FileInv'
  <2>1. ASSUME NEW k \in MemKey, On(episodic', scratch'[k].value)
        PROVE  promoter'[t].at = "delete" /\ promoter'[t].key = k
    <3>1. On(episodic, scratch[k].value) \/ scratch[k].value = v
      BY <1>3, <1>4, <1>5, <1>9, <2>1 DEF On, l
    <3> QED BY <1>2, <1>6, <1>8, <3>1
  <2> QED BY <1>11, <2>1 DEF FileInv
<1>13. HoldInv'
  BY <1>2, <1>6 DEF HoldInv
<1> QED BY <1>7, <1>10, <1>12, <1>13 DEF ScratchInv

LEMMA ScratchDeletes ==
    ASSUME ScratchInv, \A s, t \in Promoter : s = t, NEW t \in Promoter, DeleteEntry(t)
    PROVE  ScratchInv'
<1> DEFINE k == promoter[t].key
<1>1. /\ promoter \in [Promoter -> PromoterType] /\ promoter[t] \in PromoterType
      /\ promoter[t].at = "delete" /\ k \in MemKey
      /\ UNCHANGED <<episodic, puts, day>> /\ puts \in Nat
      /\ scratch \in [MemKey -> [value : Nat, since : Nat]]
  BY DEF ScratchInv, ScratchType, HoldInv, DeleteEntry
<1>2. /\ NoEntry \in [value : Nat, since : Nat] /\ NoEntry.value = 0
      /\ Resting \in PromoterType /\ Resting.at = "idle"
  <2>1. <<>> \in Seq(Nat \cup Line)
    BY EmptySeq
  <2> QED BY <2>1 DEF NoEntry, Resting, PromoterType
<1>3. \E r \in PromoterType : r.at \in {"idle", "next"} /\ promoter' = [promoter EXCEPT ![t] = r]
  <2>1. CASE scratch[k] = NoEntry
    BY <1>2, <2>1 DEF DeleteEntry
  <2>2. CASE scratch[k] # NoEntry
    <3>1. [promoter[t] EXCEPT !.at = "next"] \in PromoterType /\ [promoter[t] EXCEPT !.at = "next"].at = "next"
      BY <1>1 DEF PromoterType
    <3>2. promoter' = [promoter EXCEPT ![t] = [promoter[t] EXCEPT !.at = "next"]]
      BY <1>1, <2>2 DEF DeleteEntry
    <3> QED BY <3>1, <3>2
  <2> QED BY <2>1, <2>2
<1>4. scratch' = [scratch EXCEPT ![k] = NoEntry]
  BY <1>1 DEF DeleteEntry
<1> HIDE DEF k
<1>5. /\ promoter' \in [Promoter -> PromoterType] /\ promoter'[t].at \in {"idle", "next"}
      /\ scratch'[k] = NoEntry /\ \A l \in MemKey : l # k => scratch'[l] = scratch[l]
  BY <1>1, <1>3, <1>4
<1>6. ScratchType'
  BY <1>1, <1>2, <1>4, <1>5 DEF ScratchInv, ScratchType
<1>7. PutInv'
  <2>1. \A l \in MemKey : scratch'[l].value <= puts' /\ (scratch'[l].value = 0 => scratch'[l] = NoEntry)
    BY <1>1, <1>2, <1>5 DEF ScratchInv, PutInv
  <2>2. \A l, o \in MemKey : scratch'[l].value = scratch'[o].value /\ scratch'[l].value # 0 => l = o
    BY <1>2, <1>5 DEF ScratchInv, PutInv
  <2> QED BY <1>1, <2>1, <2>2 DEF ScratchInv, PutInv
<1>8. FileInv'
  <2>1. ASSUME NEW l \in MemKey, On(episodic, scratch'[l].value)
        PROVE  FALSE
    <3>1. CASE l = k
      BY <1>1, <1>2, <1>5, <2>1, <3>1 DEF On, ScratchInv, PutInv
    <3>2. CASE l # k
      BY <1>5, <2>1, <3>2 DEF ScratchInv, FileInv, k
    <3> QED BY <3>1, <3>2
  <2> QED BY <1>1, <2>1 DEF ScratchInv, FileInv
<1>9. HoldInv'
  BY <1>5 DEF HoldInv
<1> QED BY <1>6, <1>7, <1>8, <1>9 DEF ScratchInv

\* The young records are a suffix of the file.
LEMMA YoungFacts ==
    ASSUME ScratchType
    PROVE  /\ YoungRecords \in Seq(Line)
           /\ \E c \in Nat : \A i \in 1 .. Len(YoungRecords) :
                  c + i \in 1 .. Len(episodic) /\ YoungRecords[i] = episodic[c + i]
<1> DEFINE l == Len(episodic)
           Old == {i \in DOMAIN episodic : episodic[i].ts < day - Retention}
           c == Cardinality(Old)
           y == SubSeq(episodic, c + 1, l)
<1>1. episodic \in Seq(Line) /\ l \in Nat /\ DOMAIN episodic = 1 .. l
  BY LenProperties DEF ScratchType
<1>2. c \in Nat
  <2>1. IsFiniteSet(1 .. l)
    <3>1. 1 \in Int /\ l \in Int
      BY <1>1
    <3> QED BY <3>1, FS_Interval
  <2>2. Old \in SUBSET (1 .. l)
    BY <1>1
  <2> HIDE DEF Old
  <2> QED BY <2>1, <2>2, FS_Subset, FS_CardinalityType
<1>3. YoungRecords = y
  BY DEF YoungRecords
<1> HIDE DEF c
<1>4. \A i \in c + 1 .. l : episodic[i] \in Line
  <2>1. \A i \in 1 .. l : episodic[i] \in Line
    <3> HIDE DEF Line
    <3> QED BY <1>1, ElementOfSeq
  <2> HIDE DEF l
  <2> QED BY <1>1, <1>2, <2>1
<1> HIDE DEF l
<1>5. /\ y \in Seq(Line) /\ Len(y) = IF c + 1 <= l THEN l - (c + 1) + 1 ELSE 0
      /\ \A i \in 1 .. l - (c + 1) + 1 : y[i] = episodic[c + 1 + i - 1]
  <2>1. c + 1 \in Int /\ l \in Int
    BY <1>1, <1>2
  <2> HIDE DEF Line
  <2> QED BY <2>1, <1>4, SubSeqProperties
<1> HIDE DEF y
<1>6. \A i \in 1 .. Len(y) : c + i \in 1 .. l /\ y[i] = episodic[c + i]
  <2>1. \A i \in 1 .. Len(y) : i \in 1 .. l - (c + 1) + 1 /\ c + 1 + i - 1 = c + i /\ c + i \in 1 .. l
    BY <1>1, <1>2, <1>5
  <2> QED BY <2>1, <1>5
<1> QED BY <1>2, <1>3, <1>5, <1>6 DEF l

LEMMA ScratchPromoted ==
    ASSUME ScratchInv, \A s, t \in Promoter : s = t, NEW t \in Promoter, Promoted(t)
    PROVE  ScratchInv'
<1>1. /\ promoter \in [Promoter -> PromoterType] /\ promoter[t].at = "next"
      /\ UNCHANGED <<scratch, episodic, puts, day>>
  BY DEF ScratchInv, ScratchType, Promoted
<1>2. /\ YoungRecords \in Seq(Line) /\ YoungRecords \in Seq(Nat \cup Line)
      /\ Once(YoungRecords) /\ \A i \in 1 .. Len(YoungRecords) : On(episodic, YoungRecords[i].value)
  <2>1. PICK c \in Nat : \A i \in 1 .. Len(YoungRecords) :
           c + i \in 1 .. Len(episodic) /\ YoungRecords[i] = episodic[c + i]
    BY YoungFacts DEF ScratchInv
  <2>2. YoungRecords \in Seq(Line) /\ \A i, j \in 1 .. Len(YoungRecords) : c + i = c + j => i = j
    BY <2>1, YoungFacts, LenProperties DEF ScratchInv
  <2>3. YoungRecords \in Seq(Nat \cup Line)
    <3> HIDE DEF Line
    <3>1. \A i \in 1 .. Len(YoungRecords) : YoungRecords[i] \in Nat \cup Line
      BY <2>2, ElementOfSeq
    <3> QED BY <2>2, <3>1, IsASeq, LenProperties
  <2>4. Once(YoungRecords)
    <3>1. \A i, j \in 1 .. Len(episodic) : episodic[i].value = episodic[j].value => i = j
      BY DEF Once, ScratchInv, FileInv
    <3>2. ASSUME NEW i \in 1 .. Len(YoungRecords), NEW j \in 1 .. Len(YoungRecords),
                 YoungRecords[i].value = YoungRecords[j].value
          PROVE  i = j
      <4>1. c + i = c + j
        BY <2>1, <3>1, <3>2
      <4> QED BY <2>2, <4>1
    <3> QED BY <3>2 DEF Once
  <2> QED BY <2>1, <2>2, <2>3, <2>4 DEF On
<1>3. PICK r \in PromoterType :
         /\ promoter' = [promoter EXCEPT ![t] = r]
         /\ r.at = "idle" \/ (r.at = "rewrite" /\ r.read = YoungRecords)
  <2>1. Resting \in PromoterType /\ Resting.at = "idle"
    <3>1. <<>> \in Seq(Nat \cup Line)
      BY EmptySeq
    <3> QED BY <3>1 DEF Resting, PromoterType
  <2> DEFINE r == [Resting EXCEPT !.at = "rewrite", !.read = YoungRecords]
  <2>2. r \in PromoterType /\ r.at = "rewrite" /\ r.read = YoungRecords
    BY <1>2, <2>1 DEF Resting, PromoterType
  <2>3. promoter' = [promoter EXCEPT ![t] = Resting] \/ promoter' = [promoter EXCEPT ![t] = r]
    BY DEF Promoted
  <2> HIDE DEF r
  <2> QED BY <2>1, <2>2, <2>3
<1>4. promoter' \in [Promoter -> PromoterType] /\ promoter'[t] = r
  BY <1>1, <1>3
<1>5. ScratchType' /\ PutInv'
  BY <1>1, <1>4 DEF ScratchInv, ScratchType, PutInv
<1>6. FileInv'
  BY <1>1, OthersRest DEF ScratchInv, FileInv
<1>7. HoldInv'
  BY <1>1, <1>2, <1>3, <1>4 DEF HoldInv
<1> QED BY <1>5, <1>6, <1>7 DEF ScratchInv

LEMMA ScratchRewrites ==
    ASSUME ScratchInv, \A s, t \in Promoter : s = t, NEW t \in Promoter, Rewrite(t)
    PROVE  ScratchInv'
<1>1. /\ promoter \in [Promoter -> PromoterType] /\ promoter[t].at = "rewrite"
      /\ UNCHANGED <<scratch, puts, day>> /\ episodic' = promoter[t].read
      /\ promoter' = [promoter EXCEPT ![t] = Resting]
  BY DEF ScratchInv, ScratchType, Rewrite
<1>2. Resting \in PromoterType /\ Resting.at = "idle"
  <2>1. <<>> \in Seq(Nat \cup Line)
    BY EmptySeq
  <2> QED BY <2>1 DEF Resting, PromoterType
<1>3. promoter' \in [Promoter -> PromoterType] /\ promoter'[t].at = "idle"
  BY <1>1, <1>2
<1>4. /\ episodic' \in Seq(Line) /\ Once(episodic')
      /\ \A i \in 1 .. Len(episodic') : On(episodic, episodic'[i].value)
  BY <1>1 DEF ScratchInv, HoldInv
<1>5. ScratchType'
  BY <1>1, <1>3, <1>4 DEF ScratchInv, ScratchType
<1>6. PutInv'
  <2>1. \A i \in 1 .. Len(episodic') : episodic'[i].value \in 1 .. puts
    BY <1>4 DEF On, ScratchInv, PutInv
  <2> QED BY <1>1, <2>1 DEF ScratchInv, PutInv
<1>7. FileInv'
  <2>1. \A v : On(episodic', v) => On(episodic, v)
    BY <1>4 DEF On
  <2> QED BY <1>1, <1>4, <2>1, OthersRest DEF FileInv
<1>8. HoldInv'
  BY <1>3 DEF HoldInv
<1> QED BY <1>5, <1>6, <1>7, <1>8 DEF ScratchInv

\* What a death leaves of the scratch half: the file, or nothing.
LEMMA ScratchDies ==
    ASSUME ScratchInv, Die
    PROVE  ScratchInv'
<1>1. /\ scratch' = [k \in MemKey |-> NoEntry] /\ promoter' = [t \in Promoter |-> Resting]
      /\ UNCHANGED <<puts, day>>
      /\ episodic' = episodic \/ episodic' = <<>>
  BY DEF Die
<1>2. /\ Resting \in PromoterType /\ Resting.at = "idle" /\ <<>> \in Seq(Line) /\ Len(<<>>) = 0
      /\ NoEntry \in [value : Nat, since : Nat] /\ NoEntry.value = 0
  <2>1. <<>> \in Seq(Nat \cup Line) /\ <<>> \in Seq(Line) /\ Len(<<>>) = 0
    BY EmptySeq
  <2> QED BY <2>1 DEF Resting, PromoterType, NoEntry
<1>3. \A k \in MemKey : scratch'[k] = NoEntry
  BY <1>1
<1>4. ScratchType'
  <2>1. episodic' \in Seq(Line) /\ puts \in Nat /\ day \in Nat
    BY <1>1, <1>2 DEF ScratchInv, ScratchType
  <2> HIDE DEF Line
  <2>2. scratch' \in [MemKey -> [value : Nat, since : Nat]]
    BY <1>1, <1>2
  <2>3. promoter' \in [Promoter -> PromoterType]
    BY <1>1, <1>2
  <2> QED BY <1>1, <2>1, <2>2, <2>3 DEF ScratchType
<1>5. PutInv'
  <2>1. \A i \in 1 .. Len(episodic') : episodic'[i].value \in 1 .. puts
    BY <1>1, <1>2 DEF ScratchInv, PutInv
  <2>2. puts \in Nat /\ puts' = puts
    BY <1>1 DEF ScratchInv, ScratchType
  <2>3. \A k \in MemKey : scratch'[k] = NoEntry /\ scratch'[k].value = 0
    BY <1>2, <1>3
  <2> QED BY <2>1, <2>2, <2>3 DEF PutInv
<1>6. FileInv'
  <2>1. Once(episodic')
    BY <1>1, <1>2 DEF Once, ScratchInv, FileInv
  <2>2. \A k \in MemKey : ~On(episodic', scratch'[k].value)
    BY <1>2, <1>3, <1>5 DEF On, PutInv
  <2> QED BY <2>1, <2>2 DEF FileInv
<1>7. HoldInv'
  BY <1>1, <1>2 DEF HoldInv
<1> QED BY <1>4, <1>5, <1>6, <1>7 DEF ScratchInv

LEMMA ScratchStep ==
    ASSUME ScratchInv, \A s, t \in Promoter : s = t, ScratchNext
    PROVE  ScratchInv'
<1>1. CASE clear_scratch
  BY <1>1, ScratchClears DEF clear_scratch
<1>2. CASE Tomorrow
  <2>1. ScratchType'
    BY <1>2 DEF Tomorrow, ScratchInv, ScratchType
  <2>2. PutInv' /\ FileInv' /\ HoldInv'
    BY <1>2 DEF Tomorrow, ScratchInv, PutInv, FileInv, HoldInv
  <2> QED BY <2>1, <2>2 DEF ScratchInv
<1>3. ASSUME NEW t \in Promoter,
             \/ Collect(t) \/ ReadEntry(t) \/ AppendRecord(t) \/ DeleteEntry(t) \/ Promoted(t) \/ Rewrite(t)
      PROVE  ScratchInv'
  BY <1>3, ScratchCollects, ScratchReads, ScratchAppends, ScratchDeletes, ScratchPromoted, ScratchRewrites
<1> QED BY <1>1, <1>2, <1>3, ScratchPuts, ScratchDies DEF ScratchNext

\* The facts.  The mark leaves no current fact that names the key, so that there is room
\* for the one that is written below.
LEMMA FactsStep ==
    ASSUME FactsInv, FactsNext
    PROVE  FactsInv'
<1> DEFINE l == Len(facts)
<1>1. /\ facts \in Seq(Fact) /\ l \in Nat /\ uuids \in Nat /\ DOMAIN facts = 1 .. l
      /\ \A n \in 1 .. l : facts[n] \in Fact
  <2>1. facts \in Seq(Fact) /\ uuids \in Nat
    BY DEF FactsInv, FactType
  <2> HIDE DEF Fact
  <2> QED BY <2>1, LenProperties, ElementOfSeq
<1>2. CASE MarkOld
  <2>1. PICK key \in MemKey :
           /\ fact' = [uuid |-> uuids + 1, key |-> key]
           /\ facts' = _mark_superseded(key, uuids + 1)
    BY <1>2 DEF MarkOld
  <2>2. uuids + 1 \in Nat \ {0} /\ uuids' = uuids + 1
    BY <1>1, <1>2 DEF MarkOld
  <2>3. /\ facts' \in Seq(Fact) /\ Len(facts') = l
        /\ \A n \in 1 .. l :
              /\ facts'[n].key = facts[n].key /\ facts'[n].named = facts[n].named
              /\ facts'[n].by = facts[n].by \/ facts'[n].by = uuids + 1
              /\ facts[n].named /\ facts[n].key = key => ~Current(facts'[n])
    BY <2>1, <2>2, MarkedFacts DEF FactsInv
  <2>4. FactType'
    BY <2>1, <2>2, <2>3 DEF FactType
  <2>5. \A n \in 1 .. l : Current(facts'[n]) => Current(facts[n]) /\ facts'[n].key # key
    BY <2>2, <2>3 DEF Current, NotSuperseded
  <2>6. \A m, n \in 1 .. l :
           Current(facts'[m]) /\ Current(facts'[n]) /\ facts'[m].key = facts'[n].key => m = n
    BY <2>3, <2>5 DEF FactsInv, FactInv
  <2>7. fact'.key = key
    BY <2>1
  <2> QED BY <2>3, <2>4, <2>5, <2>6, <2>7 DEF FactsInv, FactInv
<1>3. CASE WriteFact
  <2>1. PICK named \in BOOLEAN :
           facts' = Append(facts, [uuid |-> fact.uuid, key |-> fact.key, named |-> named, by |-> NotSuperseded])
    BY <1>3 DEF WriteFact
  <2> DEFINE f == [uuid |-> fact.uuid, key |-> fact.key, named |-> named, by |-> NotSuperseded]
  <2>2. /\ fact.uuid \in Nat /\ fact.key \in MemKey /\ fact' = NoFact /\ uuids' = uuids
        /\ \A n \in 1 .. l : Current(facts[n]) => facts[n].key # fact.key
    BY <1>3 DEF WriteFact, FactsInv, FactType, FactInv
  <2>3. f \in Fact /\ f.key = fact.key
    BY <2>2 DEF Fact, NotSuperseded
  <2> HIDE DEF f
  <2>4. /\ facts' \in Seq(Fact) /\ Len(facts') = l + 1
        /\ \A n \in 1 .. l : facts'[n] = facts[n]
        /\ facts'[l + 1] = f
    <3>1. facts' = Append(facts, f)
      BY <2>1 DEF f
    <3> HIDE DEF Fact
    <3> QED BY <1>1, <2>3, <3>1, AppendProperties
  <2>5. FactType'
    <3>1. NoFact \in [uuid : Nat, key : MemKey \cup {"none"}]
      BY DEF NoFact
    <3> QED BY <1>1, <2>2, <2>4, <3>1 DEF FactType
  <2>6. \A m, n \in 1 .. l : Current(facts[m]) /\ Current(facts[n]) /\ facts[m].key = facts[n].key => m = n
    BY DEF FactsInv, FactInv
  <2> HIDE DEF l
  <2>7. \A n \in 1 .. l + 1 : n = l + 1 \/ n \in 1 .. l
    BY <1>1
  <2>8. \A m, n \in 1 .. l + 1 :
           Current(facts'[m]) /\ Current(facts'[n]) /\ facts'[m].key = facts'[n].key => m = n
    BY <2>2, <2>3, <2>4, <2>6, <2>7
  <2> QED BY <2>2, <2>4, <2>5, <2>8 DEF FactsInv, FactInv
<1>4. CASE DieBetween
  <2>1. /\ fact' = NoFact /\ uuids' = uuids
        /\ facts' = facts \/ facts' = <<>>
        /\ NoFact \in [uuid : Nat, key : MemKey \cup {"none"}]
        /\ <<>> \in Seq(Fact) /\ Len(<<>>) = 0
    BY <1>4, EmptySeq DEF DieBetween, NoFact
  <2>2. facts' \in Seq(Fact)
    BY <1>1, <2>1
  <2>3. FactType'
    BY <1>1, <2>1, <2>2 DEF FactType
  <2>4. /\ \A m, n \in 1 .. l : Current(facts[m]) /\ Current(facts[n]) /\ facts[m].key = facts[n].key => m = n
        /\ Len(facts') = l \/ Len(facts') = 0
        /\ \A n \in 1 .. Len(facts') : n \in 1 .. l /\ facts'[n] = facts[n]
    BY <1>1, <2>1 DEF FactsInv, FactInv
  <2>5. FactInv'
    BY <2>1, <2>4 DEF FactInv
  <2> QED BY <2>3, <2>5 DEF FactsInv
<1> QED BY <1>2, <1>3, <1>4 DEF FactsNext

\* Nothing is remembered twice, for any keys, ages and bounds: with at most one thread
\* that promotes (promote_all takes its lock only to collect the keys, so two would append
\* one value twice), whatever is put, cleared or lost meanwhile.
THEOREM PromotedOnce ==
    ASSUME \A s, t \in Promoter : s = t
    PROVE  MemorySpec => []RememberedOnce
<1>1. MemoryInit => ScratchInv /\ FactsInv
  BY MemoryStarts
<1>2. ScratchInv /\ FactsInv /\ [ScratchNext \/ FactsNext]_memoryVars => ScratchInv' /\ FactsInv'
  <2> SUFFICES ASSUME ScratchInv, FactsInv, [ScratchNext \/ FactsNext]_memoryVars
               PROVE  ScratchInv' /\ FactsInv'
    OBVIOUS
  <2>1. ASSUME UNCHANGED <<facts, fact, uuids>> PROVE FactsInv'
    BY <2>1 DEF FactsInv, FactType, FactInv
  <2>2. ASSUME UNCHANGED <<scratch, episodic, promoter, puts, day>> PROVE ScratchInv'
    BY <2>2 DEF ScratchInv, ScratchType, PutInv, FileInv, HoldInv
  <2>3. CASE ScratchNext
    <3>1. UNCHANGED <<facts, fact, uuids>>
      BY <2>3 DEF ScratchNext, scratch_put, clear_scratch, Die, Tomorrow, Collect, ReadEntry,
                  AppendRecord, DeleteEntry, Promoted, Rewrite
    <3> QED BY <2>1, <2>3, <3>1, ScratchStep
  <2>4. CASE FactsNext
    <3>1. UNCHANGED <<scratch, episodic, promoter, puts, day>>
      BY <2>4 DEF FactsNext, MarkOld, WriteFact, DieBetween
    <3> QED BY <2>2, <2>4, <3>1, FactsStep
  <2>5. CASE UNCHANGED memoryVars
    BY <2>1, <2>2, <2>5 DEF memoryVars
  <2> QED BY <2>3, <2>4, <2>5
<1>3. ScratchInv /\ FactsInv => RememberedOnce
  <2> SUFFICES ASSUME ScratchInv, FactsInv PROVE RememberedOnce
    OBVIOUS
  <2>1. DOMAIN episodic = 1 .. Len(episodic) /\ DOMAIN facts = 1 .. Len(facts)
    BY LenProperties DEF ScratchInv, ScratchType, FactsInv, FactType
  <2> QED BY <2>1 DEF ScratchInv, FileInv, Once, FactsInv, FactInv, Current, RememberedOnce
<1> QED BY <1>1, <1>2, <1>3, PTL DEF MemorySpec
-----------------------------------------------------------------------------
\* The position page.

LEMMA BucketIs == Bucket = {"smallTradable", "smallReserve", "mid", "btc", "emergency"}
BY DEF Bucket, Ladder, Range

LEMMA DrainFacts ==
    ASSUME NEW acc, acc.remaining \in Balances, acc.consumed \in Balances, acc.left \in Int,
           NEW k \in Bucket
    PROVE  LET d == Drain(acc, k)
           IN  /\ d.remaining \in Balances /\ d.consumed \in Balances /\ d.left \in Int
               /\ d.remaining[k] = acc.remaining[k] - d.consumed[k]
               /\ \A j \in Bucket \ {k} :
                     d.remaining[j] = acc.remaining[j] /\ d.consumed[j] = acc.consumed[j]
<1> DEFINE amount == Take(acc, k)
           d == Drain(acc, k)
<1>1. acc.remaining[k] \in Nat
  BY DEF Balances
<1>2. amount \in Nat /\ acc.remaining[k] - amount \in Nat
  BY <1>1 DEF Take, Least
<1>3. d = Taken(acc, k, amount)
  BY DEF Drain
<1> HIDE DEF d
<1>4. /\ d.remaining = [acc.remaining EXCEPT ![k] = acc.remaining[k] - amount]
      /\ d.consumed = [acc.consumed EXCEPT ![k] = amount]
      /\ d.left = acc.left - amount
  BY <1>3 DEF Taken
<1> HIDE DEF amount, d
<1>5. d.left \in Int
  BY <1>2, <1>4
<1>6. d.remaining \in Balances /\ d.consumed \in Balances
  BY <1>2, <1>4 DEF Balances
<1> QED BY <1>1, <1>2, <1>4, <1>5, <1>6 DEF d, Balances

LEMMA WhatIfFacts ==
    ASSUME NEW b \in Balances, NEW trade \in Int
    PROVE  LET w == SimulateWhatIf(b, trade)
           IN  w.remaining \in Balances /\ \A k \in Bucket :
                  w.consumed[k] \in Nat /\ w.remaining[k] = b[k] - w.consumed[k]
<1> DEFINE whole == [remaining |-> b, consumed |-> [k \in Bucket |-> 0], left |-> trade]
           Fair(d) == d.remaining \in Balances /\ d.consumed \in Balances /\ d.left \in Int
           d1 == Drain(whole, "smallTradable")
           d2 == Drain(d1, "smallReserve")
           d3 == Drain(d2, "mid")
           d4 == Drain(d3, "btc")
           d5 == Drain(d4, "emergency")
           Same(d, e, k) == \A j \in Bucket \ {k} : d.remaining[j] = e.remaining[j] /\ d.consumed[j] = e.consumed[j]
           Spent(d, e, k) == d.remaining[k] = e.remaining[k] - d.consumed[k]
<1>1. Fair(whole) /\ whole.remaining = b /\ \A k \in Bucket : whole.consumed[k] = 0
  BY DEF Balances
<1>2. SimulateWhatIf(b, trade) = d5
  BY DEF SimulateWhatIf
<1> HIDE DEF whole
<1>3. Fair(d1) /\ Same(d1, whole, "smallTradable") /\ Spent(d1, whole, "smallTradable")
  BY <1>1, DrainFacts, BucketIs
<1> HIDE DEF d1
<1>4. Fair(d2) /\ Same(d2, d1, "smallReserve") /\ Spent(d2, d1, "smallReserve")
  <2>1. d1.consumed["smallReserve"] = 0
    BY <1>1, <1>3, BucketIs
  <2> QED BY <1>3, <2>1, DrainFacts, BucketIs
<1> HIDE DEF d2
<1>5. Fair(d3) /\ Same(d3, d2, "mid") /\ Spent(d3, d2, "mid")
  <2>1. d2.consumed["mid"] = 0
    BY <1>1, <1>3, <1>4, BucketIs
  <2> QED BY <1>4, <2>1, DrainFacts, BucketIs
<1> HIDE DEF d3
<1>6. Fair(d4) /\ Same(d4, d3, "btc") /\ Spent(d4, d3, "btc")
  <2>1. d3.consumed["btc"] = 0
    BY <1>1, <1>3, <1>4, <1>5, BucketIs
  <2> QED BY <1>5, <2>1, DrainFacts, BucketIs
<1> HIDE DEF d4
<1>7. Fair(d5) /\ Same(d5, d4, "emergency") /\ Spent(d5, d4, "emergency")
  <2>1. d4.consumed["emergency"] = 0
    BY <1>1, <1>3, <1>4, <1>5, <1>6, BucketIs
  <2> QED BY <1>6, <2>1, DrainFacts, BucketIs
<1> HIDE DEF d5
<1>8. \A k \in Bucket : d5.remaining[k] = b[k] - d5.consumed[k]
  BY <1>1, <1>3, <1>4, <1>5, <1>6, <1>7, BucketIs
<1>9. d5.remaining \in Balances /\ \A k \in Bucket : d5.consumed[k] \in Nat
  BY <1>7 DEF Balances
<1> QED BY <1>2, <1>8, <1>9

LEMMA DefaultFacts ==
    ASSUME NEW c \in Configs
    PROVE  CreateDefaultBalance(c) \in Balances
<1>1. /\ c.total \in Nat /\ c.cut \in Nat /\ c.emergency \in Nat /\ c.btc \in Nat /\ c.mid \in Nat
      /\ c.small \in Nat /\ c.tradable \in Nat /\ 100 - c.tradable \in Nat
  BY PageAssumption
<1>2. Regular(c) \in Nat
  BY <1>1 DEF Regular, Positive
<1>3. \A m, n \in Nat : m * n \in Nat
  OBVIOUS
<1>4. \A m \in Nat : m \div 100 \in Nat /\ m \div 10000 \in Nat
  OBVIOUS
<1> DEFINE r == Regular(c)
<1>5. /\ (r * c.emergency) \div 100 \in Nat /\ (r * c.btc) \div 100 \in Nat /\ (r * c.mid) \div 100 \in Nat
      /\ (r * c.small * c.tradable) \div 10000 \in Nat /\ (r * c.small * (100 - c.tradable)) \div 10000 \in Nat
  <2> HIDE DEF r
  <2>1. r \in Nat
    BY <1>2 DEF r
  <2> QED BY <1>1, <2>1, <1>3, <1>4
<1> QED BY <1>5, BucketIs DEF CreateDefaultBalance, Balances

\* The saved allocation of a user comes with the configuration it was made from, until a
\* user is new.
SavedOK(v) == v \in SavedValues /\ (v.config = None => v.balance = None)

TabType ==
    [open : BOOLEAN, user : Users \cup {None}, config : Configs \cup {None}, pristine : BOOLEAN,
     balance : Balances \cup {None}, load : SavedValues \cup {None}]

\* What a tab shows has the emergency money of its configuration, and what it waits for is
\* what was saved.
TabOK(x) ==
    /\ x \in TabType
    /\ x.load # None => SavedOK(x.load)
    /\ x.pristine => x.config = DefaultConfig
    /\ x.open /\ x.config # None =>
          x.balance \in Balances /\ x.balance.emergency = CreateDefaultBalance(x.config).emergency

PageInv ==
    /\ store = [u \in Users |-> store[u]] /\ \A u \in Users : SavedOK(store[u])
    /\ tab = [t \in Tabs |-> tab[t]] /\ \A t \in Tabs : TabOK(tab[t])
    /\ \A t \in Tabs : tab[t].open /\ tab[t].config # None /\ tab[t].user # None =>
          store[tab[t].user].config # None

LEMMA PageStarts ==
    ASSUME PageInit
    PROVE  PageInv
<1>1. None \notin Configs /\ DefaultConfig \in Configs
  BY PageAssumption
<1>2. Closed \in TabType /\ ~Closed.open /\ ~Closed.pristine /\ Closed.load = None
  BY DEF Closed, TabType
<1>3. TabOK(Closed)
  BY <1>2 DEF TabOK
<1> DEFINE v == [config |-> None, balance |-> None]
<1>4. SavedOK(v)
  BY DEF SavedOK, SavedValues
<1> HIDE DEF v
<1>5. store = [u \in Users |-> v] /\ tab = [t \in Tabs |-> Closed]
  BY DEF PageInit, v
<1> QED BY <1>2, <1>3, <1>4, <1>5 DEF PageInv

\* One tab goes on to y; nobody's configuration is forgotten.
LEMMA TabSteps ==
    ASSUME PageInv, NEW t \in Tabs, NEW y, TabOK(y), tab' = [tab EXCEPT ![t] = y],
           store' = [u \in Users |-> store'[u]], \A u \in Users : SavedOK(store'[u]),
           \A u \in Users : store[u].config # None => store'[u].config # None,
           y.open /\ y.config # None /\ y.user # None => store'[y.user].config # None
    PROVE  PageInv'
<1>1. /\ tab' = [q \in Tabs |-> tab'[q]] /\ tab'[t] = y
      /\ \A q \in Tabs : q # t => tab'[q] = tab[q]
      /\ \A q \in Tabs : TabOK(tab[q])
  BY DEF PageInv
<1>2. \A q \in Tabs : TabOK(tab'[q])
  BY <1>1
<1>3. \A q \in Tabs : tab[q].user # None => tab[q].user \in Users
  BY <1>1 DEF TabOK, TabType
<1>4. \A q \in Tabs : tab'[q].open /\ tab'[q].config # None /\ tab'[q].user # None =>
          store'[tab'[q].user].config # None
  BY <1>1, <1>3 DEF PageInv
<1> QED BY <1>1, <1>2, <1>4 DEF PageInv

LEMMA Unsaved ==
    ASSUME PageInv, NEW t \in Tabs, NEW y, TabOK(y), tab' = [tab EXCEPT ![t] = y], UNCHANGED store,
           y.open /\ y.config # None /\ y.user # None => store[y.user].config # None
    PROVE  PageInv'
<1>1. store = [u \in Users |-> store[u]] /\ \A u \in Users : SavedOK(store[u])
  BY DEF PageInv
<1> QED BY <1>1, TabSteps

LEMMA ShowSteps ==
    ASSUME PageInv, NEW t \in Tabs, NEW x \in TabType, NEW c \in Configs, ShowConfig(t, x, c),
           x.load # None => SavedOK(x.load), x.pristine => c = DefaultConfig
    PROVE  PageInv'
<1> DEFINE b == CreateDefaultBalance(c)
           y == [x EXCEPT !.config = c, !.balance = b]
<1>1. b \in Balances
  BY DefaultFacts
<1>2. tab' = [tab EXCEPT ![t] = y] /\ store' = Saved(x.user, c, b)
  BY DEF ShowConfig
<1>3. c # None /\ x.user \in Users \cup {None}
  BY PageAssumption DEF TabType
<1>4. /\ y \in TabType /\ y.load = x.load /\ y.pristine = x.pristine /\ y.user = x.user
      /\ y.config = c /\ y.balance = b
  <2> HIDE DEF b
  <2> QED BY <1>1 DEF TabType
<1> HIDE DEF y
<1>5. TabOK(y)
  BY <1>1, <1>4 DEF TabOK
<1>6. [config |-> c, balance |-> b] \in SavedValues /\ [config |-> c, balance |-> b].config = c
  <2> HIDE DEF b
  <2> QED BY <1>1 DEF SavedValues
<1>7. SavedOK([config |-> c, balance |-> b])
  BY <1>3, <1>6 DEF SavedOK
<1> HIDE DEF b
<1>8. /\ store = [u \in Users |-> store[u]] /\ \A u \in Users : SavedOK(store[u])
  BY DEF PageInv
<1>9. /\ store' = [u \in Users |-> store'[u]] /\ \A u \in Users : SavedOK(store'[u])
      /\ \A u \in Users : store[u].config # None => store'[u].config # None
      /\ x.user # None => store'[x.user].config # None
  <2> DEFINE v == [config |-> c, balance |-> b]
  <2>1. v.config = c /\ SavedOK(v)
    BY <1>6, <1>7
  <2>2. store' = IF x.user = None THEN store ELSE [store EXCEPT ![x.user] = v]
    BY <1>2 DEF Saved
  <2> HIDE DEF v
  <2> QED BY <1>3, <1>8, <2>1, <2>2
<1> QED BY <1>2, <1>4, <1>5, <1>9, TabSteps

LEMMA PageMounts ==
    ASSUME PageInv, NEW t \in Tabs, NEW u \in Users \cup {None}, Mount(t, u)
    PROVE  PageInv'
<1> DEFINE b == CreateDefaultBalance(DefaultConfig)
           y == IF u = None
                THEN [Closed EXCEPT !.open = TRUE, !.config = DefaultConfig, !.pristine = TRUE, !.balance = b]
                ELSE [Closed EXCEPT !.open = TRUE, !.user = u, !.load = store[u]]
<1>1. tab' = [tab EXCEPT ![t] = y] /\ UNCHANGED store
  BY DEF Mount
<1>2. /\ DefaultConfig \in Configs /\ b \in Balances /\ None \notin Configs /\ None \notin Users
      /\ u # None => SavedOK(store[u]) /\ store[u] \in SavedValues
  BY PageAssumption, DefaultFacts DEF PageInv, SavedOK
<1>3. CASE u = None
  <2>1. /\ y \in TabType /\ y.open /\ y.user = None /\ y.config = DefaultConfig
        /\ y.balance = b /\ y.load = None
    <3> HIDE DEF b
    <3> QED BY <1>2, <1>3 DEF Closed, TabType
  <2> HIDE DEF y
  <2>2. TabOK(y)
    BY <1>2, <2>1 DEF TabOK
  <2> QED BY <1>1, <2>1, <2>2, Unsaved
<1>4. CASE u # None
  <2>1. y \in TabType /\ y.config = None /\ ~y.pristine /\ y.load = store[u]
    <3> HIDE DEF b
    <3> QED BY <1>2, <1>4 DEF Closed, TabType
  <2> HIDE DEF y
  <2>2. TabOK(y)
    BY <1>2, <1>4, <2>1 DEF TabOK
  <2> QED BY <1>1, <2>1, <2>2, Unsaved
<1> QED BY <1>3, <1>4

LEMMA PageSwitches ==
    ASSUME PageInv, NEW t \in Tabs, NEW u \in Users \cup {None}, SwitchUser(t, u)
    PROVE  PageInv'
<1> DEFINE old == tab[t]
<1>1. /\ TabOK(old) /\ old \in TabType /\ old.open
      /\ DefaultConfig \in Configs /\ None \notin Configs /\ None \notin Users
      /\ u # None => SavedOK(store[u]) /\ store[u] \in SavedValues
  BY PageAssumption DEF SwitchUser, PageInv, TabOK, SavedOK
<1>2. CASE u = None
  <2> DEFINE x == [old EXCEPT !.user = None, !.pristine = TRUE, !.load = None]
  <2>1. ShowConfig(t, x, DefaultConfig)
    BY <1>2 DEF SwitchUser
  <2>2. x \in TabType /\ x.load = None
    BY <1>1 DEF TabType
  <2> HIDE DEF x
  <2> QED BY <1>1, <2>1, <2>2, ShowSteps
<1>3. CASE u # None
  <2> DEFINE x == [old EXCEPT !.user = u, !.load = store[u]]
  <2>1. IF old.config = None THEN tab' = [tab EXCEPT ![t] = x] /\ UNCHANGED store
                             ELSE ShowConfig(t, x, old.config)
    BY <1>3 DEF SwitchUser
  <2>2. /\ x \in TabType /\ x.load = store[u] /\ x.pristine = old.pristine /\ x.config = old.config
        /\ old.config \in Configs \cup {None}
    BY <1>1, <1>3 DEF TabType
  <2>3. x.pristine => x.config = DefaultConfig
    BY <1>1, <2>2 DEF TabOK
  <2> HIDE DEF x, old
  <2>4. CASE old.config = None
    <3>1. TabOK(x)
      BY <1>1, <1>3, <2>2, <2>3, <2>4 DEF TabOK
    <3> QED BY <2>1, <2>2, <2>4, <3>1, Unsaved
  <2>5. CASE old.config # None
    BY <1>1, <1>3, <2>1, <2>2, <2>3, <2>5, ShowSteps
  <2> QED BY <2>4, <2>5
<1> QED BY <1>2, <1>3

LEMMA PageLoads ==
    ASSUME PageInv, NEW t \in Tabs, Loaded(t)
    PROVE  PageInv'
<1> DEFINE old == tab[t]
           x == [old EXCEPT !.load = None, !.pristine = old.load.config = None]
<1>1. /\ TabOK(old) /\ old \in TabType /\ old.open /\ SavedOK(old.load) /\ old.load \in SavedValues
      /\ DefaultConfig \in Configs /\ None \notin Configs
  BY PageAssumption DEF Loaded, PageInv, TabOK, SavedOK
<1>2. /\ x \in TabType /\ x.load = None /\ x.pristine = (old.load.config = None)
      /\ x.config = old.config /\ x.open /\ x.user = old.user
      /\ old.load.config \in Configs \cup {None}
  BY <1>1 DEF TabType, SavedValues
<1>3. CASE old.load.config # None
  <2>1. ShowConfig(t, x, old.load.config)
    BY <1>3 DEF Loaded
  <2> HIDE DEF x, old
  <2> QED BY <1>1, <1>2, <1>3, <2>1, ShowSteps
<1>4. CASE old.load.config = None /\ ~old.pristine
  <2>1. ShowConfig(t, x, DefaultConfig)
    BY <1>4 DEF Loaded
  <2> HIDE DEF x, old
  <2> QED BY <1>1, <1>2, <2>1, ShowSteps
<1>5. CASE old.load.config = None /\ old.pristine
  <2> DEFINE b == CreateDefaultBalance(DefaultConfig)
             y == [x EXCEPT !.balance = b]
  <2>1. old.load.balance = None /\ old.config = DefaultConfig /\ b \in Balances
    BY <1>1, <1>5, DefaultFacts DEF SavedOK, TabOK
  <2>2. tab' = [tab EXCEPT ![t] = y] /\ UNCHANGED store
    <3>1. /\ tab' = [tab EXCEPT ![t] = [x EXCEPT !.balance =
                        IF old.load.balance = None THEN b ELSE old.load.balance]]
          /\ UNCHANGED store
      BY <1>5 DEF Loaded
    <3> QED BY <2>1, <3>1
  <2>3. /\ y \in TabType /\ y.load = None /\ y.config = DefaultConfig /\ y.balance = b /\ y.user = old.user
    <3> HIDE DEF b, x
    <3> QED BY <1>2, <2>1 DEF TabType
  <2>4. old.user # None => store[old.user].config # None
    BY <1>1, <2>1 DEF PageInv
  <2> HIDE DEF y, x, old
  <2>5. TabOK(y)
    BY <2>1, <2>3 DEF TabOK
  <2> QED BY <2>2, <2>3, <2>4, <2>5, Unsaved
<1> QED BY <1>3, <1>4, <1>5

LEMMA PageUpdates ==
    ASSUME PageInv, NEW t \in Tabs, NEW c \in Configs, UpdateConfig(t, c)
    PROVE  PageInv'
<1> DEFINE x == [tab[t] EXCEPT !.pristine = FALSE]
<1>1. tab[t] \in TabType /\ tab[t].load = None
  BY DEF UpdateConfig, Ready, PageInv, TabOK
<1>2. x \in TabType /\ x.load = None /\ ~x.pristine
  BY <1>1 DEF TabType
<1>3. ShowConfig(t, x, c)
  BY DEF UpdateConfig
<1> HIDE DEF x
<1> QED BY <1>2, <1>3, ShowSteps

LEMMA PageArchives ==
    ASSUME PageInv, NEW t \in Tabs, NEW trade \in Trades, ArchiveWhatIf(t, trade)
    PROVE  PageInv'
<1> DEFINE old == tab[t]
           w == SimulateWhatIf(old.balance, trade)
           b == w.remaining
           y == [old EXCEPT !.balance = b]
<1>1. /\ TabOK(old) /\ old \in TabType /\ old.open /\ old.config # None /\ old.load = None
      /\ trade \in Int /\ old.user \in Users \cup {None}
  BY PageAssumption DEF ArchiveWhatIf, Ready, Shows, PageInv, TabOK, TabType
<1>2. old.balance \in Balances
  BY <1>1 DEF TabOK
<1>3. b \in Balances /\ b.emergency = old.balance.emergency
  <2>1. ~(w.consumed.emergency > 0)
    BY DEF ArchiveWhatIf, TouchesEmergency
  <2>2. /\ b \in Balances
        /\ \A k \in Bucket : w.consumed[k] \in Nat /\ b[k] = old.balance[k] - w.consumed[k]
    BY <1>1, <1>2, WhatIfFacts
  <2>3. "emergency" \in Bucket
    BY BucketIs
  <2>4. old.balance["emergency"] \in Nat
    BY <1>2, <2>3 DEF Balances
  <2> HIDE DEF w
  <2> QED BY <2>1, <2>2, <2>3, <2>4
<1>4. /\ tab' = [tab EXCEPT ![t] = y]
      /\ store' = IF old.user = None THEN store ELSE [store EXCEPT ![old.user].balance = b]
  BY DEF ArchiveWhatIf
<1> HIDE DEF w, b
<1>5. /\ y \in TabType /\ y.load = None /\ y.config = old.config /\ y.balance = b
      /\ y.user = old.user /\ y.pristine = old.pristine
  BY <1>1, <1>3 DEF TabType
<1>6. /\ store = [u \in Users |-> store[u]] /\ \A u \in Users : SavedOK(store[u])
      /\ old.user # None => store[old.user].config # None
  BY <1>1 DEF PageInv
<1> HIDE DEF y, old
<1>7. TabOK(y)
  BY <1>1, <1>3, <1>5 DEF TabOK
<1>8. /\ store' = [u \in Users |-> store'[u]] /\ \A u \in Users : SavedOK(store'[u])
      /\ \A u \in Users : store[u].config # None => store'[u].config # None
  <2>1. CASE old.user = None
    BY <1>4, <1>6, <2>1
  <2>2. CASE old.user # None
    <3> DEFINE u == old.user
               v == [store[u] EXCEPT !.balance = b]
    <3>1. u \in Users /\ store[u] \in SavedValues /\ store[u].config # None
      BY <1>1, <1>6, <2>2 DEF SavedOK
    <3>2. v \in SavedValues /\ v.config = store[u].config
      BY <1>3, <3>1 DEF SavedValues
    <3>3. SavedOK(v)
      BY <3>1, <3>2 DEF SavedOK
    <3>4. store' = [store EXCEPT ![u] = v]
      BY <1>4, <2>2, <3>1
    <3> HIDE DEF v, u
    <3> QED BY <1>6, <3>1, <3>2, <3>3, <3>4
  <2> QED BY <2>1, <2>2
<1>9. y.user # None => store'[y.user].config # None
  BY <1>1, <1>5, <1>6, <1>8
<1> QED BY <1>4, <1>7, <1>8, <1>9, TabSteps

LEMMA PageCloses ==
    ASSUME PageInv, NEW t \in Tabs, Unmount(t)
    PROVE  PageInv'
<1>1. Closed \in TabType /\ ~Closed.open /\ ~Closed.pristine /\ Closed.load = None
  BY DEF Closed, TabType
<1>2. TabOK(Closed)
  BY <1>1 DEF TabOK
<1> QED BY <1>1, <1>2, Unsaved DEF Unmount

\* Whatever is loaded, switched, configured and archived, in however many tabs, what the
\* page shows has the whole emergency money of the configuration beside it.
THEOREM EmergencyKept == PageSpec => []EmergencyWhole
<1>1. PageInit => PageInv
  BY PageStarts
<1>2. PageInv /\ [PageNext]_pageVars => PageInv'
  <2> SUFFICES ASSUME PageInv, [PageNext]_pageVars PROVE PageInv'
    OBVIOUS
  <2>1. CASE UNCHANGED pageVars
    BY <2>1 DEF pageVars, PageInv
  <2> QED BY <2>1, PageMounts, PageSwitches, PageLoads, PageUpdates, PageArchives, PageCloses DEF PageNext
<1>3. PageInv => EmergencyWhole
  BY DEF PageInv, TabOK, EmergencyWhole, Shows
<1> QED BY <1>1, <1>2, <1>3, PTL DEF PageSpec

(***************************************************************************)
(* The watchlist.  The invariant speaks of one meaning of the ids: there   *)
(* is a function f from ids to symbols, extended by every request, and     *)
(* whatever is in the table, in Redis or in the hands of a request is a    *)
(* set of rows of f with one row for each symbol.                          *)
(***************************************************************************)
\* A row of the first m requests; f gives the symbol an id was made for.  The order of
\* the list is left open.
Row(f, m, r) ==
    /\ r = [id |-> r.id, symbol |-> r.symbol, idx |-> r.idx]
    /\ r.id \in 1 .. m
    /\ r.symbol = f[r.id]

OneEach(f, m, rows) ==
    /\ \A r \in rows : Row(f, m, r)
    /\ \A r, s \in rows : r.symbol = s.symbol => r = s

\* A request on its way: what it carries, has read and has updated so far are rows, one of
\* each symbol.  A reorder names no symbol twice, and has updated a part of what it names.
Pending(f, m, x) ==
    /\ DOMAIN x = {"pc", "op", "row", "order", "mirror", "at", "done", "copy"}
    /\ x.pc \in {"table", "load", "save"} /\ x.op \in {"create", "delete", "update", "reorder"}
    /\ Row(f, m, x.row) /\ OneEach(f, m, x.done) /\ OneEach(f, m, x.copy)
    /\ x.op = "reorder" =>
          /\ x.order \in Seq(1 .. m) /\ x.at \in Nat
          /\ x.pc = "table" => x.at < Len(x.order)
          /\ \A i, j \in 1 .. Len(x.order) : f[x.order[i]] = f[x.order[j]] => i = j
          /\ \A d \in x.done : \E k \in 1 .. Len(x.order) : k <= x.at /\ d.id = x.order[k]
    /\ x.op = "update" =>
          /\ x.pc = "table" => x.done = {}
          /\ x.mirror => x.done # {}
          /\ \A d \in x.done : d.id = x.row.id

ReqOK(f, m, x) == x = Idle \/ Pending(f, m, x)

ListInv(f) ==
    /\ made \in Nat
    /\ OneEach(f, made, table) /\ OneEach(f, made, redis)
    /\ req = [w \in Workers |-> req[w]]
    /\ \A w \in Workers : ReqOK(f, made, req[w])

LEMMA RowMoves ==
    ASSUME NEW f, NEW m, NEW r, Row(f, m, r), NEW i
    PROVE  /\ Row(f, m, [r EXCEPT !.idx = i])
           /\ [r EXCEPT !.idx = i].id = r.id /\ [r EXCEPT !.idx = i].symbol = r.symbol
<1> DEFINE a == r.id  b == r.symbol  c == r.idx
<1>1. r = [id |-> a, symbol |-> b, idx |-> c] /\ a \in 1 .. m /\ b = f[a]
  BY DEF Row
<1> HIDE DEF a, b, c
<1>2. [r EXCEPT !.idx = i] = [id |-> a, symbol |-> b, idx |-> i]
  BY <1>1
<1> QED BY <1>1, <1>2 DEF Row, a, b

LEMMA RowReplaced ==
    ASSUME NEW f, NEW m, NEW rows, OneEach(f, m, rows), NEW q, Row(f, m, q), NEW id, id = q.id, id \in Ids(rows)
    PROVE  OneEach(f, m, {r \in rows : r.id # id} \cup {q})
<1>1. PICK o \in rows : o.id = id
  BY DEF Ids
<1>2. o.symbol = q.symbol
  BY <1>1 DEF OneEach, Row
<1>3. \A r \in rows : r.symbol = q.symbol => r.id = id
  BY <1>1, <1>2 DEF OneEach
<1> QED BY <1>3 DEF OneEach

LEMMA RowOfFacts ==
    ASSUME NEW rows, NEW id \in Ids(rows)
    PROVE  RowOf(rows, id) \in rows /\ RowOf(rows, id).id = id
BY DEF RowOf, Ids

LEMMA ListSteps ==
    ASSUME NEW f, ListInv(f), NEW w \in Workers, NEW x,
           req' = [req EXCEPT ![w] = x], ReqOK(f, made, x), made' = made,
           OneEach(f, made, table'), OneEach(f, made, redis')
    PROVE  ListInv(f)'
<1>1. req' = [v \in Workers |-> req'[v]] /\ req'[w] = x /\ \A v \in Workers \ {w} : req'[v] = req[v]
  BY DEF ListInv
<1>2. \A v \in Workers : ReqOK(f, made, req'[v])
  BY <1>1 DEF ListInv
<1> QED BY <1>1, <1>2 DEF ListInv

\* f goes on: the id of the next request stands for the symbol s.
Extended(f, s) == [i \in Nat |-> IF i = made + 1 THEN s ELSE f[i]]

LEMMA RowExtends ==
    ASSUME NEW f, NEW s, NEW r, made \in Nat, Row(f, made, r)
    PROVE  Row(Extended(f, s), made + 1, r)
<1>1. r.id \in Nat /\ r.id # made + 1 /\ r.id \in 1 .. made + 1
  BY DEF Row
<1>2. Extended(f, s)[r.id] = f[r.id]
  BY <1>1 DEF Extended
<1> QED BY <1>1, <1>2 DEF Row

LEMMA RowsExtend ==
    ASSUME NEW f, NEW s, NEW rows, made \in Nat, OneEach(f, made, rows)
    PROVE  OneEach(Extended(f, s), made + 1, rows)
BY RowExtends DEF OneEach

LEMMA RequestExtends ==
    ASSUME NEW f, NEW s, NEW x, made \in Nat, Pending(f, made, x)
    PROVE  Pending(Extended(f, s), made + 1, x)
<1> DEFINE g == Extended(f, s)
<1>1. Row(g, made + 1, x.row) /\ OneEach(g, made + 1, x.done) /\ OneEach(g, made + 1, x.copy)
  BY RowExtends, RowsExtend DEF Pending
<1>2. ASSUME x.op = "reorder"
      PROVE  /\ x.order \in Seq(1 .. made + 1)
             /\ \A i, j \in 1 .. Len(x.order) : g[x.order[i]] = g[x.order[j]] => i = j
  <2> DEFINE o == x.order
  <2>1. o \in Seq(1 .. made) /\ \A i, j \in 1 .. Len(o) : f[o[i]] = f[o[j]] => i = j
    BY <1>2 DEF Pending
  <2> HIDE DEF o
  <2>2. \A i \in 1 .. Len(o) : o[i] \in 1 .. made
    BY <2>1, ElementOfSeq
  <2>3. \A n \in 1 .. made : g[n] = f[n]
    BY DEF Extended
  <2>4. \A i \in 1 .. Len(o) : o[i] \in 1 .. made + 1
    BY <2>2
  <2>5. o \in Seq(1 .. made + 1)
    <3>1. Len(o) \in Nat /\ o = [i \in 1 .. Len(o) |-> o[i]]
      BY <2>1
    <3> QED BY <3>1, <2>4, IsASeq
  <2>6. \A i, j \in 1 .. Len(o) : g[o[i]] = g[o[j]] => i = j
    BY <2>1, <2>2, <2>3
  <2> QED BY <2>5, <2>6 DEF o
<1> HIDE DEF g
<1> QED BY <1>1, <1>2 DEF Pending, g

LEMMA ListBegins ==
    ASSUME NEW f, ListInv(f), NEW w \in Workers, NEW x, NEW s, NEW failed,
           Begin(w, x, failed), Pending(Extended(f, s), made + 1, x)
    PROVE  \E g : ListInv(g)'
<1>1. PICK g : g = Extended(f, s)
  OBVIOUS
<1>2. made \in Nat /\ made' = made + 1 /\ made' \in Nat
  BY DEF Begin, ListInv
<1>3. OneEach(g, made', table') /\ OneEach(g, made', redis')
  BY <1>1, <1>2, RowsExtend DEF Begin, ListInv
<1>4. req' = [v \in Workers |-> req'[v]] /\ req'[w] = x /\ \A v \in Workers \ {w} : req'[v] = req[v]
  BY DEF Begin, ListInv
<1>5. \A v \in Workers : ReqOK(f, made, req[v])
  BY DEF ListInv
<1>6. \A v \in Workers \ {w} : ReqOK(g, made + 1, req[v])
  BY <1>1, <1>2, <1>5, RequestExtends DEF ReqOK
<1>7. \A v \in Workers : ReqOK(g, made', req'[v])
  BY <1>1, <1>2, <1>4, <1>6 DEF ReqOK
<1>8. ListInv(g)'
  BY <1>2, <1>3, <1>4, <1>7 DEF ListInv
<1> QED BY <1>8

LEMMA RequestFacts ==
    ASSUME NEW f, NEW op \in {"create", "delete", "update"}, NEW row, NEW order, NEW m, Row(f, m, row)
    PROVE  Pending(f, m, Request(op, row, order))
BY DEF Pending, Request, OneEach, FirstPc

LEMMA ListArrives ==
    ASSUME NEW f, ListInv(f), NEW w \in Workers, Arrive(w)
    PROVE  \E g : ListInv(g)'
<1>0. made \in Nat /\ OneEach(f, made, table) /\ OneEach(f, made, redis)
  BY DEF ListInv
<1>1. CASE \E s \in Symbols, failed \in BOOLEAN : Add(w, s, failed)
  <2>1. PICK s \in Symbols, failed \in BOOLEAN : Add(w, s, failed)
    BY <1>1
  <2> DEFINE i == NextSortIndex(ReadFrom(failed))
             row == [id |-> made + 1, symbol |-> s, idx |-> i]
  <2>2. Begin(w, Request("create", row, <<>>), failed)
    BY <2>1 DEF Add
  <2> HIDE DEF i
  <2>3. Extended(f, s)[made + 1] = s
    BY <1>0 DEF Extended
  <2>4. Row(Extended(f, s), made + 1, row)
    BY <1>0, <2>3 DEF Row
  <2> HIDE DEF row
  <2>5. Pending(Extended(f, s), made + 1, Request("create", row, <<>>))
    BY <2>4, RequestFacts
  <2> QED BY <2>2, <2>5, ListBegins
<1>2. ASSUME NEW r \in table \cup redis, RemoveItem(w, r) PROVE \E g : ListInv(g)'
  <2>1. Row(Extended(f, r), made + 1, r)
    BY <1>0, RowExtends DEF OneEach
  <2>2. Begin(w, Request("delete", r, <<>>), FALSE)
    BY <1>2 DEF RemoveItem
  <2>3. Pending(Extended(f, r), made + 1, Request("delete", r, <<>>))
    BY <2>1, RequestFacts
  <2> QED BY <2>2, <2>3, ListBegins
<1>3. ASSUME NEW r \in table \cup redis, NEW i \in 0 .. Limit, Patch(w, r, i) PROVE \E g : ListInv(g)'
  <2> DEFINE row == [r EXCEPT !.idx = i]
  <2>1. Row(f, made, row)
    BY <1>0, RowMoves DEF OneEach
  <2>2. Begin(w, Request("update", row, <<>>), FALSE)
    BY <1>3 DEF Patch
  <2> HIDE DEF row
  <2>3. Row(Extended(f, r), made + 1, row)
    BY <1>0, <2>1, RowExtends
  <2>4. Pending(Extended(f, r), made + 1, Request("update", row, <<>>))
    BY <2>3, RequestFacts
  <2> QED BY <2>2, <2>4, ListBegins
<1>4. ASSUME NEW o \in Orders, NEW failed \in BOOLEAN, Reorder(w, o, failed) PROVE \E g : ListInv(g)'
  <2> DEFINE rows == ReadFrom(failed)
  <2>1. OneEach(f, made, rows)
    BY <1>0 DEF ReadFrom
  <2> HIDE DEF rows
  <2>2. Range(o) = Ids(rows) /\ o # <<>>
    BY <1>4 DEF Reorder, rows
  <2>3. Begin(w, Request("reorder", RowOf(rows, o[1]), o), failed)
    BY <1>4 DEF Reorder, rows
  <2>4. IsInjective(o) /\ o \in Seq(Ids(table \cup redis))
    <3>1. IsInjective(o) /\ o \in SeqOf(Ids(table \cup redis), Cardinality(Ids(table \cup redis)))
      BY DEF Orders
    <3> DEFINE I == Ids(table \cup redis)  n == Cardinality(I)
    <3>2. o \in UNION {[1 .. m -> I] : m \in 0 .. n}
      BY <3>1 DEF SeqOf
    <3> HIDE DEF I, n
    <3>3. PICK m \in 0 .. n : o \in [1 .. m -> I]
      BY <3>2
    <3>4. m \in Nat
      BY <3>3
    <3>5. o \in Seq(I)
      BY <3>3, <3>4, SeqDef
    <3> QED BY <3>1, <3>5 DEF I
  <2>5. DOMAIN o = 1 .. Len(o) /\ Len(o) \in Nat
    BY <2>4, LenProperties
  <2>6. Len(o) >= 1
    BY <2>2, <2>4, <2>5, EmptySeq
  <2>7. \A k \in 1 .. Len(o) : o[k] \in Ids(rows)
    BY <2>2, <2>5 DEF Range
  <2>8. \A k \in 1 .. Len(o) : \E r \in rows : r.id = o[k] /\ r.symbol = f[o[k]] /\ o[k] \in 1 .. made
    BY <2>1, <2>7 DEF Ids, OneEach, Row
  <2>9. o \in Seq(1 .. made)
    <3>1. o = [k \in 1 .. Len(o) |-> o[k]]
      BY <2>4
    <3>2. \A k \in 1 .. Len(o) : o[k] \in 1 .. made
      BY <2>8
    <3>3. o \in [1 .. Len(o) -> 1 .. made]
      BY <3>1, <3>2
    <3> QED BY <3>3, <2>5, SeqDef
  <2>10. \A i, j \in 1 .. Len(o) : f[o[i]] = f[o[j]] => i = j
    <3> SUFFICES ASSUME NEW i \in 1 .. Len(o), NEW j \in 1 .. Len(o), f[o[i]] = f[o[j]] PROVE i = j
      OBVIOUS
    <3>1. PICK r \in rows : r.id = o[i] /\ r.symbol = f[o[i]]
      BY <2>8
    <3>2. PICK q \in rows : q.id = o[j] /\ q.symbol = f[o[j]]
      BY <2>8
    <3>3. r = q
      BY <2>1, <3>1, <3>2 DEF OneEach
    <3>4. o[i] = o[j]
      BY <3>1, <3>2, <3>3
    <3> QED BY <2>4, <2>5, <3>4 DEF IsInjective
  <2>11. Row(f, made, RowOf(rows, o[1]))
    BY <2>1, <2>5, <2>6, <2>7, RowOfFacts DEF OneEach
  <2> DEFINE row == RowOf(rows, o[1])
  <2> HIDE DEF row
  <2>12. Pending(f, made, Request("reorder", row, o))
    BY <2>6, <2>9, <2>10, <2>11 DEF Pending, Request, OneEach, FirstPc, row
  <2>13. Pending(Extended(f, o), made + 1, Request("reorder", row, o))
    BY <1>0, <2>12, RequestExtends
  <2> QED BY <2>3, <2>13, ListBegins DEF row
<1> QED BY <1>1, <1>2, <1>3, <1>4 DEF Arrive

\* Where a request is served, it is pending.
LEMMA Served ==
    ASSUME NEW f, ListInv(f), NEW w \in Workers, Busy(w)
    PROVE  /\ OneEach(f, made, table) /\ OneEach(f, made, redis)
           /\ Pending(f, made, req[w])
BY DEF ListInv, ReqOK, Busy, Idle

\* Statements on the table.
LEMMA ListInserts ==
    ASSUME NEW f, ListInv(f), NEW w \in Workers, Insert(w)
    PROVE  ListInv(f)'
<1>1. /\ OneEach(f, made, table) /\ OneEach(f, made, redis)
      /\ Pending(f, made, req[w]) /\ req[w].op = "create"
  BY Served DEF Insert, AtTable
<1>3. made' = made /\ redis' = redis
  BY DEF Insert
<1>4. CASE req' = [req EXCEPT ![w] = Idle] /\ table' = table
  BY <1>1, <1>3, <1>4, ListSteps DEF ReqOK
<1>5. CASE /\ req' = [req EXCEPT ![w] = Mirror(req[w])] /\ table' = table \cup {req[w].row}
           /\ \A r \in table : r.symbol # req[w].row.symbol
  <2>1. OneEach(f, made, table')
    BY <1>1, <1>5 DEF OneEach, Pending
  <2>2. Pending(f, made, Mirror(req[w]))
    <3> DEFINE x == req[w]  y == Mirror(req[w])
    <3>1. Pending(f, made, x) /\ x.op = "create"
      BY <1>1
    <3>2. y = Mirror(x)
      OBVIOUS
    <3> HIDE DEF x, y
    <3>3. /\ DOMAIN y = DOMAIN x /\ y.pc = "load" /\ y.op = x.op /\ y.row = x.row
          /\ y.done = x.done /\ y.copy = x.copy
      BY <3>1, <3>2 DEF Mirror, Pending
    <3>4. Pending(f, made, y)
      BY <3>1, <3>3 DEF Pending
    <3> QED BY <3>4 DEF y
  <2> QED BY <1>1, <1>3, <1>5, <2>1, <2>2, ListSteps DEF ReqOK
<1> QED BY <1>4, <1>5 DEF Insert, Answer, Continue

LEMMA ListDeletes ==
    ASSUME NEW f, ListInv(f), NEW w \in Workers, DeleteRow(w)
    PROVE  ListInv(f)'
<1>1. /\ OneEach(f, made, table) /\ OneEach(f, made, redis)
      /\ Pending(f, made, req[w]) /\ req[w].op = "delete"
  BY Served DEF DeleteRow, AtTable
<1>2. made' = made /\ redis' = redis
  BY DEF DeleteRow
<1>3. OneEach(f, made, table')
  BY <1>1 DEF DeleteRow, OneEach
<1>4. Pending(f, made, Mirror(req[w]))
  <2> DEFINE x == req[w]  y == Mirror(req[w])
  <2>1. Pending(f, made, x) /\ x.op = "delete"
    BY <1>1
  <2>2. y = Mirror(x)
    OBVIOUS
  <2> HIDE DEF x, y
  <2>3. /\ DOMAIN y = DOMAIN x /\ y.pc = "load" /\ y.op = x.op /\ y.row = x.row
        /\ y.done = x.done /\ y.copy = x.copy
    BY <2>1, <2>2 DEF Mirror, Pending
  <2>4. Pending(f, made, y)
    BY <2>1, <2>3 DEF Pending
  <2> QED BY <2>4 DEF y
<1>5. req' = [req EXCEPT ![w] = Idle] \/ req' = [req EXCEPT ![w] = Mirror(req[w])]
  BY DEF DeleteRow, Answer, Continue
<1> QED BY <1>1, <1>2, <1>3, <1>4, <1>5, ListSteps DEF ReqOK

\* One row of a patch or of a reorder: the row that is updated joins those that have been.
LEMMA UpdatedFacts ==
    ASSUME NEW f, NEW m \in Nat, NEW x, Pending(f, m, x), x.pc = "table", NEW new, Row(f, m, new),
           NEW k, k = x.at + 1,
           x.op = "reorder" => new.id = x.order[k],
           x.op = "update" => new.id = x.row.id,
           NEW y, y = [x EXCEPT !.at = k, !.done = @ \cup {new}]
    PROVE  /\ x.op = "reorder" /\ k < Len(x.order) => Pending(f, m, y)
           /\ x.op \in {"update", "reorder"} => Pending(f, m, Mirror(y))
<1>1. /\ DOMAIN y = DOMAIN x /\ y.pc = "table" /\ y.op = x.op /\ y.row = x.row /\ y.order = x.order
      /\ y.mirror = x.mirror /\ y.at = k /\ y.done = x.done \cup {new} /\ y.copy = x.copy
  BY DEF Pending
<1> DEFINE z == Mirror(y)
<1>2. /\ DOMAIN z = DOMAIN x /\ z.pc = "load" /\ z.op = x.op /\ z.row = x.row /\ z.order = x.order
      /\ z.mirror = TRUE /\ z.at = k /\ z.done = x.done \cup {new} /\ z.copy = x.copy
  BY <1>1 DEF Mirror, Pending
<1> HIDE DEF z
<1>3. Row(f, m, x.row) /\ OneEach(f, m, x.done) /\ OneEach(f, m, x.copy)
  BY DEF Pending
<1>4. CASE x.op = "reorder"
  <2>1. /\ x.order \in Seq(1 .. m) /\ x.at \in Nat /\ x.at < Len(x.order)
        /\ \A i, j \in 1 .. Len(x.order) : f[x.order[i]] = f[x.order[j]] => i = j
        /\ \A d \in x.done : \E n \in 1 .. Len(x.order) : n <= x.at /\ d.id = x.order[n]
    BY <1>4 DEF Pending
  <2>2. k \in 1 .. Len(x.order) /\ k \in Nat
    BY <2>1, LenProperties
  <2>3. \A d \in x.done \cup {new} : \E n \in 1 .. Len(x.order) : n <= k /\ d.id = x.order[n]
    BY <2>1, <2>2, <1>4
  <2>4. \A d \in x.done : d.symbol # new.symbol
    <3> SUFFICES ASSUME NEW d \in x.done, d.symbol = new.symbol PROVE FALSE
      OBVIOUS
    <3>1. PICK n \in 1 .. Len(x.order) : n <= x.at /\ d.id = x.order[n]
      BY <2>1
    <3>2. f[x.order[n]] = f[x.order[k]]
      BY <3>1, <1>3, <1>4 DEF OneEach, Row
    <3>3. n = k
      BY <2>1, <2>2, <3>2
    <3> QED BY <2>1, <3>1, <3>3
  <2>5. OneEach(f, m, x.done \cup {new})
    BY <1>3, <2>4 DEF OneEach
  <2>6. k < Len(x.order) => Pending(f, m, y)
    BY <1>1, <1>3, <1>4, <2>1, <2>2, <2>3, <2>5 DEF Pending
  <2>7. Pending(f, m, z)
    BY <1>2, <1>3, <1>4, <2>1, <2>2, <2>3, <2>5 DEF Pending
  <2> QED BY <1>4, <2>6, <2>7 DEF z
<1>5. CASE x.op = "update"
  <2>1. x.done = {} /\ new.id = x.row.id
    BY <1>5 DEF Pending
  <2>2. OneEach(f, m, x.done \cup {new})
    BY <2>1 DEF OneEach
  <2>3. Pending(f, m, z)
    BY <1>2, <1>3, <1>5, <2>1, <2>2 DEF Pending
  <2> QED BY <1>5, <2>3 DEF z
<1> QED BY <1>4, <1>5

LEMMA ListUpdates ==
    ASSUME NEW f, ListInv(f), NEW w \in Workers, UpdateRow(w)
    PROVE  ListInv(f)'
<1> DEFINE x == req[w]
           k == x.at + 1
           id == IF x.op = "update" THEN x.row.id ELSE x.order[k]
           idx == IF x.op = "update" THEN x.row.idx ELSE k - 1
           new == [RowOf(table, id) EXCEPT !.idx = idx]
           y == [x EXCEPT !.at = k, !.done = @ \cup {new}]
<1>1. /\ OneEach(f, made, table) /\ OneEach(f, made, redis)
      /\ Pending(f, made, x) /\ x.pc = "table" /\ x.op \in {"update", "reorder"} /\ made \in Nat
  BY Served DEF UpdateRow, AtTable, ListInv
<1>2. made' = made /\ redis' = redis
  BY DEF UpdateRow
<1>3. \/ req' = [req EXCEPT ![w] = Idle] /\ table' = table
      \/ /\ id \in Ids(table)
         /\ table' = {r \in table : r.id # id} \cup {new}
         /\ \/ x.op = "reorder" /\ k < Len(x.order) /\ req' = [req EXCEPT ![w] = y]
            \/ req' = [req EXCEPT ![w] = Mirror(y)]
  BY DEF UpdateRow, Answer, Continue
<1>4. ASSUME id \in Ids(table)
      PROVE  /\ Row(f, made, new) /\ new.id = id
             /\ OneEach(f, made, {r \in table : r.id # id} \cup {new})
  <2>1. RowOf(table, id) \in table /\ RowOf(table, id).id = id
    BY <1>4, RowOfFacts
  <2> HIDE DEF id, idx
  <2>2. Row(f, made, new) /\ new.id = id
    BY <1>1, <2>1, RowMoves DEF OneEach
  <2> HIDE DEF new
  <2> QED BY <1>1, <1>4, <2>2, RowReplaced
<1>5. (x.op = "reorder" => id = x.order[k]) /\ (x.op = "update" => id = x.row.id)
  OBVIOUS
<1> HIDE DEF x, id, new
<1>6. CASE req' = [req EXCEPT ![w] = Idle] /\ table' = table
  BY <1>1, <1>2, <1>6, ListSteps DEF ReqOK
<1>7. ASSUME id \in Ids(table)
      PROVE  /\ x.op = "reorder" /\ k < Len(x.order) => Pending(f, made, y)
             /\ Pending(f, made, Mirror(y))
  BY <1>1, <1>4, <1>5, <1>7, UpdatedFacts
<1> HIDE DEF y, k
<1> QED BY <1>1, <1>2, <1>3, <1>4, <1>6, <1>7, ListSteps DEF ReqOK

\* What an operation makes of the rows it read in Redis.
LEMMA ChangedFacts ==
    ASSUME NEW f, NEW m, NEW x, Pending(f, m, x), NEW rows, OneEach(f, m, rows), ~Refused(x, rows)
    PROVE  OneEach(f, m, Changed(x, rows))
<1>1. Row(f, m, x.row) /\ OneEach(f, m, x.done) /\ x.op \in {"create", "delete", "update", "reorder"}
  BY DEF Pending
<1>2. CASE x.op = "create"
  BY <1>1, <1>2 DEF Refused, Changed, OneEach
<1>3. CASE x.op = "delete"
  BY <1>1, <1>3 DEF Changed, OneEach
<1>4. CASE x.op = "update"
  <2> DEFINE q == IF x.mirror THEN CHOOSE d \in x.done : TRUE
                  ELSE [RowOf(rows, x.row.id) EXCEPT !.idx = x.row.idx]
             id == x.row.id
  <2>1. id \in Ids(rows)
    BY <1>4 DEF Refused
  <2>2. ASSUME x.mirror PROVE Row(f, m, q) /\ q.id = id
    <3>1. x.done # {} /\ \A d \in x.done : d.id = id
      BY <1>4, <2>2 DEF Pending
    <3>2. q \in x.done
      BY <2>2, <3>1
    <3> QED BY <1>1, <3>1, <3>2 DEF OneEach
  <2>3. ASSUME ~x.mirror PROVE Row(f, m, q) /\ q.id = id
    <3>1. RowOf(rows, id) \in rows /\ RowOf(rows, id).id = id
      BY <2>1, RowOfFacts
    <3> QED BY <2>3, <3>1, RowMoves DEF OneEach
  <2>4. Row(f, m, q) /\ q.id = id
    BY <2>2, <2>3
  <2>5. Changed(x, rows) = {r \in rows : r.id # id} \cup {q}
    BY <1>4 DEF Changed
  <2> HIDE DEF q, id
  <2> QED BY <2>1, <2>4, <2>5, RowReplaced
<1>5. CASE x.op = "reorder" /\ x.mirror
  BY <1>1, <1>5 DEF Changed
<1>6. CASE x.op = "reorder" /\ ~x.mirror
  <2> DEFINE moved(r) == IF \E k \in 1..Len(x.order) : x.order[k] = r.id
                         THEN [r EXCEPT !.idx = (CHOOSE k \in 1..Len(x.order) : x.order[k] = r.id) - 1]
                         ELSE r
  <2>1. Changed(x, rows) = {moved(r) : r \in rows}
    BY <1>6 DEF Changed
  <2>2. \A r \in rows : Row(f, m, moved(r)) /\ moved(r).symbol = r.symbol
    BY RowMoves DEF OneEach
  <2> HIDE DEF moved
  <2> QED BY <2>1, <2>2 DEF OneEach
<1> QED BY <1>1, <1>2, <1>3, <1>4, <1>5, <1>6

LEMMA ListFails ==
    ASSUME NEW f, ListInv(f), NEW w \in Workers, StatementFails(w) \/ RedisFails(w)
    PROVE  ListInv(f)'
<1>1. /\ OneEach(f, made, table) /\ OneEach(f, made, redis) /\ Pending(f, made, req[w])
  BY Served DEF StatementFails, RedisFails, AtTable
<1>2. made' = made /\ redis' = redis /\ table' = table
  BY DEF StatementFails, RedisFails
<1>3. Pending(f, made, [req[w] EXCEPT !.pc = "load"])
  <2> DEFINE x == req[w]  y == [req[w] EXCEPT !.pc = "load"]
  <2>1. Pending(f, made, x) /\ y = [x EXCEPT !.pc = "load"]
    BY <1>1
  <2> HIDE DEF x, y
  <2>2. /\ DOMAIN y = DOMAIN x /\ y.pc = "load" /\ y.op = x.op /\ y.row = x.row /\ y.order = x.order
        /\ y.mirror = x.mirror /\ y.at = x.at /\ y.done = x.done /\ y.copy = x.copy
    BY <2>1 DEF Pending
  <2>3. Pending(f, made, y)
    BY <2>1, <2>2 DEF Pending
  <2> QED BY <2>3 DEF y
<1>4. \/ req' = [req EXCEPT ![w] = Idle]
      \/ req' = [req EXCEPT ![w] = [req[w] EXCEPT !.pc = "load"]]
  BY DEF StatementFails, RedisFails, Answer, Continue
<1> QED BY <1>1, <1>2, <1>3, <1>4, ListSteps DEF ReqOK

LEMMA ListLoads ==
    ASSUME NEW f, ListInv(f), NEW w \in Workers, Load(w)
    PROVE  ListInv(f)'
<1> DEFINE x == req[w]
           copy == Changed(x, redis)
           y == [x EXCEPT !.pc = "save", !.copy = copy]
<1>1. /\ OneEach(f, made, table) /\ OneEach(f, made, redis) /\ Pending(f, made, x)
  BY Served DEF Load
<1>2. made' = made /\ redis' = redis /\ table' = table
  BY DEF Load
<1>3. \/ req' = [req EXCEPT ![w] = Idle]
      \/ ~Refused(x, redis) /\ req' = [req EXCEPT ![w] = y]
  BY DEF Load, Answer, Continue
<1> HIDE DEF x
<1>4. ASSUME ~Refused(x, redis) PROVE Pending(f, made, y)
  <2>1. OneEach(f, made, copy)
    BY <1>1, <1>4, ChangedFacts
  <2> HIDE DEF copy
  <2>2. /\ DOMAIN y = DOMAIN x /\ y.pc = "save" /\ y.op = x.op /\ y.row = x.row /\ y.order = x.order
        /\ y.mirror = x.mirror /\ y.at = x.at /\ y.done = x.done /\ y.copy = copy
    BY <1>1 DEF Pending
  <2> HIDE DEF y
  <2> QED BY <1>1, <2>1, <2>2 DEF Pending
<1> HIDE DEF y
<1> QED BY <1>1, <1>2, <1>3, <1>4, ListSteps DEF ReqOK

LEMMA ListSaves ==
    ASSUME NEW f, ListInv(f), NEW w \in Workers, Save(w)
    PROVE  ListInv(f)'
<1>1. /\ OneEach(f, made, table) /\ OneEach(f, made, req[w].copy)
  BY Served DEF Save, Pending
<1>2. made' = made /\ redis' = req[w].copy /\ table' = table /\ req' = [req EXCEPT ![w] = Idle]
  BY DEF Save, Answer
<1> QED BY <1>1, <1>2, ListSteps DEF ReqOK

\* However requests interleave and whatever fails, no store lists a symbol twice or gives an
\* id two meanings, for any symbols, workers, limits and faults (the half of ListedAsWanted
\* that does not ask for a quiet history): each write of a copy read earlier puts back rows
\* that were one of each symbol when they were read.
THEOREM SymbolsStayUnique == WatchlistSpec => []SymbolsUnique
<1> DEFINE Inv == \E f : ListInv(f)
<1>1. WatchlistInit => Inv
  <2> SUFFICES ASSUME WatchlistInit PROVE Inv
    OBVIOUS
  <2>1. ListInv(0)
    BY DEF WatchlistInit, ListInv, OneEach, ReqOK
  <2> QED BY <2>1
<1>2. Inv /\ [WatchlistNext]_wlVars => Inv'
  <2> SUFFICES ASSUME Inv, [WatchlistNext]_wlVars PROVE \E g : ListInv(g)'
    OBVIOUS
  <2>1. PICK f : ListInv(f)
    OBVIOUS
  <2>2. ASSUME NEW w \in Workers, Arrive(w) PROVE \E g : ListInv(g)'
    BY <2>1, <2>2, ListArrives
  <2>3. ASSUME NEW w \in Workers, Serve(w) PROVE ListInv(f)'
    BY <2>1, <2>3, ListInserts, ListDeletes, ListUpdates, ListFails, ListLoads, ListSaves DEF Serve
  <2>4. ASSUME UNCHANGED wlVars PROVE ListInv(f)'
    BY <2>1, <2>4 DEF wlVars, ListInv
  <2> QED BY <2>2, <2>3, <2>4 DEF WatchlistNext
<1>3. Inv => SymbolsUnique
  <2> SUFFICES ASSUME NEW f, ListInv(f) PROVE SymbolsUnique
    OBVIOUS
  <2> QED BY DEF ListInv, OneEach, Row, SymbolsUnique
<1> QED BY <1>1, <1>2, <1>3, PTL DEF WatchlistSpec
-----------------------------------------------------------------------------
(***************************************************************************)
(* The order of the watchlist in a quiet history.                          *)
(***************************************************************************)
\* Rows of one store: an id names one of them.
Plain(rows) ==
    /\ rows \subseteq Rows
    /\ \A r, s \in rows : r.id = s.id => r = s

\* w lists the ids of the rows in their order.
Sorted(w, rows) ==
    /\ w \in Seq(Nat)
    /\ \A i \in 1 .. Len(w) : \E r \in rows : r.id = w[i]
    /\ \A r \in rows : \E i \in 1 .. Len(w) : w[i] = r.id
    /\ \A i, j \in 1 .. Len(w) : \A r, s \in rows : i < j /\ r.id = w[i] /\ s.id = w[j] => Before(r, s)

\* The order of the listing is a strict one, total on rows with different ids.
LEMMA BeforeIsStrict ==
    ASSUME NEW r \in Rows, NEW s \in Rows
    PROVE  /\ ~Before(r, r)
           /\ ~(Before(r, s) /\ Before(s, r))
           /\ r.id # s.id => Before(r, s) \/ Before(s, r)
BY DEF Before, Rows

\* There is one way to list rows in order, and IdsInOrder is it.
LEMMA ListingIs ==
    ASSUME NEW rows, Plain(rows), NEW w, Sorted(w, rows)
    PROVE  IsFiniteSet(rows) /\ Cardinality(rows) = Len(w) /\ IdsInOrder(rows) = w
<1> DEFINE N == Len(w)
           a == [k \in 1 .. N |-> CHOOSE r \in rows : r.id = w[k]]
           First(n) == {a[j] : j \in 1 .. n}
<1>1. N \in Nat /\ w = [k \in 1 .. N |-> w[k]]
  BY DEF Sorted
<1>2. \A k \in 1 .. N : a[k] \in rows /\ a[k].id = w[k]
  BY DEF Sorted
<1>3. \A r \in rows : \E k \in 1 .. N : r = a[k]
  <2> SUFFICES ASSUME NEW r \in rows PROVE \E k \in 1 .. N : r = a[k]
    OBVIOUS
  <2>1. PICK k \in 1 .. N : w[k] = r.id
    BY DEF Sorted
  <2> HIDE DEF a
  <2>2. r = a[k]
    BY <1>2, <2>1 DEF Plain
  <2> QED BY <2>2
<1> HIDE DEF a, N
<1>4. \A j, k \in 1 .. N : /\ j < k => Before(a[j], a[k])
                           /\ Before(a[j], a[k]) => j < k
                           /\ a[j] = a[k] => j = k
  <2> SUFFICES ASSUME NEW j \in 1 .. N, NEW k \in 1 .. N
               PROVE  /\ j < k => Before(a[j], a[k])
                      /\ Before(a[j], a[k]) => j < k
                      /\ a[j] = a[k] => j = k
    OBVIOUS
  <2>1. \A m, n \in 1 .. N : m < n => Before(a[m], a[n])
    BY <1>2 DEF Sorted, N
  <2>2. a[j] \in Rows /\ a[k] \in Rows
    BY <1>2 DEF Plain
  <2>3. ~Before(a[j], a[j]) /\ ~(Before(a[j], a[k]) /\ Before(a[k], a[j]))
    BY <2>2, BeforeIsStrict
  <2>4. j < k \/ j = k \/ k < j
    BY <1>1
  <2> QED BY <2>1, <2>3, <2>4
<1> DEFINE A == {n \in Nat : n <= N => IsFiniteSet(First(n)) /\ Cardinality(First(n)) = n}
<1>5. 0 \in A
  <2>1. First(0) = {}
    OBVIOUS
  <2> QED BY <2>1, FS_EmptySet
<1>6. \A n \in 1 .. N : n - 1 \in A => n \in A
  <2> SUFFICES ASSUME NEW n \in 1 .. N, n - 1 \in A PROVE n \in A
    OBVIOUS
  <2>0. n \in Nat /\ n - 1 \in Nat /\ n - 1 <= N
    BY <1>1
  <2>1. IsFiniteSet(First(n - 1)) /\ Cardinality(First(n - 1)) = n - 1
    BY <2>0
  <2>2. First(n) = First(n - 1) \cup {a[n]}
    <3>1. 1 .. n = (1 .. n - 1) \cup {n}
      BY <1>1
    <3> QED BY <3>1
  <2>3. a[n] \notin First(n - 1)
    <3> SUFFICES ASSUME NEW j \in 1 .. n - 1, a[n] = a[j] PROVE FALSE
      OBVIOUS
    <3>1. j \in 1 .. N /\ j # n
      BY <1>1
    <3> QED BY <1>4, <3>1
  <2> HIDE DEF First
  <2>4. IsFiniteSet(First(n)) /\ Cardinality(First(n)) = n
    BY <2>0, <2>1, <2>2, <2>3, FS_AddElement
  <2> QED BY <2>0, <2>4
<1> HIDE DEF A
<1>7. 0 .. N \subseteq A
  BY <1>1, <1>5, <1>6, IntervalInduction
<1>8. \A n \in 0 .. N : IsFiniteSet(First(n)) /\ Cardinality(First(n)) = n
  BY <1>1, <1>7 DEF A
<1>9. rows = First(N)
  BY <1>2, <1>3
<1>10. \A k \in 1 .. N : {s \in rows : Before(s, a[k])} = First(k - 1)
  <2> SUFFICES ASSUME NEW k \in 1 .. N PROVE {s \in rows : Before(s, a[k])} = First(k - 1)
    OBVIOUS
  <2>1. ASSUME NEW s \in rows, Before(s, a[k]) PROVE s \in First(k - 1)
    <3>1. PICK j \in 1 .. N : s = a[j]
      BY <1>3
    <3>2. j < k
      BY <1>4, <2>1, <3>1
    <3>3. j \in 1 .. k - 1
      BY <1>1, <3>2
    <3> QED BY <3>1, <3>3
  <2>2. ASSUME NEW j \in 1 .. k - 1 PROVE a[j] \in rows /\ Before(a[j], a[k])
    <3>1. j \in 1 .. N /\ j < k
      BY <1>1
    <3> QED BY <1>2, <1>4, <3>1
  <2> QED BY <2>1, <2>2
<1> HIDE DEF First
<1>11. IsFiniteSet(rows) /\ Cardinality(rows) = N
  BY <1>1, <1>8, <1>9
<1>12. \A k \in 1 .. N : Listed(rows)[k] = a[k]
  <2> SUFFICES ASSUME NEW k \in 1 .. N PROVE Listed(rows)[k] = a[k]
    OBVIOUS
  <2>1. \A j \in 1 .. N : Cardinality({s \in rows : Before(s, a[j])}) = j - 1
    <3>1. \A j \in 1 .. N : j - 1 \in 0 .. N
      BY <1>1
    <3> QED BY <1>8, <1>10, <3>1
  <2>2. \A r \in rows : Cardinality({s \in rows : Before(s, r)}) = k - 1 => r = a[k]
    <3> SUFFICES ASSUME NEW r \in rows, Cardinality({s \in rows : Before(s, r)}) = k - 1 PROVE r = a[k]
      OBVIOUS
    <3>1. PICK j \in 1 .. N : r = a[j]
      BY <1>3
    <3>2. j - 1 = k - 1
      BY <2>1, <3>1
    <3> QED BY <1>1, <3>1, <3>2
  <2>3. (CHOOSE r \in rows : Cardinality({s \in rows : Before(s, r)}) = k - 1) = a[k]
    BY <1>2, <2>1, <2>2
  <2> QED BY <1>11, <2>3 DEF Listed
<1>13. IdsInOrder(rows) = w
  BY <1>1, <1>2, <1>11, <1>12 DEF IdsInOrder
<1> QED BY <1>11, <1>13 DEF N

\* The first of some rows.
LEMMA FirstRow ==
    ASSUME NEW rows, Plain(rows), rows # {}
    PROVE  \E r \in rows : \A s \in rows \ {r} : Before(r, s)
<1> DEFINE X == {r.idx : r \in rows}
<1>1. X \in SUBSET Nat /\ X # {}
  BY DEF Plain, Rows
<1>2. PICK m \in X : \A k \in X : m <= k
  <2> HIDE DEF X
  <2> QED BY <1>1, LeastNumber
<1> DEFINE Y == {r.id : r \in {s \in rows : s.idx = m}}
<1>3. Y \in SUBSET Nat /\ Y # {}
  BY <1>2 DEF Plain, Rows
<1>4. PICK i \in Y : \A k \in Y : i <= k
  <2> HIDE DEF Y
  <2> QED BY <1>3, LeastNumber
<1>5. PICK r \in rows : r.id = i /\ r.idx = m
  BY <1>4
<1>6. ASSUME NEW s \in rows \ {r} PROVE Before(r, s)
  <2>1. r.id # s.id
    BY <1>5, <1>6 DEF Plain
  <2>2. m <= s.idx /\ (s.idx = m => i <= s.id)
    BY <1>2, <1>4
  <2>3. /\ r.idx \in Nat /\ s.idx \in Nat /\ r.id \in Nat /\ s.id \in Nat
    BY <1>5 DEF Plain, Rows
  <2> QED BY <1>5, <2>1, <2>2, <2>3 DEF Before
<1> QED BY <1>5, <1>6

\* Some order always exists.
LEMMA SortedExists ==
    ASSUME NEW rows, Plain(rows), IsFiniteSet(rows)
    PROVE  \E w : Sorted(w, rows)
<1> DEFINE B == {n \in Nat : \A S \in SUBSET rows : Cardinality(S) = n => \E w : Sorted(w, S)}
<1>0. \A S \in SUBSET rows : IsFiniteSet(S) /\ Cardinality(S) \in Nat /\ Plain(S)
  BY FS_Subset, FS_CardinalityType DEF Plain
<1>1. 0 \in B
  <2> SUFFICES ASSUME NEW S \in SUBSET rows, Cardinality(S) = 0 PROVE \E w : Sorted(w, S)
    OBVIOUS
  <2>1. S = {}
    BY <1>0, FS_EmptySet
  <2> DEFINE e == <<>>
  <2>2. e \in Seq(Nat) /\ Len(e) = 0
    OBVIOUS
  <2> HIDE DEF e
  <2>3. Sorted(e, S)
    BY <2>1, <2>2 DEF Sorted
  <2> QED BY <2>3
<1>2. ASSUME NEW n \in Nat, n \in B PROVE n + 1 \in B
  <2> SUFFICES ASSUME NEW S \in SUBSET rows, Cardinality(S) = n + 1 PROVE \E w : Sorted(w, S)
    OBVIOUS
  <2>1. Plain(S) /\ IsFiniteSet(S) /\ S # {}
    BY <1>0, FS_EmptySet
  <2>2. PICK r \in S : \A s \in S \ {r} : Before(r, s)
    BY <2>1, FirstRow
  <2> DEFINE T == S \ {r}
  <2>3. T \in SUBSET rows /\ Cardinality(T) = n
    <3>1. Cardinality(T) = Cardinality(S) - 1
      BY <2>1, <2>2, FS_RemoveElement
    <3> QED BY <3>1
  <2>4. PICK w : Sorted(w, T)
    BY <1>2, <2>3
  <2> DEFINE N == Len(w)
             v == [i \in 1 .. N + 1 |-> IF i = 1 THEN r.id ELSE w[i - 1]]
  <2>5. N \in Nat /\ \A i \in 1 .. N : w[i] \in Nat
    BY <2>4, ElementOfSeq DEF Sorted
  <2>6. r.id \in Nat
    BY <2>1, <2>2 DEF Plain, Rows
  <2>7. /\ v \in Seq(Nat) /\ Len(v) = N + 1 /\ v[1] = r.id
        /\ \A i \in 1 .. N : v[i + 1] = w[i]
        /\ \A i \in 1 .. N + 1 : i # 1 => i - 1 \in 1 .. N /\ v[i] = w[i - 1]
    <3> HIDE DEF N
    <3>1. \A i \in 1 .. N + 1 : v[i] \in Nat
      BY <2>5, <2>6
    <3>2. v \in [1 .. N + 1 -> Nat] /\ N + 1 \in Nat
      BY <2>5, <3>1
    <3>3. v \in Seq(Nat) /\ Len(v) = N + 1
      BY <3>2, IsASeq
    <3>4. \A i \in 1 .. N : i + 1 \in 1 .. N + 1 /\ i + 1 # 1 /\ (i + 1) - 1 = i
      BY <2>5
    <3>5. \A i \in 1 .. N + 1 : i # 1 => i - 1 \in 1 .. N
      BY <2>5
    <3>6. 1 \in 1 .. N + 1
      BY <2>5
    <3> QED BY <3>3, <3>4, <3>5, <3>6
  <2> HIDE DEF v
  <2>8. \A i \in 1 .. N : \E s \in T : s.id = w[i]
    BY <2>4 DEF Sorted
  <2>9. \A s \in T : \E i \in 1 .. N : w[i] = s.id
    BY <2>4 DEF Sorted
  <2>10. \A i, j \in 1 .. N : \A s, t \in T : i < j /\ s.id = w[i] /\ t.id = w[j] => Before(s, t)
    BY <2>4 DEF Sorted
  <2> HIDE DEF N
  <2>11. \A s \in S : s.id = r.id => s = r
    BY <2>1, <2>2 DEF Plain
  <2>12. \A i \in 1 .. N : w[i] # r.id
    BY <2>8, <2>11
  <2>13. \A i \in 1 .. N + 1 : \E s \in S : s.id = v[i]
    BY <2>2, <2>7, <2>8
  <2>14. \A s \in S : \E i \in 1 .. N + 1 : v[i] = s.id
    <3> SUFFICES ASSUME NEW s \in S PROVE \E i \in 1 .. N + 1 : v[i] = s.id
      OBVIOUS
    <3>1. CASE s = r
      <4>1. 1 \in 1 .. N + 1
        BY <2>5
      <4> QED BY <2>7, <3>1, <4>1
    <3>2. CASE s # r
      <4>1. PICK i \in 1 .. N : w[i] = s.id
        BY <2>9, <3>2
      <4>2. i + 1 \in 1 .. N + 1 /\ v[i + 1] = s.id
        BY <2>5, <2>7, <4>1
      <4> QED BY <4>2
    <3> QED BY <3>1, <3>2
  <2>15. \A i, j \in 1 .. N + 1 : \A s, t \in S : i < j /\ s.id = v[i] /\ t.id = v[j] => Before(s, t)
    <3> SUFFICES ASSUME NEW i \in 1 .. N + 1, NEW j \in 1 .. N + 1, NEW s \in S, NEW t \in S,
                        i < j, s.id = v[i], t.id = v[j]
                 PROVE  Before(s, t)
      OBVIOUS
    <3>1. j # 1 /\ j - 1 \in 1 .. N /\ t.id = w[j - 1]
      BY <2>5, <2>7
    <3>2. t # r
      BY <2>12, <3>1
    <3>3. CASE i = 1
      <4>1. s = r
        BY <2>7, <2>11, <3>3
      <4> QED BY <2>2, <3>2, <4>1
    <3>4. CASE i # 1
      <4>1. i - 1 \in 1 .. N /\ s.id = w[i - 1] /\ i - 1 < j - 1
        BY <2>5, <2>7, <3>1, <3>4
      <4>2. s # r
        BY <2>12, <4>1
      <4> QED BY <2>10, <3>1, <3>2, <4>1, <4>2
    <3> QED BY <3>3, <3>4
  <2>16. Sorted(v, S)
    BY <2>7, <2>13, <2>14, <2>15 DEF Sorted
  <2> QED BY <2>16
<1> HIDE DEF B
<1>3. Nat \subseteq B
  BY <1>1, <1>2, SetInduction
<1> QED BY <1>0, <1>3 DEF B

\* So a listing lists its rows in order.
LEMMA ListingSorts ==
    ASSUME NEW rows, Plain(rows), IsFiniteSet(rows)
    PROVE  Sorted(IdsInOrder(rows), rows)
BY SortedExists, ListingIs

\* An item behind all others, and with an id of its own.
Behind(q, rows) == q \in Rows /\ \A r \in rows : r.idx < q.idx /\ r.id # q.id

LEMMA SortedAppends ==
    ASSUME NEW rows, Plain(rows), NEW w, Sorted(w, rows), NEW q, Behind(q, rows)
    PROVE  Plain(rows \cup {q}) /\ Sorted(Append(w, q.id), rows \cup {q})
<1> DEFINE N == Len(w)
           v == Append(w, q.id)
           all == rows \cup {q}
<1>1. /\ w \in Seq(Nat)
      /\ \A i \in 1 .. N : \E r \in rows : r.id = w[i]
      /\ \A r \in rows : \E i \in 1 .. N : w[i] = r.id
      /\ \A i, j \in 1 .. N : \A r, s \in rows : i < j /\ r.id = w[i] /\ s.id = w[j] => Before(r, s)
  BY DEF Sorted
<1>2. q.id \in Nat /\ q \in Rows /\ \A r \in rows : r \in Rows /\ r.idx < q.idx /\ r.id # q.id
  BY DEF Behind, Plain, Rows
<1>3. /\ v \in Seq(Nat) /\ Len(v) = N + 1 /\ N \in Nat /\ v[N + 1] = q.id
      /\ \A i \in 1 .. N : v[i] = w[i]
  BY <1>1, <1>2, AppendProperties
<1> HIDE DEF N, v
<1>4. Plain(all)
  BY <1>2 DEF Plain
<1>5. \A i \in 1 .. N + 1 : i = N + 1 \/ i \in 1 .. N
  BY <1>3
<1>6. N + 1 \in 1 .. N + 1 /\ \A i \in 1 .. N : i \in 1 .. N + 1
  BY <1>3
<1>7. \A i \in 1 .. N + 1 : \E r \in all : r.id = v[i]
  BY <1>1, <1>3, <1>5
<1>8. \A r \in all : \E i \in 1 .. N + 1 : v[i] = r.id
  BY <1>1, <1>3, <1>6
<1>9. \A i, j \in 1 .. N + 1 : \A r, s \in all : i < j /\ r.id = v[i] /\ s.id = v[j] => Before(r, s)
  <2> SUFFICES ASSUME NEW i \in 1 .. N + 1, NEW j \in 1 .. N + 1, NEW r \in all, NEW s \in all,
                      i < j, r.id = v[i], s.id = v[j]
               PROVE  Before(r, s)
    OBVIOUS
  <2>1. i \in 1 .. N
    BY <1>3
  <2>2. r # q
    <3>1. PICK t \in rows : t.id = w[i]
      BY <1>1, <2>1
    <3> QED BY <1>2, <1>3, <2>1, <3>1
  <2>3. CASE j = N + 1
    <3>1. s.id = q.id
      BY <1>3, <2>3
    <3>2. s = q
      BY <1>2, <3>1
    <3> QED BY <1>2, <2>2, <3>2 DEF Before
  <2>4. CASE j # N + 1
    <3>1. j \in 1 .. N /\ s.id = w[j] /\ r.id = w[i]
      BY <1>3, <1>5, <2>1, <2>4
    <3>2. s # q
      <4>1. PICK t \in rows : t.id = w[j]
        BY <1>1, <3>1
      <4> QED BY <1>2, <3>1, <4>1
    <3> QED BY <1>1, <2>1, <2>2, <3>1, <3>2
  <2> QED BY <2>3, <2>4
<1>10. Sorted(v, all)
  BY <1>3, <1>7, <1>8, <1>9 DEF Sorted
<1> QED BY <1>4, <1>10 DEF v

\* An item is cut out.
LEMMA SortedShrinks ==
    ASSUME NEW rows, Plain(rows), NEW w, Sorted(w, rows), NEW id
    PROVE  /\ Plain({r \in rows : r.id # id})
           /\ Sorted(EntriesAt(w, {k \in DOMAIN w : w[k] # id}), {r \in rows : r.id # id})
<1> DEFINE N == Len(w)
           P == {k \in DOMAIN w : w[k] # id}
           A == Ascending(P)
           v == EntriesAt(w, P)
           some == {r \in rows : r.id # id}
<1>1. /\ w \in Seq(Nat)
      /\ \A i \in 1 .. N : \E r \in rows : r.id = w[i]
      /\ \A r \in rows : \E i \in 1 .. N : w[i] = r.id
      /\ \A i, j \in 1 .. N : \A r, s \in rows : i < j /\ r.id = w[i] /\ s.id = w[j] => Before(r, s)
  BY DEF Sorted
<1>2. N \in Nat /\ P \in SUBSET (1 .. N) /\ P \in SUBSET Int /\ \A k \in 1 .. N : k \in P <=> w[k] # id
  <2>1. DOMAIN w = 1 .. N /\ N \in Nat
    BY <1>1, LenProperties
  <2> QED BY <2>1
<1> HIDE DEF P, N
<1>3. /\ IsFiniteSet(P) /\ v \in Seq(Nat) /\ Len(v) = Cardinality(P) /\ Cardinality(P) \in Nat
      /\ \A n \in 1 .. Cardinality(P) : A[n] \in P /\ v[n] = w[A[n]]
  BY <1>1, <1>2, EntriesFacts DEF N
<1>4. /\ Len(A) = Cardinality(P) /\ Increasing(A)
      /\ \A x \in P : \E i \in 1 .. Len(A) : A[i] = x
  BY <1>2, <1>3, AscendingFacts
<1> DEFINE M == Cardinality(P)
<1> HIDE DEF A, v, M
<1>5. Plain(some)
  BY DEF Plain
<1>6. \A i \in 1 .. M : \E r \in some : r.id = v[i]
  <2> SUFFICES ASSUME NEW i \in 1 .. M PROVE \E r \in some : r.id = v[i]
    OBVIOUS
  <2>1. A[i] \in 1 .. N /\ w[A[i]] # id /\ v[i] = w[A[i]]
    BY <1>2, <1>3 DEF M
  <2> QED BY <1>1, <2>1
<1>7. \A r \in some : \E i \in 1 .. M : v[i] = r.id
  <2> SUFFICES ASSUME NEW r \in some PROVE \E i \in 1 .. M : v[i] = r.id
    OBVIOUS
  <2>1. PICK k \in 1 .. N : w[k] = r.id
    BY <1>1
  <2>2. k \in P
    BY <1>2, <2>1
  <2>3. PICK i \in 1 .. M : A[i] = k
    BY <1>4, <2>2 DEF M
  <2> QED BY <1>3, <2>1, <2>3 DEF M
<1>8. \A i, j \in 1 .. M : \A r, s \in some : i < j /\ r.id = v[i] /\ s.id = v[j] => Before(r, s)
  <2> SUFFICES ASSUME NEW i \in 1 .. M, NEW j \in 1 .. M, NEW r \in some, NEW s \in some,
                      i < j, r.id = v[i], s.id = v[j]
               PROVE  Before(r, s)
    OBVIOUS
  <2>1. A[i] < A[j]
    BY <1>4 DEF M, Increasing
  <2>2. A[i] \in 1 .. N /\ A[j] \in 1 .. N /\ r.id = w[A[i]] /\ s.id = w[A[j]]
    BY <1>2, <1>3 DEF M
  <2>3. PICK a \in 1 .. N, b \in 1 .. N : a = A[i] /\ b = A[j]
    BY <2>2
  <2>4. a < b /\ r.id = w[a] /\ s.id = w[b] /\ r \in rows /\ s \in rows
    BY <2>1, <2>2, <2>3
  <2> QED BY <1>1, <2>4
<1>9. Sorted(v, some)
  BY <1>3, <1>6, <1>7, <1>8 DEF Sorted, M
<1> QED BY <1>5, <1>9 DEF v, P

\* The rows that the first k ids of a list name, with their places in it for indices.
Numbered(rows, o, k) ==
    {q \in Rows : \E i \in 1 .. k : \E r \in rows : r.id = o[i] /\ q = [r EXCEPT !.idx = i - 1]}

\* A list that names each of the rows once.
Arranges(o, rows) ==
    /\ o \in Seq(Nat)
    /\ \A i, j \in 1 .. Len(o) : o[i] = o[j] => i = j
    /\ \A i \in 1 .. Len(o) : \E r \in rows : r.id = o[i]
    /\ \A r \in rows : \E i \in 1 .. Len(o) : o[i] = r.id

\* A row keeps its id and its symbol when its index is set.
LEMMA IndexIsSet ==
    ASSUME NEW r \in Rows, NEW i \in Nat
    PROVE  /\ [r EXCEPT !.idx = i] \in Rows /\ [r EXCEPT !.idx = i].id = r.id
           /\ [r EXCEPT !.idx = i].symbol = r.symbol /\ [r EXCEPT !.idx = i].idx = i
BY DEF Rows

\* What a row of the numbered ones is.
LEMMA NumberedFacts ==
    ASSUME NEW rows, Plain(rows), NEW o, Arranges(o, rows), NEW k \in 0 .. Len(o)
    PROVE  /\ Plain(Numbered(rows, o, k))
           /\ \A i \in 1 .. k : \E q \in Numbered(rows, o, k) : q.id = o[i]
           /\ \A q \in Numbered(rows, o, k) : \E i \in 1 .. k : q.id = o[i] /\ q.idx = i - 1
<1>0. Len(o) \in Nat /\ \A i \in 1 .. k : i \in 1 .. Len(o) /\ i - 1 \in Nat
  <2> DEFINE n == Len(o)
  <2>1. n \in Nat
    BY LenProperties DEF Arranges
  <2> HIDE DEF n
  <2>2. \A i \in 1 .. k : i \in 1 .. n /\ i - 1 \in Nat
    BY <2>1 DEF n
  <2> QED BY <2>1, <2>2 DEF n
<1>1. \A q \in Numbered(rows, o, k) : \E i \in 1 .. k : q.id = o[i] /\ q.idx = i - 1 /\ \E r \in rows : r.id = o[i] /\ q = [r EXCEPT !.idx = i - 1]
  <2> SUFFICES ASSUME NEW i \in 1 .. k, NEW r \in rows, r.id = o[i]
               PROVE  [r EXCEPT !.idx = i - 1].id = o[i] /\ [r EXCEPT !.idx = i - 1].idx = i - 1
    BY DEF Numbered
  <2>1. r \in Rows /\ i - 1 \in Nat
    BY <1>0 DEF Plain
  <2> QED BY <2>1, IndexIsSet
<1>2. ASSUME NEW i \in 1 .. k PROVE \E q \in Numbered(rows, o, k) : q.id = o[i]
  <2>1. PICK r \in rows : r.id = o[i]
    BY <1>0 DEF Arranges
  <2>2. r \in Rows /\ i - 1 \in Nat
    BY <1>0 DEF Plain
  <2> DEFINE q == [r EXCEPT !.idx = i - 1]
  <2>3. q \in Rows /\ q.id = o[i]
    BY <2>1, <2>2, IndexIsSet
  <2>4. q \in Numbered(rows, o, k)
    BY <2>1, <2>3 DEF Numbered
  <2> QED BY <2>3, <2>4
<1>3. ASSUME NEW p \in Numbered(rows, o, k), NEW q \in Numbered(rows, o, k), p.id = q.id PROVE p = q
  <2>1. PICK i \in 1 .. k : p.id = o[i] /\ \E r \in rows : r.id = o[i] /\ p = [r EXCEPT !.idx = i - 1]
    BY <1>1
  <2>2. PICK j \in 1 .. k : q.id = o[j] /\ \E r \in rows : r.id = o[j] /\ q = [r EXCEPT !.idx = j - 1]
    BY <1>1
  <2>3. i = j
    BY <1>0, <1>3, <2>1, <2>2 DEF Arranges
  <2> QED BY <2>1, <2>2, <2>3 DEF Plain
<1>4. Plain(Numbered(rows, o, k))
  BY <1>3 DEF Plain, Numbered
<1> QED BY <1>1, <1>2, <1>4

\* A list is the order of the rows it numbers.
LEMMA NumberedSorts ==
    ASSUME NEW rows, Plain(rows), NEW o, Arranges(o, rows)
    PROVE  Plain(Numbered(rows, o, Len(o))) /\ Sorted(o, Numbered(rows, o, Len(o)))
<1> DEFINE N == Len(o)
           all == Numbered(rows, o, N)
<1>1. /\ N \in Nat /\ o \in Seq(Nat) /\ \A i, j \in 1 .. N : o[i] = o[j] => i = j
  BY DEF Arranges
<1>2. N \in 0 .. Len(o)
  BY <1>1
<1>3. /\ Plain(all)
      /\ \A i \in 1 .. N : \E q \in all : q.id = o[i]
      /\ \A q \in all : \E i \in 1 .. N : q.id = o[i] /\ q.idx = i - 1
  BY <1>2, NumberedFacts
<1> HIDE DEF all, N
<1>4. \A i, j \in 1 .. N : \A r, s \in all : i < j /\ r.id = o[i] /\ s.id = o[j] => Before(r, s)
  <2> SUFFICES ASSUME NEW i \in 1 .. N, NEW j \in 1 .. N, NEW r \in all, NEW s \in all,
                      i < j, r.id = o[i], s.id = o[j]
               PROVE  Before(r, s)
    OBVIOUS
  <2>1. PICK m \in 1 .. N : r.id = o[m] /\ r.idx = m - 1
    BY <1>3
  <2>2. PICK n \in 1 .. N : s.id = o[n] /\ s.idx = n - 1
    BY <1>3
  <2>3. m = i /\ n = j
    BY <1>1, <2>1, <2>2
  <2> QED BY <1>1, <2>1, <2>2, <2>3 DEF Before
<1>5. Sorted(o, all)
  BY <1>1, <1>3, <1>4 DEF Sorted, N
<1> QED BY <1>3, <1>5 DEF all, N

\* The index of a new item is above all others.
LEMMA NextIsBehind ==
    ASSUME NEW rows, Plain(rows), NEW w, Sorted(w, rows)
    PROVE  NextSortIndex(rows) \in Nat /\ \A r \in rows : r.idx < NextSortIndex(rows)
<1>1. CASE rows = {}
  BY <1>1 DEF NextSortIndex
<1>2. CASE rows # {}
  <2> DEFINE N == Len(w)
             X == {r.idx : r \in rows}
  <2>0. w \in Seq(Nat)
    BY DEF Sorted
  <2>1. /\ N \in Nat
        /\ \A i \in 1 .. N : \E r \in rows : r.id = w[i]
        /\ \A r \in rows : \E i \in 1 .. N : w[i] = r.id
        /\ \A i, j \in 1 .. N : \A r, s \in rows : i < j /\ r.id = w[i] /\ s.id = w[j] => Before(r, s)
    <3> HIDE DEF X
    <3> QED BY <2>0, LenProperties DEF Sorted
  <2>2. \A r \in rows : r.idx \in Nat
    BY DEF Plain, Rows
  <2> HIDE DEF N
  <2>3. N \in 1 .. N
    BY <1>2, <2>1
  <2>4. PICK q \in rows : q.id = w[N]
    BY <2>1, <2>3
  <2>5. \A r \in rows : r.idx <= q.idx
    <3> SUFFICES ASSUME NEW r \in rows PROVE r.idx <= q.idx
      OBVIOUS
    <3>1. PICK i \in 1 .. N : w[i] = r.id
      BY <2>1
    <3>2. CASE i = N
      <4>1. r = q
        BY <2>4, <3>1, <3>2 DEF Plain
      <4> QED BY <2>2, <4>1
    <3>3. CASE i # N
      <4>1. Before(r, q)
        BY <2>1, <2>3, <2>4, <3>1, <3>3
      <4> QED BY <2>2, <4>1 DEF Before
    <3> QED BY <3>2, <3>3
  <2>6. q.idx \in X /\ \A y \in X : q.idx >= y
    BY <2>2, <2>5
  <2> HIDE DEF X
  <2>7. Max(X) \in X /\ \A y \in X : Max(X) >= y
    BY <2>6 DEF Max
  <2>8. NextSortIndex(rows) = Max(X) + 1
    BY <1>2 DEF NextSortIndex, X
  <2>9. Max(X) \in Nat /\ \A r \in rows : Max(X) >= r.idx
    BY <2>2, <2>7 DEF X
  <2> QED BY <2>2, <2>8, <2>9
<1> QED BY <1>1, <1>2

\* What is known of a request beside the rows it will be applied to: an addition goes
\* behind them, a reorder arranges them and has numbered those it came to.
Planned(x, rows) ==
    /\ x.op \in {"create", "delete", "update", "reorder"}
    /\ x.op = "create" => Behind(x.row, rows)
    /\ x.op = "update" =>
          /\ x.row.idx \in Nat
          /\ x.mirror => \E d \in Rows : x.done = {d} /\ d.id = x.row.id
    /\ x.op = "reorder" =>
          /\ Arranges(x.order, rows)
          /\ x.at \in 0 .. Len(x.order)
          /\ x.done = Numbered(rows, x.order, x.at)
          /\ x.mirror => x.at = Len(x.order)

\* A reorder numbers every row, in the table as in Redis.
LEMMA ReorderNumbers ==
    ASSUME NEW rows, Plain(rows), NEW x, x.op = "reorder", Planned(x, rows)
    PROVE  Changed(x, rows) = Numbered(rows, x.order, Len(x.order))
<1>1. CASE x.mirror
  BY <1>1 DEF Changed, Planned
<1>2. CASE ~x.mirror
  <2> DEFINE o == x.order
             N == Len(o)
             moved(r) == IF \E k \in 1..Len(o) : o[k] = r.id
                         THEN [r EXCEPT !.idx = (CHOOSE k \in 1..Len(o) : o[k] = r.id) - 1]
                         ELSE r
  <2>1. Changed(x, rows) = {moved(r) : r \in rows}
    BY <1>2 DEF Changed
  <2>2. Arranges(o, rows)
    BY DEF Planned
  <2> HIDE DEF o
  <2>3. \A r \in rows : \A i \in 1 .. N : o[i] = r.id => moved(r) = [r EXCEPT !.idx = i - 1]
    <3> SUFFICES ASSUME NEW r \in rows, NEW i \in 1 .. N, o[i] = r.id
                 PROVE  moved(r) = [r EXCEPT !.idx = i - 1]
      OBVIOUS
    <3>1. \A k \in 1 .. N : o[k] = r.id => k = i
      BY <2>2 DEF Arranges
    <3>2. (CHOOSE k \in 1..Len(o) : o[k] = r.id) = i
      BY <3>1
    <3> QED BY <3>2
  <2>4. \A r \in rows : \E i \in 1 .. N : o[i] = r.id
    BY <2>2 DEF Arranges
  <2>5. \A i \in 1 .. N : i - 1 \in Nat
    BY <2>2 DEF Arranges
  <2> HIDE DEF moved, N
  <2>6. ASSUME NEW r \in rows PROVE moved(r) \in Numbered(rows, o, N)
    <3>1. PICK i \in 1 .. N : o[i] = r.id
      BY <2>4
    <3>2. moved(r) = [r EXCEPT !.idx = i - 1]
      BY <2>3, <3>1
    <3>3. r \in Rows /\ i - 1 \in Nat
      BY <2>5 DEF Plain
    <3>4. moved(r) \in Rows
      BY <3>2, <3>3, IndexIsSet
    <3> QED BY <3>1, <3>2, <3>4 DEF Numbered
  <2>7. ASSUME NEW q \in Numbered(rows, o, N) PROVE q \in {moved(r) : r \in rows}
    <3>1. PICK i \in 1 .. N, r \in rows : r.id = o[i] /\ q = [r EXCEPT !.idx = i - 1]
      BY DEF Numbered
    <3>2. q = moved(r)
      BY <2>3, <3>1
    <3> QED BY <3>2
  <2>8. Changed(x, rows) = Numbered(rows, o, N)
    BY <2>1, <2>6, <2>7
  <2> QED BY <2>8 DEF o, N
<1> QED BY <1>1, <1>2

\* A row in the place of another with its id.
LEMMA PlainReplaces ==
    ASSUME NEW rows, Plain(rows), NEW q \in Rows
    PROVE  Plain({r \in rows : r.id # q.id} \cup {q})
BY DEF Plain

\* What a request that is not refused makes of the rows is listed as its answer asks for.
LEMMA ChangedSorts ==
    ASSUME NEW rows, Plain(rows), Sorted(wanted, rows), NEW x, Planned(x, rows), ~Refused(x, rows)
    PROVE  Plain(Changed(x, rows)) /\ Sorted(Wish(x, Changed(x, rows)), Changed(x, rows))
<1>1. CASE x.op = "create"
  <2> DEFINE q == x.row
  <2>1. Behind(q, rows) /\ Changed(x, rows) = rows \cup {q} /\ Wish(x, Changed(x, rows)) = Append(wanted, q.id)
    BY <1>1 DEF Planned, Changed, Wish
  <2>2. PICK w : w = wanted
    OBVIOUS
  <2> HIDE DEF q
  <2>3. Plain(rows \cup {q}) /\ Sorted(Append(w, q.id), rows \cup {q})
    BY <2>1, <2>2, SortedAppends
  <2> QED BY <2>1, <2>2, <2>3
<1>2. CASE x.op = "delete"
  <2> DEFINE id == x.row.id
             C == {r \in rows : r.id # id}
             v == EntriesAt(wanted, {k \in DOMAIN wanted : wanted[k] # id})
  <2>1. Changed(x, rows) = C /\ Wish(x, Changed(x, rows)) = v
    BY <1>2 DEF Changed, Wish
  <2> HIDE DEF id
  <2>2. Plain(C) /\ Sorted(v, C)
    BY SortedShrinks
  <2> HIDE DEF C, v
  <2> QED BY <2>1, <2>2
<1>3. CASE x.op = "reorder"
  <2> DEFINE o == x.order
             C == Numbered(rows, o, Len(o))
  <2>1. Changed(x, rows) = C
    BY <1>3, ReorderNumbers
  <2>2. Wish(x, Changed(x, rows)) = o /\ Arranges(o, rows)
    BY <1>3 DEF Wish, Planned
  <2> HIDE DEF o
  <2>3. Plain(C) /\ Sorted(o, C)
    BY <2>2, NumberedSorts
  <2> QED BY <2>1, <2>2, <2>3
<1>4. CASE x.op = "update"
  <2> DEFINE q == IF x.mirror THEN CHOOSE d \in x.done : TRUE
                  ELSE [RowOf(rows, x.row.id) EXCEPT !.idx = x.row.idx]
             id == x.row.id
             C == {r \in rows : r.id # id} \cup {q}
  <2>1. Changed(x, rows) = C
    BY <1>4 DEF Changed
  <2>2. Wish(x, Changed(x, rows)) = IdsInOrder(Changed(x, rows))
    BY <1>4 DEF Wish
  <2>3. id \in Ids(rows) /\ x.row.idx \in Nat
    BY <1>4 DEF Refused, Planned
  <2>4. ASSUME x.mirror PROVE q \in Rows /\ q.id = id
    <3>1. PICK d \in Rows : x.done = {d} /\ d.id = id
      BY <1>4, <2>4 DEF Planned
    <3>2. q = d
      BY <2>4, <3>1
    <3> QED BY <3>1, <3>2
  <2>5. ASSUME ~x.mirror PROVE q \in Rows /\ q.id = id
    <3> DEFINE r == RowOf(rows, id)
    <3>1. r \in Rows /\ r.id = id
      BY <2>3, RowOfFacts DEF Plain
    <3>2. q = [r EXCEPT !.idx = x.row.idx]
      BY <2>5
    <3> HIDE DEF r, q, id
    <3> QED BY <2>3, <3>1, <3>2, IndexIsSet
  <2>6. q \in Rows /\ q.id = id
    BY <2>4, <2>5
  <2> HIDE DEF q, id
  <2>7. Plain(C)
    BY <2>6, PlainReplaces
  <2>8. IsFiniteSet(C)
    <3> DEFINE S == {r \in rows : r.id # id}
    <3>1. IsFiniteSet(rows) /\ S \subseteq rows
      BY ListingIs
    <3> HIDE DEF S
    <3>2. IsFiniteSet(S)
      BY <3>1, FS_Subset
    <3>3. IsFiniteSet(S \cup {q})
      BY <3>2, FS_AddElement
    <3> QED BY <3>3 DEF S
  <2> HIDE DEF C
  <2> QED BY <2>1, <2>2, <2>7, <2>8, ListingSorts
<1> QED BY <1>1, <1>2, <1>3, <1>4 DEF Planned

\* The rows while a reorder is half done.
Renumbered(rows, o, k) ==
    {r \in rows : \A i \in 1 .. k : o[i] # r.id} \cup Numbered(rows, o, k)

\* A request on its way in a quiet history: Redis still holds the rows it found, and the
\* table is ahead of them by what its statements have done.
Phase(x, m, held, rows) ==
    /\ Planned(x, rows)
    /\ x.pc = "table" =>
          /\ m = "supabase" /\ ~x.mirror
          /\ held = IF x.op = "reorder" THEN Renumbered(rows, x.order, x.at) ELSE rows
    /\ x.pc = "load" =>
          IF m = "supabase" THEN x.mirror /\ ~Refused(x, rows) /\ held = Changed(x, rows) ELSE ~x.mirror
    /\ x.pc = "save" =>
          /\ ~Refused(x, rows) /\ x.copy = Changed(x, rows)
          /\ m = "supabase" => held = x.copy

\* In a quiet history one request is served at a time, and between requests Redis and
\* the table hold the rows the history asks for.
CalmInv ==
    calm =>
        /\ Plain(redis) /\ Sorted(wanted, redis)
        /\ \A v \in Workers : Busy(v) => /\ Phase(req[v], mode, table, redis)
                                         /\ \A u \in Workers \ {v} : ~Busy(u)
        /\ mode = "supabase" /\ (\A v \in Workers : ~Busy(v)) => table = redis

\* A step of the only request that is served.
LEMMA CalmSteps ==
    ASSUME NEW w \in Workers, NEW x, req = [v \in Workers |-> req[v]],
           req' = [req EXCEPT ![w] = x], mode' = mode,
           calm' => /\ \A u \in Workers \ {w} : ~Busy(u)
                    /\ Plain(redis') /\ Sorted(wanted', redis')
                    /\ x.pc # "idle" => Phase(x, mode, table', redis')
                    /\ x.pc = "idle" /\ mode = "supabase" => table' = redis'
    PROVE  CalmInv'
<1>1. req'[w] = x /\ \A v \in Workers \ {w} : req'[v] = req[v]
  OBVIOUS
<1>2. ASSUME calm'
      PROVE  /\ \A v \in Workers : req'[v].pc # "idle" => v = w
             /\ \A v \in Workers : req'[v].pc # "idle" => Phase(req'[v], mode', table', redis')
             /\ (\A v \in Workers : req'[v].pc = "idle") => x.pc = "idle"
  BY <1>1, <1>2 DEF Busy
<1> QED BY <1>2 DEF CalmInv, Busy

\* While a request is served in a quiet history.
LEMMA CalmServes ==
    ASSUME NEW f, ListInv(f), CalmInv, calm, NEW w \in Workers, Busy(w)
    PROVE  /\ Plain(redis) /\ Sorted(wanted, redis) /\ IsFiniteSet(redis)
           /\ Phase(req[w], mode, table, redis) /\ \A u \in Workers \ {w} : ~Busy(u)
<1>1. Plain(redis) /\ Sorted(wanted, redis)
  BY DEF CalmInv
<1>2. PICK v : v = wanted
  OBVIOUS
<1>3. PICK rows : rows = redis
  OBVIOUS
<1>4. IsFiniteSet(rows)
  BY <1>1, <1>2, <1>3, ListingIs
<1> QED BY <1>1, <1>3, <1>4 DEF CalmInv

\* Requests that are carried out alike.
LEMMA SameRequest ==
    ASSUME NEW x, NEW y, y.op = x.op, y.row = x.row, y.order = x.order, y.mirror = x.mirror,
           y.at = x.at, y.done = x.done, NEW rows
    PROVE  /\ Planned(x, rows) => Planned(y, rows)
           /\ Refused(y, rows) <=> Refused(x, rows)
           /\ Changed(y, rows) = Changed(x, rows)
<1>1. Planned(x, rows) => Planned(y, rows)
  BY DEF Planned
<1>2. Refused(y, rows) <=> Refused(x, rows)
  BY DEF Refused
<1>3. Changed(y, rows) = Changed(x, rows)
  BY DEF Changed
<1> QED BY <1>1, <1>2, <1>3

\* The request that a statement on the table leaves to its mirror.
LEMMA MirrorFields ==
    ASSUME NEW f, NEW m, NEW x, Pending(f, m, x), NEW y, y = Mirror(x)
    PROVE  /\ y.pc = "load" /\ y.op = x.op /\ y.row = x.row /\ y.order = x.order /\ y.mirror = TRUE
           /\ y.at = x.at /\ y.done = x.done
BY DEF Pending, Mirror

\* The statements on the table.
LEMMA CalmInserts ==
    ASSUME NEW f, ListInv(f), CalmInv, NEW w \in Workers, Insert(w)
    PROVE  CalmInv'
<1> DEFINE x == req[w]  y == Mirror(x)
<1>0. /\ Busy(w) /\ x.pc = "table" /\ x.op = "create" /\ mode' = mode /\ redis' = redis
      /\ calm' = (calm /\ Cardinality(table') <= Limit)
      /\ req = [v \in Workers |-> req[v]]
  BY DEF Insert, AtTable, ListInv
<1>1. Pending(f, made, x)
  BY <1>0, Served
<1>2. CASE req' = [req EXCEPT ![w] = Idle] /\ table' = table /\ wanted' = wanted
  <2>1. Idle.pc = "idle"
    BY DEF Idle
  <2>2. ASSUME calm'
        PROVE  /\ \A u \in Workers \ {w} : ~Busy(u)
               /\ Plain(redis') /\ Sorted(wanted', redis')
               /\ mode = "supabase" => table' = redis'
    <3>1. /\ Plain(redis) /\ Sorted(wanted, redis)
          /\ Phase(x, mode, table, redis) /\ \A u \in Workers \ {w} : ~Busy(u)
      BY <1>0, <2>2, CalmServes
    <3> HIDE DEF x
    <3>2. table = redis
      BY <1>0, <3>1 DEF Phase
    <3> QED BY <1>0, <1>2, <3>1, <3>2
  <2> QED BY <1>0, <1>2, <2>1, <2>2, CalmSteps
<1>3. CASE /\ req' = [req EXCEPT ![w] = y] /\ table' = table \cup {x.row} /\ wanted' = wanted
           /\ \A r \in table : r.symbol # x.row.symbol
  <2>1. ASSUME calm'
        PROVE  /\ \A u \in Workers \ {w} : ~Busy(u)
               /\ Plain(redis') /\ Sorted(wanted', redis')
               /\ y.pc # "idle" /\ Phase(y, mode, table', redis')
    <3>1. /\ Plain(redis) /\ Sorted(wanted, redis) /\ IsFiniteSet(redis)
          /\ Phase(x, mode, table, redis) /\ \A u \in Workers \ {w} : ~Busy(u)
      BY <1>0, <2>1, CalmServes
    <3> HIDE DEF x
    <3>2. table = redis /\ mode = "supabase" /\ Planned(x, redis) /\ Behind(x.row, redis)
      BY <1>0, <3>1 DEF Phase, Planned
    <3>3. /\ y.pc = "load" /\ y.op = x.op /\ y.row = x.row /\ y.order = x.order /\ y.mirror = TRUE
          /\ y.at = x.at /\ y.done = x.done
      BY <1>1, MirrorFields
    <3> HIDE DEF y
    <3>4. Planned(y, redis)
      BY <1>0, <3>2, <3>3 DEF Planned
    <3>5. Cardinality(redis) < Limit
      <4> DEFINE q == x.row
      <4>1. q \notin redis
        BY <3>2 DEF Behind
      <4>2. Cardinality(redis) \in Nat
        BY <3>1, FS_CardinalityType
      <4> HIDE DEF q
      <4>3. Cardinality(redis \cup {q}) = Cardinality(redis) + 1
        BY <3>1, <4>1, FS_AddElement
      <4>4. Cardinality(redis) + 1 <= Limit
        BY <1>0, <1>3, <2>1, <3>2, <4>3 DEF q
      <4> QED BY <4>2, <4>4, WatchlistAssumption
    <3>6. ~Refused(y, redis)
      <4>1. Cardinality(redis) \in Nat /\ Limit \in Nat
        BY <3>1, FS_CardinalityType, WatchlistAssumption
      <4>2. ~(\E r \in redis : r.symbol = y.row.symbol)
        BY <1>3, <3>2, <3>3
      <4> QED BY <1>0, <3>3, <3>5, <4>1, <4>2 DEF Refused
    <3>7. table' = Changed(y, redis)
      BY <1>0, <1>3, <3>2, <3>3 DEF Changed
    <3> QED BY <1>0, <1>3, <3>1, <3>2, <3>3, <3>4, <3>6, <3>7 DEF Phase
  <2> HIDE DEF y
  <2> QED BY <1>0, <1>3, <2>1, CalmSteps
<1> QED BY <1>2, <1>3 DEF Insert, Answer, Continue

LEMMA CalmDeletes ==
    ASSUME NEW f, ListInv(f), CalmInv, NEW w \in Workers, DeleteRow(w)
    PROVE  CalmInv'
<1> DEFINE x == req[w]  y == Mirror(x)
<1>0. /\ Busy(w) /\ x.pc = "table" /\ x.op = "delete" /\ mode' = mode /\ redis' = redis
      /\ calm' = calm
      /\ req = [v \in Workers |-> req[v]]
  BY DEF DeleteRow, AtTable, ListInv
<1>1. Pending(f, made, x)
  BY <1>0, Served
<1>2. CASE req' = [req EXCEPT ![w] = Idle] /\ table' = table /\ wanted' = wanted
  <2>1. Idle.pc = "idle"
    BY DEF Idle
  <2>2. ASSUME calm'
        PROVE  /\ \A u \in Workers \ {w} : ~Busy(u)
               /\ Plain(redis') /\ Sorted(wanted', redis')
               /\ mode = "supabase" => table' = redis'
    <3>1. /\ Plain(redis) /\ Sorted(wanted, redis)
          /\ Phase(x, mode, table, redis) /\ \A u \in Workers \ {w} : ~Busy(u)
      BY <1>0, <2>2, CalmServes
    <3> HIDE DEF x
    <3>2. table = redis
      BY <1>0, <3>1 DEF Phase
    <3> QED BY <1>0, <1>2, <3>1, <3>2
  <2> QED BY <1>0, <1>2, <2>1, <2>2, CalmSteps
<1>3. CASE /\ req' = [req EXCEPT ![w] = y] /\ wanted' = wanted
           /\ x.row.id \in Ids(table) /\ table' = {r \in table : r.id # x.row.id}
  <2>1. ASSUME calm'
        PROVE  /\ \A u \in Workers \ {w} : ~Busy(u)
               /\ Plain(redis') /\ Sorted(wanted', redis')
               /\ y.pc # "idle" /\ Phase(y, mode, table', redis')
    <3>1. /\ Plain(redis) /\ Sorted(wanted, redis)
          /\ Phase(x, mode, table, redis) /\ \A u \in Workers \ {w} : ~Busy(u)
      BY <1>0, <2>1, CalmServes
    <3> HIDE DEF x
    <3>2. table = redis /\ mode = "supabase" /\ Planned(x, redis)
      BY <1>0, <3>1 DEF Phase
    <3>3. /\ y.pc = "load" /\ y.op = x.op /\ y.row = x.row /\ y.order = x.order /\ y.mirror = TRUE
          /\ y.at = x.at /\ y.done = x.done
      BY <1>1, MirrorFields
    <3> HIDE DEF y
    <3>4. Planned(y, redis)
      BY <1>0, <3>2, <3>3 DEF Planned
    <3>6. ~Refused(y, redis)
      BY <1>0, <1>3, <3>2, <3>3 DEF Refused
    <3>7. table' = Changed(y, redis)
      BY <1>0, <1>3, <3>2, <3>3 DEF Changed
    <3> QED BY <1>0, <1>3, <3>1, <3>2, <3>3, <3>4, <3>6, <3>7 DEF Phase
  <2> HIDE DEF y
  <2> QED BY <1>0, <1>3, <2>1, CalmSteps
<1> QED BY <1>2, <1>3 DEF DeleteRow, Answer, Continue

\* One more row of a reorder, and the end of it.
LEMMA RenumberedStep ==
    ASSUME NEW rows, Plain(rows), NEW o, Arranges(o, rows), NEW n \in Nat, NEW k \in 1 .. Len(o), k = n + 1,
           NEW held, held = Renumbered(rows, o, n),
           NEW new, new = [RowOf(held, o[k]) EXCEPT !.idx = k - 1]
    PROVE  /\ o[k] \in Ids(held)
           /\ {r \in held : r.id # o[k]} \cup {new} = Renumbered(rows, o, k)
           /\ Numbered(rows, o, n) \cup {new} = Numbered(rows, o, k)
<1>1. /\ Len(o) \in Nat /\ n \in 0 .. Len(o)
      /\ \A i, j \in 1 .. Len(o) : o[i] = o[j] => i = j
  BY DEF Arranges
<1>2. PICK r \in rows : r.id = o[k]
  BY DEF Arranges
<1>3. \A i \in 1 .. n : i \in 1 .. Len(o) /\ o[i] # o[k]
  BY <1>1
<1>4. r \in held
  BY <1>2, <1>3 DEF Renumbered
<1>5. o[k] \in Ids(held)
  BY <1>2, <1>4 DEF Ids
<1>6. \A q \in Numbered(rows, o, n) : \E i \in 1 .. n : q.id = o[i] /\ q.idx = i - 1
  BY <1>1, NumberedFacts
<1>7. \A q \in Numbered(rows, o, n) : q.id # o[k]
  BY <1>3, <1>6
<1>8. RowOf(held, o[k]) = r
  <2> DEFINE t == RowOf(held, o[k])
  <2>1. t \in held /\ t.id = o[k]
    BY <1>5, RowOfFacts
  <2> HIDE DEF t
  <2>2. t \in rows
    BY <1>7, <2>1 DEF Renumbered
  <2>3. t = r
    BY <1>2, <2>1, <2>2 DEF Plain
  <2> QED BY <2>3 DEF t
<1>9. new = [r EXCEPT !.idx = k - 1] /\ k - 1 \in Nat /\ r \in Rows
  BY <1>8 DEF Plain
<1>10. new \in Rows /\ new.id = o[k]
  <2>1. PICK i \in Nat : i = k - 1 /\ new = [r EXCEPT !.idx = i]
    BY <1>9
  <2>2. [r EXCEPT !.idx = i] \in Rows /\ [r EXCEPT !.idx = i].id = r.id
    BY <1>9, IndexIsSet
  <2> QED BY <1>2, <2>1, <2>2
<1>11. \A t \in rows : t.id = o[k] => t = r
  BY <1>2 DEF Plain
<1>12. 1 .. k = (1 .. n) \cup {k}
  OBVIOUS
<1>13. Numbered(rows, o, n) \cup {new} = Numbered(rows, o, k)
  <2>1. ASSUME NEW q \in Numbered(rows, o, k) PROVE q \in Numbered(rows, o, n) \cup {new}
    <3>1. PICK i \in 1 .. k : \E t \in rows : t.id = o[i] /\ q = [t EXCEPT !.idx = i - 1]
      BY DEF Numbered
    <3>2. CASE i = k
      BY <1>9, <1>11, <3>1, <3>2
    <3>3. CASE i \in 1 .. n
      <4>1. q \in Rows
        BY DEF Numbered
      <4> QED BY <3>1, <3>3, <4>1 DEF Numbered
    <3> QED BY <1>12, <3>2, <3>3
  <2>2. new \in Numbered(rows, o, k)
    <3>1. k \in 1 .. k
      OBVIOUS
    <3> QED BY <1>2, <1>9, <1>10, <3>1 DEF Numbered
  <2>3. Numbered(rows, o, n) \subseteq Numbered(rows, o, k)
    BY <1>12 DEF Numbered
  <2> QED BY <2>1, <2>2, <2>3
<1>14. {q \in held : q.id # o[k]} = {t \in rows : \A i \in 1 .. k : o[i] # t.id} \cup Numbered(rows, o, n)
  BY <1>7, <1>12 DEF Renumbered
<1>15. {q \in held : q.id # o[k]} \cup {new} = Renumbered(rows, o, k)
  BY <1>13, <1>14 DEF Renumbered
<1> QED BY <1>5, <1>13, <1>15

\* The beginning and the end of a reorder.
LEMMA RenumberedEnds ==
    ASSUME NEW rows, NEW o, Arranges(o, rows)
    PROVE  /\ Renumbered(rows, o, Len(o)) = Numbered(rows, o, Len(o))
           /\ Renumbered(rows, o, 0) = rows /\ Numbered(rows, o, 0) = {}
BY DEF Renumbered, Numbered, Arranges

\* The statements of a patch and of a reorder, row by row.
LEMMA CalmUpdates ==
    ASSUME NEW f, ListInv(f), CalmInv, NEW w \in Workers, UpdateRow(w)
    PROVE  CalmInv'
<1> DEFINE x == req[w]
           k == x.at + 1
           id == IF x.op = "update" THEN x.row.id ELSE x.order[k]
           idx == IF x.op = "update" THEN x.row.idx ELSE k - 1
           new == [RowOf(table, id) EXCEPT !.idx = idx]
           y == [x EXCEPT !.at = k, !.done = @ \cup {new}]
           z == Mirror(y)
           next == IF x.op = "reorder" /\ k < Len(x.order) THEN y ELSE z
<1>0. /\ Busy(w) /\ x.pc = "table" /\ x.op \in {"update", "reorder"} /\ mode' = mode /\ redis' = redis
      /\ calm' = calm
      /\ req = [v \in Workers |-> req[v]]
  BY DEF UpdateRow, AtTable, ListInv
<1>1. Pending(f, made, x)
  BY <1>0, Served
<1>2. wanted' = wanted
  BY DEF UpdateRow, Answer, Continue
<1>3. \/ id \notin Ids(table) /\ req' = [req EXCEPT ![w] = Idle] /\ table' = table
      \/ /\ id \in Ids(table)
         /\ table' = {r \in table : r.id # id} \cup {new}
         /\ req' = [req EXCEPT ![w] = next]
  BY DEF UpdateRow, Answer, Continue
<1>4. /\ y.pc = x.pc /\ y.op = x.op /\ y.row = x.row /\ y.order = x.order /\ y.mirror = x.mirror
      /\ y.at = k /\ y.done = x.done \cup {new}
      /\ z.pc = "load" /\ z.op = x.op /\ z.row = x.row /\ z.order = x.order /\ z.mirror = TRUE
      /\ z.at = k /\ z.done = x.done \cup {new}
  <2>1. y = [x EXCEPT !.at = k, !.done = @ \cup {new}] /\ z = Mirror(y)
    OBVIOUS
  <2> HIDE DEF x, new, k, y, z
  <2> QED BY <1>1, <2>1 DEF Pending, Mirror
<1>5. (x.op = "update" => id = x.row.id /\ idx = x.row.idx) /\ (x.op = "reorder" => id = x.order[k] /\ idx = k - 1)
  OBVIOUS
<1>6. next = y \/ next = z
  OBVIOUS
<1>7. x.op = "update" => next = z
  OBVIOUS
<1>8. x.op = "reorder" => next = IF k < Len(x.order) THEN y ELSE z
  OBVIOUS
<1>9. k = x.at + 1 /\ new = [RowOf(table, id) EXCEPT !.idx = idx]
  OBVIOUS
<1> HIDE DEF next, y, z, new, id, idx, k
<1>10. ASSUME calm'
       PROVE  /\ \A u \in Workers \ {w} : ~Busy(u)
              /\ Plain(redis) /\ Sorted(wanted, redis)
              /\ Phase(x, mode, table, redis) /\ Planned(x, redis) /\ mode = "supabase" /\ ~x.mirror
              /\ table = IF x.op = "reorder" THEN Renumbered(redis, x.order, x.at) ELSE redis
  <2>1. /\ Plain(redis) /\ Sorted(wanted, redis)
        /\ Phase(x, mode, table, redis) /\ \A u \in Workers \ {w} : ~Busy(u)
    BY <1>0, <1>10, CalmServes
  <2> HIDE DEF x
  <2> QED BY <1>0, <2>1 DEF Phase
<1> HIDE DEF x
<1>11. CASE x.op = "update"
  <2>1. ASSUME calm', id \notin Ids(table) PROVE table = redis
    BY <1>10, <1>11, <2>1
  <2>2. ASSUME calm', id \in Ids(table), table' = {r \in table : r.id # id} \cup {new}
        PROVE  z.pc # "idle" /\ Phase(z, mode, table', redis)
    <3>1. table = redis
      BY <1>10, <1>11, <2>2
    <3>2. x.done = {}
      BY <1>0, <1>1, <1>11 DEF Pending
    <3>3. x.row.idx \in Nat
      BY <1>10, <1>11, <2>2 DEF Planned
    <3>4. new \in Rows /\ new.id = id
      <4> DEFINE r == RowOf(table, id)
      <4>1. r \in Rows /\ r.id = id
        BY <1>10, <2>2, <3>1, RowOfFacts DEF Plain
      <4>2. new = [r EXCEPT !.idx = x.row.idx]
        BY <1>5, <1>9, <1>11
      <4> HIDE DEF r
      <4> QED BY <3>3, <4>1, <4>2, IndexIsSet
    <3>5. z.done = {new} /\ (CHOOSE d \in z.done : TRUE) = new
      BY <1>4, <3>2
    <3>6. Planned(z, redis)
      BY <1>4, <1>5, <1>11, <3>3, <3>4, <3>5 DEF Planned
    <3>7. ~Refused(z, redis)
      BY <1>4, <1>5, <1>11, <2>2, <3>1 DEF Refused
    <3>8. table' = Changed(z, redis)
      BY <1>4, <1>5, <1>11, <2>2, <3>1, <3>5 DEF Changed
    <3> QED BY <1>4, <1>10, <2>2, <3>6, <3>7, <3>8 DEF Phase
  <2>3. Idle.pc = "idle"
    BY DEF Idle
  <2>4. CASE id \notin Ids(table) /\ req' = [req EXCEPT ![w] = Idle] /\ table' = table
    BY <1>0, <1>2, <1>10, <2>1, <2>3, <2>4, CalmSteps
  <2>5. CASE /\ id \in Ids(table) /\ table' = {r \in table : r.id # id} \cup {new}
             /\ req' = [req EXCEPT ![w] = z]
    BY <1>0, <1>2, <1>10, <2>2, <2>5, CalmSteps
  <2> QED BY <1>3, <1>7, <1>11, <2>4, <2>5
<1>12. CASE x.op = "reorder"
  <2> DEFINE o == x.order
  <2>1. ASSUME calm'
        PROVE  /\ id \in Ids(table)
               /\ {r \in table : r.id # id} \cup {new} = Renumbered(redis, o, k)
               /\ x.done \cup {new} = Numbered(redis, o, k)
               /\ Arranges(o, redis) /\ k \in 1 .. Len(o)
    <3>1. x.at \in Nat /\ x.at < Len(o) /\ o \in Seq(1 .. made)
      BY <1>0, <1>1, <1>12 DEF Pending
    <3>2. Arranges(o, redis) /\ x.done = Numbered(redis, o, x.at) /\ Plain(redis)
      BY <1>10, <1>12, <2>1 DEF Planned
    <3>3. k \in 1 .. Len(o)
      BY <1>9, <3>1, LenProperties
    <3>4. table = Renumbered(redis, o, x.at) /\ id = o[k] /\ idx = k - 1
      BY <1>5, <1>10, <1>12, <2>1
    <3> HIDE DEF o
    <3>5. new = [RowOf(table, o[k]) EXCEPT !.idx = k - 1]
      BY <1>9, <3>4
    <3>6. /\ o[k] \in Ids(table)
          /\ {r \in table : r.id # o[k]} \cup {new} = Renumbered(redis, o, k)
          /\ Numbered(redis, o, x.at) \cup {new} = Numbered(redis, o, k)
      BY <1>9, <3>1, <3>2, <3>3, <3>4, <3>5, RenumberedStep
    <3> QED BY <3>2, <3>3, <3>4, <3>6
  <2>2. ASSUME calm', table' = {r \in table : r.id # id} \cup {new}
        PROVE  next.pc # "idle" /\ Phase(next, mode, table', redis)
    <3>1. /\ table' = Renumbered(redis, o, k) /\ x.done \cup {new} = Numbered(redis, o, k)
          /\ Arranges(o, redis) /\ k \in 1 .. Len(o) /\ Len(o) \in Nat
      BY <2>1, <2>2 DEF Arranges
    <3>2. k \in 0 .. Len(o)
      BY <3>1
    <3>3. CASE k < Len(o)
      <4>1. next = y
        BY <1>8, <1>12, <3>3
      <4>2. Planned(y, redis)
        BY <1>4, <1>10, <1>12, <2>2, <3>1, <3>2 DEF Planned
      <4>3. y.pc = "table" /\ y.op = "reorder" /\ y.order = o /\ y.at = k /\ ~y.mirror
        BY <1>0, <1>4, <1>10, <1>12, <2>2
      <4> HIDE DEF o
      <4> QED BY <1>10, <2>2, <3>1, <4>1, <4>2, <4>3 DEF Phase
    <3>4. CASE ~(k < Len(o))
      <4>1. next = z /\ k = Len(o)
        BY <1>8, <1>12, <3>1, <3>4
      <4>2. Planned(z, redis)
        BY <1>4, <1>12, <3>1, <3>2, <4>1 DEF Planned
      <4>3. z.pc = "load" /\ z.op = "reorder" /\ z.order = o /\ z.mirror
        BY <1>4, <1>12
      <4>4. ~Refused(z, redis)
        BY <4>3 DEF Refused
      <4>5. Changed(z, redis) = Numbered(redis, o, Len(o))
        BY <1>10, <2>2, <4>2, <4>3, ReorderNumbers
      <4>6. table' = Changed(z, redis)
        BY <3>1, <4>1, <4>5, RenumberedEnds
      <4> HIDE DEF o
      <4> QED BY <1>10, <2>2, <4>1, <4>2, <4>3, <4>4, <4>6 DEF Phase
    <3> QED BY <3>3, <3>4
  <2>3. Idle.pc = "idle"
    BY DEF Idle
  <2>4. CASE id \notin Ids(table) /\ req' = [req EXCEPT ![w] = Idle] /\ table' = table
    <3>1. ~calm'
      BY <2>1, <2>4
    <3> QED BY <3>1 DEF CalmInv
  <2>5. CASE /\ id \in Ids(table) /\ table' = {r \in table : r.id # id} \cup {new}
             /\ req' = [req EXCEPT ![w] = next]
    BY <1>0, <1>2, <1>10, <2>2, <2>5, CalmSteps
  <2> QED BY <1>3, <2>4, <2>5
<1> QED BY <1>0, <1>11, <1>12

\* Redis is read ...
LEMMA CalmLoads ==
    ASSUME NEW f, ListInv(f), CalmInv, NEW w \in Workers, Load(w)
    PROVE  CalmInv'
<1> DEFINE x == req[w]
           copy == Changed(x, redis)
           y == [x EXCEPT !.pc = "save", !.copy = copy]
<1>0. /\ Busy(w) /\ x.pc = "load" /\ mode' = mode /\ redis' = redis /\ table' = table /\ calm' = calm
      /\ req = [v \in Workers |-> req[v]]
  BY DEF Load, ListInv
<1>1. Pending(f, made, x)
  BY <1>0, Served
<1>2. \/ /\ Refused(x, redis) /\ req' = [req EXCEPT ![w] = Idle]
         /\ ~x.mirror => wanted' = wanted
      \/ ~Refused(x, redis) /\ req' = [req EXCEPT ![w] = y] /\ wanted' = wanted
  BY DEF Load, Answer, Continue
<1> HIDE DEF copy
<1>3. /\ y.pc = "save" /\ y.op = x.op /\ y.row = x.row /\ y.order = x.order /\ y.mirror = x.mirror
      /\ y.at = x.at /\ y.done = x.done /\ y.copy = copy
  <2> HIDE DEF x
  <2> QED BY <1>1 DEF Pending
<1> HIDE DEF y
<1>4. ASSUME calm'
      PROVE  /\ \A u \in Workers \ {w} : ~Busy(u)
             /\ Plain(redis) /\ Sorted(wanted, redis) /\ Planned(x, redis)
             /\ IF mode = "supabase" THEN x.mirror /\ ~Refused(x, redis) /\ table = copy ELSE ~x.mirror
  <2>1. /\ Plain(redis) /\ Sorted(wanted, redis)
        /\ Phase(x, mode, table, redis) /\ \A u \in Workers \ {w} : ~Busy(u)
    BY <1>0, <1>4, CalmServes
  <2> HIDE DEF x
  <2> QED BY <1>0, <2>1 DEF Phase, copy
<1> HIDE DEF x
<1>5. Idle.pc = "idle"
  BY DEF Idle
<1>6. CASE Refused(x, redis) /\ req' = [req EXCEPT ![w] = Idle] /\ (~x.mirror => wanted' = wanted)
  BY <1>0, <1>4, <1>5, <1>6, CalmSteps
<1>7. CASE ~Refused(x, redis) /\ req' = [req EXCEPT ![w] = y] /\ wanted' = wanted
  <2>1. ASSUME calm' PROVE y.pc # "idle" /\ Phase(y, mode, table, redis)
    <3>1. Planned(y, redis) /\ ~Refused(y, redis) /\ Changed(y, redis) = copy
      BY <1>3, <1>4, <1>7, <2>1, SameRequest DEF copy
    <3> QED BY <1>3, <1>4, <2>1, <3>1 DEF Phase
  <2> QED BY <1>0, <1>4, <1>7, <2>1, CalmSteps
<1> QED BY <1>2, <1>6, <1>7

\* ... and written: the history catches up with the answer.
LEMMA CalmSaves ==
    ASSUME NEW f, ListInv(f), CalmInv, NEW w \in Workers, Save(w)
    PROVE  CalmInv'
<1> DEFINE x == req[w]
<1>0. /\ Busy(w) /\ x.pc = "save" /\ mode' = mode /\ redis' = x.copy /\ table' = table /\ calm' = calm
      /\ req = [v \in Workers |-> req[v]] /\ req' = [req EXCEPT ![w] = Idle]
      /\ wanted' = Wish(x, IF mode = "supabase" THEN table ELSE x.copy)
  BY DEF Save, Answer, ListInv
<1>1. Idle.pc = "idle"
  BY DEF Idle
<1>2. ASSUME calm'
      PROVE  /\ \A u \in Workers \ {w} : ~Busy(u)
             /\ Plain(redis') /\ Sorted(wanted', redis')
             /\ mode = "supabase" => table' = redis'
  <2>1. /\ Plain(redis) /\ Sorted(wanted, redis)
        /\ Phase(x, mode, table, redis) /\ \A u \in Workers \ {w} : ~Busy(u)
    BY <1>0, <1>2, CalmServes
  <2> HIDE DEF x
  <2>2. /\ Planned(x, redis) /\ ~Refused(x, redis) /\ x.copy = Changed(x, redis)
        /\ mode = "supabase" => table = x.copy
    BY <1>0, <2>1 DEF Phase
  <2>3. Plain(Changed(x, redis)) /\ Sorted(Wish(x, Changed(x, redis)), Changed(x, redis))
    BY <2>1, <2>2, ChangedSorts
  <2>4. wanted' = Wish(x, Changed(x, redis)) /\ redis' = Changed(x, redis)
    BY <1>0, <2>2
  <2> QED BY <1>0, <2>1, <2>2, <2>3, <2>4
<1> HIDE DEF x
<1> QED BY <1>0, <1>1, <1>2, CalmSteps

\* A request that is taken up in a quiet history.
LEMMA CalmBegins ==
    ASSUME NEW f, ListInv(f), CalmInv, NEW w \in Workers, NEW op, NEW row, NEW order, NEW failed,
           Begin(w, Request(op, row, order), failed),
           calm /\ ~failed => Planned(Request(op, row, order), redis)
    PROVE  CalmInv'
<1> DEFINE x == Request(op, row, order)
<1>1. /\ req' = [req EXCEPT ![w] = x] /\ mode' = mode /\ redis' = redis /\ table' = table /\ wanted' = wanted
      /\ calm' = (calm /\ ~failed /\ \A v \in Workers : ~Busy(v))
      /\ req = [v \in Workers |-> req[v]]
  BY DEF Begin, ListInv
<1>2. /\ x.pc = FirstPc /\ x.op = op /\ x.order = order /\ x.mirror = FALSE /\ x.at = 0
  BY DEF Request
<1> HIDE DEF x
<1>3. ASSUME calm'
      PROVE  /\ \A u \in Workers \ {w} : ~Busy(u)
             /\ Plain(redis') /\ Sorted(wanted', redis')
             /\ x.pc # "idle" /\ Phase(x, mode, table', redis')
  <2>1. calm /\ ~failed /\ \A v \in Workers : ~Busy(v)
    BY <1>1, <1>3
  <2>2. Plain(redis) /\ Sorted(wanted, redis) /\ (mode = "supabase" => table = redis)
    BY <2>1 DEF CalmInv
  <2>3. Planned(x, redis)
    BY <2>1 DEF x
  <2>4. op = "reorder" => Renumbered(redis, x.order, x.at) = redis
    BY <1>2, <2>3, RenumberedEnds DEF Planned
  <2>5. x.pc \in {"table", "load"} /\ (x.pc = "table" <=> mode = "supabase")
    BY <1>2 DEF FirstPc
  <2>6. Phase(x, mode, table, redis)
    BY <1>2, <2>2, <2>3, <2>4, <2>5 DEF Phase
  <2> QED BY <1>1, <2>1, <2>2, <2>5, <2>6
<1> QED BY <1>1, <1>3, CalmSteps

\* An addition, a removal, a patch and a reorder as they arrive.
LEMMA CalmArrives ==
    ASSUME NEW f, ListInv(f), CalmInv, NEW w \in Workers, Arrive(w)
    PROVE  CalmInv'
<1>0. /\ made \in Nat /\ OneEach(f, made, table) /\ OneEach(f, made, redis)
      /\ calm => Plain(redis) /\ Sorted(wanted, redis)
  BY DEF ListInv, CalmInv
<1>1. ASSUME NEW s \in Symbols, NEW failed \in BOOLEAN, Add(w, s, failed) PROVE CalmInv'
  <2> DEFINE i == NextSortIndex(ReadFrom(failed))
             q == [id |-> made + 1, symbol |-> s, idx |-> i]
             x == Request("create", q, <<>>)
  <2>1. Begin(w, Request("create", q, <<>>), failed)
    BY <1>1 DEF Add
  <2>2. ASSUME calm', calm, ~failed PROVE Planned(x, redis)
    <3>1. ReadFrom(failed) = redis
      <4>1. mode = "supabase" => table = redis
        BY <2>1, <2>2 DEF Begin, CalmInv
      <4> QED BY <2>2, <4>1 DEF ReadFrom
    <3>2. i \in Nat /\ \A r \in redis : r.idx < i
      <4>1. PICK v : v = wanted
        OBVIOUS
      <4>2. PICK rows : rows = redis
        OBVIOUS
      <4>3. NextSortIndex(rows) \in Nat /\ \A r \in rows : r.idx < NextSortIndex(rows)
        BY <1>0, <2>2, <4>1, <4>2, NextIsBehind
      <4> QED BY <3>1, <4>2, <4>3
    <3> HIDE DEF i
    <3>3. q \in Rows /\ q.idx = i /\ q.id = made + 1
      BY <1>0, <3>2 DEF Rows
    <3>4. \A r \in redis : r.id # q.id
      BY <1>0, <3>3 DEF OneEach, Row
    <3> HIDE DEF q
    <3>5. Behind(q, redis)
      BY <3>2, <3>3, <3>4 DEF Behind
    <3> QED BY <3>5 DEF Planned, Request
  <2> HIDE DEF q
  <2>3. CASE calm'
    <3>1. calm /\ ~failed
      BY <2>1, <2>3 DEF Begin
    <3>2. Planned(Request("create", q, <<>>), redis)
      BY <2>2, <2>3, <3>1
    <3> DEFINE e == <<>>
    <3> HIDE DEF e
    <3>3. Begin(w, Request("create", q, e), failed) /\ Planned(Request("create", q, e), redis)
      BY <2>1, <3>2 DEF e
    <3> QED BY <3>3, CalmBegins
  <2>4. CASE ~calm'
    BY <2>4 DEF CalmInv
  <2> QED BY <2>3, <2>4
<1>2. ASSUME NEW r \in table \cup redis, RemoveItem(w, r) PROVE CalmInv'
  <2> DEFINE e == <<>>
  <2>1. Begin(w, Request("delete", r, e), FALSE) /\ Planned(Request("delete", r, e), redis)
    BY <1>2 DEF RemoveItem, Planned, Request
  <2> HIDE DEF e
  <2> QED BY <2>1, CalmBegins
<1>3. ASSUME NEW r \in table \cup redis, NEW i \in 0 .. Limit, Patch(w, r, i) PROVE CalmInv'
  <2> DEFINE e == <<>>
             q == [r EXCEPT !.idx = i]
  <2>1. q.idx = i /\ i \in Nat
    <3>1. Row(f, made, r)
      BY <1>0 DEF OneEach
    <3> QED BY <3>1, WatchlistAssumption DEF Row
  <2>2. Begin(w, Request("update", q, e), FALSE)
    BY <1>3 DEF Patch
  <2> HIDE DEF q, e
  <2>3. Planned(Request("update", q, e), redis)
    BY <2>1 DEF Planned, Request
  <2> QED BY <2>2, <2>3, CalmBegins
<1>4. ASSUME NEW o \in Orders, NEW failed \in BOOLEAN, Reorder(w, o, failed) PROVE CalmInv'
  <2> DEFINE rows == ReadFrom(failed)
             q == RowOf(rows, o[1])
  <2>1. Range(o) = Ids(rows) /\ Begin(w, Request("reorder", q, o), failed)
    BY <1>4 DEF Reorder
  <2> HIDE DEF q
  <2>2. IsInjective(o) /\ o \in Seq(Ids(table \cup redis))
    <3>1. IsInjective(o) /\ o \in SeqOf(Ids(table \cup redis), Cardinality(Ids(table \cup redis)))
      BY DEF Orders
    <3> DEFINE I == Ids(table \cup redis)  n == Cardinality(I)
    <3>2. o \in UNION {[1 .. m -> I] : m \in 0 .. n}
      BY <3>1 DEF SeqOf
    <3> HIDE DEF I, n
    <3>3. PICK m \in 0 .. n : o \in [1 .. m -> I]
      BY <3>2
    <3>4. m \in Nat
      BY <3>3
    <3>5. o \in Seq(I)
      BY <3>3, <3>4, SeqDef
    <3> QED BY <3>1, <3>5 DEF I
  <2>3. CASE calm'
    <3>1. calm /\ ~failed /\ (mode = "supabase" => table = redis)
      BY <2>1, <2>3 DEF Begin, CalmInv
    <3>2. rows = redis
      BY <3>1 DEF ReadFrom
    <3>3. DOMAIN o = 1 .. Len(o) /\ Len(o) \in Nat
      BY <2>2, LenProperties
    <3>4. \A k \in 1 .. Len(o) : \E r \in redis : r.id = o[k]
      BY <2>1, <3>2, <3>3 DEF Range, Ids
    <3>5. \A r \in redis : \E k \in 1 .. Len(o) : o[k] = r.id
      BY <2>1, <3>2, <3>3 DEF Range, Ids
    <3>6. o \in Seq(Nat)
      <4>1. \A k \in 1 .. Len(o) : o[k] \in Nat
        BY <1>0, <3>1, <3>4 DEF Plain, Rows
      <4>2. o = [k \in 1 .. Len(o) |-> o[k]]
        BY <2>2
      <4>3. o \in [1 .. Len(o) -> Nat]
        BY <4>1, <4>2
      <4> QED BY <3>3, <4>3, SeqDef
    <3>7. Arranges(o, redis)
      BY <2>2, <3>3, <3>4, <3>5, <3>6 DEF Arranges, IsInjective
    <3>8. 0 \in 0 .. Len(o) /\ Numbered(redis, o, 0) = {}
      BY <3>3, <3>7, RenumberedEnds
    <3>9. Planned(Request("reorder", q, o), redis)
      BY <3>7, <3>8 DEF Planned, Request
    <3> QED BY <2>1, <3>7, <3>9, CalmBegins
  <2>4. CASE ~calm'
    BY <2>4 DEF CalmInv
  <2> QED BY <2>3, <2>4
<1> QED BY <1>1, <1>2, <1>3, <1>4 DEF Arrive

\* After a fault no history is quiet.
LEMMA CalmFails ==
    ASSUME NEW w \in Workers, StatementFails(w) \/ RedisFails(w)
    PROVE  CalmInv'
BY DEF StatementFails, RedisFails, CalmInv

\* ListedAsWanted for any symbols, workers, limits, requests and faults: in a quiet
\* history an addition goes behind all rows, a removal cuts one out, a reorder numbers
\* them row by row, and what the mirror makes of Redis is what the table has become.
THEOREM ListStaysAsWanted == WatchlistSpec => []ListedAsWanted
<1> DEFINE Known == \E f : ListInv(f)
           Inv == Known /\ CalmInv
<1>1. WatchlistInit => Inv
  <2> SUFFICES ASSUME WatchlistInit PROVE Inv
    OBVIOUS
  <2>1. ListInv(0)
    BY DEF WatchlistInit, ListInv, OneEach, ReqOK
  <2> DEFINE e == <<>>
  <2>2. e \in Seq(Nat) /\ Len(e) = 0
    OBVIOUS
  <2> HIDE DEF e
  <2>3. Sorted(e, {}) /\ Plain({})
    BY <2>2 DEF Sorted, Plain
  <2>4. CalmInv
    BY <2>3 DEF WatchlistInit, CalmInv, Busy, Idle, e
  <2> QED BY <2>1, <2>4
<1>2. Inv /\ [WatchlistNext]_wlVars => Inv'
  <2> SUFFICES ASSUME Inv, [WatchlistNext]_wlVars PROVE Inv'
    OBVIOUS
  <2>1. PICK f : ListInv(f)
    OBVIOUS
  <2>2. ASSUME NEW w \in Workers, Arrive(w) PROVE Known' /\ CalmInv'
    BY <2>1, <2>2, ListArrives, CalmArrives
  <2>3. ASSUME NEW w \in Workers, Serve(w) PROVE ListInv(f)'
    BY <2>1, <2>3, ListInserts, ListDeletes, ListUpdates, ListFails, ListLoads, ListSaves DEF Serve
  <2>4. ASSUME NEW w \in Workers, Serve(w) PROVE CalmInv'
    BY <2>1, <2>4, CalmInserts, CalmDeletes, CalmUpdates, CalmFails, CalmLoads, CalmSaves DEF Serve
  <2>5. ASSUME UNCHANGED wlVars PROVE ListInv(f)' /\ CalmInv'
    BY <2>1, <2>5 DEF wlVars, ListInv, CalmInv, Busy
  <2> QED BY <2>2, <2>3, <2>4, <2>5 DEF WatchlistNext
<1>3. Inv => ListedAsWanted
  <2> SUFFICES ASSUME NEW f, ListInv(f), CalmInv PROVE ListedAsWanted
    OBVIOUS
  <2>1. SymbolsUnique
    BY DEF ListInv, OneEach, Row, SymbolsUnique
  <2>2. ASSUME Quiet PROVE IdsInOrder(Visible) = wanted /\ (mode = "supabase" => redis = table)
    <3>1. Plain(redis) /\ Sorted(wanted, redis) /\ (mode = "supabase" => table = redis)
      BY <2>2 DEF Quiet, CalmInv
    <3>2. Visible = redis
      BY <3>1 DEF Visible
    <3>3. IdsInOrder(redis) = wanted
      BY <3>1, ListingIs
    <3> QED BY <3>1, <3>2, <3>3
  <2> QED BY <2>1, <2>2 DEF ListedAsWanted
<1> QED BY <1>1, <1>2, <1>3, PTL DEF WatchlistSpec
-----------------------------------------------------------------------------
\* Whatever is safe now can be found: records are found where they were written, a
\* rotation has copied what it is about to unlink, and two that share an archive have
\* exposed what it holds.
RotationInv(w) ==
    Rotating(w) =>
        /\ stamp[w] \in 1 .. Len(archives) /\ w \in archives[stamp[w]].by
        /\ \A r \in Held \ exposed :
              current = fd[w] /\ (at[w] = "copied" => r \in Lines(stamp[w]))
CopyInv(w) ==
    at[w] = "copying" =>
        /\ Lines(stamp[w]) \subseteq exposed
        /\ archives[stamp[w]].by # {w} => Range(files[fd[w]]) \subseteq exposed
LinesInv ==
    /\ \A n \in 1 .. Len(files) : Range(files[n]) \subseteq 1 .. written
    /\ \A n \in 1 .. Len(archives) :
          /\ Lines(n) \subseteq 1 .. written
          /\ archives[n].shared => \E u, v \in archives[n].by : u # v
    /\ \A w \in Writer : at[w] # "idle" => fd[w] \in 1 .. Len(files)
JournalInv ==
    /\ TypeOK
    /\ LostOnlyIfExposed
    /\ LinesInv
    /\ \A w \in Writer : RotationInv(w) /\ CopyInv(w)

States == {"idle", "open", "full", "copying", "copied"}

LEMMA JournalTypes ==
    ASSUME TypeOK
    PROVE  /\ files \in Seq(Seq(1 .. MaxRecords)) /\ Len(files) \in Nat
           /\ archives \in Seq(Archive) /\ Len(archives) \in Nat
           /\ DOMAIN archives = 1 .. Len(archives)
           /\ \A n \in 1 .. Len(files) : files[n] \in Seq(1 .. MaxRecords)
           /\ \A n \in 1 .. Len(archives) : archives[n] \in Archive
           /\ at \in [Writer -> States] /\ fd \in [Writer -> 0 .. Len(files)]
           /\ stamp \in [Writer -> 0 .. Len(archives)]
           /\ current \in 0 .. Len(files) /\ written \in 0 .. MaxRecords /\ written \in Nat
           /\ crashes \in 0 .. MaxCrashes
           /\ exposed \in SUBSET (1 .. written)
<1>1. files \in Seq(Seq(1 .. MaxRecords)) /\ archives \in Seq(Archive)
  BY DEF TypeOK
<1>2. Len(files) \in Nat /\ Len(archives) \in Nat /\ DOMAIN archives = 1 .. Len(archives)
  BY <1>1, LenProperties
<1> QED BY <1>1, <1>2, ElementOfSeq DEF TypeOK, States

LEMMA RangeOfAppend ==
    ASSUME NEW S, NEW s \in Seq(S), NEW x \in S
    PROVE  Range(Append(s, x)) = Range(s) \cup {x}
<1>1. /\ Len(s) \in Nat /\ DOMAIN s = 1 .. Len(s) /\ Append(s, x) \in Seq(S)
      /\ Len(Append(s, x)) = Len(s) + 1 /\ Append(s, x)[Len(s) + 1] = x
      /\ \A i \in 1 .. Len(s) : Append(s, x)[i] = s[i]
  BY LenProperties, AppendProperties
<1>2. DOMAIN Append(s, x) = 1 .. Len(s) + 1
  BY <1>1, LenProperties
<1> QED BY <1>1, <1>2 DEF Range

LEMMA RangeOfEmpty == Range(<<>>) = {}
BY DEF Range

LEMMA JournalBegins == Init => JournalInv
<1> SUFFICES ASSUME Init PROVE JournalInv
  OBVIOUS
<1>1. /\ files = <<>> /\ current = 0 /\ archives = <<>> /\ written = 0 /\ exposed = {}
      /\ \A w \in Writer : at[w] = "idle"
  BY DEF Init
<1>2. TypeOK
  BY JournalAssumption, EmptySeq DEF Init, TypeOK
<1>3. Len(files) = 0 /\ Len(archives) = 0
  BY <1>1, EmptySeq
<1> QED BY <1>1, <1>2, <1>3 DEF JournalInv, LostOnlyIfExposed, LinesInv, RotationInv, CopyInv, Rotating

LEMMA JournalOpens ==
    ASSUME JournalInv, NEW w \in Writer, Open(w)
    PROVE  JournalInv'
<1>0. TypeOK
  BY DEF JournalInv
<1>1. /\ at[w] = "idle" /\ at' = [at EXCEPT ![w] = "open"]
      /\ UNCHANGED <<archives, stamp, written, exposed, crashes>>
  BY DEF Open
<1>2. /\ files' \in Seq(Seq(1 .. MaxRecords)) /\ Len(files') \in Nat /\ Len(files) <= Len(files')
      /\ current' \in 1 .. Len(files') /\ fd' = [fd EXCEPT ![w] = current']
      /\ \A n \in 1 .. Len(files) : files'[n] = files[n]
      /\ \A n \in 1 .. Len(files') : n \in 1 .. Len(files) \/ files'[n] = <<>>
      /\ Held' = Held
      /\ current' = current \/ Held' = {}
  <2>1. CASE current # 0
    <3>1. files' = files /\ current' = current /\ fd' = [fd EXCEPT ![w] = current]
      BY <2>1 DEF Open
    <3> QED BY <1>0, <2>1, <3>1, JournalTypes DEF Held
  <2>2. CASE current = 0
    <3> DEFINE more == Append(files, <<>>)
    <3>1. files' = more /\ current' = Len(files) + 1 /\ fd' = [fd EXCEPT ![w] = Len(files) + 1]
      BY <2>2 DEF Open
    <3>2. /\ more \in Seq(Seq(1 .. MaxRecords)) /\ Len(more) = Len(files) + 1 /\ Len(files) \in Nat
          /\ more[Len(files) + 1] = <<>>
          /\ \A n \in 1 .. Len(files) : more[n] = files[n]
      BY <1>0, JournalTypes, AppendProperties
    <3> HIDE DEF more
    <3>3. Held' = {} /\ Held = {}
      BY <2>2, <3>1, <3>2, RangeOfEmpty DEF Held
    <3> QED BY <3>1, <3>2, <3>3
  <2> QED BY <2>1, <2>2
<1>3. /\ at'[w] = "open" /\ \A v \in Writer : v # w => at'[v] = at[v]
      /\ fd'[w] = current' /\ \A v \in Writer : v # w => fd'[v] = fd[v]
  BY <1>0, <1>1, <1>2, JournalTypes
<1>4. TypeOK'
  <2>1. at' \in [Writer -> States]
    BY <1>0, <1>1, JournalTypes DEF States
  <2>2. fd' \in [Writer -> 0 .. Len(files')]
    <3>1. fd \in [Writer -> 0 .. Len(files)] /\ Len(files) \in Nat
      BY <1>0, JournalTypes
    <3>2. fd \in [Writer -> 0 .. Len(files')] /\ current' \in 0 .. Len(files')
      BY <1>2, <3>1
    <3> QED BY <1>2, <3>2
  <2> QED BY <1>0, <1>1, <1>2, <2>1, <2>2 DEF TypeOK, States
<1>5. LostOnlyIfExposed'
  BY <1>1, <1>2 DEF JournalInv, LostOnlyIfExposed, Recorded, Lines
<1>6. \A n \in 1 .. Len(files') : Range(files'[n]) \subseteq 1 .. written'
  BY <1>1, <1>2, RangeOfEmpty DEF JournalInv, LinesInv
<1>7. \A v \in Writer : at'[v] # "idle" => fd'[v] \in 1 .. Len(files')
  BY <1>0, <1>2, <1>3, JournalTypes DEF JournalInv, LinesInv
<1>8. ASSUME NEW n \in 1 .. Len(archives')
      PROVE  /\ Range(archives'[n].lines) \subseteq 1 .. written'
             /\ archives'[n].shared => \E u, v \in archives'[n].by : u # v
  BY <1>1 DEF JournalInv, LinesInv, Lines
<1>9. ASSUME NEW v \in Writer PROVE RotationInv(v)'
  <2> SUFFICES ASSUME Rotating(v)' PROVE RotationInv(v)'
    BY DEF RotationInv
  <2>1. v # w /\ Rotating(v)
    BY <1>3 DEF Rotating
  <2> QED BY <1>1, <1>2, <1>3, <2>1 DEF JournalInv, RotationInv, Lines
<1>10. ASSUME NEW v \in Writer PROVE CopyInv(v)'
  <2> SUFFICES ASSUME at'[v] = "copying" PROVE CopyInv(v)'
    BY DEF CopyInv
  <2>1. v # w /\ at[v] = "copying"
    BY <1>3
  <2>2. files'[fd'[v]] = files[fd[v]]
    BY <1>2, <1>3, <2>1 DEF JournalInv, LinesInv
  <2> QED BY <1>1, <1>3, <2>1, <2>2 DEF JournalInv, CopyInv, Lines
<1>11. LinesInv'
  BY <1>6, <1>7, <1>8 DEF LinesInv, Lines
<1> QED BY <1>4, <1>5, <1>9, <1>10, <1>11 DEF JournalInv

\* A record that meets a rotation, or a file without a name, is exposed.
LEMMA JournalWrites ==
    ASSUME JournalInv, NEW w \in Writer, Write(w)
    PROVE  JournalInv'
<1> DEFINE g == fd[w]
           line == Append(files[g], written + 1)
<1>0. TypeOK
  BY DEF JournalInv
<1>1. /\ at[w] = "open" /\ written < MaxRecords /\ written' = written + 1
      /\ files' = [files EXCEPT ![g] = line]
      /\ at' = [at EXCEPT ![w] = IF MustRotate(Len(files[g]) + 1) THEN "full" ELSE "idle"]
      /\ exposed' = (IF g = current /\ \A v \in Writer \ {w} : ~Rotating(v)
                     THEN exposed ELSE exposed \cup {written + 1})
      /\ UNCHANGED <<current, archives, fd, stamp, crashes>>
  BY DEF Write
<1>2. g \in 1 .. Len(files) /\ written \in Nat /\ MaxRecords \in Nat
  BY <1>0, <1>1, JournalTypes, JournalAssumption DEF JournalInv, LinesInv
<1>3. /\ written + 1 \in 1 .. MaxRecords /\ files[g] \in Seq(1 .. MaxRecords)
      /\ line \in Seq(1 .. MaxRecords) /\ Range(line) = Range(files[g]) \cup {written + 1}
  <2>1. written + 1 \in 1 .. MaxRecords /\ files[g] \in Seq(1 .. MaxRecords)
    BY <1>0, <1>1, <1>2, JournalTypes
  <2>2. Range(line) = Range(files[g]) \cup {written + 1}
    <3>1. \A s \in Seq(1 .. MaxRecords) : \A x \in 1 .. MaxRecords : Range(Append(s, x)) = Range(s) \cup {x}
      BY RangeOfAppend
    <3> QED BY <2>1, <3>1
  <2>3. line \in Seq(1 .. MaxRecords)
    BY <2>1, AppendProperties
  <2> QED BY <2>1, <2>2, <2>3
<1> HIDE DEF line
<1>4. /\ files' \in Seq(Seq(1 .. MaxRecords)) /\ Len(files') = Len(files)
      /\ files'[g] = line /\ \A n \in 1 .. Len(files) : n # g => files'[n] = files[n]
  BY <1>0, <1>1, <1>2, <1>3, JournalTypes, ExceptSeq
<1>5. /\ at'[w] \in {"full", "idle"} /\ \A v \in Writer : v # w => at'[v] = at[v]
      /\ \A v \in Writer : Rotating(v)' => v # w /\ Rotating(v)
      /\ at' \in [Writer -> States]
  BY <1>0, <1>1, JournalTypes DEF Rotating, States
<1>6. /\ exposed \subseteq exposed' /\ exposed' \subseteq exposed \cup {written + 1}
      /\ written + 1 \notin exposed' => g = current
  BY <1>1
<1>7. /\ g = current => Held' = Held \cup {written + 1}
      /\ g # current => Held' = Held
  <2>1. current \in 0 .. Len(files)
    BY <1>0, JournalTypes
  <2> QED BY <1>1, <1>2, <1>3, <1>4, <2>1 DEF Held
<1>8. \A v \in Writer : Rotating(v)' => written + 1 \in exposed'
  BY <1>1, <1>5
<1>9. TypeOK'
  <2>1. exposed' \subseteq 1 .. written'
    <3>1. exposed \subseteq 1 .. written
      BY <1>0, JournalTypes
    <3>2. \A r \in 1 .. written : r \in 1 .. written + 1
      BY <1>2
    <3>3. written + 1 \in 1 .. written + 1
      BY <1>2
    <3> QED BY <1>1, <1>6, <3>1, <3>2, <3>3
  <2>2. written' \in 0 .. MaxRecords
    BY <1>1, <1>2
  <2> QED BY <1>0, <1>1, <1>4, <1>5, <2>1, <2>2 DEF TypeOK, States
<1>10. LostOnlyIfExposed'
  <2> SUFFICES ASSUME NEW r \in 1 .. written', r \notin exposed' PROVE r \in Recorded'
    BY DEF LostOnlyIfExposed
  <2>1. CASE r = written + 1
    <3>1. r \in Held'
      BY <1>6, <1>7, <2>1
    <3> QED BY <3>1 DEF Recorded
  <2>2. CASE r # written + 1
    <3>1. r \in 1 .. written /\ r \notin exposed
      BY <1>1, <1>2, <1>6, <2>2
    <3>2. r \in Recorded
      BY <3>1 DEF JournalInv, LostOnlyIfExposed
    <3> QED BY <1>1, <1>7, <3>2 DEF Recorded, Lines
  <2> QED BY <2>1, <2>2
<1>11. \A n \in 1 .. Len(files') : Range(files'[n]) \subseteq 1 .. written'
  <2> SUFFICES ASSUME NEW n \in 1 .. Len(files), NEW r \in Range(files'[n]) PROVE r \in 1 .. written + 1
    BY <1>1, <1>4
  <2>1. r \in Range(files[n]) \/ r = written + 1
    BY <1>3, <1>4
  <2>2. r \in Range(files[n]) => r \in 1 .. written
    BY DEF JournalInv, LinesInv
  <2> QED BY <1>2, <2>1, <2>2
<1>12. ASSUME NEW n \in 1 .. Len(archives')
      PROVE  /\ Range(archives'[n].lines) \subseteq 1 .. written'
             /\ archives'[n].shared => \E u, v \in archives'[n].by : u # v
  <2>1. \A r \in 1 .. written : r \in 1 .. written'
    BY <1>1, <1>2
  <2> QED BY <1>1, <2>1 DEF JournalInv, LinesInv, Lines
<1>13. \A v \in Writer : at'[v] # "idle" => fd'[v] \in 1 .. Len(files')
  BY <1>1, <1>2, <1>4, <1>5 DEF JournalInv, LinesInv
<1>14. ASSUME NEW v \in Writer PROVE RotationInv(v)'
  <2> SUFFICES ASSUME Rotating(v)' PROVE RotationInv(v)'
    BY DEF RotationInv
  <2>1. v # w /\ Rotating(v) /\ at'[v] = at[v] /\ written + 1 \in exposed'
    BY <1>5, <1>8
  <2>2. \A r \in Held' \ exposed' : r \in Held \ exposed
    BY <1>6, <1>7, <2>1
  <2> QED BY <1>1, <2>1, <2>2 DEF JournalInv, RotationInv, Lines
<1>15. ASSUME NEW v \in Writer PROVE CopyInv(v)'
  <2> SUFFICES ASSUME at'[v] = "copying" PROVE CopyInv(v)'
    BY DEF CopyInv
  <2>1. v # w /\ at[v] = "copying" /\ written + 1 \in exposed' /\ fd[v] \in 1 .. Len(files)
    BY <1>5, <1>8 DEF Rotating, JournalInv, LinesInv
  <2>2. Range(files'[fd'[v]]) \subseteq Range(files[fd[v]]) \cup {written + 1}
    BY <1>1, <1>3, <1>4, <2>1
  <2> QED BY <1>1, <1>6, <2>1, <2>2 DEF JournalInv, CopyInv, Lines
<1>16. LinesInv'
  BY <1>11, <1>12, <1>13 DEF LinesInv, Lines
<1> QED BY <1>9, <1>10, <1>14, <1>15, <1>16 DEF JournalInv


LEMMA JournalBeginsRotation ==
    ASSUME JournalInv, NEW w \in Writer, BeginRotation(w)
    PROVE  JournalInv'
<1>0. TypeOK
  BY DEF JournalInv
<1>1. at[w] = "full" /\ UNCHANGED <<files, current, written, crashes>> /\ Held' = Held
  BY DEF BeginRotation, Held
<1>2. CASE current = 0 /\ at' = [at EXCEPT ![w] = "idle"] /\ UNCHANGED <<archives, fd, stamp, exposed>>
  <2>1. at' \in [Writer -> States] /\ at'[w] = "idle" /\ \A v \in Writer : v # w => at'[v] = at[v]
    BY <1>0, <1>2, JournalTypes DEF States
  <2>2. TypeOK'
    BY <1>0, <1>1, <1>2, <2>1 DEF TypeOK, States
  <2>3. LostOnlyIfExposed' /\ LinesInv'
    BY <1>1, <1>2, <2>1 DEF JournalInv, LostOnlyIfExposed, LinesInv, Recorded, Lines
  <2>4. \A v \in Writer : RotationInv(v)' /\ CopyInv(v)'
    BY <1>1, <1>2, <2>1 DEF JournalInv, RotationInv, CopyInv, Rotating, Lines
  <2> QED BY <2>2, <2>3, <2>4 DEF JournalInv
<1>3. CASE /\ current # 0 /\ at' = [at EXCEPT ![w] = "copying"] /\ fd' = [fd EXCEPT ![w] = current]
           /\ NewArchive(w) \/ SameArchive(w)
  <2>1. /\ at' \in [Writer -> States] /\ at'[w] = "copying" /\ \A v \in Writer : v # w => at'[v] = at[v]
        /\ fd' \in [Writer -> 0 .. Len(files)] /\ fd'[w] = current /\ \A v \in Writer : v # w => fd'[v] = fd[v]
        /\ current \in 1 .. Len(files)
    BY <1>0, <1>3, JournalTypes DEF States
  <2> DEFINE m == stamp'[w]
  <2>2. /\ archives' \in Seq(Archive) /\ stamp' \in [Writer -> 0 .. Len(archives')]
        /\ Len(archives') \in Nat /\ Len(archives) <= Len(archives')
        /\ m \in 1 .. Len(archives') /\ \A v \in Writer : v # w => stamp'[v] = stamp[v]
        /\ archives'[m].lines = <<>> /\ w \in archives'[m].by
        /\ \A n \in 1 .. Len(archives') : n # m => n \in 1 .. Len(archives) /\ archives'[n] = archives[n]
        /\ exposed \subseteq exposed' /\ exposed' \subseteq 1 .. written
        /\ m \in 1 .. Len(archives) =>
              /\ Lines(m) \subseteq exposed' /\ Range(files[current]) \subseteq exposed'
              /\ archives[m].by \subseteq archives'[m].by
              /\ \A v \in Writer \ {w} : at[v] = "copying" /\ stamp[v] = m => Range(files[fd[v]]) \subseteq exposed'
        /\ m \notin 1 .. Len(archives) => archives'[m].by = {w}
        /\ archives'[m].shared => \E u, v \in archives'[m].by : u # v
    <3>1. CASE NewArchive(w)
      <4> DEFINE x == [lines |-> <<>>, whole |-> FALSE, of |-> current, by |-> {w}, shared |-> FALSE]
                 more == Append(archives, x)
      <4>1. archives' = more /\ stamp' = [stamp EXCEPT ![w] = Len(archives) + 1] /\ exposed' = exposed
        BY <3>1 DEF NewArchive
      <4>2. x \in Archive /\ x.lines = <<>> /\ x.by = {w} /\ ~x.shared
        BY <2>1 DEF Archive
      <4> HIDE DEF x
      <4>3. /\ more \in Seq(Archive) /\ Len(more) = Len(archives) + 1 /\ Len(archives) \in Nat
            /\ more[Len(archives) + 1] = x /\ \A n \in 1 .. Len(archives) : more[n] = archives[n]
        BY <1>0, <4>2, JournalTypes, AppendProperties
      <4> HIDE DEF more
      <4>4. m = Len(archives) + 1 /\ \A v \in Writer : v # w => stamp'[v] = stamp[v]
        BY <1>0, <4>1, JournalTypes
      <4>5. stamp' \in [Writer -> 0 .. Len(archives')]
        <5>1. stamp \in [Writer -> 0 .. Len(archives)]
          BY <1>0, JournalTypes
        <5>2. \A k \in 0 .. Len(archives) : k \in 0 .. Len(archives')
          BY <4>1, <4>3
        <5>3. Len(archives) + 1 \in 0 .. Len(archives')
          BY <4>1, <4>3
        <5> QED BY <4>1, <5>1, <5>2, <5>3
      <4>6. exposed \subseteq 1 .. written
        BY <1>0, JournalTypes
      <4> HIDE DEF m
      <4> QED BY <4>1, <4>2, <4>3, <4>4, <4>5, <4>6
    <3>2. CASE SameArchive(w)
      <4> DEFINE n == Len(archives)
                 others == {v \in Writer \ {w} : at[v] = "copying" /\ stamp[v] = n}
                 x == [lines |-> <<>>, whole |-> FALSE, of |-> current,
                       by |-> archives[n].by \cup {w}, shared |-> archives[n].shared \/ others # {}]
                 same == [archives EXCEPT ![n] = x]
      <4>1. /\ n # 0 /\ w \notin archives[n].by
            /\ archives' = same /\ stamp' = [stamp EXCEPT ![w] = n]
            /\ exposed' = exposed \cup Range(archives[n].lines) \cup Range(files[current])
                             \cup (UNION {Range(files[fd[v]]) : v \in others})
        BY <3>2 DEF SameArchive
      <4>2. n \in 1 .. n /\ archives[n] \in Archive /\ n \in Nat /\ archives \in Seq(Archive)
        BY <1>0, <4>1, JournalTypes
      <4>3. /\ x \in Archive /\ x.lines = <<>> /\ x.by = archives[n].by \cup {w}
            /\ x.shared => archives[n].shared \/ others # {}
        <5>1. archives[n].by \cup {w} \in SUBSET Writer /\ current \in Nat
          BY <2>1, <4>2 DEF Archive
        <5>2. <<>> \in Seq(1 .. MaxRecords)
          OBVIOUS
        <5> HIDE DEF others, n
        <5> QED BY <4>2, <5>1, <5>2 DEF Archive
      <4> HIDE DEF x
      <4>4. same \in Seq(Archive) /\ Len(same) = n /\ same[n] = x /\ \A k \in 1 .. n : k # n => same[k] = archives[k]
        BY <4>2, <4>3, ExceptSeq
      <4> HIDE DEF same
      <4>5. m = n /\ (\A v \in Writer : v # w => stamp'[v] = stamp[v]) /\ stamp' \in [Writer -> 0 .. n]
        BY <1>0, <4>1, <4>2, JournalTypes
      <4>6. \A v \in others : Range(files[fd[v]]) \subseteq 1 .. written
        BY DEF JournalInv, LinesInv
      <4>7. Range(archives[n].lines) \subseteq 1 .. written /\ Range(files[current]) \subseteq 1 .. written
        BY <2>1, <4>2 DEF JournalInv, LinesInv, Lines
      <4>8. exposed' \subseteq 1 .. written
        <5>1. exposed \subseteq 1 .. written
          BY <1>0, JournalTypes
        <5> HIDE DEF others
        <5> QED BY <4>1, <4>6, <4>7, <5>1
      <4>9. \A v \in others : v \in archives[n].by /\ v # w
        BY DEF JournalInv, RotationInv, Rotating
      <4>10. x.shared => \E u, v \in x.by : u # v
        <5>1. CASE archives[n].shared
          BY <4>2, <4>3, <5>1 DEF JournalInv, LinesInv
        <5>2. CASE others # {}
          BY <4>3, <4>9, <5>2
        <5> QED BY <4>3, <5>1, <5>2
      <4>11. \A v \in others : Range(files[fd[v]]) \subseteq exposed'
        <5> HIDE DEF others
        <5> QED BY <4>1
      <4>12. \A v \in Writer \ {w} : at[v] = "copying" /\ stamp[v] = n => Range(files[fd[v]]) \subseteq exposed'
        BY <4>11
      <4>13. exposed \subseteq exposed' /\ Lines(n) \subseteq exposed' /\ Range(files[current]) \subseteq exposed'
        <5> HIDE DEF others
        <5> QED BY <4>1 DEF Lines
      <4>14. n = Len(archives)
        OBVIOUS
      <4> HIDE DEF m, n, others
      <4>15. archives[n].by \subseteq archives'[n].by /\ w \in archives'[n].by /\ archives'[n] = x
        BY <4>1, <4>2, <4>3, <4>4
      <4>16. \A k \in 1 .. Len(archives') : k # m => k \in 1 .. Len(archives) /\ archives'[k] = archives[k]
        BY <4>1, <4>4, <4>5, <4>14
      <4> QED BY <4>1, <4>2, <4>3, <4>4, <4>5, <4>8, <4>10, <4>12, <4>13, <4>14, <4>15, <4>16
    <3> HIDE DEF m
    <3> QED BY <1>3, <3>1, <3>2
  <2> HIDE DEF m
  <2>3. Range(archives'[m].lines) = {} /\ Len(archives) \in Nat /\ DOMAIN archives = 1 .. Len(archives) /\ DOMAIN archives' = 1 .. Len(archives')
    BY <1>0, <2>2, JournalTypes, RangeOfEmpty, LenProperties
  <2>4. TypeOK'
    BY <1>0, <1>1, <2>1, <2>2 DEF TypeOK, States
  <2>5. LostOnlyIfExposed'
    <3> SUFFICES ASSUME NEW r \in 1 .. written, r \notin exposed' PROVE r \in Recorded'
      BY <1>1 DEF LostOnlyIfExposed
    <3>1. r \in Recorded
      BY <2>2 DEF JournalInv, LostOnlyIfExposed
    <3>2. CASE r \in Held
      <4>1. r \in Held'
        BY <1>1, <3>2
      <4> QED BY <4>1 DEF Recorded
    <3>3. CASE r \notin Held
      <4>1. PICK n \in 1 .. Len(archives) : r \in Lines(n)
        <5>1. \E n \in DOMAIN archives : r \in Lines(n)
          BY <3>1, <3>3 DEF Recorded
        <5> QED BY <2>3, <5>1
      <4>2. n # m
        BY <2>2, <4>1
      <4>3. n \in DOMAIN archives' /\ r \in Range(archives'[n].lines)
        BY <2>2, <2>3, <4>1, <4>2 DEF Lines
      <4> QED BY <4>3 DEF Recorded, Lines
    <3> QED BY <3>2, <3>3
  <2>6. LinesInv'
    <3>1. \A n \in 1 .. Len(files') : Range(files'[n]) \subseteq 1 .. written'
      BY <1>1 DEF JournalInv, LinesInv
    <3>2. ASSUME NEW n \in 1 .. Len(archives')
          PROVE  /\ Range(archives'[n].lines) \subseteq 1 .. written'
                 /\ archives'[n].shared => \E u, v \in archives'[n].by : u # v
      <4>1. CASE n = m
        BY <2>2, <4>1, RangeOfEmpty
      <4>2. CASE n # m
        BY <1>1, <2>2, <4>2 DEF JournalInv, LinesInv, Lines
      <4> QED BY <4>1, <4>2
    <3>3. \A v \in Writer : at'[v] # "idle" => fd'[v] \in 1 .. Len(files')
      BY <1>1, <2>1 DEF JournalInv, LinesInv
    <3> QED BY <3>1, <3>2, <3>3 DEF LinesInv, Lines
  <2>7. ASSUME NEW v \in Writer PROVE RotationInv(v)'
    <3>1. CASE v = w
      BY <1>1, <2>1, <2>2, <3>1 DEF RotationInv, m
    <3>2. CASE v # w
      <4> SUFFICES ASSUME Rotating(v)' PROVE RotationInv(v)'
        BY DEF RotationInv
      <4>1. Rotating(v) /\ at'[v] = at[v] /\ fd'[v] = fd[v] /\ stamp'[v] = stamp[v]
        BY <2>1, <2>2, <3>2 DEF Rotating
      <4>2. /\ stamp[v] \in 1 .. Len(archives) /\ v \in archives[stamp[v]].by
            /\ \A r \in Held \ exposed : current = fd[v] /\ (at[v] = "copied" => r \in Lines(stamp[v]))
        BY <4>1 DEF JournalInv, RotationInv
      <4>3. CASE stamp[v] = m
        <5>1. Held \subseteq exposed'
          BY <2>1, <2>2, <4>2, <4>3 DEF Held
        <5>2. stamp[v] \in 1 .. Len(archives') /\ v \in archives'[stamp[v]].by
          BY <2>2, <4>2, <4>3
        <5> QED BY <1>1, <4>1, <5>1, <5>2 DEF RotationInv
      <4>4. CASE stamp[v] # m
        <5>1. stamp[v] \in 1 .. Len(archives') /\ archives'[stamp[v]] = archives[stamp[v]]
          BY <2>2, <2>3, <4>2, <4>4
        <5> QED BY <1>1, <2>2, <4>1, <4>2, <5>1 DEF RotationInv, Lines
      <4> QED BY <4>3, <4>4
    <3> QED BY <3>1, <3>2
  <2>8. ASSUME NEW v \in Writer PROVE CopyInv(v)'
    <3>1. CASE v = w
      <4>1. archives'[m].by # {w} => Range(files[current]) \subseteq exposed'
        BY <2>2
      <4>2. archives'[stamp'[w]].by # {w} => Range(files'[fd'[w]]) \subseteq exposed'
        BY <1>1, <2>1, <4>1 DEF m
      <4>3. Range(archives'[stamp'[w]].lines) \subseteq exposed'
        BY <2>3 DEF m
      <4> QED BY <3>1, <4>2, <4>3 DEF CopyInv, Lines
    <3>2. CASE v # w
      <4> SUFFICES ASSUME at'[v] = "copying" PROVE CopyInv(v)'
        BY DEF CopyInv
      <4>1. at[v] = "copying" /\ fd'[v] = fd[v] /\ stamp'[v] = stamp[v] /\ stamp[v] \in 1 .. Len(archives)
        BY <2>1, <2>2, <3>2 DEF JournalInv, RotationInv, Rotating
      <4>2. CASE stamp[v] = m
        <5>1. Range(files[fd[v]]) \subseteq exposed'
          BY <2>2, <3>2, <4>1, <4>2
        <5>2. Range(archives'[stamp[v]].lines) = {}
          BY <2>2, <4>2, RangeOfEmpty
        <5> QED BY <1>1, <4>1, <5>1, <5>2 DEF CopyInv, Lines
      <4>3. CASE stamp[v] # m
        <5>1. archives'[stamp[v]] = archives[stamp[v]]
          BY <2>2, <2>3, <4>1, <4>3
        <5>2. /\ Range(archives[stamp[v]].lines) \subseteq exposed'
              /\ archives[stamp[v]].by # {v} => Range(files[fd[v]]) \subseteq exposed'
          BY <2>2, <4>1 DEF JournalInv, CopyInv, Lines
        <5> QED BY <1>1, <4>1, <5>1, <5>2 DEF CopyInv, Lines
      <4> QED BY <4>2, <4>3
    <3> QED BY <3>1, <3>2
  <2> QED BY <2>4, <2>5, <2>6, <2>7, <2>8 DEF JournalInv
<1> QED BY <1>2, <1>3 DEF BeginRotation


LEMMA JournalCopies ==
    ASSUME JournalInv, NEW w \in Writer, Copy(w)
    PROVE  JournalInv'
<1> DEFINE n == stamp[w]
<1>0. TypeOK /\ RotationInv(w) /\ CopyInv(w) /\ at[w] = "copying" /\ fd[w] \in 1 .. Len(files)
  BY DEF JournalInv, LinesInv, Copy
<1>1. PICK intact \in BOOLEAN :
        /\ intact \/ archives[n].shared
        /\ archives' = [archives EXCEPT ![n] = [archives[n] EXCEPT
                            !.lines = IF intact THEN files[fd[w]] ELSE <<>>, !.whole = intact]]
  BY DEF Copy
<1>2. /\ UNCHANGED <<files, current, fd, stamp, written, exposed, crashes>> /\ Held' = Held
      /\ at' = [at EXCEPT ![w] = "copied"]
  BY DEF Copy, Held
<1>3. /\ n \in 1 .. Len(archives) /\ w \in archives[n].by /\ Lines(n) \subseteq exposed
      /\ archives[n].by # {w} => Range(files[fd[w]]) \subseteq exposed
      /\ \A r \in Held \ exposed : current = fd[w]
  BY <1>0 DEF RotationInv, CopyInv, Rotating
<1>4. /\ archives' \in Seq(Archive) /\ Len(archives') = Len(archives) /\ Len(archives) \in Nat
      /\ DOMAIN archives' = 1 .. Len(archives) /\ DOMAIN archives = 1 .. Len(archives)
      /\ archives'[n].lines = (IF intact THEN files[fd[w]] ELSE <<>>)
      /\ archives'[n].by = archives[n].by /\ archives'[n].shared = archives[n].shared
      /\ \A k \in 1 .. Len(archives) : k # n => archives'[k] = archives[k]
  <2> DEFINE l == IF intact THEN files[fd[w]] ELSE <<>>
             x == [archives[n] EXCEPT !.lines = l, !.whole = intact]
             same == [archives EXCEPT ![n] = x]
  <2>1. l \in Seq(1 .. MaxRecords) /\ archives[n] \in Archive
    <3>1. files[fd[w]] \in Seq(1 .. MaxRecords) /\ <<>> \in Seq(1 .. MaxRecords)
      BY <1>0, JournalTypes
    <3>2. archives[n] \in Archive
      BY <1>0, <1>3, JournalTypes
    <3> QED BY <3>1, <3>2
  <2>2. archives' = same /\ archives \in Seq(Archive) /\ Len(archives) \in Nat
    BY <1>0, <1>1, JournalTypes
  <2>3. l = IF intact THEN files[fd[w]] ELSE <<>>
    OBVIOUS
  <2> HIDE DEF l
  <2>4. x \in Archive /\ x.lines = l /\ x.by = archives[n].by /\ x.shared = archives[n].shared
    BY <2>1 DEF Archive
  <2> HIDE DEF x, n
  <2>5. same \in Seq(Archive) /\ Len(same) = Len(archives) /\ same[n] = x
        /\ \A k \in 1 .. Len(archives) : k # n => same[k] = archives[k]
    BY <1>3, <2>2, <2>4, ExceptSeq
  <2>6. DOMAIN same = 1 .. Len(archives) /\ DOMAIN archives = 1 .. Len(archives)
    BY <2>2, <2>5, LenProperties
  <2> HIDE DEF same
  <2> QED BY <2>2, <2>3, <2>4, <2>5, <2>6
<1>5. at' \in [Writer -> States] /\ at'[w] = "copied" /\ \A v \in Writer : v # w => at'[v] = at[v]
  BY <1>0, <1>2, JournalTypes DEF States
<1>6. TypeOK'
  BY <1>0, <1>2, <1>4, <1>5 DEF TypeOK, States
<1>7. Range(archives'[n].lines) \subseteq Range(files[fd[w]])
  BY <1>4, RangeOfEmpty
<1>8. LostOnlyIfExposed'
  <2> SUFFICES ASSUME NEW r \in 1 .. written, r \notin exposed PROVE r \in Recorded'
    BY <1>2 DEF LostOnlyIfExposed
  <2>1. r \in Recorded
    BY DEF JournalInv, LostOnlyIfExposed
  <2>2. CASE r \in Held
    <3>1. r \in Held'
      BY <1>2, <2>2
    <3> QED BY <3>1 DEF Recorded
  <2>3. CASE r \notin Held
    <3>1. \E k \in DOMAIN archives : r \in Lines(k)
      BY <2>1, <2>3 DEF Recorded
    <3>2. PICK k \in 1 .. Len(archives) : r \in Lines(k)
      BY <1>4, <3>1
    <3>3. k # n
      BY <1>3, <3>2
    <3>4. k \in DOMAIN archives' /\ r \in Range(archives'[k].lines)
      BY <1>4, <3>2, <3>3 DEF Lines
    <3> QED BY <3>4 DEF Recorded, Lines
  <2> QED BY <2>2, <2>3
<1>9. LinesInv'
  <2>1. ASSUME NEW k \in 1 .. Len(archives')
        PROVE  /\ Range(archives'[k].lines) \subseteq 1 .. written'
               /\ archives'[k].shared => \E u, v \in archives'[k].by : u # v
    <3>1. CASE k = n
      <4>1. Range(files[fd[w]]) \subseteq 1 .. written
        BY <1>0 DEF JournalInv, LinesInv
      <4> QED BY <1>2, <1>3, <1>4, <1>7, <3>1, <4>1 DEF JournalInv, LinesInv
    <3>2. CASE k # n
      BY <1>2, <1>4, <3>2 DEF JournalInv, LinesInv, Lines
    <3> QED BY <3>1, <3>2
  <2>2. \A k \in 1 .. Len(files') : Range(files'[k]) \subseteq 1 .. written'
    BY <1>2 DEF JournalInv, LinesInv
  <2>3. \A v \in Writer : at'[v] # "idle" => fd'[v] \in 1 .. Len(files')
    BY <1>0, <1>2, <1>5 DEF JournalInv, LinesInv
  <2> QED BY <2>1, <2>2, <2>3 DEF LinesInv, Lines
<1>10. \A r \in Held \ exposed : r \in Range(archives'[n].lines) /\ archives[n].by = {w}
  <2> SUFFICES ASSUME NEW r \in Held, r \notin exposed
               PROVE  r \in Range(archives'[n].lines) /\ archives[n].by = {w}
    OBVIOUS
  <2>1. current = fd[w]
    BY <1>3
  <2>2. r \in Range(files[fd[w]])
    BY <2>1 DEF Held
  <2>3. archives[n].by = {w}
    BY <1>3, <2>2
  <2>4. ~archives[n].shared
    BY <1>3, <2>3 DEF JournalInv, LinesInv
  <2> QED BY <1>1, <1>4, <2>2, <2>3, <2>4
<1>11. ASSUME NEW v \in Writer PROVE RotationInv(v)'
  <2> SUFFICES ASSUME Rotating(v)' PROVE RotationInv(v)'
    BY DEF RotationInv
  <2>1. Rotating(v) /\ (v # w => at'[v] = at[v])
    BY <1>0, <1>5 DEF Rotating
  <2>2. /\ stamp[v] \in 1 .. Len(archives) /\ v \in archives[stamp[v]].by
        /\ \A r \in Held \ exposed : current = fd[v] /\ (at[v] = "copied" => r \in Lines(stamp[v]))
    BY <2>1 DEF JournalInv, RotationInv
  <2>3. stamp[v] \in 1 .. Len(archives') /\ v \in archives'[stamp[v]].by
    BY <1>4, <2>2
  <2>4. ASSUME NEW r \in Held \ exposed, at'[v] = "copied" PROVE r \in Range(archives'[stamp[v]].lines)
    <3>1. CASE stamp[v] = n
      BY <1>10, <3>1
    <3>2. CASE stamp[v] # n
      <4>1. v # w /\ archives'[stamp[v]] = archives[stamp[v]]
        BY <1>4, <2>2, <3>2
      <4> QED BY <2>1, <2>2, <2>4, <4>1 DEF Lines
    <3> QED BY <3>1, <3>2
  <2> QED BY <1>2, <2>2, <2>3, <2>4 DEF RotationInv, Lines
<1>12. ASSUME NEW v \in Writer PROVE CopyInv(v)'
  <2> SUFFICES ASSUME at'[v] = "copying" PROVE CopyInv(v)'
    BY DEF CopyInv
  <2>1. v # w /\ at[v] = "copying"
    BY <1>5
  <2>2. /\ stamp[v] \in 1 .. Len(archives) /\ v \in archives[stamp[v]].by
        /\ Range(archives[stamp[v]].lines) \subseteq exposed
        /\ archives[stamp[v]].by # {v} => Range(files[fd[v]]) \subseteq exposed
    BY <2>1 DEF JournalInv, CopyInv, RotationInv, Rotating, Lines
  <2>3. CASE stamp[v] = n
    <3>1. Range(files[fd[w]]) \subseteq exposed
      BY <1>3, <2>1, <2>2, <2>3
    <3>2. Range(archives'[stamp[v]].lines) \subseteq exposed /\ archives'[stamp[v]].by = archives[stamp[v]].by
      BY <1>4, <1>7, <2>3, <3>1
    <3> QED BY <1>2, <2>2, <3>2 DEF CopyInv, Lines
  <2>4. CASE stamp[v] # n
    <3>1. archives'[stamp[v]] = archives[stamp[v]]
      BY <1>4, <2>2, <2>4
    <3> QED BY <1>2, <2>2, <3>1 DEF CopyInv, Lines
  <2> QED BY <2>3, <2>4
<1> QED BY <1>6, <1>8, <1>9, <1>11, <1>12 DEF JournalInv

LEMMA JournalUnlinks ==
    ASSUME JournalInv, NEW w \in Writer, Unlink(w)
    PROVE  JournalInv'
<1>1. /\ TypeOK /\ RotationInv(w) /\ at[w] = "copied" /\ at' = [at EXCEPT ![w] = "idle"] /\ current' = 0
      /\ UNCHANGED <<files, archives, fd, stamp, written, exposed, crashes>>
  BY DEF JournalInv, Unlink
<1>2. Held' = {}
  BY <1>1 DEF Held
<1>3. at' \in [Writer -> States] /\ at'[w] = "idle" /\ \A v \in Writer : v # w => at'[v] = at[v]
  BY <1>1, JournalTypes DEF States
<1>4. TypeOK'
  <2>1. 0 \in 0 .. Len(files)
    BY <1>1, JournalTypes
  <2> QED BY <1>1, <1>3, <2>1 DEF TypeOK, States
<1>5. LostOnlyIfExposed'
  <2> SUFFICES ASSUME NEW r \in 1 .. written, r \notin exposed PROVE r \in Recorded'
    BY <1>1 DEF LostOnlyIfExposed
  <2>1. \E n \in DOMAIN archives : r \in Lines(n)
    <3>1. r \in Recorded
      BY DEF JournalInv, LostOnlyIfExposed
    <3>2. CASE r \in Held
      <4>1. stamp[w] \in 1 .. Len(archives) /\ r \in Lines(stamp[w])
        BY <1>1, <3>2 DEF RotationInv, Rotating
      <4> QED BY <1>1, <4>1, JournalTypes
    <3>3. CASE r \notin Held
      BY <3>1, <3>3 DEF Recorded
    <3> QED BY <3>2, <3>3
  <2> QED BY <1>1, <2>1 DEF Recorded, Lines
<1>6. LinesInv'
  BY <1>1, <1>3 DEF JournalInv, LinesInv, Lines
<1>7. \A v \in Writer : RotationInv(v)' /\ CopyInv(v)'
  BY <1>1, <1>2, <1>3 DEF JournalInv, RotationInv, CopyInv, Rotating, Lines
<1> QED BY <1>4, <1>5, <1>6, <1>7 DEF JournalInv

LEMMA JournalCrashes ==
    ASSUME JournalInv, NEW w \in Writer, Crash(w)
    PROVE  JournalInv'
<1>1. /\ TypeOK /\ at' = [at EXCEPT ![w] = "idle"] /\ crashes < MaxCrashes /\ crashes' = crashes + 1
      /\ UNCHANGED <<files, current, archives, fd, stamp, written, exposed>>
      /\ Held' = Held /\ Recorded' = Recorded
  BY DEF JournalInv, Crash, Held, Recorded, Lines
<1>2. at' \in [Writer -> States] /\ at'[w] = "idle" /\ \A v \in Writer : v # w => at'[v] = at[v]
  BY <1>1, JournalTypes DEF States
<1>3. TypeOK'
  <2>1. crashes' \in 0 .. MaxCrashes
    BY <1>1, JournalTypes, JournalAssumption
  <2> QED BY <1>1, <1>2, <2>1 DEF TypeOK, States
<1>4. LostOnlyIfExposed' /\ LinesInv'
  BY <1>1, <1>2 DEF JournalInv, LostOnlyIfExposed, LinesInv, Lines
<1>5. \A v \in Writer : RotationInv(v)' /\ CopyInv(v)'
  BY <1>1, <1>2 DEF JournalInv, RotationInv, CopyInv, Rotating, Lines
<1> QED BY <1>3, <1>4, <1>5 DEF JournalInv

LEMMA JournalKeeps == JournalInv /\ [Next]_vars => JournalInv'
<1>1. ASSUME JournalInv, UNCHANGED vars PROVE JournalInv'
  <2>1. /\ files' = files /\ current' = current /\ archives' = archives /\ at' = at /\ fd' = fd
        /\ stamp' = stamp /\ written' = written /\ exposed' = exposed /\ crashes' = crashes
    BY <1>1 DEF vars
  <2>2. TypeOK' /\ Held' = Held /\ Recorded' = Recorded
    BY <1>1, <2>1 DEF JournalInv, TypeOK, Recorded, Held, Lines
  <2>3. LostOnlyIfExposed' /\ LinesInv'
    BY <1>1, <2>1, <2>2 DEF JournalInv, LostOnlyIfExposed, LinesInv, Lines
  <2>4. \A v \in Writer : RotationInv(v)' /\ CopyInv(v)'
    BY <1>1, <2>1, <2>2 DEF JournalInv, RotationInv, CopyInv, Rotating, Lines
  <2> QED BY <2>2, <2>3, <2>4 DEF JournalInv
<1> QED BY <1>1, JournalOpens, JournalWrites, JournalBeginsRotation, JournalCopies, JournalUnlinks, JournalCrashes DEF Next

\* append_history with any number of writers, killed and started again at any point, and
\* for any size that makes it rotate: a record whose append returned is in an archive
\* or in the file, unless it met another writer's rotation.
THEOREM HistoryKeepsRecords == Spec => []LostOnlyIfExposed
<1>1. JournalInv => LostOnlyIfExposed
  BY DEF JournalInv
<1> QED BY <1>1, JournalBegins, JournalKeeps, PTL DEF Spec

\* With a single writer no record meets another's rotation, and so none is lost.
LEMMA OneWriterExposesNothing ==
    ASSUME \A v, w \in Writer : v = w
    PROVE  Spec => []NothingLost
<1> DEFINE Alone == /\ exposed = {}
                    /\ \A w \in Writer : at[w] # "idle" => fd[w] = current /\ current # 0
                    /\ \A n \in 1 .. Len(archives) : archives[n].by # {}
<1>1. Init => Alone
  BY EmptySeq DEF Init
<1>2. JournalInv /\ Alone /\ [Next]_vars => Alone'
  <2> SUFFICES ASSUME JournalInv, Alone, [Next]_vars PROVE Alone'
    OBVIOUS
  <2>0. /\ at \in [Writer -> States] /\ fd \in [Writer -> 0 .. Len(files)]
        /\ Len(archives) \in Nat /\ \A n \in 1 .. Len(archives) : archives[n] \in Archive
        /\ archives \in Seq(Archive) /\ Len(files) \in Nat /\ current \in 0 .. Len(files)
    BY JournalTypes DEF JournalInv
  <2>1. CASE UNCHANGED vars
    BY <2>1 DEF vars
  <2>2. ASSUME NEW w \in Writer, Open(w) PROVE Alone'
    <3>1. exposed' = exposed /\ archives' = archives /\ fd'[w] = current' /\ current' # 0
      BY <2>0, <2>2 DEF Open
    <3> QED BY <3>1
  <2>3. ASSUME NEW w \in Writer, Write(w) PROVE Alone'
    <3>1. /\ exposed' = exposed /\ archives' = archives /\ fd' = fd /\ current' = current
          /\ fd[w] = current /\ current # 0
      BY <2>3 DEF Write
    <3> QED BY <3>1
  <2>4. ASSUME NEW w \in Writer, BeginRotation(w) PROVE Alone'
    <3>1. current' = current /\ current # 0 /\ fd'[w] = current
      BY <2>0, <2>4 DEF BeginRotation
    <3>2. ~SameArchive(w)
      <4> SUFFICES ASSUME SameArchive(w) PROVE FALSE
        OBVIOUS
      <4>1. Len(archives) \in 1 .. Len(archives) /\ w \notin archives[Len(archives)].by
        BY <2>0 DEF SameArchive
      <4>2. archives[Len(archives)].by \subseteq Writer /\ archives[Len(archives)].by # {}
        BY <2>0, <4>1 DEF Archive
      <4> QED BY <4>1, <4>2
    <3>3. NewArchive(w)
      BY <2>4, <3>1, <3>2 DEF BeginRotation
    <3>4. \A n \in 1 .. Len(archives') : archives'[n].by # {}
      <4> DEFINE x == [lines |-> <<>>, whole |-> FALSE, of |-> current, by |-> {w}, shared |-> FALSE]
      <4>1. archives' = Append(archives, x) /\ x \in Archive /\ x.by = {w}
        BY <2>0, <3>3 DEF NewArchive, Archive
      <4> HIDE DEF x
      <4>2. /\ Len(archives') = Len(archives) + 1 /\ archives'[Len(archives) + 1] = x
            /\ \A n \in 1 .. Len(archives) : archives'[n] = archives[n]
        BY <2>0, <4>1, AppendProperties
      <4> SUFFICES ASSUME NEW n \in 1 .. Len(archives') PROVE archives'[n].by # {}
        OBVIOUS
      <4>3. CASE n = Len(archives) + 1
        BY <4>1, <4>2, <4>3
      <4>4. CASE n # Len(archives) + 1
        BY <2>0, <4>2, <4>4
      <4> QED BY <4>3, <4>4
    <3> QED BY <3>1, <3>3, <3>4 DEF NewArchive
  <2>5. ASSUME NEW w \in Writer, Copy(w) PROVE Alone'
    <3>1. exposed' = exposed /\ fd' = fd /\ current' = current /\ at[w] = "copying" /\ stamp[w] \in 1 .. Len(archives)
      BY <2>5 DEF Copy, JournalInv, RotationInv, Rotating
    <3>2. \A n \in 1 .. Len(archives') : n \in 1 .. Len(archives) /\ archives'[n].by = archives[n].by
      <4>1. \E x : archives' = [archives EXCEPT ![stamp[w]] = x] /\ x.by = archives[stamp[w]].by
        <5>1. PICK intact \in BOOLEAN :
                archives' = [archives EXCEPT ![stamp[w]].lines = IF intact THEN files[fd[w]] ELSE <<>>,
                                             ![stamp[w]].whole = intact]
          BY <2>5 DEF Copy
        <5> DEFINE x == [archives[stamp[w]] EXCEPT !.lines = IF intact THEN files[fd[w]] ELSE <<>>,
                                                   !.whole = intact]
        <5>2. archives' = [archives EXCEPT ![stamp[w]] = x]
          BY <5>1
        <5>3. x.by = archives[stamp[w]].by
          BY <2>0, <3>1 DEF Archive
        <5> QED BY <5>2, <5>3
      <4>2. PICK x : archives' = [archives EXCEPT ![stamp[w]] = x] /\ x.by = archives[stamp[w]].by
        BY <4>1
      <4>3. DOMAIN archives' = DOMAIN archives /\ \A n \in DOMAIN archives : archives'[n].by = archives[n].by
        BY <2>0, <4>2
      <4>4. DOMAIN archives = 1 .. Len(archives)
        BY <2>0, LenProperties
      <4>5. Len(archives') = Len(archives)
        BY <2>0, <4>3, <4>4
      <4> QED BY <4>3, <4>4, <4>5
    <3> QED BY <3>1, <3>2
  <2>6. ASSUME NEW w \in Writer, Unlink(w) PROVE Alone'
    <3>1. exposed' = exposed /\ archives' = archives /\ at'[w] = "idle"
      BY <2>0, <2>6 DEF Unlink
    <3> QED BY <3>1
  <2>7. ASSUME NEW w \in Writer, Crash(w) PROVE Alone'
    <3>1. exposed' = exposed /\ archives' = archives /\ at'[w] = "idle"
      BY <2>0, <2>7 DEF Crash
    <3> QED BY <3>1
  <2> QED BY <2>1, <2>2, <2>3, <2>4, <2>5, <2>6, <2>7 DEF Next
<1>3. JournalInv /\ Alone => NothingLost
  BY DEF JournalInv, LostOnlyIfExposed, NothingLost
<1> QED BY <1>1, <1>2, <1>3, JournalBegins, JournalKeeps, PTL DEF Spec

\* The journal implements the log its readers may rely on.
THEOREM HistoryIsLog == Spec => ImplementsLog
<1>1. JournalInv => Recorded \subseteq 1 .. written /\ written \in Nat /\ exposed \subseteq 1 .. written
  <2> SUFFICES ASSUME JournalInv, NEW r \in Recorded PROVE r \in 1 .. written /\ written \in Nat /\ exposed \subseteq 1 .. written
    BY JournalTypes DEF JournalInv
  <2>0. TypeOK /\ DOMAIN archives = 1 .. Len(archives) /\ current \in 0 .. Len(files) /\ written \in Nat /\ exposed \subseteq 1 .. written
    BY JournalTypes DEF JournalInv
  <2>1. CASE r \in Held
    BY <2>0, <2>1 DEF Held, JournalInv, LinesInv
  <2>2. CASE r \notin Held
    <3>1. \E n \in DOMAIN archives : r \in Lines(n)
      BY <2>2 DEF Recorded
    <3> QED BY <2>0, <3>1 DEF JournalInv, LinesInv
  <2> QED BY <2>0, <2>1, <2>2
<1>2. JournalInv => Recorded \ exposed = (1 .. written) \ exposed
  BY <1>1 DEF JournalInv, LostOnlyIfExposed
<1>3. JournalInv' => (Recorded \subseteq 1 .. written /\ written \in Nat /\ exposed \subseteq 1 .. written)'
  BY <1>1, PTL
<1>4. JournalInv' => (Recorded \ exposed = (1 .. written) \ exposed)'
  BY <1>2, PTL
<1>5. Init => L!LogInit
  <2> SUFFICES ASSUME Init PROVE L!LogInit
    OBVIOUS
  <2>1. written = 0 /\ exposed = {} /\ Recorded \ exposed = (1 .. written) \ exposed
    BY <1>2, JournalBegins DEF Init
  <2> QED BY <2>1 DEF L!LogInit
<1>6. JournalInv /\ JournalInv' /\ [Next]_vars => [L!LogNext]_<<Recorded \ exposed, exposed, written>>
  <2> SUFFICES ASSUME JournalInv, JournalInv', [Next]_vars
               PROVE  \/ L!LogNext
                      \/ (Recorded \ exposed)' = Recorded \ exposed /\ exposed' = exposed /\ written' = written
    OBVIOUS
  <2>1. /\ Recorded \ exposed = (1 .. written) \ exposed /\ written \in Nat /\ exposed \subseteq 1 .. written
        /\ (Recorded \ exposed)' = (1 .. written') \ exposed' /\ written' \in Nat /\ exposed' \subseteq 1 .. written'
    BY <1>1, <1>2, <1>3, <1>4
  <2>2. CASE \E w \in Writer : Write(w)
    <3>1. written' = written + 1 /\ exposed' \in {exposed, exposed \cup {written + 1}}
      BY <2>2 DEF Write
    <3>2. CASE exposed' = exposed
      <4>1. (Recorded \ exposed)' = (Recorded \ exposed) \cup {written + 1}
        BY <2>1, <3>1, <3>2
      <4> QED BY <3>1, <3>2, <4>1 DEF L!LogNext, L!AppendSafe
    <3>3. CASE exposed' = exposed \cup {written + 1}
      <4>1. (Recorded \ exposed)' = Recorded \ exposed
        BY <2>1, <3>1, <3>3
      <4> QED BY <3>1, <3>3, <4>1 DEF L!LogNext, L!AppendExposed
    <3> QED BY <3>1, <3>2, <3>3
  <2>3. CASE ~\E w \in Writer : Write(w)
    <3>1. written' = written /\ exposed \subseteq exposed'
      BY <2>3 DEF Next, vars, Open, BeginRotation, NewArchive, SameArchive, Copy, Unlink, Crash
    <3> DEFINE S == exposed' \ exposed
    <3>2. /\ S \in SUBSET (Recorded \ exposed) /\ (Recorded \ exposed)' = (Recorded \ exposed) \ S
          /\ exposed' = exposed \cup S
      BY <2>1, <3>1
    <3> HIDE DEF S
    <3> QED BY <3>1, <3>2 DEF L!LogNext, L!Expose
  <2> QED BY <2>2, <2>3
<1> QED BY <1>5, <1>6, JournalBegins, JournalKeeps, PTL DEF Spec, ImplementsLog, L!LogSpec
=============================================================================
