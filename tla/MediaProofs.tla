------------------------------ MODULE MediaProofs ------------------------------
(***************************************************************************)
(* Proofs about Media, for any requests, objects, descriptions and bounds:  *)
(* that the page never counts less than Java owns, that what is listed is   *)
(* counted, that event objects are given back, and that the end of a track  *)
(* reaches Java.                                                            *)
(*                                                                         *)
(* Lemmas about folds, sums and queues come first, then what each operation *)
(* of Java and of the page does to the counts, the inductive invariant, one *)
(* lemma per action, and the theorems.                                      *)
(***************************************************************************)
EXTENDS Media, QueueProofs, FiniteSetTheorems

(***************************************************************************)
(* Folds.  FoldLeft recurs over the sets of positions of a sequence; that   *)
(* there is a function that does is shown once, with the step as a          *)
(* function, and each operator that Media folds gets a lemma of its own.    *)
(***************************************************************************)
LEMMA UpTo ==
  ASSUME NEW n \in Nat, NEW T, 0 \in T, \A k \in 1 .. n : k - 1 \in T => k \in T
  PROVE  0 .. n \subseteq T
<1> SUFFICES ASSUME (0 .. n) \ T # {} PROVE FALSE
  OBVIOUS
<1>1. (0 .. n) \ T \subseteq Nat
  OBVIOUS
<1>2. PICK k \in (0 .. n) \ T : \A m \in (0 .. n) \ T : k <= m
  BY <1>1, LeastNumber
<1>3. k \in 1 .. n /\ k - 1 \in 0 .. n
  BY <1>2
<1>4. k - 1 \in T
  BY <1>2, <1>3
<1>5. QED
  BY <1>2, <1>3, <1>4

LEMMA MaxOfPositions ==
  ASSUME NEW n \in Nat, NEW s \in SUBSET (1 .. n), s # {}
  PROVE  /\ Max(s) \in s /\ \A y \in s : y <= Max(s)
         /\ s \ {Max(s)} \in SUBSET (1 .. n)
         /\ Cardinality(s) \in Nat \ {0}
         /\ Cardinality(s \ {Max(s)}) = Cardinality(s) - 1
<1> DEFINE T == {y \in Nat : n - y \in s}
<1>1. T \subseteq Nat /\ T # {}
  <2>1. PICK x \in s : TRUE
    OBVIOUS
  <2>2. x \in 1 .. n /\ n - x \in Nat /\ n - (n - x) = x
    BY <2>1
  <2>3. n - x \in T
    BY <2>1, <2>2
  <2>4. QED
    BY <2>3
<1>2. PICK m \in T : \A y \in T : m <= y
  BY <1>1, LeastNumber
<1>3. n - m \in s
  BY <1>2
<1>4. \A y \in s : n - m >= y
  <2> SUFFICES ASSUME NEW y \in s PROVE n - m >= y
    OBVIOUS
  <2>1. y \in 1 .. n /\ n - y \in Nat /\ n - (n - y) = y
    OBVIOUS
  <2>2. n - y \in T
    BY <2>1
  <2>3. m <= n - y
    BY <1>2, <2>2
  <2>4. QED
    BY <2>1, <2>3, <1>2
<1>5. Max(s) \in s /\ \A y \in s : Max(s) >= y
  BY <1>3, <1>4 DEF Max
<1>6. IsFiniteSet(s) /\ Cardinality(s) \in Nat
  <2>1. IsFiniteSet(1 .. n)
    BY FS_Interval
  <2>2. QED
    BY <2>1, FS_Subset, FS_CardinalityType
<1>7. Cardinality(s \ {Max(s)}) = Cardinality(s) - 1
  BY <1>5, <1>6, FS_RemoveElement
<1>8. Cardinality(s) # 0
  BY <1>6, FS_EmptySet
<1>9. QED
  BY <1>5, <1>6, <1>7, <1>8

LEMMA MaxOfFirst ==
  ASSUME NEW n \in Nat, NEW k \in 1 .. n
  PROVE  1 .. k \in SUBSET (1 .. n) /\ 1 .. k # {} /\ Max(1 .. k) = k /\ (1 .. k) \ {k} = 1 .. k - 1
<1>1. 1 .. k \in SUBSET (1 .. n) /\ k \in 1 .. k
  OBVIOUS
<1>2. Max(1 .. k) \in 1 .. k /\ \A y \in 1 .. k : y <= Max(1 .. k)
  BY <1>1, MaxOfPositions
<1>3. Max(1 .. k) = k
  BY <1>1, <1>2
<1>4. QED
  BY <1>1, <1>3

IsFold(g, n, U, base, step) ==
  /\ g \in [SUBSET (1 .. n) -> U]
  /\ \A s \in SUBSET (1 .. n) :
       g[s] = IF s = {} THEN base ELSE step[<<g[s \ {Max(s)}], Max(s)>>]

LEMMA FoldExists ==
  ASSUME NEW n \in Nat, NEW U, NEW base \in U, NEW step \in [U \X (1 .. n) -> U]
  PROVE  \E g : IsFold(g, n, U, base, step)
<1> DEFINE D(k) == {s \in SUBSET (1 .. n) : Cardinality(s) <= k}
           Next1(g, s) == IF s = {} THEN base ELSE step[<<g[s \ {Max(s)}], Max(s)>>]
           Fits(g, k) == g \in [D(k) -> U] /\ \A s \in D(k) : g[s] = Next1(g, s)
           T == {k \in 0 .. n : \E g : Fits(g, k)}
<1>1. \A s \in SUBSET (1 .. n) : IsFiniteSet(s) /\ Cardinality(s) \in Nat /\ Cardinality(s) <= n
  <2>1. IsFiniteSet(1 .. n) /\ Cardinality(1 .. n) = n
    BY FS_Interval
  <2> SUFFICES ASSUME NEW s \in SUBSET (1 .. n)
               PROVE  IsFiniteSet(s) /\ Cardinality(s) \in Nat /\ Cardinality(s) <= n
    OBVIOUS
  <2>2. IsFiniteSet(s) /\ Cardinality(s) <= Cardinality(1 .. n)
    BY <2>1, FS_Subset
  <2>3. QED
    BY <2>1, <2>2, FS_CardinalityType
<1>2. 0 \in T
  <2> DEFINE g == [s \in D(0) |-> base]
  <2>1. \A s \in D(0) : s = {}
    <3> SUFFICES ASSUME NEW s \in D(0), s # {} PROVE FALSE
      OBVIOUS
    <3>1. Cardinality(s) \in Nat \ {0} /\ Cardinality(s) <= 0
      BY MaxOfPositions
    <3>2. QED
      BY <3>1
  <2>2. g \in [D(0) -> U] /\ \A s \in D(0) : g[s] = Next1(g, s)
    BY <2>1
  <2>3. Fits(g, 0)
    BY <2>2
  <2> HIDE DEF Fits
  <2>4. QED
    BY <2>3
<1>3. ASSUME NEW k \in 1 .. n, k - 1 \in T PROVE k \in T
  <2>1. PICK g : Fits(g, k - 1)
    BY <1>3
  <2> DEFINE h == [s \in D(k) |-> Next1(g, s)]
  <2>2. ASSUME NEW s \in D(k), s # {}
        PROVE  s \ {Max(s)} \in D(k - 1) /\ s \ {Max(s)} \in D(k) /\ Max(s) \in 1 .. n
    <3>1. /\ s \in SUBSET (1 .. n) /\ Max(s) \in s /\ s \ {Max(s)} \in SUBSET (1 .. n)
          /\ Cardinality(s) \in Nat \ {0} /\ Cardinality(s \ {Max(s)}) = Cardinality(s) - 1
          /\ Cardinality(s) <= k
      BY <2>2, MaxOfPositions
    <3>2. Cardinality(s \ {Max(s)}) <= k - 1 /\ Cardinality(s \ {Max(s)}) <= k
      BY <3>1
    <3>3. QED
      BY <3>1, <3>2
  <2>3. ASSUME NEW s \in D(k) PROVE Next1(g, s) \in U
    <3>1. CASE s = {}
      BY <3>1
    <3>2. CASE s # {}
      <4>1. g[s \ {Max(s)}] \in U /\ Max(s) \in 1 .. n
        BY <2>1, <2>2, <3>2
      <4>2. QED
        BY <3>2, <4>1
    <3>3. QED
      BY <3>1, <3>2
  <2>4. h \in [D(k) -> U]
    BY <2>3
  <2>5. \A s \in D(k - 1) : s \in D(k) /\ h[s] = g[s]
    <3> SUFFICES ASSUME NEW s \in D(k - 1) PROVE s \in D(k) /\ h[s] = g[s]
      OBVIOUS
    <3>1. Cardinality(s) \in Nat /\ Cardinality(s) <= k - 1
      BY <1>1
    <3>2. s \in D(k)
      BY <3>1
    <3>3. h[s] = Next1(g, s) /\ g[s] = Next1(g, s)
      BY <2>1, <3>2
    <3>4. QED
      BY <3>2, <3>3
  <2>6. \A s \in D(k) : h[s] = Next1(h, s)
    <3> SUFFICES ASSUME NEW s \in D(k) PROVE h[s] = Next1(h, s)
      OBVIOUS
    <3>1. s # {} => h[s \ {Max(s)}] = g[s \ {Max(s)}]
      BY <2>2, <2>5
    <3>2. h[s] = Next1(g, s)
      OBVIOUS
    <3> HIDE DEF h
    <3>3. QED
      BY <3>1, <3>2
  <2> HIDE DEF h
  <2>7. Fits(h, k)
    BY <2>4, <2>6
  <2> HIDE DEF Fits
  <2>8. QED
    BY <2>7
<1>4. n \in T
  <2> HIDE DEF T
  <2>1. 0 .. n \subseteq T
    BY <1>2, <1>3, UpTo
  <2>2. QED
    BY <2>1
<1>5. PICK g : Fits(g, n)
  BY <1>4
<1>6. D(n) = SUBSET (1 .. n)
  BY <1>1
<1>7. g \in [SUBSET (1 .. n) -> U] /\ \A s \in SUBSET (1 .. n) : g[s] = Next1(g, s)
  BY <1>5, <1>6
<1>8. QED
  BY <1>7 DEF IsFold

LEMMA FoldReaches ==
  ASSUME NEW n \in Nat, NEW P, NEW f, f[{}] \in P[0],
         \A i \in 1 .. n : f[1 .. i - 1] \in P[i - 1] => f[1 .. i] \in P[i]
  PROVE  f[1 .. n] \in P[n]
<1> DEFINE T == {i \in 0 .. n : f[1 .. i] \in P[i]}
<1>1. 0 \in T
  <2>1. 1 .. 0 = {}
    OBVIOUS
  <2>2. QED
    BY <2>1
<1>2. \A k \in 1 .. n : k - 1 \in T => k \in T
  OBVIOUS
<1> HIDE DEF T
<1>3. 0 .. n \subseteq T
  BY <1>1, <1>2, UpTo
<1>4. QED
  BY <1>3 DEF T

(***************************************************************************)
(* Sums: f adds up the first n values of v.                                 *)
(***************************************************************************)
IsSum(f, n, v) ==
  /\ f \in [0 .. n -> Int]
  /\ f[0] = 0
  /\ \A i \in 1 .. n : f[i] = f[i - 1] + v[i]

LEMMA SumExists ==
  ASSUME NEW n \in Nat, NEW v \in [1 .. n -> Int]
  PROVE  \E f : IsSum(f, n, v)
<1> DEFINE T == {k \in 0 .. n : \E f : IsSum(f, k, v)}
<1>1. 0 \in T
  <2> DEFINE f == [i \in 0 .. 0 |-> 0]
  <2>1. IsSum(f, 0, v)
    BY DEF IsSum
  <2>2. QED
    BY <2>1
<1>2. ASSUME NEW k \in 1 .. n, k - 1 \in T PROVE k \in T
  <2>1. PICK f : IsSum(f, k - 1, v)
    BY <1>2
  <2> DEFINE g == [i \in 0 .. k |-> IF i = k THEN f[k - 1] + v[k] ELSE f[i]]
  <2>2. /\ \A i \in 0 .. k - 1 : f[i] \in Int
        /\ f[0] = 0 /\ \A i \in 1 .. k - 1 : f[i] = f[i - 1] + v[i]
    BY <2>1 DEF IsSum
  <2>3. v[k] \in Int /\ f[k - 1] \in Int
    BY <2>2
  <2>4. g \in [0 .. k -> Int]
    BY <2>2, <2>3
  <2>5. \A i \in 1 .. k : g[i] = g[i - 1] + v[i]
    BY <2>2, <2>3
  <2>6. g[0] = 0
    BY <2>2
  <2>7. IsSum(g, k, v)
    <3> HIDE DEF g
    <3> QED
      BY <2>4, <2>5, <2>6 DEF IsSum
  <2>8. QED
    BY <2>7
<1> HIDE DEF T
<1>3. 0 .. n \subseteq T
  BY <1>1, <1>2, UpTo
<1>4. QED
  BY <1>3 DEF T

(* One value changed by d.                                                  *)
Changed(v, w, n, p, d) ==
  w[p] = v[p] + d /\ \A i \in 1 .. n : i # p => w[i] = v[i]

LEMMA SumChange ==
  ASSUME NEW n \in Nat, NEW v \in [1 .. n -> Int], NEW w \in [1 .. n -> Int], NEW f, NEW g,
         IsSum(f, n, v), IsSum(g, n, w), NEW p \in 1 .. n, NEW d \in Int, Changed(v, w, n, p, d)
  PROVE  g[n] = f[n] + d
<1> DEFINE T == {i \in 0 .. n : g[i] = f[i] + (IF i < p THEN 0 ELSE d)}
<1>1. /\ \A i \in 0 .. n : f[i] \in Int /\ g[i] \in Int
      /\ f[0] = 0 /\ g[0] = 0
      /\ \A i \in 1 .. n : f[i] = f[i - 1] + v[i] /\ g[i] = g[i - 1] + w[i]
      /\ \A i \in 1 .. n : v[i] \in Int /\ w[i] \in Int
      /\ w[p] = v[p] + d /\ \A i \in 1 .. n : i # p => w[i] = v[i]
  BY DEF IsSum, Changed
<1>2. 0 \in T
  BY <1>1
<1>3. ASSUME NEW k \in 1 .. n, k - 1 \in T PROVE k \in T
  <2>1. g[k - 1] = f[k - 1] + (IF k - 1 < p THEN 0 ELSE d) /\ k - 1 \in 0 .. n
    BY <1>3
  <2>2. f[k] = f[k - 1] + v[k] /\ g[k] = g[k - 1] + w[k] /\ f[k - 1] \in Int /\ g[k - 1] \in Int
        /\ v[k] \in Int /\ w[k] \in Int
    BY <1>1, <2>1
  <2>3. (k = p => w[k] = v[k] + d) /\ (k # p => w[k] = v[k])
    BY <1>1, <2>2
  <2>4. k < p => k - 1 < p
    OBVIOUS
  <2>5. QED
    <3>1. CASE k < p
      BY <2>1, <2>2, <2>3, <2>4, <3>1
    <3>2. CASE k = p
      BY <2>1, <2>2, <2>3, <3>2
    <3>3. CASE k > p
      <4>1. ~(k - 1 < p) /\ ~(k < p) /\ k # p
        BY <3>3
      <4>2. QED
        <5>1. w[k] = v[k] /\ g[k - 1] = f[k - 1] + d
          BY <2>1, <2>2, <2>3, <4>1
        <5>2. g[k] = f[k] + d
          BY <2>2, <5>1
        <5>3. QED
          BY <4>1, <5>2
    <3>4. QED
      BY <3>1, <3>2, <3>3
<1> HIDE DEF T
<1>4. 0 .. n \subseteq T
  BY <1>2, <1>3, UpTo
<1>5. n \in T
  BY <1>4
<1>6. QED
  BY <1>1, <1>5 DEF T

SumOf(f, n, v) == n \in Nat /\ v \in [1 .. n -> Int] /\ IsSum(f, n, v)

LEMMA SumChanges ==
  ASSUME NEW n, NEW v, NEW w, NEW f, NEW g, NEW p \in 1 .. n, NEW d \in Int,
         SumOf(f, n, v), SumOf(g, n, w), Changed(v, w, n, p, d)
  PROVE  g[n] = f[n] + d
BY SumChange DEF SumOf

(* One value more.                                                          *)
LEMMA SumMore ==
  ASSUME NEW n \in Nat, NEW v \in [1 .. n -> Int], NEW w \in [1 .. n + 1 -> Int], NEW f, NEW g,
         IsSum(f, n, v), IsSum(g, n + 1, w), \A i \in 1 .. n : w[i] = v[i]
  PROVE  g[n + 1] = f[n] + w[n + 1]
<1> DEFINE T == {i \in 0 .. n : g[i] = f[i]}
<1>1. /\ \A i \in 0 .. n : f[i] \in Int /\ g[i] \in Int
      /\ f[0] = 0 /\ g[0] = 0
      /\ \A i \in 1 .. n : f[i] = f[i - 1] + v[i] /\ g[i] = g[i - 1] + w[i]
  BY SMTT(30) DEF IsSum
<1>2. 0 \in T
  BY <1>1
<1>3. ASSUME NEW k \in 1 .. n, k - 1 \in T PROVE k \in T
  BY <1>1, <1>3
<1> HIDE DEF T
<1>4. 0 .. n \subseteq T
  BY <1>2, <1>3, UpTo
<1>5. n \in T
  BY <1>4
<1>6. g[n] = f[n]
  BY <1>5 DEF T
<1>7. g[n + 1] = g[n] + w[n + 1]
  BY DEF IsSum
<1>8. QED
  BY <1>6, <1>7

(***************************************************************************)
(* What Java owns of an object.                                             *)
(***************************************************************************)
Proxy == [of : Objects, count : Int, ready : {"live", "ended"}]

Shares(J, o) ==
  [n \in DOMAIN J.proxies |-> IF J.proxies[n].of = o THEN J.proxies[n].count ELSE 0]

LEMMA OwnedIsSum ==
  ASSUME NEW J, J.proxies \in Seq(Proxy), NEW o
  PROVE  /\ Len(J.proxies) \in Nat /\ Shares(J, o) \in [1 .. Len(J.proxies) -> Int]
         /\ Owned(J, o) \in Int
         /\ \E f : IsSum(f, Len(J.proxies), Shares(J, o)) /\ Owned(J, o) = f[Len(J.proxies)]
<1> DEFINE N == Len(J.proxies)
           v == Shares(J, o)
           Eq(f) == f = [n \in 0 .. N |->
                           IF n = 0 THEN 0
                           ELSE f[n - 1] + (IF J.proxies[n].of = o THEN J.proxies[n].count ELSE 0)]
           f == CHOOSE f : Eq(f)
<1>1. N \in Nat /\ DOMAIN J.proxies = 1 .. N
  BY LenProperties
<1>2. \A n \in 1 .. N : J.proxies[n] \in Proxy
  BY <1>1, ElementOfSeq
<1>3. v \in [1 .. N -> Int]
  BY <1>1, <1>2 DEF Shares, Proxy
<1>4. \A n \in 1 .. N : v[n] = IF J.proxies[n].of = o THEN J.proxies[n].count ELSE 0
  BY <1>1 DEF Shares
<1>5. Owned(J, o) = f[N]
  BY Zenon DEF Owned
<1> HIDE DEF v, N
<1>6. PICK g : IsSum(g, N, v)
  BY <1>1, <1>3, SumExists
<1>7. Eq(g)
  <2>1. \A n \in 0 .. N : g[n] = IF n = 0 THEN 0
               ELSE g[n - 1] + (IF J.proxies[n].of = o THEN J.proxies[n].count ELSE 0)
    BY <1>1, <1>6, <1>4 DEF IsSum
  <2>2. g = [n \in 0 .. N |-> g[n]]
    BY <1>6 DEF IsSum
  <2>3. QED
    BY <2>1, <2>2
<1>8. Eq(f)
  <2> HIDE DEF Eq
  <2> QED
    BY <1>7
<1> HIDE DEF f
<1>9. /\ f[0] = 0
      /\ \A n \in 1 .. N : f[n] = f[n - 1] + v[n]
  BY <1>1, <1>4, <1>8
<1>10. DOMAIN f = 0 .. N /\ f = [n \in 0 .. N |-> f[n]]
  BY <1>8
<1>11. f \in [0 .. N -> Int]
  <2> DEFINE T == {n \in 0 .. N : f[n] \in Int}
  <2>1. 0 \in T
    BY <1>1, <1>9
  <2>2. ASSUME NEW k \in 1 .. N, k - 1 \in T PROVE k \in T
    BY <1>3, <1>9, <2>2
  <2> HIDE DEF T
  <2>3. 0 .. N \subseteq T
    BY <1>1, <2>1, <2>2, UpTo
  <2>4. QED
    BY <1>10, <2>3 DEF T
<1>12. IsSum(f, N, v)
  BY <1>9, <1>11 DEF IsSum
<1>13. f[N] \in Int
  BY <1>1, <1>11
<1>14. QED
  BY <1>1, <1>3, <1>5, <1>12, <1>13 DEF v, N

\* The counts of two states of Java: one proxy counted d more, the others as before.
CountsOnly(J, K, p, d) ==
  /\ DOMAIN K.proxies = DOMAIN J.proxies
  /\ K.proxies[p].count = J.proxies[p].count + d
  /\ \A x \in DOMAIN J.proxies :
       /\ K.proxies[x].of = J.proxies[x].of
       /\ x # p => K.proxies[x].count = J.proxies[x].count
Counts(J, K, p, d) ==
  /\ CountsOnly(J, K, p, d)
  /\ \A x \in DOMAIN J.proxies : K.proxies[x].ready = J.proxies[x].ready

\* Java owns d more of o.
Owns(J, K, o, d) == \A x : Owned(K, x) = Owned(J, x) + (IF o = x THEN d ELSE 0)

LEMMA OwnedCount ==
  ASSUME NEW J, NEW K, J.proxies \in Seq(Proxy), K.proxies \in Seq(Proxy), NEW d \in Int,
         NEW p \in DOMAIN J.proxies, CountsOnly(J, K, p, d)
  PROVE  Owns(J, K, J.proxies[p].of, d)
<1> SUFFICES ASSUME NEW o
             PROVE  Owned(K, o) = Owned(J, o) + (IF J.proxies[p].of = o THEN d ELSE 0)
  BY DEF Owns
<1>c. /\ DOMAIN K.proxies = DOMAIN J.proxies
      /\ K.proxies[p].of = J.proxies[p].of /\ K.proxies[p].count = J.proxies[p].count + d
      /\ \A x \in DOMAIN J.proxies : x # p =>
            K.proxies[x].of = J.proxies[x].of /\ K.proxies[x].count = J.proxies[x].count
  BY DEF CountsOnly
<1> DEFINE N == Len(J.proxies)
           v == Shares(J, o)
           w == Shares(K, o)
           e == IF J.proxies[p].of = o THEN d ELSE 0
<1>1. N \in Nat /\ DOMAIN J.proxies = 1 .. N /\ Len(K.proxies) = N
  BY <1>c, LenProperties
<1>2. /\ v \in [1 .. N -> Int] /\ w \in [1 .. N -> Int]
      /\ \E f : IsSum(f, N, v) /\ Owned(J, o) = f[N]
      /\ \E f : IsSum(f, N, w) /\ Owned(K, o) = f[N]
  BY <1>1, OwnedIsSum
<1>3. w[p] = v[p] + e /\ \A i \in 1 .. N : i # p => w[i] = v[i]
  <2>1. J.proxies[p] \in Proxy
    BY ElementOfSeq, <1>1
  <2>2. J.proxies[p].count \in Int
    BY <2>1 DEF Proxy
  <2>3. /\ v[p] = IF J.proxies[p].of = o THEN J.proxies[p].count ELSE 0
        /\ w[p] = IF K.proxies[p].of = o THEN K.proxies[p].count ELSE 0
    BY <1>c DEF Shares
  <2>4. w[p] = v[p] + e
    <3> HIDE DEF v, w
    <3>1. CASE J.proxies[p].of = o
      BY <1>c, <2>2, <2>3, <3>1
    <3>2. CASE J.proxies[p].of # o
      BY <1>c, <2>2, <2>3, <3>2
    <3>3. QED
      BY <3>1, <3>2
  <2>5. ASSUME NEW i \in 1 .. N, i # p PROVE w[i] = v[i]
    BY <1>c, <1>1, <2>5 DEF Shares
  <2>6. QED
    BY <2>4, <2>5
<1>4. e \in Int /\ p \in 1 .. N
  BY <1>1
<1> HIDE DEF v, w, N, e
<1>5. PICK f : IsSum(f, N, v) /\ Owned(J, o) = f[N]
  BY <1>2
<1>6. PICK g : IsSum(g, N, w) /\ Owned(K, o) = g[N]
  BY <1>2
<1>7. g[N] = f[N] + e
  <2>1. SumOf(f, N, v) /\ SumOf(g, N, w) /\ Changed(v, w, N, p, e)
    BY <1>1, <1>2, <1>3, <1>4, <1>5, <1>6 DEF SumOf, Changed
  <2>2. QED
    BY <1>4, <2>1, SumChanges
<1>8. QED
  BY <1>5, <1>6, <1>7 DEF e

\* A proxy more, which counts one.
Grows(J, K, o, ready) ==
  /\ DOMAIN K.proxies = 1 .. Len(J.proxies) + 1
  /\ K.proxies[Len(J.proxies) + 1] = [of |-> o, count |-> 1, ready |-> ready]
  /\ \A x \in DOMAIN J.proxies : x # Len(J.proxies) + 1 /\ K.proxies[x] = J.proxies[x]

LEMMA OwnedNew ==
  ASSUME NEW J, NEW K, J.proxies \in Seq(Proxy), K.proxies \in Seq(Proxy), NEW of, NEW ready,
         Grows(J, K, of, ready)
  PROVE  Owns(J, K, of, 1)
<1> SUFFICES ASSUME NEW o PROVE Owned(K, o) = Owned(J, o) + (IF of = o THEN 1 ELSE 0)
  BY DEF Owns
<1>c. /\ DOMAIN K.proxies = 1 .. Len(J.proxies) + 1
      /\ K.proxies[Len(J.proxies) + 1].of = of /\ K.proxies[Len(J.proxies) + 1].count = 1
      /\ \A x \in DOMAIN J.proxies :
           K.proxies[x].of = J.proxies[x].of /\ K.proxies[x].count = J.proxies[x].count
  BY DEF Grows
<1> DEFINE N == Len(J.proxies)
           v == Shares(J, o)
           w == Shares(K, o)
<1>1. N \in Nat /\ DOMAIN J.proxies = 1 .. N /\ Len(K.proxies) = N + 1
  BY <1>c, LenProperties
<1>2. /\ v \in [1 .. N -> Int] /\ w \in [1 .. N + 1 -> Int]
      /\ \E f : IsSum(f, N, v) /\ Owned(J, o) = f[N]
      /\ \E f : IsSum(f, N + 1, w) /\ Owned(K, o) = f[N + 1]
  BY <1>1, OwnedIsSum
<1>3. ASSUME NEW i \in 1 .. N PROVE w[i] = v[i]
  <2>1. i \in DOMAIN J.proxies /\ i \in DOMAIN K.proxies
    BY <1>c, <1>1
  <2>2. K.proxies[i].of = J.proxies[i].of /\ K.proxies[i].count = J.proxies[i].count
    BY <1>c, <2>1
  <2>3. QED
    BY <2>1, <2>2 DEF Shares
<1>4. w[N + 1] = IF of = o THEN 1 ELSE 0
  <2>1. N + 1 \in DOMAIN K.proxies
    BY <1>c, <1>1
  <2>2. QED
    BY <1>c, <2>1 DEF Shares
<1> HIDE DEF v, w, N
<1>5. PICK f : IsSum(f, N, v) /\ Owned(J, o) = f[N]
  BY <1>2
<1>6. PICK g : IsSum(g, N + 1, w) /\ Owned(K, o) = g[N + 1]
  BY <1>2
<1>7. g[N + 1] = f[N] + w[N + 1]
  BY <1>1, <1>2, <1>3, <1>5, <1>6, SumMore
<1>8. QED
  BY <1>4, <1>5, <1>6, <1>7 DEF N

LEMMA OwnedNothing == ASSUME NEW J, J.proxies = <<>>, NEW o PROVE Owned(J, o) = 0
<1>1. J.proxies \in Seq(Proxy) /\ Len(J.proxies) = 0
  OBVIOUS
<1>2. QED
  BY <1>1, OwnedIsSum DEF IsSum

(***************************************************************************)
(* How often something is in a queue.                                       *)
(***************************************************************************)
Places(q, x) == {i \in DOMAIN q : q[i] = x}
Times(q, x)  == Cardinality(Places(q, x))

LEMMA TimesType ==
  ASSUME NEW S, NEW q \in Seq(S), NEW x
  PROVE  IsFiniteSet(Places(q, x)) /\ Times(q, x) \in Nat
<1>1. Len(q) \in Nat /\ DOMAIN q = 1 .. Len(q)
  BY LenProperties
<1>2. IsFiniteSet(1 .. Len(q))
  BY <1>1, FS_Interval
<1>3. Places(q, x) \subseteq 1 .. Len(q)
  BY <1>1 DEF Places
<1>4. QED
  BY <1>2, <1>3, FS_Subset, FS_CardinalityType DEF Times

LEMMA TimesNone ==
  ASSUME NEW q, NEW x, x \notin Members(q)
  PROVE  Times(q, x) = 0
<1>1. Places(q, x) = {}
  BY DEF Places, Members
<1>2. QED
  BY <1>1, FS_EmptySet DEF Times

LEMMA TimesConcat ==
  ASSUME NEW S, NEW q \in Seq(S), NEW r \in Seq(S), NEW x
  PROVE  Times(q \o r, x) = Times(q, x) + Times(r, x)
<1> DEFINE B == {j \in DOMAIN (q \o r) : j - Len(q) \in Places(r, x)}
           h == [i \in Places(r, x) |-> i + Len(q)]
<1>1. /\ Len(q) \in Nat /\ DOMAIN q = 1 .. Len(q) /\ DOMAIN r \subseteq Nat \ {0}
      /\ \A i \in DOMAIN q : i \in DOMAIN (q \o r) /\ (q \o r)[i] = q[i]
      /\ \A i \in DOMAIN r : i + Len(q) \in DOMAIN (q \o r) /\ (q \o r)[i + Len(q)] = r[i]
      /\ \A i \in DOMAIN (q \o r) : i \in Nat /\ (i \in DOMAIN q \/ (Len(q) < i /\ i - Len(q) \in DOMAIN r))
  BY ConcatPlaces
<1>2. /\ \A j \in B : j \in Nat /\ j - Len(q) \in Places(r, x) /\ (j - Len(q)) + Len(q) = j
      /\ \A i \in Places(r, x) : i \in Nat \ {0} /\ i + Len(q) \in B /\ (i + Len(q)) - Len(q) = i
  BY <1>1 DEF Places
<1>3. Places(q \o r, x) = Places(q, x) \cup B
  <2>1. ASSUME NEW j \in Places(q \o r, x) PROVE j \in Places(q, x) \cup B
    <3>1. j \in DOMAIN (q \o r) /\ (q \o r)[j] = x
      BY DEF Places
    <3>2. CASE j \in DOMAIN q
      BY <1>1, <3>1, <3>2 DEF Places
    <3>3. CASE Len(q) < j /\ j - Len(q) \in DOMAIN r
      <4>1. (j - Len(q)) + Len(q) = j
        BY <1>1, <3>1
      <4>2. r[j - Len(q)] = x
        BY <1>1, <3>1, <3>3, <4>1
      <4>3. QED
        BY <3>1, <3>3, <4>2 DEF Places
    <3>4. QED
      BY <1>1, <3>1, <3>2, <3>3
  <2>2. ASSUME NEW j \in Places(q, x) PROVE j \in Places(q \o r, x)
    BY <1>1 DEF Places
  <2>3. ASSUME NEW j \in B PROVE j \in Places(q \o r, x)
    <3>1. j - Len(q) \in DOMAIN r /\ r[j - Len(q)] = x /\ (j - Len(q)) + Len(q) = j
      BY <1>2 DEF Places
    <3>2. QED
      BY <1>1, <3>1 DEF Places
  <2>4. QED
    BY <2>1, <2>2, <2>3
<1>4. Places(q, x) \cap B = {}
  BY <1>1, <1>2 DEF Places
<1>5. IsFiniteSet(Places(q, x)) /\ IsFiniteSet(Places(r, x)) /\ Times(q, x) \in Nat /\ Times(r, x) \in Nat
  BY TimesType
<1>6. ExistsBijection(Places(r, x), B)
  <2>1. h \in [Places(r, x) -> B]
    BY <1>2
  <2>2. \A a, b \in Places(r, x) : h[a] = h[b] => a = b
    BY <1>1, <1>2
  <2>3. \A j \in B : \E i \in Places(r, x) : h[i] = j
    BY <1>2
  <2>4. h \in Bijection(Places(r, x), B)
    <3> HIDE DEF h, B
    <3> QED
      BY <2>1, <2>2, <2>3 DEF Bijection, Injection, Surjection, IsInjective
  <2>5. QED
    BY <2>4 DEF ExistsBijection
<1> HIDE DEF B
<1>7. IsFiniteSet(B) /\ Cardinality(B) = Times(r, x)
  BY <1>5, <1>6, FS_Bijection DEF Times
<1>8. Cardinality(Places(q, x) \cup B)
        = Cardinality(Places(q, x)) + Cardinality(B) - Cardinality(Places(q, x) \cap B)
  BY <1>5, <1>7, FS_Union
<1>9. Cardinality(Places(q, x) \cap B) = 0
  BY <1>4, FS_EmptySet
<1>10. QED
  BY <1>3, <1>5, <1>7, <1>8, <1>9 DEF Times

LEMMA TimesAppend ==
  ASSUME NEW S, NEW q \in Seq(S), NEW e \in S, NEW x
  PROVE  Times(Append(q, e), x) = Times(q, x) + (IF e = x THEN 1 ELSE 0)
<1>1. <<e>> \in Seq(S) /\ Append(q, e) = q \o <<e>>
  OBVIOUS
<1>2. Times(<<e>>, x) = IF e = x THEN 1 ELSE 0
  <2>1. Places(<<e>>, x) = IF e = x THEN {1} ELSE {}
    BY DEF Places
  <2>2. QED
    BY <2>1, FS_EmptySet, FS_Singleton DEF Times
<1>3. Times(q \o <<e>>, x) = Times(q, x) + Times(<<e>>, x)
  BY <1>1, TimesConcat
<1>4. QED
  BY <1>1, <1>2, <1>3

LEMMA TimesCut ==
  ASSUME NEW S, NEW q \in Seq(S), NEW n \in 0 .. Len(q), NEW x
  PROVE  /\ SubSeq(q, 1, n) \in Seq(S) /\ SubSeq(q, n + 1, Len(q)) \in Seq(S)
         /\ q = SubSeq(q, 1, n) \o SubSeq(q, n + 1, Len(q))
         /\ Times(q, x) = Times(SubSeq(q, 1, n), x) + Times(SubSeq(q, n + 1, Len(q)), x)
<1>1. Len(q) \in Nat
  BY LenProperties
<1>2. SubSeq(q, 1, n) \in Seq(S) /\ SubSeq(q, n + 1, Len(q)) \in Seq(S)
  <2>1. \A i \in 1 .. n : q[i] \in S
    BY <1>1, ElementOfSeq, LenProperties
  <2>2. \A i \in n + 1 .. Len(q) : q[i] \in S
    BY <1>1, ElementOfSeq, LenProperties
  <2>3. QED
    BY <1>1, <2>1, <2>2, SubSeqProperties
<1>3. q = SubSeq(q, 1, n) \o SubSeq(q, n + 1, Len(q))
  <2>1. SubSeq(q, 1, Len(q)) = q
    BY SubSeqFull
  <2>2. 1 \in 1 .. Len(q) + 1 /\ n \in 1 - 1 .. Len(q) /\ Len(q) \in n .. Len(q)
    BY <1>1
  <2>3. SubSeq(q, 1, n) \o SubSeq(q, n + 1, Len(q)) = SubSeq(q, 1, Len(q))
    BY <2>2, ConcatAdjacentSubSeq
  <2>4. QED
    BY <2>1, <2>3
<1>4. Times(SubSeq(q, 1, n) \o SubSeq(q, n + 1, Len(q)), x)
        = Times(SubSeq(q, 1, n), x) + Times(SubSeq(q, n + 1, Len(q)), x)
  BY <1>2, TimesConcat
<1>5. QED
  BY <1>2, <1>3, <1>4

(***************************************************************************)
(* What retain, release and the making of a proxy do.                      *)
(***************************************************************************)
JavaRecs == [proxies : Seq(Proxy), bound : [Objects -> Nat], scripts : Seq(Scripts),
             tracks : [Streams -> Seq(Nat) \cup {None}]]

LEMMA ProxiesAre ==
  ASSUME NEW J \in JavaRecs
  PROVE  /\ Len(J.proxies) \in Nat /\ DOMAIN J.proxies = 1 .. Len(J.proxies)
         /\ \A p \in DOMAIN J.proxies : /\ J.proxies[p].of \in Objects /\ J.proxies[p].count \in Int
                                        /\ J.proxies[p].ready \in {"live", "ended"}
         /\ J.proxies \in Seq(Proxy) /\ J.bound \in [Objects -> Nat] /\ J.scripts \in Seq(Scripts)
         /\ J.tracks \in [Streams -> Seq(Nat) \cup {None}]
<1>1. J.proxies \in Seq(Proxy)
  BY DEF JavaRecs
<1>2. Len(J.proxies) \in Nat /\ DOMAIN J.proxies = 1 .. Len(J.proxies)
  BY <1>1, LenProperties
<1>3. \A p \in DOMAIN J.proxies : J.proxies[p] \in Proxy
  BY <1>1, <1>2, ElementOfSeq
<1>4. QED
  BY <1>1, <1>2, <1>3 DEF JavaRecs, Proxy

LEMMA CountType ==
  ASSUME NEW q \in Seq(Proxy), NEW p \in DOMAIN q, NEW d \in Int, NEW r,
         r = [q EXCEPT ![p].count = @ + d]
  PROVE  r \in Seq(Proxy) /\ DOMAIN r = DOMAIN q
<1>1. Len(q) \in Nat /\ DOMAIN q = 1 .. Len(q)
  BY LenProperties
<1>2. q[p] \in Proxy
  BY <1>1, ElementOfSeq
<1>3. [q[p] EXCEPT !.count = @ + d] \in Proxy
  BY <1>2 DEF Proxy
<1>4. r = [q EXCEPT ![p] = [q[p] EXCEPT !.count = @ + d]]
  BY <1>1
<1>5. QED
  BY <1>1, <1>3, <1>4, ExceptSeq

LEMMA ScriptType ==
  ASSUME NEW o \in Objects, NEW op \in {"retain", "release"}
  PROVE  Script(op, o) \in Scripts
BY DEF Script, Scripts

\* What the first, and what a later retain() does besides counting.
Registers(J, K, o, p) ==
  /\ J.bound[o] = 0 => K.bound = [J.bound EXCEPT ![o] = p] /\ K.scripts = J.scripts
  /\ J.bound[o] # 0 => K.bound = J.bound /\ K.scripts = Append(J.scripts, Script("retain", o))

LEMMA RetainIs ==
  ASSUME NEW J \in JavaRecs, NEW p \in DOMAIN J.proxies, NEW K, K = Retain(J, p)
  PROVE  /\ K \in JavaRecs /\ Counts(J, K, p, 1) /\ K.tracks = J.tracks
         /\ Registers(J, K, J.proxies[p].of, p)
<1> DEFINE o == J.proxies[p].of
           r == [J.proxies EXCEPT ![p].count = @ + 1]
<1>1. /\ DOMAIN J.proxies = 1 .. Len(J.proxies) /\ o \in Objects /\ J.proxies[p].count \in Int
      /\ \A x \in DOMAIN J.proxies : J.proxies[x].of \in Objects /\ J.proxies[x].count \in Int
      /\ J.proxies \in Seq(Proxy) /\ J.bound \in [Objects -> Nat] /\ J.scripts \in Seq(Scripts)
      /\ J.tracks \in [Streams -> Seq(Nat) \cup {None}] /\ p \in Nat
  BY ProxiesAre
<1>2. r \in Seq(Proxy) /\ DOMAIN r = DOMAIN J.proxies
  <2>1. r = [J.proxies EXCEPT ![p].count = @ + 1]
    OBVIOUS
  <2> HIDE DEF r
  <2>2. QED
    <3>1. 1 \in Int
      OBVIOUS
    <3>2. QED
      BY <1>1, <2>1, <3>1, CountType
<1>3. r[p].count = J.proxies[p].count + 1 /\ r[p].of = o /\ r[p].ready = J.proxies[p].ready
  <2>1. r[p] = [J.proxies[p] EXCEPT !.count = @ + 1]
    OBVIOUS
  <2>2. J.proxies[p] \in Proxy
    BY <1>1, ElementOfSeq
  <2> HIDE DEF r, o
  <2>3. QED
    BY <2>1, <2>2 DEF Proxy, o
<1>4. \A x \in DOMAIN J.proxies : x # p => r[x] = J.proxies[x]
  OBVIOUS
<1>5. /\ K.proxies = r /\ K.tracks = J.tracks
      /\ K.bound = IF J.bound[o] = 0 THEN [J.bound EXCEPT ![o] = p] ELSE J.bound
      /\ K.scripts = IF J.bound[o] = 0 THEN J.scripts ELSE Append(J.scripts, Script("retain", o))
      /\ K = [proxies |-> K.proxies, bound |-> K.bound, scripts |-> K.scripts, tracks |-> K.tracks]
  <2>1. J = [proxies |-> J.proxies, bound |-> J.bound, scripts |-> J.scripts, tracks |-> J.tracks]
    BY DEF JavaRecs
  <2>2. CASE J.bound[o] = 0
    BY <2>1, <2>2 DEF Retain
  <2>3. CASE J.bound[o] # 0
    BY <2>1, <2>3 DEF Retain
  <2>4. QED
    BY <2>2, <2>3
<1> HIDE DEF o, r
<1>6. Script("retain", o) \in Scripts
  BY <1>1, ScriptType
<1>7. K \in JavaRecs
  <2>1. K.bound \in [Objects -> Nat]
    BY <1>1, <1>5
  <2>2. K.scripts \in Seq(Scripts)
    BY <1>1, <1>5, <1>6
  <2>3. QED
    BY <1>1, <1>2, <1>5, <2>1, <2>2 DEF JavaRecs
<1>8. Counts(J, K, p, 1)
  BY <1>2, <1>3, <1>4, <1>5 DEF Counts, CountsOnly, o
<1>9. QED
  BY <1>1, <1>5, <1>7, <1>8 DEF o, Registers

LEMMA ReleaseIs ==
  ASSUME NEW J \in JavaRecs, NEW p \in DOMAIN J.proxies, NEW K, K = Release(J, p)
  PROVE  /\ K \in JavaRecs /\ Counts(J, K, p, -1) /\ K.tracks = J.tracks /\ K.bound = J.bound
         /\ K.scripts = Append(J.scripts, Script("release", J.proxies[p].of))
<1> DEFINE o == J.proxies[p].of
           r == [J.proxies EXCEPT ![p].count = @ - 1]
<1>1. /\ DOMAIN J.proxies = 1 .. Len(J.proxies) /\ o \in Objects /\ J.proxies[p].count \in Int
      /\ \A x \in DOMAIN J.proxies : J.proxies[x].of \in Objects /\ J.proxies[x].count \in Int
      /\ J.proxies \in Seq(Proxy) /\ J.bound \in [Objects -> Nat] /\ J.scripts \in Seq(Scripts)
      /\ J.tracks \in [Streams -> Seq(Nat) \cup {None}] /\ p \in Nat
  BY ProxiesAre
<1>2. r \in Seq(Proxy) /\ DOMAIN r = DOMAIN J.proxies
  <2>1. r = [J.proxies EXCEPT ![p].count = @ + (-1)]
    BY <1>1
  <2> HIDE DEF r
  <2>2. QED
    <3>1. -1 \in Int
      OBVIOUS
    <3>2. QED
      BY <1>1, <2>1, <3>1, CountType
<1>3. r[p].count = J.proxies[p].count + (-1) /\ r[p].of = o /\ r[p].ready = J.proxies[p].ready
  <2>1. r[p] = [J.proxies[p] EXCEPT !.count = @ - 1]
    OBVIOUS
  <2>2. J.proxies[p] \in Proxy
    BY <1>1, ElementOfSeq
  <2> HIDE DEF r, o
  <2>3. QED
    BY <1>1, <2>1, <2>2 DEF Proxy, o
<1>4. \A x \in DOMAIN J.proxies : x # p => r[x] = J.proxies[x]
  OBVIOUS
<1>5. /\ K.proxies = r /\ K.tracks = J.tracks /\ K.bound = J.bound
      /\ K.scripts = Append(J.scripts, Script("release", o))
      /\ K = [proxies |-> K.proxies, bound |-> K.bound, scripts |-> K.scripts, tracks |-> K.tracks]
  <2>1. J = [proxies |-> J.proxies, bound |-> J.bound, scripts |-> J.scripts, tracks |-> J.tracks]
    BY DEF JavaRecs
  <2>2. QED
    BY <2>1 DEF Release
<1> HIDE DEF o, r
<1>6. Script("release", o) \in Scripts
  BY <1>1, ScriptType
<1>7. K \in JavaRecs
  <2>1. K.scripts \in Seq(Scripts)
    BY <1>1, <1>5, <1>6
  <2>2. QED
    BY <1>1, <1>2, <1>5, <2>1 DEF JavaRecs
<1>8. Counts(J, K, p, -1)
  BY <1>2, <1>3, <1>4, <1>5 DEF Counts, CountsOnly, o
<1>9. QED
  BY <1>1, <1>5, <1>7, <1>8 DEF o

LEMMA NewIs ==
  ASSUME NEW J \in JavaRecs, NEW o \in Objects, NEW ready \in {"live", "ended"},
         NEW K, K = New(J, o, ready)
  PROVE  /\ K \in JavaRecs /\ Grows(J, K, o, ready) /\ K.tracks = J.tracks
         /\ Registers(J, K, o, Len(J.proxies) + 1)
<1> DEFINE r == [of |-> o, count |-> 0, ready |-> ready]
           L == [J EXCEPT !.proxies = Append(@, r)]
           n == Len(J.proxies) + 1
<1>1. /\ Len(J.proxies) \in Nat /\ DOMAIN J.proxies = 1 .. Len(J.proxies)
      /\ J.proxies \in Seq(Proxy) /\ J.bound \in [Objects -> Nat] /\ J.scripts \in Seq(Scripts)
      /\ J.tracks \in [Streams -> Seq(Nat) \cup {None}]
  BY ProxiesAre
<1>2. r \in Proxy
  BY DEF Proxy
<1>3. /\ L.proxies = Append(J.proxies, r) /\ L.bound = J.bound /\ L.scripts = J.scripts
      /\ L.tracks = J.tracks /\ L \in JavaRecs
  <2>1. J = [proxies |-> J.proxies, bound |-> J.bound, scripts |-> J.scripts, tracks |-> J.tracks]
    BY DEF JavaRecs
  <2> DEFINE q == Append(J.proxies, r)
  <2>3. q \in Seq(Proxy) /\ L = [J EXCEPT !.proxies = q]
    BY <1>1, <1>2
  <2> HIDE DEF L, r, q
  <2>2. L = [proxies |-> q, bound |-> J.bound, scripts |-> J.scripts, tracks |-> J.tracks]
    BY <2>1, <2>3
  <2> USE DEF q
  <2>4. QED
    BY <1>1, <2>2, <2>3 DEF JavaRecs
<1>4. /\ Append(J.proxies, r) \in Seq(Proxy) /\ DOMAIN L.proxies = 1 .. n
      /\ L.proxies[n] = r /\ \A x \in DOMAIN J.proxies : L.proxies[x] = J.proxies[x] /\ x # n
  BY <1>1, <1>2, <1>3, AppendPlaces
<1>5. K = Retain(L, n) /\ n \in DOMAIN L.proxies /\ L.proxies[n].of = o
  BY <1>1, <1>2, <1>4 DEF New
<1> HIDE DEF L
<1>6. /\ K \in JavaRecs /\ Counts(L, K, n, 1) /\ K.tracks = L.tracks
      /\ Registers(L, K, o, n)
  BY <1>3, <1>5, RetainIs
<1>7. Grows(J, K, o, ready)
  <2>1. /\ DOMAIN K.proxies = 1 .. n /\ K.proxies[n].of = o /\ K.proxies[n].ready = ready
        /\ K.proxies[n].count = 0 + 1
    BY <1>4, <1>5, <1>6 DEF Counts, CountsOnly
  <2>2. K.proxies \in Seq(Proxy) /\ Len(K.proxies) = n /\ \A x \in DOMAIN K.proxies : K.proxies[x] \in Proxy
    BY <1>6, <2>1, ProxiesAre, ElementOfSeq
  <2>3. K.proxies[n] = [of |-> o, count |-> 1, ready |-> ready]
    BY <1>5, <1>4, <2>1, <2>2 DEF Proxy
  <2>4. ASSUME NEW x \in DOMAIN J.proxies PROVE x # n /\ K.proxies[x] = J.proxies[x]
    <3>1. x # n /\ x \in DOMAIN L.proxies /\ x \in DOMAIN K.proxies /\ L.proxies[x] = J.proxies[x]
      BY <1>1, <1>4, <2>1
    <3>2. /\ K.proxies[x].of = L.proxies[x].of /\ K.proxies[x].count = L.proxies[x].count
          /\ K.proxies[x].ready = L.proxies[x].ready
      BY <1>6, <3>1 DEF Counts, CountsOnly
    <3>3. K.proxies[x] \in Proxy /\ J.proxies[x] \in Proxy
      BY <1>1, <2>2, <3>1, ElementOfSeq
    <3>4. QED
      BY <3>1, <3>2, <3>3 DEF Proxy
  <2>5. QED
    BY <2>1, <2>3, <2>4 DEF Grows
<1>8. QED
  BY <1>3, <1>6, <1>7 DEF Registers

(***************************************************************************)
(* How the parts of Java's state fit together.                              *)
(***************************************************************************)
BoundRight(J) ==
  \A o \in Objects : J.bound[o] # 0 =>
    J.bound[o] \in DOMAIN J.proxies /\ J.proxies[J.bound[o]].of = o
AllBound(J) == \A p \in DOMAIN J.proxies : J.bound[J.proxies[p].of] # 0
Listed(J) ==
  \A s \in Streams :
    /\ J.bound[s] = 0 => J.tracks[s] = <<>>
    /\ J.tracks[s] # None => \A i \in DOMAIN J.tracks[s] :
         J.tracks[s][i] \in DOMAIN J.proxies /\ J.proxies[J.tracks[s][i]].of \in Tracks
Spoken(J, q) ==
  \A x \in Members(q) :
    /\ x.op = "retain" => J.bound[x.of] # 0
    /\ x.op = "addTrack" => J.bound[x.track] # 0
Wired(J) == BoundRight(J) /\ AllBound(J) /\ Listed(J) /\ Spoken(J, J.scripts)
Good(J)  == J \in JavaRecs /\ Wired(J)

\* What the page's count of an object has to be more than what it is.
Debt(J, o) ==
  UnderWay(J, "retain", o) - UnderWay(J, "release", o) - Owned(J, o)
    + (IF J.bound[o] # 0 THEN 1 ELSE 0)
Asks(J, r) == Times(J.scripts, Script("getUserMedia", r))

\* From J to K nothing is forgotten, objects of X may have become registered, and
\* Java owes the page what it owed.
Moves(J, K, X) ==
  /\ \A p \in DOMAIN J.proxies :
       /\ p \in DOMAIN K.proxies /\ K.proxies[p].of = J.proxies[p].of
       /\ J.proxies[p].ready = "ended" => K.proxies[p].ready = "ended"
  /\ \A o \in Objects :
       /\ J.bound[o] # 0 => K.bound[o] = J.bound[o]
       /\ K.bound[o] # 0 => J.bound[o] # 0 \/ o \in X
       /\ Debt(K, o) = Debt(J, o)
  /\ \A r \in Requests : Asks(K, r) = Asks(J, r)

LEMMA MovesOn ==
  ASSUME NEW J, NEW K, NEW L, NEW X, NEW Y, Moves(J, K, X), Moves(K, L, Y)
  PROVE  Moves(J, L, X \cup Y)
BY DEF Moves

LEMMA MovesNot == ASSUME NEW J, NEW X PROVE Moves(J, J, X)
BY DEF Moves

LEMMA MovesWider ==
  ASSUME NEW J, NEW K, NEW X, NEW Y, Moves(J, K, X), X \subseteq Y
  PROVE  Moves(J, K, Y)
BY DEF Moves

LEMMA UnderWayIs ==
  ASSUME NEW J, NEW op, NEW o
  PROVE  UnderWay(J, op, o) = Times(J.scripts, Script(op, o))
BY DEF UnderWay, Times, Places

LEMMA DebtType ==
  ASSUME NEW J \in JavaRecs, NEW o
  PROVE  /\ UnderWay(J, "retain", o) \in Nat /\ UnderWay(J, "release", o) \in Nat
         /\ Owned(J, o) \in Int /\ Debt(J, o) \in Int /\ Asks(J, o) \in Nat
<1>1. J.scripts \in Seq(Scripts) /\ J.proxies \in Seq(Proxy)
  BY ProxiesAre
<1>2. UnderWay(J, "retain", o) \in Nat /\ UnderWay(J, "release", o) \in Nat /\ Asks(J, o) \in Nat
  BY <1>1, UnderWayIs, TimesType DEF Asks
<1>3. Owned(J, o) \in Int
  BY <1>1, OwnedIsSum
<1>4. QED
  BY <1>2, <1>3 DEF Debt

\* One more script.
Tells(J, K, op, o) ==
  /\ \A x : UnderWay(K, op, x) = UnderWay(J, op, x) + (IF x = o THEN 1 ELSE 0)
  /\ \A x : \A other \in {"retain", "release"} : other # op => UnderWay(K, other, x) = UnderWay(J, other, x)
  /\ \A r : Asks(K, r) = Asks(J, r)
  /\ Members(K.scripts) = Members(J.scripts) \cup {Script(op, o)}

LEMMA ScriptCounts ==
  ASSUME NEW J \in JavaRecs, NEW K, NEW op \in {"retain", "release"}, NEW o \in Objects,
         K.scripts = Append(J.scripts, Script(op, o))
  PROVE  Tells(J, K, op, o)
<1>1. J.scripts \in Seq(Scripts) /\ Script(op, o) \in Scripts
  BY ProxiesAre, ScriptType
<1>2. ASSUME NEW x, NEW kind
      PROVE  Times(K.scripts, Script(kind, x))
               = Times(J.scripts, Script(kind, x)) + (IF Script(op, o) = Script(kind, x) THEN 1 ELSE 0)
  BY <1>1, TimesAppend
<1>3. ASSUME NEW x, NEW kind PROVE Script(op, o) = Script(kind, x) <=> op = kind /\ o = x
  BY DEF Script
<1>4. ASSUME NEW x, NEW kind PROVE Times(J.scripts, Script(kind, x)) \in Nat
  BY <1>1, TimesType
<1>5. ASSUME NEW x PROVE UnderWay(K, op, x) = UnderWay(J, op, x) + (IF x = o THEN 1 ELSE 0)
  BY <1>2, <1>3, UnderWayIs
<1>6. ASSUME NEW x, NEW other \in {"retain", "release"}, other # op
      PROVE  UnderWay(K, other, x) = UnderWay(J, other, x)
  <2>1. Script(op, o) # Script(other, x)
    BY <1>3, <1>6
  <2>2. Times(K.scripts, Script(other, x)) = Times(J.scripts, Script(other, x)) + 0
    BY <1>2, <2>1
  <2>3. Times(K.scripts, Script(other, x)) = Times(J.scripts, Script(other, x))
    BY <1>4, <2>2
  <2>4. QED
    BY <2>3, UnderWayIs
<1>7. ASSUME NEW r PROVE Asks(K, r) = Asks(J, r)
  <2>1. Script(op, o) # Script("getUserMedia", r)
    BY <1>3
  <2>2. Times(K.scripts, Script("getUserMedia", r)) = Times(J.scripts, Script("getUserMedia", r)) + 0
    BY <1>2, <2>1
  <2>3. QED
    BY <1>4, <2>2 DEF Asks
<1>8. Members(K.scripts) = Members(J.scripts) \cup {Script(op, o)}
  BY <1>1, AppendMembers
<1>9. QED
  BY <1>5, <1>6, <1>7, <1>8 DEF Tells

\* One proxy counted d more.
LEMMA CountsWired ==
  ASSUME NEW J \in JavaRecs, NEW K \in JavaRecs, NEW p \in DOMAIN J.proxies, NEW d \in Int,
         Wired(J), Counts(J, K, p, d), K.bound = J.bound, K.tracks = J.tracks,
         Spoken(J, K.scripts)
  PROVE  /\ Wired(K)
         /\ Owns(J, K, J.proxies[p].of, d)
<1>1. /\ DOMAIN K.proxies = DOMAIN J.proxies
      /\ \A x \in DOMAIN J.proxies : K.proxies[x].of = J.proxies[x].of
      /\ J.proxies \in Seq(Proxy) /\ K.proxies \in Seq(Proxy)
  BY ProxiesAre DEF Counts, CountsOnly
<1>2. BoundRight(K) /\ AllBound(K) /\ Listed(K)
  <2>1. BoundRight(K)
    BY <1>1 DEF Wired, BoundRight
  <2>2. AllBound(K)
    BY <1>1 DEF Wired, AllBound
  <2>3. Listed(K)
    BY <1>1 DEF Wired, Listed
  <2>4. QED
    BY <2>1, <2>2, <2>3
<1>3. Spoken(K, K.scripts)
  BY DEF Spoken
<1>4. Owns(J, K, J.proxies[p].of, d)
  BY <1>1, OwnedCount DEF Counts
<1>5. QED
  BY <1>2, <1>3, <1>4 DEF Wired

LEMMA RetainDoes ==
  ASSUME NEW J, Good(J), NEW p \in DOMAIN J.proxies, NEW K, K = Retain(J, p)
  PROVE  /\ Good(K) /\ Moves(J, K, {}) /\ Counts(J, K, p, 1) /\ K.tracks = J.tracks
         /\ K.bound = J.bound /\ Owns(J, K, J.proxies[p].of, 1)
<1> DEFINE o == J.proxies[p].of
<1>1. J \in JavaRecs /\ o \in Objects /\ J.bound[o] # 0
  BY ProxiesAre DEF Good, Wired, AllBound
<1>2. /\ K \in JavaRecs /\ Counts(J, K, p, 1) /\ K.tracks = J.tracks /\ K.bound = J.bound
      /\ K.scripts = Append(J.scripts, Script("retain", o))
  <2>1. /\ K \in JavaRecs /\ Counts(J, K, p, 1) /\ K.tracks = J.tracks
        /\ Registers(J, K, o, p)
    BY <1>1, RetainIs
  <2>2. QED
    BY <1>1, <2>1 DEF Registers
<1> HIDE DEF o
<1>3. Tells(J, K, "retain", o)
  BY <1>1, <1>2, ScriptCounts
<1>4. /\ \A x : UnderWay(K, "retain", x) = UnderWay(J, "retain", x) + (IF x = o THEN 1 ELSE 0)
      /\ \A x : UnderWay(K, "release", x) = UnderWay(J, "release", x)
      /\ \A r : Asks(K, r) = Asks(J, r)
      /\ Members(K.scripts) = Members(J.scripts) \cup {Script("retain", o)}
  BY <1>3 DEF Tells
<1>5. Spoken(J, K.scripts)
  BY <1>1, <1>4 DEF Good, Wired, Spoken, Script
<1>6. Wired(K) /\ Owns(J, K, o, 1)
  <2>1. 1 \in Int
    OBVIOUS
  <2>2. QED
    BY <1>1, <1>2, <1>5, <2>1, CountsWired DEF Good, o
<1>7. Moves(J, K, {})
  <2>1. ASSUME NEW x \in Objects PROVE Debt(K, x) = Debt(J, x)
    <3>1. /\ UnderWay(J, "retain", x) \in Int /\ UnderWay(J, "release", x) \in Int
          /\ Owned(J, x) \in Int
      BY <1>1, DebtType
    <3>2. CASE x = o
      <4>1. /\ UnderWay(K, "retain", x) = UnderWay(J, "retain", x) + 1
            /\ UnderWay(K, "release", x) = UnderWay(J, "release", x)
            /\ Owned(K, x) = Owned(J, x) + (1)
        BY <1>4, <1>6, <3>2 DEF Owns
      <4>2. QED
        BY <1>2, <3>1, <4>1 DEF Debt
    <3>3. CASE x # o
      <4>1. /\ UnderWay(K, "retain", x) = UnderWay(J, "retain", x) + 0
            /\ UnderWay(K, "release", x) = UnderWay(J, "release", x)
            /\ Owned(K, x) = Owned(J, x) + 0
        BY <1>4, <1>6, <3>3 DEF Owns
      <4>2. QED
        BY <1>2, <3>1, <4>1 DEF Debt
    <3>4. QED
      BY <3>2, <3>3
  <2>2. QED
    BY <1>2, <1>4, <2>1 DEF Moves, Counts, CountsOnly
<1>8. QED
  BY <1>2, <1>6, <1>7 DEF Good, o

LEMMA ReleaseDoes ==
  ASSUME NEW J, Good(J), NEW p \in DOMAIN J.proxies, NEW K, K = Release(J, p)
  PROVE  /\ Good(K) /\ Moves(J, K, {}) /\ Counts(J, K, p, -1) /\ K.tracks = J.tracks
         /\ K.bound = J.bound /\ Owns(J, K, J.proxies[p].of, -1)
<1> DEFINE o == J.proxies[p].of
<1>1. J \in JavaRecs /\ o \in Objects /\ J.bound[o] # 0
  BY ProxiesAre DEF Good, Wired, AllBound
<1>2. /\ K \in JavaRecs /\ Counts(J, K, p, -1) /\ K.tracks = J.tracks /\ K.bound = J.bound
      /\ K.scripts = Append(J.scripts, Script("release", o))
  BY <1>1, ReleaseIs DEF Registers
<1> HIDE DEF o
<1>3. Tells(J, K, "release", o)
  BY <1>1, <1>2, ScriptCounts
<1>4. /\ \A x : UnderWay(K, "release", x) = UnderWay(J, "release", x) + (IF x = o THEN 1 ELSE 0)
      /\ \A x : UnderWay(K, "retain", x) = UnderWay(J, "retain", x)
      /\ \A r : Asks(K, r) = Asks(J, r)
      /\ Members(K.scripts) = Members(J.scripts) \cup {Script("release", o)}
  BY <1>3 DEF Tells
<1>5. Spoken(J, K.scripts)
  BY <1>1, <1>4 DEF Good, Wired, Spoken, Script
<1>6. Wired(K) /\ Owns(J, K, o, -1)
  <2>1. -1 \in Int
    OBVIOUS
  <2>2. QED
    BY <1>1, <1>2, <1>5, <2>1, CountsWired DEF Good, o
<1>7. Moves(J, K, {})
  <2>1. ASSUME NEW x \in Objects PROVE Debt(K, x) = Debt(J, x)
    <3>1. /\ UnderWay(J, "retain", x) \in Int /\ UnderWay(J, "release", x) \in Int
          /\ Owned(J, x) \in Int
      BY <1>1, DebtType
    <3>2. CASE x = o
      <4>1. /\ UnderWay(K, "release", x) = UnderWay(J, "release", x) + 1
            /\ UnderWay(K, "retain", x) = UnderWay(J, "retain", x)
            /\ Owned(K, x) = Owned(J, x) + (-1)
        BY <1>4, <1>6, <3>2 DEF Owns
      <4>2. QED
        BY <1>2, <3>1, <4>1 DEF Debt
    <3>3. CASE x # o
      <4>1. /\ UnderWay(K, "release", x) = UnderWay(J, "release", x) + 0
            /\ UnderWay(K, "retain", x) = UnderWay(J, "retain", x)
            /\ Owned(K, x) = Owned(J, x) + 0
        BY <1>4, <1>6, <3>3 DEF Owns
      <4>2. QED
        BY <1>2, <3>1, <4>1 DEF Debt
    <3>4. QED
      BY <3>2, <3>3
  <2>2. QED
    BY <1>2, <1>4, <2>1 DEF Moves, Counts, CountsOnly
<1>8. QED
  BY <1>2, <1>6, <1>7 DEF Good, o

(***************************************************************************)
(* How new proxies and their lists of tracks are made.                     *)
(***************************************************************************)
LEMMA NewDoes ==
  ASSUME NEW J, Good(J), NEW o \in Objects, NEW ready \in {"live", "ended"}, NEW K,
         K = New(J, o, ready)
  PROVE  /\ Good(K) /\ Moves(J, K, {o}) /\ Grows(J, K, o, ready) /\ K.tracks = J.tracks
         /\ K.bound[o] # 0 /\ Owns(J, K, o, 1)
<1> DEFINE n == Len(J.proxies) + 1
<1>1. /\ J \in JavaRecs /\ Len(J.proxies) \in Nat /\ DOMAIN J.proxies = 1 .. Len(J.proxies)
      /\ \A p \in DOMAIN J.proxies : J.proxies[p].of \in Objects
      /\ J.bound \in [Objects -> Nat] /\ n \in Nat \ {0}
  BY ProxiesAre DEF Good
<1>2. /\ K \in JavaRecs /\ Grows(J, K, o, ready) /\ K.tracks = J.tracks /\ Registers(J, K, o, n)
  BY <1>1, NewIs
<1>3. /\ DOMAIN K.proxies = 1 .. n /\ K.proxies[n].of = o
      /\ \A x \in DOMAIN J.proxies : x \in DOMAIN K.proxies /\ x # n /\ K.proxies[x] = J.proxies[x]
      /\ \A x \in DOMAIN K.proxies : x \in DOMAIN J.proxies \/ x = n
  BY <1>1, <1>2 DEF Grows
<1>4. /\ K.bound[o] # 0 /\ (J.bound[o] = 0 => K.bound[o] = n) /\ (J.bound[o] # 0 => K.bound[o] = J.bound[o])
      /\ \A x \in Objects : x # o => K.bound[x] = J.bound[x]
  BY <1>1, <1>2 DEF Registers
<1>5. Owns(J, K, o, 1)
  BY <1>2, ProxiesAre, OwnedNew, <1>1
<1> HIDE DEF n
<1>6. Wired(K)
  <2>1. BoundRight(K)
    BY <1>1, <1>3, <1>4 DEF Good, Wired, BoundRight
  <2>2. AllBound(K)
    BY <1>1, <1>3, <1>4 DEF Good, Wired, AllBound
  <2>3. Listed(K)
    <3> SUFFICES ASSUME NEW s \in Streams
                 PROVE  /\ K.bound[s] = 0 => K.tracks[s] = <<>>
                        /\ K.tracks[s] # None => \A i \in DOMAIN K.tracks[s] :
                             K.tracks[s][i] \in DOMAIN K.proxies /\ K.proxies[K.tracks[s][i]].of \in Tracks
      BY DEF Listed
    <3>1. s \in Objects
      BY DEF Objects
    <3>2. K.bound[s] = 0 => J.bound[s] = 0
      BY <1>4, <3>1
    <3>3. QED
      BY <1>2, <1>3, <3>2 DEF Good, Wired, Listed
  <2>4. Spoken(K, K.scripts)
    <3>1. \A x \in Objects : J.bound[x] # 0 => K.bound[x] # 0
      BY <1>4
    <3>2. Members(K.scripts) \subseteq Members(J.scripts) \cup {Script("retain", o)}
      <4>1. CASE J.bound[o] = 0
        BY <1>2, <4>1 DEF Registers
      <4>2. CASE J.bound[o] # 0
        <5>1. Tells(J, K, "retain", o)
          BY <1>1, <1>2, <4>2, ScriptCounts DEF Registers
        <5>2. QED
          BY <5>1 DEF Tells
      <4>3. QED
        BY <4>1, <4>2
    <3>3. ASSUME NEW x \in Members(K.scripts)
          PROVE  (x.op = "retain" => K.bound[x.of] # 0) /\ (x.op = "addTrack" => K.bound[x.track] # 0)
      <4>1. CASE x \in Members(J.scripts)
        <5>1. x \in Scripts
          BY <4>1, <1>1, ProxiesAre, MembersType
        <5>2. /\ x.op = "retain" => x.of \in Objects /\ J.bound[x.of] # 0
              /\ x.op = "addTrack" => x.track \in Objects /\ J.bound[x.track] # 0
          BY <4>1, <5>1 DEF Scripts, Good, Wired, Spoken, Objects
        <5>3. QED
          BY <3>1, <5>2
      <4>2. CASE x = Script("retain", o)
        BY <1>4, <4>2 DEF Script
      <4>3. QED
        BY <3>2, <4>1, <4>2
    <3>4. QED
      BY <3>3 DEF Spoken
  <2>5. QED
    BY <2>1, <2>2, <2>3, <2>4 DEF Wired
<1>7. Moves(J, K, {o})
  <2>1. \A r \in Requests : Asks(K, r) = Asks(J, r)
    <3>1. CASE J.bound[o] = 0
      BY <1>2, <3>1 DEF Registers, Asks
    <3>2. CASE J.bound[o] # 0
      <4>1. Tells(J, K, "retain", o)
        BY <1>1, <1>2, <3>2, ScriptCounts DEF Registers
      <4>2. QED
        BY <4>1 DEF Tells
    <3>3. QED
      BY <3>1, <3>2
  <2>2. ASSUME NEW x \in Objects PROVE Debt(K, x) = Debt(J, x)
    <3>1. /\ UnderWay(J, "retain", x) \in Int /\ UnderWay(J, "release", x) \in Int
          /\ Owned(J, x) \in Int
      BY <1>1, DebtType
    <3>2. CASE x # o
      <4>1. Owned(K, x) = Owned(J, x) + 0
        BY <1>5, <3>2 DEF Owns
      <4>2. /\ UnderWay(K, "retain", x) = UnderWay(J, "retain", x) + 0
            /\ UnderWay(K, "release", x) = UnderWay(J, "release", x)
        <5>1. CASE J.bound[o] = 0
          BY <1>2, <3>1, <5>1, UnderWayIs DEF Registers
        <5>2. CASE J.bound[o] # 0
          BY <1>1, <1>2, <3>2, <5>2, ScriptCounts DEF Registers, Tells
        <5>3. QED
          BY <5>1, <5>2
      <4>3. QED
        BY <1>4, <3>1, <3>2, <4>1, <4>2 DEF Debt
    <3>3. CASE x = o
      <4>1. Owned(K, x) = Owned(J, x) + 1
        BY <1>5, <3>3 DEF Owns
      <4>2. CASE J.bound[o] = 0
        <5>1. /\ UnderWay(K, "retain", x) = UnderWay(J, "retain", x)
              /\ UnderWay(K, "release", x) = UnderWay(J, "release", x)
          BY <1>2, <4>2, UnderWayIs DEF Registers
        <5>2. QED
          BY <1>4, <3>1, <3>3, <4>1, <4>2, <5>1 DEF Debt
      <4>3. CASE J.bound[o] # 0
        <5>1. /\ UnderWay(K, "retain", x) = UnderWay(J, "retain", x) + 1
              /\ UnderWay(K, "release", x) = UnderWay(J, "release", x)
          BY <1>1, <1>2, <3>3, <4>3, ScriptCounts DEF Registers, Tells
        <5>2. QED
          BY <1>4, <3>1, <3>3, <4>1, <4>3, <5>1 DEF Debt
      <4>4. QED
        BY <4>2, <4>3
    <3>4. QED
      BY <3>2, <3>3
  <2>3. QED
    BY <1>3, <1>4, <2>1, <2>2 DEF Moves
<1>8. QED
  BY <1>2, <1>4, <1>5, <1>6, <1>7 DEF Good

(***************************************************************************)
(* Sets as sequences.                                                       *)
(***************************************************************************)
LEMMA SequenceOf ==
  ASSUME NEW S, IsFiniteSet(S)
  PROVE  SetToSeq(S) \in Seq(S) /\ Members(SetToSeq(S)) = S
<1> DEFINE n == Cardinality(S)
           q == SetToSeq(S)
<1>1. n \in Nat /\ ExistsBijection(1 .. n, S)
  BY FS_CardinalityType
<1>2. \E f \in [1 .. n -> S] : IsInjective(f)
  BY <1>1 DEF ExistsBijection, Bijection, Injection
<1>3. q \in [1 .. n -> S] /\ IsInjective(q)
  BY <1>2 DEF SetToSeq
<1> HIDE DEF q, n
<1>4. q \in Injection(1 .. n, S)
  BY <1>3 DEF Injection
<1>5. IsFiniteSet(1 .. n) /\ Cardinality(1 .. n) = n
  BY <1>1, FS_Interval
<1>6. q \in Surjection(1 .. n, S)
  BY <1>4, <1>5, FS_Injection DEF n
<1>7. q \in Seq(S) /\ DOMAIN q = 1 .. n
  BY <1>1, <1>3
<1>8. Members(q) = S
  BY <1>6, <1>7 DEF Surjection, Members
<1>9. QED
  BY <1>7, <1>8 DEF q

LEMMA StreamsFinite == IsFiniteSet(Streams)
<1> DEFINE L == {LocalStream(r) : r \in Requests}
           f == [r \in Requests |-> LocalStream(r)]
<1>1. IsFiniteSet(Requests) /\ IsFiniteSet(RemoteStreams)
  BY MediaAssumption
<1>2. f \in Surjection(Requests, L)
  BY DEF Surjection
<1>3. IsFiniteSet(L)
  <2> HIDE DEF f, L
  <2> QED
    BY <1>1, <1>2, FS_Surjection
<1>4. QED
  BY <1>1, <1>3, FS_Union DEF Streams

(***************************************************************************)
(* The lists of tracks.                                                     *)
(***************************************************************************)
\* Where a proxy is listed, and how often in one list.
Spots(J, p) ==
  {x \in Streams \X Nat : /\ J.tracks[x[1]] # None /\ x[2] \in DOMAIN J.tracks[x[1]]
                          /\ J.tracks[x[1]][x[2]] = p}
Entries(J, p) == Cardinality(Spots(J, p))
Elsewhere(J, p, s) == {x \in Spots(J, p) : x[1] # s}
InList(q, p)  == IF q = None THEN 0 ELSE Times(q, p)

LEMMA EntriesSplit ==
  ASSUME NEW J, NEW p, NEW s \in Streams, J.tracks[s] \in Seq(Nat) \cup {None},
         IsFiniteSet(Elsewhere(J, p, s))
  PROVE  /\ IsFiniteSet(Spots(J, p)) /\ InList(J.tracks[s], p) \in Nat
         /\ Entries(J, p) = Cardinality(Elsewhere(J, p, s)) + InList(J.tracks[s], p)
<1> DEFINE q == J.tracks[s]
           A == Elsewhere(J, p, s)
           B == {x \in Spots(J, p) : x[1] = s}
<1>1. A \cup B = Spots(J, p) /\ A \cap B = {}
  BY DEF Elsewhere
<1>2. IsFiniteSet(B) /\ Cardinality(B) = InList(q, p) /\ InList(q, p) \in Nat
  <2>1. CASE q = None
    <3>1. B = {}
      BY <2>1 DEF Spots
    <3>2. QED
      BY <2>1, <3>1, FS_EmptySet DEF InList
  <2>2. CASE q # None
    <3> DEFINE f == [i \in Places(q, p) |-> <<s, i>>]
    <3>1. q \in Seq(Nat) /\ IsFiniteSet(Places(q, p)) /\ Times(q, p) \in Nat
      BY <2>2, TimesType
    <3>2. DOMAIN q \subseteq Nat
      BY <3>1, LenProperties
    <3>3. \A i \in Places(q, p) : <<s, i>> \in B
      BY <2>2, <3>2 DEF Places, Spots
    <3>4. \A x \in B : x = <<s, x[2]>> /\ x[2] \in Places(q, p)
      BY DEF Places, Spots
    <3> HIDE DEF B, q
    <3>5. f \in [Places(q, p) -> B] /\ \A x \in B : \E i \in Places(q, p) : f[i] = x
      BY <3>3, <3>4
    <3>6. \A i, j \in Places(q, p) : f[i] = f[j] => i = j
      OBVIOUS
    <3> HIDE DEF f
    <3>7. f \in Bijection(Places(q, p), B)
      BY <3>5, <3>6 DEF Bijection, Injection, Surjection, IsInjective
    <3>8. IsFiniteSet(B) /\ Cardinality(B) = Cardinality(Places(q, p))
      BY <3>1, <3>7, FS_Bijection DEF ExistsBijection
    <3>9. QED
      BY <2>2, <3>1, <3>8 DEF InList, Times
  <2>3. QED
    BY <2>1, <2>2
<1> HIDE DEF A, B, q
<1>3. IsFiniteSet(A)
  BY DEF A
<1>4. IsFiniteSet(A \cup B) /\ Cardinality(A \cup B) = Cardinality(A) + Cardinality(B) - Cardinality(A \cap B)
  BY <1>2, <1>3, FS_Union
<1>5. Cardinality(A \cap B) = 0 /\ Cardinality(A) \in Nat
  BY <1>1, <1>3, FS_EmptySet, FS_CardinalityType
<1>6. IsFiniteSet(Spots(J, p)) /\ Cardinality(Spots(J, p)) = Cardinality(A) + InList(q, p)
  <2>1. IsFiniteSet(Spots(J, p))
           /\ Cardinality(Spots(J, p)) = Cardinality(A) + Cardinality(B) - Cardinality(A \cap B)
    BY <1>1, <1>4, Zenon
  <2>2. QED
    BY <1>2, <1>5, <2>1
<1>7. QED
  BY <1>2, <1>6 DEF Entries, A, q

\* At most one list changes.
Relisted(J, K, s) == \A x \in Streams : x # s => K.tracks[x] = J.tracks[x]

LEMMA EntriesChange ==
  ASSUME NEW J, NEW K, NEW p, NEW s \in Streams, J.tracks[s] \in Seq(Nat) \cup {None},
         K.tracks[s] \in Seq(Nat) \cup {None}, Relisted(J, K, s),
         IsFiniteSet(Spots(J, p))
  PROVE  /\ IsFiniteSet(Spots(K, p)) /\ Entries(J, p) \in Nat /\ Entries(K, p) \in Nat
         /\ InList(J.tracks[s], p) \in Nat /\ InList(K.tracks[s], p) \in Nat
         /\ Entries(K, p) = Entries(J, p) + InList(K.tracks[s], p) - InList(J.tracks[s], p)
<1> DEFINE A == Elsewhere(J, p, s)
           B == Elsewhere(K, p, s)
<1>1. A = B
  BY DEF Spots, Elsewhere, Relisted
<1>2. A \subseteq Spots(J, p)
  BY DEF Elsewhere
<1>3. IsFiniteSet(A) /\ IsFiniteSet(B)
  <2> HIDE DEF A, B
  <2> QED
    BY <1>1, <1>2, FS_Subset
<1>4. Cardinality(A) \in Nat
  BY <1>3, FS_CardinalityType
<1>5. /\ InList(J.tracks[s], p) \in Nat
      /\ Entries(J, p) = Cardinality(A) + InList(J.tracks[s], p)
  BY <1>3, EntriesSplit
<1>6. /\ IsFiniteSet(Spots(K, p)) /\ InList(K.tracks[s], p) \in Nat
      /\ Entries(K, p) = Cardinality(B) + InList(K.tracks[s], p)
  BY <1>3, EntriesSplit
<1> HIDE DEF A, B
<1>7. QED
  BY <1>1, <1>4, <1>5, <1>6

(***************************************************************************)
(* Counts and lists together.                                              *)
(***************************************************************************)
\* What is listed is counted: twice for each place, as long as the track lives.
Live(J, p) == J.proxies[p].of \in Tracks /\ J.proxies[p].ready = "live"
Backed(J, p) ==
  IsFiniteSet(Spots(J, p)) /\ (Live(J, p) => 2 * Entries(J, p) <= J.proxies[p].count)
Counted(J) == \A p \in DOMAIN J.proxies : Backed(J, p)
Sound(J)   == Good(J) /\ Counted(J)

\* From J to K as Moves says, and Java owns the same of the events.
Goes(J, K, X) == Moves(J, K, X) /\ \A e \in Events : Owned(K, e) = Owned(J, e)

LEMMA GoesOn ==
  ASSUME NEW J, NEW K, NEW L, NEW X, NEW Y, Goes(J, K, X), Goes(K, L, Y)
  PROVE  Goes(J, L, X \cup Y)
BY MovesOn DEF Goes

LEMMA GoesNot == ASSUME NEW J, NEW X PROVE Goes(J, J, X)
BY MovesNot DEF Goes

LEMMA GoesWider ==
  ASSUME NEW J, NEW K, NEW X, NEW Y, Goes(J, K, X), X \subseteq Y
  PROVE  Goes(J, K, Y)
BY MovesWider DEF Goes

OwnsSame(J, K) == \A o : Owned(K, o) = Owned(J, o)

LEMMA OwnedSame ==
  ASSUME NEW J, NEW K, K.proxies = J.proxies
  PROVE  \A o : Owned(K, o) = Owned(J, o)
BY DEF Owned

LEMMA SpotsSame ==
  ASSUME NEW J, NEW K, K.tracks = J.tracks, NEW p
  PROVE  Spots(K, p) = Spots(J, p) /\ Entries(K, p) = Entries(J, p)
BY DEF Spots, Entries

LEMMA EntriesType ==
  ASSUME NEW J, NEW p, IsFiniteSet(Spots(J, p))
  PROVE  Entries(J, p) \in Nat
BY FS_CardinalityType DEF Entries

LEMMA OwnsOther ==
  ASSUME NEW J, Good(J), NEW K, NEW o, o \notin Events, NEW d, Owns(J, K, o, d)
  PROVE  \A e \in Events : Owned(K, e) = Owned(J, e)
<1>1. \A e \in Events : Owned(J, e) \in Int
  BY DebtType DEF Good
<1>2. \A e \in Events : Owned(K, e) = Owned(J, e) + 0
  BY DEF Owns
<1>3. QED
  BY <1>1, <1>2

\* One count changes, no list.
LEMMA BackedStill ==
  ASSUME NEW J, Sound(J), NEW K, NEW p \in DOMAIN J.proxies, NEW d \in Int, Counts(J, K, p, d),
         K.tracks = J.tracks, d >= 0 \/ ~ Live(J, p)
  PROVE  Counted(K)
<1> SUFFICES ASSUME NEW x \in DOMAIN J.proxies PROVE Backed(K, x)
  BY DEF Counts, CountsOnly, Counted
<1>1. IsFiniteSet(Spots(J, x)) /\ (Live(J, x) => 2 * Entries(J, x) <= J.proxies[x].count)
  BY DEF Sound, Counted, Backed
<1>2. IsFiniteSet(Spots(K, x)) /\ Entries(K, x) = Entries(J, x) /\ Entries(J, x) \in Nat
  BY <1>1, SpotsSame, EntriesType
<1>3. (Live(K, x) <=> Live(J, x)) /\ J.proxies[x].count \in Int
  BY ProxiesAre DEF Counts, CountsOnly, Live, Sound, Good
<1>4. CASE x = p
  <2>1. K.proxies[x].count = J.proxies[x].count + d
    BY <1>4 DEF Counts, CountsOnly
  <2>2. QED
    BY <1>1, <1>2, <1>3, <1>4, <2>1 DEF Backed
<1>5. CASE x # p
  <2>1. K.proxies[x].count = J.proxies[x].count
    BY <1>5 DEF Counts, CountsOnly
  <2>2. QED
    BY <1>1, <1>2, <1>3, <2>1 DEF Backed
<1>6. QED
  BY <1>4, <1>5

LEMMA RetainGoes ==
  ASSUME NEW J, Sound(J), NEW p \in DOMAIN J.proxies, NEW K, K = Retain(J, p),
         J.proxies[p].of \notin Events
  PROVE  /\ Sound(K) /\ Goes(J, K, {}) /\ Counts(J, K, p, 1) /\ K.tracks = J.tracks
         /\ K.bound = J.bound
<1>1. /\ Good(K) /\ Moves(J, K, {}) /\ Counts(J, K, p, 1) /\ K.tracks = J.tracks
      /\ K.bound = J.bound /\ Owns(J, K, J.proxies[p].of, 1)
  BY RetainDoes DEF Sound
<1>2. 1 \in Int /\ 1 >= 0
  OBVIOUS
<1>3. Counted(K)
  BY <1>1, <1>2, BackedStill
<1>4. \A e \in Events : Owned(K, e) = Owned(J, e)
  BY <1>1, OwnsOther DEF Sound
<1>5. QED
  BY <1>1, <1>3, <1>4 DEF Sound, Goes

LEMMA ReleaseGoes ==
  ASSUME NEW J, Sound(J), NEW p \in DOMAIN J.proxies, NEW K, K = Release(J, p),
         J.proxies[p].of \notin Events, ~ Live(J, p)
  PROVE  /\ Sound(K) /\ Goes(J, K, {}) /\ Counts(J, K, p, -1) /\ K.tracks = J.tracks
         /\ K.bound = J.bound
<1>1. /\ Good(K) /\ Moves(J, K, {}) /\ Counts(J, K, p, -1) /\ K.tracks = J.tracks
      /\ K.bound = J.bound /\ Owns(J, K, J.proxies[p].of, -1)
  BY ReleaseDoes DEF Sound
<1>2. -1 \in Int
  OBVIOUS
<1>3. Counted(K)
  BY <1>1, <1>2, BackedStill
<1>4. \A e \in Events : Owned(K, e) = Owned(J, e)
  BY <1>1, OwnsOther DEF Sound
<1>5. QED
  BY <1>1, <1>3, <1>4 DEF Sound, Goes

LEMMA NewSound ==
  ASSUME NEW J, Sound(J), NEW o \in Objects, NEW ready \in {"live", "ended"}, NEW K,
         K = New(J, o, ready)
  PROVE  Sound(K) /\ Entries(K, Newest(K)) = 0
<1> DEFINE n == Len(J.proxies) + 1
<1>1. Good(K) /\ Grows(J, K, o, ready) /\ K.tracks = J.tracks
  BY NewDoes DEF Sound
<1>2. /\ DOMAIN K.proxies = 1 .. n /\ K.proxies[n].of = o /\ K.proxies[n].count = 1
      /\ \A x \in DOMAIN J.proxies : x # n /\ K.proxies[x] = J.proxies[x]
      /\ Len(J.proxies) \in Nat /\ DOMAIN J.proxies = 1 .. Len(J.proxies)
      /\ Newest(K) = n
  BY <1>1, ProxiesAre DEF Grows, Sound, Good, Newest
<1>3. Spots(J, n) = {}
  <2>1. n \notin DOMAIN J.proxies
    BY <1>2
  <2>2. ASSUME NEW x \in Spots(J, n) PROVE n \in DOMAIN J.proxies
    <3>1. x[1] \in Streams /\ J.tracks[x[1]] # None /\ x[2] \in DOMAIN J.tracks[x[1]]
          /\ J.tracks[x[1]][x[2]] = n
      BY DEF Spots
    <3>2. QED
      BY <3>1 DEF Sound, Good, Wired, Listed
  <2>3. QED
    BY <2>1, <2>2
<1>4. IsFiniteSet(Spots(K, n)) /\ Entries(K, n) = 0
  BY <1>1, <1>3, SpotsSame, FS_EmptySet DEF Entries
<1>5. Backed(K, n)
  BY <1>2, <1>4 DEF Backed
<1>6. ASSUME NEW x \in DOMAIN J.proxies PROVE Backed(K, x)
  <2>1. Backed(J, x) /\ K.proxies[x] = J.proxies[x]
    BY <1>2 DEF Sound, Counted
  <2>2. QED
    BY <1>1, <2>1, SpotsSame DEF Backed, Live
<1>7. Counted(K)
  BY <1>2, <1>5, <1>6 DEF Counted
<1>8. QED
  BY <1>1, <1>2, <1>4, <1>7 DEF Sound

NewestIs(K, o, ready) ==
  Newest(K) \in DOMAIN K.proxies /\ Entries(K, Newest(K)) = 0 /\ K.proxies[Newest(K)] = [of |-> o, count |-> 1, ready |-> ready]

LEMMA NewGoes ==
  ASSUME NEW J, Sound(J), NEW o \in Objects, o \notin Events, NEW ready \in {"live", "ended"},
         NEW K, K = New(J, o, ready)
  PROVE  /\ Sound(K) /\ Goes(J, K, {o}) /\ K.tracks = J.tracks /\ K.bound[o] # 0
         /\ NewestIs(K, o, ready)
<1>1. /\ Good(K) /\ Moves(J, K, {o}) /\ Grows(J, K, o, ready) /\ K.tracks = J.tracks
      /\ K.bound[o] # 0 /\ Owns(J, K, o, 1)
  BY NewDoes DEF Sound
<1>2. Sound(K) /\ Entries(K, Newest(K)) = 0
  BY NewSound
<1>3. \A e \in Events : Owned(K, e) = Owned(J, e)
  BY <1>1, OwnsOther DEF Sound
<1>4. Len(J.proxies) \in Nat /\ Len(K.proxies) \in Nat /\ DOMAIN K.proxies = 1 .. Len(K.proxies)
      /\ DOMAIN K.proxies = 1 .. Len(J.proxies) + 1
  BY <1>1, ProxiesAre DEF Sound, Good, Grows
<1>5. Newest(K) = Len(J.proxies) + 1 /\ Newest(K) \in DOMAIN K.proxies
  BY <1>4 DEF Newest
<1>6. K.proxies[Newest(K)] = [of |-> o, count |-> 1, ready |-> ready]
  BY <1>1, <1>5 DEF Grows
<1>7. QED
  BY <1>1, <1>2, <1>3, <1>5, <1>6 DEF Goes, NewestIs

\* A list is replaced.
MayList(J, q) ==
  q # None => \A i \in DOMAIN q : q[i] \in DOMAIN J.proxies /\ J.proxies[q[i]].of \in Tracks

SetList(J, s, q) == [J EXCEPT !.tracks[s] = q]

LEMMA Relist ==
  ASSUME NEW J, Good(J), NEW s \in Streams, J.bound[s] # 0, NEW q \in Seq(Nat) \cup {None},
         MayList(J, q), NEW K, K = SetList(J, s, q)
  PROVE  /\ Good(K) /\ Moves(J, K, {}) /\ OwnsSame(J, K)
         /\ K.proxies = J.proxies /\ K.bound = J.bound /\ K.scripts = J.scripts
         /\ K.tracks[s] = q /\ Relisted(J, K, s)
<1>1. /\ J.tracks \in [Streams -> Seq(Nat) \cup {None}]
      /\ J = [proxies |-> J.proxies, bound |-> J.bound, scripts |-> J.scripts, tracks |-> J.tracks]
  BY ProxiesAre DEF JavaRecs, Good
<1>2. /\ K.proxies = J.proxies /\ K.bound = J.bound /\ K.scripts = J.scripts
      /\ K.tracks = [J.tracks EXCEPT ![s] = q]
      /\ K = [proxies |-> K.proxies, bound |-> K.bound, scripts |-> K.scripts, tracks |-> K.tracks]
  BY <1>1 DEF SetList
<1>3. /\ K.tracks \in [Streams -> Seq(Nat) \cup {None}] /\ K.tracks[s] = q
      /\ \A x \in Streams : x # s => K.tracks[x] = J.tracks[x]
  BY <1>1, <1>2
<1>4. K \in JavaRecs
  BY <1>2, <1>3, ProxiesAre DEF JavaRecs, Good
<1>5. \A o : Owned(K, o) = Owned(J, o)
  <2>1. K.proxies = J.proxies
    BY <1>2
  <2>2. QED
    BY <2>1, OwnedSame, Zenon
<1>6. Wired(K)
  <2>1. BoundRight(K) /\ AllBound(K)
    BY <1>2 DEF Good, Wired, BoundRight, AllBound
  <2>2. Spoken(K, K.scripts)
    BY <1>2 DEF Good, Wired, Spoken
  <2>3. Listed(K)
    <3> SUFFICES ASSUME NEW x \in Streams
                 PROVE  /\ K.bound[x] = 0 => K.tracks[x] = <<>>
                        /\ K.tracks[x] # None => \A i \in DOMAIN K.tracks[x] :
                             K.tracks[x][i] \in DOMAIN K.proxies /\ K.proxies[K.tracks[x][i]].of \in Tracks
      BY DEF Listed
    <3>1. CASE x = s
      BY <1>2, <1>3, <3>1 DEF MayList
    <3>2. CASE x # s
      <4>1. K.tracks[x] = J.tracks[x]
        BY <1>3, <3>2
      <4>2. QED
        BY <1>2, <4>1 DEF Good, Wired, Listed
    <3>3. QED
      BY <3>1, <3>2
  <2>4. QED
    BY <2>1, <2>2, <2>3 DEF Wired
<1>7. Moves(J, K, {})
  <2>1. ASSUME NEW o PROVE Debt(K, o) = Debt(J, o) /\ Asks(K, o) = Asks(J, o)
    BY <1>2, <1>5, UnderWayIs DEF Debt, Asks
  <2>2. QED
    BY <1>2, <2>1 DEF Moves
<1>8. QED
  BY <1>2, <1>3, <1>4, <1>5, <1>6, <1>7 DEF Good, Relisted, OwnsSame

\* More scripts, none of them about counts.
Said(J, q) == [J EXCEPT !.scripts = @ \o q]

LEMMA Say ==
  ASSUME NEW J, Good(J), NEW q \in Seq(Scripts), Spoken(J, q),
         \A x \in Members(q) : x.op \notin {"retain", "release", "getUserMedia"},
         NEW K, K = Said(J, q)
  PROVE  /\ Good(K) /\ Moves(J, K, {}) /\ OwnsSame(J, K)
         /\ K.proxies = J.proxies /\ K.bound = J.bound /\ K.tracks = J.tracks
<1>1. /\ J.scripts \in Seq(Scripts)
      /\ J = [proxies |-> J.proxies, bound |-> J.bound, scripts |-> J.scripts, tracks |-> J.tracks]
  BY ProxiesAre DEF JavaRecs, Good
<1>2. /\ K.proxies = J.proxies /\ K.bound = J.bound /\ K.tracks = J.tracks
      /\ K.scripts = J.scripts \o q
      /\ K = [proxies |-> K.proxies, bound |-> K.bound, scripts |-> K.scripts, tracks |-> K.tracks]
  BY <1>1 DEF Said
<1>3. K.scripts \in Seq(Scripts) /\ Members(K.scripts) = Members(J.scripts) \cup Members(q)
  BY <1>1, <1>2, ConcatMembers
<1>4. K \in JavaRecs
  BY <1>2, <1>3, ProxiesAre DEF JavaRecs, Good
<1>5. \A o : Owned(K, o) = Owned(J, o)
  <2>1. K.proxies = J.proxies
    BY <1>2
  <2>2. QED
    BY <2>1, OwnedSame, Zenon
<1>6. Wired(K)
  <2>1. BoundRight(K) /\ AllBound(K)
    BY <1>2 DEF Good, Wired, BoundRight, AllBound
  <2>2. Spoken(K, K.scripts)
    BY <1>2, <1>3 DEF Good, Wired, Spoken
  <2>3. Listed(K)
    BY <1>2 DEF Good, Wired, Listed
  <2>4. QED
    BY <2>1, <2>2, <2>3 DEF Wired
<1>7. Moves(J, K, {})
  <2>1. ASSUME NEW op \in {"retain", "release", "getUserMedia"}, NEW o
        PROVE  Times(K.scripts, Script(op, o)) = Times(J.scripts, Script(op, o))
    <3>1. Script(op, o) \notin Members(q)
      BY DEF Script
    <3>2. Times(q, Script(op, o)) = 0
      BY <3>1, TimesNone
    <3>3. Times(K.scripts, Script(op, o)) = Times(J.scripts, Script(op, o)) + Times(q, Script(op, o))
      BY <1>1, <1>2, TimesConcat
    <3>4. Times(J.scripts, Script(op, o)) \in Nat
      BY <1>1, TimesType
    <3>5. QED
      BY <3>2, <3>3, <3>4
  <2>2. ASSUME NEW o PROVE Debt(K, o) = Debt(J, o) /\ Asks(K, o) = Asks(J, o)
    BY <1>2, <1>5, <2>1, UnderWayIs DEF Debt, Asks
  <2>3. QED
    BY <1>2, <2>2 DEF Moves
<1>8. QED
  BY <1>2, <1>4, <1>5, <1>6, <1>7 DEF Good, OwnsSame

(***************************************************************************)
(* The folds of Media, one lemma for each.                                 *)
(***************************************************************************)
LEMMA FoldRetain ==
  ASSUME NEW n \in Nat, NEW q, DOMAIN q = 1 .. n, NEW U, NEW P, NEW J \in P[0],
         \A i \in 0 .. n : P[i] \subseteq U,
         \A K \in U, i \in 1 .. n : Retain(K, q[i]) \in U,
         \A i \in 1 .. n : \A K \in P[i - 1] : Retain(K, q[i]) \in P[i]
  PROVE  FoldLeft(Retain, J, q) \in P[n]
<1> DEFINE step == [x \in U \X (1 .. n) |-> Retain(x[1], q[x[2]])]
           Eq(g) == g = [s \in SUBSET DOMAIN q |->
                           IF s = {} THEN J ELSE Retain(g[s \ {Max(s)}], q[Max(s)])]
           f == CHOOSE g : Eq(g)
<1>1. J \in U /\ step \in [U \X (1 .. n) -> U]
  OBVIOUS
<1> HIDE DEF step
<1>2. PICK g : IsFold(g, n, U, J, step)
  BY <1>1, FoldExists
<1>3. ASSUME NEW s \in SUBSET (1 .. n), s # {}
      PROVE  step[<<g[s \ {Max(s)}], Max(s)>>] = Retain(g[s \ {Max(s)}], q[Max(s)])
  BY <1>2, <1>3, MaxOfPositions DEF step, IsFold
<1>4. Eq(g)
  BY <1>2, <1>3 DEF IsFold
<1>5. Eq(f)
  <2> HIDE DEF Eq
  <2> QED
    BY <1>4
<1>6. FoldLeft(Retain, J, q) = f[1 .. n]
  BY Zenon DEF FoldLeft, MapThenFoldSet
<1> HIDE DEF f
<1>7. f[{}] = J
  BY <1>5
<1>8. ASSUME NEW i \in 1 .. n PROVE f[1 .. i] = Retain(f[1 .. i - 1], q[i])
  <2>1. /\ 1 .. i \in SUBSET DOMAIN q /\ 1 .. i # {}
        /\ Max(1 .. i) = i /\ (1 .. i) \ {i} = 1 .. i - 1
    BY MaxOfFirst
  <2>2. f[1 .. i] = IF 1 .. i = {} THEN J
                    ELSE Retain(f[(1 .. i) \ {Max(1 .. i)}], q[Max(1 .. i)])
    BY <1>5, <2>1
  <2>3. QED
    BY <2>1, <2>2
<1>9. \A i \in 1 .. n : f[1 .. i - 1] \in P[i - 1] => f[1 .. i] \in P[i]
  BY <1>8
<1>10. QED
  BY <1>6, <1>7, <1>9, FoldReaches

LEMMA FoldRelease ==
  ASSUME NEW n \in Nat, NEW q, DOMAIN q = 1 .. n, NEW U, NEW P, NEW J \in P[0],
         \A i \in 0 .. n : P[i] \subseteq U,
         \A K \in U, i \in 1 .. n : Release(K, q[i]) \in U,
         \A i \in 1 .. n : \A K \in P[i - 1] : Release(K, q[i]) \in P[i]
  PROVE  FoldLeft(Release, J, q) \in P[n]
<1> DEFINE step == [x \in U \X (1 .. n) |-> Release(x[1], q[x[2]])]
           Eq(g) == g = [s \in SUBSET DOMAIN q |->
                           IF s = {} THEN J ELSE Release(g[s \ {Max(s)}], q[Max(s)])]
           f == CHOOSE g : Eq(g)
<1>1. J \in U /\ step \in [U \X (1 .. n) -> U]
  OBVIOUS
<1> HIDE DEF step
<1>2. PICK g : IsFold(g, n, U, J, step)
  BY <1>1, FoldExists
<1>3. ASSUME NEW s \in SUBSET (1 .. n), s # {}
      PROVE  step[<<g[s \ {Max(s)}], Max(s)>>] = Release(g[s \ {Max(s)}], q[Max(s)])
  BY <1>2, <1>3, MaxOfPositions DEF step, IsFold
<1>4. Eq(g)
  BY <1>2, <1>3 DEF IsFold
<1>5. Eq(f)
  <2> HIDE DEF Eq
  <2> QED
    BY <1>4
<1>6. FoldLeft(Release, J, q) = f[1 .. n]
  BY Zenon DEF FoldLeft, MapThenFoldSet
<1> HIDE DEF f
<1>7. f[{}] = J
  BY <1>5
<1>8. ASSUME NEW i \in 1 .. n PROVE f[1 .. i] = Release(f[1 .. i - 1], q[i])
  <2>1. /\ 1 .. i \in SUBSET DOMAIN q /\ 1 .. i # {}
        /\ Max(1 .. i) = i /\ (1 .. i) \ {i} = 1 .. i - 1
    BY MaxOfFirst
  <2>2. f[1 .. i] = IF 1 .. i = {} THEN J
                    ELSE Release(f[(1 .. i) \ {Max(1 .. i)}], q[Max(1 .. i)])
    BY <1>5, <2>1
  <2>3. QED
    BY <2>1, <2>2
<1>9. \A i \in 1 .. n : f[1 .. i - 1] \in P[i - 1] => f[1 .. i] \in P[i]
  BY <1>8
<1>10. QED
  BY <1>6, <1>7, <1>9, FoldReaches

AddAll(J, s, q) == FoldLeft(LAMBDA K, t : AddNewTrack(K, s, t), J, q)

LEMMA FoldAddNewTrack ==
  ASSUME NEW n \in Nat, NEW s, NEW q, DOMAIN q = 1 .. n, NEW U, NEW P, NEW J \in P[0],
         \A i \in 0 .. n : P[i] \subseteq U,
         \A K \in U, i \in 1 .. n : AddNewTrack(K, s, q[i]) \in U,
         \A i \in 1 .. n : \A K \in P[i - 1] : AddNewTrack(K, s, q[i]) \in P[i]
  PROVE  AddAll(J, s, q) \in P[n]
<1> DEFINE step == [x \in U \X (1 .. n) |-> AddNewTrack(x[1], s, q[x[2]])]
           Eq(g) == g = [w \in SUBSET DOMAIN q |->
                           IF w = {} THEN J ELSE AddNewTrack(g[w \ {Max(w)}], s, q[Max(w)])]
           f == CHOOSE g : Eq(g)
<1>1. J \in U /\ step \in [U \X (1 .. n) -> U]
  OBVIOUS
<1> HIDE DEF step
<1>2. PICK g : IsFold(g, n, U, J, step)
  BY <1>1, FoldExists
<1>3. ASSUME NEW w \in SUBSET (1 .. n), w # {}
      PROVE  step[<<g[w \ {Max(w)}], Max(w)>>] = AddNewTrack(g[w \ {Max(w)}], s, q[Max(w)])
  BY <1>2, <1>3, MaxOfPositions DEF step, IsFold
<1>4. Eq(g)
  BY <1>2, <1>3 DEF IsFold
<1>5. Eq(f)
  <2> HIDE DEF Eq
  <2> QED
    BY <1>4
<1>6. AddAll(J, s, q) = f[1 .. n]
  BY Zenon DEF AddAll, FoldLeft, MapThenFoldSet
<1> HIDE DEF f
<1>7. f[{}] = J
  BY <1>5
<1>8. ASSUME NEW i \in 1 .. n PROVE f[1 .. i] = AddNewTrack(f[1 .. i - 1], s, q[i])
  <2>1. /\ 1 .. i \in SUBSET DOMAIN q /\ 1 .. i # {}
        /\ Max(1 .. i) = i /\ (1 .. i) \ {i} = 1 .. i - 1
    BY MaxOfFirst
  <2>2. f[1 .. i] = IF 1 .. i = {} THEN J
                    ELSE AddNewTrack(f[(1 .. i) \ {Max(1 .. i)}], s, q[Max(1 .. i)])
    BY <1>5, <2>1
  <2>3. QED
    BY <2>1, <2>2
<1>9. \A i \in 1 .. n : f[1 .. i - 1] \in P[i - 1] => f[1 .. i] \in P[i]
  BY <1>8
<1>10. QED
  BY <1>6, <1>7, <1>9, FoldReaches

LEMMA FoldEventStream ==
  ASSUME NEW n \in Nat, NEW q, DOMAIN q = 1 .. n, NEW U, NEW P, NEW J \in P[0],
         \A i \in 0 .. n : P[i] \subseteq U,
         \A K \in U, i \in 1 .. n : EventStream(K, q[i]) \in U,
         \A i \in 1 .. n : \A K \in P[i - 1] : EventStream(K, q[i]) \in P[i]
  PROVE  FoldLeft(EventStream, J, q) \in P[n]
<1> DEFINE step == [x \in U \X (1 .. n) |-> EventStream(x[1], q[x[2]])]
           Eq(g) == g = [s \in SUBSET DOMAIN q |->
                           IF s = {} THEN J ELSE EventStream(g[s \ {Max(s)}], q[Max(s)])]
           f == CHOOSE g : Eq(g)
<1>1. J \in U /\ step \in [U \X (1 .. n) -> U]
  OBVIOUS
<1> HIDE DEF step
<1>2. PICK g : IsFold(g, n, U, J, step)
  BY <1>1, FoldExists
<1>3. ASSUME NEW s \in SUBSET (1 .. n), s # {}
      PROVE  step[<<g[s \ {Max(s)}], Max(s)>>] = EventStream(g[s \ {Max(s)}], q[Max(s)])
  BY <1>2, <1>3, MaxOfPositions DEF step, IsFold
<1>4. Eq(g)
  BY <1>2, <1>3 DEF IsFold
<1>5. Eq(f)
  <2> HIDE DEF Eq
  <2> QED
    BY <1>4
<1>6. FoldLeft(EventStream, J, q) = f[1 .. n]
  BY Zenon DEF FoldLeft, MapThenFoldSet
<1> HIDE DEF f
<1>7. f[{}] = J
  BY <1>5
<1>8. ASSUME NEW i \in 1 .. n PROVE f[1 .. i] = EventStream(f[1 .. i - 1], q[i])
  <2>1. /\ 1 .. i \in SUBSET DOMAIN q /\ 1 .. i # {}
        /\ Max(1 .. i) = i /\ (1 .. i) \ {i} = 1 .. i - 1
    BY MaxOfFirst
  <2>2. f[1 .. i] = IF 1 .. i = {} THEN J
                    ELSE EventStream(f[(1 .. i) \ {Max(1 .. i)}], q[Max(1 .. i)])
    BY <1>5, <2>1
  <2>3. QED
    BY <2>1, <2>2
<1>9. \A i \in 1 .. n : f[1 .. i - 1] \in P[i - 1] => f[1 .. i] \in P[i]
  BY <1>8
<1>10. QED
  BY <1>6, <1>7, <1>9, FoldReaches

LEMMA FoldClear ==
  ASSUME NEW n \in Nat, NEW q, DOMAIN q = 1 .. n, NEW U, NEW P, NEW J \in P[0],
         \A i \in 0 .. n : P[i] \subseteq U,
         \A K \in U, i \in 1 .. n : Clear(K, q[i]) \in U,
         \A i \in 1 .. n : \A K \in P[i - 1] : Clear(K, q[i]) \in P[i]
  PROVE  FoldLeft(Clear, J, q) \in P[n]
<1> DEFINE step == [x \in U \X (1 .. n) |-> Clear(x[1], q[x[2]])]
           Eq(g) == g = [s \in SUBSET DOMAIN q |->
                           IF s = {} THEN J ELSE Clear(g[s \ {Max(s)}], q[Max(s)])]
           f == CHOOSE g : Eq(g)
<1>1. J \in U /\ step \in [U \X (1 .. n) -> U]
  OBVIOUS
<1> HIDE DEF step
<1>2. PICK g : IsFold(g, n, U, J, step)
  BY <1>1, FoldExists
<1>3. ASSUME NEW s \in SUBSET (1 .. n), s # {}
      PROVE  step[<<g[s \ {Max(s)}], Max(s)>>] = Clear(g[s \ {Max(s)}], q[Max(s)])
  BY <1>2, <1>3, MaxOfPositions DEF step, IsFold
<1>4. Eq(g)
  BY <1>2, <1>3 DEF IsFold
<1>5. Eq(f)
  <2> HIDE DEF Eq
  <2> QED
    BY <1>4
<1>6. FoldLeft(Clear, J, q) = f[1 .. n]
  BY Zenon DEF FoldLeft, MapThenFoldSet
<1> HIDE DEF f
<1>7. f[{}] = J
  BY <1>5
<1>8. ASSUME NEW i \in 1 .. n PROVE f[1 .. i] = Clear(f[1 .. i - 1], q[i])
  <2>1. /\ 1 .. i \in SUBSET DOMAIN q /\ 1 .. i # {}
        /\ Max(1 .. i) = i /\ (1 .. i) \ {i} = 1 .. i - 1
    BY MaxOfFirst
  <2>2. f[1 .. i] = IF 1 .. i = {} THEN J
                    ELSE Clear(f[(1 .. i) \ {Max(1 .. i)}], q[Max(1 .. i)])
    BY <1>5, <2>1
  <2>3. QED
    BY <2>1, <2>2
<1>9. \A i \in 1 .. n : f[1 .. i - 1] \in P[i - 1] => f[1 .. i] \in P[i]
  BY <1>8
<1>10. QED
  BY <1>6, <1>7, <1>9, FoldReaches

LEMMA FoldWrap ==
  ASSUME NEW n \in Nat, NEW q, DOMAIN q = 1 .. n, NEW U, NEW P, NEW J \in P[0],
         \A i \in 0 .. n : P[i] \subseteq U,
         \A K \in U, i \in 1 .. n : Wrap(K, q[i]) \in U,
         \A i \in 1 .. n : \A K \in P[i - 1] : Wrap(K, q[i]) \in P[i]
  PROVE  FoldLeft(Wrap, J, q) \in P[n]
<1> DEFINE step == [x \in U \X (1 .. n) |-> Wrap(x[1], q[x[2]])]
           Eq(g) == g = [s \in SUBSET DOMAIN q |->
                           IF s = {} THEN J ELSE Wrap(g[s \ {Max(s)}], q[Max(s)])]
           f == CHOOSE g : Eq(g)
<1>1. J \in U /\ step \in [U \X (1 .. n) -> U]
  OBVIOUS
<1> HIDE DEF step
<1>2. PICK g : IsFold(g, n, U, J, step)
  BY <1>1, FoldExists
<1>3. ASSUME NEW s \in SUBSET (1 .. n), s # {}
      PROVE  step[<<g[s \ {Max(s)}], Max(s)>>] = Wrap(g[s \ {Max(s)}], q[Max(s)])
  BY <1>2, <1>3, MaxOfPositions DEF step, IsFold
<1>4. Eq(g)
  BY <1>2, <1>3 DEF IsFold
<1>5. Eq(f)
  <2> HIDE DEF Eq
  <2> QED
    BY <1>4
<1>6. FoldLeft(Wrap, J, q) = f[1 .. n]
  BY Zenon DEF FoldLeft, MapThenFoldSet
<1> HIDE DEF f
<1>7. f[{}] = J
  BY <1>5
<1>8. ASSUME NEW i \in 1 .. n PROVE f[1 .. i] = Wrap(f[1 .. i - 1], q[i])
  <2>1. /\ 1 .. i \in SUBSET DOMAIN q /\ 1 .. i # {}
        /\ Max(1 .. i) = i /\ (1 .. i) \ {i} = 1 .. i - 1
    BY MaxOfFirst
  <2>2. f[1 .. i] = IF 1 .. i = {} THEN J
                    ELSE Wrap(f[(1 .. i) \ {Max(1 .. i)}], q[Max(1 .. i)])
    BY <1>5, <2>1
  <2>3. QED
    BY <2>1, <2>2
<1>9. \A i \in 1 .. n : f[1 .. i - 1] \in P[i - 1] => f[1 .. i] \in P[i]
  BY <1>8
<1>10. QED
  BY <1>6, <1>7, <1>9, FoldReaches

LEMMA FoldWrapStream ==
  ASSUME NEW n \in Nat, NEW q, DOMAIN q = 1 .. n, NEW U, NEW P, NEW J \in P[0],
         \A i \in 0 .. n : P[i] \subseteq U,
         \A K \in U, i \in 1 .. n : WrapStream(K, q[i]) \in U,
         \A i \in 1 .. n : \A K \in P[i - 1] : WrapStream(K, q[i]) \in P[i]
  PROVE  FoldLeft(WrapStream, J, q) \in P[n]
<1> DEFINE step == [x \in U \X (1 .. n) |-> WrapStream(x[1], q[x[2]])]
           Eq(g) == g = [s \in SUBSET DOMAIN q |->
                           IF s = {} THEN J ELSE WrapStream(g[s \ {Max(s)}], q[Max(s)])]
           f == CHOOSE g : Eq(g)
<1>1. J \in U /\ step \in [U \X (1 .. n) -> U]
  OBVIOUS
<1> HIDE DEF step
<1>2. PICK g : IsFold(g, n, U, J, step)
  BY <1>1, FoldExists
<1>3. ASSUME NEW s \in SUBSET (1 .. n), s # {}
      PROVE  step[<<g[s \ {Max(s)}], Max(s)>>] = WrapStream(g[s \ {Max(s)}], q[Max(s)])
  BY <1>2, <1>3, MaxOfPositions DEF step, IsFold
<1>4. Eq(g)
  BY <1>2, <1>3 DEF IsFold
<1>5. Eq(f)
  <2> HIDE DEF Eq
  <2> QED
    BY <1>4
<1>6. FoldLeft(WrapStream, J, q) = f[1 .. n]
  BY Zenon DEF FoldLeft, MapThenFoldSet
<1> HIDE DEF f
<1>7. f[{}] = J
  BY <1>5
<1>8. ASSUME NEW i \in 1 .. n PROVE f[1 .. i] = WrapStream(f[1 .. i - 1], q[i])
  <2>1. /\ 1 .. i \in SUBSET DOMAIN q /\ 1 .. i # {}
        /\ Max(1 .. i) = i /\ (1 .. i) \ {i} = 1 .. i - 1
    BY MaxOfFirst
  <2>2. f[1 .. i] = IF 1 .. i = {} THEN J
                    ELSE WrapStream(f[(1 .. i) \ {Max(1 .. i)}], q[Max(1 .. i)])
    BY <1>5, <2>1
  <2>3. QED
    BY <2>1, <2>2
<1>9. \A i \in 1 .. n : f[1 .. i - 1] \in P[i - 1] => f[1 .. i] \in P[i]
  BY <1>8
<1>10. QED
  BY <1>6, <1>7, <1>9, FoldReaches

LEMMA FoldPageCount ==
  ASSUME NEW n \in Nat, NEW q, DOMAIN q = 1 .. n, NEW U, NEW P, NEW J \in P[0],
         \A i \in 0 .. n : P[i] \subseteq U,
         \A K \in U, i \in 1 .. n : PageCount(K, q[i]) \in U,
         \A i \in 1 .. n : \A K \in P[i - 1] : PageCount(K, q[i]) \in P[i]
  PROVE  FoldLeft(PageCount, J, q) \in P[n]
<1> DEFINE step == [x \in U \X (1 .. n) |-> PageCount(x[1], q[x[2]])]
           Eq(g) == g = [s \in SUBSET DOMAIN q |->
                           IF s = {} THEN J ELSE PageCount(g[s \ {Max(s)}], q[Max(s)])]
           f == CHOOSE g : Eq(g)
<1>1. J \in U /\ step \in [U \X (1 .. n) -> U]
  OBVIOUS
<1> HIDE DEF step
<1>2. PICK g : IsFold(g, n, U, J, step)
  BY <1>1, FoldExists
<1>3. ASSUME NEW s \in SUBSET (1 .. n), s # {}
      PROVE  step[<<g[s \ {Max(s)}], Max(s)>>] = PageCount(g[s \ {Max(s)}], q[Max(s)])
  BY <1>2, <1>3, MaxOfPositions DEF step, IsFold
<1>4. Eq(g)
  BY <1>2, <1>3 DEF IsFold
<1>5. Eq(f)
  <2> HIDE DEF Eq
  <2> QED
    BY <1>4
<1>6. FoldLeft(PageCount, J, q) = f[1 .. n]
  BY Zenon DEF FoldLeft, MapThenFoldSet
<1> HIDE DEF f
<1>7. f[{}] = J
  BY <1>5
<1>8. ASSUME NEW i \in 1 .. n PROVE f[1 .. i] = PageCount(f[1 .. i - 1], q[i])
  <2>1. /\ 1 .. i \in SUBSET DOMAIN q /\ 1 .. i # {}
        /\ Max(1 .. i) = i /\ (1 .. i) \ {i} = 1 .. i - 1
    BY MaxOfFirst
  <2>2. f[1 .. i] = IF 1 .. i = {} THEN J
                    ELSE PageCount(f[(1 .. i) \ {Max(1 .. i)}], q[Max(1 .. i)])
    BY <1>5, <2>1
  <2>3. QED
    BY <2>1, <2>2
<1>9. \A i \in 1 .. n : f[1 .. i - 1] \in P[i - 1] => f[1 .. i] \in P[i]
  BY <1>8
<1>10. QED
  BY <1>6, <1>7, <1>9, FoldReaches

WrapEvents(P, m, d, q) == FoldLeft(LAMBDA Q, x : WrapEvent(Q, TrackEvent(m + x), d[x]), P, q)

LEMMA FoldWrapEvent ==
  ASSUME NEW n \in Nat, NEW m, NEW d, NEW q, DOMAIN q = 1 .. n, NEW U, NEW P, NEW J \in P[0],
         \A i \in 0 .. n : P[i] \subseteq U,
         \A K \in U, i \in 1 .. n : WrapEvent(K, TrackEvent(m + q[i]), d[q[i]]) \in U,
         \A i \in 1 .. n : \A K \in P[i - 1] : WrapEvent(K, TrackEvent(m + q[i]), d[q[i]]) \in P[i]
  PROVE  WrapEvents(J, m, d, q) \in P[n]
<1> DEFINE step == [x \in U \X (1 .. n) |-> WrapEvent(x[1], TrackEvent(m + q[x[2]]), d[q[x[2]]])]
           Eq(g) == g = [s \in SUBSET DOMAIN q |->
                           IF s = {} THEN J ELSE WrapEvent(g[s \ {Max(s)}], TrackEvent(m + q[Max(s)]), d[q[Max(s)]])]
           f == CHOOSE g : Eq(g)
<1>1. J \in U /\ step \in [U \X (1 .. n) -> U]
  OBVIOUS
<1> HIDE DEF step
<1>2. PICK g : IsFold(g, n, U, J, step)
  BY <1>1, FoldExists
<1>3. ASSUME NEW s \in SUBSET (1 .. n), s # {}
      PROVE  step[<<g[s \ {Max(s)}], Max(s)>>] = WrapEvent(g[s \ {Max(s)}], TrackEvent(m + q[Max(s)]), d[q[Max(s)]])
  BY <1>2, <1>3, MaxOfPositions DEF step, IsFold
<1>4. Eq(g)
  BY <1>2, <1>3 DEF IsFold
<1>5. Eq(f)
  <2> HIDE DEF Eq
  <2> QED
    BY <1>4
<1>6. WrapEvents(J, m, d, q) = f[1 .. n]
  BY Zenon DEF WrapEvents, FoldLeft, MapThenFoldSet
<1> HIDE DEF f
<1>7. f[{}] = J
  BY <1>5
<1>8. ASSUME NEW i \in 1 .. n PROVE f[1 .. i] = WrapEvent(f[1 .. i - 1], TrackEvent(m + q[i]), d[q[i]])
  <2>1. /\ 1 .. i \in SUBSET DOMAIN q /\ 1 .. i # {}
        /\ Max(1 .. i) = i /\ (1 .. i) \ {i} = 1 .. i - 1
    BY MaxOfFirst
  <2>2. f[1 .. i] = IF 1 .. i = {} THEN J
                    ELSE WrapEvent(f[(1 .. i) \ {Max(1 .. i)}], TrackEvent(m + q[Max(1 .. i)]), d[q[Max(1 .. i)]])
    BY <1>5, <2>1
  <2>3. QED
    BY <2>1, <2>2
<1>9. \A i \in 1 .. n : f[1 .. i - 1] \in P[i - 1] => f[1 .. i] \in P[i]
  BY <1>8
<1>10. QED
  BY <1>6, <1>7, <1>9, FoldReaches

(***************************************************************************)
(* What the operations of Java do.                                          *)
(***************************************************************************)
LEMMA ObjectKinds ==
  /\ \A t \in Tracks : t \in Objects /\ t \notin Events /\ t \notin Streams
  /\ \A s \in Streams : s \in Objects /\ s \notin Events /\ s \notin Tracks
  /\ \A t \in RemoteTracks :
       /\ t \in Tracks
       /\ Receiver(t) \in Objects /\ Transceiver(t) \in Objects /\ Sender(t) \in Objects
       /\ Receiver(t) \notin Events /\ Transceiver(t) \notin Events /\ Sender(t) \notin Events
  /\ Events \subseteq Objects
<1>1. \A t \in RemoteTracks :
        Receiver(t) \notin Events /\ Transceiver(t) \notin Events /\ Sender(t) \notin Events
  <2>1. \A t, n : Receiver(t) # TrackEvent(n) /\ Transceiver(t) # TrackEvent(n) /\ Sender(t) # TrackEvent(n)
    BY DEF Receiver, Transceiver, Sender, TrackEvent
  <2>2. QED
    BY <2>1 DEF Events
<1>2. \A t \in Tracks : t \in Objects /\ t \notin Events /\ t \notin Streams
  BY ObjectsApart DEF Objects
<1>3. \A s \in Streams : s \in Objects /\ s \notin Events /\ s \notin Tracks
  BY ObjectsApart DEF Objects
<1>4. ASSUME NEW t \in RemoteTracks
      PROVE  t \in Tracks /\ Receiver(t) \in Objects /\ Transceiver(t) \in Objects /\ Sender(t) \in Objects
  <2>1. {Receiver(t), Transceiver(t), Sender(t)}
          \in {{Receiver(x), Transceiver(x), Sender(x)} : x \in RemoteTracks}
    OBVIOUS
  <2>2. {Receiver(t), Transceiver(t), Sender(t)} \subseteq Objects
    BY <2>1 DEF Objects
  <2>3. t \in Tracks
    BY DEF Tracks
  <2>4. QED
    BY <2>2, <2>3
<1>5. Events \subseteq Objects
  BY DEF Objects
<1>6. QED
  BY <1>1, <1>2, <1>3, <1>4, <1>5

Longer(q, r, p) ==
  /\ \A i \in DOMAIN r : r[i] = p \/ (i \in DOMAIN q /\ r[i] = q[i])
  /\ \A x : /\ InList(q, x) \in Nat
            /\ x # p => InList(r, x) = InList(q, x)
            /\ x = p => InList(r, x) = InList(q, x) + 1

LEMMA ListAppend ==
  ASSUME NEW q \in Seq(Nat), NEW p \in Nat
  PROVE  /\ Append(q, p) \in Seq(Nat) /\ Append(q, p) # None /\ q # None
         /\ Longer(q, Append(q, p), p)
<1>1. Append(q, p) \in Seq(Nat) /\ Append(q, p) # None /\ q # None
  BY ObjectsApart
<1>2. \A i \in DOMAIN Append(q, p) : Append(q, p)[i] = p \/ (i \in DOMAIN q /\ Append(q, p)[i] = q[i])
  BY AppendPlaces
<1>3. ASSUME NEW x
      PROVE  /\ InList(q, x) \in Nat
             /\ x # p => InList(Append(q, p), x) = InList(q, x)
             /\ x = p => InList(Append(q, p), x) = InList(q, x) + 1
  <2>1. Times(Append(q, p), x) = Times(q, x) + (IF p = x THEN 1 ELSE 0) /\ Times(q, x) \in Nat
    BY TimesAppend, TimesType
  <2>2. QED
    BY <1>1, <2>1 DEF InList
<1>4. QED
  BY <1>1, <1>2, <1>3 DEF Longer

LEMMA ListTrackGoes ==
  ASSUME NEW J, Sound(J), NEW s \in Streams, J.bound[s] # 0, J.tracks[s] # None,
         NEW p \in DOMAIN J.proxies, J.proxies[p].of \in Tracks,
         Live(J, p) => 2 * Entries(J, p) + 1 <= J.proxies[p].count,
         NEW K, K = ListTrack(J, s, p)
  PROVE  /\ Sound(K) /\ Goes(J, K, {}) /\ K.bound = J.bound /\ K.tracks[s] # None
         /\ DOMAIN K.proxies = DOMAIN J.proxies
         /\ Relisted(J, K, s)
<1> DEFINE L == Retain(J, p)
           q == Append(L.tracks[s], p)
<1>1. /\ Good(L) /\ Moves(J, L, {}) /\ Counts(J, L, p, 1) /\ L.tracks = J.tracks
      /\ L.bound = J.bound /\ Owns(J, L, J.proxies[p].of, 1)
  BY RetainDoes DEF Sound
<1>2. \A e \in Events : Owned(L, e) = Owned(J, e)
  BY <1>1, OwnsOther, ObjectKinds DEF Sound
<1>3. K = SetList(L, s, q)
  BY DEF ListTrack, SetList
<1> HIDE DEF L
<1>4. J.tracks[s] \in Seq(Nat) /\ p \in Nat
  BY ProxiesAre DEF Sound, Good
<1>5. /\ q \in Seq(Nat) /\ q # None
      /\ \A i \in DOMAIN q : q[i] = p \/ (i \in DOMAIN J.tracks[s] /\ q[i] = J.tracks[s][i])
      /\ \A x : /\ InList(J.tracks[s], x) \in Nat
                /\ x # p => InList(q, x) = InList(J.tracks[s], x)
                /\ x = p => InList(q, x) = InList(J.tracks[s], x) + 1
  <2>1. q \in Seq(Nat) /\ q # None /\ Longer(J.tracks[s], q, p)
    BY <1>1, <1>4, ListAppend
  <2>2. QED
    BY <2>1 DEF Longer
<1> HIDE DEF q
<1>6. /\ DOMAIN L.proxies = DOMAIN J.proxies
      /\ \A x \in DOMAIN J.proxies : /\ L.proxies[x].of = J.proxies[x].of
                                     /\ L.proxies[x].ready = J.proxies[x].ready
                                     /\ x # p => L.proxies[x].count = J.proxies[x].count
      /\ L.proxies[p].count = J.proxies[p].count + 1
  BY <1>1 DEF Counts, CountsOnly
<1>7. MayList(L, q)
  BY <1>5, <1>6 DEF MayList, Sound, Good, Wired, Listed
<1>8. /\ Good(K) /\ Moves(L, K, {}) /\ OwnsSame(L, K)
      /\ K.proxies = L.proxies /\ K.bound = L.bound
      /\ K.tracks[s] = q /\ Relisted(L, K, s)
  <2>1. L.bound[s] # 0 /\ q \in Seq(Nat) \cup {None}
    BY <1>1, <1>5
  <2>2. QED
    BY <1>1, <1>3, <1>7, <2>1, Relist
<1>9. ASSUME NEW x \in DOMAIN J.proxies PROVE Backed(K, x)
  <2>1. IsFiniteSet(Spots(J, x)) /\ (Live(J, x) => 2 * Entries(J, x) <= J.proxies[x].count)
    BY DEF Sound, Counted, Backed
  <2>2. /\ IsFiniteSet(Spots(K, x)) /\ Entries(J, x) \in Nat /\ InList(J.tracks[s], x) \in Nat
        /\ Entries(K, x) = Entries(J, x) + InList(q, x) - InList(J.tracks[s], x)
    <3>1. Relisted(J, K, s)
      BY <1>1, <1>8 DEF Relisted
    <3>2. J.tracks[s] \in Seq(Nat) \cup {None} /\ K.tracks[s] \in Seq(Nat) \cup {None}
      BY <1>4, <1>5, <1>8
    <3>3. QED
      BY <1>8, <2>1, <3>1, <3>2, EntriesChange
  <2>3. (Live(K, x) <=> Live(J, x)) /\ J.proxies[x].count \in Int
    BY <1>6, <1>8, ProxiesAre DEF Live, Sound, Good
  <2>4. CASE x = p
    <3>1. Entries(K, x) = Entries(J, x) + 1 /\ K.proxies[x].count = J.proxies[x].count + 1
      BY <1>5, <1>6, <1>8, <2>2, <2>4
    <3>2. QED
      BY <2>2, <2>3, <2>4, <3>1 DEF Backed
  <2>5. CASE x # p
    <3>1. Entries(K, x) = Entries(J, x) /\ K.proxies[x].count = J.proxies[x].count
      BY <1>5, <1>6, <1>8, <2>2, <2>5
    <3>2. QED
      BY <2>1, <2>2, <2>3, <3>1 DEF Backed
  <2>6. QED
    BY <2>4, <2>5
<1>10. Sound(K)
  BY <1>6, <1>8, <1>9 DEF Sound, Counted
<1>11. Goes(J, K, {})
  <2>1. Moves(J, K, {} \cup {})
    BY <1>1, <1>8, MovesOn
  <2>2. {} \cup {} = {}
    OBVIOUS
  <2>3. QED
    BY <1>2, <1>8, <2>1, <2>2 DEF Goes, OwnsSame
<1>12. QED
  BY <1>1, <1>5, <1>6, <1>8, <1>10, <1>11 DEF Relisted

LEMMA AddNewTrackGoes ==
  ASSUME NEW J, Sound(J), NEW s \in Streams, J.bound[s] # 0, J.tracks[s] # None,
         NEW t \in TrackInfo, NEW K, K = AddNewTrack(J, s, t)
  PROVE  /\ Sound(K) /\ Goes(J, K, {t.of}) /\ K.bound[t.of] # 0 /\ K.tracks[s] # None /\ K.bound[s] # 0
<1> DEFINE L == New(J, t.of, t.ready)
<1>1. t.of \in Tracks /\ t.of \in Objects /\ t.of \notin Events /\ t.ready \in {"live", "ended"}
  BY ObjectKinds DEF TrackInfo
<1>2. /\ Sound(L) /\ Goes(J, L, {t.of}) /\ L.tracks = J.tracks /\ L.bound[t.of] # 0
      /\ NewestIs(L, t.of, t.ready)
  BY <1>1, NewGoes
<1>3. K = ListTrack(L, s, Newest(L))
  BY DEF AddNewTrack
<1> HIDE DEF L
<1>4. s \in Objects /\ L.bound[s] # 0
  BY <1>2, ObjectKinds DEF Goes, Moves
<1>5. L.proxies[Newest(L)].of \in Tracks /\ 2 * Entries(L, Newest(L)) + 1 <= L.proxies[Newest(L)].count
      /\ Newest(L) \in DOMAIN L.proxies
  BY <1>1, <1>2 DEF NewestIs
<1>6. /\ Sound(K) /\ Goes(L, K, {}) /\ K.bound = L.bound /\ K.tracks[s] # None
  BY <1>2, <1>3, <1>4, <1>5, ListTrackGoes
<1>7. Goes(J, K, {t.of})
  <2>1. Goes(J, K, {t.of} \cup {})
    BY <1>2, <1>6, GoesOn
  <2>2. {t.of} \cup {} = {t.of}
    OBVIOUS
  <2>3. QED
    BY <2>1, <2>2
<1>8. QED
  BY <1>2, <1>4, <1>6, <1>7

\* What a message says of a stream.
Told(s) == {s.of} \cup {s.tracks[i].of : i \in DOMAIN s.tracks}

LEMMA StreamInfoIs ==
  ASSUME NEW s \in StreamInfos(Streams)
  PROVE  /\ s.of \in Streams /\ s.of \in Objects /\ s.of \notin Events
         /\ Len(s.tracks) \in Nat /\ DOMAIN s.tracks = 1 .. Len(s.tracks)
         /\ \A i \in DOMAIN s.tracks : s.tracks[i] \in TrackInfo
<1>1. s.of \in Streams /\ s.tracks \in Seq(TrackInfo)
  BY DEF StreamInfos
<1>2. QED
  BY <1>1, ObjectKinds, LenProperties, ElementOfSeq

LEMMA NewMediaStreamGoes ==
  ASSUME NEW J, Sound(J), NEW s \in StreamInfos(Streams), J.tracks[s.of] # None,
         NEW K, K = NewMediaStream(J, s)
  PROVE  /\ Sound(K) /\ Goes(J, K, Told(s)) /\ K.bound[s.of] # 0 /\ K.tracks[s.of] # None
         /\ \A i \in DOMAIN s.tracks : K.bound[s.tracks[i].of] # 0
<1> DEFINE L == New(J, s.of, "live")
           q == s.tracks
           n == Len(q)
           o == s.of
           U == {M \in JavaRecs : Sound(M) /\ Goes(L, M, Told(s)) /\ M.tracks[o] # None /\ M.bound[o] # 0}
           P == [i \in 0 .. n |-> {M \in U : \A j \in 1 .. i : M.bound[q[j].of] # 0}]
<1>1. /\ o \in Streams /\ o \in Objects /\ o \notin Events /\ n \in Nat /\ DOMAIN q = 1 .. n
      /\ \A i \in DOMAIN q : q[i] \in TrackInfo
  BY StreamInfoIs
<1>2. Sound(L) /\ Goes(J, L, {o}) /\ L.tracks = J.tracks /\ L.bound[o] # 0
  BY <1>1, NewGoes
<1>3. K = AddAll(L, o, q)
  BY Zenon DEF NewMediaStream, AddAll
<1> HIDE DEF L
<1>4. L \in P[0]
  <2>1. L \in JavaRecs /\ Goes(L, L, Told(s))
    BY <1>2, GoesNot DEF Sound, Good
  <2>2. QED
    BY <1>2, <2>1
<1>5. ASSUME NEW M \in U, NEW i \in 1 .. n
      PROVE  /\ AddNewTrack(M, o, q[i]) \in U
             /\ AddNewTrack(M, o, q[i]).bound[q[i].of] # 0
             /\ \A x \in Objects : M.bound[x] # 0 => AddNewTrack(M, o, q[i]).bound[x] # 0
  <2> DEFINE N == AddNewTrack(M, o, q[i])
  <2>1. Sound(M) /\ Goes(L, M, Told(s)) /\ M.tracks[o] # None /\ M.bound[o] # 0 /\ q[i] \in TrackInfo
    BY <1>1
  <2>2. /\ Sound(N) /\ Goes(M, N, {q[i].of}) /\ N.bound[q[i].of] # 0 /\ N.tracks[o] # None /\ N.bound[o] # 0
    BY <1>1, <2>1, AddNewTrackGoes
  <2> HIDE DEF N
  <2>3. Goes(L, N, Told(s))
    <3>1. Goes(L, N, Told(s) \cup {q[i].of})
      BY <2>1, <2>2, GoesOn
    <3>2. Told(s) \cup {q[i].of} \subseteq Told(s)
      BY <1>1 DEF Told
    <3>3. QED
      BY <3>1, <3>2, GoesWider
  <2>4. N \in U
    BY <2>2, <2>3 DEF Sound, Good
  <2>5. \A x \in Objects : M.bound[x] # 0 => N.bound[x] # 0
    BY <2>2 DEF Goes, Moves
  <2>6. QED
    BY <2>2, <2>4, <2>5 DEF N
<1>6. \A i \in 0 .. n : P[i] \subseteq U
  OBVIOUS
<1>7. ASSUME NEW i \in 1 .. n, NEW M \in P[i - 1] PROVE AddNewTrack(M, o, q[i]) \in P[i]
  <2> DEFINE N == AddNewTrack(M, o, q[i])
  <2>1. i - 1 \in 0 .. n /\ M \in U /\ \A j \in 1 .. i - 1 : M.bound[q[j].of] # 0
    OBVIOUS
  <2>2. N \in U /\ N.bound[q[i].of] # 0 /\ \A x \in Objects : M.bound[x] # 0 => N.bound[x] # 0
    BY <1>5, <2>1
  <2>3. \A j \in 1 .. i : q[j].of \in Objects
    BY <1>1, ObjectKinds DEF TrackInfo
  <2> HIDE DEF N, U
  <2>4. \A j \in 1 .. i : N.bound[q[j].of] # 0
    BY SMTT(30), <2>1, <2>2, <2>3
  <2>5. QED
    BY <2>2, <2>4 DEF N
<1> HIDE DEF U, P
<1>8. AddAll(L, o, q) \in P[n]
  BY <1>1, <1>4, <1>5, <1>6, <1>7, FoldAddNewTrack
<1>9. K \in P[n]
  BY <1>3, <1>8, Zenon
<1>10. Sound(K) /\ Goes(L, K, Told(s)) /\ K.bound[o] # 0 /\ K.tracks[o] # None
       /\ \A i \in DOMAIN q : K.bound[q[i].of] # 0
  BY <1>1, <1>9 DEF P, U
<1>11. Goes(J, K, Told(s))
  <2>1. Goes(J, K, {o} \cup Told(s))
    BY <1>2, <1>10, GoesOn
  <2>2. {o} \cup Told(s) \subseteq Told(s)
    BY DEF Told
  <2>3. QED
    BY <2>1, <2>2, GoesWider
<1>12. QED
  BY <1>10, <1>11

(***************************************************************************)
(* What the handlers of messages do.                                       *)
(***************************************************************************)
LEMMA GoesIn ==
  ASSUME NEW J, NEW K, NEW L, NEW X, NEW Y, NEW Z, Goes(J, K, X), Goes(K, L, Y),
         X \subseteq Z, Y \subseteq Z
  PROVE  Goes(J, L, Z)
<1>1. Goes(J, L, X \cup Y)
  BY GoesOn
<1>2. X \cup Y \subseteq Z
  OBVIOUS
<1>3. QED
  BY <1>1, <1>2, GoesWider

LEMMA BoundIs ==
  ASSUME NEW J, Sound(J), NEW o \in Objects, J.bound[o] # 0
  PROVE  J.bound[o] \in DOMAIN J.proxies /\ J.proxies[J.bound[o]].of = o
BY DEF Sound, Good, Wired, BoundRight

LEMMA RetainBound ==
  ASSUME NEW J, Sound(J), NEW o \in Objects, o \notin Events, J.bound[o] # 0,
         NEW K, K = Retain(J, J.bound[o])
  PROVE  Sound(K) /\ Goes(J, K, {}) /\ K.tracks = J.tracks /\ K.bound = J.bound
<1>1. J.bound[o] \in DOMAIN J.proxies /\ J.proxies[J.bound[o]].of = o
  BY BoundIs
<1>2. QED
  BY <1>1, RetainGoes

LEMMA RetainOrNewGoes ==
  ASSUME NEW J, Sound(J), NEW t \in TrackInfo, NEW K, K = RetainOrNew(J, t)
  PROVE  Sound(K) /\ Goes(J, K, {t.of}) /\ K.tracks = J.tracks /\ K.bound[t.of] # 0
<1>1. t.of \in Objects /\ t.of \notin Events /\ t.ready \in {"live", "ended"}
  BY ObjectKinds DEF TrackInfo
<1>2. CASE J.bound[t.of] # 0
  <2>1. K = Retain(J, J.bound[t.of])
    BY <1>2 DEF RetainOrNew
  <2>2. Sound(K) /\ Goes(J, K, {}) /\ K.tracks = J.tracks /\ K.bound = J.bound
    BY <1>1, <1>2, <2>1, RetainBound
  <2>3. {} \subseteq {t.of}
    OBVIOUS
  <2>4. QED
    BY <1>2, <2>2, <2>3, GoesWider
<1>3. CASE J.bound[t.of] = 0
  <2>1. K = New(J, t.of, t.ready)
    BY <1>3 DEF RetainOrNew
  <2>2. QED
    BY <1>1, <2>1, NewGoes
<1>4. QED
  BY <1>2, <1>3

\* What a message says of a track that the other end sends.
RemoteInfo == [of : RemoteTracks, ready : {"live", "ended"}]

LEMMA ReceiverGoes ==
  ASSUME NEW J, Sound(J), NEW t \in RemoteInfo, NEW K, K = RTCRtpReceiverImpl(J, t)
  PROVE  /\ Sound(K) /\ Goes(J, K, {Receiver(t.of), t.of}) /\ K.bound[Receiver(t.of)] # 0
         /\ K.bound[t.of] # 0
<1> DEFINE L == New(J, Receiver(t.of), "live")
           o == Receiver(t.of)
<1>1. t \in TrackInfo /\ o \in Objects /\ o \notin Events
  BY ObjectKinds DEF TrackInfo, RemoteInfo
<1>2. Sound(L) /\ Goes(J, L, {o}) /\ L.bound[o] # 0
  BY <1>1, NewGoes
<1>3. K = RetainOrNew(L, t)
  BY DEF RTCRtpReceiverImpl
<1> HIDE DEF L, o
<1>4. Sound(K) /\ Goes(L, K, {t.of}) /\ K.bound[t.of] # 0
  BY <1>1, <1>2, <1>3, RetainOrNewGoes
<1>5. Goes(J, K, {o, t.of})
  <2>1. {o} \subseteq {o, t.of} /\ {t.of} \subseteq {o, t.of}
    OBVIOUS
  <2>2. QED
    BY <1>2, <1>4, <2>1, GoesIn
<1>6. K.bound[o] # 0
  BY <1>1, <1>2, <1>4 DEF Goes, Moves
<1>7. QED
  BY <1>4, <1>5, <1>6 DEF o

\* The tracks that what is told of a sender names.
Sent(q) == {q[i].of : i \in DOMAIN q}

LEMMA SenderGoes ==
  ASSUME NEW J, Sound(J), NEW t \in RemoteInfo, NEW q \in Seq(TrackInfo),
         NEW K, K = RTCRtpSenderImpl(J, t, q)
  PROVE  Sound(K) /\ Goes(J, K, {Sender(t.of)} \cup Sent(q))
<1> DEFINE o == Sender(t.of)
           L == New(J, o, "live")
           X == {o} \cup Sent(q)
<1>1. o \in Objects /\ o \notin Events
  BY ObjectKinds DEF RemoteInfo
<1>2. Sound(L) /\ Goes(J, L, {o})
  BY <1>1, NewGoes
<1>3. {o} \subseteq X /\ X \subseteq X
  OBVIOUS
<1>4. K = IF q = <<>> THEN L ELSE RetainOrNew(L, Head(q))
  BY Zenon DEF RTCRtpSenderImpl
<1> HIDE DEF L, o
<1>5. q # <<>> => Head(q) \in TrackInfo /\ {Head(q).of} \subseteq X
  <2>1. q # <<>> => 1 \in DOMAIN q /\ Head(q) = q[1] /\ q[1] \in TrackInfo
    BY LenProperties, EmptySeq, HeadTailProperties, ElementOfSeq
  <2>2. QED
    BY <2>1 DEF Sent
<1> HIDE DEF X
<1>6. Sound(K) /\ Goes(J, K, X)
  <2>1. CASE q = <<>>
    BY <1>2, <1>3, <1>4, <2>1, GoesWider
  <2>2. CASE q # <<>>
    <3>1. Sound(K) /\ Goes(L, K, {Head(q).of})
      BY <1>2, <1>4, <1>5, <2>2, RetainOrNewGoes
    <3>2. QED
      BY <1>2, <1>3, <1>5, <2>2, <3>1, GoesIn
  <2>3. QED
    BY <2>1, <2>2
<1>7. QED
  BY <1>6 DEF o, X

LEMMA TransceiverGoes ==
  ASSUME NEW J, Sound(J), NEW t \in RemoteInfo, NEW q \in Seq(TrackInfo),
         NEW K, K = RTCRtpTransceiverImpl(J, t, q)
  PROVE  /\ Sound(K)
         /\ Goes(J, K, {Transceiver(t.of), Sender(t.of), Receiver(t.of), t.of} \cup Sent(q))
<1> DEFINE a == Transceiver(t.of)
           b == Sender(t.of)
           c == Receiver(t.of)
           X == {a, b, c, t.of} \cup Sent(q)
           L == New(J, a, "live")
           M == RTCRtpSenderImpl(L, t, q)
<1>1. t \in TrackInfo /\ a \in Objects /\ a \notin Events
  BY ObjectKinds DEF TrackInfo, RemoteInfo
<1>2. K = RTCRtpReceiverImpl(M, t)
  BY Zenon DEF RTCRtpTransceiverImpl
<1>3. Sound(L) /\ Goes(J, L, {a})
  BY <1>1, NewGoes
<1> HIDE DEF L
<1>4. Sound(M) /\ Goes(L, M, {b} \cup Sent(q))
  BY <1>3, SenderGoes
<1> HIDE DEF M
<1>5. Sound(K) /\ Goes(M, K, {c, t.of})
  BY <1>2, <1>4, ReceiverGoes
<1> HIDE DEF a, b, c
<1>6. {a} \subseteq X /\ {b} \cup Sent(q) \subseteq X /\ {c, t.of} \subseteq X /\ X \subseteq X
  OBVIOUS
<1> HIDE DEF X
<1>7. Goes(J, M, X)
  BY <1>3, <1>4, <1>6, GoesIn
<1>8. Goes(J, K, X)
  BY <1>5, <1>6, <1>7, GoesIn
<1>9. QED
  BY <1>5, <1>8 DEF X, a, b, c

LEMMA EventStreamGoes ==
  ASSUME NEW J, Sound(J), NEW s \in StreamInfos(Streams), NEW K, K = EventStream(J, s)
  PROVE  Sound(K) /\ Goes(J, K, Told(s))
<1> DEFINE o == s.of
<1>1. o \in Streams /\ o \in Objects /\ o \notin Events /\ o \notin Tracks
  BY StreamInfoIs, ObjectKinds
<1>2. CASE J.bound[o] # 0
  <2>1. K = Retain(J, J.bound[o])
    BY <1>2 DEF EventStream
  <2>2. Sound(K) /\ Goes(J, K, {})
    BY <1>1, <1>2, <2>1, RetainBound
  <2>3. {} \subseteq Told(s)
    OBVIOUS
  <2>4. QED
    BY <2>2, <2>3, GoesWider
<1>3. CASE J.bound[o] = 0
  <2> DEFINE L == NewMediaStream(J, s)
             M == Retain(L, L.bound[o])
  <2>1. K = Release(M, L.bound[o])
    BY <1>3 DEF EventStream
  <2>2. J.tracks[o] # None
    <3>1. J.tracks[o] = <<>>
      BY <1>1, <1>3 DEF Sound, Good, Wired, Listed
    <3>2. <<>> \in Seq(Nat)
      OBVIOUS
    <3>3. QED
      BY <3>1, <3>2, ObjectsApart
  <2>3. Sound(L) /\ Goes(J, L, Told(s)) /\ L.bound[o] # 0
    BY <2>2, NewMediaStreamGoes
  <2> HIDE DEF L
  <2>4. Sound(M) /\ Goes(L, M, {}) /\ M.bound = L.bound
    BY <1>1, <2>3, RetainBound
  <2> HIDE DEF M
  <2>5. M.bound[o] = L.bound[o] /\ M.bound[o] # 0
    BY <2>3, <2>4
  <2>6. /\ M.bound[o] \in DOMAIN M.proxies /\ M.proxies[M.bound[o]].of = o
        /\ ~ Live(M, M.bound[o])
    BY <1>1, <2>4, <2>5, BoundIs DEF Live
  <2>7. Sound(K) /\ Goes(M, K, {})
    BY <1>1, <2>1, <2>4, <2>5, <2>6, ReleaseGoes
  <2>8. Goes(J, M, Told(s))
    <3>1. {} \subseteq Told(s) /\ Told(s) \subseteq Told(s)
      OBVIOUS
    <3>2. QED
      BY <2>3, <2>4, <3>1, GoesIn
  <2>9. Goes(J, K, Told(s))
    <3>1. {} \subseteq Told(s) /\ Told(s) \subseteq Told(s)
      OBVIOUS
    <3>2. QED
      BY <2>7, <2>8, <3>1, GoesIn
  <2>10. QED
    BY <2>7, <2>9
<1>4. QED
  BY <1>2, <1>3

LEMMA ListTracksGoes ==
  ASSUME NEW J, Sound(J), NEW s \in Streams, J.tracks[s] # None, NEW K, K = ListTracks(J, s)
  PROVE  Sound(K) /\ Goes(J, K, {})
<1> DEFINE q == J.tracks[s]
           n == Len(q)
           U == {M \in JavaRecs : Sound(M) /\ Goes(J, M, {})}
           P == [i \in 0 .. n |-> U]
<1>1. q \in Seq(Nat)
  BY ProxiesAre DEF Sound, Good
<1>2. n \in Nat /\ DOMAIN q = 1 .. n
  BY <1>1, LenProperties
<1>3. \A i \in 1 .. n : q[i] \in DOMAIN J.proxies /\ J.proxies[q[i]].of \in Tracks
  BY <1>2 DEF Sound, Good, Wired, Listed
<1>4. ASSUME NEW M \in U, NEW i \in 1 .. n PROVE Retain(M, q[i]) \in U
  <2>1. Sound(M) /\ Goes(J, M, {})
    OBVIOUS
  <2>2. q[i] \in DOMAIN M.proxies /\ M.proxies[q[i]].of \notin Events
    BY <1>3, <2>1, ObjectKinds DEF Goes, Moves
  <2>3. Sound(Retain(M, q[i])) /\ Goes(M, Retain(M, q[i]), {})
    BY <2>1, <2>2, RetainGoes
  <2>4. Goes(J, Retain(M, q[i]), {})
    <3>1. {} \subseteq {}
      OBVIOUS
    <3>2. QED
      BY <2>1, <2>3, <3>1, GoesIn
  <2>5. QED
    BY <2>3, <2>4 DEF Sound, Good
<1>5. J \in P[0]
  <2>1. J \in JavaRecs /\ Goes(J, J, {})
    BY GoesNot DEF Sound, Good
  <2>2. QED
    BY <1>2, <2>1
<1>6. /\ \A i \in 0 .. n : P[i] \subseteq U
      /\ \A i \in 1 .. n : \A M \in P[i - 1] : Retain(M, q[i]) \in P[i]
  <2> HIDE DEF U
  <2> QED
    BY <1>2, <1>4
<1> HIDE DEF U, P, q, n
<1>7. FoldLeft(Retain, J, q) \in P[n]
  BY <1>2, <1>4, <1>5, <1>6, FoldRetain
<1>8. K \in P[n]
  BY <1>7, Zenon DEF ListTracks, q
<1>9. QED
  BY <1>2, <1>8 DEF P, U

LEMMA UserMediaGoes ==
  ASSUME NEW J, Sound(J), NEW s \in StreamInfos(Streams), J.tracks[s.of] # None,
         NEW K, K = UserMedia(J, s)
  PROVE  /\ Sound(K) /\ Goes(J, K, Told(s)) /\ K.bound[s.of] # 0
         /\ \A i \in DOMAIN s.tracks : K.bound[s.tracks[i].of] # 0
<1> DEFINE L == NewMediaStream(J, s)
<1>1. /\ Sound(L) /\ Goes(J, L, Told(s)) /\ L.bound[s.of] # 0 /\ L.tracks[s.of] # None
      /\ \A i \in DOMAIN s.tracks : L.bound[s.tracks[i].of] # 0
  <2>1. Sound(L) /\ Goes(J, L, Told(s)) /\ L.bound[s.of] # 0 /\ L.tracks[s.of] # None
    BY NewMediaStreamGoes
  <2>2. \A i \in DOMAIN s.tracks : L.bound[s.tracks[i].of] # 0
    BY NewMediaStreamGoes
  <2>3. QED
    BY <2>1, <2>2
<1>2. K = ListTracks(L, s.of)
  BY DEF UserMedia
<1> HIDE DEF L
<1>3. s.of \in Streams /\ s.of \in Objects /\ \A i \in DOMAIN s.tracks : s.tracks[i].of \in Objects
  BY StreamInfoIs, ObjectKinds DEF TrackInfo
<1>4. Sound(K) /\ Goes(L, K, {})
  BY <1>1, <1>2, <1>3, ListTracksGoes
<1>5. Goes(J, K, Told(s))
  <2>1. {} \subseteq Told(s) /\ Told(s) \subseteq Told(s)
    OBVIOUS
  <2>2. QED
    BY <1>1, <1>4, <2>1, GoesIn
<1>6. K.bound[s.of] # 0 /\ \A i \in DOMAIN s.tracks : K.bound[s.tracks[i].of] # 0
  BY <1>1, <1>3, <1>4 DEF Goes, Moves
<1>7. QED
  BY <1>4, <1>5, <1>6

AllTold(q) == UNION {Told(q[i]) : i \in DOMAIN q}

LEMMA StreamsGo ==
  ASSUME NEW J, Sound(J), NEW q \in Seq(StreamInfos(Streams)), NEW K, K = FoldLeft(EventStream, J, q)
  PROVE  Sound(K) /\ Goes(J, K, AllTold(q))
<1> DEFINE n == Len(q)
           U == {M \in JavaRecs : Sound(M) /\ Goes(J, M, AllTold(q))}
           P == [i \in 0 .. n |-> U]
<1>1. n \in Nat /\ DOMAIN q = 1 .. n
  BY LenProperties
<1>2. \A i \in 1 .. n : q[i] \in StreamInfos(Streams)
  BY <1>1, ElementOfSeq
<1>3. \A i \in 1 .. n : Told(q[i]) \subseteq AllTold(q)
  BY <1>1 DEF AllTold
<1>4. ASSUME NEW M \in U, NEW i \in 1 .. n PROVE EventStream(M, q[i]) \in U
  <2> DEFINE N == EventStream(M, q[i])
  <2>1. Sound(M) /\ Goes(J, M, AllTold(q))
    OBVIOUS
  <2>2. Sound(N) /\ Goes(M, N, Told(q[i]))
    BY <1>2, <2>1, EventStreamGoes
  <2> HIDE DEF N
  <2>3. Goes(J, N, AllTold(q))
    <3>1. AllTold(q) \subseteq AllTold(q) /\ Told(q[i]) \subseteq AllTold(q)
      BY <1>3
    <3>2. QED
      BY <2>1, <2>2, <3>1, GoesIn
  <2>4. QED
    BY <2>2, <2>3 DEF Sound, Good, N
<1>5. J \in P[0]
  <2>1. J \in JavaRecs /\ Goes(J, J, AllTold(q))
    BY GoesNot DEF Sound, Good
  <2>2. QED
    BY <1>1, <2>1
<1>6. /\ \A i \in 0 .. n : P[i] \subseteq U
      /\ \A i \in 1 .. n : \A M \in P[i - 1] : EventStream(M, q[i]) \in P[i]
  <2> HIDE DEF U
  <2> QED
    BY <1>1, <1>4
<1> HIDE DEF U, P, n
<1>7. FoldLeft(EventStream, J, q) \in P[n]
  BY <1>1, <1>4, <1>5, <1>6, FoldEventStream
<1>8. K \in P[n]
  BY <1>7, Zenon
<1>9. QED
  BY <1>1, <1>8 DEF P, U

\* What a track event is about.
EventTold(e) ==
  {e.of, e.track.of, Receiver(e.track.of), Transceiver(e.track.of), Sender(e.track.of)}
    \cup AllTold(e.streams) \cup Sent(e.sends)
TrackMessages ==
  [type : {"track"}, of : Events, track : RemoteInfo, streams : Seq(StreamInfos(RemoteStreams)),
   sends : Seq(TrackInfo)]

LEMMA TrackMessageIs ==
  ASSUME NEW e \in TrackMessages
  PROVE  /\ e.of \in Events /\ e.of \in Objects /\ e.of \notin Tracks /\ e.track \in RemoteInfo /\ e.track \in TrackInfo
         /\ e.streams \in Seq(StreamInfos(Streams)) /\ e.streams \in Seq(StreamInfos(RemoteStreams))
         /\ e.sends \in Seq(TrackInfo)
         /\ e.track.of \in Tracks /\ e.track.of \in RemoteTracks
         /\ Receiver(e.track.of) \in Objects /\ Receiver(e.track.of) \notin Events
         /\ Transceiver(e.track.of) \in Objects /\ Transceiver(e.track.of) \notin Events
<1>1. /\ e.of \in Events /\ e.track \in RemoteInfo
      /\ e.streams \in Seq(StreamInfos(RemoteStreams)) /\ e.sends \in Seq(TrackInfo)
  BY DEF TrackMessages
<1>2. e.track.of \in RemoteTracks /\ e.track \in TrackInfo
  BY <1>1, ObjectKinds DEF RemoteInfo, TrackInfo
<1>3. StreamInfos(RemoteStreams) \subseteq StreamInfos(Streams)
  BY DEF StreamInfos, Streams
<1>4. Seq(StreamInfos(RemoteStreams)) \subseteq Seq(StreamInfos(Streams))
  BY <1>3
<1>5. QED
  BY <1>1, <1>2, <1>4, ObjectKinds

LEMMA TrackEventGoes ==
  ASSUME NEW J, NEW e \in TrackMessages, NEW L, L = New(J, e.of, "live"), Sound(L),
         NEW K, K = RTCTrackEventImpl(J, e)
  PROVE  /\ Sound(K) /\ Goes(L, K, EventTold(e)) /\ K.bound[e.track.of] # 0
         /\ K.bound[Receiver(e.track.of)] # 0
<1> DEFINE t == e.track
           X == EventTold(e)
           A == FoldLeft(EventStream, L, e.streams)
           B == RetainOrNew(A, t)
           C == IF B.bound[Transceiver(t.of)] # 0 THEN Retain(B, B.bound[Transceiver(t.of)])
                ELSE RTCRtpTransceiverImpl(B, t, e.sends)
<1>1. /\ t \in RemoteInfo /\ t \in TrackInfo /\ e.streams \in Seq(StreamInfos(Streams))
      /\ e.sends \in Seq(TrackInfo)
      /\ t.of \in Objects
      /\ Receiver(t.of) \in Objects /\ Receiver(t.of) \notin Events
      /\ Transceiver(t.of) \in Objects /\ Transceiver(t.of) \notin Events
  BY TrackMessageIs, ObjectKinds
<1>2. /\ {} \subseteq X /\ AllTold(e.streams) \subseteq X /\ {t.of} \subseteq X /\ X \subseteq X
      /\ {Transceiver(t.of), Sender(t.of), Receiver(t.of), t.of} \cup Sent(e.sends) \subseteq X
      /\ {Receiver(t.of), t.of} \subseteq X
  BY DEF EventTold
<1> HIDE DEF X
<1>3. Sound(A) /\ Goes(L, A, AllTold(e.streams))
  BY <1>1, StreamsGo
<1>4. K = IF C.bound[Receiver(t.of)] # 0 THEN Retain(C, C.bound[Receiver(t.of)])
          ELSE RTCRtpReceiverImpl(C, t)
  BY Zenon DEF RTCTrackEventImpl
<1> HIDE DEF A
<1>5. Sound(B) /\ Goes(A, B, {t.of}) /\ B.bound[t.of] # 0
  BY <1>1, <1>3, RetainOrNewGoes
<1>6. Goes(L, B, X)
  BY <1>2, <1>3, <1>5, GoesIn
<1> HIDE DEF B
<1>7. Sound(C) /\ Goes(B, C, X)
  <2>1. CASE B.bound[Transceiver(t.of)] # 0
    <3>1. C = Retain(B, B.bound[Transceiver(t.of)])
      BY <2>1
    <3>2. Sound(C) /\ Goes(B, C, {})
      BY <1>1, <1>5, <2>1, <3>1, RetainBound
    <3>3. QED
      BY <1>2, <3>2, GoesWider
  <2>2. CASE B.bound[Transceiver(t.of)] = 0
    <3>1. C = RTCRtpTransceiverImpl(B, t, e.sends)
      BY <2>2
    <3>2. /\ Sound(C)
          /\ Goes(B, C, {Transceiver(t.of), Sender(t.of), Receiver(t.of), t.of} \cup Sent(e.sends))
      BY <1>1, <1>5, <3>1, TransceiverGoes
    <3>3. QED
      BY <1>2, <3>2, GoesWider
  <2>3. QED
    BY <2>1, <2>2
<1> HIDE DEF C
<1>8. Goes(L, C, X)
  BY <1>2, <1>6, <1>7, GoesIn
<1>9. Sound(K) /\ Goes(C, K, X) /\ K.bound[Receiver(t.of)] # 0
  <2>1. CASE C.bound[Receiver(t.of)] # 0
    <3>1. K = Retain(C, C.bound[Receiver(t.of)])
      BY <1>4, <2>1
    <3>2. Sound(K) /\ Goes(C, K, {}) /\ K.bound = C.bound
      BY <1>1, <1>7, <2>1, <3>1, RetainBound
    <3>3. QED
      BY <1>2, <2>1, <3>2, GoesWider
  <2>2. CASE C.bound[Receiver(t.of)] = 0
    <3>1. K = RTCRtpReceiverImpl(C, t)
      BY <1>4, <2>2
    <3>2. Sound(K) /\ Goes(C, K, {Receiver(t.of), t.of}) /\ K.bound[Receiver(t.of)] # 0
      BY <1>1, <1>7, <3>1, ReceiverGoes
    <3>3. QED
      BY <1>2, <3>2, GoesWider
  <2>3. QED
    BY <2>1, <2>2
<1>10. Goes(L, K, X)
  BY <1>2, <1>8, <1>9, GoesIn
<1>11. K.bound[t.of] # 0
  BY <1>1, <1>5, <1>7, <1>9 DEF Goes, Moves
<1>12. QED
  BY <1>9, <1>10, <1>11 DEF X

LEMMA DispatchGoes ==
  ASSUME NEW J, Sound(J), NEW e \in TrackMessages, NEW K, K = DispatchTrackEvent(J, e)
  PROVE  /\ Sound(K) /\ Goes(J, K, EventTold(e)) /\ K.bound[e.track.of] # 0 /\ K.bound[e.of] # 0
<1> DEFINE o == e.of
           X == EventTold(e)
           A == New(J, o, "live")
           B == RTCTrackEventImpl(J, e)
           r == Receiver(e.track.of)
           C == Retain(B, B.bound[r])
<1>1. /\ o \in Events /\ o \in Objects /\ o \notin Tracks /\ e.track.of \in Objects
      /\ r \in Objects /\ r \notin Events
  BY TrackMessageIs, ObjectKinds
<1>2. {} \subseteq X /\ {o} \subseteq X /\ X \subseteq X
  BY DEF EventTold
<1> HIDE DEF X
<1>3. Sound(A)
  BY <1>1, NewSound
<1>4. Moves(J, A, {o}) /\ A.bound[o] # 0 /\ Owns(J, A, o, 1)
  BY <1>1, NewDoes DEF Sound
<1>5. Sound(B) /\ Goes(A, B, EventTold(e)) /\ B.bound[e.track.of] # 0 /\ B.bound[r] # 0
  BY <1>3, TrackEventGoes
<1>6. K = Release(C, C.bound[o])
  BY Zenon DEF DispatchTrackEvent
<1> HIDE DEF A, B, r
<1>7. Sound(C) /\ Goes(B, C, {}) /\ C.bound = B.bound
  BY <1>1, <1>5, RetainBound
<1> HIDE DEF C
<1>8. C.bound[o] # 0 /\ C.bound[e.track.of] # 0
  BY <1>1, <1>4, <1>5, <1>7 DEF Goes, Moves
<1>9. C.bound[o] \in DOMAIN C.proxies /\ C.proxies[C.bound[o]].of = o /\ ~ Live(C, C.bound[o])
  BY <1>1, <1>7, <1>8, BoundIs DEF Live
<1>10. /\ Good(K) /\ Moves(C, K, {}) /\ Counts(C, K, C.bound[o], -1) /\ K.tracks = C.tracks
       /\ K.bound = C.bound /\ Owns(C, K, C.proxies[C.bound[o]].of, -1)
  BY <1>6, <1>7, <1>9, ReleaseDoes DEF Sound
<1>11. Sound(K)
  <2>1. -1 \in Int
    OBVIOUS
  <2>2. Counted(K)
    BY <1>7, <1>9, <1>10, <2>1, BackedStill
  <2>3. QED
    BY <1>10, <2>2 DEF Sound
<1>12. Moves(J, K, X)
  <2>1. Moves(A, B, X) /\ Moves(B, C, {})
    BY <1>5, <1>7 DEF Goes, X
  <2>2. Moves(J, B, {o} \cup X)
    BY <1>4, <2>1, MovesOn
  <2>3. Moves(J, C, ({o} \cup X) \cup {})
    BY <2>1, <2>2, MovesOn
  <2>4. Moves(J, K, (({o} \cup X) \cup {}) \cup {})
    BY <1>10, <2>3, MovesOn
  <2>5. (({o} \cup X) \cup {}) \cup {} \subseteq X
    BY <1>2
  <2>6. QED
    BY <2>4, <2>5, MovesWider
<1>13. ASSUME NEW x \in Events PROVE Owned(K, x) = Owned(J, x)
  <2>1. Owned(J, x) \in Int
    BY DebtType DEF Sound, Good
  <2>2. Owned(A, x) = Owned(J, x) + (IF o = x THEN 1 ELSE 0)
    BY <1>4 DEF Owns
  <2>3. Owned(C, x) = Owned(A, x)
    BY <1>5, <1>7 DEF Goes
  <2>4. Owned(K, x) = Owned(C, x) + (IF o = x THEN -1 ELSE 0)
    BY <1>9, <1>10 DEF Owns
  <2>5. CASE o = x
    BY <2>1, <2>2, <2>3, <2>4, <2>5
  <2>6. CASE o # x
    BY <2>1, <2>2, <2>3, <2>4, <2>6
  <2>7. QED
    BY <2>5, <2>6
<1>14. QED
  BY <1>8, <1>10, <1>11, <1>12, <1>13 DEF Goes, X

LEMMA DispatchEndedGoes ==
  ASSUME NEW J, Sound(J), NEW t \in Tracks, NEW K, K = DispatchEnded(J, t), J.bound[t] # 0
  PROVE  Sound(K) /\ Goes(J, K, {}) /\ K.bound = J.bound /\ K.proxies[K.bound[t]].ready = "ended"
<1> DEFINE p == J.bound[t]
           r == [J.proxies EXCEPT ![p].ready = "ended"]
           L == [J EXCEPT !.proxies = r]
<1>1. t \in Objects /\ t \notin Events /\ t \notin Streams
  BY ObjectKinds
<1>2. p \in DOMAIN J.proxies /\ J.proxies[p].of = t
  BY <1>1, BoundIs
<1>3. /\ DOMAIN J.proxies = 1 .. Len(J.proxies) /\ J.proxies \in Seq(Proxy) /\ p \in Nat
      /\ J = [proxies |-> J.proxies, bound |-> J.bound, scripts |-> J.scripts, tracks |-> J.tracks]
      /\ \A x \in DOMAIN J.proxies : J.proxies[x].count \in Int
  <2>1. J \in JavaRecs
    BY DEF Sound, Good
  <2>2. J = [proxies |-> J.proxies, bound |-> J.bound, scripts |-> J.scripts, tracks |-> J.tracks]
    BY <2>1 DEF JavaRecs
  <2>3. QED
    BY <1>2, <2>1, <2>2, ProxiesAre
<1>4. K = Release(L, p)
  BY DEF DispatchEnded
<1>5. r \in Seq(Proxy) /\ DOMAIN r = DOMAIN J.proxies
  <2>1. J.proxies[p] \in Proxy
    BY <1>2, <1>3, ElementOfSeq
  <2>2. [J.proxies[p] EXCEPT !.ready = "ended"] \in Proxy
    BY <2>1 DEF Proxy
  <2>3. r = [J.proxies EXCEPT ![p] = [J.proxies[p] EXCEPT !.ready = "ended"]]
    BY <1>2
  <2>4. QED
    BY <1>2, <1>3, <2>2, <2>3, ExceptSeq
<1>6. r[p].ready = "ended" /\ r[p].of = t /\ r[p].count = J.proxies[p].count
  <2>1. r[p] = [J.proxies[p] EXCEPT !.ready = "ended"]
    BY <1>2
  <2>2. J.proxies[p] \in Proxy
    BY <1>2, <1>3, ElementOfSeq
  <2> HIDE DEF r, p
  <2>3. QED
    BY <1>2, <2>1, <2>2 DEF Proxy
<1>7. \A x \in DOMAIN J.proxies : x # p => r[x] = J.proxies[x]
  OBVIOUS
<1> HIDE DEF r, p
<1>8. /\ L.proxies = r /\ L.bound = J.bound /\ L.scripts = J.scripts /\ L.tracks = J.tracks
      /\ L = [proxies |-> L.proxies, bound |-> L.bound, scripts |-> L.scripts, tracks |-> L.tracks]
  BY <1>3
<1> HIDE DEF L
<1>10. /\ \A x \in DOMAIN J.proxies : L.proxies[x].of = J.proxies[x].of /\ L.proxies[x].count = J.proxies[x].count
       /\ DOMAIN L.proxies = DOMAIN J.proxies
  BY <1>2, <1>5, <1>6, <1>7, <1>8
<1>11. L \in JavaRecs
  BY <1>5, <1>8, ProxiesAre DEF Sound, Good, JavaRecs
<1>12. Wired(L)
  <2>1. BoundRight(L)
    BY <1>8, <1>10 DEF Sound, Good, Wired, BoundRight
  <2>2. AllBound(L)
    BY <1>8, <1>10 DEF Sound, Good, Wired, AllBound
  <2>3. Listed(L)
    BY <1>8, <1>10 DEF Sound, Good, Wired, Listed
  <2>4. Spoken(L, L.scripts)
    BY <1>8 DEF Sound, Good, Wired, Spoken
  <2>5. QED
    BY <2>1, <2>2, <2>3, <2>4 DEF Wired
<1>13. \A o : Owned(L, o) = Owned(J, o)
  <2>1. 0 \in Int /\ J.proxies \in Seq(Proxy) /\ L.proxies \in Seq(Proxy)
    BY <1>3, <1>5, <1>8
  <2>2. CountsOnly(J, L, p, 0)
    BY <1>2, <1>3, <1>10 DEF CountsOnly
  <2>3. Owns(J, L, J.proxies[p].of, 0)
    BY <1>2, <2>1, <2>2, OwnedCount
  <2>4. ASSUME NEW o PROVE Owned(L, o) = Owned(J, o)
    <3>1. Owned(J, o) \in Int
      BY <2>1, OwnedIsSum
    <3>2. Owned(L, o) = Owned(J, o) + 0
      BY <2>3 DEF Owns
    <3>3. QED
      BY <3>1, <3>2
  <2>5. QED
    BY <2>4
<1>14. Moves(J, L, {})
  <2>1. ASSUME NEW o PROVE Debt(L, o) = Debt(J, o) /\ Asks(L, o) = Asks(J, o)
    BY <1>8, <1>13, UnderWayIs DEF Debt, Asks
  <2>2. ASSUME NEW x \in DOMAIN J.proxies, J.proxies[x].ready = "ended" PROVE L.proxies[x].ready = "ended"
    BY <1>6, <1>7, <1>8, <2>2
  <2>3. QED
    BY <1>8, <1>10, <2>1, <2>2 DEF Moves
<1>15. ASSUME NEW x \in DOMAIN J.proxies PROVE Backed(L, x) /\ (x = p => ~ Live(L, x))
  <2>1. Backed(J, x)
    BY DEF Sound, Counted
  <2>2. Spots(L, x) = Spots(J, x) /\ Entries(L, x) = Entries(J, x)
    BY <1>8, SpotsSame
  <2>3. CASE x = p
    <3>1. ~ Live(L, x)
      BY <1>6, <1>8, <2>3 DEF Live
    <3>2. QED
      BY <2>1, <2>2, <3>1 DEF Backed
  <2>4. CASE x # p
    BY <1>7, <1>8, <2>1, <2>2, <2>4 DEF Backed, Live
  <2>5. QED
    BY <2>3, <2>4
<1>16. Sound(L) /\ ~ Live(L, p) /\ p \in DOMAIN L.proxies /\ L.proxies[p].of = t
  BY <1>2, <1>10, <1>11, <1>12, <1>15 DEF Sound, Good, Counted
<1>17. Sound(K) /\ Goes(L, K, {}) /\ Counts(L, K, p, -1) /\ K.bound = L.bound
  BY <1>1, <1>4, <1>16, ReleaseGoes
<1>18. K.proxies[p].ready = "ended"
  BY <1>6, <1>8, <1>16, <1>17 DEF Counts
<1>19. Goes(J, K, {})
  <2>1. Goes(J, L, {})
    BY <1>13, <1>14 DEF Goes
  <2>2. {} \subseteq {}
    OBVIOUS
  <2>3. QED
    BY <1>17, <2>1, <2>2, GoesIn
<1>20. QED
  BY <1>8, <1>17, <1>18, <1>19 DEF p

(***************************************************************************)
(* Calls.                                                                   *)
(***************************************************************************)
\* One list changes, and what it loses or gains the counts lose or gain at most, or
\* at least, twice.
Recounted(J, K, s) ==
  /\ DOMAIN K.proxies = DOMAIN J.proxies
  /\ \A x \in DOMAIN J.proxies :
       /\ K.proxies[x].of = J.proxies[x].of /\ K.proxies[x].ready = J.proxies[x].ready
       /\ K.proxies[x].count >= J.proxies[x].count + 2 * InList(K.tracks[s], x) - 2 * InList(J.tracks[s], x)

LEMMA StillCounted ==
  ASSUME NEW J, Sound(J), NEW K, Good(K), NEW s \in Streams, Relisted(J, K, s), Recounted(J, K, s)
  PROVE  Sound(K)
<1> SUFFICES ASSUME NEW x \in DOMAIN J.proxies PROVE Backed(K, x)
  BY DEF Sound, Counted, Recounted
<1>1. IsFiniteSet(Spots(J, x)) /\ (Live(J, x) => 2 * Entries(J, x) <= J.proxies[x].count)
  BY DEF Sound, Counted, Backed
<1>2. /\ IsFiniteSet(Spots(K, x)) /\ Entries(J, x) \in Nat /\ Entries(K, x) \in Nat
      /\ InList(J.tracks[s], x) \in Nat /\ InList(K.tracks[s], x) \in Nat
      /\ Entries(K, x) = Entries(J, x) + InList(K.tracks[s], x) - InList(J.tracks[s], x)
  <2>1. J.tracks[s] \in Seq(Nat) \cup {None} /\ K.tracks[s] \in Seq(Nat) \cup {None}
    BY ProxiesAre DEF Sound, Good
  <2>2. QED
    BY <1>1, <2>1, EntriesChange
<1>3. /\ K.proxies[x].of = J.proxies[x].of /\ K.proxies[x].ready = J.proxies[x].ready
      /\ K.proxies[x].count >= J.proxies[x].count + 2 * InList(K.tracks[s], x) - 2 * InList(J.tracks[s], x)
      /\ J.proxies[x].count \in Int /\ K.proxies[x].count \in Int
  BY ProxiesAre DEF Recounted, Sound, Good
<1>4. (Live(K, x) <=> Live(J, x))
  BY <1>3 DEF Live
<1>5. QED
  BY <1>1, <1>2, <1>3, <1>4 DEF Backed

LEMMA AppendOne ==
  ASSUME NEW S, NEW q \in Seq(S), NEW e \in S
  PROVE  Append(q, e) = q \o <<e>> /\ <<e>> \in Seq(S) /\ Members(<<e>>) = {e}
BY AppendIsConcat, OneMember

AddTrackScript(s, t) == [op |-> "addTrack", of |-> s, track |-> t]

LEMMA AddTrackGoes ==
  ASSUME NEW J, Sound(J), NEW s \in Streams, J.bound[s] # 0, J.tracks[s] # None,
         NEW p \in DOMAIN J.proxies, J.proxies[p].of \in Tracks, NEW K,
         K = [Retain(ListTrack(J, s, p), p) EXCEPT
                !.scripts = Append(@, [op |-> "addTrack", of |-> s, track |-> J.proxies[p].of])]
  PROVE  Sound(K) /\ Goes(J, K, {})
<1> DEFINE A == Retain(J, p)
           q == Append(A.tracks[s], p)
           B == SetList(A, s, q)
           C == Retain(B, p)
           c == AddTrackScript(s, J.proxies[p].of)
<1>1. /\ Good(A) /\ Moves(J, A, {}) /\ Counts(J, A, p, 1) /\ A.tracks = J.tracks
      /\ A.bound = J.bound /\ Owns(J, A, J.proxies[p].of, 1)
  BY RetainDoes DEF Sound
<1>2. K = [C EXCEPT !.scripts = Append(@, c)]
  BY DEF ListTrack, SetList, AddTrackScript
<1> HIDE DEF A
<1>3. J.tracks[s] \in Seq(Nat) /\ p \in Nat
  BY ProxiesAre DEF Sound, Good
<1>4. q \in Seq(Nat) /\ q # None /\ Longer(J.tracks[s], q, p)
  BY <1>1, <1>3, ListAppend
<1> HIDE DEF q
<1>5. /\ \A i \in DOMAIN q : q[i] = p \/ (i \in DOMAIN J.tracks[s] /\ q[i] = J.tracks[s][i])
      /\ \A x : /\ InList(J.tracks[s], x) \in Nat
                /\ x # p => InList(q, x) = InList(J.tracks[s], x)
                /\ x = p => InList(q, x) = InList(J.tracks[s], x) + 1
  BY <1>4 DEF Longer
<1>6. /\ DOMAIN A.proxies = DOMAIN J.proxies
      /\ \A x \in DOMAIN J.proxies : /\ A.proxies[x].of = J.proxies[x].of
                                     /\ A.proxies[x].ready = J.proxies[x].ready
                                     /\ x # p => A.proxies[x].count = J.proxies[x].count
      /\ A.proxies[p].count = J.proxies[p].count + 1
  BY <1>1 DEF Counts, CountsOnly
<1>7. MayList(A, q)
  BY <1>5, <1>6 DEF MayList, Sound, Good, Wired, Listed
<1>8. /\ Good(B) /\ Moves(A, B, {}) /\ OwnsSame(A, B)
      /\ B.proxies = A.proxies /\ B.bound = A.bound
      /\ B.tracks[s] = q /\ Relisted(A, B, s)
  <2>1. A.bound[s] # 0 /\ q \in Seq(Nat) \cup {None}
    BY <1>1, <1>4
  <2>2. QED
    BY <1>1, <1>7, <2>1, Relist
<1> HIDE DEF B
<1>9. /\ Good(C) /\ Moves(B, C, {}) /\ Counts(B, C, p, 1) /\ C.tracks = B.tracks
      /\ C.bound = B.bound /\ Owns(B, C, B.proxies[p].of, 1)
  BY <1>6, <1>8, RetainDoes
<1> HIDE DEF C
<1>10. /\ DOMAIN C.proxies = DOMAIN J.proxies
       /\ \A x \in DOMAIN J.proxies : /\ C.proxies[x].of = J.proxies[x].of
                                      /\ C.proxies[x].ready = J.proxies[x].ready
                                      /\ x # p => C.proxies[x].count = J.proxies[x].count
       /\ C.proxies[p].count = (J.proxies[p].count + 1) + 1
  BY <1>6, <1>8, <1>9 DEF Counts, CountsOnly
<1>11. /\ c \in Scripts /\ c.op = "addTrack" /\ c.track = J.proxies[p].of /\ C.scripts \in Seq(Scripts)
  BY <1>9, ProxiesAre DEF AddTrackScript, Scripts, Good
<1>12. K = Said(C, <<c>>)
  <2>1. Append(C.scripts, c) = C.scripts \o <<c>>
    BY <1>11, AppendOne
  <2> HIDE DEF c
  <2>2. QED
    BY <1>2, <2>1 DEF Said
<1>13. /\ Good(K) /\ Moves(C, K, {}) /\ OwnsSame(C, K)
       /\ K.proxies = C.proxies /\ K.bound = C.bound /\ K.tracks = C.tracks
  <2>1. <<c>> \in Seq(Scripts) /\ Members(<<c>>) = {c}
    BY <1>11, AppendOne
  <2>2. C.bound[J.proxies[p].of] # 0
    BY <1>1, <1>8, <1>9 DEF Sound, Good, Wired, AllBound
  <2>3. Spoken(C, <<c>>)
    BY <1>11, <2>1, <2>2 DEF Spoken
  <2>4. \A x \in Members(<<c>>) : x.op \notin {"retain", "release", "getUserMedia"}
    BY <1>11, <2>1
  <2> HIDE DEF c
  <2>5. QED
    BY <1>9, <1>12, <2>1, <2>3, <2>4, Say
<1>14. Relisted(J, K, s)
  BY <1>1, <1>8, <1>9, <1>13 DEF Relisted
<1>15. Recounted(J, K, s)
  <2>1. K.tracks[s] = q /\ K.proxies = C.proxies
    BY <1>8, <1>9, <1>13
  <2>2. ASSUME NEW x \in DOMAIN J.proxies
        PROVE  C.proxies[x].count >= J.proxies[x].count + 2 * InList(q, x) - 2 * InList(J.tracks[s], x)
    <3>1. J.proxies[x].count \in Int /\ InList(J.tracks[s], x) \in Nat
      BY <1>5, ProxiesAre DEF Sound, Good
    <3>2. CASE x = p
      BY <1>5, <1>10, <3>1, <3>2
    <3>3. CASE x # p
      <4>1. InList(q, x) = InList(J.tracks[s], x) /\ C.proxies[x].count = J.proxies[x].count
        BY <1>5, <1>10, <3>3
      <4>2. QED
        BY <3>1, <4>1
    <3>4. QED
      BY <3>2, <3>3
  <2>3. QED
    BY <1>10, <2>1, <2>2 DEF Recounted
<1>16. Sound(K)
  BY <1>13, <1>14, <1>15, StillCounted
<1>17. Moves(J, K, {})
  <2>1. Moves(J, B, {} \cup {})
    BY <1>1, <1>8, MovesOn
  <2>2. Moves(J, C, ({} \cup {}) \cup {})
    BY <1>9, <2>1, MovesOn
  <2>3. Moves(J, K, (({} \cup {}) \cup {}) \cup {})
    BY <1>13, <2>2, MovesOn
  <2>4. (({} \cup {}) \cup {}) \cup {} = {}
    OBVIOUS
  <2>5. QED
    BY <2>3, <2>4
<1>18. \A e \in Events : Owned(K, e) = Owned(J, e)
  <2>1. J.proxies[p].of \notin Events /\ B.proxies[p].of \notin Events
    BY <1>6, <1>8, ObjectKinds
  <2>2. \A e \in Events : Owned(A, e) = Owned(J, e)
    BY <1>1, <2>1, OwnsOther DEF Sound
  <2>3. \A e \in Events : Owned(C, e) = Owned(B, e)
    BY <1>8, <1>9, <2>1, OwnsOther
  <2>4. QED
    BY <1>8, <1>13, <2>2, <2>3 DEF OwnsSame
<1>19. QED
  BY <1>16, <1>17, <1>18 DEF Goes

LEMMA TimesOne == ASSUME NEW e, NEW x PROVE Times(<<e>>, x) = IF e = x THEN 1 ELSE 0
<1>1. DOMAIN <<e>> = {1} /\ <<e>>[1] = e
  OBVIOUS
<1>2. CASE e = x
  <2>1. Places(<<e>>, x) = {1}
    BY <1>1, <1>2 DEF Places
  <2>2. QED
    BY <1>2, <2>1, FS_Singleton DEF Times
<1>3. CASE e # x
  <2>1. Places(<<e>>, x) = {}
    BY <1>1, <1>3 DEF Places
  <2>2. QED
    BY <1>3, <2>1, FS_EmptySet DEF Times
<1>4. QED
  BY <1>2, <1>3

\* A list without what stood at place i.
LEMMA ListRemove ==
  ASSUME NEW q \in Seq(Nat), NEW i \in DOMAIN q, NEW r, r = RemoveAt(q, i)
  PROVE  /\ r \in Seq(Nat) /\ Members(r) \subseteq Members(q)
         /\ \A x : /\ Times(q, x) \in Nat /\ Times(r, x) \in Nat
                   /\ Times(q, x) = Times(r, x) + (IF q[i] = x THEN 1 ELSE 0)
<1> DEFINE n == Len(q)
           a == SubSeq(q, 1, i - 1)
           b == SubSeq(q, i + 1, n)
           c == SubSeq(q, i, n)
           e == q[i]
<1>1. n \in Nat /\ DOMAIN q = 1 .. n /\ i \in 1 .. n /\ e \in Nat
  BY LenProperties, ElementOfSeq
<1>2. i - 1 \in 0 .. n /\ (i - 1) + 1 = i /\ i \in 0 .. n
  BY <1>1
<1>3. a \in Seq(Nat) /\ c \in Seq(Nat) /\ q = a \o c /\ b \in Seq(Nat)
  <2>1. SubSeq(q, 1, i - 1) \in Seq(Nat) /\ SubSeq(q, (i - 1) + 1, Len(q)) \in Seq(Nat)
        /\ q = SubSeq(q, 1, i - 1) \o SubSeq(q, (i - 1) + 1, Len(q))
    BY <1>2, TimesCut
  <2>2. SubSeq(q, i + 1, Len(q)) \in Seq(Nat)
    BY <1>2, TimesCut
  <2>3. QED
    BY <1>2, <2>1, <2>2
<1>4. c = <<e>> \o b
  <2>1. n \in i .. n
    BY <1>1
  <2>2. QED
    BY <1>1, <2>1, SubSeqRecursiveFirst
<1>5. r = a \o b
  BY DEF RemoveAt
<1> HIDE DEF a, b, c
<1>6. <<e>> \in Seq(Nat) /\ Members(<<e>>) = {e}
  BY <1>1, OneMember
<1>7. /\ r \in Seq(Nat) /\ Members(r) = Members(a) \cup Members(b)
      /\ Members(c) = {e} \cup Members(b) /\ Members(q) = Members(a) \cup Members(c)
  <2>1. a \o b \in Seq(Nat) /\ Members(a \o b) = Members(a) \cup Members(b)
    BY <1>3, ConcatMembers
  <2>3. Members(a \o c) = Members(a) \cup Members(c)
    BY <1>3, ConcatMembers
  <2> HIDE DEF e
  <2>2. Members(<<e>> \o b) = Members(<<e>>) \cup Members(b)
    <3>1. ASSUME NEW d \in Seq(Nat) PROVE Members(d \o b) = Members(d) \cup Members(b)
      BY <1>3, ConcatMembers
    <3>2. QED
      BY <1>6, <3>1
  <2>4. QED
    BY <1>3, <1>4, <1>5, <1>6, <2>1, <2>2, <2>3
<1>8. ASSUME NEW x
      PROVE  /\ Times(q, x) \in Nat /\ Times(r, x) \in Nat
             /\ Times(q, x) = Times(r, x) + (IF e = x THEN 1 ELSE 0)
  <2>1. /\ Times(a, x) \in Nat /\ Times(b, x) \in Nat /\ Times(q, x) \in Nat /\ Times(r, x) \in Nat
        /\ Times(<<e>>, x) \in Nat
    BY <1>3, <1>6, <1>7, TimesType
  <2>2. Times(q, x) = Times(a, x) + Times(c, x) /\ Times(r, x) = Times(a, x) + Times(b, x)
        /\ Times(c, x) = Times(<<e>>, x) + Times(b, x)
    <3>1. Times(a \o b, x) = Times(a, x) + Times(b, x)
      BY <1>3, TimesConcat
    <3>2. Times(<<e>> \o b, x) = Times(<<e>>, x) + Times(b, x)
      BY <1>3, <1>6, TimesConcat
    <3>3. Times(a \o c, x) = Times(a, x) + Times(c, x)
      BY <1>3, TimesConcat
    <3> HIDE DEF e
    <3>4. QED
      BY <1>3, <1>4, <1>5, <3>1, <3>2, <3>3
  <2>3. Times(<<e>>, x) = IF e = x THEN 1 ELSE 0
    BY TimesOne
  <2>4. QED
    BY <2>1, <2>2, <2>3
<1>9. QED
  BY <1>7, <1>8

Removes(J, s, i) == SetList(J, s, RemoveAt(J.tracks[s], i))
RemoveTrackScript(s, t) == [op |-> "removeTrack", of |-> s, track |-> t]
Removed(J, s, i, q, t) ==
  Release([Release(J, q) EXCEPT
             !.tracks[s] = RemoveAt(@, i),
             !.scripts = Append(@, [op |-> "removeTrack", of |-> s, track |-> t])], q)

LEMMA RemoveTrackGoes ==
  ASSUME NEW J, Sound(J), NEW s \in Streams, J.bound[s] # 0, J.tracks[s] # None,
         NEW t \in Tracks, NEW i \in DOMAIN J.tracks[s], NEW q, q = J.tracks[s][i],
         NEW K, K = Removed(J, s, i, q, t)
  PROVE  Sound(K) /\ Goes(J, K, {})
<1> DEFINE A == Release(J, q)
           r == RemoveAt(A.tracks[s], i)
           B == SetList(A, s, r)
           c == RemoveTrackScript(s, t)
           C == Said(B, <<c>>)
<1>1. q \in DOMAIN J.proxies /\ J.proxies[q].of \in Tracks
  BY DEF Sound, Good, Wired, Listed
<1>2. /\ Good(A) /\ Moves(J, A, {}) /\ Counts(J, A, q, -1) /\ A.tracks = J.tracks
      /\ A.bound = J.bound /\ Owns(J, A, J.proxies[q].of, -1)
  BY <1>1, ReleaseDoes DEF Sound
<1>3. A.scripts \in Seq(Scripts) /\ A.tracks \in [Streams -> Seq(Nat) \cup {None}]
      /\ A = [proxies |-> A.proxies, bound |-> A.bound, scripts |-> A.scripts, tracks |-> A.tracks]
  BY <1>2, ProxiesAre DEF Good, JavaRecs
<1> HIDE DEF A
<1>4. c \in Scripts /\ c.op = "removeTrack" /\ <<c>> \in Seq(Scripts) /\ Members(<<c>>) = {c}
  <2>1. c \in Scripts /\ c.op = "removeTrack"
    BY DEF RemoveTrackScript, Scripts
  <2>2. QED
    BY <2>1, OneMember
<1>5. K = Release(C, q)
  <2>1. Append(A.scripts, c) = A.scripts \o <<c>>
    BY <1>3, <1>4, AppendOne
  <2>2. K = Release([A EXCEPT !.tracks[s] = RemoveAt(@, i), !.scripts = Append(@, c)], q)
    BY DEF A, RemoveTrackScript, Removed
  <2> HIDE DEF c
  <2>3. [A EXCEPT !.tracks[s] = RemoveAt(@, i), !.scripts = Append(@, c)] = C
    BY <1>3, <2>1 DEF SetList, Said
  <2>4. QED
    BY <2>2, <2>3
<1>6. J.tracks[s] \in Seq(Nat) /\ J.tracks[s] # None
  BY ProxiesAre DEF Sound, Good
<1>7. /\ r \in Seq(Nat) /\ Members(r) \subseteq Members(J.tracks[s])
      /\ \A x : /\ Times(J.tracks[s], x) \in Nat /\ Times(r, x) \in Nat
                /\ Times(J.tracks[s], x) = Times(r, x) + (IF q = x THEN 1 ELSE 0)
  BY <1>2, <1>6, ListRemove
<1>8. r # None
  <2>1. r \in Seq(Nat)
    BY <1>7
  <2>2. QED
    BY <2>1, ObjectsApart
<1> HIDE DEF r
<1>9. /\ DOMAIN A.proxies = DOMAIN J.proxies
      /\ \A x \in DOMAIN J.proxies : /\ A.proxies[x].of = J.proxies[x].of
                                     /\ A.proxies[x].ready = J.proxies[x].ready
                                     /\ x # q => A.proxies[x].count = J.proxies[x].count
      /\ A.proxies[q].count = J.proxies[q].count + -1
  BY <1>1, <1>2 DEF Counts, CountsOnly
<1>10. MayList(A, r)
  <2>1. \A k \in DOMAIN r : r[k] \in Members(J.tracks[s])
    BY <1>7 DEF Members
  <2>2. \A x \in Members(J.tracks[s]) : x \in DOMAIN J.proxies /\ J.proxies[x].of \in Tracks
    BY <1>6 DEF Members, Sound, Good, Wired, Listed
  <2>3. QED
    BY <1>9, <2>1, <2>2 DEF MayList
<1>11. /\ Good(B) /\ Moves(A, B, {}) /\ OwnsSame(A, B)
       /\ B.proxies = A.proxies /\ B.bound = A.bound
       /\ B.tracks[s] = r /\ Relisted(A, B, s)
  <2>1. A.bound[s] # 0 /\ r \in Seq(Nat) \cup {None}
    BY <1>2, <1>7
  <2>2. QED
    BY <1>2, <1>10, <2>1, Relist
<1> HIDE DEF B
<1>12. /\ Good(C) /\ Moves(B, C, {}) /\ OwnsSame(B, C)
       /\ C.proxies = B.proxies /\ C.bound = B.bound /\ C.tracks = B.tracks
  <2>1. Spoken(B, <<c>>)
    BY <1>4 DEF Spoken
  <2>2. \A x \in Members(<<c>>) : x.op \notin {"retain", "release", "getUserMedia"}
    BY <1>4
  <2> HIDE DEF c
  <2>3. QED
    BY <1>4, <1>11, <2>1, <2>2, Say
<1> HIDE DEF C
<1>13. /\ Good(K) /\ Moves(C, K, {}) /\ Counts(C, K, q, -1) /\ K.tracks = C.tracks
       /\ K.bound = C.bound /\ Owns(C, K, C.proxies[q].of, -1)
  BY <1>1, <1>5, <1>9, <1>11, <1>12, ReleaseDoes
<1>14. /\ DOMAIN K.proxies = DOMAIN J.proxies
       /\ \A x \in DOMAIN J.proxies : /\ K.proxies[x].of = J.proxies[x].of
                                      /\ K.proxies[x].ready = J.proxies[x].ready
                                      /\ x # q => K.proxies[x].count = J.proxies[x].count
       /\ K.proxies[q].count = (J.proxies[q].count + -1) + -1
  <2>1. C.proxies = A.proxies /\ q \in DOMAIN C.proxies
    BY <1>1, <1>9, <1>11, <1>12
  <2>2. /\ DOMAIN K.proxies = DOMAIN C.proxies
        /\ \A x \in DOMAIN C.proxies : /\ K.proxies[x].of = C.proxies[x].of
                                       /\ K.proxies[x].ready = C.proxies[x].ready
                                       /\ x # q => K.proxies[x].count = C.proxies[x].count
        /\ K.proxies[q].count = C.proxies[q].count + -1
    BY <1>13 DEF Counts, CountsOnly
  <2>3. DOMAIN K.proxies = DOMAIN J.proxies
    BY <1>9, <2>1, <2>2
  <2>4. K.proxies[q].count = (J.proxies[q].count + -1) + -1
    <3>1. C.proxies[q].count = J.proxies[q].count + -1
      BY <1>9, <2>1
    <3>2. QED
      BY <2>2, <3>1
  <2>5. ASSUME NEW x \in DOMAIN J.proxies
        PROVE  /\ K.proxies[x].of = J.proxies[x].of /\ K.proxies[x].ready = J.proxies[x].ready
               /\ x # q => K.proxies[x].count = J.proxies[x].count
    <3>1. /\ C.proxies[x].of = J.proxies[x].of /\ C.proxies[x].ready = J.proxies[x].ready
          /\ x # q => C.proxies[x].count = J.proxies[x].count
          /\ x \in DOMAIN C.proxies
      BY <1>9, <2>1
    <3>2. QED
      BY <2>2, <3>1
  <2>6. QED
    BY <2>3, <2>4, <2>5
<1>15. K.tracks[s] = r /\ Relisted(J, K, s)
  BY <1>2, <1>11, <1>12, <1>13 DEF Relisted
<1>16. Recounted(J, K, s)
  <2>1. ASSUME NEW x \in DOMAIN J.proxies
        PROVE  K.proxies[x].count >= J.proxies[x].count + 2 * InList(r, x) - 2 * InList(J.tracks[s], x)
    <3>1. /\ J.proxies[x].count \in Int /\ InList(J.tracks[s], x) = Times(J.tracks[s], x)
          /\ InList(r, x) = Times(r, x)
      BY <1>6, <1>8, ProxiesAre DEF Sound, Good, InList
    <3>2. Times(J.tracks[s], x) \in Nat /\ Times(r, x) \in Nat
      BY <1>7
    <3>3. CASE x = q
      <4>1. Times(J.tracks[s], x) = Times(r, x) + 1 /\ K.proxies[x].count = (J.proxies[x].count + -1) + -1
        BY <1>7, <1>14, <3>3
      <4>2. QED
        BY <3>1, <3>2, <4>1
    <3>4. CASE x # q
      <4>1. Times(J.tracks[s], x) = Times(r, x) + 0 /\ K.proxies[x].count = J.proxies[x].count
        BY <1>7, <1>14, <3>4
      <4>2. QED
        BY <3>1, <3>2, <4>1
    <3>5. QED
      BY <3>3, <3>4
  <2>2. QED
    BY <1>14, <1>15, <2>1 DEF Recounted
<1>17. Sound(K)
  BY <1>13, <1>15, <1>16, StillCounted
<1>18. Moves(J, K, {})
  <2>1. Moves(J, B, {} \cup {})
    BY <1>2, <1>11, MovesOn
  <2>2. Moves(J, C, ({} \cup {}) \cup {})
    BY <1>12, <2>1, MovesOn
  <2>3. Moves(J, K, (({} \cup {}) \cup {}) \cup {})
    BY <1>13, <2>2, MovesOn
  <2>4. (({} \cup {}) \cup {}) \cup {} = {}
    OBVIOUS
  <2>5. QED
    BY <2>3, <2>4
<1>19. \A e \in Events : Owned(K, e) = Owned(J, e)
  <2>1. J.proxies[q].of \notin Events /\ C.proxies[q].of \notin Events
    BY <1>1, <1>9, <1>11, <1>12, ObjectKinds
  <2>2. \A e \in Events : Owned(A, e) = Owned(J, e)
    BY <1>2, <2>1, OwnsOther DEF Sound
  <2>3. \A e \in Events : Owned(K, e) = Owned(C, e)
    BY <1>12, <1>13, <2>1, OwnsOther
  <2>4. QED
    BY <1>11, <1>12, <2>2, <2>3 DEF OwnsSame
<1>20. QED
  BY <1>17, <1>18, <1>19 DEF Goes

(***************************************************************************)
(* stop() and close().                                                     *)
(***************************************************************************)
\* The stops of some proxies of tracks.
LEMMA StopScriptsAre ==
  ASSUME java \in JavaRecs, NEW ps, \A p \in ps : p \in DOMAIN java.proxies /\ java.proxies[p].of \in Tracks
  PROVE  /\ StopScripts(ps) \in Seq(Scripts)
         /\ \A x \in Members(StopScripts(ps)) : x.op = "stop"
<1> DEFINE A == Stoppable(ps)
           f == [p \in A |-> Script("stop", java.proxies[p].of)]
           S == {Script("stop", java.proxies[p].of) : p \in A}
<1>1. DOMAIN java.proxies = 1 .. Len(java.proxies) /\ Len(java.proxies) \in Nat
  BY ProxiesAre
<1>2. A \subseteq 1 .. Len(java.proxies) /\ A \subseteq ps
  BY <1>1 DEF Stoppable
<1>3. IsFiniteSet(A)
  <2>1. IsFiniteSet(1 .. Len(java.proxies))
    BY <1>1, FS_Interval
  <2> HIDE DEF A
  <2>2. QED
    BY <1>2, <2>1, FS_Subset
<1>4. \A x \in S : x \in Scripts /\ x.op = "stop"
  BY <1>2 DEF Script, Scripts
<1>5. StopScripts(ps) = SetToSeq(S)
  BY DEF StopScripts
<1> HIDE DEF A
<1>6. f \in Surjection(A, S)
  BY DEF Surjection
<1>7. IsFiniteSet(S)
  <2> HIDE DEF f, S
  <2> QED
    BY <1>3, <1>6, FS_Surjection
<1> HIDE DEF S
<1>8. SetToSeq(S) \in Seq(S) /\ Members(SetToSeq(S)) = S
  BY <1>7, SequenceOf
<1>9. SetToSeq(S) \in Seq(Scripts)
  <2>1. S \subseteq Scripts
    BY <1>4
  <2>2. QED
    BY <1>8, <2>1, SeqMonotonic
<1>10. QED
  BY <1>4, <1>5, <1>8, <1>9

LEMMA StopGoes ==
  ASSUME Sound(java), NEW ps, \A p \in ps : p \in DOMAIN java.proxies /\ java.proxies[p].of \in Tracks,
         NEW K, K = [java EXCEPT !.scripts = @ \o StopScripts(ps)]
  PROVE  /\ Sound(K) /\ Goes(java, K, {}) /\ K.proxies = java.proxies /\ K.bound = java.bound
         /\ K.tracks = java.tracks
<1> DEFINE q == StopScripts(ps)
<1>1. q \in Seq(Scripts) /\ \A x \in Members(q) : x.op = "stop"
  BY StopScriptsAre DEF Sound, Good
<1>2. K = Said(java, q)
  BY DEF Said
<1> HIDE DEF q
<1>3. /\ Good(K) /\ Moves(java, K, {}) /\ OwnsSame(java, K)
      /\ K.proxies = java.proxies /\ K.bound = java.bound /\ K.tracks = java.tracks
  <2>1. Spoken(java, q) /\ \A x \in Members(q) : x.op \notin {"retain", "release", "getUserMedia"}
    BY <1>1 DEF Spoken
  <2>2. QED
    BY <1>1, <1>2, <2>1, Say DEF Sound
<1>4. Counted(K)
  <2>1. ASSUME NEW x \in DOMAIN java.proxies PROVE Backed(K, x)
    <3>1. Backed(java, x) /\ Spots(K, x) = Spots(java, x) /\ Entries(K, x) = Entries(java, x)
      BY <1>3, SpotsSame DEF Sound, Counted
    <3>2. QED
      BY <1>3, <3>1 DEF Backed, Live
  <2>2. QED
    BY <1>3, <2>1 DEF Counted
<1>5. QED
  BY <1>3, <1>4 DEF Sound, Goes, OwnsSame

(***************************************************************************)
(* clear().                                                                 *)
(***************************************************************************)
\* K is J after the first i members of q have been released.
Released(J, K, q, i) ==
  /\ K \in JavaRecs /\ Good(K) /\ Moves(J, K, {}) /\ K.tracks = J.tracks /\ K.bound = J.bound
  /\ \A e \in Events : Owned(K, e) = Owned(J, e)
  /\ DOMAIN K.proxies = DOMAIN J.proxies
  /\ \A x \in DOMAIN J.proxies :
       /\ K.proxies[x].of = J.proxies[x].of /\ K.proxies[x].ready = J.proxies[x].ready
       /\ K.proxies[x].count + Times(SubSeq(q, 1, i), x) = J.proxies[x].count

LEMMA ReleasesOn ==
  ASSUME NEW J, Good(J), NEW q \in Seq(Nat), NEW i \in 1 .. Len(q),
         q[i] \in DOMAIN J.proxies, J.proxies[q[i]].of \in Tracks,
         NEW K, Released(J, K, q, i - 1), NEW L, L = Release(K, q[i])
  PROVE  Released(J, L, q, i)
<1> DEFINE p == q[i]
<1>1. /\ K \in JavaRecs /\ Good(K) /\ Moves(J, K, {}) /\ K.tracks = J.tracks /\ K.bound = J.bound
      /\ \A e \in Events : Owned(K, e) = Owned(J, e)
      /\ DOMAIN K.proxies = DOMAIN J.proxies
      /\ \A x \in DOMAIN J.proxies :
           /\ K.proxies[x].of = J.proxies[x].of /\ K.proxies[x].ready = J.proxies[x].ready
           /\ K.proxies[x].count + Times(SubSeq(q, 1, i - 1), x) = J.proxies[x].count
  BY DEF Released
<1>2. p \in DOMAIN K.proxies /\ K.proxies[p].of \in Tracks
  BY <1>1
<1>3. /\ Good(L) /\ Moves(K, L, {}) /\ Counts(K, L, p, -1) /\ L.tracks = K.tracks
      /\ L.bound = K.bound /\ Owns(K, L, K.proxies[p].of, -1)
  BY <1>1, <1>2, ReleaseDoes
<1>4. \A e \in Events : Owned(L, e) = Owned(K, e)
  BY <1>1, <1>2, <1>3, OwnsOther, ObjectKinds
<1>5. Moves(J, L, {})
  <2>1. Moves(J, L, {} \cup {})
    BY <1>1, <1>3, MovesOn
  <2>2. {} \cup {} = {}
    OBVIOUS
  <2>3. QED
    BY <2>1, <2>2
<1>6. Len(q) \in Nat /\ p \in Nat /\ i - 1 \in 0 .. Len(q) /\ i \in 0 .. Len(q)
  BY LenProperties, ElementOfSeq
<1>7. SubSeq(q, 1, i - 1) \in Seq(Nat) /\ SubSeq(q, 1, i) \in Seq(Nat)
  BY <1>6, TimesCut
<1>8. SubSeq(q, 1, i) = SubSeq(q, 1, i - 1) \o <<p>>
  <2>1. 1 \in 1 .. Len(q) /\ i \in 1 .. Len(q)
    BY <1>6
  <2>2. QED
    BY <2>1, SubSeqRecursiveSecond
<1> HIDE DEF p
<1>9. ASSUME NEW x
      PROVE  /\ Times(SubSeq(q, 1, i - 1), x) \in Nat
             /\ Times(SubSeq(q, 1, i), x) = Times(SubSeq(q, 1, i - 1), x) + (IF p = x THEN 1 ELSE 0)
  <2>1. <<p>> \in Seq(Nat) /\ Times(<<p>>, x) = IF p = x THEN 1 ELSE 0
    BY <1>6, OneMember, TimesOne
  <2>2. ASSUME NEW a \in Seq(Nat), NEW b \in Seq(Nat)
        PROVE  Times(a \o b, x) = Times(a, x) + Times(b, x)
    BY TimesConcat
  <2>3. Times(SubSeq(q, 1, i - 1) \o <<p>>, x) = Times(SubSeq(q, 1, i - 1), x) + Times(<<p>>, x)
    BY <1>7, <2>1, <2>2
  <2>4. QED
    BY <1>7, <1>8, <2>1, <2>3, TimesType
<1>10. ASSUME NEW x \in DOMAIN J.proxies
       PROVE  /\ L.proxies[x].of = J.proxies[x].of /\ L.proxies[x].ready = J.proxies[x].ready
              /\ L.proxies[x].count + Times(SubSeq(q, 1, i), x) = J.proxies[x].count
  <2>1. /\ K.proxies[x].of = J.proxies[x].of /\ K.proxies[x].ready = J.proxies[x].ready
        /\ K.proxies[x].count + Times(SubSeq(q, 1, i - 1), x) = J.proxies[x].count
        /\ K.proxies[x].count \in Int
    BY <1>1, ProxiesAre
  <2>2. L.proxies[x].of = K.proxies[x].of /\ L.proxies[x].ready = K.proxies[x].ready
    BY <1>1, <1>3 DEF Counts, CountsOnly
  <2>3. Times(SubSeq(q, 1, i - 1), x) \in Nat
    BY <1>9
  <2>4. CASE x = p
    <3>1. L.proxies[x].count = K.proxies[x].count + -1
      BY <1>3, <2>4 DEF Counts, CountsOnly
    <3>2. Times(SubSeq(q, 1, i), x) = Times(SubSeq(q, 1, i - 1), x) + 1
      BY <1>9, <2>4
    <3>3. L.proxies[x].count + Times(SubSeq(q, 1, i), x) = J.proxies[x].count
      <4> DEFINE a == K.proxies[x].count
                 b == Times(SubSeq(q, 1, i - 1), x)
      <4>1. a \in Int /\ b \in Int /\ a + b = J.proxies[x].count
        BY <2>1, <2>3
      <4>2. L.proxies[x].count = a + -1 /\ Times(SubSeq(q, 1, i), x) = b + 1
        BY <2>4, <3>1, <3>2
      <4> HIDE DEF a, b
      <4>3. QED
        BY <4>1, <4>2
    <3>4. QED
      BY <2>1, <2>2, <3>3
  <2>5. CASE x # p
    <3>1. L.proxies[x].count = K.proxies[x].count
      BY <1>1, <1>3, <2>5 DEF Counts, CountsOnly
    <3>2. Times(SubSeq(q, 1, i), x) = Times(SubSeq(q, 1, i - 1), x) + 0
      BY <1>9, <2>5
    <3>3. QED
      BY <2>1, <2>2, <2>3, <3>1, <3>2
  <2>6. QED
    BY <2>4, <2>5
<1>11. DOMAIN L.proxies = DOMAIN J.proxies
  BY <1>1, <1>3 DEF Counts, CountsOnly
<1>12. QED
  BY <1>1, <1>3, <1>4, <1>5, <1>10, <1>11 DEF Released, Good

LEMMA ReleasesNot ==
  ASSUME NEW J, Good(J), NEW q \in Seq(Nat)
  PROVE  Released(J, J, q, 0)
<1>1. SubSeq(q, 1, 0) = <<>>
  BY SubSeqEmpty
<1>2. ASSUME NEW x PROVE Times(SubSeq(q, 1, 0), x) = 0
  <2>1. x \notin Members(<<>>)
    BY EmptyQueue
  <2>2. Times(<<>>, x) = 0
    BY <2>1, TimesNone
  <2>3. QED
    BY <1>1, <2>2
<1>3. \A x \in DOMAIN J.proxies : J.proxies[x].count \in Int
  BY ProxiesAre DEF Good
<1>4. QED
  BY <1>2, <1>3, MovesNot DEF Released, Good

LEMMA ClearGoes ==
  ASSUME NEW J, Sound(J), NEW s \in Streams, J.bound[s] # 0, NEW K, K = Clear(J, s)
  PROVE  Sound(K) /\ Goes(J, K, {})
<1>1. CASE J.tracks[s] = None
  BY <1>1, GoesNot DEF Clear
<1>2. CASE J.tracks[s] # None
  <2> DEFINE q == J.tracks[s]
             n == Len(q)
             U == {M \in JavaRecs : Good(M) /\ DOMAIN M.proxies = DOMAIN J.proxies}
             P == [i \in 0 .. n |-> {M \in U : Released(J, M, q, i)}]
             L == FoldLeft(Release, J, q)
  <2>1. q \in Seq(Nat) /\ n \in Nat /\ DOMAIN q = 1 .. n
    <3>1. q \in Seq(Nat)
      BY <1>2, ProxiesAre DEF Sound, Good
    <3>2. QED
      BY <3>1, LenProperties
  <2>2. \A i \in 1 .. n : q[i] \in DOMAIN J.proxies /\ J.proxies[q[i]].of \in Tracks
    BY <1>2, <2>1 DEF Sound, Good, Wired, Listed
  <2>3. K = SetList(L, s, None)
    BY <1>2, Zenon DEF Clear, SetList
  <2>4. J \in P[0]
    <3>1. Released(J, J, q, 0)
      BY <2>1, ReleasesNot DEF Sound
    <3>2. QED
      BY <2>1, <3>1 DEF Sound, Good
  <2>5. \A i \in 0 .. n : P[i] \subseteq U
    OBVIOUS
  <2>6. ASSUME NEW M \in U, NEW i \in 1 .. n PROVE Release(M, q[i]) \in U
    <3>1. Good(M) /\ q[i] \in DOMAIN M.proxies /\ DOMAIN M.proxies = DOMAIN J.proxies
      BY <2>2
    <3> DEFINE N == Release(M, q[i])
    <3>2. Good(N) /\ Counts(M, N, q[i], -1)
      BY <3>1, ReleaseDoes
    <3> HIDE DEF N
    <3>3. QED
      BY <3>1, <3>2 DEF Counts, CountsOnly, Good, N
  <2>7. ASSUME NEW i \in 1 .. n, NEW M \in P[i - 1] PROVE Release(M, q[i]) \in P[i]
    <3>1. i - 1 \in 0 .. n /\ i \in 0 .. n
      BY <2>1
    <3>2. Released(J, M, q, i - 1) /\ M \in U
      BY <3>1
    <3>3. Release(M, q[i]) \in U
      BY <2>6, <3>2
    <3>4. Released(J, Release(M, q[i]), q, i)
      BY <2>1, <2>2, <3>2, ReleasesOn DEF Sound
    <3> HIDE DEF U
    <3>5. QED
      BY <3>1, <3>3, <3>4
  <2>8. L \in P[n]
    <3> HIDE DEF U, P, q, n
    <3>1. FoldLeft(Release, J, q) \in P[n]
      BY <2>1, <2>4, <2>5, <2>6, <2>7, FoldRelease
    <3>2. QED
      BY <3>1
  <2>9. Released(J, L, q, n)
    BY <2>1, <2>8
  <2>10. SubSeq(q, 1, n) = q
    BY <2>1, SubSeqFull
  <2> HIDE DEF L, U, P
  <2>11. /\ Good(L) /\ Moves(J, L, {}) /\ L.tracks = J.tracks /\ L.bound = J.bound
         /\ \A e \in Events : Owned(L, e) = Owned(J, e)
         /\ DOMAIN L.proxies = DOMAIN J.proxies
         /\ \A x \in DOMAIN J.proxies :
              /\ L.proxies[x].of = J.proxies[x].of /\ L.proxies[x].ready = J.proxies[x].ready
              /\ L.proxies[x].count + Times(q, x) = J.proxies[x].count
    BY <2>9, <2>10 DEF Released
  <2>12. /\ Good(K) /\ Moves(L, K, {}) /\ OwnsSame(L, K)
         /\ K.proxies = L.proxies /\ K.bound = L.bound
         /\ K.tracks[s] = None /\ Relisted(L, K, s)
    <3>1. None \in Seq(Nat) \cup {None} /\ MayList(L, None)
      BY DEF MayList
    <3>2. QED
      BY <2>3, <2>11, <3>1, Relist
  <2>13. Relisted(J, K, s)
    BY <2>11, <2>12 DEF Relisted
  <2>14. Recounted(J, K, s)
    <3>1. ASSUME NEW x \in DOMAIN J.proxies
          PROVE  K.proxies[x].count >= J.proxies[x].count + 2 * InList(K.tracks[s], x) - 2 * InList(J.tracks[s], x)
      <4>1. InList(K.tracks[s], x) = 0 /\ InList(J.tracks[s], x) = Times(q, x)
        BY <1>2, <2>12 DEF InList
      <4>2. Times(q, x) \in Nat /\ J.proxies[x].count \in Int /\ L.proxies[x].count \in Int
        BY <2>1, <2>11, TimesType, ProxiesAre DEF Sound, Good
      <4>3. L.proxies[x].count + Times(q, x) = J.proxies[x].count
        BY <2>11
      <4>4. QED
        BY <2>12, <4>1, <4>2, <4>3
    <3>2. QED
      BY <2>11, <2>12, <3>1 DEF Recounted
  <2>15. Sound(K)
    BY <2>12, <2>13, <2>14, StillCounted
  <2>16. Moves(J, K, {})
    <3>1. Moves(J, K, {} \cup {})
      BY <2>11, <2>12, MovesOn
    <3>2. {} \cup {} = {}
      OBVIOUS
    <3>3. QED
      BY <3>1, <3>2
  <2>17. QED
    BY <2>11, <2>12, <2>15, <2>16 DEF Goes, OwnsSame
<1>3. QED
  BY <1>1, <1>2

\* The members of the lists of some streams.
AllListed(ss) == UNION {ToSet(java.tracks[s]) : s \in ss}

LEMMA CloseGoes ==
  ASSUME Sound(java), NEW ss, ss \subseteq Streams,
         \A s \in ss : java.bound[s] # 0 /\ java.tracks[s] # None, CloseStreams(ss)
  PROVE  /\ Sound(java') /\ Goes(java, java', {})
         /\ \E ps \in SUBSET DOMAIN java.proxies : stopping' = stopping \cup ps
<1> DEFINE ps == AllListed(ss)
           S == [java EXCEPT !.scripts = @ \o StopScripts(ps)]
           q == SetToSeq(ss)
           n == Len(q)
           U == {M \in JavaRecs : Sound(M) /\ Goes(S, M, {})}
           P == [i \in 0 .. n |-> U]
<1>1. stopping' = stopping \cup Stoppable(ps) /\ java' = FoldLeft(Clear, S, q)
  BY Zenon DEF CloseStreams, AllListed
<1>2. \A p \in ps : p \in DOMAIN java.proxies /\ java.proxies[p].of \in Tracks
  BY DEF AllListed, ToSet, Sound, Good, Wired, Listed
<1>3. Stoppable(ps) \subseteq DOMAIN java.proxies
  BY <1>2 DEF Stoppable
<1> HIDE DEF ps
<1>4. Sound(S) /\ Goes(java, S, {}) /\ S.bound = java.bound
  BY <1>2, StopGoes
<1> HIDE DEF S
<1>5. IsFiniteSet(ss)
  BY StreamsFinite, FS_Subset
<1>6. q \in Seq(ss) /\ n \in Nat /\ DOMAIN q = 1 .. n
  <2>1. q \in Seq(ss)
    BY <1>5, SequenceOf
  <2> HIDE DEF q
  <2>2. QED
    BY <2>1, LenProperties
<1> HIDE DEF q, n
<1>7. \A i \in 1 .. n : q[i] \in ss
  BY <1>6, ElementOfSeq DEF n
<1>8. ASSUME NEW M \in U, NEW i \in 1 .. n PROVE Clear(M, q[i]) \in U
  <2>1. q[i] \in Streams /\ S.bound[q[i]] # 0 /\ q[i] \in Objects
    BY <1>4, <1>7, ObjectKinds
  <2>2. Sound(M) /\ Goes(S, M, {}) /\ M.bound[q[i]] # 0
    BY <2>1 DEF Goes, Moves
  <2>3. Sound(Clear(M, q[i])) /\ Goes(M, Clear(M, q[i]), {})
    BY <2>1, <2>2, ClearGoes
  <2>4. Goes(S, Clear(M, q[i]), {})
    <3>1. {} \subseteq {}
      OBVIOUS
    <3>2. QED
      BY <2>2, <2>3, <3>1, GoesIn
  <2>5. QED
    BY <2>3, <2>4 DEF Sound, Good
<1>9. S \in P[0]
  <2>1. S \in JavaRecs /\ Goes(S, S, {})
    BY <1>4, GoesNot DEF Sound, Good
  <2>2. QED
    BY <1>4, <1>6, <2>1
<1>10. /\ \A i \in 0 .. n : P[i] \subseteq U
       /\ \A i \in 1 .. n : \A M \in P[i - 1] : Clear(M, q[i]) \in P[i]
  <2> HIDE DEF U
  <2> QED
    BY <1>6, <1>8
<1>11. FoldLeft(Clear, S, q) \in P[n]
  <2> HIDE DEF U, P
  <2> QED
    BY <1>6, <1>8, <1>9, <1>10, FoldClear
<1>12. Sound(java') /\ Goes(S, java', {})
  BY <1>1, <1>6, <1>11
<1>13. Goes(java, java', {})
  <2>1. {} \subseteq {}
    OBVIOUS
  <2>2. QED
    BY <1>4, <1>12, <2>1, GoesIn
<1>14. QED
  BY <1>1, <1>3, <1>12, <1>13

(***************************************************************************)
(* Scripts: a request is sent, and the page takes scripts out.              *)
(***************************************************************************)
\* From J to K only the scripts change.
Speaks(J, q) == [J EXCEPT !.scripts = q]
Mute(J, K) == K.proxies = J.proxies /\ K.bound = J.bound /\ K.tracks = J.tracks

LEMMA MuteSound ==
  ASSUME NEW J, Sound(J), NEW q \in Seq(Scripts), Spoken(J, q), NEW K, K = Speaks(J, q)
  PROVE  Sound(K) /\ Mute(J, K) /\ OwnsSame(J, K) /\ K.scripts = q
<1>1. /\ J = [proxies |-> J.proxies, bound |-> J.bound, scripts |-> J.scripts, tracks |-> J.tracks]
      /\ J \in JavaRecs
  BY DEF Sound, Good, JavaRecs
<1>2. /\ Mute(J, K) /\ K.scripts = q
      /\ K = [proxies |-> K.proxies, bound |-> K.bound, scripts |-> K.scripts, tracks |-> K.tracks]
  BY <1>1 DEF Mute, Speaks
<1>3. K \in JavaRecs
  BY <1>1, <1>2, ProxiesAre DEF JavaRecs, Mute
<1>4. OwnsSame(J, K)
  <2>1. K.proxies = J.proxies
    BY <1>2 DEF Mute
  <2>2. \A o : Owned(K, o) = Owned(J, o)
    BY <2>1, OwnedSame, Zenon
  <2>3. QED
    BY <2>2 DEF OwnsSame
<1>5. Wired(K)
  <2>1. BoundRight(K) /\ AllBound(K)
    BY <1>2 DEF Mute, Sound, Good, Wired, BoundRight, AllBound
  <2>2. Spoken(K, K.scripts)
    BY <1>2 DEF Mute, Spoken
  <2>3. Listed(K)
    BY <1>2 DEF Mute, Sound, Good, Wired, Listed
  <2>4. QED
    BY <2>1, <2>2, <2>3 DEF Wired
<1>6. Counted(K)
  <2>1. ASSUME NEW x \in DOMAIN J.proxies PROVE Backed(K, x)
    <3>1. Backed(J, x) /\ Spots(K, x) = Spots(J, x) /\ Entries(K, x) = Entries(J, x)
      <4>1. K.tracks = J.tracks
        BY <1>2 DEF Mute
      <4>2. Spots(K, x) = Spots(J, x) /\ Entries(K, x) = Entries(J, x)
        BY <4>1, SpotsSame
      <4>3. QED
        BY <4>2 DEF Sound, Counted
    <3>2. QED
      BY <1>2, <3>1 DEF Mute, Backed, Live
  <2>2. QED
    BY <1>2, <2>1 DEF Mute, Counted
<1>7. QED
  BY <1>2, <1>3, <1>4, <1>5, <1>6 DEF Sound, Good

DebtSame(J, K) == \A o : Debt(K, o) = Debt(J, o)
AsksMore(J, K, r, d) == \A x : Asks(K, x) = Asks(J, x) + (IF x = r THEN d ELSE 0)

LEMMA ScriptParts ==
  ASSUME NEW J \in JavaRecs, NEW K, Mute(J, K), OwnsSame(J, K), NEW o,
         UnderWay(K, "retain", o) = UnderWay(J, "retain", o),
         UnderWay(K, "release", o) = UnderWay(J, "release", o)
  PROVE  Debt(K, o) = Debt(J, o)
BY DEF Debt, Mute, OwnsSame

LEMMA RequestSent ==
  ASSUME Sound(java), NEW r \in Requests, SendGetUserMedia(r)
  PROVE  /\ Sound(java') /\ Mute(java, java') /\ OwnsSame(java, java') /\ DebtSame(java, java')
         /\ AsksMore(java, java', r, 1)
<1> DEFINE c == Script("getUserMedia", r)
           q == Append(java.scripts, c)
<1>1. java.scripts \in Seq(Scripts) /\ java \in JavaRecs
  BY ProxiesAre DEF Sound, Good
<1>2. c \in Scripts /\ c.op = "getUserMedia"
  BY DEF Script, Scripts
<1> HIDE DEF c
<1>3. q \in Seq(Scripts) /\ Members(q) = Members(java.scripts) \cup {c}
  BY <1>1, <1>2, AppendMembers
<1>4. java' = Speaks(java, q)
  BY DEF SendGetUserMedia, Speaks, c
<1> HIDE DEF q
<1>5. Spoken(java, q)
  BY <1>2, <1>3 DEF Sound, Good, Wired, Spoken
<1>6. Sound(java') /\ Mute(java, java') /\ OwnsSame(java, java') /\ java'.scripts = q
  <2> DEFINE K == java'
  <2>1. K = Speaks(java, q)
    BY <1>4
  <2> HIDE DEF K
  <2>2. Sound(K) /\ Mute(java, K) /\ OwnsSame(java, K) /\ K.scripts = q
    BY <1>3, <1>5, <2>1, MuteSound
  <2>3. QED
    BY <2>2 DEF K
<1>7. ASSUME NEW x
      PROVE  /\ Times(q, x) = Times(java.scripts, x) + (IF c = x THEN 1 ELSE 0)
             /\ Times(java.scripts, x) \in Nat
  BY <1>1, <1>2, TimesAppend, TimesType DEF q
<1>8. ASSUME NEW op \in {"retain", "release"}, NEW o
      PROVE  UnderWay(java', op, o) = UnderWay(java, op, o)
  <2>1. Script(op, o) # c
    BY <1>2 DEF Script
  <2>2. Times(q, Script(op, o)) = Times(java.scripts, Script(op, o)) + 0 /\ Times(java.scripts, Script(op, o)) \in Nat
    BY <1>7, <2>1
  <2>3. QED
    BY <1>6, <2>2, UnderWayIs
<1>9. ASSUME NEW o PROVE Debt(java', o) = Debt(java, o)
  BY <1>1, <1>6, <1>8, ScriptParts
<1>10. ASSUME NEW x PROVE Asks(java', x) = Asks(java, x) + (IF x = r THEN 1 ELSE 0)
  <2>1. Script("getUserMedia", x) = c <=> x = r
    BY DEF Script, c
  <2>2. Times(q, Script("getUserMedia", x))
          = Times(java.scripts, Script("getUserMedia", x)) + (IF c = Script("getUserMedia", x) THEN 1 ELSE 0)
    BY <1>7
  <2>3. QED
    BY <1>6, <2>1, <2>2 DEF Asks
<1>11. QED
  BY <1>6, <1>9, <1>10 DEF DebtSame, AsksMore

\* The first script is not about counts.
LEMMA ScriptTaken ==
  ASSUME NEW J, Sound(J), J.scripts # <<>>, Head(J.scripts).op \notin {"retain", "release"},
         NEW K, K = Speaks(J, Tail(J.scripts))
  PROVE  /\ Sound(K) /\ Mute(J, K) /\ OwnsSame(J, K) /\ DebtSame(J, K)
         /\ Head(J.scripts) \in Scripts
         /\ Head(J.scripts).op = "addTrack" => J.bound[Head(J.scripts).track] # 0
         /\ Head(J.scripts).op = "getUserMedia" => AsksMore(J, K, Head(J.scripts).of, -1)
         /\ Head(J.scripts).op # "getUserMedia" => \A r : Asks(K, r) = Asks(J, r)
<1> DEFINE c == Head(J.scripts)
           q == Tail(J.scripts)
<1>1. J.scripts \in Seq(Scripts) /\ J \in JavaRecs
  BY ProxiesAre DEF Sound, Good
<1>2. /\ q \in Seq(Scripts) /\ c \in Scripts
      /\ Members(J.scripts) = Members(q) \cup {c}
  BY <1>1, TailMembers
<1>3. J.scripts = <<c>> \o q
  <2>1. Len(J.scripts) \in Nat /\ J.scripts[1] = c /\ Len(J.scripts) # 0
    BY <1>1, TailPlaces, LenProperties, EmptySeq
  <2>2. 1 \in 1 .. Len(J.scripts) /\ Len(J.scripts) \in 1 .. Len(J.scripts)
    BY <2>1
  <2>3. SubSeq(J.scripts, 1, Len(J.scripts)) = <<J.scripts[1]>> \o SubSeq(J.scripts, 1 + 1, Len(J.scripts))
    BY <1>1, <2>2, SubSeqRecursiveFirst
  <2>4. SubSeq(J.scripts, 1, Len(J.scripts)) = J.scripts /\ q = SubSeq(J.scripts, 2, Len(J.scripts))
    BY <1>1, SubSeqFull, TailIsSubSeq
  <2>5. QED
    BY <2>1, <2>3, <2>4
<1> HIDE DEF c, q
<1>4. K = Speaks(J, q)
  BY DEF q
<1>5. Spoken(J, q) /\ (c.op = "addTrack" => J.bound[c.track] # 0)
  BY <1>2 DEF Sound, Good, Wired, Spoken
<1>6. Sound(K) /\ Mute(J, K) /\ OwnsSame(J, K) /\ K.scripts = q
  BY <1>2, <1>4, <1>5, MuteSound
<1>7. ASSUME NEW x
      PROVE  /\ Times(J.scripts, x) = (IF c = x THEN 1 ELSE 0) + Times(q, x)
             /\ Times(q, x) \in Nat
  <2>1. ASSUME NEW d \in Seq(Scripts) PROVE Times(d \o q, x) = Times(d, x) + Times(q, x)
    BY <1>2, TimesConcat
  <2>2. <<c>> \in Seq(Scripts)
    BY <1>2, OneMember
  <2>3. Times(<<c>> \o q, x) = Times(<<c>>, x) + Times(q, x)
    BY <2>1, <2>2
  <2>4. Times(<<c>>, x) = IF c = x THEN 1 ELSE 0
    BY TimesOne
  <2>5. QED
    BY <1>2, <1>3, <2>3, <2>4, TimesType
<1>8. ASSUME NEW op \in {"retain", "release"}, NEW o
      PROVE  UnderWay(K, op, o) = UnderWay(J, op, o)
  <2>1. Script(op, o) # c
    BY DEF Script, c
  <2>2. Times(J.scripts, Script(op, o)) = 0 + Times(q, Script(op, o)) /\ Times(q, Script(op, o)) \in Nat
    BY <1>7, <2>1
  <2>3. QED
    BY <1>6, <2>2, UnderWayIs
<1>9. ASSUME NEW o PROVE Debt(K, o) = Debt(J, o)
  BY <1>1, <1>6, <1>8, ScriptParts
<1>10. ASSUME NEW x
       PROVE  Asks(J, x) = (IF c = Script("getUserMedia", x) THEN 1 ELSE 0) + Asks(K, x) /\ Asks(K, x) \in Nat
  BY <1>6, <1>7 DEF Asks
<1>11. ASSUME c.op = "getUserMedia", NEW x PROVE Asks(K, x) = Asks(J, x) + (IF x = c.of THEN -1 ELSE 0)
  <2>1. c = Script("getUserMedia", x) <=> x = c.of
    BY <1>2, <1>11 DEF Script, Scripts
  <2>2. CASE x = c.of
    <3>1. Asks(J, x) = 1 + Asks(K, x) /\ Asks(K, x) \in Nat
      BY <1>10, <2>1, <2>2
    <3>2. QED
      BY <2>2, <3>1
  <2>3. CASE x # c.of
    <3>1. Asks(J, x) = 0 + Asks(K, x) /\ Asks(K, x) \in Nat
      BY <1>10, <2>1, <2>3
    <3>2. QED
      BY <2>3, <3>1
  <2>4. QED
    BY <2>2, <2>3
<1>12. ASSUME c.op # "getUserMedia", NEW x PROVE Asks(K, x) = Asks(J, x)
  <2>1. c # Script("getUserMedia", x)
    BY <1>12 DEF Script
  <2>2. Asks(J, x) = 0 + Asks(K, x) /\ Asks(K, x) \in Nat
    BY <1>10, <2>1
  <2>3. QED
    BY <2>2
<1>13. QED
  BY <1>2, <1>5, <1>6, <1>9, <1>11, <1>12 DEF DebtSame, AsksMore, c

(***************************************************************************)
(* The page.                                                                *)
(***************************************************************************)
PageRecs == [known : SUBSET Objects, count : [Objects -> Int], heard : [Tracks -> Nat],
             tracks : [Streams -> Seq(Tracks)]]

LEMMA PageIs ==
  ASSUME NEW P \in PageRecs
  PROVE  /\ P.known \in SUBSET Objects /\ P.count \in [Objects -> Int] /\ P.heard \in [Tracks -> Nat]
         /\ P.tracks \in [Streams -> Seq(Tracks)]
         /\ P = [known |-> P.known, count |-> P.count, heard |-> P.heard, tracks |-> P.tracks]
BY DEF PageRecs

\* From P to Q objects of X are counted, those that were not known once at least, and
\* of tracks that were not known listeners are installed.
Wraps(P, Q, X) ==
  /\ P \in PageRecs /\ Q \in PageRecs /\ Q.tracks = P.tracks
  /\ P.known \subseteq Q.known /\ Q.known \subseteq P.known \cup X
  /\ \A o \in Objects : /\ Q.count[o] >= P.count[o]
                        /\ o \notin X => Q.count[o] = P.count[o]
                        /\ o \in Q.known /\ o \notin P.known => Q.count[o] >= P.count[o] + 1
  /\ \A t \in Tracks : /\ Q.heard[t] >= P.heard[t]
                       /\ t \in Q.known /\ t \notin P.known => Q.heard[t] >= 1

LEMMA WrapsNot == ASSUME NEW P \in PageRecs, NEW X PROVE Wraps(P, P, X)
BY PageIs DEF Wraps

LEMMA WrapsOn ==
  ASSUME NEW P, NEW Q, NEW R, NEW X, NEW Y, NEW Z, Wraps(P, Q, X), Wraps(Q, R, Y),
         X \subseteq Z, Y \subseteq Z
  PROVE  Wraps(P, R, Z)
<1>1. /\ P \in PageRecs /\ Q \in PageRecs /\ R \in PageRecs /\ Q.tracks = P.tracks /\ R.tracks = Q.tracks
      /\ P.known \subseteq Q.known /\ Q.known \subseteq P.known \cup X
      /\ Q.known \subseteq R.known /\ R.known \subseteq Q.known \cup Y
  BY DEF Wraps
<1>2. ASSUME NEW o \in Objects
      PROVE  /\ R.count[o] >= P.count[o]
             /\ o \notin Z => R.count[o] = P.count[o]
             /\ o \in R.known /\ o \notin P.known => R.count[o] >= P.count[o] + 1
  <2>1. P.count[o] \in Int /\ Q.count[o] \in Int /\ R.count[o] \in Int
    BY <1>1, PageIs
  <2>2. /\ Q.count[o] >= P.count[o] /\ R.count[o] >= Q.count[o]
        /\ o \notin X => Q.count[o] = P.count[o]
        /\ o \notin Y => R.count[o] = Q.count[o]
        /\ o \in Q.known /\ o \notin P.known => Q.count[o] >= P.count[o] + 1
        /\ o \in R.known /\ o \notin Q.known => R.count[o] >= Q.count[o] + 1
    BY DEF Wraps
  <2>3. QED
    BY <2>1, <2>2
<1>3. ASSUME NEW t \in Tracks
      PROVE  /\ R.heard[t] >= P.heard[t]
             /\ t \in R.known /\ t \notin P.known => R.heard[t] >= 1
  <2>1. P.heard[t] \in Nat /\ Q.heard[t] \in Nat /\ R.heard[t] \in Nat
    BY <1>1, PageIs
  <2>2. /\ Q.heard[t] >= P.heard[t] /\ R.heard[t] >= Q.heard[t]
        /\ t \in Q.known /\ t \notin P.known => Q.heard[t] >= 1
        /\ t \in R.known /\ t \notin Q.known => R.heard[t] >= 1
    BY DEF Wraps
  <2>3. QED
    BY <2>1, <2>2
<1>4. QED
  BY <1>1, <1>2, <1>3 DEF Wraps

LEMMA WrapGoes ==
  ASSUME NEW P \in PageRecs, NEW o \in Objects, NEW Q, Q = Wrap(P, o)
  PROVE  /\ Wraps(P, Q, {o}) /\ o \in Q.known /\ Q.count[o] = P.count[o] + 1
         /\ o \in P.known => Q = [P EXCEPT !.count[o] = @ + 1]
<1>1. /\ P.known \in SUBSET Objects /\ P.count \in [Objects -> Int] /\ P.heard \in [Tracks -> Nat]
      /\ P.tracks \in [Streams -> Seq(Tracks)]
      /\ P = [known |-> P.known, count |-> P.count, heard |-> P.heard, tracks |-> P.tracks]
  BY PageIs
<1>2. Q = PageRetain(P, o, Installs(P, o)) /\ (o \in Tracks => o \in Installs(P, o))
  BY ObjectKinds DEF Wrap, Installs
<1> DEFINE I == Installs(P, o)
           c == [P.count EXCEPT ![o] = @ + 1]
           h == [t \in Tracks |-> IF t \in I THEN P.heard[t] + 1 ELSE P.heard[t]]
<1> HIDE DEF I
<1>3. c \in [Objects -> Int] /\ c[o] = P.count[o] + 1 /\ \A x \in Objects : x # o => c[x] = P.count[x]
  BY <1>1
<1>4. h \in [Tracks -> Nat] /\ \A t \in Tracks : h[t] >= P.heard[t] /\ (t \in I => h[t] >= 1)
  BY <1>1
<1>5. CASE o \in P.known
  <2>1. Q = [known |-> P.known, count |-> c, heard |-> P.heard, tracks |-> P.tracks]
    BY <1>1, <1>2, <1>5 DEF PageRetain
  <2>2. Q = [P EXCEPT !.count[o] = @ + 1]
    BY <1>2, <1>5 DEF PageRetain
  <2> HIDE DEF c
  <2>3. Q \in PageRecs /\ Q.known = P.known /\ Q.count = c /\ Q.heard = P.heard /\ Q.tracks = P.tracks
    BY <1>1, <1>3, <2>1 DEF PageRecs
  <2>4. QED
    BY <1>1, <1>3, <1>5, <2>2, <2>3 DEF Wraps
<1>6. CASE o \notin P.known
  <2>1. Q = [known |-> P.known \cup {o}, count |-> c, heard |-> h, tracks |-> P.tracks]
    <3>1. PageRetain(P, o, I) = [known |-> P.known \cup {o}, count |-> c, heard |-> h, tracks |-> P.tracks]
      BY <1>1, <1>6 DEF PageRetain
    <3>2. QED
      BY <1>2, <3>1 DEF I
  <2> HIDE DEF c, h
  <2>2. /\ Q \in PageRecs /\ Q.known = P.known \cup {o} /\ Q.count = c /\ Q.heard = h
        /\ Q.tracks = P.tracks
    BY <1>1, <1>3, <1>4, <2>1 DEF PageRecs
  <2>3. o \in Tracks => o \in I
    BY <1>2 DEF I
  <2>4. ASSUME NEW x \in Objects
        PROVE  /\ c[x] >= P.count[x] /\ (x # o => c[x] = P.count[x])
               /\ x \in Q.known /\ x \notin P.known => c[x] >= P.count[x] + 1
    BY <1>1, <1>3, <2>2
  <2>5. QED
    BY <1>3, <1>4, <1>6, <2>2, <2>3, <2>4 DEF Wraps
<1>7. QED
  BY <1>5, <1>6

LEMMA WrapAllGoes ==
  ASSUME NEW P \in PageRecs, NEW os \in Seq(Objects), NEW Q, Q = WrapAll(P, os)
  PROVE  Wraps(P, Q, Members(os)) /\ Members(os) \subseteq Q.known
<1> DEFINE n == Len(os)
           X == Members(os)
           A == [i \in 0 .. n |-> {R \in PageRecs : Wraps(P, R, X) /\ \A j \in 1 .. i : os[j] \in R.known}]
<1>1. n \in Nat /\ DOMAIN os = 1 .. n /\ \A i \in 1 .. n : os[i] \in Objects /\ os[i] \in X
  BY LenProperties, ElementOfSeq DEF Members
<1> HIDE DEF X, n
<1>2. P \in A[0]
  BY <1>1, WrapsNot
<1>3. ASSUME NEW R \in PageRecs, NEW i \in 1 .. n PROVE Wrap(R, os[i]) \in PageRecs
  <2> DEFINE T == Wrap(R, os[i])
  <2>1. Wraps(R, T, {os[i]})
    BY <1>1, WrapGoes
  <2>2. QED
    BY <2>1 DEF Wraps
<1>4. ASSUME NEW i \in 1 .. n, NEW R \in A[i - 1] PROVE Wrap(R, os[i]) \in A[i]
  <2> DEFINE T == Wrap(R, os[i])
  <2>1. i - 1 \in 0 .. n /\ i \in 0 .. n
    BY <1>1
  <2>2. R \in PageRecs /\ Wraps(P, R, X) /\ \A j \in 1 .. i - 1 : os[j] \in R.known
    BY <2>1
  <2>3. Wraps(R, T, {os[i]}) /\ os[i] \in T.known
    BY <1>1, <2>2, WrapGoes
  <2> HIDE DEF T
  <2>4. Wraps(P, T, X)
    <3>1. {os[i]} \subseteq X /\ X \subseteq X
      BY <1>1
    <3>2. QED
      BY <2>2, <2>3, <3>1, WrapsOn
  <2>5. \A j \in 1 .. i : os[j] \in T.known
    BY <1>1, <2>2, <2>3 DEF Wraps
  <2>6. T \in A[i]
    BY <2>1, <2>3, <2>4, <2>5 DEF Wraps
  <2>7. QED
    BY <2>6 DEF T
<1>5. \A i \in 0 .. n : A[i] \subseteq PageRecs
  OBVIOUS
<1>6. Q = FoldLeft(Wrap, P, os)
  BY DEF WrapAll
<1>7. Q \in A[n]
  <2> HIDE DEF A
  <2>1. FoldLeft(Wrap, P, os) \in A[n]
    BY <1>1, <1>2, <1>3, <1>4, <1>5, FoldWrap
  <2>2. QED
    BY <1>6, <2>1
<1>8. Wraps(P, Q, X) /\ \A j \in 1 .. n : os[j] \in Q.known
  BY <1>1, <1>7
<1>9. QED
  BY <1>1, <1>8 DEF X, Members

LEMMA WrapStreamGoes ==
  ASSUME NEW P \in PageRecs, NEW s \in Streams, NEW Q, Q = WrapStream(P, s)
  PROVE  /\ Wraps(P, Q, {s} \cup Members(P.tracks[s]))
         /\ {s} \cup Members(P.tracks[s]) \subseteq Q.known
<1> DEFINE q == P.tracks[s]
           os == <<s>> \o q
<1>1. q \in Seq(Objects) /\ s \in Objects
  <2>1. q \in Seq(Tracks) /\ Tracks \subseteq Objects
    BY PageIs, ObjectKinds
  <2>2. QED
    BY <2>1, SeqMonotonic, ObjectKinds
<1> HIDE DEF q
<1>2. <<s>> \in Seq(Objects) /\ Members(<<s>>) = {s}
  BY <1>1, OneMember
<1>3. os \in Seq(Objects) /\ Members(os) = {s} \cup Members(q)
  <2>1. ASSUME NEW d \in Seq(Objects) PROVE d \o q \in Seq(Objects) /\ Members(d \o q) = Members(d) \cup Members(q)
    BY <1>1, ConcatMembers
  <2>2. QED
    BY <1>2, <2>1
<1>4. Q = WrapAll(P, os)
  BY DEF WrapStream, q
<1> HIDE DEF os
<1>5. QED
  BY <1>3, <1>4, WrapAllGoes DEF q

LEMMA WrapStreamsGo ==
  ASSUME NEW P \in PageRecs, NEW ss \in Seq(Streams), NEW X,
         \A i \in DOMAIN ss : {ss[i]} \cup Members(P.tracks[ss[i]]) \subseteq X,
         NEW Q, Q = FoldLeft(WrapStream, P, ss)
  PROVE  /\ Wraps(P, Q, X)
         /\ \A i \in DOMAIN ss : {ss[i]} \cup Members(P.tracks[ss[i]]) \subseteq Q.known
<1> DEFINE n == Len(ss)
           O(i) == {ss[i]} \cup Members(P.tracks[ss[i]])
           A == [i \in 0 .. n |-> {R \in PageRecs : Wraps(P, R, X) /\ \A j \in 1 .. i : O(j) \subseteq R.known}]
<1>1. n \in Nat /\ DOMAIN ss = 1 .. n /\ \A i \in 1 .. n : ss[i] \in Streams /\ O(i) \subseteq X
  BY LenProperties, ElementOfSeq
<1> HIDE DEF n
<1>2. P \in A[0]
  BY <1>1, WrapsNot
<1>3. ASSUME NEW R \in PageRecs, NEW i \in 1 .. n PROVE WrapStream(R, ss[i]) \in PageRecs
  <2> DEFINE T == WrapStream(R, ss[i])
  <2>1. Wraps(R, T, {ss[i]} \cup Members(R.tracks[ss[i]]))
    BY <1>1, WrapStreamGoes
  <2>2. QED
    BY <2>1 DEF Wraps
<1>4. ASSUME NEW i \in 1 .. n, NEW R \in A[i - 1] PROVE WrapStream(R, ss[i]) \in A[i]
  <2> DEFINE T == WrapStream(R, ss[i])
  <2>1. i - 1 \in 0 .. n /\ i \in 0 .. n
    BY <1>1
  <2>2. R \in PageRecs /\ Wraps(P, R, X) /\ \A j \in 1 .. i - 1 : O(j) \subseteq R.known
    BY <2>1
  <2>3. O(i) = {ss[i]} \cup Members(R.tracks[ss[i]])
    BY <2>2 DEF Wraps
  <2>4. Wraps(R, T, O(i)) /\ O(i) \subseteq T.known
    <3>1. Wraps(R, T, {ss[i]} \cup Members(R.tracks[ss[i]])) /\ {ss[i]} \cup Members(R.tracks[ss[i]]) \subseteq T.known
      BY <1>1, <2>2, WrapStreamGoes
    <3> HIDE DEF T, O
    <3>2. QED
      BY <2>3, <3>1
  <2> HIDE DEF T, O
  <2>5. Wraps(P, T, X)
    <3>1. O(i) \subseteq X /\ X \subseteq X
      BY <1>1
    <3>2. QED
      BY <2>2, <2>4, <3>1, WrapsOn
  <2>6. \A j \in 1 .. i : O(j) \subseteq T.known
    <3>1. R.known \subseteq T.known
      BY <2>4 DEF Wraps
    <3>2. \A j \in 1 .. i : j \in 1 .. i - 1 \/ j = i
      BY <2>1
    <3>3. QED
      BY <2>2, <2>4, <3>1, <3>2
  <2>7. T \in A[i]
    BY <2>1, <2>4, <2>5, <2>6 DEF Wraps
  <2>8. QED
    BY <2>7 DEF T
<1>5. \A i \in 0 .. n : A[i] \subseteq PageRecs
  OBVIOUS
<1>6. Q \in A[n]
  <2> HIDE DEF A
  <2>1. FoldLeft(WrapStream, P, ss) \in A[n]
    BY <1>1, <1>2, <1>3, <1>4, <1>5, FoldWrapStream
  <2>2. QED
    BY <2>1
<1>7. Wraps(P, Q, X) /\ \A j \in 1 .. n : O(j) \subseteq Q.known
  BY <1>1, <1>6
<1>8. QED
  BY <1>1, <1>7

(***************************************************************************)
(* What a message tells Java of.                                           *)
(***************************************************************************)
Arrivals == [track : RemoteTracks, streams : Seq(RemoteStreams), sends : Seq(Tracks)]

LEMMA InfoIs ==
  ASSUME NEW t
  PROVE  Info(t).of = t /\ Info(t).ready \in {"live", "ended"} /\ Info(t) = [of |-> t, ready |-> Info(t).ready]
BY DEF Info

\* The tracks that what is told of a stream lists.
Lists(s) == {s.tracks[i].of : i \in DOMAIN s.tracks}

LEMMA StreamToldIs ==
  ASSUME NEW P \in PageRecs, NEW S \in SUBSET Streams, NEW s \in S
  PROVE  /\ StreamInfo(P, s) \in StreamInfos(S) /\ StreamInfo(P, s).of = s
         /\ Told(StreamInfo(P, s)) = {s} \cup Members(P.tracks[s])
         /\ Lists(StreamInfo(P, s)) = Members(P.tracks[s])
<1> DEFINE q == P.tracks[s]
           r == [i \in DOMAIN q |-> Info(q[i])]
<1>1. q \in Seq(Tracks)
  BY PageIs
<1>2. Len(q) \in Nat /\ DOMAIN q = 1 .. Len(q) /\ \A i \in DOMAIN q : q[i] \in Tracks
  BY <1>1, LenProperties, ElementOfSeq
<1>3. StreamInfo(P, s) = [of |-> s, tracks |-> r]
  BY DEF StreamInfo
<1> HIDE DEF q
<1>4. ASSUME NEW i \in DOMAIN q PROVE Info(q[i]) \in TrackInfo
  BY <1>2, InfoIs DEF TrackInfo
<1>5. r \in Seq(TrackInfo) /\ DOMAIN r = DOMAIN q /\ \A i \in DOMAIN q : r[i].of = q[i]
  <2>1. \A i \in 1 .. Len(q) : r[i] \in TrackInfo
    BY <1>2, <1>4
  <2>2. r \in [1 .. Len(q) -> TrackInfo]
    BY <1>2, <2>1
  <2>3. r \in Seq(TrackInfo)
    <3> HIDE DEF r
    <3> QED
      BY <1>2, <2>2, IsASeq
  <2>4. QED
    BY <2>3, InfoIs
<1> HIDE DEF r
<1>6. /\ StreamInfo(P, s) \in StreamInfos(S) /\ StreamInfo(P, s).of = s /\ StreamInfo(P, s).tracks = r
  BY <1>3, <1>5 DEF StreamInfos
<1>7. {r[i].of : i \in DOMAIN r} = Members(q)
  BY <1>5 DEF Members
<1>8. QED
  BY <1>6, <1>7 DEF Told, Lists, q

\* What an event about arrival a wraps, besides streams.
About(e, t)  == {e, t, Receiver(t), Transceiver(t), Sender(t)}
Around(e, a) == About(e, a.track) \cup Members(a.sends)
Carried(P, ss) == UNION {{ss[i]} \cup Members(P.tracks[ss[i]]) : i \in DOMAIN ss}

LEMMA TrackMessageTold ==
  ASSUME NEW P \in PageRecs, NEW e \in Events, NEW a \in Arrivals, NEW m, m = TrackMessage(P, e, a)
  PROVE  /\ m \in TrackMessages /\ m \in Message /\ m.type = "track" /\ m.of = e /\ m.track.of = a.track
         /\ EventTold(m) = Around(e, a) \cup Carried(P, a.streams)
<1> DEFINE ss == a.streams
           r == [i \in DOMAIN ss |-> StreamInfo(P, ss[i])]
           t == Info(a.track)
           u == [i \in DOMAIN a.sends |-> Info(a.sends[i])]
<1>1. a.track \in RemoteTracks /\ ss \in Seq(RemoteStreams) /\ RemoteStreams \subseteq Streams
  BY DEF Arrivals, Streams
<1>2. Len(ss) \in Nat /\ DOMAIN ss = 1 .. Len(ss) /\ \A i \in DOMAIN ss : ss[i] \in RemoteStreams
  BY <1>1, LenProperties, ElementOfSeq
<1>3. m = [type |-> "track", of |-> e, track |-> t, streams |-> r, sends |-> u]
  BY DEF TrackMessage
<1>4. t.of = a.track /\ t \in RemoteInfo
  BY <1>1, InfoIs DEF RemoteInfo
<1> HIDE DEF ss, t
<1>5. u \in Seq(TrackInfo) /\ Sent(u) = Members(a.sends)
  <2>1. a.sends \in Seq(Tracks)
    BY DEF Arrivals
  <2>2. Len(a.sends) \in Nat /\ DOMAIN a.sends = 1 .. Len(a.sends) /\ \A i \in DOMAIN a.sends : a.sends[i] \in Tracks
    BY <2>1, LenProperties, ElementOfSeq
  <2>3. \A i \in DOMAIN a.sends : Info(a.sends[i]) \in TrackInfo /\ Info(a.sends[i]).of = a.sends[i]
    BY <2>2, InfoIs DEF TrackInfo
  <2>4. u \in [1 .. Len(a.sends) -> TrackInfo]
    BY <2>2, <2>3
  <2>5. DOMAIN u = DOMAIN a.sends /\ \A i \in DOMAIN u : u[i].of = a.sends[i]
    BY <2>3
  <2> HIDE DEF u
  <2>6. u \in Seq(TrackInfo)
    BY <2>2, <2>4, IsASeq
  <2>7. QED
    BY <2>5, <2>6 DEF Sent, Members
<1> HIDE DEF u
<1>6. ASSUME NEW i \in DOMAIN ss
      PROVE  /\ StreamInfo(P, ss[i]) \in StreamInfos(RemoteStreams)
             /\ Told(StreamInfo(P, ss[i])) = {ss[i]} \cup Members(P.tracks[ss[i]])
  BY <1>1, <1>2, StreamToldIs
<1>7. r \in Seq(StreamInfos(RemoteStreams)) /\ DOMAIN r = DOMAIN ss
  <2>1. r \in [1 .. Len(ss) -> StreamInfos(RemoteStreams)]
    BY <1>2, <1>6
  <2>2. DOMAIN r = DOMAIN ss
    OBVIOUS
  <2> HIDE DEF r
  <2>3. QED
    BY <1>2, <2>1, <2>2, IsASeq
<1>8. AllTold(r) = Carried(P, ss)
  <2>1. \A i \in DOMAIN ss : Told(r[i]) = {ss[i]} \cup Members(P.tracks[ss[i]])
    BY <1>6
  <2> HIDE DEF r
  <2>2. QED
    BY <1>7, <2>1 DEF AllTold, Carried
<1> HIDE DEF r
<1>9. /\ m \in TrackMessages /\ m.type = "track" /\ m.of = e /\ m.track = t /\ m.streams = r /\ m.sends = u
  BY <1>3, <1>4, <1>7, <1>5 DEF TrackMessages
<1>10. m \in Message
  BY <1>9 DEF TrackMessages, Message, RemoteInfo
<1>11. EventTold(m) = Around(e, a) \cup Carried(P, ss)
  BY <1>4, <1>8, <1>9, <1>5 DEF EventTold, Around, About
<1>12. QED
  BY <1>4, <1>9, <1>10, <1>11 DEF ss

LEMMA EventsApart ==
  ASSUME NEW P \in PageRecs, NEW e \in Events, NEW a \in Arrivals
  PROVE  /\ Around(e, a) \subseteq Objects /\ Carried(P, a.streams) \subseteq Objects
         /\ (Around(e, a) \cup Carried(P, a.streams)) \cap Events = {e}
         /\ (Around(e, a) \cup Carried(P, a.streams)) \cap Tracks
              = {a.track} \cup Members(a.sends)
                  \cup UNION {Members(P.tracks[a.streams[i]]) : i \in DOMAIN a.streams}
<1> DEFINE ss == a.streams
<1>1. a.track \in RemoteTracks /\ ss \in Seq(RemoteStreams) /\ RemoteStreams \subseteq Streams
  BY DEF Arrivals, Streams
<1>2. Len(ss) \in Nat /\ DOMAIN ss = 1 .. Len(ss) /\ \A i \in DOMAIN ss : ss[i] \in Streams
  BY <1>1, LenProperties, ElementOfSeq
<1> HIDE DEF ss
<1>3. \A i \in DOMAIN ss : Members(P.tracks[ss[i]]) \subseteq Tracks
  BY <1>2, PageIs, MembersType
<1>4. Carried(P, ss) \subseteq Objects /\ Carried(P, ss) \cap Events = {}
  BY <1>2, <1>3, ObjectKinds DEF Carried
<1>5. Carried(P, ss) \cap Tracks = UNION {Members(P.tracks[ss[i]]) : i \in DOMAIN ss}
  BY <1>2, <1>3, ObjectKinds DEF Carried
<1>6. About(e, a.track) \subseteq Objects /\ About(e, a.track) \cap Events = {e}
  BY <1>1, ObjectKinds DEF About
<1>7. About(e, a.track) \cap Tracks = {a.track}
  <2>1. e \notin Tracks /\ a.track \in Tracks
    BY <1>1, ObjectKinds, ObjectsApart
  <2>2. Receiver(a.track) \notin Tracks /\ Transceiver(a.track) \notin Tracks /\ Sender(a.track) \notin Tracks
    BY <1>1, ObjectsApart
  <2>3. QED
    BY <2>1, <2>2 DEF About
<1>8. Members(a.sends) \subseteq Tracks
  BY MembersType DEF Arrivals
<1>9. Members(a.sends) \subseteq Objects /\ Members(a.sends) \cap Events = {}
  BY <1>8, ObjectKinds
<1>10. Around(e, a) \subseteq Objects /\ Around(e, a) \cap Events = {e}
  BY <1>6, <1>9 DEF Around
<1>11. Around(e, a) \cap Tracks = {a.track} \cup Members(a.sends)
  BY <1>7, <1>8 DEF Around
<1>12. QED
  BY <1>4, <1>5, <1>10, <1>11 DEF ss

LEMMA WrapEventGoes ==
  ASSUME NEW P \in PageRecs, NEW e \in Events, NEW a \in Arrivals, NEW Q, Q = WrapEvent(P, e, a)
  PROVE  /\ Wraps(P, Q, Around(e, a) \cup Carried(P, a.streams))
         /\ Around(e, a) \cup Carried(P, a.streams) \subseteq Q.known
         /\ Q.count[e] = P.count[e] + 1
<1> DEFINE t == a.track
           ss == a.streams
           sends == a.sends
           X == Around(e, a) \cup Carried(P, ss)
           X1 == {Receiver(t), t}
           X3 == {t, Transceiver(t), Receiver(t), Sender(t)} \cup Members(sends)
           A == Wrap(P, e)
           B == WrapAll(A, <<Receiver(t), t>>)
           C == FoldLeft(WrapStream, B, ss)
           D == WrapAll(C, <<t, Transceiver(t), Receiver(t), t, Sender(t)>> \o sends)
<1>1. /\ t \in RemoteTracks /\ ss \in Seq(RemoteStreams) /\ RemoteStreams \subseteq Streams
      /\ sends \in Seq(Tracks)
  BY DEF Arrivals, Streams
<1>2. /\ t \in Objects /\ Receiver(t) \in Objects /\ Transceiver(t) \in Objects /\ Sender(t) \in Objects
      /\ t \notin Events /\ Receiver(t) \notin Events /\ Transceiver(t) \notin Events
      /\ Sender(t) \notin Events /\ e \in Objects
  BY <1>1, ObjectKinds
<1>3. ss \in Seq(Streams)
  BY <1>1, SeqMonotonic
<1>4. sends \in Seq(Objects) /\ Members(sends) \cap Events = {}
  <2>1. Tracks \subseteq Objects /\ Tracks \cap Events = {}
    BY ObjectKinds
  <2>2. Members(sends) \subseteq Tracks
    BY <1>1, MembersType
  <2>3. QED
    BY <1>1, <2>1, <2>2, SeqMonotonic
<1>5. Q = D
  BY Zenon DEF WrapEvent
<1>6. Wraps(P, A, {e}) /\ e \in A.known /\ A.count[e] = P.count[e] + 1
  BY <1>2, WrapGoes
<1> HIDE DEF A, t, ss, sends
<1>7. Wraps(A, B, X1) /\ X1 \subseteq B.known
  <2> DEFINE os == <<Receiver(t), t>>
  <2>1. os \in Seq(Objects)
    BY <1>2
  <2>2. Members(os) = X1
    BY DEF Members
  <2>3. A \in PageRecs
    BY <1>6 DEF Wraps
  <2>4. B = WrapAll(A, os)
    OBVIOUS
  <2> HIDE DEF os, B, X1
  <2>5. QED
    BY <2>1, <2>2, <2>3, <2>4, WrapAllGoes
<1> HIDE DEF B
<1>8. Wraps(B, C, Carried(P, ss)) /\ Carried(P, ss) \subseteq C.known
  <2>1. B \in PageRecs /\ B.tracks = P.tracks
    BY <1>6, <1>7 DEF Wraps
  <2>2. \A i \in DOMAIN ss : {ss[i]} \cup Members(B.tracks[ss[i]]) \subseteq Carried(P, ss)
    BY <2>1 DEF Carried
  <2>3. /\ Wraps(B, C, Carried(P, ss))
        /\ \A i \in DOMAIN ss : {ss[i]} \cup Members(B.tracks[ss[i]]) \subseteq C.known
    BY <1>3, <2>1, <2>2, WrapStreamsGo
  <2> HIDE DEF C
  <2>4. QED
    BY <2>1, <2>3 DEF Carried
<1> HIDE DEF C
<1>9. Wraps(C, D, X3) /\ X3 \subseteq D.known
  <2> DEFINE five == <<t, Transceiver(t), Receiver(t), t, Sender(t)>>
             os == five \o sends
  <2>1. five \in Seq(Objects)
    BY <1>2
  <2>2. Members(five) = {t, Transceiver(t), Receiver(t), Sender(t)}
    <3>1. DOMAIN five = 1 .. 5
      OBVIOUS
    <3>2. /\ five[1] = t /\ five[2] = Transceiver(t) /\ five[3] = Receiver(t) /\ five[4] = t
          /\ five[5] = Sender(t)
      OBVIOUS
    <3> HIDE DEF five
    <3>3. \A i \in DOMAIN five : i = 1 \/ i = 2 \/ i = 3 \/ i = 4 \/ i = 5
      BY <3>1
    <3>4. 1 \in DOMAIN five /\ 2 \in DOMAIN five /\ 3 \in DOMAIN five /\ 5 \in DOMAIN five
      BY <3>1
    <3>5. QED
      BY <3>2, <3>3, <3>4 DEF Members
  <2>3. C \in PageRecs
    BY <1>8 DEF Wraps
  <2>4. D = WrapAll(C, os)
    OBVIOUS
  <2> HIDE DEF five
  <2>5. os \in Seq(Objects) /\ Members(os) = X3
    BY <1>4, <2>1, <2>2, ConcatMembers
  <2> HIDE DEF os, D, X3
  <2>6. QED
    BY <2>3, <2>4, <2>5, WrapAllGoes
<1> HIDE DEF D
<1>10. {e} \subseteq X /\ X1 \subseteq X /\ Carried(P, ss) \subseteq X /\ X3 \subseteq X /\ X \subseteq X
  BY DEF Around, About, t, sends
<1>11. X = {e} \cup X1 \cup Carried(P, ss) \cup X3
  BY DEF Around, About, t, sends
<1> HIDE DEF X
<1>12. Wraps(P, B, X)
  BY <1>6, <1>7, <1>10, WrapsOn
<1>13. Wraps(P, C, X)
  BY <1>8, <1>10, <1>12, WrapsOn
<1>14. Wraps(P, D, X)
  BY <1>9, <1>10, <1>13, WrapsOn
<1>15. e \notin X1 /\ e \notin X3 /\ e \notin Carried(P, ss)
  <2>1. Carried(P, ss) \cap Events = {}
    <3>1. DOMAIN ss = 1 .. Len(ss) /\ \A i \in DOMAIN ss : ss[i] \in Streams
      BY <1>3, LenProperties, ElementOfSeq
    <3>2. \A i \in DOMAIN ss : Members(P.tracks[ss[i]]) \subseteq Tracks
      BY <3>1, PageIs, MembersType
    <3>3. QED
      BY <3>1, <3>2, ObjectKinds DEF Carried
  <2>2. QED
    BY <1>2, <1>4, <2>1
<1>16. D.count[e] = A.count[e]
  <2>1. B.count[e] = A.count[e]
    BY <1>2, <1>7, <1>15 DEF Wraps
  <2>2. C.count[e] = B.count[e]
    BY <1>2, <1>8, <1>15 DEF Wraps
  <2>3. D.count[e] = C.count[e]
    BY <1>2, <1>9, <1>15 DEF Wraps
  <2>4. QED
    BY <2>1, <2>2, <2>3
<1>17. X \subseteq D.known
  <2>1. e \in A.known /\ A.known \subseteq B.known /\ B.known \subseteq C.known /\ C.known \subseteq D.known
    BY <1>6, <1>7, <1>8, <1>9 DEF Wraps
  <2>2. QED
    BY <1>7, <1>8, <1>9, <1>11, <2>1
<1>18. QED
  BY <1>5, <1>6, <1>14, <1>16, <1>17 DEF X, t, ss

(***************************************************************************)
(* Counts that scripts change.                                              *)
(***************************************************************************)
OneCount(P, Q, o, d) ==
  /\ P \in PageRecs /\ Q \in PageRecs
  /\ Q.known = P.known /\ Q.heard = P.heard /\ Q.tracks = P.tracks
  /\ Q.count[o] = P.count[o] + d /\ \A x \in Objects : x # o => Q.count[x] = P.count[x]

LEMMA PageCountIs ==
  ASSUME NEW P \in PageRecs, NEW c \in Scripts, Counting(c), c.op = "retain" => c.of \in P.known,
         NEW Q, Q = PageCount(P, c)
  PROVE  c.of \in Objects /\ OneCount(P, Q, c.of, IF c.op = "retain" THEN 1 ELSE -1)
<1>1. c.of \in Objects /\ c = Script(c.op, c.of)
  BY DEF Scripts, Counting, Script
<1>2. /\ P.known \in SUBSET Objects /\ P.count \in [Objects -> Int] /\ P.heard \in [Tracks -> Nat]
      /\ P.tracks \in [Streams -> Seq(Tracks)]
      /\ P = [known |-> P.known, count |-> P.count, heard |-> P.heard, tracks |-> P.tracks]
  BY PageIs
<1>3. CASE c.op = "retain"
  <2> DEFINE n == [P.count EXCEPT ![c.of] = @ + 1]
  <2>1. Q = [P EXCEPT !.count[c.of] = @ + 1]
    <3>1. Q = Wrap(P, c.of)
      BY <1>3 DEF PageCount
    <3>2. QED
      BY <1>1, <1>3, <3>1, WrapGoes
  <2>2. n \in [Objects -> Int] /\ n[c.of] = P.count[c.of] + 1 /\ \A x \in Objects : x # c.of => n[x] = P.count[x]
    BY <1>1, <1>2
  <2>3. Q = [known |-> P.known, count |-> n, heard |-> P.heard, tracks |-> P.tracks]
    BY <1>2, <2>1
  <2> HIDE DEF n
  <2>4. OneCount(P, Q, c.of, 1)
    BY <1>2, <2>2, <2>3 DEF OneCount, PageRecs
  <2>5. QED
    BY <1>1, <1>3, <2>4
<1>4. CASE c.op # "retain"
  <2> DEFINE n == [P.count EXCEPT ![c.of] = @ - 1]
  <2>1. Q = [P EXCEPT !.count[c.of] = @ - 1]
    BY <1>4 DEF PageCount, PageRelease
  <2>2. n \in [Objects -> Int] /\ n[c.of] = P.count[c.of] + -1 /\ \A x \in Objects : x # c.of => n[x] = P.count[x]
    BY <1>1, <1>2
  <2>3. Q = [known |-> P.known, count |-> n, heard |-> P.heard, tracks |-> P.tracks]
    BY <1>2, <2>1
  <2> HIDE DEF n
  <2>4. OneCount(P, Q, c.of, -1)
    BY <1>2, <2>2, <2>3 DEF OneCount, PageRecs
  <2>5. QED
    BY <1>1, <1>4, <2>4
<1>5. QED
  BY <1>3, <1>4

\* From P to Q what the first i scripts of q say has been counted.
Recounts(P, Q, q, i) ==
  /\ Q \in PageRecs /\ Q.known = P.known /\ Q.heard = P.heard /\ Q.tracks = P.tracks
  /\ \A o \in Objects :
       Q.count[o] + Times(SubSeq(q, 1, i), Script("release", o))
         = P.count[o] + Times(SubSeq(q, 1, i), Script("retain", o))

LEMMA FirstMore ==
  ASSUME NEW S, NEW q \in Seq(S), NEW i \in 1 .. Len(q), NEW x
  PROVE  /\ Times(SubSeq(q, 1, i - 1), x) \in Nat
         /\ Times(SubSeq(q, 1, i), x) = Times(SubSeq(q, 1, i - 1), x) + (IF q[i] = x THEN 1 ELSE 0)
<1> DEFINE a == SubSeq(q, 1, i - 1)
<1>1. Len(q) \in Nat /\ q[i] \in S /\ i - 1 \in 0 .. Len(q)
  BY LenProperties, ElementOfSeq
<1>2. a \in Seq(S)
  BY <1>1, TimesCut
<1>3. SubSeq(q, 1, i) = a \o <<q[i]>>
  <2>1. 1 \in 1 .. Len(q) /\ i \in 1 .. Len(q)
    BY <1>1
  <2>2. QED
    BY <2>1, SubSeqRecursiveSecond
<1> HIDE DEF a
<1>4. ASSUME NEW b \in Seq(S) PROVE Times(a \o b, x) = Times(a, x) + Times(b, x)
  BY <1>2, TimesConcat
<1>5. <<q[i]>> \in Seq(S) /\ Times(<<q[i]>>, x) = IF q[i] = x THEN 1 ELSE 0
  BY <1>1, OneMember, TimesOne
<1>6. QED
  BY <1>2, <1>3, <1>4, <1>5, TimesType DEF a

LEMMA RecountsOn ==
  ASSUME NEW P \in PageRecs, NEW q \in Seq(Scripts), NEW i \in 1 .. Len(q), Counting(q[i]),
         q[i].op = "retain" => q[i].of \in P.known, NEW Q, Recounts(P, Q, q, i - 1),
         NEW R, R = PageCount(Q, q[i])
  PROVE  Recounts(P, R, q, i)
<1> DEFINE c == q[i]
           d == IF c.op = "retain" THEN 1 ELSE -1
<1>1. c \in Scripts
  BY LenProperties, ElementOfSeq
<1>2. Q \in PageRecs /\ Q.known = P.known /\ Q.heard = P.heard /\ Q.tracks = P.tracks
  BY DEF Recounts
<1>3. c.of \in Objects /\ OneCount(Q, R, c.of, d)
  BY <1>1, <1>2, PageCountIs
<1>4. ASSUME NEW o \in Objects
      PROVE  R.count[o] + Times(SubSeq(q, 1, i), Script("release", o))
               = P.count[o] + Times(SubSeq(q, 1, i), Script("retain", o))
  <2> DEFINE up == Script("retain", o)
             down == Script("release", o)
  <2>1. /\ Times(SubSeq(q, 1, i - 1), up) \in Nat /\ Times(SubSeq(q, 1, i - 1), down) \in Nat
        /\ Times(SubSeq(q, 1, i), up) = Times(SubSeq(q, 1, i - 1), up) + (IF c = up THEN 1 ELSE 0)
        /\ Times(SubSeq(q, 1, i), down) = Times(SubSeq(q, 1, i - 1), down) + (IF c = down THEN 1 ELSE 0)
    BY FirstMore
  <2>2. /\ Q.count[o] + Times(SubSeq(q, 1, i - 1), down) = P.count[o] + Times(SubSeq(q, 1, i - 1), up)
        /\ Q.count[o] \in Int /\ P.count[o] \in Int /\ R.count[o] \in Int
    BY <1>2, <1>3, PageIs DEF Recounts, OneCount
  <2>3. up # down /\ (c = up <=> c.of = o /\ c.op = "retain") /\ (c = down <=> c.of = o /\ c.op = "release")
    BY <1>1 DEF Script, Scripts
  <2>4. c.op = "retain" \/ c.op = "release"
    BY DEF Counting
  <2>5. /\ c.of = o => R.count[o] = Q.count[o] + d
        /\ c.of # o => R.count[o] = Q.count[o]
    BY <1>3 DEF OneCount
  <2> DEFINE u0 == Times(SubSeq(q, 1, i - 1), up)
             u1 == Times(SubSeq(q, 1, i), up)
             v0 == Times(SubSeq(q, 1, i - 1), down)
             v1 == Times(SubSeq(q, 1, i), down)
             a == Q.count[o]
             b == P.count[o]
             r == R.count[o]
  <2>6. a \in Int /\ b \in Int /\ a + v0 = b + u0 /\ u0 \in Nat /\ v0 \in Nat
    BY <2>1, <2>2
  <2>7. CASE c.of # o
    <3>1. u1 = u0 + 0 /\ v1 = v0 + 0
      BY <2>1, <2>3, <2>7
    <3> HIDE DEF u0, u1, v0, v1
    <3>2. R.count[o] + v1 = P.count[o] + u1
      BY <2>2, <2>5, <2>6, <2>7, <3>1
    <3>3. QED
      BY <3>2 DEF u1, v1
  <2>8. CASE c.of = o /\ c.op = "retain"
    <3>1. u1 = u0 + 1 /\ v1 = v0 + 0 /\ r = a + 1
      BY <2>1, <2>3, <2>5, <2>8
    <3> HIDE DEF u0, u1, v0, v1, a, b, r
    <3>2. r + v1 = b + u1
      BY <2>6, <3>1
    <3>3. QED
      BY <3>2 DEF u1, v1, r, b
  <2>9. CASE c.of = o /\ c.op = "release"
    <3>1. u1 = u0 + 0 /\ v1 = v0 + 1 /\ r = a + -1
      BY <2>1, <2>3, <2>5, <2>9
    <3> HIDE DEF u0, u1, v0, v1, a, b, r
    <3>2. r + v1 = b + u1
      BY <2>6, <3>1
    <3>3. QED
      BY <3>2 DEF u1, v1, r, b
  <2>10. QED
    BY <2>4, <2>7, <2>8, <2>9
<1>5. QED
  BY <1>2, <1>3, <1>4 DEF Recounts, OneCount

(***************************************************************************)
(* Page and Java.                                                          *)
(***************************************************************************)
\* Page and Java together: what the count of an object will be.
Due(P, J, o) == P.count[o] + Debt(J, o)
DueSame(P, J, Q, K) == \A o \in Objects : Due(Q, K, o) = Due(P, J, o)

LEMMA CountsRun ==
  ASSUME Sound(java), page \in PageRecs, \A o \in Objects : java.bound[o] # 0 => o \in page.known, PageCounts
  PROVE  /\ Sound(java') /\ Mute(java, java') /\ OwnsSame(java, java')
         /\ \A r : Asks(java', r) = Asks(java, r)
         /\ page' \in PageRecs /\ page'.known = page.known /\ page'.heard = page.heard
         /\ page'.tracks = page.tracks /\ DueSame(page, java, page', java')
<1> DEFINE q == java.scripts
<1>1. q \in Seq(Scripts) /\ java \in JavaRecs /\ Len(q) \in Nat /\ DOMAIN q = 1 .. Len(q)
  BY ProxiesAre, LenProperties DEF Sound, Good
<1>2. PICK n \in 1 .. Len(q) :
        /\ \A i \in 1 .. n : Counting(q[i])
        /\ page' = FoldLeft(PageCount, page, SubSeq(q, 1, n))
        /\ java' = Speaks(java, SubSeq(q, n + 1, Len(q)))
  BY Zenon DEF PageCounts, Speaks
<1> DEFINE a == SubSeq(q, 1, n)
           b == SubSeq(q, n + 1, Len(q))
<1>3. n \in Nat /\ n \in 0 .. Len(q) /\ n <= Len(q)
  BY <1>1
<1>4. a \in Seq(Scripts) /\ b \in Seq(Scripts) /\ q = a \o b
  BY <1>1, <1>3, TimesCut
<1>5. \A x : Times(q, x) = Times(a, x) + Times(b, x)
  BY <1>1, <1>3, TimesCut
<1>6. Members(q) = Members(a) \cup Members(b)
  BY ZenonT(40), <1>4, ConcatMembers
<1>7. DOMAIN a = 1 .. n /\ \A i \in 1 .. n : a[i] = q[i] /\ q[i] \in Scripts /\ i \in 1 .. Len(q)
  <2>1. \A i \in 1 .. n : i \in 1 .. Len(q) /\ q[i] \in Scripts
    BY <1>1, <1>3, ElementOfSeq
  <2>2. Len(a) = n /\ \A i \in 1 .. n : a[i] = q[i]
    <3>1. 1 \in Int /\ n \in Int /\ \A i \in 1 .. n : q[i] \in Scripts
      BY <1>3, <2>1
    <3>2. /\ Len(a) = IF 1 <= n THEN n - 1 + 1 ELSE 0
          /\ \A i \in 1 .. n - 1 + 1 : a[i] = q[1 + i - 1]
      BY <3>1, SubSeqProperties
    <3>3. QED
      BY <1>2, <1>3, <3>2
  <2>3. QED
    BY <1>4, <2>1, <2>2, LenProperties
<1> HIDE DEF a, b
<1>8. \A i \in 1 .. n : q[i].op = "retain" => q[i].of \in page.known
  <2>1. ASSUME NEW i \in 1 .. n, q[i].op = "retain" PROVE q[i].of \in page.known
    <3>1. q[i] \in Members(q) /\ q[i] \in Scripts
      BY <1>1, <1>7 DEF Members
    <3>2. java.bound[q[i].of] # 0
      BY <2>1, <3>1 DEF Sound, Good, Wired, Spoken
    <3>3. q[i].of \in Objects
      BY <2>1, <3>1 DEF Scripts
    <3>4. QED
      BY <3>2, <3>3
  <2>2. QED
    BY <2>1
<1> HIDE DEF q
<1>9. Recounts(page, page', q, n)
  <2> DEFINE U == {R \in PageRecs : R.known = page.known}
             A == [i \in 0 .. n |-> {R \in U : Recounts(page, R, q, i)}]
  <2>1. page \in A[0]
    <3>1. SubSeq(q, 1, 0) = <<>>
      BY SubSeqEmpty
    <3>2. ASSUME NEW x PROVE Times(SubSeq(q, 1, 0), x) = 0
      <4>1. x \notin Members(<<>>)
        BY EmptyQueue
      <4>2. Times(<<>>, x) = 0
        BY <4>1, TimesNone
      <4>3. QED
        BY <3>1, <4>2
    <3>3. Recounts(page, page, q, 0)
      BY <3>2 DEF Recounts
    <3>4. QED
      BY <1>3, <3>3
  <2>2. ASSUME NEW R \in U, NEW i \in 1 .. n PROVE PageCount(R, a[i]) \in U
    <3> DEFINE T == PageCount(R, a[i])
    <3>1. OneCount(R, T, a[i].of, IF a[i].op = "retain" THEN 1 ELSE -1)
      BY <1>2, <1>7, <1>8, PageCountIs
    <3>2. QED
      BY <3>1 DEF OneCount
  <2>3. ASSUME NEW i \in 1 .. n, NEW R \in A[i - 1] PROVE PageCount(R, a[i]) \in A[i]
    <3>1. i - 1 \in 0 .. n /\ i \in 0 .. n
      BY <1>3
    <3>2. R \in U /\ Recounts(page, R, q, i - 1)
      BY <3>1
    <3> DEFINE T == PageCount(R, q[i])
    <3>3. i \in 1 .. Len(q) /\ Counting(q[i]) /\ (q[i].op = "retain" => q[i].of \in page.known)
      BY <1>2, <1>7, <1>8
    <3>4. Recounts(page, T, q, i)
      BY <1>1, <3>2, <3>3, RecountsOn
    <3>5. PageCount(R, a[i]) \in U /\ a[i] = q[i]
      BY <1>7, <2>2, <3>2
    <3> HIDE DEF U
    <3>6. QED
      BY <3>1, <3>4, <3>5
  <2>4. \A i \in 0 .. n : A[i] \subseteq U
    OBVIOUS
  <2>5. page' \in A[n]
    <3> DEFINE T == FoldLeft(PageCount, page, a)
    <3>1. T \in A[n]
      <4> HIDE DEF A, U
      <4> QED
        BY <1>3, <1>7, <2>1, <2>2, <2>3, <2>4, FoldPageCount
    <3>2. page' = T
      BY <1>2 DEF a
    <3>3. QED
      BY <3>1, <3>2
  <2>6. QED
    BY <1>3, <2>5
<1>10. SubSeq(q, 1, n) = a
  BY DEF a
<1>11. /\ page' \in PageRecs /\ page'.known = page.known /\ page'.heard = page.heard
       /\ page'.tracks = page.tracks
       /\ \A o \in Objects :
            page'.count[o] + Times(a, Script("release", o)) = page.count[o] + Times(a, Script("retain", o))
  BY <1>9, <1>10 DEF Recounts
<1>12. Sound(java') /\ Mute(java, java') /\ OwnsSame(java, java') /\ java'.scripts = b
  <2> DEFINE K == java'
  <2>1. K = Speaks(java, b)
    BY <1>2 DEF b
  <2>2. Spoken(java, b)
    BY <1>6 DEF Sound, Good, Wired, Spoken, q
  <2> HIDE DEF K
  <2>3. Sound(K) /\ Mute(java, K) /\ OwnsSame(java, K) /\ K.scripts = b
    BY <1>4, <2>1, <2>2, MuteSound
  <2>4. QED
    BY <2>3 DEF K
<1>13. ASSUME NEW o \in Objects PROVE Due(page', java', o) = Due(page, java, o)
  <2> DEFINE u == Times(a, Script("retain", o))
             v == Times(a, Script("release", o))
             u1 == UnderWay(java', "retain", o)
             v1 == UnderWay(java', "release", o)
             c == page.count[o]
             c1 == page'.count[o]
             r == Owned(java, o)
             x == IF java.bound[o] # 0 THEN 1 ELSE 0
  <2>1. UnderWay(java, "retain", o) = u + u1 /\ UnderWay(java, "release", o) = v + v1
    BY <1>5, <1>12, UnderWayIs DEF q
  <2>2. u \in Nat /\ v \in Nat /\ u1 \in Nat /\ v1 \in Nat /\ r \in Int /\ x \in Int
    <3>1. java' \in JavaRecs
      BY <1>12 DEF Sound, Good
    <3>2. u1 \in Nat /\ v1 \in Nat /\ r \in Int
      BY <1>1, <3>1, DebtType
    <3>3. u \in Nat /\ v \in Nat
      BY <1>4, TimesType
    <3>4. QED
      BY <3>2, <3>3
  <2>3. c1 + v = c + u /\ c \in Int /\ c1 \in Int
    BY <1>11, PageIs
  <2>4. Due(page', java', o) = c1 + (u1 - v1 - r + x)
    BY <1>12 DEF Due, Debt, Mute, OwnsSame
  <2>5. Due(page, java, o) = c + ((u + u1) - (v + v1) - r + x)
    BY <2>1 DEF Due, Debt
  <2>6. c1 + (u1 - v1 - r + x) = c + ((u + u1) - (v + v1) - r + x)
    <3>1. \A u0, v0, u2, v2 \in Nat, r0, x0, c0, c2 \in Int :
            c2 + v0 = c0 + u0 =>
              c2 + (u2 - v2 - r0 + x0) = c0 + ((u0 + u2) - (v0 + v2) - r0 + x0)
      OBVIOUS
    <3> HIDE DEF u, v, u1, v1, c, c1, r, x
    <3>2. QED
      BY <2>2, <2>3, <3>1
  <2> HIDE DEF u, v, u1, v1, c, c1, r, x
  <2>7. QED
    BY <2>4, <2>5, <2>6, Zenon
<1>14. ASSUME NEW r PROVE Asks(java', r) = Asks(java, r)
  <2> DEFINE x == Script("getUserMedia", r)
  <2>1. x \notin Members(a)
    <3>1. \A i \in 1 .. n : a[i].op \in {"retain", "release"}
      BY <1>2, <1>7 DEF Counting
    <3>2. \A m \in Members(a) : m.op \in {"retain", "release"}
      BY <1>7, <3>1 DEF Members
    <3>3. QED
      BY <3>2 DEF Script
  <2> HIDE DEF x
  <2>2. Times(a, x) = 0 /\ Times(b, x) \in Nat
    BY <1>4, <2>1, TimesNone, TimesType
  <2>3. Times(q, x) = Times(b, x)
    BY <1>5, <2>2
  <2>4. QED
    BY <1>12, <2>3 DEF Asks, q, x
<1>15. QED
  BY <1>11, <1>12, <1>13, <1>14 DEF DueSame

(***************************************************************************)
(* A remote description.                                                    *)
(***************************************************************************)
Met(P, m, d, i) == Around(TrackEvent(m + i), d[i]) \cup Carried(P, d[i].streams)
AllMet(P, m, d) == UNION {Met(P, m, d, i) : i \in DOMAIN d}
Fired(m, n, k)  == IF m < k /\ k <= m + n THEN 1 ELSE 0

LEMMA EventsWrapped ==
  ASSUME NEW P \in PageRecs, NEW m \in Nat, NEW d \in Seq(Arrivals), m + Len(d) <= NEvents,
         NEW Q, Q = WrapEvents(P, m, d, [i \in DOMAIN d |-> i])
  PROVE  /\ Wraps(P, Q, AllMet(P, m, d)) /\ AllMet(P, m, d) \subseteq Q.known
         /\ \A k \in 1 .. NEvents : Q.count[TrackEvent(k)] = P.count[TrackEvent(k)] + Fired(m, Len(d), k)
<1> DEFINE n == Len(d)
           q == [i \in DOMAIN d |-> i]
           X == AllMet(P, m, d)
           Ok(R, i) == /\ Wraps(P, R, X) /\ \A j \in 1 .. i : Met(P, m, d, j) \subseteq R.known
                       /\ \A k \in 1 .. NEvents : R.count[TrackEvent(k)] = P.count[TrackEvent(k)] + Fired(m, i, k)
           A == [i \in 0 .. n |-> {R \in PageRecs : Ok(R, i)}]
<1>1. n \in Nat /\ DOMAIN d = 1 .. n /\ NEvents \in Nat
  BY LenProperties, MediaAssumption
<1>2. DOMAIN q = 1 .. n /\ \A i \in 1 .. n : q[i] = i
  BY <1>1
<1>3. \A i \in 1 .. n : d[i] \in Arrivals /\ m + i \in 1 .. NEvents /\ TrackEvent(m + i) \in Events
  <2>1. \A i \in 1 .. n : d[i] \in Arrivals /\ m + i \in 1 .. NEvents
    BY <1>1, ElementOfSeq
  <2>2. QED
    BY <2>1 DEF Events
<1>4. \A i \in 1 .. n : Met(P, m, d, i) \subseteq X
  BY <1>1 DEF AllMet
<1>5. \A k, l : TrackEvent(k) = TrackEvent(l) => k = l
  BY DEF TrackEvent
<1>6. \A k \in 1 .. NEvents : P.count[TrackEvent(k)] \in Int /\ TrackEvent(k) \in Objects /\ TrackEvent(k) \in Events
  <2>1. \A k \in 1 .. NEvents : TrackEvent(k) \in Events
    BY DEF Events
  <2>2. QED
    BY <2>1, PageIs, ObjectKinds
<1> HIDE DEF q, n, X
<1>7. P \in A[0]
  <2>1. Wraps(P, P, X)
    BY WrapsNot
  <2>2. \A k \in 1 .. NEvents : P.count[TrackEvent(k)] = P.count[TrackEvent(k)] + Fired(m, 0, k)
    <3>1. \A k \in 1 .. NEvents : Fired(m, 0, k) = 0
      BY DEF Fired
    <3>2. QED
      BY <1>6, <3>1
  <2>3. Ok(P, 0)
    BY <2>1, <2>2
  <2> HIDE DEF Ok
  <2>4. QED
    BY <1>1, <2>3
<1>8. ASSUME NEW R \in PageRecs, NEW i \in 1 .. n
      PROVE  WrapEvent(R, TrackEvent(m + q[i]), d[q[i]]) \in PageRecs
  <2> DEFINE T == WrapEvent(R, TrackEvent(m + i), d[i])
  <2>1. Wraps(R, T, Around(TrackEvent(m + i), d[i]) \cup Carried(R, d[i].streams))
    BY <1>3, WrapEventGoes
  <2>2. T \in PageRecs
    BY <2>1 DEF Wraps
  <2>3. QED
    BY <1>2, <2>2
<1>9. ASSUME NEW i \in 1 .. n, NEW R \in A[i - 1]
      PROVE  WrapEvent(R, TrackEvent(m + q[i]), d[q[i]]) \in A[i]
  <2> DEFINE e == TrackEvent(m + i)
             T == WrapEvent(R, e, d[i])
             Y == Met(P, m, d, i)
  <2>1. i - 1 \in 0 .. n /\ i \in 0 .. n
    BY <1>1
  <2>2. R \in PageRecs /\ Ok(R, i - 1)
    BY <2>1
  <2>3. Met(P, m, d, i) = Around(e, d[i]) \cup Carried(R, d[i].streams)
    BY <2>2 DEF Wraps, Met, Carried
  <2>4. Wraps(R, T, Y) /\ Y \subseteq T.known /\ T.count[e] = R.count[e] + 1
    <3>1. /\ Wraps(R, T, Around(e, d[i]) \cup Carried(R, d[i].streams))
          /\ Around(e, d[i]) \cup Carried(R, d[i].streams) \subseteq T.known
          /\ T.count[e] = R.count[e] + 1
      BY <1>3, <2>2, WrapEventGoes
    <3> HIDE DEF T
    <3>2. QED
      BY <2>3, <3>1
  <2>5. Y \cap Events = {e}
    BY <1>3, EventsApart DEF Met
  <2> HIDE DEF T, Y, e
  <2>6. Wraps(P, T, X)
    <3>1. Y \subseteq X /\ X \subseteq X
      BY <1>4 DEF Y
    <3>2. QED
      BY <2>2, <2>4, <3>1, WrapsOn
  <2>7. ASSUME NEW j \in 1 .. i PROVE Met(P, m, d, j) \subseteq T.known
    <3>1. R.known \subseteq T.known
      BY <2>4 DEF Wraps
    <3>2. j \in 1 .. i - 1 \/ j = i
      BY <2>1
    <3>3. QED
      BY <2>2, <2>4, <3>1, <3>2 DEF Y
  <2>8. ASSUME NEW k \in 1 .. NEvents
        PROVE  T.count[TrackEvent(k)] = P.count[TrackEvent(k)] + Fired(m, i, k)
    <3>1. R.count[TrackEvent(k)] = P.count[TrackEvent(k)] + Fired(m, i - 1, k)
      BY <2>2
    <3>2. CASE k = m + i
      <4>1. Fired(m, i - 1, k) = 0 /\ Fired(m, i, k) = 1
        BY <2>1, <3>2, <1>1 DEF Fired
      <4>2. T.count[TrackEvent(k)] = R.count[TrackEvent(k)] + 1
        BY <2>4, <3>2 DEF e
      <4>3. QED
        BY <1>6, <3>1, <4>1, <4>2
    <3>3. CASE k # m + i
      <4>1. Fired(m, i - 1, k) = Fired(m, i, k)
        BY <2>1, <3>3, <1>1 DEF Fired
      <4>2. TrackEvent(k) \notin Y /\ TrackEvent(k) \in Objects
        BY <1>5, <1>6, <2>5, <3>3 DEF e
      <4>3. T.count[TrackEvent(k)] = R.count[TrackEvent(k)]
        BY <2>4, <4>2 DEF Wraps
      <4>4. QED
        BY <3>1, <4>1, <4>3
    <3>4. QED
      BY <3>2, <3>3
  <2>9. Ok(T, i) /\ T \in PageRecs
    BY <2>4, <2>6, <2>7, <2>8 DEF Wraps
  <2> HIDE DEF Ok
  <2>10. T \in A[i]
    BY <2>1, <2>9
  <2>11. QED
    BY <1>2, <2>10 DEF T, e
<1>10. \A i \in 0 .. n : A[i] \subseteq PageRecs
  OBVIOUS
<1>11. WrapEvents(P, m, d, q) \in A[n]
  <2> HIDE DEF A
  <2> QED
    BY <1>1, <1>2, <1>7, <1>8, <1>9, <1>10, FoldWrapEvent
<1>12. Ok(Q, n)
  <2> HIDE DEF Ok
  <2>1. Q \in A[n]
    BY <1>11 DEF q
  <2>2. QED
    BY <1>1, <2>1
<1>13. X \subseteq Q.known
  <2>1. X = UNION {Met(P, m, d, i) : i \in 1 .. n}
    BY <1>1 DEF X, AllMet
  <2>2. QED
    BY <1>12, <2>1
<1>14. QED
  BY <1>12, <1>13 DEF X, n

(***************************************************************************)
(* The inductive invariant, in parts.                                       *)
(***************************************************************************)
\* What the page will count is owned, and Java registers what the page knows.
Kept(P, J) ==
  \A o \in Objects :
    /\ Due(P, J, o) >= 0
    /\ o \in P.known => Due(P, J, o) >= 1
    /\ J.bound[o] # 0 => o \in P.known

\* The page has wrapped the tracks of its streams, and listens to tracks it wrapped.
PageRight(P) ==
  /\ P \in PageRecs
  /\ \A s \in Streams : Members(P.tracks[s]) \subseteq P.known
  /\ \A t \in Tracks : t \in P.known => P.heard[t] >= 1

\* The objects that a message tells Java of, and the tracks it makes Java register.
Mentions(m) ==
  IF m.type = "media" THEN Told(m.stream) ELSE IF m.type = "track" THEN EventTold(m) ELSE {}
Brings(m) ==
  IF m.type = "media" THEN Lists(m.stream)
  ELSE IF m.type = "track" THEN {m.track.of} ELSE {}
Bringing(t) == {m \in Message : t \in Brings(m)}
Ended(t)    == [type |-> "ended", of |-> t]

Spelled(q, P) == \A m \in Members(q) : Mentions(m) \subseteq P.known

\* A track that Java has not registered: a message that makes Java register it is
\* under way if the page knows it, and comes before the news of its end.
Heard(J, q, P) ==
  \A t \in Tracks : J.bound[t] = 0 =>
    /\ t \in P.known => Members(q) \cap Bringing(t) # {}
    /\ Leads(q, Bringing(t), {Ended(t)})

Noticed(J, q, T) ==
  \A t \in Tracks : T[t] = "ended" =>
    Ended(t) \in Members(q) \/ (J.bound[t] # 0 /\ J.proxies[J.bound[t]].ready = "ended")

\* Java owns nothing of an event for long: its proxy is released when dispatched.
Gives(m, k) == m.type = "track" /\ m.of = TrackEvent(k)
Given(J, P, q, n) ==
  \A k \in 1 .. NEvents :
    /\ Owned(J, TrackEvent(k)) = 0
    /\ Due(P, J, TrackEvent(k)) = IF k <= n THEN 1 ELSE 0
    /\ k <= n => J.bound[TrackEvent(k)] # 0 \/ \E m \in Members(q) : Gives(m, k)

\* A request is asked of the page once, and answered once.
Answers == [m \in {x \in Message : x.type \in {"media", "refused"}} |-> m.request]
Asked(J, q, R) ==
  /\ \A r \in Requests :
       /\ Asks(J, r) = IF R[r] = "page" THEN 1 ELSE 0
       /\ J.bound[LocalStream(r)] # 0 => R[r] = "resolved"
  /\ \A m \in Members(q) : m \in DOMAIN Answers =>
       R[m.request] = "answered" /\ (m.type = "media" => m.stream.of = LocalStream(m.request))
  /\ Once(q, Answers)

(***************************************************************************)
(* How a step of Java or of the page alone preserves the parts.             *)
(***************************************************************************)
LEMMA GoesOver ==
  ASSUME NEW J, NEW K, Sound(J), Sound(K), Mute(J, K), OwnsSame(J, K), DebtSame(J, K),
         \A r : Asks(K, r) = Asks(J, r)
  PROVE  Goes(J, K, {})
BY DEF Goes, Moves, Mute, OwnsSame, DebtSame

LEMMA DueType == ASSUME NEW P \in PageRecs, NEW J \in JavaRecs, NEW o \in Objects
  PROVE P.count[o] \in Int /\ Debt(J, o) \in Int /\ Due(P, J, o) = P.count[o] + Debt(J, o) /\ Due(P, J, o) \in Int
<1>1. P.count[o] \in Int /\ Debt(J, o) \in Int
  BY PageIs, DebtType
<1>2. QED
  BY <1>1 DEF Due

LEMMA DueGoes ==
  ASSUME NEW P, NEW J, NEW K, NEW X, Goes(J, K, X)
  PROVE  DueSame(P, J, P, K)
BY DEF Goes, Moves, DueSame, Due

LEMMA KeptOn ==
  ASSUME NEW P, NEW Q, NEW J, NEW K, Kept(P, J), DueSame(P, J, Q, K), Q.known = P.known,
         \A o \in Objects : K.bound[o] # 0 => J.bound[o] # 0 \/ o \in P.known
  PROVE  Kept(Q, K)
BY DEF Kept, DueSame

LEMMA KeptJava ==
  ASSUME NEW P, NEW J, NEW K, NEW X, Kept(P, J), Goes(J, K, X), X \subseteq P.known
  PROVE  Kept(P, K)
<1>1. DueSame(P, J, P, K)
  BY DueGoes
<1>2. \A o \in Objects : K.bound[o] # 0 => J.bound[o] # 0 \/ o \in P.known
  BY DEF Goes, Moves
<1>3. QED
  BY <1>1, <1>2, KeptOn

LEMMA KeptPage ==
  ASSUME NEW P, NEW Q, NEW J \in JavaRecs, NEW X, Kept(P, J), Wraps(P, Q, X)
  PROVE  Kept(Q, J)
<1>1. P \in PageRecs /\ Q \in PageRecs /\ P.known \subseteq Q.known
  BY DEF Wraps
<1>2. ASSUME NEW o \in Objects PROVE Due(Q, J, o) >= 0 /\ (o \in Q.known => Due(Q, J, o) >= 1)
  <2>1. /\ P.count[o] \in Int /\ Debt(J, o) \in Int /\ Due(P, J, o) = P.count[o] + Debt(J, o)
        /\ Q.count[o] \in Int /\ Due(Q, J, o) = Q.count[o] + Debt(J, o)
    BY <1>1, DueType
  <2>2. Q.count[o] >= P.count[o] /\ (o \in Q.known /\ o \notin P.known => Q.count[o] >= P.count[o] + 1)
    BY DEF Wraps
  <2>3. Due(P, J, o) >= 0 /\ (o \in P.known => Due(P, J, o) >= 1)
    BY DEF Kept
  <2>4. QED
    BY <2>1, <2>2, <2>3
<1>3. QED
  BY <1>1, <1>2 DEF Kept

LEMMA PageRightOn ==
  ASSUME NEW P, NEW Q, NEW X, PageRight(P), Wraps(P, Q, X)
  PROVE  PageRight(Q)
<1>1. /\ P \in PageRecs /\ Q \in PageRecs /\ P.known \subseteq Q.known /\ Q.tracks = P.tracks
      /\ \A t \in Tracks : Q.heard[t] >= P.heard[t] /\ (t \in Q.known /\ t \notin P.known => Q.heard[t] >= 1)
  BY DEF Wraps
<1>2. \A t \in Tracks : P.heard[t] \in Nat /\ Q.heard[t] \in Nat
  BY <1>1, PageIs
<1>3. \A t \in Tracks : t \in Q.known => Q.heard[t] >= 1
  BY <1>1, <1>2 DEF PageRight
<1>4. QED
  BY <1>1, <1>3 DEF PageRight

LEMMA SpelledOn ==
  ASSUME NEW q, NEW P, NEW Q, Spelled(q, P), P.known \subseteq Q.known
  PROVE  Spelled(q, Q)
BY DEF Spelled

LEMMA SpelledConcat ==
  ASSUME NEW q \in Seq(Message), NEW r \in Seq(Message), NEW P, Spelled(q, P), Spelled(r, P)
  PROVE  Spelled(q \o r, P)
BY ConcatMembers DEF Spelled

LEMMA HeardJava ==
  ASSUME NEW J, NEW K, NEW X, NEW q, NEW P, Heard(J, q, P), Goes(J, K, X)
  PROVE  Heard(K, q, P)
<1>1. \A t \in Tracks : t \in Objects
  BY ObjectKinds
<1>2. \A t \in Tracks : K.bound[t] = 0 => J.bound[t] = 0
  BY <1>1 DEF Goes, Moves
<1>3. QED
  BY <1>2 DEF Heard

\* Java handles a message.
LEMMA HeardTail ==
  ASSUME NEW J, NEW K, NEW X, NEW q \in Seq(Message), q # <<>>, NEW P, Heard(J, q, P), Goes(J, K, X),
         \A t \in Tracks : t \in Brings(Head(q)) => K.bound[t] # 0
  PROVE  /\ Heard(K, Tail(q), P)
         /\ \A t \in Tracks : J.bound[t] = 0 => Head(q) # Ended(t)
<1>1. \A t \in Tracks : t \in Objects
  BY ObjectKinds
<1>2. \A t \in Tracks : K.bound[t] = 0 => J.bound[t] = 0
  BY <1>1 DEF Goes, Moves
<1>3. Members(q) = Members(Tail(q)) \cup {Head(q)}
  BY TailMembers
<1>4. ASSUME NEW t \in Tracks, K.bound[t] = 0
      PROVE  /\ t \in P.known => Members(Tail(q)) \cap Bringing(t) # {}
             /\ Leads(Tail(q), Bringing(t), {Ended(t)})
  <2>1. Head(q) \notin Bringing(t)
    BY <1>4 DEF Bringing
  <2>2. Leads(q, Bringing(t), {Ended(t)}) /\ (t \in P.known => Members(q) \cap Bringing(t) # {})
    BY <1>2, <1>4 DEF Heard
  <2>3. Leads(Tail(q), Bringing(t), {Ended(t)})
    BY <2>1, <2>2, TailLeads
  <2>4. QED
    BY <1>3, <2>1, <2>2, <2>3
<1>5. ASSUME NEW t \in Tracks, J.bound[t] = 0 PROVE Head(q) # Ended(t)
  <2>1. Leads(q, Bringing(t), {Ended(t)})
    BY <1>5 DEF Heard
  <2>2. Head(q) \notin {Ended(t)}
    BY <2>1, TailLeads
  <2>3. QED
    BY <2>2
<1>6. QED
  BY <1>4, <1>5 DEF Heard

\* The page sends messages, and comes to know no track but those that they bring.
LEMMA HeardConcat ==
  ASSUME NEW J, NEW q \in Seq(Message), NEW r \in Seq(Message), NEW P, NEW Q, Heard(J, q, P),
         \A m \in Members(r) : m.type # "ended",
         \A t \in Tracks : t \in Q.known => t \in P.known \/ Members(r) \cap Bringing(t) # {}
  PROVE  Heard(J, q \o r, Q)
<1>1. ASSUME NEW t \in Tracks, J.bound[t] = 0
      PROVE  /\ t \in Q.known => Members(q \o r) \cap Bringing(t) # {}
             /\ Leads(q \o r, Bringing(t), {Ended(t)})
  <2>1. Leads(q, Bringing(t), {Ended(t)}) /\ (t \in P.known => Members(q) \cap Bringing(t) # {})
    BY <1>1 DEF Heard
  <2>2. Members(r) \cap {Ended(t)} = {}
    BY DEF Ended
  <2>3. Leads(q \o r, Bringing(t), {Ended(t)})
    BY <2>1, <2>2, ConcatLeads
  <2>4. Members(q \o r) = Members(q) \cup Members(r)
    BY ConcatMembers
  <2>5. QED
    BY <2>1, <2>3, <2>4
<1>2. QED
  BY <1>1 DEF Heard

LEMMA ConcatMet ==
  ASSUME NEW S, NEW q \in Seq(S), NEW r \in Seq(S), NEW A, NEW B, Leads(q, A, B), Members(q) \cap A # {}
  PROVE  Leads(q \o r, A, B)
<1> DEFINE t == q \o r
<1>1. /\ Len(q) \in Nat /\ DOMAIN q = 1 .. Len(q)
      /\ \A i \in DOMAIN q : i \in DOMAIN t /\ t[i] = q[i]
      /\ \A i \in DOMAIN t : i \in Nat /\ (i \in DOMAIN q \/ (Len(q) < i /\ i - Len(q) \in DOMAIN r))
  BY ConcatPlaces
<1>2. PICK k \in DOMAIN q : q[k] \in A
  BY DEF Members
<1> HIDE DEF t
<1>3. ASSUME NEW i \in DOMAIN t, t[i] \in B PROVE \E j \in DOMAIN t : j < i /\ t[j] \in A
  <2>1. CASE i \in DOMAIN q
    <3>1. q[i] \in B
      BY <1>1, <1>3, <2>1
    <3>2. PICK j \in DOMAIN q : j < i /\ q[j] \in A
      BY <2>1, <3>1 DEF Leads
    <3>3. QED
      BY <1>1, <3>2
  <2>2. CASE Len(q) < i
    <3>1. k < i /\ k \in DOMAIN t /\ t[k] \in A
      BY <1>1, <1>2, <1>3, <2>2
    <3>2. QED
      BY <3>1
  <2>3. QED
    BY <1>1, <1>3, <2>1, <2>2
<1>4. QED
  BY <1>3 DEF Leads, t

\* The source of a track ends.
LEMMA HeardEnd ==
  ASSUME NEW J, NEW q \in Seq(Message), NEW r \in Seq(Message), NEW P, Heard(J, q, P),
         NEW e \in Tracks, e \in P.known, Members(r) \subseteq {Ended(e)}
  PROVE  Heard(J, q \o r, P)
<1>1. Members(q \o r) = Members(q) \cup Members(r)
  BY ConcatMembers
<1>2. ASSUME NEW t \in Tracks, J.bound[t] = 0
      PROVE  /\ t \in P.known => Members(q \o r) \cap Bringing(t) # {}
             /\ Leads(q \o r, Bringing(t), {Ended(t)})
  <2>1. Leads(q, Bringing(t), {Ended(t)}) /\ (t \in P.known => Members(q) \cap Bringing(t) # {})
    BY <1>2 DEF Heard
  <2>2. Leads(q \o r, Bringing(t), {Ended(t)})
    <3>1. CASE t = e
      BY <2>1, <3>1, ConcatMet
    <3>2. CASE t # e
      <4>1. Ended(t) # Ended(e)
        BY <3>2 DEF Ended
      <4>2. Members(r) \cap {Ended(t)} = {}
        BY <4>1
      <4>3. QED
        BY <2>1, <4>2, ConcatLeads
    <3>3. QED
      BY <3>1, <3>2
  <2>3. QED
    BY <1>1, <2>1, <2>2
<1>3. QED
  BY <1>2 DEF Heard

(***************************************************************************)
(* How the parts survive a message that is handled, and those that are sent.*)
(***************************************************************************)
LEMMA NoticedJava ==
  ASSUME NEW J, Sound(J), NEW K, NEW X, NEW q, NEW T, Noticed(J, q, T), Goes(J, K, X)
  PROVE  Noticed(K, q, T)
<1>1. \A t \in Tracks : t \in Objects
  BY ObjectKinds
<1>2. ASSUME NEW t \in Tracks, J.bound[t] # 0, J.proxies[J.bound[t]].ready = "ended"
      PROVE  K.bound[t] # 0 /\ K.proxies[K.bound[t]].ready = "ended"
  <2>1. J.bound[t] \in DOMAIN J.proxies
    BY <1>1, <1>2, BoundIs
  <2>2. K.bound[t] = J.bound[t] /\ K.proxies[J.bound[t]].ready = "ended"
    BY <1>1, <1>2, <2>1 DEF Goes, Moves
  <2>3. QED
    BY <1>2, <2>2
<1>3. QED
  BY <1>2 DEF Noticed

LEMMA NoticedTail ==
  ASSUME NEW J, NEW q \in Seq(Message), q # <<>>, NEW T, Noticed(J, q, T),
         \A t \in Tracks : Head(q) = Ended(t) => J.bound[t] # 0 /\ J.proxies[J.bound[t]].ready = "ended"
  PROVE  Noticed(J, Tail(q), T)
<1>1. Members(q) = Members(Tail(q)) \cup {Head(q)}
  BY TailMembers
<1>2. QED
  BY <1>1 DEF Noticed

LEMMA NoticedConcat ==
  ASSUME NEW J, NEW q \in Seq(Message), NEW r \in Seq(Message), NEW T, NEW U, Noticed(J, q, T),
         \A t \in Tracks : U[t] = "ended" => T[t] = "ended" \/ Ended(t) \in Members(r)
  PROVE  Noticed(J, q \o r, U)
<1>1. Members(q \o r) = Members(q) \cup Members(r)
  BY ConcatMembers
<1>2. QED
  BY <1>1 DEF Noticed

\* The track events are objects.
LEMMA EventObjects == \A k \in 1 .. NEvents : TrackEvent(k) \in Objects /\ TrackEvent(k) \in Events
<1>1. \A k \in 1 .. NEvents : TrackEvent(k) \in Events
  BY DEF Events
<1>2. QED
  BY <1>1, ObjectKinds

LEMMA GivenOn ==
  ASSUME NEW J, NEW K, NEW P, NEW Q, NEW q, NEW n, Given(J, P, q, n), DueSame(P, J, Q, K),
         \A e \in Events : Owned(K, e) = Owned(J, e),
         \A o \in Objects : J.bound[o] # 0 => K.bound[o] # 0
  PROVE  Given(K, Q, q, n)
BY EventObjects DEF Given, DueSame

LEMMA GivenJava ==
  ASSUME NEW J, NEW K, NEW X, NEW P, NEW q, NEW n, Given(J, P, q, n), Goes(J, K, X)
  PROVE  Given(K, P, q, n)
<1>1. DueSame(P, J, P, K)
  BY DueGoes
<1>2. \A e \in Events : Owned(K, e) = Owned(J, e)
  BY DEF Goes
<1>3. \A o \in Objects : J.bound[o] # 0 => K.bound[o] # 0
  BY DEF Goes, Moves
<1>4. QED
  BY <1>1, <1>2, <1>3, GivenOn

LEMMA GivenTail ==
  ASSUME NEW J, NEW P, NEW q \in Seq(Message), q # <<>>, NEW n, Given(J, P, q, n),
         Head(q).type = "track" => J.bound[Head(q).of] # 0
  PROVE  Given(J, P, Tail(q), n)
<1>1. Members(q) = Members(Tail(q)) \cup {Head(q)}
  BY TailMembers
<1>2. ASSUME NEW k \in 1 .. NEvents, Gives(Head(q), k) PROVE J.bound[TrackEvent(k)] # 0
  BY <1>2 DEF Gives
<1>3. QED
  BY <1>1, <1>2 DEF Given

LEMMA GivenConcat ==
  ASSUME NEW J \in JavaRecs, NEW P \in PageRecs, NEW Q \in PageRecs, NEW q \in Seq(Message), NEW r \in Seq(Message),
         NEW n \in Nat, NEW l \in Nat, Given(J, P, q, n),
         \A k \in 1 .. NEvents : Q.count[TrackEvent(k)] = P.count[TrackEvent(k)] + Fired(n, l, k),
         \A k \in 1 .. NEvents : n < k /\ k <= n + l => \E m \in Members(r) : Gives(m, k)
  PROVE  Given(J, Q, q \o r, n + l)
<1>1. Members(q \o r) = Members(q) \cup Members(r)
  BY ConcatMembers
<1>2. ASSUME NEW k \in 1 .. NEvents
      PROVE  Due(Q, J, TrackEvent(k)) = IF k <= n + l THEN 1 ELSE 0
  <2> DEFINE o == TrackEvent(k)
             a == P.count[o]
             b == Q.count[o]
             d == Debt(J, o)
             x == Due(P, J, o)
             y == Due(Q, J, o)
             f == Fired(n, l, k)
  <2>1. a \in Int /\ d \in Int /\ x = a + d /\ b \in Int /\ y = b + d
    BY EventObjects, DueType
  <2>2. x = (IF k <= n THEN 1 ELSE 0) /\ b = a + f
    BY DEF Given
  <2>3. f = IF n < k /\ k <= n + l THEN 1 ELSE 0
    BY DEF Fired
  <2> HIDE DEF a, b, d, x, y, f
  <2>4. y = IF k <= n + l THEN 1 ELSE 0
    BY <2>1, <2>2, <2>3
  <2>5. QED
    BY <2>4 DEF y, o
<1>3. ASSUME NEW k \in 1 .. NEvents, k <= n + l
      PROVE  J.bound[TrackEvent(k)] # 0 \/ \E m \in Members(q \o r) : Gives(m, k)
  <2>1. CASE k <= n
    BY <1>1, <2>1 DEF Given
  <2>2. CASE ~ k <= n
    <3>1. n < k
      BY <2>2
    <3>2. QED
      BY <1>1, <1>3, <3>1
  <2>3. QED
    BY <2>1, <2>2
<1>4. \A k \in 1 .. NEvents : Owned(J, TrackEvent(k)) = 0
  BY DEF Given
<1>5. QED
  BY <1>2, <1>3, <1>4 DEF Given

(***************************************************************************)
(* Requests.                                                                *)
(***************************************************************************)
LEMMA AnswersAre ==
  ASSUME NEW m \in Message
  PROVE  /\ m \in DOMAIN Answers <=> m.type \in {"media", "refused"}
         /\ m \in DOMAIN Answers => Answers[m] = m.request /\ m.request \in Requests
         /\ m.type = "media" => m.stream \in StreamInfos(Streams)
BY DEF Answers, Message

LEMMA LocalStreams ==
  \A r \in Requests : LocalStream(r) \in Streams /\ LocalStream(r) \in Objects
<1>1. \A r \in Requests : LocalStream(r) \in Streams
  BY DEF Streams
<1>2. QED
  BY <1>1, ObjectKinds

LEMMA AskedOn ==
  ASSUME NEW J, NEW K, NEW q \in Seq(Message), NEW R, NEW S, Asked(J, q, R),
         \A r \in Requests : Asks(K, r) = IF S[r] = "page" THEN 1 ELSE 0,
         \A r \in Requests : K.bound[LocalStream(r)] # 0 => J.bound[LocalStream(r)] # 0,
         \A r \in Requests : R[r] = "resolved" => S[r] = "resolved",
         \A r \in Requests : R[r] = "answered" => S[r] = "answered"
  PROVE  Asked(K, q, S)
<1>1. Members(q) \subseteq Message
  BY MembersType
<1>2. \A r \in Requests : K.bound[LocalStream(r)] # 0 => S[r] = "resolved"
  BY DEF Asked
<1>3. \A m \in Members(q) : m \in DOMAIN Answers =>
       S[m.request] = "answered" /\ (m.type = "media" => m.stream.of = LocalStream(m.request))
  BY <1>1, AnswersAre DEF Asked
<1>4. Once(q, Answers)
  BY DEF Asked
<1>5. QED
  BY <1>2, <1>3, <1>4 DEF Asked

\* Java goes, and registers no stream of a request.
LEMMA AskedJava ==
  ASSUME NEW J, NEW K, NEW X, NEW q \in Seq(Message), NEW R, Asked(J, q, R), Goes(J, K, X),
         \A r \in Requests : LocalStream(r) \notin X
  PROVE  Asked(K, q, R)
<1>1. \A r \in Requests : K.bound[LocalStream(r)] # 0 => J.bound[LocalStream(r)] # 0
  BY LocalStreams DEF Goes, Moves
<1>2. \A r \in Requests : Asks(K, r) = IF R[r] = "page" THEN 1 ELSE 0
  BY DEF Asked, Goes, Moves
<1>3. QED
  BY <1>1, <1>2, AskedOn

LEMMA AskedTail ==
  ASSUME NEW J, NEW q \in Seq(Message), q # <<>>, NEW R, Asked(J, q, R)
  PROVE  /\ Asked(J, Tail(q), R)
         /\ Head(q) \in DOMAIN Answers =>
              /\ R[Head(q).request] = "answered"
              /\ Head(q).type = "media" => Head(q).stream.of = LocalStream(Head(q).request)
              /\ \A m \in Members(Tail(q)) : m \in DOMAIN Answers => m.request # Head(q).request
<1>1. Members(q) = Members(Tail(q)) \cup {Head(q)} /\ Tail(q) \in Seq(Message) /\ Head(q) \in Message
  BY TailMembers
<1>2. Once(q, Answers)
  BY DEF Asked
<1>3. Once(Tail(q), Answers) /\ (Head(q) \in DOMAIN Answers => Answers[Head(q)] \notin Keys(Tail(q), Answers))
  BY <1>2, TailOnce
<1>4. ASSUME NEW m \in Members(Tail(q)), Head(q) \in DOMAIN Answers, m \in DOMAIN Answers
      PROVE  m.request # Head(q).request
  <2>1. m \in Message
    BY <1>1, MembersType
  <2>2. Answers[m] \in Keys(Tail(q), Answers)
    BY <1>4 DEF Keys
  <2>3. Answers[m] = m.request /\ Answers[Head(q)] = Head(q).request
    BY <1>1, <1>4, <2>1, AnswersAre
  <2>4. QED
    BY <1>3, <1>4, <2>2, <2>3
<1>5. Asked(J, Tail(q), R)
  BY <1>1, <1>3 DEF Asked
<1>6. QED
  BY <1>1, <1>4, <1>5 DEF Asked

\* Java handles the answer to request r: the other answers are to others.
Turns(R, S, x, v) == \A r \in Requests : S[r] = IF r = x THEN v ELSE R[r]
ForOne(X, x)   == \A r \in Requests : LocalStream(r) \in X => r = x
Others(q, x)      == \A m \in Members(q) : m \in DOMAIN Answers => m.request # x

LEMMA AskedDone ==
  ASSUME NEW J, NEW K, NEW X, NEW q \in Seq(Message), NEW R, NEW S, NEW x \in Requests, NEW v, v # "page",
         R[x] = "answered", Turns(R, S, x, v), Asked(J, q, R), Goes(J, K, X), Others(q, x),
         X = {} \/ (v = "resolved" /\ ForOne(X, x))
  PROVE  Asked(K, q, S)
<1>1. \A r \in Requests : S[r] = IF r = x THEN v ELSE R[r]
  BY DEF Turns
<1>2. \A r \in Requests : Asks(K, r) = IF S[r] = "page" THEN 1 ELSE 0
  <2>1. ASSUME NEW r \in Requests PROVE Asks(K, r) = IF S[r] = "page" THEN 1 ELSE 0
    <3>1. Asks(K, r) = IF R[r] = "page" THEN 1 ELSE 0
      BY DEF Asked, Goes, Moves
    <3>2. S[r] = "page" <=> R[r] = "page"
      BY <1>1
    <3>3. QED
      BY <3>1, <3>2
  <2>2. QED
    BY <2>1
<1>3. ASSUME NEW r \in Requests, K.bound[LocalStream(r)] # 0 PROVE S[r] = "resolved"
  <2>1. J.bound[LocalStream(r)] # 0 \/ LocalStream(r) \in X
    BY <1>3, LocalStreams DEF Goes, Moves
  <2>2. CASE J.bound[LocalStream(r)] # 0
    <3>1. R[r] = "resolved"
      BY <2>2 DEF Asked
    <3>2. r # x
      BY <3>1
    <3>3. QED
      BY <1>1, <3>1, <3>2
  <2>3. CASE LocalStream(r) \in X
    BY <1>1, <2>3 DEF ForOne
  <2>4. QED
    BY <2>1, <2>2, <2>3
<1>4. Members(q) \subseteq Message
  BY MembersType
<1>5. ASSUME NEW m \in Members(q), m \in DOMAIN Answers
      PROVE  S[m.request] = "answered" /\ (m.type = "media" => m.stream.of = LocalStream(m.request))
  <2>1. m.request \in Requests /\ m.request # x
    BY <1>4, <1>5, AnswersAre DEF Others
  <2>2. R[m.request] = "answered" /\ (m.type = "media" => m.stream.of = LocalStream(m.request))
    BY <1>5 DEF Asked
  <2>3. QED
    BY <1>1, <2>1, <2>2
<1>6. Once(q, Answers)
  BY DEF Asked
<1>7. QED
  BY <1>2, <1>3, <1>5, <1>6 DEF Asked

LEMMA AskedConcat ==
  ASSUME NEW J, NEW q \in Seq(Message), NEW r \in Seq(Message), NEW R, Asked(J, q, R),
         \A m \in Members(r) : m.type \notin {"media", "refused"}
  PROVE  Asked(J, q \o r, R)
<1>1. Members(q \o r) = Members(q) \cup Members(r) /\ Members(r) \subseteq Message
  BY ConcatMembers, MembersType
<1>2. \A m \in Members(r) : m \notin DOMAIN Answers
  BY <1>1, AnswersAre
<1>3. Once(r, Answers) /\ Keys(r, Answers) = {}
  <2>1. \A i \in DOMAIN r : r[i] \notin DOMAIN Answers
    BY <1>2 DEF Members
  <2>2. QED
    BY <1>2, <2>1 DEF Once, Keys
<1>4. Once(q, Answers)
  BY DEF Asked
<1>5. Once(q \o r, Answers)
  BY <1>3, <1>4, ConcatOnce
<1>6. QED
  BY <1>1, <1>2, <1>5 DEF Asked

\* The camera answers.
LEMMA AskedAnswer ==
  ASSUME NEW J, NEW q \in Seq(Message), NEW m \in Message, m \in DOMAIN Answers, NEW R, NEW S,
         R[m.request] = "camera", Turns(R, S, m.request, "answered"), Asked(J, q, R), m.type = "media" => m.stream.of = LocalStream(m.request)
  PROVE  Asked(J, Append(q, m), S)
<1> DEFINE x == m.request
<1>1. x \in Requests /\ Answers[m] = x
  BY AnswersAre
<1>2. S[x] = "answered" /\ \A r \in Requests : r # x => S[r] = R[r]
  BY <1>1 DEF Turns
<1>3. Members(Append(q, m)) = Members(q) \cup {m} /\ Members(q) \subseteq Message
  BY AppendMembers, MembersType
<1>4. \A n \in Members(q) : n \in DOMAIN Answers => R[n.request] = "answered" /\ n.request # x
  BY DEF Asked
<1>5. Once(Append(q, m), Answers)
  <2>1. x \notin Keys(q, Answers)
    BY <1>3, <1>4, AnswersAre DEF Keys
  <2>2. Once(q, Answers)
    BY DEF Asked
  <2>3. QED
    BY <1>1, <2>1, <2>2, AppendOnce
<1>6. \A r \in Requests : /\ Asks(J, r) = IF S[r] = "page" THEN 1 ELSE 0
                          /\ J.bound[LocalStream(r)] # 0 => S[r] = "resolved"
  <2>1. ASSUME NEW r \in Requests
        PROVE /\ Asks(J, r) = IF S[r] = "page" THEN 1 ELSE 0
              /\ J.bound[LocalStream(r)] # 0 => S[r] = "resolved"
    <3>1. /\ Asks(J, r) = IF R[r] = "page" THEN 1 ELSE 0
          /\ J.bound[LocalStream(r)] # 0 => R[r] = "resolved"
      BY DEF Asked
    <3>2. CASE r = x
      BY <1>2, <3>1, <3>2
    <3>3. CASE r # x
      BY <1>2, <3>1, <3>3
    <3>4. QED
      BY <3>2, <3>3
  <2>2. QED
    BY <2>1
<1>7. ASSUME NEW n \in Members(Append(q, m)), n \in DOMAIN Answers
      PROVE  S[n.request] = "answered" /\ (n.type = "media" => n.stream.of = LocalStream(n.request))
  <2>1. CASE n = m
    BY <1>2, <2>1
  <2>2. CASE n \in Members(q)
    <3>1. n.request \in Requests /\ n.request # x
      BY <1>3, <1>4, <1>7, <2>2, AnswersAre
    <3>2. R[n.request] = "answered" /\ (n.type = "media" => n.stream.of = LocalStream(n.request))
      BY <1>7, <2>2 DEF Asked
    <3>3. QED
      BY <1>2, <3>1, <3>2
  <2>3. QED
    BY <1>3, <2>1, <2>2
<1> HIDE DEF x
<1>8. QED
  BY <1>5, <1>6, <1>7 DEF Asked

(***************************************************************************)
(* The invariant.                                                          *)
(***************************************************************************)
Rest ==
  /\ native \in BOOLEAN
  /\ perm \subseteq Kinds
  /\ request \in [Requests -> {"none", "native", "posted", "page", "camera",
                               "answered", "resolved", "rejected"}]
  /\ stopping \subseteq DOMAIN java.proxies
  /\ toJava \in Seq(Message)
  /\ tstate \in [Tracks -> {"live", "stopped", "ended"}]
  /\ inputs \in 0 .. NInputs /\ nevents \in 0 .. NEvents

IInv ==
  /\ Rest /\ Sound(java) /\ PageRight(page) /\ Kept(page, java) /\ Spelled(toJava, page)
  /\ Heard(java, toJava, page) /\ Noticed(java, toJava, tstate)
  /\ Given(java, page, toJava, nevents) /\ Asked(java, toJava, request)

LEMMA InvInit == ASSUME Init PROVE IInv
<1>1. /\ java = [proxies |-> <<>>, bound |-> [o \in Objects |-> 0], scripts |-> <<>>,
                 tracks |-> [s \in Streams |-> <<>>]]
      /\ page = [known |-> {}, count |-> [o \in Objects |-> 0],
                 heard |-> [t \in Tracks |-> 0], tracks |-> [s \in Streams |-> <<>>]]
      /\ toJava = <<>> /\ nevents = 0
  BY DEF Init
<1>2. NEvents \in Nat /\ NInputs \in Nat
  BY MediaAssumption
<1>3. Rest
  BY <1>1, <1>2 DEF Init, Rest
<1>4. /\ java.proxies = <<>> /\ java.scripts = <<>> /\ java.bound = [o \in Objects |-> 0]
      /\ java.tracks = [s \in Streams |-> <<>>]
      /\ java \in JavaRecs
  <2>1. <<>> \in Seq(Proxy) /\ <<>> \in Seq(Scripts) /\ <<>> \in Seq(Nat)
    OBVIOUS
  <2>2. QED
    BY <1>1, <2>1 DEF JavaRecs
<1>5. \A o \in Objects : java.bound[o] = 0
  BY <1>4
<1>6. \A s \in Streams : java.tracks[s] = <<>> /\ java.bound[s] = 0
  BY <1>4, <1>5, ObjectKinds
<1>7. DOMAIN java.proxies = {}
  BY <1>4
<1>8. Sound(java)
  <2>1. BoundRight(java) /\ AllBound(java)
    BY <1>5, <1>7 DEF BoundRight, AllBound
  <2>2. Listed(java)
    BY <1>6 DEF Listed
  <2>3. Spoken(java, java.scripts)
    BY <1>4, EmptyQueue DEF Spoken
  <2>4. Counted(java)
    BY <1>7 DEF Counted
  <2>5. QED
    BY <1>4, <2>1, <2>2, <2>3, <2>4 DEF Sound, Good, Wired
<1>9. \A x : Times(java.scripts, x) = 0
  <2>1. \A x : x \notin Members(java.scripts)
    BY <1>4, EmptyQueue
  <2>2. QED
    BY <2>1, TimesNone
<1>10. \A o : Owned(java, o) = 0
  <2>1. ASSUME NEW o PROVE Owned(java, o) = 0
    <3>1. java.proxies \in Seq(Proxy) /\ Len(java.proxies) = 0
      BY <1>4, ProxiesAre
    <3>2. PICK f : IsSum(f, Len(java.proxies), Shares(java, o)) /\ Owned(java, o) = f[Len(java.proxies)]
      BY <3>1, OwnedIsSum
    <3>3. QED
      BY <3>1, <3>2 DEF IsSum
  <2>2. QED
    BY <2>1
<1>11. page \in PageRecs /\ page.known = {} /\ page.tracks = [s \in Streams |-> <<>>] /\ page.count = [o \in Objects |-> 0]
  <2>1. <<>> \in Seq(Tracks)
    OBVIOUS
  <2>2. QED
    BY <1>1, <2>1 DEF PageRecs
<1>12. ASSUME NEW o \in Objects PROVE Due(page, java, o) = 0
  <2>1. UnderWay(java, "retain", o) = 0 /\ UnderWay(java, "release", o) = 0
    BY <1>9, UnderWayIs
  <2>2. Debt(java, o) = 0
    BY <1>5, <1>10, <2>1 DEF Debt
  <2>3. QED
    BY <1>11, <2>2 DEF Due
<1>13. PageRight(page)
  BY <1>11, EmptyQueue DEF PageRight
<1>14. Kept(page, java)
  BY <1>5, <1>11, <1>12 DEF Kept
<1>15. Spelled(toJava, page)
  BY <1>1, EmptyQueue DEF Spelled
<1>16. Heard(java, toJava, page)
  BY <1>1, <1>11 DEF Heard, Leads
<1>17. Noticed(java, toJava, tstate)
  BY DEF Init, Noticed
<1>18. Given(java, page, toJava, nevents)
  <2>1. \A k \in 1 .. NEvents : ~ k <= nevents
    BY <1>1
  <2>2. QED
    BY <1>10, <1>12, <2>1, EventObjects DEF Given
<1>19. Asked(java, toJava, request)
  <2>1. \A r \in Requests : request[r] = "none"
    BY DEF Init
  <2>2. \A r \in Requests : java.bound[LocalStream(r)] = 0 /\ Asks(java, r) = 0
    BY <1>5, <1>9, LocalStreams DEF Asks
  <2>3. Once(toJava, Answers) /\ Members(toJava) = {}
    BY <1>1, NoKeys, EmptyQueue
  <2>4. QED
    BY <2>1, <2>2, <2>3 DEF Asked
<1>20. QED
  BY <1>3, <1>8, <1>13, <1>14, <1>15, <1>16, <1>17, <1>18, <1>19 DEF IInv

(***************************************************************************)
(* Steps of Java that the page has no part in.                              *)
(***************************************************************************)
LEMMA ProxiesStay ==
  ASSUME NEW J, NEW K, NEW X, Goes(J, K, X)
  PROVE  DOMAIN J.proxies \subseteq DOMAIN K.proxies
BY DEF Goes, Moves

LEMMA JavaMoves ==
  ASSUME IInv, Sound(java'), Goes(java, java', {}), UNCHANGED <<native, perm, request, toJava, page, nevents>>,
         stopping' \subseteq DOMAIN java'.proxies, inputs' \in 0 .. NInputs,
         tstate' \in [Tracks -> {"live", "stopped", "ended"}],
         \A t \in Tracks : tstate'[t] = "ended" => tstate[t] = "ended"
  PROVE  IInv'
<1>1. Rest'
  BY DEF IInv, Rest
<1>2. Kept(page', java')
  <2>1. {} \subseteq page.known
    OBVIOUS
  <2>2. Kept(page, java')
    BY <2>1, KeptJava DEF IInv
  <2>3. QED
    BY <2>2
<1>3. Heard(java', toJava', page')
  <2>1. Heard(java', toJava, page)
    BY HeardJava DEF IInv
  <2>2. QED
    BY <2>1
<1>4. Noticed(java', toJava', tstate')
  <2>1. Noticed(java', toJava, tstate)
    BY NoticedJava DEF IInv
  <2>2. QED
    BY <2>1 DEF Noticed
<1>5. Given(java', page', toJava', nevents')
  <2>1. Given(java', page, toJava, nevents)
    BY GivenJava DEF IInv
  <2>2. QED
    BY <2>1
<1>6. Asked(java', toJava', request')
  <2>1. \A r \in Requests : LocalStream(r) \notin {}
    OBVIOUS
  <2>2. Asked(java', toJava, request)
    BY <2>1, AskedJava DEF IInv, Rest
  <2>3. QED
    BY <2>2
<1>7. PageRight(page') /\ Spelled(toJava', page')
  BY DEF IInv
<1>8. QED
  BY <1>1, <1>2, <1>3, <1>4, <1>5, <1>6, <1>7 DEF IInv

LEMMA InputCounts == ASSUME IInv, NEW n \in Nat, Input(n) PROVE inputs' \in 0 .. NInputs
BY MediaAssumption DEF IInv, Rest, Input

LEMMA TracksStay ==
  ASSUME IInv, UNCHANGED tstate
  PROVE  /\ tstate' \in [Tracks -> {"live", "stopped", "ended"}]
         /\ \A t \in Tracks : tstate'[t] = "ended" => tstate[t] = "ended"
BY DEF IInv, Rest

LEMMA StopsStay ==
  ASSUME IInv, NEW X, Goes(java, java', X), NEW ps, ps \subseteq DOMAIN java.proxies, stopping' = stopping \cup ps
  PROVE  stopping' \subseteq DOMAIN java'.proxies
BY ProxiesStay DEF IInv, Rest

LEMMA TrackProxiesAre == \A p \in TrackProxies : p \in DOMAIN java.proxies /\ java.proxies[p].of \in Tracks
BY DEF TrackProxies

LEMMA InvAddTrack == ASSUME IInv, NEW s \in Streams, NEW p \in TrackProxies, AddTrack(s, p) PROVE IInv'
<1>1. Sound(java') /\ Goes(java, java', {})
  <2>1. java.bound[s] # 0 /\ java.tracks[s] # None /\ p \in DOMAIN java.proxies /\ java.proxies[p].of \in Tracks
    BY TrackProxiesAre DEF AddTrack, Usable
  <2>2. java' = [Retain(ListTrack(java, s, p), p) EXCEPT
                   !.scripts = Append(@, [op |-> "addTrack", of |-> s, track |-> java.proxies[p].of])]
    BY DEF AddTrack
  <2>3. QED
    BY <2>1, <2>2, AddTrackGoes, Zenon DEF IInv
<1>2. inputs' \in 0 .. NInputs /\ UNCHANGED <<native, perm, request, stopping, toJava, page, tstate, nevents>>
  BY InputCounts DEF AddTrack
<1>3. stopping' \subseteq DOMAIN java'.proxies
  BY <1>1, <1>2, ProxiesStay DEF IInv, Rest
<1>4. QED
  BY <1>1, <1>2, <1>3, TracksStay, JavaMoves

LEMMA InvRemoveTrack == ASSUME IInv, NEW s \in Streams, NEW p \in TrackProxies, RemoveTrack(s, p) PROVE IInv'
<1> DEFINE i == CHOOSE i \in Alike(s, p) : \A j \in Alike(s, p) : i <= j
           q == java.tracks[s][i]
           t == java.proxies[p].of
<1>1. java.bound[s] # 0 /\ java.tracks[s] # None /\ p \in DOMAIN java.proxies /\ t \in Tracks
  BY TrackProxiesAre DEF RemoveTrack, Usable
<1>2. i \in DOMAIN java.tracks[s]
  <2>1. java.tracks[s] \in Seq(Nat)
    BY <1>1, ProxiesAre DEF IInv, Sound, Good
  <2>2. Alike(s, p) \subseteq Nat /\ Alike(s, p) # {} /\ Alike(s, p) \subseteq DOMAIN java.tracks[s]
    <3>1. DOMAIN java.tracks[s] \subseteq Nat
      BY <2>1, LenProperties
    <3>2. QED
      BY <3>1 DEF Alike, RemoveTrack
  <2>3. \E n \in Alike(s, p) : \A m \in Alike(s, p) : n <= m
    BY <2>2, LeastNumber
  <2>4. i \in Alike(s, p)
    BY <2>3, Zenon
  <2>5. QED
    BY <2>2, <2>4
<1>3. java' = Removed(java, s, i, q, t)
  BY Zenon DEF RemoveTrack, Removed
<1> HIDE DEF i, t
<1>4. Sound(java') /\ Goes(java, java', {})
  BY <1>1, <1>2, <1>3, RemoveTrackGoes DEF IInv
<1>5. inputs' \in 0 .. NInputs /\ UNCHANGED <<native, perm, request, stopping, toJava, page, tstate, nevents>>
  BY InputCounts DEF RemoveTrack
<1>6. stopping' \subseteq DOMAIN java'.proxies
  BY <1>4, <1>5, ProxiesStay DEF IInv, Rest
<1>7. QED
  BY <1>4, <1>5, <1>6, TracksStay, JavaMoves

LEMMA InvStopTrack == ASSUME IInv, NEW p \in TrackProxies, StopTrack(p) PROVE IInv'
<1>1. \A x \in {p} : x \in DOMAIN java.proxies /\ java.proxies[x].of \in Tracks
  BY TrackProxiesAre
<1>2. java' = [java EXCEPT !.scripts = @ \o StopScripts({p})] /\ stopping' = stopping \cup {p}
  BY DEF StopTrack
<1>3. Sound(java') /\ Goes(java, java', {})
  BY <1>1, <1>2, StopGoes DEF IInv
<1>4. inputs' \in 0 .. NInputs /\ UNCHANGED <<native, perm, request, toJava, page, tstate, nevents>>
  BY InputCounts DEF StopTrack
<1>5. stopping' \subseteq DOMAIN java'.proxies
  <2>1. {p} \subseteq DOMAIN java.proxies
    BY <1>1
  <2>2. QED
    BY <1>2, <1>3, <2>1, StopsStay
<1>6. QED
  BY <1>3, <1>4, <1>5, TracksStay, JavaMoves

LEMMA InvGetTracks == ASSUME IInv, NEW s \in Streams, GetTracks(s) PROVE IInv'
<1>1. java.tracks[s] # None /\ java' = ListTracks(java, s)
  BY DEF GetTracks, Usable
<1>2. Sound(java') /\ Goes(java, java', {})
  BY <1>1, ListTracksGoes DEF IInv
<1>3. inputs' \in 0 .. NInputs /\ UNCHANGED <<native, perm, request, stopping, toJava, page, tstate, nevents>>
  BY InputCounts DEF GetTracks
<1>4. stopping' \subseteq DOMAIN java'.proxies
  BY <1>2, <1>3, ProxiesStay DEF IInv, Rest
<1>5. QED
  BY <1>2, <1>3, <1>4, TracksStay, JavaMoves

\* Streams that are open are closed, one or all.
LEMMA InvCloseStreams ==
  ASSUME IInv, Input(1), NEW ss, ss \subseteq Streams, \A s \in ss : Usable(s), CloseStreams(ss),
         UNCHANGED <<native, perm, request, toJava, page, tstate, nevents>>
  PROVE  IInv'
<1>1. \A s \in ss : java.bound[s] # 0 /\ java.tracks[s] # None
  BY DEF Usable
<1>2. /\ Sound(java') /\ Goes(java, java', {})
      /\ \E ps \in SUBSET DOMAIN java.proxies : stopping' = stopping \cup ps
  BY <1>1, CloseGoes DEF IInv
<1>3. stopping' \subseteq DOMAIN java'.proxies
  <2>1. PICK ps \in SUBSET DOMAIN java.proxies : stopping' = stopping \cup ps
    BY <1>2
  <2>2. QED
    BY <1>2, <2>1, StopsStay
<1>4. QED
  BY <1>2, <1>3, InputCounts, TracksStay, JavaMoves

LEMMA InvCloseStream == ASSUME IInv, NEW s \in Streams, CloseStream(s) PROVE IInv'
<1>1. {s} \subseteq Streams /\ \A x \in {s} : Usable(x)
  BY DEF CloseStream
<1>2. QED
  BY <1>1, InvCloseStreams DEF CloseStream

LEMMA InvCloseRTC == ASSUME IInv, CloseRTC PROVE IInv'
<1> DEFINE ss == {s \in Streams : Usable(s)}
<1>1. ss \subseteq Streams /\ \A x \in ss : Usable(x)
  OBVIOUS
<1>2. Input(1) /\ CloseStreams(ss) /\ UNCHANGED <<native, perm, request, toJava, page, tstate, nevents>>
  BY DEF CloseRTC
<1> HIDE DEF ss
<1>3. QED
  BY <1>1, <1>2, InvCloseStreams

(***************************************************************************)
(* Steps that change scripts and counts, and send nothing to Java.          *)
(***************************************************************************)
LEMMA MuteMoves ==
  ASSUME IInv, Sound(java'), Mute(java, java'), OwnsSame(java, java'), DueSame(page, java, page', java'),
         PageRight(page'), page'.known = page.known, UNCHANGED <<toJava, nevents>>,
         \A t \in Tracks : tstate'[t] = "ended" => tstate[t] = "ended",
         Rest', Asked(java', toJava', request')
  PROVE  IInv'
<1>1. java'.bound = java.bound /\ java'.proxies = java.proxies
  BY DEF Mute
<1>2. Kept(page', java')
  BY <1>1, KeptOn DEF IInv
<1>3. Heard(java', toJava', page')
  BY <1>1 DEF IInv, Heard
<1>4. Noticed(java', toJava', tstate')
  BY <1>1 DEF IInv, Noticed
<1>5. Given(java', page', toJava', nevents')
  <2>1. Given(java', page', toJava, nevents)
    BY <1>1, GivenOn DEF IInv, OwnsSame
  <2>2. QED
    BY <2>1
<1>6. Spelled(toJava', page')
  BY DEF IInv, Spelled
<1>7. QED
  BY <1>2, <1>3, <1>4, <1>5, <1>6 DEF IInv

RequestStates == {"none", "native", "posted", "page", "camera", "answered", "resolved", "rejected"}

LEMMA InvRequest ==
  ASSUME IInv, UNCHANGED <<native, stopping, toJava, page, tstate, nevents>>, perm' \subseteq Kinds,
         inputs' \in 0 .. NInputs,
         NEW r \in Requests, NEW v \in RequestStates, request' = [request EXCEPT ![r] = v],
         request[r] \notin {"page", "answered", "resolved"},
         (v = "page" /\ SendGetUserMedia(r)) \/ (v # "page" /\ java' = java)
  PROVE  IInv'
<1>1. /\ request \in [Requests -> RequestStates] /\ request' \in [Requests -> RequestStates]
      /\ \A x \in Requests : request'[x] = IF x = r THEN v ELSE request[x]
      /\ toJava \in Seq(Message)
  BY DEF IInv, Rest, RequestStates
<1>2. /\ Sound(java') /\ Mute(java, java') /\ OwnsSame(java, java') /\ DebtSame(java, java')
      /\ \A x \in Requests : Asks(java', x) = Asks(java, x) + (IF x = r /\ v = "page" THEN 1 ELSE 0)
  <2>1. CASE v = "page"
    <3>1. SendGetUserMedia(r)
      BY <2>1
    <3>2. QED
      BY <2>1, <3>1, RequestSent DEF IInv, AsksMore
  <2>2. CASE v # "page"
    <3>1. java' = java
      BY <2>2
    <3>2. \A x \in Requests : Asks(java, x) \in Nat
      BY DebtType DEF IInv, Sound, Good
    <3>3. QED
      BY <2>2, <3>1, <3>2 DEF IInv, Mute, OwnsSame, DebtSame
  <2>3. QED
    BY <2>1, <2>2
<1>3. DueSame(page, java, page', java')
  BY <1>2 DEF DueSame, Due, DebtSame
<1>4. Rest'
  BY <1>1, <1>2 DEF IInv, Rest, Mute, RequestStates
<1>5. Asked(java', toJava', request')
  <2>1. ASSUME NEW x \in Requests PROVE Asks(java', x) = IF request'[x] = "page" THEN 1 ELSE 0
    <3>1. Asks(java, x) = IF request[x] = "page" THEN 1 ELSE 0
      BY DEF IInv, Asked
    <3>2. CASE x = r
      <4>1. Asks(java, x) = 0
        BY <3>1, <3>2
      <4>2. QED
        BY <1>1, <1>2, <3>2, <4>1
    <3>3. CASE x # r
      <4>1. Asks(java, x) \in Nat
        BY DebtType DEF IInv, Sound, Good
      <4>2. QED
        BY <1>1, <1>2, <3>1, <3>3, <4>1
    <3>4. QED
      BY <3>2, <3>3
  <2>2. /\ \A x \in Requests : java'.bound[LocalStream(x)] # 0 => java.bound[LocalStream(x)] # 0
        /\ \A x \in Requests : request[x] = "resolved" => request'[x] = "resolved"
        /\ \A x \in Requests : request[x] = "answered" => request'[x] = "answered"
    BY <1>1, <1>2 DEF Mute
  <2>3. Asked(java, toJava, request)
    BY DEF IInv
  <2>4. Asked(java', toJava, request')
    BY ZenonT(40), <1>1, <2>1, <2>2, <2>3, AskedOn
  <2>5. QED
    BY <2>4
<1>6. PageRight(page') /\ page'.known = page.known
  BY DEF IInv
<1>7. QED
  BY <1>2, <1>3, <1>4, <1>5, <1>6, MuteMoves

LEMMA InvGetUserMedia == ASSUME IInv, NEW r \in Requests, GetUserMedia(r) PROVE IInv'
<1>1. /\ request[r] \notin {"page", "answered", "resolved"}
      /\ UNCHANGED <<native, stopping, toJava, page, tstate, nevents>> /\ inputs' \in 0 .. NInputs
  BY InputCounts DEF GetUserMedia
<1>2. PICK v \in RequestStates :
        /\ request' = [request EXCEPT ![r] = v] /\ perm' \in {perm, Kinds}
        /\ (v = "page" /\ SendGetUserMedia(r)) \/ (v # "page" /\ java' = java)
  <2>1. "page" \in RequestStates /\ "native" \in RequestStates /\ "posted" \in RequestStates
    BY DEF RequestStates
  <2>2. CASE Wants[r] \subseteq perm
    BY <2>1, <2>2 DEF GetUserMedia
  <2>3. CASE ~ Wants[r] \subseteq perm /\ native
    BY <2>1, <2>3 DEF GetUserMedia
  <2>4. CASE ~ Wants[r] \subseteq perm /\ ~ native
    BY <2>1, <2>4 DEF GetUserMedia
  <2>5. QED
    BY <2>2, <2>3, <2>4
<1>3. perm' \subseteq Kinds
  BY <1>2 DEF IInv, Rest
<1>4. QED
  BY <1>1, <1>2, <1>3, InvRequest

LEMMA InvNativeAnswers == ASSUME IInv, NEW r \in Requests, NativeAnswers(r) PROVE IInv'
<1>1. /\ request[r] \notin {"page", "answered", "resolved"} /\ request' = [request EXCEPT ![r] = "posted"]
      /\ UNCHANGED <<native, stopping, inputs, toJava, page, tstate, nevents>> /\ java' = java
      /\ "posted" \in RequestStates /\ inputs' \in 0 .. NInputs
  BY DEF NativeAnswers, RequestStates, IInv, Rest
<1>2. perm' \subseteq Kinds
  <2>1. Wants[r] \subseteq Kinds
    BY MediaAssumption
  <2>2. QED
    BY <2>1 DEF NativeAnswers, IInv, Rest
<1>3. QED
  BY <1>1, <1>2, InvRequest

LEMMA InvRetry == ASSUME IInv, NEW r \in Requests, Retry(r) PROVE IInv'
<1>1. /\ request[r] \notin {"page", "answered", "resolved"}
      /\ UNCHANGED <<native, perm, stopping, toJava, page, tstate, nevents>>
      /\ inputs' \in 0 .. NInputs
  BY DEF Retry, IInv, Rest
<1>2. PICK v \in RequestStates :
        /\ request' = [request EXCEPT ![r] = v]
        /\ (v = "page" /\ SendGetUserMedia(r)) \/ (v # "page" /\ java' = java)
  BY DEF Retry, RequestStates
<1>3. perm' \subseteq Kinds
  BY <1>1 DEF IInv, Rest
<1>4. QED
  BY <1>1, <1>2, <1>3, InvRequest

LEMMA InvPageCounts == ASSUME IInv, PageCounts PROVE IInv'
<1>1. Sound(java) /\ page \in PageRecs /\ \A o \in Objects : java.bound[o] # 0 => o \in page.known
  BY DEF IInv, PageRight, Kept
<1>2. /\ Sound(java') /\ Mute(java, java') /\ OwnsSame(java, java')
      /\ \A r : Asks(java', r) = Asks(java, r)
      /\ page' \in PageRecs /\ page'.known = page.known /\ page'.heard = page.heard
      /\ page'.tracks = page.tracks /\ DueSame(page, java, page', java')
  BY <1>1, CountsRun
<1>3. UNCHANGED <<native, perm, request, stopping, inputs, toJava, tstate, nevents>>
  BY DEF PageCounts
<1>4. PageRight(page')
  BY <1>2 DEF IInv, PageRight
<1>5. Rest'
  BY <1>2, <1>3 DEF IInv, Rest, Mute
<1>6. Asked(java', toJava', request')
  BY <1>2, <1>3 DEF IInv, Asked, Mute
<1>7. \A t \in Tracks : tstate'[t] = "ended" => tstate[t] = "ended"
  BY <1>3
<1>8. QED
  BY <1>2, <1>3, <1>4, <1>5, <1>6, <1>7, MuteMoves

\* A stream gets other tracks.
Holding(P, s, q) == [P EXCEPT !.tracks[s] = q]

LEMMA StreamSet ==
  ASSUME NEW P \in PageRecs, NEW s \in Streams, NEW q \in Seq(Tracks), NEW Q, Q = Holding(P, s, q)
  PROVE  /\ Q \in PageRecs /\ Q.known = P.known /\ Q.count = P.count /\ Q.heard = P.heard
         /\ Q.tracks[s] = q /\ \A x \in Streams : x # s => Q.tracks[x] = P.tracks[x]
BY DEF PageRecs, Holding

LEMMA InvPageStep == ASSUME IInv, PageStep PROVE IInv'
<1> DEFINE c == Head(java.scripts)
<1>1. /\ java.scripts # <<>> /\ c.op \in {"addTrack", "removeTrack", "stop", "getUserMedia"}
      /\ java' = Speaks(java, Tail(java.scripts))
      /\ UNCHANGED <<native, perm, stopping, inputs, toJava, nevents>>
  BY DEF PageStep, Speaks
<1>2. /\ Sound(java') /\ Mute(java, java') /\ OwnsSame(java, java') /\ DebtSame(java, java')
      /\ c \in Scripts
      /\ c.op = "addTrack" => java.bound[c.track] # 0
      /\ c.op = "getUserMedia" => AsksMore(java, java', c.of, -1)
      /\ c.op # "getUserMedia" => \A r : Asks(java', r) = Asks(java, r)
  <2> DEFINE K == java'
  <2>1. K = Speaks(java, Tail(java.scripts)) /\ c.op \notin {"retain", "release"} /\ Sound(java)
    BY <1>1 DEF IInv
  <2> HIDE DEF K
  <2>2. /\ Sound(K) /\ Mute(java, K) /\ OwnsSame(java, K) /\ DebtSame(java, K)
        /\ c \in Scripts
        /\ c.op = "addTrack" => java.bound[c.track] # 0
        /\ c.op = "getUserMedia" => AsksMore(java, K, c.of, -1)
        /\ c.op # "getUserMedia" => \A r : Asks(K, r) = Asks(java, r)
    BY <1>1, <2>1, ScriptTaken
  <2>3. QED
    BY <2>2 DEF K
<1>3. \A t \in Tracks : tstate'[t] = "ended" => tstate[t] = "ended"
  <2>1. tstate \in [Tracks -> {"live", "stopped", "ended"}]
    BY DEF IInv, Rest
  <2>2. tstate' = tstate \/ tstate' = [tstate EXCEPT ![c.of] = IF @ = "live" THEN "stopped" ELSE @]
    BY DEF PageStep
  <2> HIDE DEF c
  <2>3. QED
    BY <2>1, <2>2
<1>4. tstate' \in [Tracks -> {"live", "stopped", "ended"}]
  <2>1. tstate \in [Tracks -> {"live", "stopped", "ended"}]
    BY DEF IInv, Rest
  <2>2. tstate' = tstate \/ tstate' = [tstate EXCEPT ![c.of] = IF @ = "live" THEN "stopped" ELSE @]
    BY DEF PageStep
  <2> HIDE DEF c
  <2>3. QED
    BY <2>1, <2>2
<1>5. request \in [Requests -> RequestStates] /\ toJava \in Seq(Message)
  BY DEF IInv, Rest, RequestStates
<1>6. \/ c.op = "getUserMedia" /\ request' = [request EXCEPT ![c.of] = "camera"]
      \/ c.op # "getUserMedia" /\ request' = request
  BY DEF PageStep
<1>7. c.op = "getUserMedia" => c.of \in Requests
  BY <1>2 DEF Scripts
<1>8. page' \in PageRecs /\ page'.known = page.known /\ page'.count = page.count /\ PageRight(page')
  <2>1. page \in PageRecs /\ PageRight(page)
    BY DEF IInv, PageRight
  <2>2. CASE c.op = "addTrack"
    <3> DEFINE q == IF c.track \in ToSet(page.tracks[c.of]) THEN page.tracks[c.of]
                    ELSE Append(page.tracks[c.of], c.track)
    <3>1. page' = Holding(page, c.of, q)
      BY <2>2, Zenon DEF PageStep, Holding
    <3>2. c.of \in Streams /\ c.track \in Tracks
      BY <1>2, <2>2 DEF Scripts
    <3>3. page.tracks[c.of] \in Seq(Tracks)
      BY <2>1, <3>2, PageIs
    <3>4. q \in Seq(Tracks) /\ Members(q) \subseteq Members(page.tracks[c.of]) \cup {c.track}
      BY <3>2, <3>3, AppendMembers
    <3>5. c.track \in page.known
      <4>1. c.track \in Objects
        BY <3>2, ObjectKinds
      <4>2. QED
        BY <1>2, <2>2, <4>1 DEF IInv, Kept
    <3> HIDE DEF c, q
    <3>6. /\ page' \in PageRecs
          /\ page'.known = page.known /\ page'.count = page.count /\ page'.heard = page.heard
          /\ page'.tracks[c.of] = q
          /\ \A s \in Streams : s # c.of => page'.tracks[s] = page.tracks[s]
      <4> DEFINE Q == page'
      <4>1. Q = Holding(page, c.of, q)
        BY <3>1
      <4> HIDE DEF Q
      <4>2. /\ Q \in PageRecs
            /\ Q.known = page.known /\ Q.count = page.count /\ Q.heard = page.heard
            /\ Q.tracks[c.of] = q
            /\ \A s \in Streams : s # c.of => Q.tracks[s] = page.tracks[s]
        BY <2>1, <3>2, <3>4, <4>1, StreamSet
      <4>3. QED
        BY <4>2 DEF Q
    <3>11. \A s \in Streams : Members(page'.tracks[s]) \subseteq page'.known
      <4>1. \A s \in Streams : Members(page.tracks[s]) \subseteq page.known
        BY <2>1 DEF PageRight
      <4>2. Members(q) \subseteq page.known
        BY <3>2, <3>4, <3>5, <4>1
      <4>3. QED
        BY <3>6, <4>1, <4>2
    <3>12. QED
      BY <2>1, <3>6, <3>11 DEF PageRight
  <2>3. CASE c.op # "addTrack"
    <3>1. page' = page
      BY <2>3 DEF PageStep
    <3>2. QED
      BY <2>1, <3>1
  <2>4. QED
    BY <2>2, <2>3
<1> HIDE DEF c
<1>9. request' \in [Requests -> RequestStates]
  <2>1. "camera" \in RequestStates
    BY DEF RequestStates
  <2>2. QED
    BY <1>5, <1>6, <1>7, <2>1
<1>10. Asked(java', toJava', request')
  <2>1. Asked(java, toJava, request)
    BY DEF IInv
  <2>2. java'.bound = java.bound
    BY <1>2 DEF Mute
  <2>3. CASE c.op = "getUserMedia"
    <3>1. \A x \in Requests : request'[x] = IF x = c.of THEN "camera" ELSE request[x]
      BY <1>5, <1>6, <2>3
    <3>2. Asks(java, c.of) = 1 /\ request[c.of] = "page"
      <4>1. Asks(java', c.of) = Asks(java, c.of) + -1
        BY <1>2, <2>3 DEF AsksMore
      <4>2. Asks(java', c.of) \in Nat /\ Asks(java, c.of) \in Nat
        BY <1>2, DebtType DEF IInv, Sound, Good
      <4>3. Asks(java, c.of) = IF request[c.of] = "page" THEN 1 ELSE 0
        BY <1>7, <2>1, <2>3 DEF Asked
      <4>4. QED
        BY <4>1, <4>2, <4>3
    <3>3. ASSUME NEW x \in Requests PROVE Asks(java', x) = IF request'[x] = "page" THEN 1 ELSE 0
      <4>1. Asks(java', x) = Asks(java, x) + (IF x = c.of THEN -1 ELSE 0)
        BY <1>2, <2>3 DEF AsksMore
      <4>2. Asks(java, x) = IF request[x] = "page" THEN 1 ELSE 0
        BY <2>1 DEF Asked
      <4>3. CASE x = c.of
        BY <3>1, <3>2, <4>1, <4>3
      <4>4. CASE x # c.of
        BY <3>1, <4>1, <4>2, <4>4
      <4>5. QED
        BY <4>3, <4>4
    <3>4. /\ \A x \in Requests : java'.bound[LocalStream(x)] # 0 => java.bound[LocalStream(x)] # 0
          /\ \A x \in Requests : request[x] = "resolved" => request'[x] = "resolved"
          /\ \A x \in Requests : request[x] = "answered" => request'[x] = "answered"
      BY <2>2, <3>1, <3>2
    <3>5. Asked(java', toJava, request')
      BY <1>5, <2>1, <3>3, <3>4, AskedOn
    <3>6. QED
      BY <1>1, <3>5
  <2>4. CASE c.op # "getUserMedia"
    <3>1. request' = request /\ \A r : Asks(java', r) = Asks(java, r)
      BY <1>2, <1>6, <2>4
    <3>2. QED
      BY <1>1, <2>1, <2>2, <3>1 DEF Asked
  <2>5. QED
    BY <2>3, <2>4
<1>11. DueSame(page, java, page', java')
  BY <1>2, <1>8 DEF DueSame, Due, DebtSame
<1>12. Rest'
  BY <1>1, <1>2, <1>4, <1>9 DEF IInv, Rest, Mute, RequestStates
<1>13. QED
  BY <1>1, <1>2, <1>3, <1>8, <1>10, <1>11, <1>12, MuteMoves

(***************************************************************************)
(* Java handles a message.                                                  *)
(***************************************************************************)
LEMMA Handled ==
  ASSUME IInv, toJava # <<>>, NEW X, Sound(java'), Goes(java, java', X), X \subseteq page.known,
         \A t \in Tracks : t \in Brings(Head(toJava)) => java'.bound[t] # 0,
         \A t \in Tracks : Head(toJava) = Ended(t) =>
           java'.bound[t] # 0 /\ java'.proxies[java'.bound[t]].ready = "ended",
         Head(toJava).type = "track" => java'.bound[Head(toJava).of] # 0,
         toJava' = Tail(toJava), UNCHANGED <<native, perm, stopping, inputs, page, tstate, nevents>>,
         request' \in [Requests -> RequestStates], Asked(java', toJava', request')
  PROVE  IInv'
<1>1. toJava \in Seq(Message) /\ Members(toJava) = Members(Tail(toJava)) \cup {Head(toJava)} /\ Tail(toJava) \in Seq(Message)
  BY TailMembers DEF IInv, Rest
<1>2. Rest'
  BY <1>1, ProxiesStay DEF IInv, Rest, RequestStates
<1>3. Kept(page', java')
  <2>1. Kept(page, java')
    BY KeptJava DEF IInv
  <2>2. QED
    BY <2>1
<1>4. Heard(java', toJava', page')
  <2>1. Heard(java', Tail(toJava), page)
    BY <1>1, HeardTail DEF IInv
  <2>2. QED
    BY <2>1
<1>5. Noticed(java', toJava', tstate')
  <2>1. Noticed(java', toJava, tstate)
    BY NoticedJava DEF IInv
  <2>2. Noticed(java', Tail(toJava), tstate)
    BY <1>1, <2>1, NoticedTail
  <2>3. QED
    BY <2>2
<1>6. Given(java', page', toJava', nevents')
  <2>1. Given(java', page, toJava, nevents)
    BY GivenJava DEF IInv
  <2>2. Given(java', page, Tail(toJava), nevents)
    BY <1>1, <2>1, GivenTail
  <2>3. QED
    BY <2>2
<1>7. PageRight(page') /\ Spelled(toJava', page')
  BY <1>1 DEF IInv, Spelled
<1>8. QED
  BY <1>2, <1>3, <1>4, <1>5, <1>6, <1>7 DEF IInv

\* What a message is, by its type.
LEMMA MessageIs ==
  ASSUME NEW m \in Message
  PROVE  /\ m.type = "media" => m.request \in Requests /\ m.stream \in StreamInfos(Streams)
         /\ m.type = "refused" => m.request \in Requests
         /\ m.type = "track" => m \in TrackMessages
         /\ m.type = "ended" => m.of \in Tracks /\ m = Ended(m.of)
<1>1. m.type = "ended" => m \in [type : {"ended"}, of : Tracks]
  BY DEF Message
<1>2. m.type = "track" => m \in TrackMessages
  BY DEF Message, TrackMessages, RemoteInfo
<1>3. QED
  BY <1>1, <1>2 DEF Message, Ended

LEMMA LocalStreamsApart ==
  /\ \A r, x \in Requests : LocalStream(r) = LocalStream(x) => r = x
  /\ \A r \in Requests : LocalStream(r) \notin Tracks /\ LocalStream(r) \notin RemoteStreams
                         /\ LocalStream(r) \notin Events
  /\ \A r \in Requests, t \in RemoteTracks : LocalStream(r) \notin {Receiver(t), Transceiver(t), Sender(t)}
<1>1. \A r, x \in Requests : LocalStream(r) = LocalStream(x) => r = x
  BY DEF LocalStream
<1>2. \A r \in Requests : LocalStream(r) \in Streams /\ LocalStream(r) \notin Tracks /\ LocalStream(r) \notin Events
  BY LocalStreams, ObjectKinds
<1>3. \A r \in Requests : LocalStream(r) \notin RemoteStreams
  BY ObjectsApart
<1>4. \A r \in Requests, t \in RemoteTracks : LocalStream(r) \notin {Receiver(t), Transceiver(t), Sender(t)}
  BY <1>2, ObjectsApart
<1>5. QED
  BY <1>1, <1>2, <1>3, <1>4

\* A track event is about no stream of a request.
LEMMA EventsRemote ==
  ASSUME NEW e \in TrackMessages, NEW r \in Requests
  PROVE  LocalStream(r) \notin EventTold(e)
<1>1. /\ e.of \in Events /\ e.track.of \in Tracks /\ e.track.of \in RemoteTracks
      /\ e.streams \in Seq(StreamInfos(RemoteStreams)) /\ e.sends \in Seq(TrackInfo)
  BY TrackMessageIs
<1>2. LocalStream(r) \notin {e.of, e.track.of, Receiver(e.track.of), Transceiver(e.track.of), Sender(e.track.of)}
  BY <1>1, LocalStreamsApart
<1>3. LocalStream(r) \notin AllTold(e.streams)
  <2>1. ASSUME NEW i \in DOMAIN e.streams PROVE LocalStream(r) \notin Told(e.streams[i])
    <3>1. e.streams[i] \in StreamInfos(RemoteStreams)
      BY <1>1, <2>1, ElementOfSeq, LenProperties
    <3>2. e.streams[i].of \in RemoteStreams /\ e.streams[i].tracks \in Seq(TrackInfo)
      BY <3>1 DEF StreamInfos
    <3>3. \A j \in DOMAIN e.streams[i].tracks : e.streams[i].tracks[j] \in TrackInfo
      BY <3>2, ElementOfSeq, LenProperties
    <3>4. \A j \in DOMAIN e.streams[i].tracks : e.streams[i].tracks[j].of \in Tracks
      BY <3>3 DEF TrackInfo
    <3>5. QED
      BY <3>2, <3>4, LocalStreamsApart DEF Told
  <2>2. QED
    BY <2>1 DEF AllTold
<1>4. LocalStream(r) \notin Sent(e.sends)
  <2>1. ASSUME NEW i \in DOMAIN e.sends PROVE e.sends[i].of \in Tracks
    <3>1. e.sends[i] \in TrackInfo
      BY <1>1, <2>1, ElementOfSeq, LenProperties
    <3>2. QED
      BY <3>1 DEF TrackInfo
  <2>2. QED
    BY <2>1, LocalStreamsApart DEF Sent
<1>5. QED
  BY <1>2, <1>3, <1>4 DEF EventTold

LEMMA InvMedia ==
  ASSUME IInv, toJava # <<>>, Head(toJava).type = "media", java' = UserMedia(java, Head(toJava).stream),
         request' = [request EXCEPT ![Head(toJava).request] = "resolved"], toJava' = Tail(toJava),
         UNCHANGED <<native, perm, stopping, inputs, page, tstate, nevents>>
  PROVE  IInv'
<1> DEFINE m == Head(toJava)
           s == m.stream
           x == m.request
           q == Tail(toJava)
<1>1. /\ toJava \in Seq(Message) /\ q \in Seq(Message) /\ m \in Message
      /\ request \in [Requests -> RequestStates] /\ Asked(java, toJava, request)
  BY TailMembers DEF IInv, Rest, RequestStates
<1>2. x \in Requests /\ s \in StreamInfos(Streams) /\ m \in DOMAIN Answers
  BY <1>1, MessageIs, AnswersAre
<1>3. /\ Asked(java, q, request) /\ request[x] = "answered" /\ s.of = LocalStream(x)
      /\ \A n \in Members(q) : n \in DOMAIN Answers => n.request # x
  BY <1>1, <1>2, AskedTail
<1>4. java.tracks[s.of] # None
  <2>1. java.bound[s.of] = 0
    <3>1. java.bound[LocalStream(x)] # 0 => request[x] = "resolved"
      BY <1>1, <1>2 DEF Asked
    <3>2. QED
      BY <1>3, <3>1
  <2>2. java.tracks[s.of] = <<>>
    BY <1>2, <2>1, StreamInfoIs DEF IInv, Sound, Good, Wired, Listed
  <2>3. <<>> \in Seq(Nat)
    OBVIOUS
  <2>4. QED
    BY <2>2, <2>3, ObjectsApart
<1>5. /\ Sound(java') /\ Goes(java, java', Told(s))
      /\ \A i \in DOMAIN s.tracks : java'.bound[s.tracks[i].of] # 0
  <2>1. Sound(java) /\ java' = UserMedia(java, s)
    BY DEF IInv
  <2>2. Sound(java') /\ Goes(java, java', Told(s))
    BY <1>2, <1>4, <2>1, UserMediaGoes
  <2>3. \A i \in DOMAIN s.tracks : java'.bound[s.tracks[i].of] # 0
    BY <1>2, <1>4, <2>1, UserMediaGoes
  <2>4. QED
    BY <2>2, <2>3
<1>6. Told(s) \subseteq page.known
  <2>1. m \in Members(toJava)
    BY <1>1, TailMembers
  <2>2. QED
    BY <2>1 DEF IInv, Spelled, Mentions
<1>7. \A t \in Tracks : t \in Brings(m) => java'.bound[t] # 0
  BY <1>5 DEF Brings, Lists
<1>8. Asked(java', toJava', request')
  <2>1. ForOne(Told(s), x)
    <3>1. ASSUME NEW r \in Requests, LocalStream(r) \in Told(s) PROVE r = x
      <4>1. \A i \in DOMAIN s.tracks : s.tracks[i].of \in Tracks
        BY <1>2, StreamInfoIs DEF TrackInfo
      <4>2. LocalStream(r) = s.of
        BY <3>1, <4>1, LocalStreamsApart DEF Told
      <4>3. QED
        BY <1>2, <1>3, <4>2, LocalStreamsApart
    <3>2. QED
      BY <3>1 DEF ForOne
  <2>2. Turns(request, request', x, "resolved") /\ "resolved" # "page"
    BY <1>1 DEF Turns
  <2>3. Others(q, x)
    BY <1>3 DEF Others
  <2> HIDE DEF m, s, x, q
  <2>4. Asked(java', q, request')
    BY <1>1, <1>2, <1>3, <1>5, <2>1, <2>2, <2>3, AskedDone
  <2>5. QED
    BY <2>4 DEF q
<1>9. request' \in [Requests -> RequestStates]
  <2>1. "resolved" \in RequestStates
    BY DEF RequestStates
  <2>2. QED
    BY <1>1, <2>1
<1>10. /\ \A t \in Tracks : m # Ended(t)
       /\ m.type # "track"
  BY DEF Ended
<1>11. QED
  BY <1>5, <1>6, <1>7, <1>8, <1>9, <1>10, Handled

LEMMA InvRefused ==
  ASSUME IInv, toJava # <<>>, Head(toJava).type = "refused", java' = java,
         request' = [request EXCEPT ![Head(toJava).request] = "rejected"], toJava' = Tail(toJava),
         UNCHANGED <<native, perm, stopping, inputs, page, tstate, nevents>>
  PROVE  IInv'
<1> DEFINE m == Head(toJava)
           x == m.request
           q == Tail(toJava)
<1>1. /\ toJava \in Seq(Message) /\ q \in Seq(Message) /\ m \in Message
      /\ request \in [Requests -> RequestStates] /\ Asked(java, toJava, request)
  BY TailMembers DEF IInv, Rest, RequestStates
<1>2. x \in Requests /\ m \in DOMAIN Answers
  BY <1>1, MessageIs, AnswersAre
<1>3. /\ Asked(java, q, request) /\ request[x] = "answered"
      /\ \A n \in Members(q) : n \in DOMAIN Answers => n.request # x
  BY <1>1, <1>2, AskedTail
<1>4. Sound(java') /\ Goes(java, java', {})
  <2>1. Goes(java, java, {})
    BY GoesNot
  <2>2. QED
    BY <2>1 DEF IInv
<1>5. Asked(java', toJava', request')
  <2>1. "rejected" # "page"
    OBVIOUS
  <2>2. Turns(request, request', x, "rejected")
    BY <1>1 DEF Turns
  <2>3. Others(q, x)
    BY <1>3 DEF Others
  <2> HIDE DEF m, x, q
  <2>4. Asked(java', q, request')
    BY <1>1, <1>2, <1>3, <1>4, <2>1, <2>2, <2>3, AskedDone
  <2>5. QED
    BY <2>4 DEF q
<1>6. request' \in [Requests -> RequestStates]
  <2>1. "rejected" \in RequestStates
    BY DEF RequestStates
  <2>2. QED
    BY <1>1, <2>1
<1>7. /\ \A t \in Tracks : m # Ended(t) /\ t \notin Brings(m)
      /\ m.type # "track" /\ {} \subseteq page.known
  BY DEF Ended, Brings
<1>8. QED
  BY <1>4, <1>5, <1>6, <1>7, Handled

LEMMA InvTrack ==
  ASSUME IInv, toJava # <<>>, Head(toJava).type = "track", java' = DispatchTrackEvent(java, Head(toJava)),
         request' = request, toJava' = Tail(toJava),
         UNCHANGED <<native, perm, stopping, inputs, page, tstate, nevents>>
  PROVE  IInv'
<1> DEFINE m == Head(toJava)
           q == Tail(toJava)
<1>1. /\ toJava \in Seq(Message) /\ q \in Seq(Message) /\ m \in Message
      /\ request \in [Requests -> RequestStates] /\ Asked(java, toJava, request)
  BY TailMembers DEF IInv, Rest, RequestStates
<1>2. m \in TrackMessages
  BY <1>1, MessageIs
<1>3. Sound(java') /\ Goes(java, java', EventTold(m)) /\ java'.bound[m.track.of] # 0 /\ java'.bound[m.of] # 0
  BY <1>2, DispatchGoes DEF IInv
<1>4. EventTold(m) \subseteq page.known
  <2>1. m \in Members(toJava)
    BY <1>1, TailMembers
  <2>2. QED
    BY <2>1 DEF IInv, Spelled, Mentions
<1>5. \A t \in Tracks : t \in Brings(m) => java'.bound[t] # 0
  BY <1>3 DEF Brings
<1>6. Asked(java', toJava', request')
  <2>1. Asked(java, q, request)
    BY <1>1, AskedTail
  <2>2. \A r \in Requests : LocalStream(r) \notin EventTold(m)
    BY <1>2, EventsRemote
  <2>3. Asked(java', q, request)
    BY <1>1, <1>3, <2>1, <2>2, AskedJava
  <2>4. QED
    BY <2>3
<1>7. \A t \in Tracks : m # Ended(t)
  BY DEF Ended
<1>8. request' \in [Requests -> RequestStates]
  BY <1>1
<1>9. QED
  BY <1>3, <1>4, <1>5, <1>6, <1>7, <1>8, Handled

LEMMA InvEnded ==
  ASSUME IInv, toJava # <<>>, Head(toJava).type = "ended", java' = DispatchEnded(java, Head(toJava).of),
         request' = request, toJava' = Tail(toJava),
         UNCHANGED <<native, perm, stopping, inputs, page, tstate, nevents>>
  PROVE  IInv'
<1> DEFINE m == Head(toJava)
           q == Tail(toJava)
<1>1. /\ toJava \in Seq(Message) /\ q \in Seq(Message) /\ m \in Message
      /\ request \in [Requests -> RequestStates] /\ Asked(java, toJava, request)
  BY TailMembers DEF IInv, Rest, RequestStates
<1>2. m.of \in Tracks /\ m = Ended(m.of)
  BY <1>1, MessageIs
<1>3. java.bound[m.of] # 0
  <2>1. \A t \in Tracks : t \in Brings(m) => java.bound[t] # 0
    BY DEF Brings
  <2>2. Goes(java, java, {})
    BY GoesNot
  <2>3. \A t \in Tracks : java.bound[t] = 0 => m # Ended(t)
    BY <1>1, <2>1, <2>2, HeardTail DEF IInv
  <2>4. QED
    BY <1>2, <2>3
<1>4. /\ Sound(java') /\ Goes(java, java', {}) /\ java'.bound = java.bound
      /\ java'.proxies[java'.bound[m.of]].ready = "ended"
  BY <1>2, <1>3, DispatchEndedGoes DEF IInv
<1>5. /\ \A t \in Tracks : t \in Brings(m) => java'.bound[t] # 0
      /\ \A t \in Tracks : m = Ended(t) => java'.bound[t] # 0 /\ java'.proxies[java'.bound[t]].ready = "ended"
      /\ {} \subseteq page.known
  <2>1. Brings(m) = {}
    BY DEF Brings
  <2>2. ASSUME NEW t \in Tracks, m = Ended(t)
        PROVE  java'.bound[t] # 0 /\ java'.proxies[java'.bound[t]].ready = "ended"
    <3>1. m.of = t
      BY <2>2 DEF Ended
    <3> HIDE DEF m
    <3>2. QED
      BY <1>3, <1>4, <3>1
  <2> HIDE DEF m
  <2>3. QED
    BY <2>1, <2>2
<1>6. Asked(java', toJava', request')
  <2>1. Asked(java, q, request)
    BY <1>1, AskedTail
  <2>2. \A r \in Requests : LocalStream(r) \notin {}
    OBVIOUS
  <2> HIDE DEF m, q
  <2>3. Asked(java', q, request)
    BY <1>1, <1>4, <2>1, <2>2, AskedJava
  <2>4. QED
    BY <2>3 DEF q
<1>7. request' \in [Requests -> RequestStates]
  BY <1>1
<1>8. QED
  BY <1>4, <1>5, <1>6, <1>7, Handled

LEMMA InvJavaStep == ASSUME IInv, JavaStep PROVE IInv'
<1>1. /\ toJava # <<>> /\ toJava' = Tail(toJava)
      /\ UNCHANGED <<native, perm, stopping, inputs, page, tstate, nevents>>
  BY DEF JavaStep
<1>2. CASE /\ Head(toJava).type = "media" /\ java' = UserMedia(java, Head(toJava).stream)
           /\ request' = [request EXCEPT ![Head(toJava).request] = "resolved"]
  BY <1>1, <1>2, InvMedia
<1>3. CASE /\ Head(toJava).type = "refused" /\ java' = java
           /\ request' = [request EXCEPT ![Head(toJava).request] = "rejected"]
  BY <1>1, <1>3, InvRefused
<1>4. CASE Head(toJava).type = "track" /\ java' = DispatchTrackEvent(java, Head(toJava)) /\ request' = request
  BY <1>1, <1>4, InvTrack
<1>5. CASE Head(toJava).type = "ended" /\ java' = DispatchEnded(java, Head(toJava).of) /\ request' = request
  BY <1>1, <1>5, InvEnded
<1>6. QED
  BY <1>2, <1>3, <1>4, <1>5 DEF JavaStep

(***************************************************************************)
(* The page sends messages.                                                 *)
(***************************************************************************)
CountsFired(P, Q, n, l) == \A k \in 1 .. NEvents : Q.count[TrackEvent(k)] = P.count[TrackEvent(k)] + Fired(n, l, k)
Fires(r, n, l) == \A k \in 1 .. NEvents : n < k /\ k <= n + l => \E m \in Members(r) : Gives(m, k)
BringsAll(P, Q, r) == \A t \in Tracks : t \in Q.known => t \in P.known \/ Members(r) \cap Bringing(t) # {}

LEMMA PageSends ==
  ASSUME IInv, UNCHANGED <<native, perm, java, stopping, tstate>>, inputs' \in 0 .. NInputs,
         NEW r \in Seq(Message), toJava' = toJava \o r, \A m \in Members(r) : m.type # "ended",
         PageRight(page'), Kept(page', java), page.known \subseteq page'.known,
         Spelled(r, page'), BringsAll(page, page', r),
         NEW l \in Nat, nevents' = nevents + l, nevents' <= NEvents,
         CountsFired(page, page', nevents, l), Fires(r, nevents, l),
         request' \in [Requests -> RequestStates], Asked(java, toJava', request')
  PROVE  IInv'
<1>1. toJava \in Seq(Message) /\ toJava' \in Seq(Message) /\ nevents \in Nat /\ NEvents \in Nat
  BY ConcatMembers, MediaAssumption DEF IInv, Rest
<1>2. Rest'
  BY <1>1 DEF IInv, Rest, RequestStates
<1>3. Spelled(toJava', page')
  <2>1. Spelled(toJava, page')
    BY SpelledOn DEF IInv
  <2>2. QED
    BY <1>1, <2>1, SpelledConcat
<1>4. Heard(java', toJava', page')
  <2>1. Heard(java, toJava, page) /\ \A t \in Tracks : t \in page'.known => t \in page.known \/ Members(r) \cap Bringing(t) # {}
    BY DEF IInv, BringsAll
  <2>2. Heard(java, toJava \o r, page')
    BY <1>1, <2>1, HeardConcat
  <2>3. QED
    BY <2>2
<1>5. Noticed(java', toJava', tstate')
  <2>1. Noticed(java, toJava \o r, tstate)
    BY <1>1, NoticedConcat DEF IInv
  <2>2. QED
    BY <2>1
<1>6. Given(java', page', toJava', nevents')
  <2>1. java \in JavaRecs /\ page \in PageRecs /\ page' \in PageRecs /\ Given(java, page, toJava, nevents)
    BY DEF IInv, Sound, Good, PageRight
  <2>2. \A k \in 1 .. NEvents : page'.count[TrackEvent(k)] = page.count[TrackEvent(k)] + Fired(nevents, l, k)
    BY DEF CountsFired
  <2>3. \A k \in 1 .. NEvents : nevents < k /\ k <= nevents + l => \E m \in Members(r) : Gives(m, k)
    BY DEF Fires
  <2>4. Given(java, page', toJava \o r, nevents + l)
    BY <1>1, <2>1, <2>2, <2>3, GivenConcat
  <2>5. QED
    BY <2>4
<1>7. Sound(java') /\ Kept(page', java') /\ Asked(java', toJava', request')
  BY DEF IInv
<1>8. QED
  BY <1>2, <1>3, <1>4, <1>5, <1>6, <1>7 DEF IInv

\* What comes of a page whose streams got tracks that are then wrapped.
LEMMA PageRightNew ==
  ASSUME NEW P, PageRight(P), NEW Q \in PageRecs, Q.known = P.known, Q.heard = P.heard,
         NEW R, NEW X, Wraps(Q, R, X), \A s \in Streams : Members(Q.tracks[s]) \subseteq R.known
  PROVE  PageRight(R)
<1>1. /\ R \in PageRecs /\ Q.known \subseteq R.known /\ R.tracks = Q.tracks
      /\ \A t \in Tracks : R.heard[t] >= Q.heard[t] /\ (t \in R.known /\ t \notin Q.known => R.heard[t] >= 1)
  BY DEF Wraps
<1>2. \A t \in Tracks : Q.heard[t] \in Nat /\ R.heard[t] \in Nat
  BY <1>1, PageIs
<1>3. \A t \in Tracks : t \in R.known => R.heard[t] >= 1
  BY <1>1, <1>2 DEF PageRight
<1>4. QED
  BY <1>1, <1>3 DEF PageRight

LEMMA KeptNew ==
  ASSUME NEW P, NEW J \in JavaRecs, Kept(P, J), NEW Q \in PageRecs, Q.known = P.known, Q.count = P.count,
         NEW R, NEW X, Wraps(Q, R, X)
  PROVE  Kept(R, J)
<1>1. DueSame(P, J, Q, J)
  BY DEF DueSame, Due
<1>2. Kept(Q, J)
  BY <1>1, KeptOn
<1>3. QED
  BY <1>2, KeptPage

LEMMA FiredNone == ASSUME NEW n \in Nat PROVE \A k \in 1 .. NEvents : Fired(n, 0, k) = 0
BY MediaAssumption DEF Fired

LEMMA InvNoCamera ==
  ASSUME IInv, NEW r \in Requests, request[r] = "camera", request' = [request EXCEPT ![r] = "answered"],
         toJava' = Append(toJava, [type |-> "refused", request |-> r]),
         UNCHANGED <<native, perm, java, stopping, inputs, page, tstate, nevents>>
  PROVE  IInv'
<1> DEFINE m == [type |-> "refused", request |-> r]
<1>1. m \in Message /\ m \in DOMAIN Answers /\ m.request = r /\ m.type = "refused"
  BY DEF Message, Answers
<1>2. Mentions(m) = {}
  BY DEF Mentions
<1> HIDE DEF m
<1>3. toJava \in Seq(Message) /\ nevents \in Nat /\ request \in [Requests -> RequestStates] /\ nevents <= NEvents
  BY DEF IInv, Rest, RequestStates
<1>4. toJava' = Append(toJava, m) /\ toJava' = toJava \o <<m>> /\ <<m>> \in Seq(Message) /\ Members(<<m>>) = {m}
  BY <1>1, <1>3, AppendOne DEF m
<1>5. Asked(java, toJava', request')
  <2>1. Turns(request, request', r, "answered")
    BY <1>3 DEF Turns
  <2>2. Asked(java, Append(toJava, m), request')
    BY <1>1, <1>3, <2>1, AskedAnswer DEF IInv
  <2>3. QED
    BY <1>4, <2>2
<1>6. request' \in [Requests -> RequestStates]
  <2>1. "answered" \in RequestStates
    BY DEF RequestStates
  <2>2. QED
    BY <1>3, <2>1
<1>7. Spelled(<<m>>, page') /\ BringsAll(page, page', <<m>>)
  BY <1>2, <1>4 DEF Spelled, BringsAll
<1>8. CountsFired(page, page', nevents, 0)
  <2>1. \A k \in 1 .. NEvents : page.count[TrackEvent(k)] \in Int
    BY EventObjects, PageIs DEF IInv, PageRight
  <2>2. QED
    BY <1>3, <2>1, FiredNone DEF CountsFired
<1>9. Fires(<<m>>, nevents, 0)
  <2>1. \A k \in 1 .. NEvents : ~ (nevents < k /\ k <= nevents + 0)
    BY <1>3
  <2>2. QED
    BY <2>1 DEF Fires
<1>10. PageRight(page') /\ Kept(page', java) /\ page.known \subseteq page'.known
  BY DEF IInv
<1>11. 0 \in Nat /\ nevents' = nevents + 0 /\ nevents' <= NEvents
  BY <1>3
<1>12. \A x \in Members(<<m>>) : x.type # "ended"
  BY <1>1, <1>4
<1>13. UNCHANGED <<native, perm, java, stopping, tstate>> /\ inputs' \in 0 .. NInputs
  BY DEF IInv, Rest
<1>14. QED
  BY <1>4, <1>5, <1>6, <1>7, <1>8, <1>9, <1>10, <1>11, <1>12, <1>13, PageSends

LEMMA LocalTracksAre ==
  ASSUME NEW r \in Requests
  PROVE  LocalTracks(r) \subseteq Tracks /\ IsFiniteSet(LocalTracks(r))
<1>1. LocalTracks(r) \subseteq Tracks
  BY DEF Tracks
<1>2. IsFiniteSet(LocalTracks(r))
  <2> DEFINE A == <<r, "audio">>
             V == <<r, "video">>
  <2>1. LocalTracks(r) \subseteq {A, V}
    BY MediaAssumption DEF LocalTracks, Kinds
  <2>2. IsFiniteSet({A}) /\ IsFiniteSet({V})
    BY FS_Singleton
  <2>3. {A, V} = {A} \cup {V}
    OBVIOUS
  <2>4. IsFiniteSet({A, V})
    BY <2>2, <2>3, FS_Union
  <2>5. QED
    BY <2>1, <2>4, FS_Subset
<1>3. QED
  BY <1>1, <1>2

LEMMA InvCamera ==
  ASSUME IInv, NEW r \in Requests, request[r] = "camera", request' = [request EXCEPT ![r] = "answered"],
         NEW s, s = LocalStream(r), NEW P, P = Holding(page, s, SetToSeq(LocalTracks(r))),
         page' = WrapStream(P, s),
         toJava' = Append(toJava, [type |-> "media", request |-> r, stream |-> StreamInfo(P, s)]),
         UNCHANGED <<native, perm, java, stopping, inputs, tstate, nevents>>
  PROVE  IInv'
<1> DEFINE i == StreamInfo(P, s)
           m == [type |-> "media", request |-> r, stream |-> i]
           X == {s} \cup Members(P.tracks[s])
<1>1. s \in Streams /\ s \in Objects /\ s \notin Events /\ s \notin Tracks
  BY LocalStreams, ObjectKinds
<1>2. page \in PageRecs /\ PageRight(page) /\ java \in JavaRecs /\ Kept(page, java)
  BY DEF IInv, PageRight, Sound, Good
<1>3. /\ P \in PageRecs /\ P.known = page.known /\ P.count = page.count /\ P.heard = page.heard
      /\ Members(P.tracks[s]) = LocalTracks(r)
      /\ \A x \in Streams : x # s => P.tracks[x] = page.tracks[x]
  <2> DEFINE q == SetToSeq(LocalTracks(r))
  <2>1. q \in Seq(LocalTracks(r)) /\ Members(q) = LocalTracks(r)
    BY LocalTracksAre, SequenceOf
  <2>2. q \in Seq(Tracks)
    BY <2>1, LocalTracksAre
  <2> HIDE DEF q
  <2>3. P = Holding(page, s, q)
    BY DEF q
  <2>4. /\ P \in PageRecs /\ P.known = page.known /\ P.count = page.count /\ P.heard = page.heard
        /\ P.tracks[s] = q /\ \A x \in Streams : x # s => P.tracks[x] = page.tracks[x]
    BY <1>1, <1>2, <2>2, <2>3, StreamSet
  <2>5. QED
    BY <2>1, <2>4
<1>4. Wraps(P, page', X) /\ X \subseteq page'.known
  <2> DEFINE Q == page'
  <2>1. Q = WrapStream(P, s)
    OBVIOUS
  <2> HIDE DEF Q
  <2>2. Wraps(P, Q, X) /\ X \subseteq Q.known
    BY <1>1, <1>3, <2>1, WrapStreamGoes
  <2>3. QED
    BY <2>2 DEF Q
<1>5. i \in StreamInfos(Streams) /\ i.of = s /\ Told(i) = X /\ Lists(i) = Members(P.tracks[s])
  <2>1. Streams \in SUBSET Streams
    OBVIOUS
  <2>2. /\ StreamInfo(P, s) \in StreamInfos(Streams) /\ StreamInfo(P, s).of = s
        /\ Told(StreamInfo(P, s)) = {s} \cup Members(P.tracks[s])
        /\ Lists(StreamInfo(P, s)) = Members(P.tracks[s])
    <3> HIDE DEF i, m, X
    <3> QED
      BY <1>1, <1>3, <2>1, StreamToldIs
  <2>3. QED
    BY <2>2
<1> HIDE DEF i
<1>6. m \in Message /\ m \in DOMAIN Answers /\ m.request = r /\ m.type = "media" /\ m.stream = i
  BY <1>5 DEF Message, Answers
<1>7. Mentions(m) = X /\ Brings(m) = Members(P.tracks[s])
  BY <1>5, <1>6 DEF Mentions, Brings
<1>8. toJava' = Append(toJava, m)
  BY DEF i
<1> HIDE DEF m, X
<1>9. toJava \in Seq(Message) /\ nevents \in Nat /\ request \in [Requests -> RequestStates] /\ nevents <= NEvents
  BY DEF IInv, Rest, RequestStates
<1>10. toJava' = toJava \o <<m>> /\ <<m>> \in Seq(Message) /\ Members(<<m>>) = {m}
  BY <1>6, <1>8, <1>9, AppendOne
<1>11. Asked(java, toJava', request')
  <2>1. Turns(request, request', r, "answered")
    BY <1>9 DEF Turns
  <2>2. Asked(java, Append(toJava, m), request')
    BY <1>5, <1>6, <1>9, <2>1, AskedAnswer DEF IInv
  <2>3. QED
    BY <1>8, <2>2
<1>12. request' \in [Requests -> RequestStates]
  <2>1. "answered" \in RequestStates
    BY DEF RequestStates
  <2>2. QED
    BY <1>9, <2>1
<1>13. page.known \subseteq page'.known /\ page'.known \subseteq page.known \cup X
  BY <1>3, <1>4 DEF Wraps
<1>14. Spelled(<<m>>, page')
  BY <1>4, <1>7, <1>10 DEF Spelled
<1>15. BringsAll(page, page', <<m>>)
  <2>1. ASSUME NEW t \in Tracks, t \in page'.known, t \notin page.known
        PROVE  Members(<<m>>) \cap Bringing(t) # {}
    <3>1. t \in Members(P.tracks[s])
      BY <1>1, <1>13, <2>1 DEF X
    <3>2. QED
      BY <1>6, <1>7, <1>10, <3>1 DEF Bringing
  <2>2. QED
    BY <2>1 DEF BringsAll
<1>16. CountsFired(page, page', nevents, 0)
  <2>1. \A k \in 1 .. NEvents : page.count[TrackEvent(k)] \in Int
    BY <1>2, EventObjects, PageIs
  <2>2. \A k \in 1 .. NEvents : TrackEvent(k) \notin X
    BY <1>1, <1>3, EventObjects, LocalTracksAre, ObjectKinds DEF X
  <2>3. \A k \in 1 .. NEvents : page'.count[TrackEvent(k)] = page.count[TrackEvent(k)]
    BY <1>3, <1>4, <2>2, EventObjects DEF Wraps
  <2>4. QED
    BY <1>9, <2>1, <2>3, FiredNone DEF CountsFired
<1>17. Fires(<<m>>, nevents, 0)
  <2>1. \A k \in 1 .. NEvents : ~ (nevents < k /\ k <= nevents + 0)
    BY <1>9
  <2>2. QED
    BY <2>1 DEF Fires
<1>18. PageRight(page')
  <2>1. ASSUME NEW x \in Streams PROVE Members(P.tracks[x]) \subseteq page'.known
    <3>1. CASE x = s
      BY <1>4, <3>1 DEF X
    <3>2. CASE x # s
      BY <1>2, <1>3, <1>13, <3>2 DEF PageRight
    <3>3. QED
      BY <3>1, <3>2
  <2>2. QED
    BY <1>2, <1>3, <1>4, <2>1, PageRightNew
<1>19. Kept(page', java)
  BY <1>2, <1>3, <1>4, KeptNew
<1>20. 0 \in Nat /\ nevents' = nevents + 0 /\ nevents' <= NEvents
  BY <1>9
<1>21. \A x \in Members(<<m>>) : x.type # "ended"
  BY <1>6, <1>10
<1>22. UNCHANGED <<native, perm, java, stopping, tstate>> /\ inputs' \in 0 .. NInputs
  BY DEF IInv, Rest
<1>23. QED
  BY <1>10, <1>11, <1>12, <1>13, <1>14, <1>15, <1>16, <1>17, <1>18, <1>19, <1>20, <1>21, <1>22, PageSends

LEMMA InvCameraAnswers == ASSUME IInv, NEW r \in Requests, CameraAnswers(r) PROVE IInv'
<1> DEFINE s == LocalStream(r)
           P == Holding(page, s, SetToSeq(LocalTracks(r)))
<1>1. /\ request[r] = "camera" /\ request' = [request EXCEPT ![r] = "answered"]
      /\ UNCHANGED <<native, perm, java, stopping, inputs, tstate, nevents>>
  BY DEF CameraAnswers
<1>2. CASE toJava' = Append(toJava, [type |-> "refused", request |-> r]) /\ UNCHANGED page
  BY <1>1, <1>2, InvNoCamera
<1>3. CASE /\ page' = WrapStream(P, s)
           /\ toJava' = Append(toJava, [type |-> "media", request |-> r, stream |-> StreamInfo(P, s)])
  <2> HIDE DEF P
  <2>1. P = Holding(page, s, SetToSeq(LocalTracks(r)))
    BY DEF P
  <2> HIDE DEF s
  <2>2. s = LocalStream(r)
    BY DEF s
  <2>3. QED
    BY <1>1, <1>3, <2>1, <2>2, InvCamera
<1>4. \/ toJava' = Append(toJava, [type |-> "refused", request |-> r]) /\ UNCHANGED page
      \/ /\ page' = WrapStream(P, s)
         /\ toJava' = Append(toJava, [type |-> "media", request |-> r, stream |-> StreamInfo(P, s)])
  BY Zenon DEF CameraAnswers, Holding
<1>5. QED
  BY <1>2, <1>3, <1>4

(***************************************************************************)
(* Remote descriptions, and sources that end.                              *)
(***************************************************************************)
\* A remote description's tracks have joined their streams.
Arriving(d, s) == {d[i].track : i \in {j \in DOMAIN d : s \in ToSet(d[j].streams)}}
Joined(P, d)   == [P EXCEPT !.tracks = [s \in Streams |-> @[s] \o SetToSeq(Arriving(d, s) \ ToSet(@[s]))]]
Announced(P, n, d) == [i \in DOMAIN d |-> TrackMessage(P, TrackEvent(n + i), d[i])]

LEMMA JoinedIs ==
  ASSUME NEW P \in PageRecs, NEW d \in Seq(Arrivals), NEW Q, Q = Joined(P, d)
  PROVE  /\ Q \in PageRecs /\ Q.known = P.known /\ Q.count = P.count /\ Q.heard = P.heard
         /\ \A s \in Streams : Members(Q.tracks[s]) \subseteq Members(P.tracks[s]) \cup {d[i].track : i \in DOMAIN d}
<1> DEFINE more(s) == SetToSeq(Arriving(d, s) \ ToSet(P.tracks[s]))
           T == [s \in Streams |-> P.tracks[s] \o more(s)]
<1>1. DOMAIN d = 1 .. Len(d) /\ Len(d) \in Nat /\ \A i \in DOMAIN d : d[i] \in Arrivals
  BY LenProperties, ElementOfSeq
<1>2. ASSUME NEW s \in Streams
      PROVE  /\ more(s) \in Seq(Tracks) /\ Members(more(s)) \subseteq {d[i].track : i \in DOMAIN d}
  <2> DEFINE A == Arriving(d, s)
             B == {d[i].track : i \in DOMAIN d}
             S == A \ ToSet(P.tracks[s])
  <2>1. IsFiniteSet(B)
    <3> DEFINE f == [i \in 1 .. Len(d) |-> d[i].track]
    <3>1. f \in Surjection(1 .. Len(d), B)
      BY <1>1 DEF Surjection
    <3>2. IsFiniteSet(1 .. Len(d))
      BY <1>1, FS_Interval
    <3> HIDE DEF f, B
    <3>3. QED
      BY <3>1, <3>2, FS_Surjection
  <2>2. A \subseteq B /\ B \subseteq Tracks
    <3>1. \A i \in DOMAIN d : d[i].track \in Tracks
      BY <1>1 DEF Arrivals, Tracks
    <3>2. QED
      BY <3>1 DEF Arriving
  <2> HIDE DEF A, B
  <2>3. S \subseteq B
    BY <2>2
  <2>4. IsFiniteSet(S)
    BY <2>1, <2>3, FS_Subset
  <2>5. more(s) = SetToSeq(S)
    BY Zenon DEF A
  <2> HIDE DEF S, more
  <2>6. SetToSeq(S) \in Seq(S) /\ Members(SetToSeq(S)) = S
    BY <2>4, SequenceOf
  <2>7. QED
    BY <2>2, <2>3, <2>5, <2>6 DEF B
<1>3. Q = [P EXCEPT !.tracks = T]
  BY Zenon DEF Joined
<1> HIDE DEF more
<1>4. \A s \in Streams : P.tracks[s] \in Seq(Tracks)
  BY PageIs
<1>5. \A s \in Streams : T[s] \in Seq(Tracks) /\ Members(T[s]) = Members(P.tracks[s]) \cup Members(more(s))
  BY <1>2, <1>4, ConcatMembers
<1>6. T \in [Streams -> Seq(Tracks)]
  BY <1>5
<1>7. \A s \in Streams : Members(T[s]) \subseteq Members(P.tracks[s]) \cup {d[i].track : i \in DOMAIN d}
  BY <1>2, <1>5
<1> HIDE DEF T
<1>8. Q = [known |-> P.known, count |-> P.count, heard |-> P.heard, tracks |-> T]
  BY <1>3 DEF PageRecs
<1>9. QED
  BY <1>6, <1>7, <1>8 DEF PageRecs

LEMMA AnnouncedIs ==
  ASSUME NEW P \in PageRecs, NEW n \in Nat, NEW d \in Seq(Arrivals), n + Len(d) <= NEvents,
         NEW r, r = Announced(P, n, d)
  PROVE  /\ r \in Seq(Message) /\ DOMAIN r = DOMAIN d
         /\ \A i \in DOMAIN d : /\ r[i].type = "track" /\ r[i].of = TrackEvent(n + i)
                                /\ r[i].track.of = d[i].track /\ EventTold(r[i]) = Met(P, n, d, i)
<1>1. DOMAIN d = 1 .. Len(d) /\ Len(d) \in Nat /\ \A i \in DOMAIN d : d[i] \in Arrivals
  BY LenProperties, ElementOfSeq
<1>2. DOMAIN r = DOMAIN d /\ \A i \in DOMAIN d : r[i] = TrackMessage(P, TrackEvent(n + i), d[i])
  BY DEF Announced
<1>3. ASSUME NEW i \in DOMAIN d
      PROVE  /\ r[i] \in Message /\ r[i].type = "track" /\ r[i].of = TrackEvent(n + i)
             /\ r[i].track.of = d[i].track /\ EventTold(r[i]) = Met(P, n, d, i)
  <2> DEFINE e == TrackEvent(n + i)
             m == r[i]
  <2>1. e \in Events /\ d[i] \in Arrivals
    <3>1. n + i \in 1 .. NEvents
      BY <1>1, MediaAssumption
    <3>2. QED
      BY <1>1, <3>1 DEF Events
  <2>2. m = TrackMessage(P, e, d[i])
    BY <1>2
  <2> HIDE DEF e, m
  <2>3. /\ m \in Message /\ m.type = "track" /\ m.of = e /\ m.track.of = d[i].track
        /\ EventTold(m) = Around(e, d[i]) \cup Carried(P, d[i].streams)
    BY <2>1, <2>2, TrackMessageTold
  <2>4. QED
    BY <2>3 DEF e, m, Met
<1>4. r \in Seq(Message)
  <2>1. r \in [1 .. Len(d) -> Message]
    <3>1. r = [i \in 1 .. Len(d) |-> TrackMessage(P, TrackEvent(n + i), d[i])]
      BY <1>1 DEF Announced
    <3>2. \A i \in 1 .. Len(d) : TrackMessage(P, TrackEvent(n + i), d[i]) \in Message
      BY <1>1, <1>2, <1>3
    <3>3. QED
      BY <3>1, <3>2
  <2>2. QED
    BY <1>1, <2>1, IsASeq
<1>5. QED
  BY <1>2, <1>3, <1>4

\* d is what arrives, with what is sent in return.
LEMMA InvArrives ==
  ASSUME IInv, NEW d \in Seq(Arrivals), \A i \in DOMAIN d : Members(d[i].sends) \subseteq page.known,
         inputs' \in 0 .. NInputs, nevents + Len(d) <= NEvents, nevents' = nevents + Len(d),
         page' = WrapEvents(Joined(page, d), nevents, d, [i \in DOMAIN d |-> i]),
         toJava' = toJava \o Announced(Joined(page, d), nevents, d),
         UNCHANGED <<native, perm, request, java, stopping, tstate>>
  PROVE  IInv'
<1> DEFINE n == nevents
           l == Len(d)
           Q == Joined(page, d)
           r == Announced(Q, n, d)
           X == AllMet(Q, n, d)
           B == {d[i].track : i \in DOMAIN d}
           q == [i \in DOMAIN d |-> i]
<1>1. d \in Seq(Arrivals) /\ n \in Nat /\ NEvents \in Nat
  BY MediaAssumption DEF IInv, Rest
<1>2. DOMAIN d = 1 .. l /\ l \in Nat /\ \A i \in DOMAIN d : d[i] \in Arrivals
  BY <1>1, LenProperties, ElementOfSeq
<1>3. /\ n + l <= NEvents /\ nevents' = n + l
      /\ page' = WrapEvents(Q, n, d, q)
      /\ toJava' = toJava \o r
      /\ UNCHANGED <<native, perm, request, java, stopping, tstate>> /\ inputs' \in 0 .. NInputs
  OBVIOUS
<1>4. page \in PageRecs /\ PageRight(page) /\ java \in JavaRecs /\ Kept(page, java) /\ toJava \in Seq(Message)
  BY DEF IInv, PageRight, Sound, Good, Rest
<1>5. /\ Q \in PageRecs /\ Q.known = page.known /\ Q.count = page.count /\ Q.heard = page.heard
      /\ \A s \in Streams : Members(Q.tracks[s]) \subseteq Members(page.tracks[s]) \cup B
  <2> DEFINE R == Q
  <2>1. R = Joined(page, d)
    OBVIOUS
  <2> HIDE DEF R
  <2>2. /\ R \in PageRecs /\ R.known = page.known /\ R.count = page.count /\ R.heard = page.heard
        /\ \A s \in Streams : Members(R.tracks[s]) \subseteq Members(page.tracks[s]) \cup B
    BY <1>1, <1>4, <2>1, JoinedIs
  <2>3. QED
    BY <2>2 DEF R
<1> HIDE DEF Q
<1>6. /\ Wraps(Q, page', X) /\ X \subseteq page'.known
      /\ \A k \in 1 .. NEvents : page'.count[TrackEvent(k)] = Q.count[TrackEvent(k)] + Fired(n, l, k)
  <2> DEFINE R == page'
  <2>1. R = WrapEvents(Q, n, d, [i \in DOMAIN d |-> i])
    BY <1>3
  <2> HIDE DEF R
  <2>2. /\ Wraps(Q, R, AllMet(Q, n, d)) /\ AllMet(Q, n, d) \subseteq R.known
        /\ \A k \in 1 .. NEvents : R.count[TrackEvent(k)] = Q.count[TrackEvent(k)] + Fired(n, Len(d), k)
    BY <1>1, <1>3, <1>5, <2>1, EventsWrapped
  <2>3. QED
    BY <2>2 DEF R
<1>7. /\ r \in Seq(Message) /\ DOMAIN r = DOMAIN d
      /\ \A i \in DOMAIN d : /\ r[i].type = "track" /\ r[i].of = TrackEvent(n + i)
                             /\ r[i].track.of = d[i].track /\ EventTold(r[i]) = Met(Q, n, d, i)
  <2> DEFINE t == r
  <2>1. t = Announced(Q, n, d)
    OBVIOUS
  <2> HIDE DEF t
  <2>2. /\ t \in Seq(Message) /\ DOMAIN t = DOMAIN d
        /\ \A i \in DOMAIN d : /\ t[i].type = "track" /\ t[i].of = TrackEvent(n + i)
                               /\ t[i].track.of = d[i].track /\ EventTold(t[i]) = Met(Q, n, d, i)
    BY <1>1, <1>3, <1>5, <2>1, AnnouncedIs
  <2>3. QED
    BY <2>2 DEF t
<1> HIDE DEF r
<1>8. \A m \in Members(r) : m.type = "track" /\ m.type # "ended" /\ m.type \notin {"media", "refused"}
  BY <1>7 DEF Members
<1>9. page.known \subseteq page'.known /\ page'.known \subseteq page.known \cup X
  BY <1>5, <1>6 DEF Wraps
<1>10. \A i \in DOMAIN d : Met(Q, n, d, i) \subseteq X
  BY DEF AllMet
<1>11. B \subseteq page'.known
  <2>1. \A i \in DOMAIN d : d[i].track \in Met(Q, n, d, i)
    BY DEF Met, Around, About
  <2>2. QED
    BY <1>6, <1>10, <2>1
<1>12. Spelled(r, page')
  <2>1. ASSUME NEW i \in DOMAIN r PROVE Mentions(r[i]) \subseteq page'.known
    BY <1>6, <1>7, <1>10 DEF Mentions
  <2>2. QED
    BY <2>1 DEF Spelled, Members
<1>13. BringsAll(page, page', r)
  <2>1. ASSUME NEW t \in Tracks, t \in page'.known, t \notin page.known
        PROVE  Members(r) \cap Bringing(t) # {}
    <3>1. t \in X
      BY <1>9, <2>1
    <3>2. PICK i \in DOMAIN d : t \in Met(Q, n, d, i)
      BY <3>1 DEF AllMet
    <3>3. t \in B
      <4> DEFINE e == TrackEvent(n + i)
                 a == d[i]
      <4>1. e \in Events /\ a \in Arrivals
        <5>1. n + i \in 1 .. NEvents
          BY <1>1, <1>2, <1>3
        <5>2. QED
          BY <1>2, <5>1 DEF Events
      <4>2. t \in (Around(e, a) \cup Carried(Q, a.streams)) \cap Tracks
        BY <2>1, <3>2 DEF Met
      <4>3. (Around(e, a) \cup Carried(Q, a.streams)) \cap Tracks
              = {a.track} \cup Members(a.sends)
                  \cup UNION {Members(Q.tracks[a.streams[j]]) : j \in DOMAIN a.streams}
        BY <1>5, <4>1, EventsApart
      <4>4. CASE t = a.track
        BY <4>4
      <4>5. CASE t \in UNION {Members(Q.tracks[a.streams[j]]) : j \in DOMAIN a.streams}
        <5>1. PICK j \in DOMAIN a.streams : t \in Members(Q.tracks[a.streams[j]])
          BY <4>5
        <5>2. a.streams[j] \in Streams
          <6>1. a.streams \in Seq(RemoteStreams)
            BY <4>1 DEF Arrivals
          <6>2. a.streams[j] \in RemoteStreams
            BY <6>1, <5>1, LenProperties, ElementOfSeq
          <6>3. QED
            BY <6>2 DEF Streams
        <5>3. t \in Members(page.tracks[a.streams[j]]) \cup B
          BY <1>5, <5>1, <5>2
        <5>4. Members(page.tracks[a.streams[j]]) \subseteq page.known
          BY <1>4, <5>2 DEF PageRight
        <5>5. QED
          BY <2>1, <5>3, <5>4
      <4>6. t \notin Members(a.sends)
        BY <2>1
      <4>7. QED
        BY <4>2, <4>3, <4>4, <4>5, <4>6
    <3>4. PICK k \in DOMAIN d : t = d[k].track
      BY <3>3
    <3>5. r[k] \in Members(r) /\ r[k] \in Message
      <4>1. r[k] \in Members(r)
        BY <1>7 DEF Members
      <4>2. QED
        BY <1>7, <4>1, MembersType
    <3>6. t \in Brings(r[k])
      BY <1>7, <3>4 DEF Brings
    <3>7. QED
      BY <3>5, <3>6 DEF Bringing
  <2>2. QED
    BY <2>1 DEF BringsAll
<1>14. CountsFired(page, page', nevents, l)
  BY <1>5, <1>6 DEF CountsFired
<1>15. Fires(r, nevents, l)
  <2>1. ASSUME NEW k \in 1 .. NEvents, n < k, k <= n + l PROVE \E m \in Members(r) : Gives(m, k)
    <3>1. k - n \in DOMAIN d /\ n + (k - n) = k
      BY <1>1, <1>2, <2>1
    <3>2. r[k - n] \in Members(r) /\ Gives(r[k - n], k)
      BY <1>7, <3>1 DEF Members, Gives
    <3>3. QED
      BY <3>2
  <2>2. QED
    BY <2>1 DEF Fires
<1>16. PageRight(page')
  <2>1. ASSUME NEW s \in Streams PROVE Members(Q.tracks[s]) \subseteq page'.known
    BY <1>4, <1>5, <1>9, <1>11 DEF PageRight
  <2>2. QED
    BY <1>4, <1>5, <1>6, <2>1, PageRightNew
<1>17. Kept(page', java)
  BY <1>4, <1>5, <1>6, KeptNew
<1>18. Asked(java, toJava', request')
  <2>1. Asked(java, toJava, request)
    BY DEF IInv
  <2>2. Asked(java, toJava \o r, request)
    BY <1>4, <1>7, <1>8, <2>1, AskedConcat
  <2>3. QED
    BY <1>3, <2>2
<1>19. request' \in [Requests -> RequestStates]
  BY <1>3 DEF IInv, Rest, RequestStates
<1> HIDE DEF X, B, q
<1>20. QED
  BY <1>2, <1>3, <1>7, <1>8, <1>9, <1>12, <1>13, <1>14, <1>15, <1>16, <1>17, <1>18, <1>19, PageSends

LEMMA InvRemoteDescription == ASSUME IInv, NEW d \in Descriptions, RemoteDescription(d) PROVE IInv'
<1>1. PICK sends \in [DOMAIN d -> Sends] :
        LET a == [i \in DOMAIN d |-> [track |-> d[i].track, streams |-> d[i].streams,
                                      sends |-> sends[i]]]
        IN  /\ page' = WrapEvents(Joined(page, a), nevents, a, [i \in DOMAIN a |-> i])
            /\ toJava' = toJava \o Announced(Joined(page, a), nevents, a)
  BY Zenon DEF RemoteDescription, WrapEvents, Joined, Arriving, Announced
<1> DEFINE a == [i \in DOMAIN d |-> [track |-> d[i].track, streams |-> d[i].streams,
                                     sends |-> sends[i]]]
<1>2. /\ page' = WrapEvents(Joined(page, a), nevents, a, [i \in DOMAIN a |-> i])
      /\ toJava' = toJava \o Announced(Joined(page, a), nevents, a)
  BY <1>1
<1>3. d \in Seq([track : RemoteTracks, streams : Seq(RemoteStreams)])
  BY MediaAssumption, Zenon
<1>4. DOMAIN d = 1 .. Len(d) /\ Len(d) \in Nat
      /\ \A i \in DOMAIN d : d[i] \in [track : RemoteTracks, streams : Seq(RemoteStreams)]
  BY <1>3, LenProperties, ElementOfSeq
<1>5. \A x \in Sends : x \in Seq(Tracks) /\ Members(x) \subseteq page.known
  <2>1. ASSUME NEW x \in Sends PROVE x \in Seq(Tracks) /\ Members(x) \subseteq page.known
    <3>1. CASE x = <<>>
      BY <3>1 DEF Members
    <3>2. CASE \E t \in page.known \cap Tracks : x = <<t>>
      <4>1. PICK t \in page.known \cap Tracks : x = <<t>>
        BY <3>2
      <4>2. x \in Seq(Tracks) /\ DOMAIN x = {1} /\ x[1] = t
        BY <4>1
      <4>3. QED
        BY <4>2 DEF Members
    <3>3. QED
      BY <3>1, <3>2 DEF Sends
  <2>2. QED
    BY <2>1
<1>6. DOMAIN a = DOMAIN d /\ \A i \in DOMAIN d : a[i] \in Arrivals /\ Members(a[i].sends) \subseteq page.known
  <2>1. \A i \in DOMAIN d : sends[i] \in Sends
    OBVIOUS
  <2>2. QED
    BY <1>4, <1>5, <2>1 DEF Arrivals
<1>7. nevents + Len(d) <= NEvents /\ nevents' = nevents + Len(d) /\ inputs' \in 0 .. NInputs
      /\ UNCHANGED <<native, perm, request, java, stopping, tstate>>
  BY <1>4, InputCounts DEF RemoteDescription
<1> HIDE DEF a
<1>8. a \in Seq(Arrivals) /\ Len(a) = Len(d)
  <2>1. a \in [1 .. Len(d) -> Arrivals]
    <3>1. a = [i \in 1 .. Len(d) |-> a[i]]
      BY <1>4 DEF a
    <3>2. QED
      BY <1>4, <1>6, <3>1
  <2>2. a \in Seq(Arrivals)
    BY <1>4, <2>1, IsASeq
  <2>3. QED
    BY <1>4, <1>6, <2>2, LenProperties
<1>9. QED
  BY <1>2, <1>6, <1>7, <1>8, InvArrives

LEMMA InvSourceEnds == ASSUME IInv, NEW t \in Tracks, SourceEnds(t) PROVE IInv'
<1> DEFINE r == [i \in 1 .. page.heard[t] |-> Ended(t)]
<1>1. /\ t \in page.known /\ tstate[t] = "live" /\ tstate' = [tstate EXCEPT ![t] = "ended"]
      /\ toJava' = toJava \o r
      /\ UNCHANGED <<native, perm, request, java, stopping, inputs, page, nevents>>
  BY Zenon DEF SourceEnds, Ended
<1>2. page.heard[t] \in Nat /\ page.heard[t] >= 1
  BY <1>1, PageIs DEF IInv, PageRight
<1>3. Ended(t) \in Message /\ Ended(t).type = "ended"
  BY DEF Ended, Message
<1>4. r \in Seq(Message) /\ Members(r) = {Ended(t)}
  <2>1. r \in [1 .. page.heard[t] -> Message] /\ DOMAIN r = 1 .. page.heard[t]
    BY <1>3
  <2>2. r \in Seq(Message)
    <3> HIDE DEF r
    <3> QED
      BY <1>2, <2>1, IsASeq
  <2>3. \A i \in DOMAIN r : r[i] = Ended(t)
    OBVIOUS
  <2>4. 1 \in DOMAIN r
    BY <1>2
  <2> HIDE DEF r
  <2>5. QED
    BY <2>2, <2>3, <2>4 DEF Members
<1> HIDE DEF r
<1>5. toJava \in Seq(Message) /\ tstate \in [Tracks -> {"live", "stopped", "ended"}]
  BY DEF IInv, Rest
<1>6. toJava' \in Seq(Message) /\ Members(toJava') = Members(toJava) \cup {Ended(t)}
  BY <1>1, <1>4, <1>5, ConcatMembers
<1>7. Rest'
  BY <1>1, <1>5, <1>6 DEF IInv, Rest
<1>8. Spelled(toJava', page')
  <2>1. Mentions(Ended(t)) = {}
    BY DEF Mentions, Ended
  <2>2. QED
    BY <1>1, <1>6, <2>1 DEF IInv, Spelled
<1>9. Heard(java', toJava', page')
  <2>1. Heard(java, toJava \o r, page)
    BY <1>1, <1>4, <1>5, HeardEnd DEF IInv
  <2>2. QED
    BY <1>1, <2>1
<1>10. Noticed(java', toJava', tstate')
  <2>1. ASSUME NEW x \in Tracks, tstate'[x] = "ended" PROVE tstate[x] = "ended" \/ Ended(x) \in Members(r)
    BY <1>1, <1>4, <1>5, <2>1
  <2>2. Noticed(java, toJava \o r, tstate')
    BY <1>4, <1>5, <2>1, NoticedConcat DEF IInv
  <2>3. QED
    BY <1>1, <2>2
<1>11. Given(java', page', toJava', nevents')
  <2>1. Given(java, page, toJava, nevents)
    BY DEF IInv
  <2>2. Given(java, page, toJava', nevents)
    BY <1>6, <2>1 DEF Given
  <2>3. QED
    BY <1>1, <2>2
<1>12. Asked(java', toJava', request')
  <2>1. Asked(java, toJava, request) /\ \A m \in Members(r) : m.type \notin {"media", "refused"}
    BY <1>3, <1>4 DEF IInv
  <2>2. Asked(java, toJava \o r, request)
    BY <1>4, <1>5, <2>1, AskedConcat
  <2>3. QED
    BY <1>1, <2>2
<1>13. Sound(java') /\ PageRight(page') /\ Kept(page', java')
  BY <1>1 DEF IInv
<1>14. QED
  BY <1>7, <1>8, <1>9, <1>10, <1>11, <1>12, <1>13 DEF IInv

LEMMA InvStutter == ASSUME IInv, UNCHANGED vars PROVE IInv'
BY DEF IInv, Rest, vars

LEMMA InvNext == ASSUME IInv, [Next]_vars PROVE IInv'
<1>1. ASSUME NEW r \in Requests, GetUserMedia(r) \/ NativeAnswers(r) \/ Retry(r) \/ CameraAnswers(r) PROVE IInv'
  BY <1>1, InvGetUserMedia, InvNativeAnswers, InvRetry, InvCameraAnswers
<1>2. CASE JavaStep
  BY <1>2, InvJavaStep
<1>3. CASE PageCounts
  BY <1>3, InvPageCounts
<1>4. CASE PageStep
  BY <1>4, InvPageStep
<1>5. CASE CloseRTC
  BY <1>5, InvCloseRTC
<1>6. ASSUME NEW s \in Streams, GetTracks(s) \/ CloseStream(s) PROVE IInv'
  BY <1>6, InvGetTracks, InvCloseStream
<1>7. ASSUME NEW s \in Streams, NEW p \in TrackProxies, AddTrack(s, p) \/ RemoveTrack(s, p) PROVE IInv'
  BY <1>7, InvAddTrack, InvRemoveTrack
<1>8. ASSUME NEW p \in TrackProxies, StopTrack(p) PROVE IInv'
  BY <1>8, InvStopTrack
<1>9. ASSUME NEW d \in Descriptions, RemoteDescription(d) PROVE IInv'
  BY <1>9, InvRemoteDescription
<1>10. ASSUME NEW t \in Tracks, SourceEnds(t) PROVE IInv'
  BY <1>10, InvSourceEnds
<1>11. CASE UNCHANGED vars
  BY <1>11, InvStutter
<1>12. QED
  BY <1>1, <1>2, <1>3, <1>4, <1>5, <1>6, <1>7, <1>8, <1>9, <1>10, <1>11 DEF Next

(***************************************************************************)
(* What the invariant implies, and the theorems.                           *)
(***************************************************************************)
LEMMA InvTypes == ASSUME IInv PROVE TypeOK
<1>1. java \in JavaRecs
  BY DEF IInv, Sound, Good
<1>2. JavaType
  <2>1. java \in [proxies : Seq([of : Objects, count : Int, ready : {"live", "ended"}]),
                  bound : [Objects -> Nat], scripts : Seq(Scripts),
                  tracks : [Streams -> Seq(Nat) \cup {None}]]
    BY <1>1 DEF JavaRecs, Proxy
  <2>2. QED
    BY <2>1 DEF JavaType, IInv, Sound, Good, Wired, BoundRight, Listed
<1>3. QED
  BY <1>2 DEF TypeOK, IInv, Rest, PageRight, PageRecs

LEMMA InvOwned == ASSUME IInv PROVE OwnedIsKept
<1> SUFFICES ASSUME NEW o \in Objects
             PROVE  Owned(java, o) <= page.count[o] + UnderWay(java, "retain", o) - UnderWay(java, "release", o)
  BY DEF OwnedIsKept
<1> DEFINE w == Owned(java, o)
           c == page.count[o]
           u == UnderWay(java, "retain", o)
           v == UnderWay(java, "release", o)
           x == IF java.bound[o] # 0 THEN 1 ELSE 0
<1>1. c \in Int /\ u \in Nat /\ v \in Nat /\ w \in Int
  BY PageIs, DebtType DEF IInv, PageRight, Sound, Good
<1>2. Due(page, java, o) = c + (u - v - w + x)
  BY DEF Due, Debt
<1>3. Due(page, java, o) >= x /\ x \in Int
  <2>1. Due(page, java, o) >= 0 /\ (o \in page.known => Due(page, java, o) >= 1) /\ (java.bound[o] # 0 => o \in page.known)
    BY DEF IInv, Kept
  <2>2. QED
    BY <2>1
<1> HIDE DEF w, c, u, v, x
<1>4. c + (u - v - w + x) >= x
  BY <1>2, <1>3
<1>5. w <= c + u - v
  BY <1>1, <1>3, <1>4
<1>6. QED
  BY <1>5 DEF w, c, u, v

LEMMA InvEnds == ASSUME IInv PROVE EndsAreNoticed
<1> SUFFICES ASSUME NEW t \in Tracks, tstate[t] = "ended",
                    \A i \in DOMAIN toJava : toJava[i] # [type |-> "ended", of |-> t]
             PROVE  java.bound[t] # 0 /\ java.proxies[java.bound[t]].ready = "ended"
  BY DEF EndsAreNoticed
<1>1. Ended(t) \notin Members(toJava)
  BY DEF Ended, Members
<1>2. QED
  BY <1>1 DEF IInv, Noticed

LEMMA InvListed == ASSUME IInv PROVE ListedAreCounted
<1> SUFFICES ASSUME NEW p \in TrackProxies, java.proxies[p].ready = "live"
             PROVE  Cardinality({s \in Streams : java.tracks[s] # None /\ p \in ToSet(java.tracks[s])})
                      <= java.proxies[p].count
  BY DEF ListedAreCounted
<1> DEFINE S == {s \in Streams : java.tracks[s] # None /\ p \in ToSet(java.tracks[s])}
           A == Spots(java, p)
           f == [x \in A |-> x[1]]
<1>1. p \in DOMAIN java.proxies /\ Live(java, p)
  BY TrackProxiesAre DEF Live
<1>2. Backed(java, p) /\ java.proxies[p].count \in Int
  <2>1. java \in JavaRecs /\ Counted(java)
    BY DEF IInv, Sound, Good
  <2>2. QED
    BY <1>1, <2>1, ProxiesAre DEF Counted
<1>3. f \in Surjection(A, S)
  <2>1. \A x \in A : x[1] \in S
    BY DEF Spots, ToSet
  <2>2. ASSUME NEW s \in S PROVE \E x \in A : f[x] = s
    <3>1. PICK i \in DOMAIN java.tracks[s] : java.tracks[s][i] = p
      BY DEF ToSet
    <3>2. <<s, i>> \in A
      <4>1. s \in Streams /\ java.tracks[s] # None
        OBVIOUS
      <4>2. java.tracks[s] \in Seq(Nat)
        BY <4>1, ProxiesAre DEF IInv, Sound, Good
      <4>3. i \in Nat
        BY <3>1, <4>2, LenProperties
      <4>4. QED
        BY <3>1, <4>1, <4>3 DEF Spots
    <3>3. QED
      BY <3>2
  <2>3. QED
    BY <2>1, <2>2 DEF Surjection
<1> HIDE DEF f, S, A
<1>4. IsFiniteSet(A)
  BY <1>2 DEF Backed, A
<1>5. Cardinality(S) <= Cardinality(A) /\ IsFiniteSet(S)
  BY <1>3, <1>4, FS_Surjection
<1>6. Cardinality(S) \in Nat /\ Cardinality(A) \in Nat
  BY <1>4, <1>5, FS_CardinalityType
<1>7. 2 * Cardinality(A) <= java.proxies[p].count
  BY <1>1, <1>2 DEF Backed, Entries, A
<1>8. Cardinality(S) <= java.proxies[p].count
  BY <1>2, <1>5, <1>6, <1>7
<1>9. QED
  BY <1>8 DEF S

LEMMA InvEvents == ASSUME IInv PROVE EventsAreGivenBack
<1> SUFFICES ASSUME java.scripts = <<>>, toJava = <<>>, NEW n \in 1 .. nevents
             PROVE  page.count[TrackEvent(n)] = 0
  BY DEF EventsAreGivenBack
<1> DEFINE o == TrackEvent(n)
<1>1. n \in 1 .. NEvents /\ n <= nevents /\ o \in Objects
  <2>1. nevents \in 0 .. NEvents /\ NEvents \in Nat
    BY MediaAssumption DEF IInv, Rest
  <2>2. n \in 1 .. NEvents /\ n <= nevents
    BY <2>1
  <2>3. QED
    BY <2>2, EventObjects
<1>2. Due(page, java, o) = 1 /\ Owned(java, o) = 0 /\ java.bound[o] # 0
  <2>1. Members(toJava) = {}
    BY EmptyQueue
  <2>2. QED
    BY <1>1, <2>1 DEF IInv, Given
<1>3. UnderWay(java, "retain", o) = 0 /\ UnderWay(java, "release", o) = 0
  <2>1. \A x : x \notin Members(java.scripts)
    BY EmptyQueue
  <2>2. QED
    BY <2>1, TimesNone, UnderWayIs
<1>4. page.count[o] \in Int
  BY <1>1, PageIs DEF IInv, PageRight
<1> HIDE DEF o
<1>5. Due(page, java, o) = page.count[o] + 1
  BY <1>2, <1>3, <1>4 DEF Due, Debt
<1>6. QED
  BY <1>2, <1>4, <1>5 DEF o

(* The inductive invariant holds in every state: the counts that the page will come to when
   all scripts of retain() and release() have run are right (Kept), the lists of streams agree
   with the counts (Sound), and the messages under way tell Java what it does not know yet. *)
THEOREM InvariantHolds == Spec => []IInv
<1>1. Init => IInv
  BY InvInit
<1>2. IInv /\ [Next]_vars => IInv'
  BY InvNext
<1>3. QED
  BY <1>1, <1>2, PTL DEF Spec

(* Java's proxies, the page, the two queues and the requests have their types. *)
THEOREM TypeCorrect == Spec => []TypeOK
<1>1. IInv => TypeOK
  BY InvTypes
<1>2. QED
  BY <1>1, InvariantHolds, PTL

(* The registry of RTCBootstrap.js never drops an object that Java owns: its count, with the retains
   and releases that are under way, is never less than what the proxies of the object count. *)
THEOREM OwnedStaysKept == Spec => []OwnedIsKept
<1>1. IInv => OwnedIsKept
  BY InvOwned
<1>2. QED
  BY <1>1, InvariantHolds, PTL

(* When the source of a track has ended and no message about that is under way, the first proxy of the
   track, which hears the page's events, knows it: what makes Java register a track comes before its end. *)
THEOREM EndsReachJava == Spec => []EndsAreNoticed
<1>1. IInv => EndsAreNoticed
  BY InvEnds
<1>2. QED
  BY <1>1, InvariantHolds, PTL

(* A track that lives and stands in a list of a stream is counted by Java: add() retains what
   it lists, and remove() and clear() release no more than that. *)
THEOREM ListedStayCounted == Spec => []ListedAreCounted
<1>1. IInv => ListedAreCounted
  BY InvListed
<1>2. QED
  BY <1>1, InvariantHolds, PTL

(* With nothing under way, the page holds no track event that it has fired: Java
   releases the object of each event when it has dispatched it. *)
THEOREM EventsComeBack == Spec => []EventsAreGivenBack
<1>1. IInv => EventsAreGivenBack
  BY InvEvents
<1>2. QED
  BY <1>1, InvariantHolds, PTL
=============================================================================
