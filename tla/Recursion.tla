----------------------------- MODULE Recursion ------------------------------
(***************************************************************************)
(* Induction over the numbers, by the least counterexample, and functions  *)
(* that are defined by recursion.                                          *)
(***************************************************************************)
EXTENDS Integers, Sequences, TLAPS, WellFoundedInduction, SequenceTheorems

\* Numbers have a least one.
LEMMA LeastElement ==
  ASSUME NEW S, S # {}, S \subseteq Nat
  PROVE  \E m \in S : \A k \in S : m <= k
<1>1. PICK m \in S : \A k \in S : <<k, m>> \notin OpToRel(<, Nat)
  BY NatLessThanWellFounded, WFMin
<1>2. ASSUME NEW k \in S
      PROVE  m <= k
  <2>1. k \in Nat /\ m \in Nat /\ ~(k < m)
    BY <1>1 DEF OpToRel
  <2> QED
    BY <2>1
<1> QED
  BY <1>2

\* Induction on the set of the numbers for which something holds.
LEMMA Induction ==
  ASSUME NEW S, 0 \in S, \A n \in Nat : n \in S => n + 1 \in S
  PROVE  Nat \subseteq S
<1> DEFINE Rest == {n \in Nat : n \notin S}
<1>1. SUFFICES ASSUME Rest # {} PROVE FALSE
  OBVIOUS
<1>2. Rest \subseteq Nat
  OBVIOUS
<1> HIDE DEF Rest
<1>3. PICK n \in Rest : \A k \in Rest : n <= k
  BY <1>1, <1>2, LeastElement
<1>4. n \in Nat /\ n # 0
  BY DEF Rest
<1>5. n - 1 \in Nat /\ n - 1 \notin Rest /\ (n - 1) + 1 = n
  BY <1>2, <1>3, <1>4
<1> QED
  BY <1>5 DEF Rest

LEMMA StrongInduction ==
  ASSUME NEW S, \A n \in Nat : (\A m \in Nat : m < n => m \in S) => n \in S
  PROVE  Nat \subseteq S
<1> DEFINE Rest == {n \in Nat : n \notin S}
<1>1. SUFFICES ASSUME Rest # {} PROVE FALSE
  OBVIOUS
<1>2. Rest \subseteq Nat
  OBVIOUS
<1> HIDE DEF Rest
<1>3. PICK n \in Rest : \A k \in Rest : n <= k
  BY <1>1, <1>2, LeastElement
<1>4. n \in Nat /\ n \notin S
  BY DEF Rest
<1>5. \A m \in Nat : m < n => m \in S
  BY <1>3, <1>4 DEF Rest
<1> QED
  BY <1>4, <1>5

\* The values of a function that is computed in turn for 0, 1, 2 and so on.
Iterates(f, S, first, next) ==
  f \in [Nat -> S] /\ f[0] = first /\ \A k \in Nat : f[k + 1] = next[<<k, f[k]>>]

LEMMA Iterated ==
  ASSUME NEW S, NEW first \in S, NEW next \in [Nat \X S -> S]
  PROVE  \E f : Iterates(f, S, first, next)
<1> DEFINE Upto(n, g) == /\ g \in [0 .. n -> S] /\ g[0] = first
                         /\ \A k \in 0 .. n - 1 : g[k + 1] = next[<<k, g[k]>>]
<1>1. \A n \in Nat : \E g : Upto(n, g)
  <2> DEFINE Good == {n \in Nat : \E g : Upto(n, g)}
  <2>1. 0 \in Good
    <3>1. Upto(0, [k \in 0 .. 0 |-> first])
      OBVIOUS
    <3> QED
      BY <3>1
  <2>2. ASSUME NEW n \in Nat, n \in Good
        PROVE  n + 1 \in Good
    <3>1. PICK g : Upto(n, g)
      BY <2>2
    <3>2. PICK h : h = [k \in 0 .. n + 1 |-> IF k = n + 1 THEN next[<<n, g[n]>>] ELSE g[k]]
      OBVIOUS
    <3>3. \A k \in 0 .. n : h[k] = g[k]
      BY <3>2
    <3>4. h[n + 1] = next[<<n, g[n]>>] /\ DOMAIN h = 0 .. n + 1
      BY <3>2
    <3>5. g[n] \in S /\ n \in 0 .. n /\ 0 \in 0 .. n
      BY <3>1
    <3>6. h \in [0 .. n + 1 -> S] /\ h[0] = first
      BY <3>1, <3>2, <3>3, <3>5
    <3>7. ASSUME NEW k \in 0 .. n + 1 - 1
          PROVE  h[k + 1] = next[<<k, h[k]>>]
      <4>1. CASE k = n
        BY <3>3, <3>4, <3>5, <4>1
      <4>2. CASE k # n
        <5>1. k \in 0 .. n - 1 /\ k + 1 \in 0 .. n /\ k \in 0 .. n
          BY <4>2
        <5> QED
          BY <3>1, <3>3, <5>1
      <4> QED
        BY <4>1, <4>2
    <3>8. Upto(n + 1, h) /\ n + 1 \in Nat
      BY <3>6, <3>7
    <3> HIDE DEF Upto
    <3> QED
      BY <3>8
  <2> HIDE DEF Good
  <2>3. Nat \subseteq Good
    BY <2>1, <2>2, Induction
  <2> QED
    BY <2>3 DEF Good
<1>2. ASSUME NEW n \in Nat, NEW m \in Nat, NEW g, NEW h, Upto(n, g), Upto(m, h)
      PROVE  \A k \in Nat : k <= n /\ k <= m => g[k] = h[k]
  <2> DEFINE Good == {k \in Nat : k <= n /\ k <= m => g[k] = h[k]}
  <2>1. 0 \in Good
    BY <1>2
  <2>2. ASSUME NEW k \in Nat, k \in Good
        PROVE  k + 1 \in Good
    <3>1. SUFFICES ASSUME k + 1 <= n, k + 1 <= m PROVE g[k + 1] = h[k + 1]
      OBVIOUS
    <3>2. k \in 0 .. n - 1 /\ k \in 0 .. m - 1 /\ g[k] = h[k]
      BY <2>2, <3>1
    <3> QED
      BY <1>2, <3>2
  <2> HIDE DEF Good
  <2>3. Nat \subseteq Good
    BY <2>1, <2>2, Induction
  <2> QED
    BY <2>3 DEF Good
<1> DEFINE G(n) == CHOOSE g : Upto(n, g)
           f    == [n \in Nat |-> G(n)[n]]
<1>3. \A n \in Nat : Upto(n, G(n))
  BY <1>1
<1> HIDE DEF G
<1>4. f \in [Nat -> S]
  BY <1>3
<1>5. f[0] = first
  BY <1>3
<1>6. ASSUME NEW k \in Nat
      PROVE  f[k + 1] = next[<<k, f[k]>>]
  <2>1. Upto(k + 1, G(k + 1)) /\ Upto(k, G(k))
    BY <1>3
  <2>2. k \in 0 .. k + 1 - 1 /\ k + 1 \in Nat /\ k <= k + 1 /\ k <= k
    OBVIOUS
  <2>3. G(k + 1)[k + 1] = next[<<k, G(k + 1)[k]>>]
    BY <2>1, <2>2
  <2> HIDE DEF Upto
  <2>4. G(k + 1)[k] = G(k)[k]
    BY <1>2, <2>1, <2>2
  <2> QED
    BY <2>2, <2>3, <2>4
<1>7. Iterates(f, S, first, next)
  BY <1>4, <1>5, <1>6 DEF Iterates
<1> QED
  BY <1>7

\* A function that is defined by recursion exists when each of its values needs only
\* those of arguments of a lower rank.
Settles(G, D, T, rank) ==
  \A f, g \in [D -> T] : \A x \in D :
    (\A y \in D : rank[y] < rank[x] => f[y] = g[y]) => G[f][x] = G[g][x]

Recursion(G, D, T, rank) ==
  T # {} /\ rank \in [D -> Nat] /\ G \in [[D -> T] -> [D -> T]] /\ Settles(G, D, T, rank)

HasFixedPoint(G, D, T) == \E f \in [D -> T] : f = G[f]

LEMMA RecursionExists ==
  ASSUME NEW D, NEW T, NEW rank, NEW G, Recursion(G, D, T, rank)
  PROVE  HasFixedPoint(G, D, T)
<1> SUFFICES ASSUME rank \in [D -> Nat], G \in [[D -> T] -> [D -> T]], Settles(G, D, T, rank),
                    NEW t \in T
             PROVE  \E f \in [D -> T] : f = G[f]
  BY DEF Recursion, HasFixedPoint
<1> DEFINE first == [x \in D |-> t]
           next == [it \in Nat \X [D -> T] |-> G[it[2]]]
<1>1. PICK F : Iterates(F, [D -> T], first, next)
  <2>1. first \in [D -> T] /\ next \in [Nat \X [D -> T] -> [D -> T]]
    OBVIOUS
  <2> HIDE DEF first, next
  <2> QED
    BY <2>1, Iterated
<1>2. \A n \in Nat : F[n] \in [D -> T] /\ F[n + 1] = G[F[n]]
  <2> SUFFICES ASSUME NEW n \in Nat
               PROVE  F[n] \in [D -> T] /\ F[n + 1] = G[F[n]]
    OBVIOUS
  <2>1. F[n] \in [D -> T] /\ F[n + 1] = next[<<n, F[n]>>]
    BY <1>1, Zenon DEF Iterates
  <2> QED
    BY <2>1
<1> HIDE DEF first, next
<1> DEFINE Settled(n) == \A x \in D : rank[x] < n => F[n + 1][x] = F[n][x]
<1>3. \A n \in Nat : Settled(n)
  <2> DEFINE S == {n \in Nat : Settled(n)}
  <2>1. 0 \in S
    OBVIOUS
  <2>2. ASSUME NEW n \in Nat, n \in S
        PROVE  n + 1 \in S
    <3> SUFFICES ASSUME NEW x \in D, rank[x] < n + 1
                 PROVE  F[n + 2][x] = F[n + 1][x]
      OBVIOUS
    <3>1. \A y \in D : rank[y] < rank[x] => F[n + 1][y] = F[n][y]
      BY <2>2
    <3>2. F[n + 1] \in [D -> T] /\ F[n] \in [D -> T]
      BY <1>2
    <3>3. G[F[n + 1]][x] = G[F[n]][x]
      BY <3>1, <3>2, Zenon DEF Settles
    <3>4. F[n + 1] = G[F[n]] /\ F[(n + 1) + 1] = G[F[n + 1]] /\ (n + 1) + 1 = n + 2
      BY <1>2
    <3> QED
      BY <3>3, <3>4
  <2> HIDE DEF S
  <2>3. Nat \subseteq S
    BY <2>1, <2>2, Induction
  <2> QED
    BY <2>3 DEF S
<1>4. ASSUME NEW x \in D
      PROVE  \A d \in Nat : F[(rank[x] + 1) + d][x] = F[rank[x] + 1][x]
  <2> DEFINE S == {d \in Nat : F[(rank[x] + 1) + d][x] = F[rank[x] + 1][x]}
  <2>0. rank[x] \in Nat
    OBVIOUS
  <2>1. 0 \in S
    BY <2>0
  <2>2. ASSUME NEW d \in Nat, d \in S
        PROVE  d + 1 \in S
    <3>1. PICK n \in Nat : n = (rank[x] + 1) + d
      BY <2>0
    <3>2. F[n + 1][x] = F[n][x]
      BY <1>3, <2>0, <3>1
    <3>3. n + 1 = (rank[x] + 1) + (d + 1)
      BY <2>0, <3>1
    <3> QED
      BY <2>2, <3>1, <3>2, <3>3
  <2> HIDE DEF S
  <2>3. Nat \subseteq S
    BY <2>1, <2>2, Induction
  <2> QED
    BY <2>3 DEF S
<1> DEFINE f == [x \in D |-> F[rank[x] + 1][x]]
<1>5. f \in [D -> T]
  BY <1>2
<1>6. ASSUME NEW x \in D
      PROVE  f[x] = G[f][x]
  <2>1. PICK r \in Nat : r = rank[x]
    OBVIOUS
  <2>2. ASSUME NEW y \in D, rank[y] < rank[x]
        PROVE  f[y] = F[r][y]
    <3>1. PICK d \in Nat : (rank[y] + 1) + d = r
      <4>1. rank[y] \in Nat /\ r - (rank[y] + 1) \in Nat
        BY <2>1, <2>2
      <4> QED
        BY <4>1
    <3> QED
      BY <1>4, <3>1
  <2>3. F[r] \in [D -> T] /\ F[r + 1] = G[F[r]]
    BY <1>2
  <2>4. f[x] = F[r + 1][x]
    BY <2>1
  <2>5. G[f][x] = G[F[r]][x]
    <3> HIDE DEF f
    <3> QED
      BY <1>5, <2>2, <2>3, Zenon DEF Settles
  <2> QED
    BY <2>3, <2>4, <2>5
<1>7. G[f] \in [D -> T]
  BY <1>5
<1> HIDE DEF f
<1>8. f = G[f]
  BY <1>5, <1>6, <1>7
<1> QED
  BY <1>5, <1>8
=============================================================================
