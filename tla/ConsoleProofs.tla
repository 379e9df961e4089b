---------------------------- MODULE ConsoleProofs ----------------------------
(***************************************************************************)
(* Proofs about Console: the digits of a number have its value, and what   *)
(* printf writes is what its format says.                                  *)
(***************************************************************************)
EXTENDS Console, Recursion, FiniteSetTheorems

-----------------------------------------------------------------------------
(* Digits.                                                                 *)

Chars    == {digits[d] : d \in 1 .. 16}
IsBase(b) == b = 10 \/ b = 16

\* Rests and quotients of numbers by a base.
LEMMA RestIs ==
  ASSUME NEW x \in Nat, NEW b, IsBase(b)
  PROVE  /\ x % b \in Nat /\ x % b < b /\ x \div b \in Nat /\ x = (x \div b) * b + (x % b)
         /\ (x < b => x \div b = 0 /\ x % b = x) /\ (x >= b => x \div b > 0 /\ x \div b < x)
<1>1. CASE b = 10
  BY <1>1
<1>2. CASE b = 16
  BY <1>2
<1> QED
  BY <1>1, <1>2 DEF IsBase

LEMMA DigitsAre ==
  ASSUME NEW d \in 1 .. 16
  PROVE  /\ digits[d] \in Chars /\ DigitOf(digits[d]) = d
         /\ (digits[d] = "0" => d = 1)
<1>1. digits[d] \in Chars
  BY DEF Chars
<1>2. PICK t : t = digits
  OBVIOUS
<1>3. /\ t[1] = "0" /\ t[2] = "1" /\ t[3] = "2" /\ t[4] = "3" /\ t[5] = "4" /\ t[6] = "5"
      /\ t[7] = "6" /\ t[8] = "7" /\ t[9] = "8" /\ t[10] = "9" /\ t[11] = "a" /\ t[12] = "b"
      /\ t[13] = "c" /\ t[14] = "d" /\ t[15] = "e" /\ t[16] = "f"
  BY <1>2 DEF digits
<1>4. \A c, e \in 1 .. 16 : t[c] = t[e] => c = e
  BY <1>3
<1>5. digits[d] = "0" => d = 1
  BY <1>2, <1>3, <1>4
<1>6. DigitOf(digits[d]) = d
  BY <1>2, <1>4 DEF DigitOf
<1> QED
  BY <1>1, <1>5, <1>6

\* The digits of y, from those that f gives for a smaller number.
DigitsWith(f, y) ==
  [base \in {10, 16} |->
     <<digits[(y % base) + 1]>> \o (IF y \div base > 0 THEN f[y \div base][base] ELSE <<>>)]

\* DigitsFrom is the function that it is defined as.
LEMMA DigitsFromIs == DigitsFrom = [y \in Nat |-> DigitsWith(DigitsFrom, y)]
<1> DEFINE T == [{10, 16} -> Seq(Chars)]
           G == [g \in [Nat -> T] |-> [y \in Nat |-> DigitsWith(g, y)]]
           rank == [y \in Nat |-> y]
<1>1. ASSUME NEW g \in [Nat -> T], NEW y \in Nat
      PROVE  DigitsWith(g, y) \in T
  <2>1. ASSUME NEW c \in {10, 16}
        PROVE  <<digits[(y % c) + 1]>> \o (IF y \div c > 0 THEN g[y \div c][c] ELSE <<>>)
                 \in Seq(Chars)
    <3>1. IsBase(c)
      BY DEF IsBase
    <3>2. (y % c) + 1 \in 1 .. 16 /\ y \div c \in Nat
      BY <3>1, RestIs DEF IsBase
    <3>3. digits[(y % c) + 1] \in Chars
      BY <3>2, DigitsAre
    <3>4. g[y \div c][c] \in Seq(Chars)
      BY <3>2
    <3> QED
      BY <3>3, <3>4
  <2> QED
    BY <2>1, Zenon DEF DigitsWith
<1>2. ASSUME NEW f \in [Nat -> T], NEW g \in [Nat -> T], NEW y \in Nat,
             \A z \in Nat : rank[z] < rank[y] => f[z] = g[z]
      PROVE  DigitsWith(f, y) = DigitsWith(g, y)
  <2>1. ASSUME NEW c \in {10, 16}, y \div c > 0
        PROVE  f[y \div c] = g[y \div c]
    <3>1. IsBase(c)
      BY DEF IsBase
    <3>2. y \div c \in Nat /\ y \div c < y
      BY <2>1, <3>1, RestIs DEF IsBase
    <3> QED
      BY <1>2, <3>2
  <2> QED
    BY <2>1, Zenon DEF DigitsWith
<1>3. T # {} /\ rank \in [Nat -> Nat]
  <2>1. [c \in {10, 16} |-> <<>>] \in T
    OBVIOUS
  <2> QED
    BY <2>1
<1> HIDE DEF T, rank
<1>4. G \in [[Nat -> T] -> [Nat -> T]]
  BY <1>1
<1>5. \A f \in [Nat -> T] : G[f] = [y \in Nat |-> DigitsWith(f, y)]
  OBVIOUS
<1> HIDE DEF G
<1>6. Settles(G, Nat, T, rank)
  <2> SUFFICES ASSUME NEW f \in [Nat -> T], NEW g \in [Nat -> T], NEW y \in Nat,
                      \A z \in Nat : rank[z] < rank[y] => f[z] = g[z]
               PROVE  G[f][y] = G[g][y]
    BY Zenon DEF Settles
  <2>1. /\ G[f] = [z \in Nat |-> DigitsWith(f, z)]
        /\ G[g] = [z \in Nat |-> DigitsWith(g, z)]
    BY <1>5, Zenon
  <2> QED
    BY <1>2, <2>1
<1>7. PICK f \in [Nat -> T] : f = G[f]
  <2>1. Recursion(G, Nat, T, rank)
    BY <1>3, <1>4, <1>6, Zenon DEF Recursion
  <2>2. HasFixedPoint(G, Nat, T)
    BY <2>1, RecursionExists, Zenon
  <2> QED
    BY <2>2, Zenon DEF HasFixedPoint
<1>8. f = [y \in Nat |-> DigitsWith(f, y)]
  BY <1>5, <1>7, Zenon
<1> QED
  BY <1>8, Zenon DEF DigitsFrom, DigitsWith

\* convert writes the lowest digit and goes on with the rest.
Others(x, b) == IF x \div b > 0 THEN convert(x \div b, b) ELSE <<>>

LEMMA ConvertStep ==
  ASSUME NEW x \in Nat, NEW b, IsBase(b)
  PROVE  convert(x, b) = <<digits[(x % b) + 1]>> \o Others(x, b)
<1>1. b \in {10, 16}
  BY DEF IsBase
<1>2. DigitsFrom[x] = DigitsWith(DigitsFrom, x)
  BY DigitsFromIs
<1> QED
  BY <1>1, <1>2, Zenon DEF DigitsWith, convert, Others

\* The lowest digit of a number is one of its base.
LEMMA LowestIs ==
  ASSUME NEW x \in Nat, NEW b, IsBase(b)
  PROVE  (x % b) + 1 \in 1 .. b /\ (x % b) + 1 \in 1 .. 16
<1>1. b \in Nat /\ b <= 16 /\ x % b \in Nat /\ x % b < b
  <2>1. b \in Nat /\ b <= 16
    BY DEF IsBase
  <2> QED
    BY <2>1, RestIs
<1>2. PICK r \in Nat : r = x % b
  BY <1>1
<1> QED
  BY <1>1, <1>2

LEMMA ConvertIs ==
  ASSUME NEW b, IsBase(b)
  PROVE  \A x \in Nat : convert(x, b) \in Seq(Chars) /\ Others(x, b) \in Seq(Chars)
<1> DEFINE S == {x \in Nat : convert(x, b) \in Seq(Chars) /\ Others(x, b) \in Seq(Chars)}
<1>1. ASSUME NEW x \in Nat, \A m \in Nat : m < x => m \in S
      PROVE  x \in S
  <2>1. Others(x, b) \in Seq(Chars)
    <3>1. CASE x \div b > 0
      <4>1. x \div b \in Nat /\ x \div b < x
        BY <3>1, RestIs DEF IsBase
      <4>2. convert(x \div b, b) \in Seq(Chars)
        BY <1>1, <4>1
      <4> QED
        BY <3>1, <4>2, Zenon DEF Others
    <3>2. CASE ~(x \div b > 0)
      <4>1. Others(x, b) = <<>>
        BY <3>2, Zenon DEF Others
      <4> QED
        BY <4>1
    <3> QED
      BY <3>1, <3>2
  <2>2. digits[(x % b) + 1] \in Chars
    BY LowestIs, DigitsAre
  <2>3. <<digits[(x % b) + 1]>> \o Others(x, b) \in Seq(Chars)
    BY <2>1, <2>2
  <2>4. convert(x, b) \in Seq(Chars)
    BY <2>3, ConvertStep
  <2> QED
    BY <2>1, <2>4
<1> HIDE DEF S
<1>2. Nat \subseteq S
  BY <1>1, StrongInduction
<1> QED
  BY <1>2 DEF S

\* From its end, what has one more character before it has it behind.
LEMMA FromEndIs ==
  ASSUME NEW A, NEW s \in Seq(A)
  PROVE  FromItsEnd(s) \in Seq(A) /\ Len(FromItsEnd(s)) = Len(s)
         /\ \A k \in 1 .. Len(s) : FromItsEnd(s)[k] = s[(Len(s) + 1) - k]
<1>1. PICK n \in Nat : n = Len(s)
  OBVIOUS
<1>2. PICK r : r = FromItsEnd(s)
  OBVIOUS
<1>3. r = [k \in 1 .. n |-> s[(n + 1) - k]]
  BY <1>1, <1>2 DEF FromItsEnd
<1>4. \A k \in 1 .. n : (n + 1) - k \in 1 .. n
  OBVIOUS
<1>5. r \in Seq(A) /\ Len(r) = n
  BY <1>1, <1>3, <1>4
<1> QED
  BY <1>1, <1>2, <1>3, <1>5

LEMMA FromEndOfMore ==
  ASSUME NEW A, NEW c \in A, NEW s \in Seq(A)
  PROVE  FromItsEnd(<<c>> \o s) = Append(FromItsEnd(s), c)
<1>1. PICK n \in Nat : n = Len(s)
  OBVIOUS
<1>2. PICK l : l = <<c>> \o s
  OBVIOUS
<1>3. l \in Seq(A) /\ Len(l) = n + 1 /\ l[1] = c /\ \A k \in 1 .. n : l[k + 1] = s[k]
  <2>1. PICK h : h = <<c>>
    OBVIOUS
  <2>2. h \in Seq(A) /\ Len(h) = 1 /\ h[1] = c
    BY <2>1
  <2>3. l = h \o s
    BY <1>2, <2>1, Zenon
  <2>4. l \in Seq(A) /\ Len(l) = 1 + n
        /\ \A k \in 1 .. 1 + n : l[k] = IF k <= 1 THEN h[k] ELSE s[k - 1]
    <3>1. /\ h \o s \in Seq(A) /\ Len(h \o s) = Len(h) + Len(s)
          /\ \A k \in 1 .. Len(h) + Len(s) :
                (h \o s)[k] = IF k <= Len(h) THEN h[k] ELSE s[k - Len(h)]
      BY <2>2, ConcatProperties
    <3> QED
      BY <1>1, <2>2, <2>3, <3>1, Zenon
  <2>6. \A k \in 1 .. n : k + 1 \in 1 .. 1 + n /\ (k + 1) - 1 = k /\ ~(k + 1 <= 1)
    OBVIOUS
  <2> QED
    BY <2>2, <2>4, <2>6
<1>4. PICK a, b : a = FromItsEnd(l) /\ b = FromItsEnd(s)
  OBVIOUS
<1>5. a \in Seq(A) /\ Len(a) = n + 1 /\ \A k \in 1 .. n + 1 : a[k] = l[(n + 2) - k]
  <2>1. a \in Seq(A) /\ Len(a) = Len(l) /\ \A k \in 1 .. Len(l) : a[k] = l[(Len(l) + 1) - k]
    BY <1>3, <1>4, FromEndIs
  <2>2. \A k \in 1 .. n + 1 : ((n + 1) + 1) - k = (n + 2) - k
    OBVIOUS
  <2> QED
    BY <1>3, <2>1, <2>2
<1>6. b \in Seq(A) /\ Len(b) = n /\ \A k \in 1 .. n : b[k] = s[(n + 1) - k]
  BY <1>1, <1>4, FromEndIs
<1>7. PICK d : d = Append(b, c)
  OBVIOUS
<1>8. /\ d \in Seq(A) /\ Len(d) = n + 1 /\ d[n + 1] = c
      /\ \A k \in 1 .. n : d[k] = b[k]
  BY <1>6, <1>7
<1>9. ASSUME NEW k \in 1 .. n + 1
      PROVE  a[k] = d[k]
  <2>1. CASE k = n + 1
    BY <1>3, <1>5, <1>8, <2>1
  <2>2. CASE k \in 1 .. n
    <3>1. PICK j \in 1 .. n : (n + 1) - k = j /\ (n + 2) - k = j + 1
      BY <2>2
    <3>2. a[k] = l[j + 1]
      BY <1>5, <3>1, Zenon
    <3>3. l[j + 1] = s[j]
      BY <1>3, <3>1, Zenon
    <3>4. b[k] = s[j]
      BY <1>6, <2>2, <3>1, Zenon
    <3>5. d[k] = b[k]
      BY <1>8, <2>2, Zenon
    <3> QED
      BY <3>2, <3>3, <3>4, <3>5, Zenon
  <2> QED
    BY <2>1, <2>2
<1>10. a = d
  BY <1>5, <1>8, <1>9
<1> QED
  BY <1>2, <1>4, <1>7, <1>10

\* The values of the beginnings of a numeral.
AreValues(v, s, base) ==
  /\ v \in [0 .. Len(s) -> Int] /\ v[0] = 0
  /\ \A k \in 1 .. Len(s) : v[k] = (v[k - 1] * base + DigitOf(s[k])) - 1

LEMMA ValueOfIs ==
  ASSUME NEW s \in Seq(Chars), NEW base \in Nat
  PROVE  \E v : AreValues(v, s, base) /\ ValueOf(s, base) = v[Len(s)]
<1>0. PICK n \in Nat : n = Len(s)
  OBVIOUS
<1> DEFINE D == 0 .. n
           With(f, k) == IF k = 0 THEN 0 ELSE f[k - 1] * base + DigitOf(s[k]) - 1
           G == [f \in [D -> Int] |-> [k \in D |-> With(f, k)]]
           rank == [k \in D |-> k]
<1>1. \A k \in 1 .. n : DigitOf(s[k]) \in Int
  <2> SUFFICES ASSUME NEW k \in 1 .. n PROVE DigitOf(s[k]) \in Int
    OBVIOUS
  <2>1. PICK d \in 1 .. 16 : s[k] = digits[d]
    BY <1>0, SMTT(40) DEF Chars
  <2> QED
    BY <2>1, DigitsAre
<1>2. ASSUME NEW f \in [D -> Int], NEW k \in D
      PROVE  With(f, k) \in Int
  <2>1. CASE k # 0
    <3>1. k \in 1 .. n /\ k - 1 \in D
      BY <2>1
    <3>2. PICK p_ \in Int, e \in Int : p_ = f[k - 1] /\ e = DigitOf(s[k])
      BY <1>1, <3>1
    <3>3. p_ * base \in Int
      OBVIOUS
    <3> QED
      BY <2>1, <3>2, <3>3, SMTT(40)
  <2> QED
    BY <2>1
<1>3. ASSUME NEW f \in [D -> Int], NEW g \in [D -> Int], NEW k \in D,
             \A j \in D : rank[j] < rank[k] => f[j] = g[j]
      PROVE  With(f, k) = With(g, k)
  <2>1. k # 0 => f[k - 1] = g[k - 1]
    BY <1>3
  <2> QED
    BY <2>1
<1>4. Int # {} /\ rank \in [D -> Nat] /\ 0 \in D /\ n \in D
  OBVIOUS
<1> HIDE DEF rank, With
<1>5. G \in [[D -> Int] -> [D -> Int]]
  BY <1>2
<1>6. \A f \in [D -> Int] : G[f] = [k \in D |-> With(f, k)]
  OBVIOUS
<1> HIDE DEF G
<1>7. Settles(G, D, Int, rank)
  <2> SUFFICES ASSUME NEW f \in [D -> Int], NEW g \in [D -> Int], NEW k \in D,
                      \A j \in D : rank[j] < rank[k] => f[j] = g[j]
               PROVE  G[f][k] = G[g][k]
    BY Zenon DEF Settles
  <2>1. G[f][k] = With(f, k) /\ G[g][k] = With(g, k)
    BY <1>6, ZenonT(40)
  <2> QED
    BY <1>3, <2>1
<1>8. PICK f \in [D -> Int] : f = G[f]
  <2>1. Recursion(G, D, Int, rank)
    BY <1>4, <1>5, <1>7, Zenon DEF Recursion
  <2>2. HasFixedPoint(G, D, Int)
    BY <2>1, RecursionExists, Zenon
  <2> QED
    BY <2>2, Zenon DEF HasFixedPoint
<1>9. f = [k \in D |-> With(f, k)]
  BY <1>6, <1>8, Zenon
<1>10. PICK v : /\ v = CHOOSE value : value = [k \in 0 .. Len(s) |-> IF k = 0 THEN 0 ELSE value[k - 1] * base + DigitOf(s[k]) - 1]
                /\ ValueOf(s, base) = v[Len(s)]
  BY Zenon DEF ValueOf
<1>11. v = [k \in D |-> With(v, k)]
  <2>1. f = [k \in 0 .. Len(s) |-> IF k = 0 THEN 0 ELSE f[k - 1] * base + DigitOf(s[k]) - 1]
    BY <1>0, <1>9, Zenon DEF With
  <2>2. v = [k \in 0 .. Len(s) |-> IF k = 0 THEN 0 ELSE v[k - 1] * base + DigitOf(s[k]) - 1]
    BY <1>10, <2>1, Zenon
  <2> QED
    BY <1>0, <2>2, Zenon DEF With
<1>12. \A k \in D : v[k] = With(v, k)
  BY <1>11
<1>13. v[0] = 0
  BY <1>4, <1>12 DEF With
<1>14. \A k \in 1 .. n : v[k] = v[k - 1] * base + DigitOf(s[k]) - 1
  <2>1. \A k \in 1 .. n : k \in D /\ k # 0
    OBVIOUS
  <2> QED
    BY <1>12, <2>1, Zenon DEF With
<1>15. \A k \in D : v[k] \in Int
  <2> DEFINE S == {k \in Nat : k <= n => v[k] \in Int}
  <2>1. 0 \in S
    BY <1>13
  <2>2. ASSUME NEW k \in Nat, k \in S
        PROVE  k + 1 \in S
    <3> SUFFICES ASSUME k + 1 <= n PROVE v[k + 1] \in Int
      OBVIOUS
    <3>1. k + 1 \in 1 .. n /\ (k + 1) - 1 = k /\ v[k] \in Int
      BY <2>2
    <3>2. PICK a \in Int, e \in Int : a = v[k] /\ e = DigitOf(s[k + 1])
      BY <1>1, <3>1
    <3>3. v[k + 1] = a * base + e - 1
      BY <1>14, <3>1, <3>2, Zenon
    <3>4. a * base \in Int
      OBVIOUS
    <3> QED
      BY <3>3, <3>4
  <2> HIDE DEF S
  <2>3. Nat \subseteq S
    BY <2>1, <2>2, Induction
  <2> QED
    BY <2>3 DEF S
<1>16. v \in [D -> Int]
  BY <1>11, <1>15
<1>17. \A k \in 1 .. n : v[k] = (v[k - 1] * base + DigitOf(s[k])) - 1
  <2> SUFFICES ASSUME NEW k \in 1 .. n PROVE v[k] = (v[k - 1] * base + DigitOf(s[k])) - 1
    OBVIOUS
  <2>1. k - 1 \in D
    OBVIOUS
  <2>2. PICK a \in Int, e \in Int : a = v[k - 1] /\ e = DigitOf(s[k])
    BY <1>1, <1>15, <2>1
  <2>3. v[k] = a * base + e - 1
    BY <1>14, <2>2, Zenon
  <2>4. PICK m \in Int : m = a * base
    OBVIOUS
  <2>5. v[k] = m + e - 1 /\ (v[k - 1] * base + DigitOf(s[k])) - 1 = (m + e) - 1
    BY <2>2, <2>3, <2>4, Zenon
  <2>6. m + e - 1 = (m + e) - 1
    OBVIOUS
  <2> QED
    BY <2>5, <2>6, Zenon
<1>18. AreValues(v, s, base)
  BY <1>0, <1>13, <1>16, <1>17, Zenon DEF AreValues
<1> QED
  BY <1>10, <1>18

LEMMA ValueOfMore ==
  ASSUME NEW s \in Seq(Chars), NEW base \in Nat, NEW d \in 1 .. 16
  PROVE  ValueOf(Append(s, digits[d]), base) = (ValueOf(s, base) * base + d) - 1
<1>1. PICK n \in Nat : n = Len(s)
  OBVIOUS
<1>2. PICK l : l = Append(s, digits[d])
  OBVIOUS
<1>3. /\ l \in Seq(Chars) /\ Len(l) = n + 1 /\ l[n + 1] = digits[d]
      /\ \A k \in 1 .. n : l[k] = s[k]
  <2>1. digits[d] \in Chars
    BY DigitsAre
  <2> QED
    BY <1>1, <1>2, <2>1
<1>4. PICK v : AreValues(v, s, base) /\ ValueOf(s, base) = v[n]
  BY <1>1, ValueOfIs, Zenon
<1>5. PICK w : AreValues(w, l, base) /\ ValueOf(l, base) = w[n + 1]
  BY <1>3, ValueOfIs, Zenon
<1>6. /\ v \in [0 .. n -> Int] /\ v[0] = 0
      /\ \A k \in 1 .. n : v[k] = (v[k - 1] * base + DigitOf(s[k])) - 1
  BY <1>1, <1>4, Zenon DEF AreValues
<1>7. /\ w[0] = 0
      /\ \A k \in 1 .. n + 1 : w[k] = (w[k - 1] * base + DigitOf(l[k])) - 1
  BY <1>3, <1>5, Zenon DEF AreValues
<1> DEFINE S == {k \in Nat : k <= n => w[k] = v[k]}
<1>8. 0 \in S
  BY <1>6, <1>7
<1>9. ASSUME NEW k \in Nat, k \in S
      PROVE  k + 1 \in S
  <2> SUFFICES ASSUME k + 1 <= n PROVE w[k + 1] = v[k + 1]
    OBVIOUS
  <2>1. k + 1 \in 1 .. n /\ k + 1 \in 1 .. n + 1 /\ (k + 1) - 1 = k /\ w[k] = v[k]
    BY <1>9
  <2> QED
    BY <1>3, <1>6, <1>7, <2>1, Zenon
<1> HIDE DEF S
<1>10. Nat \subseteq S
  BY <1>8, <1>9, Induction
<1>11. w[n] = v[n]
  BY <1>10 DEF S
<1>12. w[n + 1] = (w[n] * base + DigitOf(l[n + 1])) - 1
  <2>1. n + 1 \in 1 .. n + 1 /\ (n + 1) - 1 = n
    OBVIOUS
  <2> QED
    BY <1>7, <2>1, Zenon
<1>13. DigitOf(l[n + 1]) = d
  BY <1>3, DigitsAre
<1> QED
  BY <1>2, <1>4, <1>5, <1>11, <1>12, <1>13, Zenon

LEMMA ValueOfNone ==
  ASSUME NEW base \in Nat
  PROVE  ValueOf(<<>>, base) = 0
<1>1. <<>> \in Seq(Chars) /\ Len(<<>>) = 0
  OBVIOUS
<1>2. PICK v : AreValues(v, <<>>, base) /\ ValueOf(<<>>, base) = v[Len(<<>>)]
  BY <1>1, ValueOfIs, Zenon
<1>3. v[0] = 0
  BY <1>2, Zenon DEF AreValues
<1> QED
  BY <1>1, <1>2, <1>3, Zenon

\* The digits of a number: of its base, with its value, and no 0 before the others.
WrittenAs(s, x, b) ==
  /\ s \in Seq(Chars) /\ \A k \in DOMAIN s : \E d \in 1 .. b : s[k] = digits[d]
  /\ ValueOf(s, b) = x
  /\ s # <<>> /\ x # 0 => s[1] # "0"

LEMMA WrittenMore ==
  ASSUME NEW b, IsBase(b), NEW q \in Nat, NEW s, WrittenAs(s, q, b), s = <<>> \/ q # 0,
         NEW d \in 1 .. b, NEW x \in Nat, x = (q * b + d) - 1
  PROVE  /\ WrittenAs(Append(s, digits[d]), x, b) /\ Append(s, digits[d]) # <<>>
         /\ Len(Append(s, digits[d])) > 1 => Append(s, digits[d])[1] # "0"
<1>0. b \in Nat /\ d \in 1 .. 16
  BY DEF IsBase
<1>1. s \in Seq(Chars) /\ digits[d] \in Chars
  BY <1>0, DigitsAre DEF WrittenAs
<1>2. PICK n \in Nat : n = Len(s)
  BY <1>1
<1>3. PICK l : l = Append(s, digits[d])
  OBVIOUS
<1>4. /\ l \in Seq(Chars) /\ Len(l) = n + 1 /\ l[n + 1] = digits[d]
      /\ DOMAIN l = 1 .. n + 1 /\ DOMAIN s = 1 .. n /\ \A k \in 1 .. n : l[k] = s[k]
  BY <1>1, <1>2, <1>3
<1>5. ASSUME NEW k \in 1 .. n + 1
      PROVE  \E e \in 1 .. b : l[k] = digits[e]
  <2>1. CASE k = n + 1
    BY <1>4, <2>1
  <2>2. CASE k \in 1 .. n
    BY <1>4, <2>2, Zenon DEF WrittenAs
  <2> QED
    BY <2>1, <2>2
<1>6. ValueOf(l, b) = x
  BY <1>0, <1>1, <1>3, ValueOfMore, Zenon DEF WrittenAs
<1>7. l # <<>>
  BY <1>4
<1>8. ASSUME n > 0
      PROVE  l[1] # "0"
  <2>1. s # <<>> /\ 1 \in 1 .. n
    BY <1>4, <1>8
  <2> QED
    BY <1>4, <2>1, Zenon DEF WrittenAs
<1>9. ASSUME n = 0, x # 0
      PROVE  l[1] # "0"
  <2>1. s = <<>>
    BY <1>1, <1>2, <1>9, EmptySeq
  <2>2. q = 0
    BY <1>0, <2>1, ValueOfNone, Zenon DEF WrittenAs
  <2>3. d # 1
    BY <1>0, <1>9, <2>2
  <2>4. l[1] = digits[d]
    BY <1>4, <1>9
  <2>5. digits[d] = "0" => d = 1
    BY <1>0, DigitsAre
  <2> QED
    BY <2>3, <2>4, <2>5, Zenon
<1>10. x # 0 => l[1] # "0"
  BY <1>8, <1>9
<1>11. WrittenAs(l, x, b)
  BY <1>4, <1>5, <1>6, <1>10, Zenon DEF WrittenAs
<1>12. Len(l) > 1 => n > 0
  BY <1>4
<1> QED
  BY <1>3, <1>7, <1>8, <1>11, <1>12, Zenon

\* What convert leaves in buf is, from its end, the numeral of the number.
LEMMA NumeralIs ==
  ASSUME NEW b, IsBase(b)
  PROVE  \A x \in Nat : IsNumeral(FromItsEnd(convert(x, b)), x, b)
<1> DEFINE R(x) == FromItsEnd(convert(x, b))
           S == {x \in Nat : WrittenAs(R(x), x, b) /\ IsNumeral(R(x), x, b)}
<1>0. b \in Nat
  BY DEF IsBase
<1>1. ASSUME NEW x \in Nat, \A m \in Nat : m < x => m \in S
      PROVE  x \in S
  <2>1. PICK q \in Nat, r \in Nat : q = x \div b /\ r = x % b /\ x = (q * b + (r + 1)) - 1
                                   /\ (q > 0 => q < x)
    <3>1. /\ x % b \in Nat /\ x \div b \in Nat /\ x = (x \div b) * b + (x % b)
          /\ (x < b => x \div b = 0) /\ (x >= b => x \div b < x)
      BY RestIs
    <3>2. PICK q \in Nat, r \in Nat, m \in Nat : q = x \div b /\ r = x % b /\ m = q * b
      BY <1>0, <3>1
    <3>3. x = m + r
      BY <3>1, <3>2, Zenon
    <3>4. x = (m + (r + 1)) - 1
      BY <3>3
    <3>5. q > 0 => q < x
      BY <1>0, <3>1, <3>2
    <3> QED
      BY <3>2, <3>4, <3>5, Zenon
  <2>2. PICK o : o = FromItsEnd(Others(x, b))
    OBVIOUS
  <2>3. WrittenAs(o, q, b) /\ (o = <<>> \/ q # 0)
    <3>1. CASE q = 0
      <4>1. Others(x, b) = <<>>
        BY <2>1, <3>1 DEF Others
      <4>2. o = <<>>
        <5>1. <<>> \in Seq(Chars) /\ Len(<<>>) = 0
          OBVIOUS
        <5>2. o \in Seq(Chars) /\ Len(o) = 0
          BY <2>2, <4>1, <5>1, FromEndIs, Zenon
        <5> QED
          BY <5>2, EmptySeq
      <4>3. o \in Seq(Chars) /\ DOMAIN o = {}
        BY <4>2
      <4> QED
        BY <1>0, <3>1, <4>2, <4>3, ValueOfNone, Zenon DEF WrittenAs
    <3>2. CASE q > 0
      <4>1. q \in S
        BY <1>1, <2>1, <3>2
      <4>2. Others(x, b) = convert(q, b)
        BY <2>1, <3>2, Zenon DEF Others
      <4> QED
        BY <2>2, <3>2, <4>1, <4>2
    <3> QED
      BY <3>1, <3>2
  <2>4. r + 1 \in 1 .. b /\ r + 1 \in 1 .. 16
    BY <2>1, LowestIs
  <2>5. R(x) = Append(o, digits[r + 1])
    <3>1. Others(x, b) \in Seq(Chars) /\ digits[r + 1] \in Chars
      BY <2>4, ConvertIs, DigitsAre
    <3>2. convert(x, b) = <<digits[r + 1]>> \o Others(x, b)
      BY <2>1, ConvertStep, Zenon
    <3> QED
      BY <2>2, <3>1, <3>2, FromEndOfMore, Zenon
  <2> HIDE DEF R
  <2>6. /\ WrittenAs(R(x), x, b) /\ R(x) # <<>>
        /\ Len(R(x)) > 1 => R(x)[1] # "0"
    <3>1. PICK d \in 1 .. b : d = r + 1
      BY <2>4
    <3>2. x = (q * b + d) - 1
      BY <2>1, <3>1, Zenon
    <3>3. /\ WrittenAs(Append(o, digits[d]), x, b) /\ Append(o, digits[d]) # <<>>
          /\ Len(Append(o, digits[d])) > 1 => Append(o, digits[d])[1] # "0"
      BY <2>3, <3>2, WrittenMore
    <3> QED
      BY <2>5, <3>1, <3>3, Zenon
  <2>7. IsNumeral(R(x), x, b)
    <3>1. \A k \in DOMAIN R(x) : \E d \in 1 .. b : digits[d] = R(x)[k]
      BY <2>6, Zenon DEF WrittenAs
    <3> QED
      BY <2>6, <3>1, Zenon DEF WrittenAs, IsNumeral
  <2> QED
    BY <2>6, <2>7, Zenon
<1> HIDE DEF S
<1>2. Nat \subseteq S
  BY <1>1, StrongInduction
<1> QED
  BY <1>2 DEF S

\* A larger number has no fewer digits.
LEMMA LongerIs ==
  ASSUME NEW b, IsBase(b)
  PROVE  \A x, y \in Nat : y <= x => Len(convert(y, b)) <= Len(convert(x, b))
<1> DEFINE S == {x \in Nat : \A y \in Nat : y <= x => Len(convert(y, b)) <= Len(convert(x, b))}
<1>1. ASSUME NEW x \in Nat, \A m \in Nat : m < x => m \in S
      PROVE  x \in S
  <2> SUFFICES ASSUME NEW y \in Nat, y <= x
               PROVE  Len(convert(y, b)) <= Len(convert(x, b))
    OBVIOUS
  <2>1. PICK n \in Nat, m \in Nat : /\ n = Len(Others(x, b)) /\ Len(convert(x, b)) = n + 1
                                    /\ m = Len(Others(y, b)) /\ Len(convert(y, b)) = m + 1
    <3>1. /\ Others(x, b) \in Seq(Chars) /\ Others(y, b) \in Seq(Chars)
          /\ convert(x, b) = <<digits[(x % b) + 1]>> \o Others(x, b)
          /\ convert(y, b) = <<digits[(y % b) + 1]>> \o Others(y, b)
          /\ digits[(x % b) + 1] \in Chars /\ digits[(y % b) + 1] \in Chars
      BY ConvertIs, ConvertStep, LowestIs, DigitsAre
    <3>2. /\ Len(<<digits[(x % b) + 1]>> \o Others(x, b)) = Len(Others(x, b)) + 1
          /\ Len(<<digits[(y % b) + 1]>> \o Others(y, b)) = Len(Others(y, b)) + 1
      BY <3>1
    <3>3. Len(Others(x, b)) \in Nat /\ Len(Others(y, b)) \in Nat
      BY <3>1
    <3> QED
      BY <3>1, <3>2, <3>3, Zenon
  <2>2. CASE y < b
    <3>1. y \div b = 0
      BY <2>2, RestIs
    <3>2. Others(y, b) = <<>>
      BY <3>1 DEF Others
    <3>3. m = 0
      BY <2>1, <3>2
    <3> QED
      BY <2>1, <3>3
  <2>3. CASE y >= b
    <3>1. PICK q \in Nat, p_ \in Nat : /\ q = x \div b /\ p_ = y \div b /\ q > 0 /\ p_ > 0
                                      /\ q < x /\ p_ <= q
      <4>1. CASE b = 10
        BY <2>3, <4>1
      <4>2. CASE b = 16
        BY <2>3, <4>2
      <4> QED
        BY <4>1, <4>2 DEF IsBase
    <3>2. Others(x, b) = convert(q, b) /\ Others(y, b) = convert(p_, b)
      BY <3>1, Zenon DEF Others
    <3>3. Len(convert(p_, b)) <= Len(convert(q, b))
      BY <1>1, <3>1
    <3> QED
      BY <2>1, <3>2, <3>3
  <2>4. b \in Nat
    BY DEF IsBase
  <2> QED
    BY <2>2, <2>3, <2>4
<1> HIDE DEF S
<1>2. Nat \subseteq S
  BY <1>1, StrongInduction
<1> QED
  BY <1>2 DEF S

\* It has no more in hexadecimals than in decimals.
LEMMA ShorterInHex == \A x \in Nat : Len(convert(x, 16)) <= Len(convert(x, 10))
<1> DEFINE S == {x \in Nat : Len(convert(x, 16)) <= Len(convert(x, 10))}
<1>0. IsBase(10) /\ IsBase(16)
  BY DEF IsBase
<1>1. ASSUME NEW x \in Nat, \A m \in Nat : m < x => m \in S
      PROVE  x \in S
  <2>1. PICK n \in Nat, m \in Nat : /\ n = Len(Others(x, 16)) /\ Len(convert(x, 16)) = n + 1
                                    /\ m = Len(Others(x, 10)) /\ Len(convert(x, 10)) = m + 1
    <3>1. /\ Others(x, 16) \in Seq(Chars) /\ Others(x, 10) \in Seq(Chars)
          /\ convert(x, 16) = <<digits[(x % 16) + 1]>> \o Others(x, 16)
          /\ convert(x, 10) = <<digits[(x % 10) + 1]>> \o Others(x, 10)
          /\ digits[(x % 16) + 1] \in Chars /\ digits[(x % 10) + 1] \in Chars
      BY <1>0, ConvertIs, ConvertStep, LowestIs, DigitsAre
    <3>2. /\ Len(<<digits[(x % 16) + 1]>> \o Others(x, 16)) = Len(Others(x, 16)) + 1
          /\ Len(<<digits[(x % 10) + 1]>> \o Others(x, 10)) = Len(Others(x, 10)) + 1
      BY <3>1
    <3>3. Len(Others(x, 16)) \in Nat /\ Len(Others(x, 10)) \in Nat
      BY <3>1
    <3> QED
      BY <3>1, <3>2, <3>3, Zenon
  <2>2. CASE x < 16
    <3>1. Others(x, 16) = <<>>
      BY <2>2 DEF Others
    <3> QED
      BY <2>1, <3>1
  <2>3. CASE x >= 16
    <3>1. PICK q \in Nat, r \in Nat : q = x \div 16 /\ r = x \div 10 /\ q > 0 /\ r > 0 /\ q <= r /\ r < x
      BY <2>3
    <3>2. Others(x, 16) = convert(q, 16) /\ Others(x, 10) = convert(r, 10)
      BY <3>1, Zenon DEF Others
    <3>3. Len(convert(q, 16)) <= Len(convert(r, 16))
      BY <1>0, <3>1, LongerIs
    <3>4. Len(convert(r, 16)) <= Len(convert(r, 10))
      BY <1>1, <3>1
    <3>5. convert(r, 16) \in Seq(Chars)
      BY <1>0, ConvertIs
    <3>6. Len(convert(r, 16)) \in Nat
      BY <3>5
    <3> QED
      BY <2>1, <3>2, <3>3, <3>4, <3>6
  <2> QED
    BY <2>2, <2>3
<1> HIDE DEF S
<1>2. Nat \subseteq S
  BY <1>1, StrongInduction
<1> QED
  BY <1>2 DEF S

\* A sign behind the digits in buf is before them when they are written.
LEMMA SignIsFirst ==
  ASSUME NEW A, NEW s \in Seq(A), NEW c \in A
  PROVE  /\ Len(FromItsEnd(s \o <<c>>)) = Len(s) + 1
         /\ Head(FromItsEnd(s \o <<c>>)) = c
         /\ Tail(FromItsEnd(s \o <<c>>)) = FromItsEnd(s)
<1>1. PICK n \in Nat : n = Len(s)
  OBVIOUS
<1>2. PICK l : l = s \o <<c>>
  OBVIOUS
<1>3. l \in Seq(A) /\ Len(l) = n + 1 /\ l[n + 1] = c /\ \A k \in 1 .. n : l[k] = s[k]
  <2>1. PICK h : h = <<c>>
    OBVIOUS
  <2>2. h \in Seq(A) /\ Len(h) = 1 /\ h[1] = c
    BY <2>1
  <2>3. l = s \o h
    BY <1>2, <2>1, Zenon
  <2>4. l \in Seq(A) /\ Len(l) = n + 1
        /\ \A k \in 1 .. n + 1 : l[k] = IF k <= n THEN s[k] ELSE h[k - n]
    <3>1. /\ s \o h \in Seq(A) /\ Len(s \o h) = Len(s) + Len(h)
          /\ \A k \in 1 .. Len(s) + Len(h) :
                (s \o h)[k] = IF k <= Len(s) THEN s[k] ELSE h[k - Len(s)]
      BY <2>2, ConcatProperties
    <3> QED
      BY <1>1, <2>2, <2>3, <3>1, Zenon
  <2>5. n + 1 \in 1 .. n + 1 /\ ~(n + 1 <= n) /\ (n + 1) - n = 1
    OBVIOUS
  <2>6. \A k \in 1 .. n : k \in 1 .. n + 1 /\ k <= n
    OBVIOUS
  <2> QED
    BY <2>2, <2>4, <2>5, <2>6
<1>4. PICK a, b : a = FromItsEnd(l) /\ b = FromItsEnd(s)
  OBVIOUS
<1>5. a \in Seq(A) /\ Len(a) = n + 1 /\ \A k \in 1 .. n + 1 : a[k] = l[(n + 2) - k]
  <2>1. a \in Seq(A) /\ Len(a) = Len(l) /\ \A k \in 1 .. Len(l) : a[k] = l[(Len(l) + 1) - k]
    BY <1>3, <1>4, FromEndIs
  <2>2. \A k \in 1 .. n + 1 : ((n + 1) + 1) - k = (n + 2) - k
    OBVIOUS
  <2> QED
    BY <1>3, <2>1, <2>2
<1>6. b \in Seq(A) /\ Len(b) = n /\ \A k \in 1 .. n : b[k] = s[(n + 1) - k]
  BY <1>1, <1>4, FromEndIs
<1>7. a # <<>>
  BY <1>5, EmptySeq
<1>8. /\ Tail(a) \in Seq(A) /\ Len(Tail(a)) = n /\ Head(a) = a[1]
      /\ \A k \in 1 .. n : Tail(a)[k] = a[k + 1]
  <2>1. Tail(a) \in Seq(A) /\ Len(Tail(a)) = Len(a) - 1
        /\ \A k \in 1 .. Len(Tail(a)) : Tail(a)[k] = a[k + 1]
    BY <1>5, <1>7, HeadTailProperties
  <2>2. Len(a) - 1 = n
    BY <1>5
  <2>3. Head(a) = a[1]
    BY <1>5, <1>7
  <2> QED
    BY <2>1, <2>2, <2>3, Zenon
<1>9. Head(a) = c
  <2>1. 1 \in 1 .. n + 1 /\ (n + 2) - 1 = n + 1
    OBVIOUS
  <2> QED
    BY <1>3, <1>5, <1>8, <2>1, Zenon
<1>10. PICK u : u = Tail(a)
  OBVIOUS
<1>11. ASSUME NEW k \in 1 .. n
       PROVE  u[k] = b[k]
  <2>1. k + 1 \in 1 .. n + 1 /\ (n + 2) - (k + 1) = (n + 1) - k /\ (n + 1) - k \in 1 .. n
    OBVIOUS
  <2> QED
    BY <1>3, <1>5, <1>6, <1>8, <1>10, <2>1, ZenonT(40)
<1>12. u = b
  BY <1>6, <1>8, <1>10, <1>11
<1> QED
  BY <1>1, <1>2, <1>4, <1>5, <1>9, <1>10, <1>12, Zenon

\* 0x is before the digits of a pointer.
LEMMA PrefixIsFirst ==
  ASSUME NEW A, NEW s \in Seq(A), "0" \in A, "x" \in A
  PROVE  LET l == <<"0", "x">> \o s
         IN  /\ Len(l) = Len(s) + 2
             /\ SubSeq(l, 1, 2) = <<"0", "x">>
             /\ SubSeq(l, 3, Len(l)) = s
<1>1. PICK n \in Nat : n = Len(s)
  OBVIOUS
<1>2. PICK h : h = <<"0", "x">>
  OBVIOUS
<1>3. PICK l : l = h \o s
  OBVIOUS
<1>4. h \in Seq(A) /\ Len(h) = 2
  BY <1>2
<1>5. /\ l \in Seq(A) /\ Len(l) = 2 + n
      /\ \A k \in 1 .. 2 + n : l[k] = IF k <= 2 THEN h[k] ELSE s[k - 2]
  <2>1. /\ h \o s \in Seq(A) /\ Len(h \o s) = Len(h) + Len(s)
        /\ \A k \in 1 .. Len(h) + Len(s) :
              (h \o s)[k] = IF k <= Len(h) THEN h[k] ELSE s[k - Len(h)]
    BY <1>4, ConcatProperties
  <2> QED
    BY <1>1, <1>3, <1>4, <2>1, Zenon
<1>6. \A k \in 1 .. 2 + n : l[k] \in A
  BY <1>5
<1>7. PICK a, b : a = SubSeq(l, 1, 2) /\ b = SubSeq(l, 3, 2 + n)
  OBVIOUS
<1>8. a \in Seq(A) /\ Len(a) = 2 /\ \A k \in 1 .. 2 : a[k] = l[k]
  <2>1. \A k \in 1 .. 2 : l[k] \in A
    BY <1>6
  <2>2. /\ SubSeq(l, 1, 2) \in Seq(A)
        /\ Len(SubSeq(l, 1, 2)) = IF 1 <= 2 THEN (2 - 1) + 1 ELSE 0
        /\ \A k \in 1 .. (2 - 1) + 1 : SubSeq(l, 1, 2)[k] = l[(1 + k) - 1]
    BY <2>1, SubSeqProperties
  <2>3. (2 - 1) + 1 = 2 /\ 1 <= 2 /\ \A k \in 1 .. 2 : (1 + k) - 1 = k
    OBVIOUS
  <2> QED
    BY <1>7, <2>2, <2>3
<1>9. b \in Seq(A) /\ Len(b) = n /\ \A k \in 1 .. n : b[k] = l[k + 2]
  <2>1. \A k \in 3 .. 2 + n : l[k] \in A
    BY <1>6
  <2>2. /\ SubSeq(l, 3, 2 + n) \in Seq(A)
        /\ Len(SubSeq(l, 3, 2 + n)) = IF 3 <= 2 + n THEN ((2 + n) - 3) + 1 ELSE 0
        /\ \A k \in 1 .. ((2 + n) - 3) + 1 : SubSeq(l, 3, 2 + n)[k] = l[(3 + k) - 1]
    BY <2>1, SubSeqProperties
  <2>3. /\ ((2 + n) - 3) + 1 = n /\ (IF 3 <= 2 + n THEN ((2 + n) - 3) + 1 ELSE 0) = n
        /\ \A k \in 1 .. n : (3 + k) - 1 = k + 2
    OBVIOUS
  <2> QED
    BY <1>7, <2>2, <2>3
<1>10. a = h
  <2>1. \A k \in 1 .. 2 : a[k] = h[k]
    BY <1>5, <1>8
  <2> QED
    BY <1>4, <1>8, <2>1
<1>11. b = s
  <2>1. \A k \in 1 .. n : b[k] = s[k]
    BY <1>5, <1>9
  <2> QED
    BY <1>1, <1>9, <2>1
<1>12. Len(l) = Len(s) + 2
  BY <1>1, <1>5
<1> QED
  BY <1>2, <1>3, <1>5, <1>7, <1>10, <1>11, <1>12, Zenon

\* An int is written with its sign, and has room in buf.
LEMMA IntIsWritten ==
  ASSUME NEW n \in -MaxInt - 1 .. MaxInt, NEW letter, letter # "p",
         NEW b, b = IF letter = "x" THEN 16 ELSE 10
  PROVE  /\ IsOf(FromItsEnd(printint(n, b)), letter, n)
         /\ Len(FromItsEnd(printint(n, b))) <= BUF
<1>0. IsBase(b) /\ IsBase(10) /\ MaxInt \in Nat /\ BUF \in Nat
  BY WidthsAssumption DEF IsBase
<1>1. PICK m \in Nat : m = (IF n < 0 THEN -n ELSE n) /\ m <= MaxInt + 1
  BY <1>0
<1>2. PICK s : s = convert(m, b)
  OBVIOUS
<1>3. s \in Seq(Chars)
  BY <1>0, <1>2, ConvertIs
<1>4. Len(s) \in Nat /\ Len(s) < BUF
  <2>1. MaxInt + 1 \in Nat
    BY <1>0
  <2>2. Len(s) <= Len(convert(MaxInt + 1, b))
    BY <1>0, <1>1, <1>2, <2>1, LongerIs
  <2>3. Len(convert(MaxInt + 1, b)) <= Len(convert(MaxInt + 1, 10))
    <3>1. CASE b = 16
      BY <2>1, <3>1, ShorterInHex
    <3>2. CASE b = 10
      <4>1. convert(MaxInt + 1, 10) \in Seq(Chars)
        BY <1>0, <2>1, ConvertIs
      <4>2. Len(convert(MaxInt + 1, 10)) \in Nat
        BY <4>1
      <4> QED
        BY <3>2, <4>2
    <3> QED
      BY <3>1, <3>2
  <2>4. Len(convert(MaxInt + 1, 10)) < BUF
    BY WidthsAssumption
  <2>5. convert(MaxInt + 1, b) \in Seq(Chars) /\ convert(MaxInt + 1, 10) \in Seq(Chars)
    BY <1>0, <2>1, ConvertIs
  <2>6. PICK i \in Nat, j \in Nat, k \in Nat : i = Len(s) /\ j = Len(convert(MaxInt + 1, b))
                                          /\ k = Len(convert(MaxInt + 1, 10))
    BY <1>3, <2>5
  <2> QED
    BY <1>0, <2>2, <2>3, <2>4, <2>6
<1>5. IsNumeral(FromItsEnd(s), m, b)
  BY <1>0, <1>2, NumeralIs
<1>6. CASE n >= 0
  <2>0. ~(n < 0) /\ m = n
    BY <1>1, <1>6
  <2>1. printint(n, b) = s \o <<>>
    BY <1>2, <2>0, Zenon DEF printint
  <2>2. printint(n, b) = s
    BY <1>3, <2>1, ConcatEmptySeq
  <2>3. Len(FromItsEnd(s)) = Len(s)
    BY <1>3, FromEndIs
  <2>4. m = n
    BY <1>1, <1>6
  <2>5. IsOf(FromItsEnd(s), letter, n)
    BY <1>5, <1>6, <2>4, Zenon DEF IsOf
  <2>6. Len(FromItsEnd(s)) <= BUF
    BY <1>0, <1>4, <2>3
  <2> QED
    BY <2>2, <2>5, <2>6, Zenon
<1>7. CASE n < 0
  <2>1. printint(n, b) = s \o <<"-">>
    BY <1>1, <1>2, <1>7 DEF printint
  <2> DEFINE A == Chars \cup {"-"}
  <2>2. s \in Seq(A) /\ "-" \in A
    <3>1. Chars \subseteq A /\ "-" \in A
      OBVIOUS
    <3> QED
      BY <1>3, <3>1, SeqMonotonic
  <2> HIDE DEF A
  <2>3. /\ Len(FromItsEnd(s \o <<"-">>)) = Len(s) + 1
        /\ Head(FromItsEnd(s \o <<"-">>)) = "-"
        /\ Tail(FromItsEnd(s \o <<"-">>)) = FromItsEnd(s)
    BY <2>2, SignIsFirst
  <2>4. m = -n /\ ~(n >= 0)
    BY <1>1, <1>7
  <2>5. IsOf(FromItsEnd(s \o <<"-">>), letter, n)
    BY <1>5, <2>3, <2>4, Zenon DEF IsOf
  <2>6. Len(FromItsEnd(s \o <<"-">>)) <= BUF
    BY <1>0, <1>4, <2>3
  <2> QED
    BY <2>1, <2>5, <2>6, Zenon
<1> QED
  BY <1>6, <1>7

\* A pointer is written without a sign, and has room in buf.
LEMMA PtrIsWritten ==
  ASSUME NEW n \in 0 .. MaxPtr
  PROVE  /\ IsOf(<<"0", "x">> \o FromItsEnd(printptr(n)), "p", n)
         /\ Len(<<"0", "x">> \o FromItsEnd(printptr(n))) - 2 <= BUF
<1>0. IsBase(16) /\ MaxPtr \in Nat /\ BUF \in Nat /\ n \in Nat
  BY WidthsAssumption DEF IsBase
<1>1. PICK s : s = convert(n, 16)
  OBVIOUS
<1>2. s \in Seq(Chars)
  BY <1>0, <1>1, ConvertIs
<1>3. Len(s) \in Nat /\ Len(s) <= BUF
  <2>1. Len(s) <= Len(convert(MaxPtr, 16))
    BY <1>0, <1>1, LongerIs
  <2>2. convert(MaxPtr, 16) \in Seq(Chars)
    BY <1>0, ConvertIs
  <2>3. PICK i \in Nat, j \in Nat : i = Len(s) /\ j = Len(convert(MaxPtr, 16))
    BY <1>2, <2>2
  <2>4. Len(convert(MaxPtr, 16)) <= BUF
    BY WidthsAssumption
  <2> QED
    BY <1>0, <2>1, <2>3, <2>4
<1>4. PICK r : r = FromItsEnd(s)
  OBVIOUS
<1>5. IsNumeral(r, n, 16)
  BY <1>0, <1>1, <1>4, NumeralIs
<1>6. r \in Seq(Chars) /\ Len(r) = Len(s)
  BY <1>2, <1>4, FromEndIs
<1> DEFINE A == Chars \cup {"0", "x"}
<1>7. r \in Seq(A) /\ "0" \in A /\ "x" \in A
  <2>1. Chars \subseteq A /\ "0" \in A /\ "x" \in A
    OBVIOUS
  <2> QED
    BY <1>6, <2>1, SeqMonotonic
<1> HIDE DEF A
<1>8. PICK l : l = <<"0", "x">> \o r
  OBVIOUS
<1>9. Len(l) = Len(r) + 2 /\ SubSeq(l, 1, 2) = <<"0", "x">> /\ SubSeq(l, 3, Len(l)) = r
  BY <1>7, <1>8, PrefixIsFirst
<1>10. IsOf(l, "p", n)
  BY <1>5, <1>9, Zenon DEF IsOf
<1>11. Len(l) - 2 <= BUF
  BY <1>0, <1>3, <1>6, <1>9
<1>12. l = <<"0", "x">> \o FromItsEnd(printptr(n))
  BY <1>1, <1>4, <1>8, Zenon DEF printptr
<1> QED
  BY <1>10, <1>11, <1>12, Zenon

-----------------------------------------------------------------------------
(* Formats.                                                                *)

\* A second character is behind a % that is none itself.
AreSeconds(f, S) ==
  S \subseteq DOMAIN f
  /\ \A k \in DOMAIN f : k \in S <=> (k > 1 /\ f[k - 1] = "%" /\ k - 1 \notin S)

LEMMA SecondsAre ==
  ASSUME NEW f \in Seq(STRING)
  PROVE  AreSeconds(f, SecondsOf(f))
<1> DEFINE With(g, k) == k > 1 /\ f[k - 1] = "%" /\ ~g[k - 1]
           T == BOOLEAN
           G == [g \in [Nat -> T] |-> [k \in Nat |-> With(g, k)]]
           rank == [k \in Nat |-> k]
<1>1. ASSUME NEW g \in [Nat -> T], NEW k \in Nat
      PROVE  With(g, k) \in T
  BY Zenon
<1>2. ASSUME NEW g \in [Nat -> T], NEW h \in [Nat -> T], NEW k \in Nat,
             \A j \in Nat : rank[j] < rank[k] => g[j] = h[j]
      PROVE  With(g, k) = With(h, k)
  <2>1. k > 1 => g[k - 1] = h[k - 1]
    BY <1>2
  <2>2. CASE k > 1
    BY <2>1, <2>2, Zenon
  <2>3. CASE ~(k > 1)
    BY <2>3, Zenon
  <2> QED
    BY <2>2, <2>3
<1>3. T # {} /\ rank \in [Nat -> Nat]
  OBVIOUS
<1> HIDE DEF rank, With
<1>4. G \in [[Nat -> T] -> [Nat -> T]]
  BY <1>1, Zenon
<1>5. \A g \in [Nat -> T] : G[g] = [k \in Nat |-> With(g, k)]
  BY Zenon
<1> HIDE DEF G, T
<1>6. Settles(G, Nat, T, rank)
  <2> SUFFICES ASSUME NEW g \in [Nat -> T], NEW h \in [Nat -> T], NEW k \in Nat,
                      \A j \in Nat : rank[j] < rank[k] => g[j] = h[j]
               PROVE  G[g][k] = G[h][k]
    BY Zenon DEF Settles
  <2>1. G[g][k] = With(g, k) /\ G[h][k] = With(h, k)
    BY <1>5, ZenonT(40)
  <2> QED
    BY <1>2, <2>1, Zenon
<1>7. PICK g \in [Nat -> T] : g = G[g]
  <2>1. Recursion(G, Nat, T, rank)
    BY <1>3, <1>4, <1>6, Zenon DEF Recursion
  <2>2. HasFixedPoint(G, Nat, T)
    BY <2>1, RecursionExists, Zenon
  <2> QED
    BY <2>2, Zenon DEF HasFixedPoint
<1>8. g = [k \in Nat |-> With(g, k)]
  BY <1>5, <1>7, Zenon
<1>9. PICK v : /\ v = CHOOSE second : second = [k \in Nat |-> k > 1 /\ f[k - 1] = "%" /\ ~second[k - 1]]
               /\ SecondsOf(f) = {k \in DOMAIN f : v[k]}
  BY Zenon DEF SecondsOf
<1>10. v = [k \in Nat |-> k > 1 /\ f[k - 1] = "%" /\ ~v[k - 1]]
  <2>1. g = [k \in Nat |-> k > 1 /\ f[k - 1] = "%" /\ ~g[k - 1]]
    BY <1>8, Zenon DEF With
  <2> QED
    BY <1>9, <2>1, Zenon
<1>11. ASSUME NEW k \in DOMAIN f
       PROVE  k \in SecondsOf(f) <=> (k > 1 /\ f[k - 1] = "%" /\ k - 1 \notin SecondsOf(f))
  <2>1. k \in Nat /\ (k > 1 => k - 1 \in DOMAIN f)
    OBVIOUS
  <2>2. v[k] <=> k > 1 /\ f[k - 1] = "%" /\ ~v[k - 1]
    BY <1>10, <2>1, Zenon
  <2> QED
    BY <1>9, <2>1, <2>2, Zenon
<1> QED
  BY <1>9, <1>11, Zenon DEF AreSeconds

\* Behind a character that is no second one.
LEMMA AfterFirst ==
  ASSUME NEW f \in Seq(STRING), NEW k \in 1 .. Len(f), k \notin SecondsOf(f)
  PROVE  /\ f[k] # "%" => k + 1 \notin SecondsOf(f)
         /\ f[k] = "%" /\ k < Len(f) => k + 1 \in SecondsOf(f) /\ k + 2 \notin SecondsOf(f)
<1>1. PICK S : S = SecondsOf(f)
  OBVIOUS
<1>2. PICK n \in Nat : n = Len(f) /\ DOMAIN f = 1 .. n
  OBVIOUS
<1>3. S \subseteq 1 .. n
  BY <1>1, <1>2, SecondsAre, Zenon DEF AreSeconds
<1>4. \A j \in 1 .. n : j \in S <=> (j > 1 /\ f[j - 1] = "%" /\ j - 1 \notin S)
  BY <1>1, <1>2, SecondsAre, Zenon DEF AreSeconds
<1>5. ASSUME f[k] # "%" PROVE k + 1 \notin S
  <2>1. SUFFICES ASSUME k + 1 \in S PROVE FALSE
    OBVIOUS
  <2>2. k + 1 \in 1 .. n /\ (k + 1) - 1 = k
    BY <1>3, <2>1
  <2> QED
    BY <1>4, <1>5, <2>1, <2>2
<1>6. ASSUME f[k] = "%", k < n PROVE k + 1 \in S /\ k + 2 \notin S
  <2>1. k + 1 \in 1 .. n /\ (k + 1) - 1 = k /\ k + 1 > 1
    BY <1>2, <1>6
  <2>2. k + 1 \in S
    BY <1>1, <1>4, <1>6, <2>1, Zenon
  <2>3. SUFFICES ASSUME k + 2 \in S PROVE FALSE
    BY <2>2
  <2>4. k + 2 \in 1 .. n /\ (k + 2) - 1 = k + 1
    BY <1>3, <2>3
  <2> QED
    BY <1>4, <2>2, <2>3, <2>4, Zenon
<1> QED
  BY <1>1, <1>2, <1>5, <1>6

\* The letters up to k are those up to the one before, and k if it is one.
LEMMA LettersAre ==
  ASSUME NEW f \in Seq(STRING), NEW k \in Nat
  PROVE  /\ IsFiniteSet(LettersUpTo(f, k)) /\ Cardinality(LettersUpTo(f, k)) \in Nat
         /\ LettersUpTo(f, 0) = {}
         /\ k + 1 \notin SecondsOf(f) \/ f[k + 1] \notin Letters =>
              LettersUpTo(f, k + 1) = LettersUpTo(f, k)
         /\ k + 1 \in SecondsOf(f) /\ f[k + 1] \in Letters =>
              /\ LettersUpTo(f, k + 1) = LettersUpTo(f, k) \cup {k + 1}
              /\ Cardinality(LettersUpTo(f, k + 1)) = Cardinality(LettersUpTo(f, k)) + 1
<1>1. PICK n \in Nat : n = Len(f) /\ DOMAIN f = 1 .. n
  OBVIOUS
<1>2. SecondsOf(f) \subseteq 1 .. n
  BY <1>1, SecondsAre, Zenon DEF AreSeconds
<1>3. IsFiniteSet(LettersUpTo(f, k)) /\ Cardinality(LettersUpTo(f, k)) \in Nat
  <2>1. LettersUpTo(f, k) \subseteq 1 .. n
    BY <1>2 DEF LettersUpTo
  <2>2. IsFiniteSet(1 .. n)
    BY FS_Interval
  <2>3. IsFiniteSet(LettersUpTo(f, k))
    BY <2>1, <2>2, FS_Subset
  <2> QED
    BY <2>3, FS_CardinalityType
<1>4. LettersUpTo(f, 0) = {}
  BY <1>2 DEF LettersUpTo
<1>5. ASSUME k + 1 \notin SecondsOf(f) \/ f[k + 1] \notin Letters
      PROVE  LettersUpTo(f, k + 1) = LettersUpTo(f, k)
  <2>1. \A j \in SecondsOf(f) : j <= k + 1 <=> j <= k \/ j = k + 1
    BY <1>2
  <2> QED
    BY <1>5, <2>1, Zenon DEF LettersUpTo
<1>6. ASSUME k + 1 \in SecondsOf(f), f[k + 1] \in Letters
      PROVE  /\ LettersUpTo(f, k + 1) = LettersUpTo(f, k) \cup {k + 1}
             /\ Cardinality(LettersUpTo(f, k + 1)) = Cardinality(LettersUpTo(f, k)) + 1
  <2>1. \A j \in SecondsOf(f) : j <= k + 1 <=> j <= k \/ j = k + 1
    BY <1>2
  <2>2. LettersUpTo(f, k + 1) = LettersUpTo(f, k) \cup {k + 1}
    BY <1>6, <2>1, Zenon DEF LettersUpTo
  <2>3. k + 1 \notin LettersUpTo(f, k)
    BY DEF LettersUpTo
  <2>4. Cardinality(LettersUpTo(f, k) \cup {k + 1}) = Cardinality(LettersUpTo(f, k)) + 1
    BY <1>3, <2>3, FS_AddElement
  <2> QED
    BY <2>2, <2>4
<1> QED
  BY <1>3, <1>4, <1>5, <1>6

\* A format, its NUL and what is behind them, up to a NUL that ends printf.
MemoryAt(f, m) ==
  /\ f \in Seq(STRING) /\ Len(m) \in Nat /\ Len(m) > Len(f) + 1
  /\ \A k \in 1 .. Len(f) : m[k] = f[k] /\ m[k] # NUL
  /\ m[Len(f) + 1] = NUL /\ m[Len(m)] = NUL /\ m[Len(m) - 1] # "%"

LEMMA MemoryIs ==
  ASSUME NEW f \in Seq(STRING), \A k \in DOMAIN f : f[k] # NUL, NEW b, IsMemory(b)
  PROVE  MemoryAt(f, f \o <<NUL>> \o b)
<1>0. PICK A : STRING \subseteq A /\ NUL \in A
  <2>1. STRING \subseteq STRING \cup {NUL} /\ NUL \in STRING \cup {NUL}
    BY Zenon
  <2> QED
    BY <2>1, Zenon
<1>1. b \in Seq(A) /\ f \in Seq(A) /\ b # <<>> /\ b[Len(b)] = NUL /\ (Len(b) > 1 => b[Len(b) - 1] # "%")
  <2>1. b \in Seq(STRING) /\ b # <<>> /\ b[Len(b)] = NUL /\ (Len(b) > 1 => b[Len(b) - 1] # "%")
    BY Zenon DEF IsMemory
  <2>2. b \in Seq(A) /\ f \in Seq(A)
    BY <1>0, <2>1, SeqMonotonic
  <2> QED
    BY <2>1, <2>2
<1>2. PICK n \in Nat, l \in Nat : n = Len(f) /\ l = Len(b) /\ l > 0
  BY <1>1, EmptySeq
<1>3. PICK h : h = <<NUL>>
  OBVIOUS
<1>4. h \in Seq(A) /\ Len(h) = 1 /\ h[1] = NUL
  BY <1>0, <1>3
<1>5. PICK g : g = f \o h
  OBVIOUS
<1>6. /\ g \in Seq(A) /\ Len(g) = n + 1
      /\ \A k \in 1 .. n + 1 : g[k] = IF k <= n THEN f[k] ELSE h[k - n]
  <2>1. /\ f \o h \in Seq(A) /\ Len(f \o h) = Len(f) + Len(h)
        /\ \A k \in 1 .. Len(f) + Len(h) : (f \o h)[k] = IF k <= Len(f) THEN f[k] ELSE h[k - Len(f)]
    BY <1>1, <1>4, ConcatProperties
  <2> QED
    BY <1>2, <1>4, <1>5, <2>1, Zenon
<1>7. PICK m : m = g \o b
  OBVIOUS
<1>8. /\ Len(m) = (n + 1) + l
      /\ \A k \in 1 .. (n + 1) + l : m[k] = IF k <= n + 1 THEN g[k] ELSE b[k - (n + 1)]
  <2>1. /\ Len(g \o b) = Len(g) + Len(b)
        /\ \A k \in 1 .. Len(g) + Len(b) : (g \o b)[k] = IF k <= Len(g) THEN g[k] ELSE b[k - Len(g)]
    BY <1>1, <1>6, ConcatProperties
  <2> QED
    BY <1>2, <1>6, <1>7, <2>1, Zenon
<1>9. \A k \in 1 .. n : m[k] = f[k] /\ m[k] # NUL
  <2> SUFFICES ASSUME NEW k \in 1 .. n PROVE m[k] = f[k] /\ m[k] # NUL
    OBVIOUS
  <2>1. k \in 1 .. (n + 1) + l /\ k \in 1 .. n + 1 /\ k <= n + 1 /\ k <= n /\ k \in DOMAIN f
    BY <1>2
  <2> QED
    BY <1>6, <1>8, <2>1, Zenon
<1>10. m[n + 1] = NUL
  <2>1. n + 1 \in 1 .. (n + 1) + l /\ n + 1 \in 1 .. n + 1 /\ n + 1 <= n + 1 /\ ~(n + 1 <= n)
        /\ (n + 1) - n = 1
    OBVIOUS
  <2> QED
    BY <1>4, <1>6, <1>8, <2>1, Zenon
<1>11. m[(n + 1) + l] = NUL
  <2>1. (n + 1) + l \in 1 .. (n + 1) + l /\ ~((n + 1) + l <= n + 1) /\ ((n + 1) + l) - (n + 1) = l
    BY <1>2
  <2> QED
    BY <1>1, <1>2, <1>8, <2>1, Zenon
<1>12. m[((n + 1) + l) - 1] # "%"
  <2>1. CASE l = 1
    <3>1. ((n + 1) + l) - 1 = n + 1
      BY <2>1
    <3> QED
      BY <1>10, <3>1 DEF NUL
  <2>2. CASE l > 1
    <3>1. /\ ((n + 1) + l) - 1 \in 1 .. (n + 1) + l /\ ~(((n + 1) + l) - 1 <= n + 1)
          /\ (((n + 1) + l) - 1) - (n + 1) = l - 1
      BY <2>2
    <3> QED
      BY <1>1, <1>2, <1>8, <2>2, <3>1, Zenon
  <2> QED
    BY <1>2, <2>1, <2>2
<1>13. (n + 1) + l \in Nat /\ (n + 1) + l > n + 1
  BY <1>2
<1>14. m = f \o <<NUL>> \o b
  BY <1>3, <1>5, <1>7, Zenon
<1> QED
  BY <1>2, <1>8, <1>9, <1>10, <1>11, <1>12, <1>13, <1>14, Zenon DEF MemoryAt

-----------------------------------------------------------------------------
(* printf.                                                                 *)

\* A number that was written at a place of memory m has room in buf, and is the
\* argument of its conversion if it is one of the format.
EntryFits(e, m) ==
  (IF m[e.at] # "%" THEN 0 ELSE IF m[e.at + 1] = "p" THEN Len(e.chars) - 2 ELSE Len(e.chars)) <= BUF

EntryIsRight(e, f, a) ==
  e.at < Len(f) /\ f[e.at] = "%" /\ (\A j \in LettersUpTo(f, e.at + 1) : f[j] \in Conversions) =>
    IsOf(e.chars, f[e.at + 1], a[Cardinality(LettersUpTo(f, e.at + 1))])

LEMMA AnEntry ==
  ASSUME NEW q, NEW w
  PROVE  \E e : e = [at |-> q, chars |-> w] /\ e.at = q /\ e.chars = w
<1>1. PICK e : e = [at |-> q, chars |-> w]
  OBVIOUS
<1>2. e.at = q /\ e.chars = w
  BY <1>1
<1> QED
  BY <1>1, <1>2, Zenon

LEMMA RightAt ==
  ASSUME NEW e, NEW f, NEW a, NEW q, e.at = q,
         q < Len(f) /\ f[q] = "%" /\ (\A j \in LettersUpTo(f, q + 1) : f[j] \in Conversions) =>
           IsOf(e.chars, f[q + 1], a[Cardinality(LettersUpTo(f, q + 1))])
  PROVE  EntryIsRight(e, f, a)
BY DEF EntryIsRight

\* As many arguments are taken as there are letters, if all of these take one.
AreTaken(n, f, k) ==
  (\A j \in LettersUpTo(f, k) : f[j] \in Conversions) => n = Cardinality(LettersUpTo(f, k))

\* In its format printf is never at a second character, and the arguments that it
\* took are those of the letters before.
PrintfInv ==
  /\ \E call \in Calls : fmt = call.fmt /\ args = call.args
  /\ behind \in Behind
  /\ taken \in 0 .. Len(args) /\ p \in 1 .. Len(Memory) /\ printfPc \in {"loop", "done"}
  /\ p <= Len(fmt) + 1 => p \notin SecondsOf(fmt) /\ AreTaken(taken, fmt, p - 1)
  /\ StaysInFormat
  /\ \E S : written \in Seq(S)
  /\ \A k \in DOMAIN written : EntryFits(written[k], Memory) /\ EntryIsRight(written[k], fmt, args)

LEMMA CallIs ==
  ASSUME PrintfInv
  PROVE  /\ fmt \in Seq(STRING) /\ args \in Seq(Int \cup {Other}) /\ MemoryAt(fmt, Memory)
         /\ \A k \in SecondsOf(fmt) :
              fmt[k] \in Letters =>
                /\ Cardinality(LettersUpTo(fmt, k)) \in DOMAIN args
                /\ args[Cardinality(LettersUpTo(fmt, k))] \in ArgumentsOf(fmt[k])
<1>1. PICK call \in Calls : fmt = call.fmt /\ args = call.args
  BY DEF PrintfInv
<1>2. IsCall(call) /\ IsMemory(behind)
  BY FormatsAssumption DEF PrintfInv
<1>3. fmt \in Seq(STRING) /\ args \in Seq(Int \cup {Other}) /\ \A k \in DOMAIN fmt : fmt[k] # NUL
  BY <1>1, <1>2, Zenon DEF IsCall
<1>4. MemoryAt(fmt, Memory)
  BY <1>2, <1>3, MemoryIs DEF Memory
<1>5. ASSUME NEW k \in SecondsOf(fmt), fmt[k] \in Letters
      PROVE  /\ Cardinality(LettersUpTo(fmt, k)) \in DOMAIN args
             /\ args[Cardinality(LettersUpTo(fmt, k))] \in ArgumentsOf(fmt[k])
  BY <1>1, <1>2, <1>5, Zenon DEF IsCall
<1> QED
  BY <1>3, <1>4, <1>5

\* What is appended to a sequence is its last element.
LEMMA AppendIs ==
  ASSUME NEW s, \E S : s \in Seq(S), NEW e
  PROVE  /\ \E S : Append(s, e) \in Seq(S)
         /\ \A k \in DOMAIN Append(s, e) :
              Append(s, e)[k] = e \/ (k \in DOMAIN s /\ Append(s, e)[k] = s[k])
<1>1. PICK S : s \in Seq(S)
  OBVIOUS
<1>2. PICK T : T = S \cup {e}
  OBVIOUS
<1>3. s \in Seq(T) /\ e \in T
  BY <1>1, <1>2, SeqMonotonic
<1>4. Append(s, e) \in Seq(T)
  BY <1>3
<1>5. \A k \in DOMAIN Append(s, e) :
        Append(s, e)[k] = e \/ (k \in DOMAIN s /\ Append(s, e)[k] = s[k])
  BY <1>3
<1> QED
  BY <1>4, <1>5

\* What a step may leave to be shown: where it goes, and the entry that it writes.
Goes(f, q, n) ==
  q <= Len(f) + 1 => q \notin SecondsOf(f) /\ AreTaken(n, f, q - 1)

LeavesAt(f, q) ==
  q > Len(f) + 1 => f # <<>> /\ f[Len(f)] = "%" /\ Len(f) \notin SecondsOf(f)

\* A step over a character that is no %, and over a % and its second character.
LEMMA OverOne ==
  ASSUME NEW f, NEW m, MemoryAt(f, m), NEW q \in 1 .. Len(m), NEW n, Goes(f, q, n), LeavesAt(f, q),
         m[q] \notin {"%", NUL}
  PROVE  q + 1 \in 1 .. Len(m) /\ Goes(f, q + 1, n) /\ LeavesAt(f, q + 1)
<1>1. /\ f \in Seq(STRING) /\ Len(m) \in Nat /\ Len(m) > Len(f) + 1
      /\ \A k \in 1 .. Len(f) : m[k] = f[k] /\ m[k] # NUL
      /\ m[Len(f) + 1] = NUL /\ m[Len(m)] = NUL
  BY Zenon DEF MemoryAt
<1>2. PICK l \in Nat, z \in Nat : l = Len(f) /\ z = Len(m)
  BY <1>1
<1>3. q # l + 1 /\ q # z
  BY <1>1, <1>2
<1>4. q + 1 \in 1 .. z
  BY <1>2, <1>3
<1>5. CASE q <= l
  <2>1. q \in 1 .. l /\ q <= l + 1 /\ q + 1 <= l + 1 /\ (q + 1) - 1 = q
        /\ q - 1 \in Nat /\ (q - 1) + 1 = q
    BY <1>5
  <2>2. f[q] # "%"
    BY <1>1, <1>2, <2>1
  <2>3. q \notin SecondsOf(f) /\ AreTaken(n, f, q - 1)
    BY <1>2, <2>1, Zenon DEF Goes
  <2>4. q + 1 \notin SecondsOf(f)
    BY <1>1, <1>2, <2>1, <2>2, <2>3, AfterFirst
  <2>5. LettersUpTo(f, q) = LettersUpTo(f, q - 1)
    <3>1. PICK j \in Nat : j = q - 1 /\ j + 1 = q
      BY <2>1
    <3>2. LettersUpTo(f, j + 1) = LettersUpTo(f, j)
      BY <1>1, <2>3, <3>1, LettersAre
    <3> QED
      BY <3>1, <3>2, Zenon
  <2>6. AreTaken(n, f, q)
    BY <2>3, <2>5, Zenon DEF AreTaken
  <2>7. Goes(f, q + 1, n)
    BY <1>2, <2>1, <2>4, <2>6, Zenon DEF Goes
  <2>8. ~(q + 1 > l + 1)
    BY <2>1
  <2>9. LeavesAt(f, q + 1)
    BY <1>2, <2>8, Zenon DEF LeavesAt
  <2> QED
    BY <1>2, <1>4, <2>7, <2>9
<1>6. CASE q > l
  <2>1. q > l + 1 /\ q + 1 > l + 1 /\ ~(q + 1 <= l + 1)
    BY <1>2, <1>3, <1>6
  <2>2. Goes(f, q + 1, n)
    BY <1>2, <2>1, Zenon DEF Goes
  <2>3. LeavesAt(f, q + 1)
    BY <1>2, <2>1, Zenon DEF LeavesAt
  <2> QED
    BY <1>2, <1>4, <2>2, <2>3
<1> QED
  BY <1>2, <1>5, <1>6

\* The arguments that are taken behind a conversion or what is none.
Takes(f, m, q, n, i) ==
  IF m[q + 1] \in Conversions THEN AreTaken(n, f, q - 1) /\ q < Len(f) => AreTaken(i, f, q + 1)
                              ELSE i = n

LEMMA OverTwo ==
  ASSUME NEW f, NEW m, MemoryAt(f, m), NEW q \in 1 .. Len(m), NEW n, Goes(f, q, n), LeavesAt(f, q),
         m[q] = "%", NEW i, Takes(f, m, q, n, i)
  PROVE  q + 2 \in 1 .. Len(m) /\ Goes(f, q + 2, i) /\ LeavesAt(f, q + 2)
<1>1. /\ f \in Seq(STRING) /\ Len(m) \in Nat /\ Len(m) > Len(f) + 1
      /\ \A k \in 1 .. Len(f) : m[k] = f[k] /\ m[k] # NUL
      /\ m[Len(f) + 1] = NUL /\ m[Len(m)] = NUL /\ m[Len(m) - 1] # "%"
  BY Zenon DEF MemoryAt
<1>2. PICK l \in Nat, z \in Nat : l = Len(f) /\ z = Len(m)
  BY <1>1
<1>3. q # l + 1 /\ q # z /\ q # z - 1
  BY <1>1, <1>2 DEF NUL
<1>4. q + 2 \in 1 .. z
  BY <1>2, <1>3
<1>5. CASE q < l
  <2>1. q \in 1 .. l /\ q <= l + 1 /\ q + 2 <= l + 1 /\ (q + 2) - 1 = q + 1
        /\ q - 1 \in Nat /\ (q - 1) + 1 = q /\ q + 1 \in 1 .. l
    BY <1>5
  <2>2. f[q] = "%" /\ m[q + 1] = f[q + 1]
    BY <1>1, <1>2, <2>1
  <2>3. q \notin SecondsOf(f) /\ AreTaken(n, f, q - 1)
    BY <1>2, <2>1, Zenon DEF Goes
  <2>4. q + 1 \in SecondsOf(f) /\ q + 2 \notin SecondsOf(f)
    BY <1>1, <1>2, <1>5, <2>1, <2>2, <2>3, AfterFirst
  <2>5. LettersUpTo(f, q) = LettersUpTo(f, q - 1)
    <3>1. PICK j \in Nat : j = q - 1 /\ j + 1 = q
      BY <2>1
    <3>2. LettersUpTo(f, j + 1) = LettersUpTo(f, j)
      BY <1>1, <2>3, <3>1, LettersAre
    <3> QED
      BY <3>1, <3>2, Zenon
  <2>6. AreTaken(i, f, q + 1)
    <3>1. CASE m[q + 1] \in Conversions
      BY <1>2, <1>5, <2>3, <3>1, Zenon DEF Takes
    <3>2. CASE m[q + 1] \notin Conversions
      <4>1. i = n
        BY <3>2, Zenon DEF Takes
      <4>2. q \in Nat
        BY <2>1
      <4>3. CASE f[q + 1] \in Letters
        <5>1. LettersUpTo(f, q + 1) = LettersUpTo(f, q) \cup {q + 1}
          BY <1>1, <2>4, <4>2, <4>3, LettersAre
        <5>2. q + 1 \in LettersUpTo(f, q + 1)
          BY <5>1
        <5> QED
          BY <2>2, <3>2, <5>2, Zenon DEF AreTaken
      <4>4. CASE f[q + 1] \notin Letters
        <5>1. LettersUpTo(f, q + 1) = LettersUpTo(f, q)
          BY <1>1, <4>2, <4>4, LettersAre
        <5> QED
          BY <2>3, <2>5, <4>1, <5>1, Zenon DEF AreTaken
      <4> QED
        BY <4>3, <4>4
    <3> QED
      BY <3>1, <3>2
  <2>7. Goes(f, q + 2, i)
    BY <1>2, <2>1, <2>4, <2>6, Zenon DEF Goes
  <2>8. ~(q + 2 > l + 1)
    BY <2>1
  <2>9. LeavesAt(f, q + 2)
    BY <1>2, <2>8, Zenon DEF LeavesAt
  <2> QED
    BY <1>2, <1>4, <2>7, <2>9
<1>6. CASE q = l
  <2>1. ~(q + 2 <= l + 1) /\ q \in 1 .. l /\ q <= l + 1
    BY <1>2, <1>6
  <2>2. f[l] = "%"
    BY <1>1, <1>2, <1>6, <2>1
  <2>3. l \notin SecondsOf(f)
    BY <1>2, <1>6, <2>1, Zenon DEF Goes
  <2>4. f # <<>>
    BY <1>2, <1>6
  <2> QED
    BY <1>2, <1>4, <2>1, <2>2, <2>3, <2>4 DEF Goes, LeavesAt
<1>7. CASE q > l
  <2>1. q > l + 1 /\ q + 2 > l + 1 /\ ~(q + 2 <= l + 1)
    BY <1>2, <1>3, <1>7
  <2>2. Goes(f, q + 2, i)
    BY <1>2, <2>1, Zenon DEF Goes
  <2>3. LeavesAt(f, q + 2)
    BY <1>2, <2>1, Zenon DEF LeavesAt
  <2> QED
    BY <1>2, <1>4, <2>2, <2>3
<1> QED
  BY <1>2, <1>5, <1>6, <1>7

LEMMA InvGoes == PrintfInv => Goes(fmt, p, taken) /\ LeavesAt(fmt, p)
BY Zenon DEF PrintfInv, StaysInFormat, Goes, LeavesAt

\* What a step has to come to.
LEMMA Advances ==
  ASSUME PrintfInv, fmt' = fmt, behind' = behind, args' = args,
         p' \in 1 .. Len(Memory), taken' \in 0 .. Len(args), printfPc' \in {"loop", "done"},
         Goes(fmt, p', taken'), LeavesAt(fmt, p'),
         \/ written' = written
         \/ \E e : written' = Append(written, e) /\ EntryFits(e, Memory) /\ EntryIsRight(e, fmt, args)
  PROVE  PrintfInv'
<1>1. Memory' = Memory
  BY Zenon DEF Memory
<1>2. StaysInFormat'
  BY Zenon DEF StaysInFormat, LeavesAt
<1>3. p' <= Len(fmt') + 1 => p' \notin SecondsOf(fmt') /\ AreTaken(taken', fmt', p' - 1)
  BY Zenon DEF Goes
<1>4. \E S : written \in Seq(S)
  BY Zenon DEF PrintfInv
<1>5. \A k \in DOMAIN written : EntryFits(written[k], Memory) /\ EntryIsRight(written[k], fmt, args)
  BY Zenon DEF PrintfInv
<1>6. /\ \E S : written' \in Seq(S)
      /\ \A k \in DOMAIN written' : EntryFits(written'[k], Memory) /\ EntryIsRight(written'[k], fmt, args)
  <2>1. CASE written' = written
    BY <1>4, <1>5, <2>1, Zenon
  <2>2. CASE \E e : written' = Append(written, e) /\ EntryFits(e, Memory) /\ EntryIsRight(e, fmt, args)
    <3>1. PICK e : written' = Append(written, e) /\ EntryFits(e, Memory) /\ EntryIsRight(e, fmt, args)
      BY <2>2, Zenon
    <3>2. PICK w : w = Append(written, e)
      OBVIOUS
    <3>3. /\ \E S : w \in Seq(S)
          /\ \A k \in DOMAIN w : w[k] = e \/ (k \in DOMAIN written /\ w[k] = written[k])
      BY <1>4, <3>2, AppendIs, Zenon
    <3>4. written' = w
      BY <3>1, <3>2, Zenon
    <3>5. \A k \in DOMAIN w : EntryFits(w[k], Memory) /\ EntryIsRight(w[k], fmt, args)
      BY <1>5, <3>1, <3>3, Zenon
    <3> QED
      BY <3>3, <3>4, <3>5, Zenon
  <2> QED
    BY <2>1, <2>2, Zenon
<1>7. (\E call \in Calls : fmt' = call.fmt /\ args' = call.args) /\ behind' \in Behind
  BY Zenon DEF PrintfInv
<1> QED
  BY <1>1, <1>2, <1>3, <1>6, <1>7, Zenon DEF PrintfInv

\* An argument is cut to a type, and is itself if it is of it.
LEMMA CutIs ==
  ASSUME NEW a \in Int
  PROVE  /\ ((a + MaxInt + 1) % (2 * MaxInt + 2)) - MaxInt - 1 \in -MaxInt - 1 .. MaxInt
         /\ a \in -MaxInt - 1 .. MaxInt =>
              ((a + MaxInt + 1) % (2 * MaxInt + 2)) - MaxInt - 1 = a
         /\ a % (MaxPtr + 1) \in 0 .. MaxPtr
         /\ a \in 0 .. MaxPtr => a % (MaxPtr + 1) = a
<1>1. MaxInt \in Nat /\ MaxPtr \in Nat
  BY WidthsAssumption
<1>2. ((a + MaxInt + 1) % (2 * MaxInt + 2)) - MaxInt - 1 \in -MaxInt - 1 .. MaxInt
  <2>1. PICK w \in Nat, x \in Int : w = 2 * MaxInt + 2 /\ w > 0 /\ x = a + MaxInt + 1
    BY <1>1
  <2>2. x % w \in 0 .. w - 1
    BY <2>1
  <2>3. PICK r \in Nat : r = x % w /\ r <= w - 1
    BY <2>2
  <2>4. r - MaxInt - 1 \in -MaxInt - 1 .. MaxInt
    BY <1>1, <2>1, <2>3
  <2> QED
    BY <2>1, <2>3, <2>4, Zenon
<1>3. a \in -MaxInt - 1 .. MaxInt => ((a + MaxInt + 1) % (2 * MaxInt + 2)) - MaxInt - 1 = a
  BY <1>1
<1>4. a % (MaxPtr + 1) \in 0 .. MaxPtr
  <2>1. PICK w \in Nat : w = MaxPtr + 1 /\ w > 0 /\ w - 1 = MaxPtr
    BY <1>1
  <2>2. a % w \in 0 .. w - 1
    BY <2>1
  <2> QED
    BY <2>1, <2>2, Zenon
<1>5. a \in 0 .. MaxPtr => a % (MaxPtr + 1) = a
  BY <1>1
<1> QED
  BY <1>2, <1>3, <1>4, <1>5, Zenon

LEMMA NextArgument ==
  ASSUME PrintfInv
  PROVE  /\ \A n \in NextInt : n \in -MaxInt - 1 .. MaxInt
         /\ \A n \in NextPtr : n \in 0 .. MaxPtr
         /\ taken < Len(args) /\ args[taken + 1] \in IntArgs => NextInt = {args[taken + 1]}
         /\ taken < Len(args) /\ args[taken + 1] \in PtrArgs => NextPtr = {args[taken + 1]}
<1>1. /\ IntArgs \subseteq -MaxInt - 1 .. MaxInt /\ PtrArgs \subseteq 0 .. MaxPtr /\ Other \notin Int
  BY WidthsAssumption
<1>2. args \in Seq(Int \cup {Other}) /\ taken \in 0 .. Len(args)
  BY CallIs DEF PrintfInv
<1>3. CASE taken = Len(args) \/ args[taken + 1] = Other
  <2>1. NextInt = IntArgs /\ NextPtr = PtrArgs
    BY <1>3, Zenon DEF NextInt, NextPtr
  <2>2. ~(taken < Len(args) /\ args[taken + 1] # Other)
    BY <1>2, <1>3
  <2>3. \A a \in IntArgs \cup PtrArgs : a # Other
    BY <1>1
  <2> QED
    BY <1>1, <2>1, <2>2, <2>3
<1>4. CASE ~(taken = Len(args) \/ args[taken + 1] = Other)
  <2>1. taken + 1 \in 1 .. Len(args)
    BY <1>2, <1>4
  <2>2. PICK a \in Int : a = args[taken + 1]
    BY <1>2, <1>4, <2>1
  <2>3. /\ NextInt = {((a + MaxInt + 1) % (2 * MaxInt + 2)) - MaxInt - 1}
        /\ NextPtr = {a % (MaxPtr + 1)}
    BY <1>4, <2>2, Zenon DEF NextInt, NextPtr
  <2>4. /\ a \in IntArgs => a \in -MaxInt - 1 .. MaxInt
        /\ a \in PtrArgs => a \in 0 .. MaxPtr
    BY <1>1
  <2>5. PICK x, y : /\ x = ((a + MaxInt + 1) % (2 * MaxInt + 2)) - MaxInt - 1
                    /\ y = a % (MaxPtr + 1)
    OBVIOUS
  <2>6. NextInt = {x} /\ NextPtr = {y}
    BY <2>3, <2>5, Zenon
  <2>7. /\ x \in -MaxInt - 1 .. MaxInt /\ (a \in -MaxInt - 1 .. MaxInt => x = a)
        /\ y \in 0 .. MaxPtr /\ (a \in 0 .. MaxPtr => y = a)
    BY <2>5, CutIs, Zenon
  <2> QED
    BY <2>2, <2>4, <2>6, <2>7, Zenon
<1> QED
  BY <1>3, <1>4

\* Behind a conversion of the format there are its arguments, and its own is the one
\* that is next if all of the letters before took theirs.
LEMMA OwnIsNext ==
  ASSUME PrintfInv, p < Len(fmt), Memory[p] = "%", Memory[p + 1] \in Conversions,
         NEW c, c = Cardinality(LettersUpTo(fmt, p + 1))
  PROVE  /\ fmt[p] = "%" /\ fmt[p + 1] = Memory[p + 1]
         /\ c \in 1 .. Len(args) /\ args[c] \in ArgumentsOf(fmt[p + 1])
         /\ (\A j \in LettersUpTo(fmt, p + 1) : fmt[j] \in Conversions) => taken + 1 = c
<1>1. /\ fmt \in Seq(STRING) /\ MemoryAt(fmt, Memory) /\ args \in Seq(Int \cup {Other})
  BY CallIs
<1>2. p \in 1 .. Len(Memory) /\ taken \in 0 .. Len(args)
  BY DEF PrintfInv
<1>3. PICK l \in Nat, z \in Nat : l = Len(fmt) /\ z = Len(Memory)
  BY <1>1 DEF MemoryAt
<1>4. /\ p \in 1 .. l /\ p + 1 \in 1 .. l /\ p \in Nat /\ p <= l + 1
      /\ p - 1 \in Nat /\ (p - 1) + 1 = p
  BY <1>2, <1>3
<1>5. fmt[p] = "%" /\ fmt[p + 1] = Memory[p + 1]
  BY <1>1, <1>3, <1>4, Zenon DEF MemoryAt
<1>6. p \notin SecondsOf(fmt) /\ AreTaken(taken, fmt, p - 1)
  BY <1>3, <1>4, Zenon DEF PrintfInv
<1>7. p + 1 \in SecondsOf(fmt)
  BY <1>1, <1>3, <1>4, <1>5, <1>6, AfterFirst
<1>8. fmt[p + 1] \in Letters
  BY <1>5 DEF Letters, Conversions
<1>9. c \in DOMAIN args /\ args[c] \in ArgumentsOf(fmt[p + 1])
  BY <1>7, <1>8, CallIs, Zenon
<1>10. c \in 1 .. Len(args)
  BY <1>1, <1>9
<1>11. LettersUpTo(fmt, p) = LettersUpTo(fmt, p - 1)
  <2>1. PICK j \in Nat : j = p - 1 /\ j + 1 = p
    BY <1>4
  <2>2. LettersUpTo(fmt, j + 1) = LettersUpTo(fmt, j)
    BY <1>1, <1>6, <2>1, LettersAre
  <2> QED
    BY <2>1, <2>2, Zenon
<1>12. /\ LettersUpTo(fmt, p + 1) = LettersUpTo(fmt, p) \cup {p + 1}
       /\ c = Cardinality(LettersUpTo(fmt, p)) + 1
  BY <1>1, <1>4, <1>7, <1>8, LettersAre
<1>13. ASSUME \A j \in LettersUpTo(fmt, p + 1) : fmt[j] \in Conversions
       PROVE  taken + 1 = c
  <2>1. \A j \in LettersUpTo(fmt, p - 1) : fmt[j] \in Conversions
    BY <1>11, <1>12, <1>13, Zenon
  <2>2. taken = Cardinality(LettersUpTo(fmt, p))
    BY <1>6, <1>11, <2>1, Zenon DEF AreTaken
  <2> QED
    BY <1>12, <2>2, Zenon
<1> QED
  BY <1>5, <1>9, <1>10, <1>13, Zenon

LEMMA PrintfKept == PrintfSafety => []PrintfInv
<1>1. PrintfInit => PrintfInv
  <2> SUFFICES ASSUME PrintfInit PROVE PrintfInv
    OBVIOUS
  <2>1. PICK call \in Calls, memory \in Behind : Begins(call, memory)
    BY DEF PrintfInit
  <2>2. /\ fmt = call.fmt /\ args = call.args /\ behind = memory
        /\ taken = 0 /\ p = 1 /\ written = <<>> /\ printfPc = "loop"
    BY <2>1, Zenon DEF Begins
  <2>3. IsCall(call) /\ IsMemory(memory)
    BY FormatsAssumption
  <2>4. /\ fmt \in Seq(STRING) /\ args \in Seq(Int \cup {Other}) /\ \A k \in DOMAIN fmt : fmt[k] # NUL
    BY <2>2, <2>3, Zenon DEF IsCall
  <2>5. MemoryAt(fmt, Memory)
    BY <2>2, <2>3, <2>4, MemoryIs DEF Memory
  <2>6. PICK l \in Nat, z \in Nat : l = Len(fmt) /\ z = Len(Memory) /\ z > l + 1
    BY <2>4, <2>5 DEF MemoryAt
  <2>7. p \in 1 .. Len(Memory) /\ taken \in 0 .. Len(args)
    <3>1. Len(args) \in Nat
      BY <2>4
    <3> QED
      BY <2>2, <2>6, <3>1
  <2>8. p \notin SecondsOf(fmt)
    <3>1. AreSeconds(fmt, SecondsOf(fmt))
      BY <2>4, SecondsAre
    <3>2. ~(1 > 1)
      OBVIOUS
    <3> QED
      BY <2>2, <3>1, <3>2, Zenon DEF AreSeconds
  <2>9. AreTaken(taken, fmt, p - 1)
    <3>1. LettersUpTo(fmt, 0) = {}
      BY <2>4, LettersAre
    <3>2. Cardinality({}) = 0
      BY FS_EmptySet
    <3>3. p - 1 = 0
      BY <2>2
    <3> QED
      BY <2>2, <3>1, <3>2, <3>3, Zenon DEF AreTaken
  <2>10. StaysInFormat
    BY <2>2, <2>6 DEF StaysInFormat
  <2>11. (\E S : written \in Seq(S)) /\ DOMAIN written = {}
    <3>1. written \in Seq({}) /\ DOMAIN written = {}
      BY <2>2
    <3> QED
      BY <3>1, Zenon
  <2> QED
    BY <2>2, <2>7, <2>8, <2>9, <2>10, <2>11 DEF PrintfInv
<1>2. PrintfInv /\ [PrintfNext]_printfVars => PrintfInv'
  <2> SUFFICES ASSUME PrintfInv, [PrintfNext]_printfVars PROVE PrintfInv'
    OBVIOUS
  <2>0. /\ MemoryAt(fmt, Memory) /\ Goes(fmt, p, taken) /\ LeavesAt(fmt, p)
        /\ p \in 1 .. Len(Memory) /\ taken \in 0 .. Len(args) /\ Len(args) \in Nat
        /\ printfPc \in {"loop", "done"}
    BY CallIs, InvGoes DEF PrintfInv
  <2>1. CASE Plain
    <3>1. /\ Memory[p] \notin {"%", NUL} /\ p' = p + 1 /\ taken' = taken
          /\ fmt' = fmt /\ behind' = behind /\ args' = args /\ printfPc' = printfPc
          /\ written' = Append(written, [at |-> p, chars |-> <<Memory[p]>>])
      BY <2>1, Zenon DEF Plain, Writes
    <3>2. p' \in 1 .. Len(Memory) /\ Goes(fmt, p', taken') /\ LeavesAt(fmt, p')
      BY <2>0, <3>1, OverOne
    <3>3. PICK e : e = [at |-> p, chars |-> <<Memory[p]>>] /\ e.at = p
      BY AnEntry, ZenonT(40)
    <3>4. Memory[e.at] # "%"
      BY <3>1, <3>3
    <3>5. EntryFits(e, Memory)
      <4>1. 0 <= BUF
        BY WidthsAssumption
      <4> QED
        BY <3>4, <4>1, Zenon DEF EntryFits
    <3>6. EntryIsRight(e, fmt, args)
      <4>1. e.at < Len(fmt) => Memory[e.at] = fmt[e.at]
        <5> SUFFICES ASSUME e.at < Len(fmt) PROVE Memory[e.at] = fmt[e.at]
          OBVIOUS
        <5>1. p < Len(fmt) /\ e.at = p
          BY <3>3
        <5>2. Len(fmt) \in Nat
          BY <2>0 DEF MemoryAt
        <5>3. p \in 1 .. Len(fmt)
          BY <2>0, <5>1, <5>2
        <5> QED
          BY <2>0, <5>1, <5>3, Zenon DEF MemoryAt
      <4> QED
        BY <3>4, <4>1, Zenon DEF EntryIsRight
    <3>7. \E d : written' = Append(written, d) /\ EntryFits(d, Memory) /\ EntryIsRight(d, fmt, args)
      BY <3>1, <3>3, <3>5, <3>6, Zenon
    <3> QED
      BY <2>0, <3>1, <3>2, <3>7, Advances
  <2>2. CASE Convert
    <3>1. /\ Memory[p] = "%" /\ Memory[p + 1] \in Conversions /\ p' = p + 2
          /\ taken' = (IF taken < Len(args) THEN taken + 1 ELSE taken)
          /\ fmt' = fmt /\ behind' = behind /\ args' = args /\ printfPc' = printfPc
      BY <2>2, Zenon DEF Convert
    <3> DEFINE c == Cardinality(LettersUpTo(fmt, p + 1))
    <3> HIDE DEF c
    <3>2. ASSUME p < Len(fmt)
          PROVE  /\ fmt[p] = "%" /\ fmt[p + 1] = Memory[p + 1]
                 /\ c \in 1 .. Len(args) /\ args[c] \in ArgumentsOf(fmt[p + 1])
                 /\ (\A j \in LettersUpTo(fmt, p + 1) : fmt[j] \in Conversions) => taken + 1 = c
      BY <3>1, <3>2, OwnIsNext, Zenon DEF c
    <3>3. Takes(fmt, Memory, p, taken, taken')
      <4>1. SUFFICES ASSUME p < Len(fmt), \A j \in LettersUpTo(fmt, p + 1) : fmt[j] \in Conversions
                     PROVE  taken' = c
        BY <3>1, Zenon DEF Takes, AreTaken, c
      <4>2. taken + 1 = c /\ c \in 1 .. Len(args)
        BY <3>2, <4>1
      <4> QED
        BY <2>0, <3>1, <4>2
    <3>4. p' \in 1 .. Len(Memory) /\ Goes(fmt, p', taken') /\ LeavesAt(fmt, p')
      BY <2>0, <3>1, <3>3, OverTwo
    <3>5. taken' \in 0 .. Len(args)
      BY <2>0, <3>1
    <3>6. ASSUME p < Len(fmt), \A j \in LettersUpTo(fmt, p + 1) : fmt[j] \in Conversions
          PROVE  /\ Memory[p + 1] # "p" => NextInt = {args[c]}
                 /\ Memory[p + 1] = "p" => NextPtr = {args[c]}
      <4>1. /\ taken + 1 = c /\ c \in 1 .. Len(args) /\ args[c] \in ArgumentsOf(Memory[p + 1])
        BY <3>2, <3>6, Zenon
      <4>2. taken < Len(args)
        BY <2>0, <4>1
      <4>3. Memory[p + 1] # "p" => args[c] \in IntArgs
        <5>1. Memory[p + 1] # "p" => Memory[p + 1] \in {"d", "x"}
          BY <3>1 DEF Conversions
        <5> QED
          BY <4>1, <5>1, Zenon DEF ArgumentsOf
      <4>4. Memory[p + 1] = "p" => args[c] \in PtrArgs
        <5>1. Memory[p + 1] = "p" => Memory[p + 1] \notin {"d", "x"}
          OBVIOUS
        <5> QED
          BY <4>1, <5>1, Zenon DEF ArgumentsOf
      <4> QED
        BY <4>1, <4>2, <4>3, <4>4, NextArgument, Zenon
    <3>7. CASE Memory[p + 1] # "p"
      <4>1. PICK b : b = IF Memory[p + 1] = "x" THEN 16 ELSE 10
        OBVIOUS
      <4>2. PICK n \in NextInt : written' = Append(written, [at |-> p, chars |-> FromItsEnd(printint(n, b))])
        BY <2>2, <3>7, <4>1, Zenon DEF Convert, Writes
      <4>3. PICK e : e = [at |-> p, chars |-> FromItsEnd(printint(n, b))]
                     /\ e.at = p /\ e.chars = FromItsEnd(printint(n, b))
        BY AnEntry, ZenonT(40)
      <4>4. IsOf(e.chars, Memory[p + 1], n) /\ Len(e.chars) <= BUF
        <5>1. n \in -MaxInt - 1 .. MaxInt
          BY NextArgument
        <5>2. PICK letter : letter = Memory[p + 1]
          OBVIOUS
        <5> QED
          BY <3>7, <4>1, <4>3, <5>1, <5>2, IntIsWritten
      <4>5. EntryFits(e, Memory)
        BY <3>1, <3>7, <4>3, <4>4, Zenon DEF EntryFits
      <4>6. EntryIsRight(e, fmt, args)
        <5>1. ASSUME p < Len(fmt), \A j \in LettersUpTo(fmt, p + 1) : fmt[j] \in Conversions
              PROVE  IsOf(e.chars, fmt[p + 1], args[c])
          <6>1. n = args[c] /\ fmt[p + 1] = Memory[p + 1]
            BY <3>2, <3>6, <3>7, <5>1
          <6> QED
            BY <4>4, <6>1, Zenon
        <5> QED
          BY <4>3, <5>1, RightAt, Zenon DEF c
      <4>7. \E d : written' = Append(written, d) /\ EntryFits(d, Memory) /\ EntryIsRight(d, fmt, args)
        BY <4>2, <4>3, <4>5, <4>6, Zenon
      <4> QED
        BY <2>0, <3>1, <3>4, <3>5, <4>7, Advances
    <3>8. CASE Memory[p + 1] = "p"
      <4>2. PICK n \in NextPtr : written' = Append(written, [at |-> p, chars |-> <<"0", "x">> \o FromItsEnd(printptr(n))])
        BY <2>2, <3>8, Zenon DEF Convert, Writes
      <4>3. PICK e : e = [at |-> p, chars |-> <<"0", "x">> \o FromItsEnd(printptr(n))]
                     /\ e.at = p /\ e.chars = <<"0", "x">> \o FromItsEnd(printptr(n))
        BY AnEntry, ZenonT(40)
      <4>4. IsOf(e.chars, "p", n) /\ Len(e.chars) - 2 <= BUF
        <5>1. n \in 0 .. MaxPtr
          BY NextArgument
        <5> QED
          BY <4>3, <5>1, PtrIsWritten, Zenon
      <4>5. EntryFits(e, Memory)
        BY <3>1, <3>8, <4>3, <4>4, Zenon DEF EntryFits
      <4>6. EntryIsRight(e, fmt, args)
        <5>1. ASSUME p < Len(fmt), \A j \in LettersUpTo(fmt, p + 1) : fmt[j] \in Conversions
              PROVE  IsOf(e.chars, fmt[p + 1], args[c])
          <6>1. n = args[c] /\ fmt[p + 1] = "p"
            BY <3>2, <3>6, <3>8, <5>1
          <6> QED
            BY <4>4, <6>1, Zenon
        <5> QED
          BY <4>3, <5>1, RightAt, Zenon DEF c
      <4>7. \E d : written' = Append(written, d) /\ EntryFits(d, Memory) /\ EntryIsRight(d, fmt, args)
        BY <4>2, <4>3, <4>5, <4>6, Zenon
      <4> QED
        BY <2>0, <3>1, <3>4, <3>5, <4>7, Advances
    <3> QED
      BY <3>7, <3>8
  <2>3. CASE PassOver
    <3>1. /\ Memory[p] = "%" /\ Memory[p + 1] \notin Conversions /\ p' = p + 2 /\ taken' = taken
          /\ fmt' = fmt /\ behind' = behind /\ args' = args /\ printfPc' = printfPc
          /\ written' = written
      BY <2>3, Zenon DEF PassOver, PastBoth
    <3>2. Takes(fmt, Memory, p, taken, taken')
      BY <3>1, Zenon DEF Takes
    <3>3. p' \in 1 .. Len(Memory) /\ Goes(fmt, p', taken') /\ LeavesAt(fmt, p')
      BY <2>0, <3>1, <3>2, OverTwo
    <3> QED
      BY <2>0, <3>1, <3>3, Advances
  <2>4. CASE Return
    <3>1. /\ fmt' = fmt /\ behind' = behind /\ args' = args /\ taken' = taken /\ p' = p
          /\ written' = written /\ printfPc' = "done"
      BY <2>4, Zenon DEF Return
    <3> QED
      BY <2>0, <3>1, Advances
  <2>5. CASE UNCHANGED printfVars
    <3>1. /\ fmt' = fmt /\ behind' = behind /\ args' = args /\ taken' = taken /\ p' = p
          /\ written' = written /\ printfPc' = printfPc
      BY <2>5, Zenon DEF printfVars
    <3> QED
      BY <2>0, <3>1, Advances
  <2> QED
    BY <2>1, <2>2, <2>3, <2>4, <2>5 DEF PrintfNext
<1> QED
  BY <1>1, <1>2, PTL DEF PrintfSafety

-----------------------------------------------------------------------------
(* What is written of the format.                                          *)

\* w is what was written of f up to its character q.
Wrote(w, f, q) ==
  /\ \E S : w \in Seq(S)
  /\ \A k \in DOMAIN w : w[k].at \in Nat /\ w[k].at < q
  /\ \A j, k \in DOMAIN w : j < k => w[j].at < w[k].at
  /\ \A k \in DOMAIN w : w[k].at \in DOMAIN f /\ f[w[k].at] # "%" => w[k].chars = <<f[w[k].at]>>
  /\ \A c \in DOMAIN f : c < q => (c \in PlacesOf(f) <=> \E k \in DOMAIN w : w[k].at = c)

\* q is written for and, if the step passes over the character behind it, that is not.
LEMMA WroteOne ==
  ASSUME NEW w, NEW f \in Seq(STRING), NEW q \in Nat, Wrote(w, f, q), NEW e, e.at = q,
         q \in DOMAIN f => q \in PlacesOf(f),
         q \in DOMAIN f /\ f[q] # "%" => e.chars = <<f[q]>>,
         NEW r, r = q + 1 \/ (r = q + 2 /\ q + 1 \notin PlacesOf(f))
  PROVE  Wrote(Append(w, e), f, r)
<1>1. PICK S : w \in Seq(S)
  BY DEF Wrote
<1>2. PICK T : T = S \cup {e}
  OBVIOUS
<1>3. w \in Seq(T) /\ e \in T
  BY <1>1, <1>2, SeqMonotonic
<1>4. PICK n \in Nat : n = Len(w) /\ DOMAIN w = 1 .. n
  BY <1>3
<1>5. PICK v : v = Append(w, e)
  OBVIOUS
<1>6. /\ v \in Seq(T) /\ DOMAIN v = 1 .. n + 1 /\ v[n + 1] = e
      /\ \A k \in 1 .. n : v[k] = w[k]
  BY <1>3, <1>4, <1>5
<1>7. /\ \A k \in 1 .. n : w[k].at \in Nat /\ w[k].at < q
      /\ \A j, k \in 1 .. n : j < k => w[j].at < w[k].at
      /\ \A k \in 1 .. n : w[k].at \in DOMAIN f /\ f[w[k].at] # "%" => w[k].chars = <<f[w[k].at]>>
      /\ \A c \in DOMAIN f : c < q => (c \in PlacesOf(f) <=> \E k \in 1 .. n : w[k].at = c)
  BY <1>4, Zenon DEF Wrote
<1>8. \A k \in 1 .. n + 1 : k = n + 1 \/ k \in 1 .. n
  OBVIOUS
<1>9. v[n + 1].at = q
  BY <1>6
<1>10. ASSUME NEW k \in 1 .. n + 1
       PROVE  v[k].at \in Nat /\ v[k].at <= q
  BY <1>6, <1>7, <1>8, <1>9
<1>11. \A k \in 1 .. n + 1 : v[k].at \in Nat /\ v[k].at < r
  BY <1>10
<1>12. ASSUME NEW j \in 1 .. n + 1, NEW k \in 1 .. n + 1, j < k
       PROVE  v[j].at < v[k].at
  <2>1. j \in 1 .. n
    BY <1>12
  <2>2. CASE k = n + 1
    BY <1>6, <1>7, <1>9, <2>1, <2>2, Zenon
  <2>3. CASE k \in 1 .. n
    BY <1>6, <1>7, <1>12, <2>1, <2>3, Zenon
  <2> QED
    BY <1>8, <2>2, <2>3
<1>13. ASSUME NEW k \in 1 .. n + 1, v[k].at \in DOMAIN f, f[v[k].at] # "%"
       PROVE  v[k].chars = <<f[v[k].at]>>
  <2>1. CASE k = n + 1
    BY <1>6, <1>9, <1>13, <2>1, Zenon
  <2>2. CASE k \in 1 .. n
    BY <1>6, <1>7, <1>13, <2>2, Zenon
  <2> QED
    BY <1>8, <2>1, <2>2
<1>14. ASSUME NEW c \in DOMAIN f, c < r
       PROVE  c \in PlacesOf(f) <=> \E k \in 1 .. n + 1 : v[k].at = c
  <2>1. c \in Nat /\ (c < q \/ c = q \/ (c = q + 1 /\ r = q + 2))
    BY <1>14
  <2>2. CASE c < q
    <3>1. \A k \in 1 .. n : k \in 1 .. n + 1
      OBVIOUS
    <3>2. v[n + 1].at # c
      BY <1>9, <2>1, <2>2
    <3> QED
      BY <1>6, <1>7, <1>8, <2>2, <3>1, <3>2, Zenon
  <2>3. CASE c = q
    <3>1. n + 1 \in 1 .. n + 1
      OBVIOUS
    <3> QED
      BY <1>9, <1>14, <2>3, <3>1, Zenon
  <2>4. CASE c = q + 1 /\ r = q + 2
    <3>1. c \notin PlacesOf(f)
      BY <2>4
    <3>2. \A k \in 1 .. n + 1 : v[k].at # c
      BY <1>10, <2>4
    <3> QED
      BY <3>1, <3>2, Zenon
  <2> QED
    BY <2>1, <2>2, <2>3, <2>4
<1>15. Wrote(v, f, r)
  BY <1>6, <1>11, <1>12, <1>13, <1>14, Zenon DEF Wrote
<1> QED
  BY <1>5, <1>15

\* Neither of two characters is written for.
LEMMA WroteNone ==
  ASSUME NEW w, NEW f \in Seq(STRING), NEW q \in Nat, Wrote(w, f, q),
         q \notin PlacesOf(f), q + 1 \notin PlacesOf(f)
  PROVE  Wrote(w, f, q + 2)
<1>1. \A k \in DOMAIN w : w[k].at \in Nat /\ w[k].at < q + 2 /\ w[k].at # q /\ w[k].at # q + 1
  <2>1. \A k \in DOMAIN w : w[k].at \in Nat /\ w[k].at < q
    BY Zenon DEF Wrote
  <2> QED
    BY <2>1
<1>2. ASSUME NEW c \in DOMAIN f, c < q + 2
      PROVE  c \in PlacesOf(f) <=> \E k \in DOMAIN w : w[k].at = c
  <2>1. c < q \/ c = q \/ c = q + 1
    BY <1>2
  <2>2. CASE c < q
    BY <2>2, Zenon DEF Wrote
  <2>3. CASE c = q \/ c = q + 1
    BY <1>1, <2>3, Zenon
  <2> QED
    BY <2>1, <2>2, <2>3
<1> QED
  BY <1>1, <1>2, Zenon DEF Wrote

\* printf is at a character of its format that is no second one, so that the one
\* behind a % is.
LEMMA PlacesAre ==
  ASSUME PrintfInv, Memory[p] # NUL
  PROVE  /\ fmt \in Seq(STRING) /\ p \in Nat
         /\ p \in DOMAIN fmt =>
              (p \in PlacesOf(fmt) <=> Memory[p] # "%" \/ Memory[p + 1] \in Conversions)
         /\ p \notin DOMAIN fmt => p \notin PlacesOf(fmt) /\ p + 1 \notin PlacesOf(fmt)
         /\ Memory[p] = "%" => p + 1 \notin PlacesOf(fmt)
         /\ p \in DOMAIN fmt => fmt[p] = Memory[p]
<1>1. fmt \in Seq(STRING) /\ MemoryAt(fmt, Memory) /\ p \in Nat /\ 1 <= p
  <2>1. p \in 1 .. Len(Memory)
    BY DEF PrintfInv
  <2> QED
    BY <2>1, CallIs
<1>2. PICK l \in Nat : l = Len(fmt) /\ DOMAIN fmt = 1 .. l
  BY <1>1
<1>3. PICK m : m = Memory
  OBVIOUS
<1>4. (\A k \in 1 .. l : m[k] = fmt[k]) /\ m[l + 1] = NUL
  BY <1>1, <1>2, <1>3, Zenon DEF MemoryAt
<1>5. p <= l + 1 => p \notin SecondsOf(fmt)
  BY <1>2, Zenon DEF PrintfInv
<1>6. CASE p \in 1 .. l
  <2>1. fmt[p] = m[p] /\ p \notin SecondsOf(fmt)
    BY <1>4, <1>5, <1>6
  <2>2. p \in PlacesOf(fmt) <=> (fmt[p] = "%" => p < l /\ fmt[p + 1] \in Conversions)
    BY <1>2, <1>6, <2>1 DEF PlacesOf
  <2>3. m[p + 1] \in Conversions => p < l
    <3>1. NUL \notin Conversions
      BY DEF NUL, Conversions
    <3>2. p < l \/ p = l
      BY <1>6
    <3> QED
      BY <1>4, <3>1, <3>2
  <2>4. p < l => p + 1 \in 1 .. l /\ fmt[p + 1] = m[p + 1]
    <3>1. p < l => p + 1 \in 1 .. l
      BY <1>6
    <3> QED
      BY <1>4, <3>1
  <2>5. m[p] = "%" => p + 1 \notin PlacesOf(fmt)
    <3>1. p < l /\ fmt[p] = "%" => p + 1 \in SecondsOf(fmt)
      BY <1>1, <1>2, <1>6, <2>1, AfterFirst
    <3>2. ~(p < l) => p + 1 \notin 1 .. l
      BY <1>1
    <3> QED
      BY <1>2, <2>1, <3>1, <3>2 DEF PlacesOf
  <2> QED
    BY <1>1, <1>2, <1>3, <1>6, <2>1, <2>2, <2>3, <2>4, <2>5
<1>7. CASE p \notin 1 .. l
  <2>1. p + 1 \notin 1 .. l
    BY <1>1, <1>7
  <2> QED
    BY <1>1, <1>2, <1>7, <2>1 DEF PlacesOf
<1> QED
  BY <1>6, <1>7

LEMMA WroteKept == PrintfSafety => []Wrote(written, fmt, p)
<1>1. PrintfInit => Wrote(written, fmt, p)
  <2> SUFFICES ASSUME PrintfInit PROVE Wrote(written, fmt, p)
    OBVIOUS
  <2>1. PICK call \in Calls : fmt = call.fmt /\ written = <<>> /\ p = 1
    BY DEF PrintfInit, Begins
  <2>2. fmt \in Seq(STRING)
    BY <2>1, FormatsAssumption DEF IsCall
  <2>3. \A c \in DOMAIN fmt : ~(c < p)
    BY <2>1, <2>2
  <2>4. written \in Seq({}) /\ DOMAIN written = {}
    BY <2>1
  <2> QED
    BY <2>3, <2>4, Zenon DEF Wrote
<1>2. PrintfInv /\ Wrote(written, fmt, p) /\ [PrintfNext]_printfVars => Wrote(written, fmt, p)'
  <2> SUFFICES ASSUME PrintfInv, Wrote(written, fmt, p), [PrintfNext]_printfVars
               PROVE  Wrote(written', fmt', p')
    OBVIOUS
  <2>1. CASE Plain
    <3>1. /\ Memory[p] \notin {"%", NUL} /\ p' = p + 1 /\ fmt' = fmt
          /\ written' = Append(written, [at |-> p, chars |-> <<Memory[p]>>])
      BY <2>1, Zenon DEF Plain, Writes
    <3>2. PICK e : e = [at |-> p, chars |-> <<Memory[p]>>] /\ e.at = p /\ e.chars = <<Memory[p]>>
      BY AnEntry, ZenonT(40)
    <3>3. /\ fmt \in Seq(STRING) /\ p \in Nat
          /\ p \in DOMAIN fmt => p \in PlacesOf(fmt) /\ fmt[p] = Memory[p]
      BY <3>1, PlacesAre
    <3>4. Wrote(Append(written, e), fmt, p + 1)
      BY <3>2, <3>3, WroteOne
    <3> QED
      BY <3>1, <3>2, <3>4, Zenon
  <2>2. CASE Convert
    <3>1. Memory[p] = "%" /\ Memory[p + 1] \in Conversions /\ p' = p + 2 /\ fmt' = fmt
      BY <2>2, Zenon DEF Convert
    <3>2. PICK chars : written' = Append(written, [at |-> p, chars |-> chars])
      BY <2>2, Zenon DEF Convert, Writes
    <3>3. PICK e : e = [at |-> p, chars |-> chars] /\ e.at = p
      BY AnEntry, ZenonT(40)
    <3>4. Memory[p] # NUL
      BY <3>1 DEF NUL
    <3>5. /\ fmt \in Seq(STRING) /\ p \in Nat /\ p + 1 \notin PlacesOf(fmt)
          /\ p \in DOMAIN fmt => p \in PlacesOf(fmt) /\ fmt[p] = "%"
      BY <3>1, <3>4, PlacesAre, Zenon
    <3>6. Wrote(Append(written, e), fmt, p + 2)
      BY <3>3, <3>5, WroteOne
    <3> QED
      BY <3>1, <3>2, <3>3, <3>6, Zenon
  <2>3. CASE PassOver
    <3>1. Memory[p] = "%" /\ Memory[p + 1] \notin Conversions /\ p' = p + 2 /\ fmt' = fmt /\ written' = written
      BY <2>3, Zenon DEF PassOver, PastBoth
    <3>2. Memory[p] # NUL
      BY <3>1 DEF NUL
    <3>3. fmt \in Seq(STRING) /\ p \in Nat /\ p \notin PlacesOf(fmt) /\ p + 1 \notin PlacesOf(fmt)
      BY <3>1, <3>2, PlacesAre, Zenon
    <3>4. Wrote(written, fmt, p + 2)
      BY <3>3, WroteNone
    <3> QED
      BY <3>1, <3>4, Zenon
  <2>4. CASE Return \/ UNCHANGED printfVars
    BY <2>4, Zenon DEF Return, printfVars
  <2> QED
    BY <2>1, <2>2, <2>3, <2>4 DEF PrintfNext
<1> QED
  BY <1>1, <1>2, PrintfKept, PTL DEF PrintfSafety

LEMMA WroteMeans == Wrote(written, fmt, p) => PlacesAreWritten
<1> SUFFICES ASSUME Wrote(written, fmt, p) PROVE PlacesAreWritten
  OBVIOUS
<1>1. {written[k].at : k \in DOMAIN written} \cap DOMAIN fmt \subseteq {q \in PlacesOf(fmt) : q < p}
  BY Zenon DEF Wrote
<1>2. {q \in PlacesOf(fmt) : q < p} \subseteq {written[k].at : k \in DOMAIN written} \cap DOMAIN fmt
  <2>1. PlacesOf(fmt) \subseteq DOMAIN fmt
    BY Zenon DEF PlacesOf
  <2> QED
    BY <2>1, Zenon DEF Wrote
<1> QED
  BY <1>1, <1>2, Zenon DEF Wrote, PlacesAreWritten

LEMMA PrintfInvMeans ==
  PrintfInv /\ Wrote(written, fmt, p) => PrintfTypeOK /\ FormatIsWritten
<1> SUFFICES ASSUME PrintfInv, Wrote(written, fmt, p) PROVE PrintfTypeOK /\ FormatIsWritten
  OBVIOUS
<1>1. \A k \in DOMAIN written : EntryFits(written[k], Memory) /\ EntryIsRight(written[k], fmt, args)
  BY Zenon DEF PrintfInv
<1>2. PrintfTypeOK
  BY <1>1, Zenon DEF PrintfInv, PrintfTypeOK, EntryFits
<1>3. NumbersAreArguments
  BY <1>1, Zenon DEF NumbersAreArguments, EntryIsRight
<1> QED
  BY <1>2, <1>3, WroteMeans, Zenon DEF PrintfInv, FormatIsWritten

\* printf reads no further than the NUL that ends it, takes no argument that is not
\* there, and no number has more characters than buf (console.c:7-97).
THEOREM PrintfTyped == PrintfSafety => []PrintfTypeOK
BY PrintfKept, WroteKept, PrintfInvMeans, PTL

\* Each character and each %d, %x and %p of the format is written once and in order,
\* and %s, %f and what is no conversion are not; a conversion, if no %s or %f came
\* before, writes its own argument with all of its digits and its sign; and printf
\* leaves its format only behind a % that begins nothing (console.c:7-55, 73-97).
THEOREM FormatStaysWritten == PrintfSafety => []FormatIsWritten
BY PrintfKept, WroteKept, PrintfInvMeans, PTL
==============================================================================
