-------------------------- MODULE PrimitivesProofs --------------------------
(***************************************************************************)
(* For every width of the machine word and every heap: indices that are    *)
(* checked are in range, three kinds of calls and no others leave their    *)
(* object, arrays hold values until a call mixes kinds of objects, the     *)
(* arithmetic is exact where its result is a SmallInteger, and the         *)
(* interpreter and compiled code answer alike.                             *)
(***************************************************************************)
EXTENDS Primitives, WellFoundedInduction, TLAPS

(***************************************************************************)
(* Induction over the naturals, by least elements.                         *)
(***************************************************************************)
LEMMA LeastNatural ==
  ASSUME NEW T, T \subseteq Nat, T # {}
  PROVE  \E x \in T : \A y \in T : x <= y
  <1>1. PICK x \in T : \A y \in T : ~ (<<y, x>> \in OpToRel(<, Nat))
    BY WFMin, NatLessThanWellFounded
  <1>2. \A y \in T : ~ (y < x)
    BY <1>1 DEF OpToRel
  <1>3. QED BY <1>2

\* A set with 0 and the successor of each of its numbers has them all.
LEMMA AllNaturals ==
  ASSUME NEW S, 0 \in S, \A n \in Nat : n \in S => n + 1 \in S
  PROVE  Nat \subseteq S
  <1> SUFFICES ASSUME Nat \ S # {} PROVE FALSE
    OBVIOUS
  <1> DEFINE T == Nat \ S
  <1>1. T \subseteq Nat /\ T # {}
    OBVIOUS
  <1> HIDE DEF T
  <1>2. PICK n \in T : \A i \in T : n <= i
    BY <1>1, LeastNatural
  <1>3. n \in Nat /\ n \notin S /\ n # 0
    BY <1>2 DEF T
  <1>4. n - 1 \in S
    BY <1>2, <1>3 DEF T
  <1>5. QED BY <1>3, <1>4

(***************************************************************************)
(* Recursion over the naturals, where the step is a function.              *)
(***************************************************************************)
Follows(f, first, step, n) ==
  f = [k \in 0 .. n |-> IF k = 0 THEN first ELSE step[<<k, f[k - 1]>>]]

Unfolds(f, first, step, n) ==
  f[0] = first /\ \A k \in 1 .. n : f[k] = step[<<k, f[k - 1]>>]

LEMMA FollowsPointwise ==
  ASSUME NEW first, NEW step, NEW n \in Nat, NEW f, Follows(f, first, step, n)
  PROVE  Unfolds(f, first, step, n)
  <1>1. \A k \in 0 .. n : f[k] = IF k = 0 THEN first ELSE step[<<k, f[k - 1]>>]
    BY Zenon DEF Follows
  <1>2. 0 \in 0 .. n
    OBVIOUS
  <1>3. f[0] = first
    BY <1>1, <1>2, Zenon
  <1>4. ASSUME NEW k \in 1 .. n PROVE f[k] = step[<<k, f[k - 1]>>]
    <2>1. k \in 0 .. n /\ k # 0
      OBVIOUS
    <2>2. QED BY <1>1, <2>1, Zenon
  <1>5. QED BY <1>3, <1>4 DEF Unfolds

LEMMA FollowsExists ==
  ASSUME NEW first, NEW step
  PROVE  \A n \in Nat : \E f : Follows(f, first, step, n)
  <1> DEFINE S == {n \in Nat : \E f : Follows(f, first, step, n)}
  <1>1. 0 \in S
    <2>1. Follows([k \in 0 .. 0 |-> first], first, step, 0)
      BY DEF Follows
    <2>2. QED BY <2>1
  <1>2. ASSUME NEW n \in Nat, n \in S PROVE n + 1 \in S
    <2>1. PICK f : Follows(f, first, step, n)
      BY <1>2
    <2>2. f[0] = first /\ \A k \in 1 .. n : f[k] = step[<<k, f[k - 1]>>]
      <3>1. Unfolds(f, first, step, n)
        BY <2>1, FollowsPointwise
      <3>2. QED BY <3>1 DEF Unfolds
    <2> DEFINE g == [k \in 0 .. n + 1 |-> IF k = n + 1 THEN step[<<k, f[n]>>] ELSE f[k]]
    <2>3. \A k \in 0 .. n + 1 : g[k] = IF k = 0 THEN first ELSE step[<<k, g[k - 1]>>]
      <3> TAKE k \in 0 .. n + 1
      <3>1. CASE k = n + 1
        BY <3>1
      <3>2. CASE k = 0
        BY <2>2, <3>2
      <3>3. CASE k \in 1 .. n
        <4>1. g[k] = f[k] /\ g[k - 1] = f[k - 1]
          BY <3>3
        <4>2. QED BY <2>2, <3>3, <4>1
      <3>4. QED BY <3>1, <3>2, <3>3
    <2>4. g = [k \in 0 .. n + 1 |-> g[k]]
      OBVIOUS
    <2> HIDE DEF g
    <2>5. Follows(g, first, step, n + 1)
      BY <2>3, <2>4, Zenon DEF Follows
    <2>6. QED BY <2>5
  <1> HIDE DEF S
  <1>3. Nat \subseteq S
    BY <1>1, <1>2, AllNaturals
  <1>4. QED BY <1>3 DEF S

LEMMA FollowsAgree ==
  ASSUME NEW first, NEW step, NEW m \in Nat, NEW n \in Nat,
         NEW f, Follows(f, first, step, m), NEW g, Follows(g, first, step, n)
  PROVE  \A k \in Nat : k <= m /\ k <= n => f[k] = g[k]
  <1> DEFINE S == {k \in Nat : k <= m /\ k <= n => f[k] = g[k]}
  <1>1. /\ f[0] = first /\ \A k \in 1 .. m : f[k] = step[<<k, f[k - 1]>>]
        /\ g[0] = first /\ \A k \in 1 .. n : g[k] = step[<<k, g[k - 1]>>]
    <2>1. Unfolds(f, first, step, m) /\ Unfolds(g, first, step, n)
      BY FollowsPointwise
    <2>2. QED BY <2>1, Zenon DEF Unfolds
  <1>2. 0 \in S
    BY <1>1
  <1>3. ASSUME NEW k \in Nat, k \in S PROVE k + 1 \in S
    <2> SUFFICES ASSUME k + 1 <= m, k + 1 <= n PROVE f[k + 1] = g[k + 1]
      OBVIOUS
    <2>1. f[k] = g[k]
      BY <1>3
    <2>2. k + 1 \in 1 .. m /\ k + 1 \in 1 .. n /\ (k + 1) - 1 = k
      OBVIOUS
    <2>3. QED BY <1>1, <2>1, <2>2
  <1> HIDE DEF S
  <1>4. Nat \subseteq S
    BY <1>2, <1>3, AllNaturals
  <1>5. QED BY <1>4 DEF S

Recursion(f, first, step) ==
  f = [k \in Nat |-> IF k = 0 THEN first ELSE step[<<k, f[k - 1]>>]]

\* The solutions for every bound make one for all naturals.
LEMMA RecursionExists ==
  ASSUME NEW first, NEW step
  PROVE  \E f : Recursion(f, first, step)
  <1> DEFINE upto(n) == CHOOSE f : Follows(f, first, step, n)
             g == [k \in Nat |-> upto(k)[k]]
  <1>1. \A n \in Nat : Follows(upto(n), first, step, n)
    BY FollowsExists
  <1> HIDE DEF upto
  <1>2. \A k \in Nat : g[k] = IF k = 0 THEN first ELSE step[<<k, g[k - 1]>>]
    <2> TAKE k \in Nat
    <2>1. CASE k = 0
      <3>1. 0 \in Nat /\ Follows(upto(0), first, step, 0)
        BY <1>1
      <3>1a. upto(0)[0] = first
        <4>1. Unfolds(upto(0), first, step, 0)
          BY <3>1, FollowsPointwise
        <4>2. QED BY <4>1 DEF Unfolds
      <3>2. QED BY <2>1, <3>1a
    <2>2. CASE k # 0
      <3>1. k - 1 \in Nat
        BY <2>2
      <3>2. Follows(upto(k), first, step, k) /\ Follows(upto(k - 1), first, step, k - 1)
        BY <1>1, <3>1
      <3>3. upto(k)[k - 1] = upto(k - 1)[k - 1]
        BY <3>1, <3>2, FollowsAgree
      <3>4. upto(k)[k] = step[<<k, upto(k)[k - 1]>>]
        <4>1. k \in 1 .. k
          BY <2>2
        <4>2. \A i \in 1 .. k : upto(k)[i] = step[<<i, upto(k)[i - 1]>>]
          <5>1. Follows(upto(k), first, step, k)
            BY <3>2
          <5>2. Unfolds(upto(k), first, step, k)
            BY <5>1, FollowsPointwise
          <5>3. QED BY <5>2, Zenon DEF Unfolds
        <4>3. QED BY <4>1, <4>2, Zenon
      <3>5. QED BY <2>2, <3>1, <3>3, <3>4
    <2>3. QED BY <2>1, <2>2
  <1>3. g = [k \in Nat |-> g[k]]
    OBVIOUS
  <1> HIDE DEF g
  <1>4. g = [k \in Nat |-> IF k = 0 THEN first ELSE step[<<k, g[k - 1]>>]]
    BY <1>2, <1>3
  <1>5. QED BY <1>4 DEF Recursion

LEMMA Power2Step ==
  /\ Power2[0] = 1
  /\ \A k \in Nat : Power2[k] \in Nat \ {0} /\ Power2[k + 1] = 2 * Power2[k]
  <1> DEFINE step == [p \in Nat \X Int |-> 2 * p[2]]
  <1>1. PICK f : Recursion(f, 1, step)
    <2> HIDE DEF step
    <2>1. QED BY RecursionExists
  <1>1a. f[0] = 1 /\ \A k \in Nat : f[k + 1] = step[<<k + 1, f[k]>>]
    <2>1. \A k \in Nat : f[k] = IF k = 0 THEN 1 ELSE step[<<k, f[k - 1]>>]
      BY <1>1, Zenon DEF Recursion
    <2>2. ASSUME NEW k \in Nat PROVE f[k + 1] = step[<<k + 1, f[k]>>]
      <3>1. k + 1 \in Nat /\ k + 1 # 0 /\ (k + 1) - 1 = k
        OBVIOUS
      <3>2. QED BY <2>1, <3>1
    <2>3. QED BY <2>1, <2>2
  <1>2. \A k \in Nat : f[k] \in Int
    <2> DEFINE S == {k \in Nat : f[k] \in Int}
    <2>1. 0 \in S
      BY <1>1a
    <2>2. ASSUME NEW k \in Nat, k \in S PROVE k + 1 \in S
      <3>1. f[k] \in Int
        BY <2>2
      <3>2. f[k + 1] = step[<<k + 1, f[k]>>] /\ k + 1 \in Nat
        BY <1>1a
      <3>3. step[<<k + 1, f[k]>>] = 2 * f[k]
        BY <3>1
      <3>4. QED BY <3>1, <3>2, <3>3
    <2> HIDE DEF S
    <2>3. Nat \subseteq S
      BY <2>1, <2>2, AllNaturals
    <2>4. QED BY <2>3 DEF S
  <1>3. f = [k \in Nat |-> IF k = 0 THEN 1 ELSE 2 * f[k - 1]]
    <2>1. ASSUME NEW k \in Nat, k # 0 PROVE step[<<k, f[k - 1]>>] = 2 * f[k - 1]
      BY <1>2, <2>1
    <2> HIDE DEF step
    <2>2. QED BY <1>1, <2>1 DEF Recursion
  <1>4. Power2 = [k \in Nat |-> IF k = 0 THEN 1 ELSE 2 * Power2[k - 1]]
    BY <1>3, Zenon DEF Power2
  <1> HIDE DEF step
  <1>5. Power2[0] = 1 /\ \A k \in Nat : Power2[k + 1] = 2 * Power2[k]
    <2>1. \A k \in Nat : Power2[k] = IF k = 0 THEN 1 ELSE 2 * Power2[k - 1]
      BY <1>4, Zenon
    <2>2. ASSUME NEW k \in Nat PROVE Power2[k + 1] = 2 * Power2[k]
      <3>1. k + 1 \in Nat /\ k + 1 # 0 /\ (k + 1) - 1 = k
        OBVIOUS
      <3>2. QED BY <2>1, <3>1
    <2>3. QED BY <2>1, <2>2
  <1> DEFINE S == {k \in Nat : Power2[k] \in Nat \ {0}}
  <1>6. 0 \in S
    BY <1>5
  <1>7. ASSUME NEW k \in Nat, k \in S PROVE k + 1 \in S
    BY <1>5, <1>7
  <1> HIDE DEF S
  <1>8. Nat \subseteq S
    BY <1>6, <1>7, AllNaturals
  <1>9. QED BY <1>5, <1>8 DEF S

-----------------------------------------------------------------------------
(***************************************************************************)
(* Words: what wrapping around keeps.                                      *)
(***************************************************************************)
LEMMA DivMod ==
  ASSUME NEW a \in Int, NEW d \in Nat \ {0}
  PROVE  /\ a \div d \in Int /\ a % d \in 0 .. d - 1
         /\ a = d * (a \div d) + (a % d)
  <1>1. a \div d \in Int
    OBVIOUS
  <1>2. a % d \in 0 .. d - 1
    OBVIOUS
  <1>3. a = d * (a \div d) + (a % d)
    OBVIOUS
  <1>4. QED BY <1>1, <1>2, <1>3

LEMMA ModUnique ==
  ASSUME NEW q \in Int, NEW d \in Nat \ {0}, NEW r \in 0 .. d - 1
  PROVE  (d * q + r) % d = r /\ (d * q + r) \div d = q
  <1> DEFINE a == d * q + r
             k == a \div d
             m == a % d
  <1>1. a \in Int /\ a = d * q + r
    OBVIOUS
  <1> HIDE DEF a
  <1>2. k \in Int /\ m \in 0 .. d - 1 /\ a = d * k + m
    BY <1>1, DivMod
  <1> HIDE DEF k, m
  <1>3. q - k \in Int /\ d * (q - k) = m - r
    BY <1>1, <1>2
  <1>4. ~(q - k >= 1)
    <2>1. ASSUME q - k >= 1 PROVE d * (q - k) >= d
      BY <1>3, <2>1
    <2>2. QED BY <1>2, <1>3, <2>1
  <1>5. ~(k - q >= 1)
    <2>1. ASSUME k - q >= 1 PROVE d * (k - q) >= d
      BY <1>2, <2>1
    <2>2. d * (k - q) = r - m
      BY <1>1, <1>2
    <2>3. QED BY <1>2, <2>1, <2>2
  <1>6. q = k /\ r = m
    BY <1>1, <1>2, <1>4, <1>5
  <1>7. QED BY <1>6 DEF a, k, m

LEMMA ModNegative ==
  ASSUME NEW d \in Nat \ {0}, NEW n \in Int, -d <= n, n < 0
  PROVE  n % d = n + d
  <1> DEFINE q == 0 - 1
             r == n + d
  <1>1. q \in Int /\ r \in 0 .. d - 1 /\ n = d * q + r
    OBVIOUS
  <1> HIDE DEF q, r
  <1>2. (d * q + r) % d = r
    BY <1>1, ModUnique
  <1>3. QED BY <1>1, <1>2 DEF r

LEMMA Halves ==
  ASSUME NEW b \in Nat \ {0}
  PROVE  Power2[b - 1] \in Nat \ {0} /\ Power2[b] \in Nat \ {0} /\ Power2[b] = 2 * Power2[b - 1]
  <1>1. b - 1 \in Nat /\ (b - 1) + 1 = b
    OBVIOUS
  <1>2. QED BY <1>1, Power2Step

\* A number that fits is read back as it was.
LEMMA SignedFits ==
  ASSUME NEW b \in Nat \ {0}, NEW n \in Int, -Power2[b - 1] <= n, n < Power2[b - 1]
  PROVE  Signed(n, b) = n
  <1> DEFINE h == Power2[b - 1]
             w == Power2[b]
  <1>1. h \in Nat \ {0} /\ w = 2 * h
    BY Halves
  <1>2. Signed(n, b) = IF n % w >= h THEN (n % w) - w ELSE n % w
    BY DEF Signed, Unsigned
  <1>3. -h <= n /\ n < h
    OBVIOUS
  <1> HIDE DEF h, w
  <1>4. CASE n >= 0
    <2>1. n = w * 0 + n /\ n \in 0 .. w - 1 /\ w \in Nat \ {0}
      BY <1>1, <1>3, <1>4
    <2>2. n % w = n
      BY <2>1, ModUnique
    <2>3. ~(n % w >= h)
      BY <1>1, <1>3, <2>2
    <2>4. QED BY <1>2, <2>2, <2>3
  <1>5. CASE n < 0
    <2>2. n % w = n + w
      <3>1. n \in Int /\ -w <= n /\ n < 0 /\ w \in Nat \ {0}
        BY <1>1, <1>3, <1>5
      <3>2. QED BY <3>1, ModNegative
    <2>3. n + w >= h
      BY <1>1, <1>3
    <2>4. QED BY <1>1, <1>2, <1>3, <1>5, <2>2, <2>3
  <1>6. QED BY <1>4, <1>5

\* A signed number differs from what it was read from by whole words.
LEMMA SignedRange ==
  ASSUME NEW b \in Nat \ {0}, NEW n \in Int
  PROVE  /\ Signed(n, b) \in -Power2[b - 1] .. Power2[b - 1] - 1
         /\ \E q \in Int : n = Signed(n, b) + Power2[b] * q
  <1> DEFINE h == Power2[b - 1]
             w == Power2[b]
             m == n % w
  <1>1. h \in Nat \ {0} /\ w = 2 * h /\ w \in Nat \ {0}
    BY Halves
  <1>2. Signed(n, b) = IF m >= h THEN m - w ELSE m
    BY DEF Signed, Unsigned
  <1> HIDE DEF h, w
  <1>3. n \div w \in Int /\ m \in 0 .. w - 1 /\ n = w * (n \div w) + m
    BY <1>1, DivMod
  <1> DEFINE d == n \div w
  <1> HIDE DEF m, d
  <1>4. d \in Int /\ n = w * d + m
    BY <1>3 DEF d
  <1>5. Signed(n, b) \in -h .. h - 1
    BY <1>1, <1>2, <1>3
  <1>6. CASE m >= h
    <2>1. n = (m - w) + w * (d + 1) /\ d + 1 \in Int
      BY <1>1, <1>3, <1>4
    <2>2. QED BY <1>2, <1>5, <1>6, <2>1 DEF h, w
  <1>7. CASE ~(m >= h)
    <2>1. n = m + w * d
      BY <1>1, <1>3, <1>4
    <2>2. QED BY <1>2, <1>4, <1>5, <1>7, <2>1 DEF h, w
  <1>8. QED BY <1>6, <1>7

\* Reading a word does not tell numbers apart that differ by whole words.
LEMMA SignedWraps ==
  ASSUME NEW b \in Nat \ {0}, NEW n \in Int, NEW q \in Int
  PROVE  Signed(n + Power2[b] * q, b) = Signed(n, b)
  <1> DEFINE w == Power2[b]
             m == n % w
             d == n \div w
  <1>1. w \in Nat \ {0}
    BY Halves
  <1> HIDE DEF w
  <1>2. d \in Int /\ m \in 0 .. w - 1 /\ n = w * d + m
    BY <1>1, DivMod
  <1> HIDE DEF m, d
  <1>3. n + w * q = w * (d + q) + m /\ d + q \in Int
    BY <1>1, <1>2
  <1>4. (n + w * q) % w = m
    BY <1>1, <1>2, <1>3, ModUnique
  <1>5. n % w = m
    BY DEF m
  <1>6. QED BY <1>4, <1>5 DEF Signed, Unsigned, w

\* The larger word may be read before the smaller one.
LEMMA SignedTwice ==
  ASSUME NEW b \in Nat \ {0}, b > 1, NEW n \in Int
  PROVE  Signed(Signed(n, b), b - 1) = Signed(n, b - 1)
  <1> DEFINE m == Signed(n, b)
  <1>1. m \in Int /\ \E q \in Int : n = m + Power2[b] * q
    <2>1. Power2[b - 1] \in Nat
      BY Halves
    <2>2. m \in -Power2[b - 1] .. Power2[b - 1] - 1
      BY SignedRange
    <2>3. \E q \in Int : n = m + Power2[b] * q
      BY SignedRange
    <2>4. QED BY <2>1, <2>2, <2>3
  <1> HIDE DEF m
  <1>2. PICK q \in Int : n = m + Power2[b] * q
    BY <1>1
  <1>3. b - 1 \in Nat \ {0} /\ Power2[b] = 2 * Power2[b - 1] /\ Power2[b - 1] \in Nat
    BY Halves
  <1>4. n = m + Power2[b - 1] * (2 * q) /\ 2 * q \in Int
    BY <1>1, <1>2, <1>3
  <1>5. Signed(m + Power2[b - 1] * (2 * q), b - 1) = Signed(m, b - 1)
    BY <1>1, <1>3, <1>4, SignedWraps
  <1>6. QED BY <1>4, <1>5 DEF m

\* Seen as unsigned, a negative number is at least half of the range.
LEMMA UnsignedBelow ==
  ASSUME NEW b \in Nat \ {0}, NEW n \in -Power2[b - 1] .. Power2[b - 1],
         NEW size \in 0 .. Power2[b - 1]
  PROVE  Unsigned(n, b) < size <=> 0 <= n /\ n < size
  <1> DEFINE h == Power2[b - 1]
             w == Power2[b]
  <1>1. h \in Nat \ {0} /\ w = 2 * h /\ w \in Nat \ {0}
    BY Halves
  <1>2. Unsigned(n, b) = n % w /\ n \in -h .. h /\ size \in 0 .. h
    BY DEF Unsigned
  <1> HIDE DEF h, w
  <1>3. CASE n >= 0
    <2>1. n = w * 0 + n /\ n \in 0 .. w - 1
      BY <1>1, <1>2, <1>3
    <2>2. n % w = n
      BY <1>1, <2>1, ModUnique, SMTT(30)
    <2>3. QED BY <1>2, <1>3, <2>2
  <1>4. CASE n < 0
    <2>2. n % w = n + w
      <3>1. n \in Int /\ -w <= n /\ n < 0 /\ w \in Nat \ {0}
        BY <1>1, <1>2, <1>4
      <3>2. QED BY <3>1, ModNegative
    <2>3. n + w >= h /\ ~(n + w < size)
      BY <1>1, <1>2
    <2>4. QED BY <1>2, <1>4, <2>2, <2>3
  <1>5. QED BY <1>2, <1>3, <1>4

(***************************************************************************)
(* Bits.                                                                   *)
(***************************************************************************)
LEMMA BitType ==
  ASSUME NEW n \in Int, NEW k \in Nat
  PROVE  Bit(n, k) \in 0 .. 1 /\ Power2[k] \in Nat \ {0}
  <1>1. Power2[k] \in Nat \ {0}
    BY Power2Step
  <1>2. n \div Power2[k] \in Int
    BY <1>1
  <1>3. (n \div Power2[k]) % 2 \in 0 .. 1
    BY <1>2
  <1>4. QED BY <1>1, <1>3 DEF Bit

\* A power of 2 divides every higher one.
LEMMA PowerDivides ==
  ASSUME NEW i \in Nat, NEW k \in Nat, i <= k
  PROVE  \E c \in Nat \ {0} : Power2[k] = Power2[i] * c
  <1> DEFINE S == {j \in Nat : \E c \in Nat \ {0} : Power2[i + j] = Power2[i] * c}
  <1>1. 0 \in S
    <2>1. Power2[i + 0] = Power2[i] * 1
      BY Power2Step
    <2>2. QED BY <2>1
  <1>2. ASSUME NEW j \in Nat, j \in S PROVE j + 1 \in S
    <2>1. PICK c \in Nat \ {0} : Power2[i + j] = Power2[i] * c
      BY <1>2
    <2>2. i + j \in Nat /\ i + (j + 1) = (i + j) + 1
      OBVIOUS
    <2>3. Power2[i + (j + 1)] = 2 * Power2[i + j]
      BY <2>2, Power2Step
    <2>4. Power2[i] \in Nat
      BY Power2Step
    <2>5. Power2[i + (j + 1)] = Power2[i] * (2 * c) /\ 2 * c \in Nat \ {0}
      BY <2>1, <2>3, <2>4
    <2>6. QED BY <2>5
  <1> HIDE DEF S
  <1>3. Nat \subseteq S
    BY <1>1, <1>2, AllNaturals
  <1>4. k - i \in S /\ i + (k - i) = k
    BY <1>3
  <1>5. QED BY <1>4 DEF S

\* Bits above a place do not show in it.
LEMMA BitBelow ==
  ASSUME NEW n \in Int, NEW i \in Nat, NEW k \in Nat, i < k, NEW q \in Int
  PROVE  Bit(n + Power2[k] * q, i) = Bit(n, i)
  <1>1. PICK c \in Nat \ {0} : Power2[k] = Power2[i + 1] * c
    BY PowerDivides
  <1>2. Power2[i + 1] = 2 * Power2[i]
    BY Power2Step
  <1> DEFINE p == Power2[i]
             w == Power2[k]
             m == n % p
             d == n \div p
             e == d + 2 * (c * q)
  <1>3. p \in Nat \ {0} /\ w = (2 * p) * c
    BY <1>1, <1>2, Power2Step
  <1> HIDE DEF p, w
  <1>4. m \in 0 .. p - 1 /\ d \in Int /\ n = p * d + m
    BY <1>3, DivMod
  <1> HIDE DEF m, d
  <1>5. c * q \in Int
    OBVIOUS
  <1>6. n + w * q = p * e + m /\ e \in Int
    <2>1. w * q = p * (2 * (c * q))
      BY <1>3
    <2>2. e \in Int
      BY <1>4, <1>5
    <2>3. p * e = p * d + p * (2 * (c * q))
      BY <1>3, <1>4, <1>5
    <2>4. n + w * q = (p * d + m) + p * (2 * (c * q))
      BY <1>4, <2>1
    <2>5. p * d \in Int /\ p * (2 * (c * q)) \in Int
      BY <1>3, <1>4, <1>5
    <2> HIDE DEF e
    <2>6. QED BY <1>4, <2>2, <2>3, <2>4, <2>5
  <1>7. (n + w * q) \div p = e
    <2> HIDE DEF e
    <2>1. QED BY <1>3, <1>4, <1>6, ModUnique
  <1>8. e % 2 = d % 2
    BY <1>4, <1>5
  <1>9. n \div p = d
    BY DEF d
  <1> HIDE DEF e
  <1>10. QED BY <1>7, <1>8, <1>9 DEF Bit, p, w

\* In front of a number there is its sign.
LEMMA BitSign ==
  ASSUME NEW b \in Nat, NEW n \in -Power2[b] .. Power2[b] - 1, NEW k \in Nat, b <= k
  PROVE  Bit(n, k) = IF n < 0 THEN 1 ELSE 0
  <1> DEFINE w == Power2[k]
             h == Power2[b]
  <1>1. PICK c \in Nat \ {0} : Power2[k] = Power2[b] * c
    BY PowerDivides
  <1>2. h \in Nat \ {0} /\ w \in Nat \ {0} /\ h <= w
    <2>1. h \in Nat \ {0} /\ w \in Nat \ {0} /\ w = h * c
      BY <1>1, Power2Step
    <2> HIDE DEF h, w
    <2>2. QED BY <2>1
  <1>3. n \in Int /\ -h <= n /\ n <= h - 1
    BY <1>2
  <1> HIDE DEF h, w
  <1>4. CASE n < 0
    <2> DEFINE q == 0 - 1
               r == n + w
    <2>1. q \in Int /\ r \in 0 .. w - 1 /\ n = w * q + r
      BY <1>2, <1>3, <1>4
    <2> HIDE DEF q, r
    <2>2. (w * q + r) \div w = q
      BY <1>2, <2>1, ModUnique
    <2>3. n \div w = q
      BY <2>1, <2>2
    <2>4. q % 2 = 1
      <3>1. q = 2 * q + 1
        BY DEF q
      <3>2. (2 * q + 1) % 2 = 1
        BY <2>1
      <3>3. QED BY <3>1, <3>2
    <2>5. QED BY <1>4, <2>3, <2>4 DEF Bit, w
  <1>5. CASE n >= 0
    <2>1. 0 \in Int /\ n \in 0 .. w - 1 /\ n = w * 0 + n
      BY <1>2, <1>3, <1>5
    <2>2. (w * 0 + n) \div w = 0
      BY <1>2, <2>1, ModUnique
    <2>3. n \div w = 0
      BY <2>1, <2>2
    <2>4. QED BY <1>3, <1>5, <2>3 DEF Bit, w
  <1>6. QED BY <1>3, <1>4, <1>5

\* The sum that WithOnes() is.
LEMMA WithOnesUnfolds ==
  ASSUME NEW S, NEW bits \in Nat
  PROVE  \E sum : /\ WithOnes(S, bits) = sum[bits]
                  /\ sum[0] = 0
                  /\ \A k \in 1 .. bits :
                       sum[k] = sum[k - 1] + (IF k - 1 \in S THEN Power2[k - 1] ELSE 0)
  <1> DEFINE step == [p \in Nat \X Int |-> p[2] + (IF p[1] - 1 \in S THEN Power2[p[1] - 1] ELSE 0)]
  <1>1. PICK f : Follows(f, 0, step, bits)
    <2> HIDE DEF step
    <2>1. QED BY FollowsExists
  <1>2. f[0] = 0 /\ \A k \in 1 .. bits : f[k] = step[<<k, f[k - 1]>>]
    <2> HIDE DEF step
    <2>1. Unfolds(f, 0, step, bits)
      BY <1>1, FollowsPointwise
    <2>2. QED BY <2>1 DEF Unfolds
  <1> DEFINE T == {k \in Nat : k <= bits => f[k] \in Int}
  <1>3. ASSUME NEW k \in 1 .. bits, f[k - 1] \in Int
        PROVE  /\ f[k] = f[k - 1] + (IF k - 1 \in S THEN Power2[k - 1] ELSE 0)
               /\ f[k] \in Int
    <2>1. <<k, f[k - 1]>> \in Nat \X Int /\ k - 1 \in Nat
      BY <1>3
    <2>2. step[<<k, f[k - 1]>>] = f[k - 1] + (IF k - 1 \in S THEN Power2[k - 1] ELSE 0)
      BY <2>1
    <2>3. Power2[k - 1] \in Int
      BY <2>1, Power2Step
    <2> HIDE DEF step
    <2>4. f[k] = step[<<k, f[k - 1]>>]
      BY <1>2
    <2>5. f[k - 1] + (IF k - 1 \in S THEN Power2[k - 1] ELSE 0) \in Int
      BY <1>3, <2>3
    <2>6. QED BY <2>2, <2>4, <2>5
  <1>4. 0 \in T
    <2> HIDE DEF step
    <2>1. f[0] = 0
      BY <1>2
    <2>2. QED BY <2>1
  <1>5. ASSUME NEW k \in Nat, k \in T PROVE k + 1 \in T
    <2> SUFFICES ASSUME k + 1 <= bits PROVE f[k + 1] \in Int
      OBVIOUS
    <2>1. k + 1 \in 1 .. bits /\ (k + 1) - 1 = k /\ f[k] \in Int
      BY <1>5
    <2>2. QED BY <1>3, <2>1
  <1> HIDE DEF T
  <1>6. Nat \subseteq T
    BY <1>4, <1>5, AllNaturals
  <1>7. \A k \in 1 .. bits : f[k] = f[k - 1] + (IF k - 1 \in S THEN Power2[k - 1] ELSE 0)
    <2> TAKE k \in 1 .. bits
    <2>1. k - 1 \in T /\ k - 1 \in Nat /\ k - 1 <= bits
      BY <1>6
    <2>2. QED BY <1>3, <2>1 DEF T
  <1> DEFINE plus(g, k) == g[k - 1] + (IF k - 1 \in S THEN Power2[k - 1] ELSE 0)
  <1>8. f = [k \in 0 .. bits |-> IF k = 0 THEN 0 ELSE plus(f, k)]
    <2> HIDE DEF step
    <2>1. \A k \in 0 .. bits : (IF k = 0 THEN 0 ELSE step[<<k, f[k - 1]>>]) = IF k = 0 THEN 0 ELSE plus(f, k)
      <3> TAKE k \in 0 .. bits
      <3>1. CASE k = 0
        BY <3>1
      <3>2. CASE k # 0
        <4>1. k \in 1 .. bits
          BY <3>2
        <4>2. step[<<k, f[k - 1]>>] = plus(f, k)
          BY <1>2, <1>7, <4>1
        <4> HIDE DEF plus
        <4>3. QED BY <3>2, <4>2
      <3>3. QED BY <3>1, <3>2
    <2> HIDE DEF plus
    <2>2. f = [k \in 0 .. bits |-> IF k = 0 THEN 0 ELSE step[<<k, f[k - 1]>>]]
      BY <1>1 DEF Follows
    <2>3. QED BY <2>1, <2>2
  <1> DEFINE s == CHOOSE g : g = [k \in 0 .. bits |-> IF k = 0 THEN 0 ELSE plus(g, k)]
  <1>9. s = [k \in 0 .. bits |-> IF k = 0 THEN 0 ELSE plus(s, k)]
    BY <1>8, Zenon
  <1>10. WithOnes(S, bits) = s[bits]
    BY Zenon DEF WithOnes
  <1> HIDE DEF s
  <1>11. \A k \in 0 .. bits : s[k] = IF k = 0 THEN 0 ELSE plus(s, k)
    BY <1>9, Zenon
  <1>12. s[0] = 0 /\ \A k \in 1 .. bits : s[k] = plus(s, k)
    <2> HIDE DEF plus
    <2>1. 0 \in 0 .. bits
      OBVIOUS
    <2>2. \A k \in 1 .. bits : k \in 0 .. bits /\ k # 0
      OBVIOUS
    <2>3. QED BY <1>11, <2>1, <2>2, Zenon
  <1>13. QED BY <1>10, <1>12

\* A number composed of bits has just these.
LEMMA WithOnesBits ==
  ASSUME NEW S, NEW bits \in Nat
  PROVE  /\ WithOnes(S, bits) \in 0 .. Power2[bits] - 1
         /\ \A i \in 0 .. bits - 1 : Bit(WithOnes(S, bits), i) = 1 <=> i \in S
  <1>1. PICK sum : /\ WithOnes(S, bits) = sum[bits]
                   /\ sum[0] = 0
                   /\ \A k \in 1 .. bits :
                        sum[k] = sum[k - 1] + (IF k - 1 \in S THEN Power2[k - 1] ELSE 0)
    BY WithOnesUnfolds
  <1> DEFINE Right(k) == /\ sum[k] \in 0 .. Power2[k] - 1
                         /\ \A i \in 0 .. k - 1 : Bit(sum[k], i) = 1 <=> i \in S
             T == {k \in Nat : k <= bits => Right(k)}
  <1>2. 0 \in T
    <2>1. sum[0] = 0 /\ Power2[0] = 1
      BY <1>1, Power2Step
    <2>2. sum[0] \in 0 .. Power2[0] - 1
      BY <2>1
    <2>3. QED BY <2>2
  <1>3. ASSUME NEW k \in Nat, k \in T PROVE k + 1 \in T
    <2> SUFFICES ASSUME k + 1 <= bits PROVE Right(k + 1)
      OBVIOUS
    <2> DEFINE n == sum[k]
               e == IF k \in S THEN 1 ELSE 0
    <2>1. n \in 0 .. Power2[k] - 1 /\ \A i \in 0 .. k - 1 : Bit(n, i) = 1 <=> i \in S
      BY <1>3
    <2>2. Power2[k] \in Nat \ {0} /\ Power2[k + 1] = 2 * Power2[k] /\ e \in 0 .. 1
      BY Power2Step
    <2>3. sum[k + 1] = n + Power2[k] * e
      <3>1. k + 1 \in 1 .. bits /\ (k + 1) - 1 = k
        OBVIOUS
      <3>2. sum[k + 1] = n + (IF k \in S THEN Power2[k] ELSE 0)
        BY <1>1, <3>1
      <3>3. QED BY <2>2, <3>2
    <2>4. e = 1 <=> k \in S
      OBVIOUS
    <2> HIDE DEF n, e
    <2>5. sum[k + 1] \in 0 .. Power2[k + 1] - 1
      <3>1. CASE e = 0
        BY <2>1, <2>2, <2>3, <3>1
      <3>2. CASE e = 1
        BY <2>1, <2>2, <2>3, <3>2
      <3>3. QED BY <2>2, <3>1, <3>2
    <2>6. \A i \in 0 .. k - 1 : Bit(sum[k + 1], i) = 1 <=> i \in S
      <3> TAKE i \in 0 .. k - 1
      <3>1. n \in Int /\ i \in Nat /\ i < k /\ e \in Int
        BY <2>1, <2>2
      <3>2. Bit(n + Power2[k] * e, i) = Bit(n, i)
        BY <3>1, BitBelow
      <3>3. QED BY <2>1, <2>3, <3>2
    <2>7. Bit(sum[k + 1], k) = 1 <=> k \in S
      <3>1. (Power2[k] * e + n) \div Power2[k] = e
        BY <2>1, <2>2, ModUnique
      <3>2. sum[k + 1] \div Power2[k] = e
        <4>1. Power2[k] * e \in Int
          BY <2>2
        <4>2. sum[k + 1] = Power2[k] * e + n
          BY <2>1, <2>3, <4>1
        <4>3. QED BY <3>1, <4>2
      <3>3. e % 2 = e
        BY <2>2
      <3>4. QED BY <2>4, <3>2, <3>3 DEF Bit
    <2>8. QED BY <2>5, <2>6, <2>7
  <1> HIDE DEF T
  <1>4. Nat \subseteq T
    BY <1>2, <1>3, AllNaturals
  <1>5. Right(bits)
    BY <1>4 DEF T
  <1>6. QED BY <1>1, <1>5

\* Reading the low bits keeps them.
LEMMA SignedBits ==
  ASSUME NEW b \in Nat \ {0}, NEW n \in Int, NEW i \in 0 .. b - 1
  PROVE  Bit(Signed(n, b), i) = Bit(n, i)
  <1> DEFINE m == Signed(n, b)
  <1>1. PICK q \in Int : n = m + Power2[b] * q
    BY SignedRange
  <1>2. m \in Int
    <2>1. m \in -Power2[b - 1] .. Power2[b - 1] - 1 /\ Power2[b - 1] \in Nat
      BY SignedRange, Halves
    <2>2. QED BY <2>1
  <1> HIDE DEF m
  <1>3. Bit(m + Power2[b] * q, i) = Bit(m, i)
    BY <1>2, BitBelow
  <1>4. QED BY <1>1, <1>3 DEF m

-----------------------------------------------------------------------------
(***************************************************************************)
(* SmallIntegers.                                                          *)
(***************************************************************************)
LEMMA SmallIntsFacts ==
  /\ Width - 1 \in Nat \ {0} /\ Width - 2 \in Nat /\ (Width - 1) - 1 = Width - 2
  /\ Power2[Width - 2] \in Nat \ {0, 1}
  /\ Power2[Width - 1] = 2 * Power2[Width - 2] /\ Power2[Width] = 2 * Power2[Width - 1]
  /\ SmallInts \subseteq Int
  /\ \A n \in SmallInts : -Power2[Width - 2] <= n /\ n < Power2[Width - 2]
  <1>1. Width \in Nat \ {0} /\ Width >= 3
    BY PrimitivesAssumption
  <1>2. /\ Width - 1 \in Nat \ {0} /\ Width - 2 \in Nat \ {0}
        /\ (Width - 1) - 1 = Width - 2 /\ (Width - 2) - 1 \in Nat
    BY <1>1
  <1>3. /\ Power2[Width] = 2 * Power2[Width - 1]
        /\ Power2[Width - 1] = 2 * Power2[Width - 2]
        /\ Power2[Width - 2] = 2 * Power2[(Width - 2) - 1]
        /\ Power2[(Width - 2) - 1] \in Nat \ {0}
    <2>1. Power2[Width] = 2 * Power2[Width - 1]
      BY <1>1, Halves
    <2>2. Power2[Width - 1] = 2 * Power2[(Width - 1) - 1]
      BY <1>2, Halves
    <2>3. /\ Power2[(Width - 2) - 1] \in Nat \ {0}
          /\ Power2[Width - 2] = 2 * Power2[(Width - 2) - 1]
      BY <1>2, Halves
    <2>4. QED BY <1>2, <2>1, <2>2, <2>3
  <1>4. Power2[Width - 2] \in Nat \ {0, 1}
    <2> DEFINE p == Power2[Width - 2]
               q == Power2[(Width - 2) - 1]
    <2>1. q \in Nat \ {0} /\ p = 2 * q
      BY <1>3
    <2> HIDE DEF p, q
    <2>2. p \in Nat \ {0, 1}
      BY <2>1
    <2>3. QED BY <2>2 DEF p
  <1>5. SmallInts \subseteq Int /\ \A n \in SmallInts : -Power2[Width - 2] <= n /\ n < Power2[Width - 2]
    BY <1>4 DEF SmallInts
  <1>6. QED BY <1>2, <1>3, <1>4, <1>5

\* A SmallInteger is stored as it is.
LEMMA TIntegerFits ==
  ASSUME NEW n \in SmallInts
  PROVE  TInteger(n) = Small(n)
  <1>1. Signed(n, Width - 1) = n
    BY SmallIntsFacts, SignedFits
  <1>2. QED BY <1>1 DEF TInteger

\* Wrapping to the word first changes nothing.
LEMMA TIntegerSigned ==
  ASSUME NEW n \in Int
  PROVE  TInteger(Signed(n, Width)) = TInteger(n) /\ Signed(n, Width) \in Int
  <1>1. Width \in Nat \ {0} /\ Width > 1
    BY PrimitivesAssumption
  <1>2. Signed(Signed(n, Width), Width - 1) = Signed(n, Width - 1)
    BY <1>1, SignedTwice
  <1>3. Signed(n, Width) \in -Power2[Width - 1] .. Power2[Width - 1] - 1 /\ Power2[Width - 1] \in Nat
    BY <1>1, SignedRange, Halves
  <1>4. QED BY <1>2, <1>3 DEF TInteger

\* TInteger() makes a SmallInteger of every number.
LEMMA TIntegerType ==
  ASSUME NEW n \in Int
  PROVE  Signed(n, Width - 1) \in SmallInts /\ TInteger(n) \in Values
  <1>1. Signed(n, Width - 1) \in SmallInts
    <2>1. Signed(n, Width - 1) \in -Power2[(Width - 1) - 1] .. Power2[(Width - 1) - 1] - 1
      BY SmallIntsFacts, SignedRange
    <2>2. QED BY <2>1, SmallIntsFacts DEF SmallInts
  <1>2. QED BY <1>1 DEF TInteger, Values

\* From the highest bit on, a SmallInteger repeats its sign.
LEMMA HighBits ==
  ASSUME NEW n \in SmallInts, NEW k \in Nat, k >= Width - 2
  PROVE  Bit(n, k) = Bit(n, Width - 2)
  <1>1. Width - 2 \in Nat /\ n \in -Power2[Width - 2] .. Power2[Width - 2] - 1
    BY SmallIntsFacts DEF SmallInts
  <1>2. Bit(n, k) = IF n < 0 THEN 1 ELSE 0
    BY <1>1, BitSign
  <1>3. Bit(n, Width - 2) = IF n < 0 THEN 1 ELSE 0
    BY <1>1, BitSign
  <1>4. QED BY <1>2, <1>3

\* The bits that a composed word shows as a SmallInteger.
LEMMA ComposedBits ==
  ASSUME NEW S, NEW k \in 0 .. Width
  PROVE  /\ WithOnes(S, Width) \in Int
         /\ LET n == Signed(WithOnes(S, Width), Width - 1)
                j == IF k <= Width - 2 THEN k ELSE Width - 2
            IN  Bit(n, k) = 1 <=> j \in S
  <1> DEFINE x == WithOnes(S, Width)
             n == Signed(x, Width - 1)
             j == IF k <= Width - 2 THEN k ELSE Width - 2
  <1>0. Width \in Nat /\ Width - 1 \in Nat \ {0} /\ Width - 2 \in Nat
    BY PrimitivesAssumption, SmallIntsFacts
  <1>1. x \in Int /\ \A i \in 0 .. Width - 1 : Bit(x, i) = 1 <=> i \in S
    <2>1. Power2[Width] \in Nat
      BY <1>0, Power2Step
    <2>2. x \in 0 .. Power2[Width] - 1 /\ \A i \in 0 .. Width - 1 : Bit(x, i) = 1 <=> i \in S
      BY <1>0, WithOnesBits
    <2>3. QED BY <2>1, <2>2
  <1> HIDE DEF x
  <1>2. n \in SmallInts
    BY <1>1, TIntegerType
  <1>3. j \in 0 .. Width - 2 /\ j \in 0 .. (Width - 1) - 1 /\ j \in 0 .. Width - 1
    BY <1>0
  <1>4. Bit(n, j) = Bit(x, j)
    <2> HIDE DEF j
    <2>1. QED BY <1>0, <1>1, <1>3, SignedBits
  <1>5. Bit(n, k) = Bit(n, j)
    <2>1. CASE k <= Width - 2
      BY <2>1
    <2>2. CASE ~(k <= Width - 2)
      <3>1. k \in Nat /\ k >= Width - 2
        BY <1>0, <2>2
      <3> HIDE DEF n
      <3>2. QED BY <1>2, <2>2, <3>1, HighBits
    <2>3. QED BY <2>1, <2>2
  <1> HIDE DEF n, j
  <1>6. Bit(n, k) = 1 <=> j \in S
    BY <1>1, <1>3, <1>4, <1>5
  <1>7. QED BY <1>1, <1>6 DEF n, x, j

\* A bit in front of a SmallInteger is the one in its highest place.
LEMMA BitAtPlace ==
  ASSUME NEW n \in SmallInts, NEW k \in 0 .. Width
  PROVE  LET j == IF k <= Width - 2 THEN k ELSE Width - 2
         IN  /\ Bit(n, k) = Bit(n, j) /\ Bit(n, k) \in 0 .. 1
             /\ Bit(n, k) = 1 <=> j \in Ones(n, Width)
  <1>0. Width \in Nat /\ Width - 2 \in Nat /\ k \in Nat /\ n \in Int
    BY PrimitivesAssumption, SmallIntsFacts
  <1> DEFINE j == IF k <= Width - 2 THEN k ELSE Width - 2
  <1>1. Bit(n, k) = Bit(n, j)
    <2>1. CASE k <= Width - 2
      BY <2>1
    <2>2. CASE ~(k <= Width - 2)
      <3>1. k >= Width - 2
        BY <1>0, <2>2
      <3>2. QED BY <1>0, <2>2, <3>1, HighBits
    <2>3. QED BY <2>1, <2>2
  <1>2. j \in 0 .. Width - 1
    BY <1>0
  <1>3. Bit(n, k) \in 0 .. 1
    BY <1>0, BitType
  <1> HIDE DEF j
  <1>4. j \in Ones(n, Width) <=> Bit(n, j) = 1
    BY <1>2 DEF Ones
  <1>5. QED BY <1>1, <1>3, <1>4 DEF j

\* Both operations on bits are exact.
LEMMA BitOrExact ==
  ASSUME NEW l \in SmallInts, NEW r \in SmallInts
  PROVE  /\ BitOr(l, r, Width) \in Int
         /\ IsExact("bitOr", l, r, Signed(BitOr(l, r, Width), Width - 1))
  <1> DEFINE S == Ones(l, Width) \union Ones(r, Width)
  <1>1. 0 \in 0 .. Width
    BY PrimitivesAssumption
  <1>2. WithOnes(S, Width) \in Int
    BY <1>1, ComposedBits
  <1> DEFINE n == Signed(WithOnes(S, Width), Width - 1)
  <1>3. ASSUME NEW k \in 0 .. Width
        PROVE  Bit(n, k) = 1 <=> Bit(l, k) + Bit(r, k) > 0
    <2> DEFINE j == IF k <= Width - 2 THEN k ELSE Width - 2
    <2>1. Bit(n, k) = 1 <=> j \in S
      BY ComposedBits
    <2>2. /\ Bit(l, k) \in 0 .. 1 /\ Bit(r, k) \in 0 .. 1
          /\ Bit(l, k) = 1 <=> j \in Ones(l, Width)
          /\ Bit(r, k) = 1 <=> j \in Ones(r, Width)
      BY BitAtPlace
    <2> HIDE DEF j, n
    <2>3. QED BY <2>1, <2>2
  <1>4. QED BY <1>2, <1>3 DEF IsExact, BitOr

LEMMA BitAndExact ==
  ASSUME NEW l \in SmallInts, NEW r \in SmallInts
  PROVE  /\ BitAnd(l, r, Width) \in Int
         /\ IsExact("bitAnd", l, r, Signed(BitAnd(l, r, Width), Width - 1))
  <1> DEFINE S == Ones(l, Width) \intersect Ones(r, Width)
  <1>1. 0 \in 0 .. Width
    BY PrimitivesAssumption
  <1>2. WithOnes(S, Width) \in Int
    BY <1>1, ComposedBits
  <1> DEFINE n == Signed(WithOnes(S, Width), Width - 1)
  <1>3. ASSUME NEW k \in 0 .. Width
        PROVE  Bit(n, k) = 1 <=> Bit(l, k) + Bit(r, k) = 2
    <2> DEFINE j == IF k <= Width - 2 THEN k ELSE Width - 2
    <2>1. Bit(n, k) = 1 <=> j \in S
      BY ComposedBits
    <2>2. /\ Bit(l, k) \in 0 .. 1 /\ Bit(r, k) \in 0 .. 1
          /\ Bit(l, k) = 1 <=> j \in Ones(l, Width)
          /\ Bit(r, k) = 1 <=> j \in Ones(r, Width)
      BY BitAtPlace
    <2> HIDE DEF j, n
    <2>3. QED BY <2>1, <2>2
  <1>4. QED BY <1>2, <1>3 DEF IsExact, BitAnd

-----------------------------------------------------------------------------
(***************************************************************************)
(* Division.                                                               *)
(***************************************************************************)
LEMMA SquareLess ==
  ASSUME NEW a \in Int, NEW b \in Int
  PROVE  a * a < b * b <=> Abs(a) < Abs(b)
  <1>1. ASSUME NEW x \in Nat, NEW y \in Nat, x < y PROVE x * x < y * y
    <2>1. x * x <= x * y /\ x * y < y * y
      <3>1. y >= 1 /\ y - x >= 1
        BY <1>1
      <3>2. x * (y - x) >= 0 /\ (y - x) * y >= 1
        BY <3>1
      <3>3. x * (y - x) = x * y - x * x /\ (y - x) * y = y * y - x * y
        OBVIOUS
      <3>4. x * x \in Int /\ x * y \in Int /\ y * y \in Int
        OBVIOUS
      <3>5. QED BY <3>2, <3>3, <3>4
    <2>2. x * x \in Int /\ x * y \in Int /\ y * y \in Int
      OBVIOUS
    <2>3. QED BY <2>1, <2>2
  <1>2. /\ Abs(a) \in Nat /\ Abs(b) \in Nat
        /\ Abs(a) * Abs(a) = a * a /\ Abs(b) * Abs(b) = b * b
    BY DEF Abs
  <1>3. CASE Abs(a) < Abs(b)
    BY <1>1, <1>2, <1>3
  <1>4. CASE Abs(b) < Abs(a)
    <2>1. b * b < a * a /\ a * a \in Int /\ b * b \in Int
      BY <1>1, <1>2, <1>4
    <2>2. QED BY <1>2, <1>4, <2>1
  <1>5. CASE Abs(a) = Abs(b)
    <2>1. a * a = b * b /\ a * a \in Int
      BY <1>2, <1>5
    <2>2. QED BY <1>2, <1>5, <2>1
  <1>6. QED BY <1>2, <1>3, <1>4, <1>5

\* What remains of l after division by r: less than r, with the sign of l.
IsRemainder(l, r, m) == Abs(m) < Abs(r) /\ (m = 0 \/ (m < 0) = (l < 0))

LEMMA QuotientRemainder ==
  ASSUME NEW l \in Int, NEW r \in Int, r # 0
  PROVE  /\ Quotient(l, r) \in Int /\ Remainder(l, r) \in Int
         /\ l = Quotient(l, r) * r + Remainder(l, r)
         /\ IsRemainder(l, r, Remainder(l, r))
  <1> DEFINE a == Abs(l)
             d == Abs(r)
             q == a \div d
             m == a % d
  <1>1. a \in Nat /\ d \in Nat \ {0}
    BY DEF Abs
  <1>2. l = (IF l < 0 THEN -a ELSE a) /\ r = (IF r < 0 THEN -d ELSE d)
    BY DEF Abs
  <1>3. Quotient(l, r) = IF (l < 0) = (r < 0) THEN q ELSE -q
    BY DEF Quotient
  <1> HIDE DEF a, d
  <1>4. q \in Int /\ m \in 0 .. d - 1 /\ a = d * q + m
    BY <1>1, DivMod
  <1> HIDE DEF q, m
  <1>5. Quotient(l, r) \in Int
    BY <1>3, <1>4
  <1>6. Quotient(l, r) * r = IF l < 0 THEN -(d * q) ELSE d * q
    <2>1. (-q) * (-d) = d * q /\ q * d = d * q /\ (-q) * d = -(d * q) /\ q * (-d) = -(d * q)
      BY <1>1, <1>4
    <2>2. CASE l < 0
      <3>1. CASE r < 0
        BY <1>2, <1>3, <2>1, <2>2, <3>1
      <3>2. CASE ~(r < 0)
        BY <1>2, <1>3, <2>1, <2>2, <3>2
      <3>3. QED BY <3>1, <3>2
    <2>3. CASE ~(l < 0)
      <3>1. CASE r < 0
        BY <1>2, <1>3, <2>1, <2>3, <3>1
      <3>2. CASE ~(r < 0)
        BY <1>2, <1>3, <2>1, <2>3, <3>2
      <3>3. QED BY <3>1, <3>2
    <2>4. QED BY <2>2, <2>3
  <1>7. d * q \in Int
    BY <1>1, <1>4
  <1>8. Remainder(l, r) = IF l < 0 THEN -m ELSE m
    <2>1. Remainder(l, r) = l - Quotient(l, r) * r
      BY DEF Remainder
    <2>2. QED BY <1>1, <1>2, <1>4, <1>6, <1>7, <2>1
  <1>9. Remainder(l, r) \in Int
    BY <1>4, <1>8
  <1>10. l = Quotient(l, r) * r + Remainder(l, r)
    BY <1>1, <1>2, <1>4, <1>6, <1>7, <1>8
  <1>11. IsRemainder(l, r, Remainder(l, r))
    <2>1. Abs(Remainder(l, r)) = m
      BY <1>4, <1>8 DEF Abs
    <2>2. m < d
      BY <1>1, <1>4
    <2>3. \/ Remainder(l, r) = 0
          \/ (Remainder(l, r) < 0) = (l < 0)
      BY <1>4, <1>8
    <2>4. QED BY <2>1, <2>2, <2>3 DEF IsRemainder, d
  <1>12. QED BY <1>5, <1>9, <1>10, <1>11

\* There is only one such quotient and remainder.
LEMMA RemainderUnique ==
  ASSUME NEW l \in Int, NEW r \in Int, r # 0,
         NEW q \in Int, NEW m \in Int, l = q * r + m, IsRemainder(l, r, m)
  PROVE  q = Quotient(l, r) /\ m = Remainder(l, r)
  <1> DEFINE p == Quotient(l, r)
             n == Remainder(l, r)
  <1>1. p \in Int /\ n \in Int /\ l = p * r + n /\ IsRemainder(l, r, n)
    BY QuotientRemainder
  <1> HIDE DEF p, n
  <1>2. (q - p) * r = n - m /\ q - p \in Int
    BY <1>1
  <1>3. Abs(n - m) < Abs(r)
    BY <1>1 DEF IsRemainder, Abs
  <1> DEFINE x == q - p
             y == n - m
  <1>4. x \in Int /\ y \in Int /\ x * r = y /\ Abs(y) < Abs(r)
    BY <1>1, <1>2, <1>3
  <1>5. q = p + x /\ n = m + y
    BY <1>1
  <1> HIDE DEF x, y
  <1>6. x = 0
    <2>1. CASE x >= 1 /\ r > 0
      <3>1. x * r >= r
        BY <1>4, <2>1
      <3>2. QED BY <1>4, <2>1, <3>1 DEF Abs
    <2>2. CASE x >= 1 /\ r < 0
      <3>1. x * (-r) >= -r /\ x * (-r) = -(x * r)
        BY <1>4, <2>2
      <3>2. QED BY <1>4, <2>2, <3>1 DEF Abs
    <2>3. CASE x <= -1 /\ r > 0
      <3>1. (-x) * r >= r /\ (-x) * r = -(x * r)
        BY <1>4, <2>3
      <3>2. QED BY <1>4, <2>3, <3>1 DEF Abs
    <2>4. CASE x <= -1 /\ r < 0
      <3>1. (-x) * (-r) >= -r /\ (-x) * (-r) = x * r
        BY <1>4, <2>4
      <3>2. QED BY <1>4, <2>4, <3>1 DEF Abs
    <2>5. QED BY <1>4, <2>1, <2>2, <2>3, <2>4
  <1>7. y = 0
    BY <1>4, <1>6
  <1>8. QED BY <1>1, <1>5, <1>6, <1>7 DEF p, n

-----------------------------------------------------------------------------
(***************************************************************************)
(* The primitives on integers.                                             *)
(***************************************************************************)
\* Where only one number is right and the primitive answers with it.
LEMMA OnlyRight ==
  ASSUME NEW op \in SmallIntOps, NEW l \in SmallInts, NEW r \in SmallInts, NEW m \in Int,
         \A n \in SmallInts : IsExact(op, l, r, n) => n = m
  PROVE  RightReply(op, l, r, TInteger(m))
  <1>1. TInteger(m).type = "int"
    BY DEF TInteger, Small
  <1>2. ASSUME Representable(op, l, r) PROVE IsExact(op, l, r, TInteger(m).is)
    <2>1. PICK n \in SmallInts : IsExact(op, l, r, n)
      BY <1>2 DEF Representable
    <2>2. n = m /\ TInteger(m).is = m
      BY <2>1, TIntegerFits DEF Small
    <2>3. QED BY <2>1, <2>2
  <1>3. QED BY <1>1, <1>2 DEF RightReply

LEMMA SumRight ==
  ASSUME NEW op \in {"add", "sub", "mul"}, NEW l \in SmallInts, NEW r \in SmallInts,
         NEW m \in Int, IsExact(op, l, r, m)
  PROVE  RightReply(op, l, r, TInteger(Signed(m, Width)))
  <1>1. \A n \in SmallInts : IsExact(op, l, r, n) => n = m
    <2>1. CASE op = "add"
      BY <2>1 DEF IsExact
    <2>2. CASE op = "sub"
      BY <2>2 DEF IsExact
    <2>3. CASE op = "mul"
      BY <2>3 DEF IsExact
    <2>4. QED BY <2>1, <2>2, <2>3
  <1>2. RightReply(op, l, r, TInteger(m))
    BY <1>1, OnlyRight DEF SmallIntOps
  <1>3. QED BY <1>2, TIntegerSigned

LEMMA DivRight ==
  ASSUME NEW l \in SmallInts, NEW r \in SmallInts, r # 0
  PROVE  /\ RightReply("div", l, r, TInteger(Quotient(l, r)))
         /\ RightReply("mod", l, r, TInteger(Remainder(l, r)))
  <1>1. l \in Int /\ r \in Int /\ SmallInts \subseteq Int
    BY SmallIntsFacts
  <1>2. Quotient(l, r) \in Int /\ Remainder(l, r) \in Int
    BY <1>1, QuotientRemainder
  <1>3. ASSUME NEW n \in SmallInts, IsExact("div", l, r, n) PROVE n = Quotient(l, r)
    <2>1. PICK m \in SmallInts : l = n * r + m /\ m * m < r * r /\ (m = 0 \/ (m < 0) = (l < 0))
      BY <1>3 DEF IsExact
    <2>2. m \in Int /\ n \in Int
      BY <1>1
    <2>3. IsRemainder(l, r, m)
      BY <1>1, <2>1, <2>2, SquareLess DEF IsRemainder
    <2>4. QED BY <1>1, <2>1, <2>2, <2>3, RemainderUnique
  <1>4. ASSUME NEW n \in SmallInts, IsExact("mod", l, r, n) PROVE n = Remainder(l, r)
    <2>1. PICK q \in -Power2[Width] .. Power2[Width] : l = q * r + n
      BY <1>4 DEF IsExact
    <2>2. n * n < r * r /\ (n = 0 \/ (n < 0) = (l < 0))
      BY <1>4 DEF IsExact
    <2>3. q \in Int /\ n \in Int
      <3>1. Power2[Width] \in Nat
        BY PrimitivesAssumption, Power2Step
      <3>2. QED BY <1>1, <3>1
    <2>4. IsRemainder(l, r, n)
      BY <1>1, <2>2, <2>3, SquareLess DEF IsRemainder
    <2>5. QED BY <1>1, <2>1, <2>3, <2>4, RemainderUnique
  <1>5. "div" \in SmallIntOps /\ "mod" \in SmallIntOps
    BY DEF SmallIntOps
  <1>6. QED BY <1>2, <1>3, <1>4, <1>5, OnlyRight

LEMMA BitsRight ==
  ASSUME NEW l \in SmallInts, NEW r \in SmallInts
  PROVE  /\ RightReply("bitOr", l, r, TInteger(BitOr(l, r, Width)))
         /\ RightReply("bitAnd", l, r, TInteger(BitAnd(l, r, Width)))
  BY BitOrExact, BitAndExact DEF RightReply, TInteger, Small

\* What is left when a number is shifted to the right.
LEMMA ShiftRightRight ==
  ASSUME NEW l \in SmallInts, NEW r \in SmallInts, r < 0
  PROVE  RightReply("bitShift", l, r, TInteger(l \div Power2[-r])) /\ l \div Power2[-r] \in Int
  <1>1. l \in Int /\ -r \in Nat /\ SmallInts \subseteq Int /\ r \in Int
    BY SmallIntsFacts
  <1> DEFINE p == Power2[-r]
             d == l \div p
             m == l % p
  <1>2. p \in Nat \ {0}
    BY <1>1, Power2Step
  <1>3. d \in Int
    <2> HIDE DEF p
    <2>1. QED BY <1>1, <1>2, DivMod
  <1>4. ASSUME NEW n \in SmallInts, IsExact("bitShift", l, r, n) PROVE n = d
    <2>1. ~(r >= 0)
      BY <1>1
    <2>2. n * p <= l /\ l < (n + 1) * p /\ n \in Int
      BY <1>1, <1>4, <2>1 DEF IsExact
    <2> HIDE DEF p
    <2>3. m \in 0 .. p - 1 /\ l = p * d + m
      BY <1>1, <1>2, DivMod
    <2> HIDE DEF d, m
    <2>4. ~(n - d >= 1)
      <3>1. ASSUME n - d >= 1 PROVE FALSE
        <4>1. (n - d) * p >= p /\ (n - d) * p = n * p - p * d
          BY <1>2, <1>3, <2>2, <3>1
        <4>2. n * p \in Int /\ p * d \in Int
          BY <1>2, <1>3, <2>2
        <4>3. QED BY <1>1, <1>2, <2>2, <2>3, <4>1, <4>2
      <3>2. QED BY <3>1
    <2>5. ~(d - n >= 1)
      <3>1. ASSUME d - n >= 1 PROVE FALSE
        <4>1. (d - n) * p >= p /\ (d - n) * p = p * d - n * p /\ (n + 1) * p = n * p + p
          BY <1>2, <1>3, <2>2, <3>1
        <4>2. n * p \in Int /\ p * d \in Int
          BY <1>2, <1>3, <2>2
        <4>3. QED BY <1>1, <1>2, <2>2, <2>3, <4>1, <4>2
      <3>2. QED BY <3>1
    <2>6. QED BY <1>3, <2>2, <2>4, <2>5
  <1> HIDE DEF d
  <1>5. "bitShift" \in SmallIntOps
    BY DEF SmallIntOps
  <1>6. RightReply("bitShift", l, r, TInteger(d))
    BY <1>3, <1>4, <1>5, OnlyRight
  <1>7. QED BY <1>3, <1>6 DEF d, p

\* Shifting to the left: the sign of an overflow, where it shows, is a failure.
LEMMA ShiftLeftRight ==
  ASSUME NEW l \in SmallInts, NEW r \in SmallInts, r >= 0
  PROVE  LET result == Signed(l * Power2[r], Width)
         IN  /\ result \in Int /\ l * Power2[r] \in Int
             /\ RightReply("bitShift", l, r, TInteger(result))
             /\ l > result => r > 0 /\ (l < 0 \/ ~Representable("bitShift", l, r))
  <1>1. l \in Int /\ r \in Nat /\ SmallInts \subseteq Int /\ Width \in Nat \ {0}
    BY SmallIntsFacts, PrimitivesAssumption
  <1> DEFINE p == Power2[r]
             x == l * p
             result == Signed(x, Width)
  <1>2. p \in Nat \ {0}
    BY <1>1, Power2Step
  <1>3. x \in Int
    <2> HIDE DEF p
    <2>1. QED BY <1>1, <1>2
  <1>4. result \in Int /\ TInteger(result) = TInteger(x)
    <2> HIDE DEF x
    <2>1. QED BY <1>3, TIntegerSigned
  <1>5. \A n \in SmallInts : IsExact("bitShift", l, r, n) <=> n = x
    <2> TAKE n \in SmallInts
    <2>1. IsExact("bitShift", l, r, n) <=> IF r >= 0 THEN n = x ELSE n * Power2[-r] <= l /\ l < (n + 1) * Power2[-r]
      <3> HIDE DEF x
      <3>1. x = l * Power2[r]
        BY DEF x
      <3>2. QED BY <3>1 DEF IsExact
    <2> HIDE DEF x
    <2>2. QED BY <2>1
  <1>6. RightReply("bitShift", l, r, TInteger(x))
    <2> HIDE DEF x
    <2>1. "bitShift" \in SmallIntOps
      BY DEF SmallIntOps
    <2>2. QED BY <1>3, <1>5, <2>1, OnlyRight
  <1>7. ASSUME NEW n \in SmallInts, n = x PROVE result = x
    <2>1. Power2[Width - 1] = 2 * Power2[Width - 2] /\ Power2[Width - 2] \in Nat
      BY SmallIntsFacts
    <2>2. -Power2[Width - 2] <= n /\ n < Power2[Width - 2] /\ n \in Int
      BY SmallIntsFacts
    <2>3. -Power2[Width - 1] <= n /\ n < Power2[Width - 1]
      BY <2>1, <2>2
    <2> HIDE DEF x
    <2>4. QED BY <1>1, <1>7, <2>2, <2>3, SignedFits
  <1>8. ASSUME l > result PROVE r > 0
    <2> SUFFICES ASSUME r = 0 PROVE FALSE
      BY <1>1
    <2>1. p = 1
      BY Power2Step
    <2>2. x = l
      BY <1>1, <2>1
    <2>3. result = x
      <3> HIDE DEF x, result
      <3>1. QED BY <1>7, <2>2
    <2>4. QED BY <1>1, <1>8, <2>2, <2>3
  <1>9. ASSUME l > result, ~(l < 0), Representable("bitShift", l, r) PROVE FALSE
    <2> HIDE DEF result, x
    <2>1. PICK n \in SmallInts : n = x
      BY <1>5, <1>9 DEF Representable
    <2>2. result = x
      BY <1>7, <2>1
    <2> HIDE DEF p
    <2>3. x >= l
      BY <1>1, <1>2, <1>9 DEF x
    <2>4. QED BY <1>1, <1>3, <1>9, <2>2, <2>3
  <1> HIDE DEF p
  <1>10. result \in Int /\ x \in Int /\ RightReply("bitShift", l, r, TInteger(result))
    BY <1>3, <1>4, <1>6
  <1>11. l > result => r > 0 /\ (l < 0 \/ ~Representable("bitShift", l, r))
    BY <1>8, <1>9
  <1>12. QED BY <1>10, <1>11 DEF p

LEMMA FailedRight ==
  ASSUME NEW op, NEW l, NEW r,
         \/ op \in {"div", "mod"} /\ r = 0
         \/ op = "bitShift" /\ r > 0 /\ (l < 0 \/ ~Representable(op, l, r))
  PROVE  RightReply(op, l, r, Failed.reply)
  BY DEF RightReply, Failed, Replied, isSmallInteger

\* Nothing is asked of a shift by the width of the word or more.
LEMMA AnyRight ==
  ASSUME NEW l, NEW r, r >= Width \/ -r >= Width, NEW o \in AnyInteger \union {Failed}
  PROVE  RightReply("bitShift", l, r, o.reply)
  BY DEF RightReply, AnyInteger, Failed, Replied, Small, isSmallInteger

\* Nothing but the reply, a value, is an effect of arithmetic.
NoEffect(o) == o.heap = heap /\ o.outside = {} /\ o.files = files /\ o.reply.type # "wild"

LEMMA RepliedFacts ==
  /\ \A v : Replied(v).reply = v
  /\ \A v : v.type # "wild" => NoEffect(Replied(v))
  /\ \A n : NoEffect(Replied(TInteger(n))) /\ NoEffect(Replied(Small(n)))
  /\ \A b : NoEffect(Replied(Bool(b)))
  /\ NoEffect(Failed) /\ Failed.reply.type = "failed"
  /\ NoEffect(Broken) /\ Broken.reply.type = "broken"
  <1>1. \A v : /\ Replied(v).reply = v /\ Replied(v).heap = heap
               /\ Replied(v).outside = {} /\ Replied(v).files = files
    BY DEF Replied
  <1>2. \A n : Small(n).type = "int" /\ TInteger(n).type = "int"
    BY DEF Small, TInteger
  <1>3. ASSUME NEW b PROVE Bool(b).type = "ref"
    BY DEF Bool, Ref
  <1>4. /\ [type |-> "failed", is |-> nilObject].type = "failed"
        /\ [type |-> "broken", is |-> nilObject].type = "broken"
    OBVIOUS
  <1>5. "int" # "wild" /\ "ref" # "wild" /\ "failed" # "wild" /\ "broken" # "wild"
    OBVIOUS
  <1>6. QED BY <1>1, <1>2, <1>3, <1>4, <1>5 DEF NoEffect, Failed, Broken

\* The interpreter's arithmetic.
LEMMA InterpreterArithmetic ==
  ASSUME NEW op \in SmallIntOps, NEW l \in SmallInts, NEW r \in SmallInts,
         NEW o \in callSmallIntPrimitive(op, l, r)
  PROVE  /\ op \notin {"less", "equal"} => RightReply(op, l, r, o.reply)
         /\ NoEffect(o)
  <1>0. l \in Int /\ r \in Int /\ Width \in Int
    BY SmallIntsFacts, PrimitivesAssumption
  <1>1. CASE op = "add"
    <2>1. o = Replied(TInteger(Signed(l + r, Width))) /\ l + r \in Int /\ IsExact(op, l, r, l + r)
      BY <1>0, <1>1 DEF callSmallIntPrimitive, IsExact
    <2>2. QED BY <1>1, <2>1, SumRight, RepliedFacts
  <1>2. CASE op = "sub"
    <2>1. o = Replied(TInteger(Signed(l - r, Width))) /\ l - r \in Int /\ IsExact(op, l, r, l - r)
      BY <1>0, <1>2 DEF callSmallIntPrimitive, IsExact
    <2>2. QED BY <1>2, <2>1, SumRight, RepliedFacts
  <1>3. CASE op = "mul"
    <2>1. o = Replied(TInteger(Signed(l * r, Width))) /\ l * r \in Int /\ IsExact(op, l, r, l * r)
      BY <1>0, <1>3 DEF callSmallIntPrimitive, IsExact
    <2>2. QED BY <1>3, <2>1, SumRight, RepliedFacts
  <1>4. CASE op = "div"
    <2>1. o = IF r = 0 THEN Failed ELSE Replied(TInteger(Quotient(l, r)))
      BY <1>4 DEF callSmallIntPrimitive
    <2>2. QED BY <1>4, <2>1, DivRight, FailedRight, RepliedFacts
  <1>5. CASE op = "mod"
    <2>1. o = IF r = 0 THEN Failed ELSE Replied(TInteger(Remainder(l, r)))
      BY <1>5 DEF callSmallIntPrimitive
    <2>2. QED BY <1>5, <2>1, DivRight, FailedRight, RepliedFacts
  <1>6. CASE op \in {"less", "equal"}
    <2>1. o = Replied(Bool(l < r)) \/ o = Replied(Bool(l = r))
      BY <1>6 DEF callSmallIntPrimitive
    <2>2. QED BY <1>6, <2>1, RepliedFacts
  <1>7. CASE op = "bitOr"
    <2>1. o = Replied(TInteger(BitOr(l, r, Width)))
      BY <1>7 DEF callSmallIntPrimitive
    <2>2. QED BY <1>7, <2>1, BitsRight, RepliedFacts
  <1>8. CASE op = "bitAnd"
    <2>1. o = Replied(TInteger(BitAnd(l, r, Width)))
      BY <1>8 DEF callSmallIntPrimitive
    <2>2. QED BY <1>8, <2>1, BitsRight, RepliedFacts
  <1>9. CASE op = "bitShift" /\ r < 0
    <2>1. o \in ShiftRight(l, -r)
      BY <1>9 DEF callSmallIntPrimitive
    <2>2. CASE -r >= Width
      <3>1. o \in AnyInteger
        BY <2>1, <2>2 DEF ShiftRight
      <3>2. RightReply(op, l, r, o.reply)
        BY <1>9, <2>2, <3>1, AnyRight
      <3>3. QED BY <3>1, <3>2, RepliedFacts DEF AnyInteger
    <2>3. CASE ~(-r >= Width)
      <3>1. o = Replied(TInteger(l \div Power2[-r]))
        BY <2>1, <2>3 DEF ShiftRight
      <3>2. QED BY <1>9, <3>1, ShiftRightRight, RepliedFacts
    <2>4. QED BY <2>2, <2>3
  <1>10. CASE op = "bitShift" /\ ~(r < 0)
    <2> DEFINE result == Signed(l * Power2[r], Width)
    <2>0. r >= 0
      BY <1>0, <1>10
    <2>1. o \in ShiftLeft(l, r)
      BY <1>10 DEF callSmallIntPrimitive
    <2>2. CASE r >= Width
      <3>1. o \in AnyInteger \union {Failed}
        BY <2>1, <2>2 DEF ShiftLeft
      <3>2. RightReply(op, l, r, o.reply)
        BY <1>10, <2>2, <3>1, AnyRight
      <3>3. QED BY <3>1, <3>2, RepliedFacts DEF AnyInteger
    <2>3. CASE ~(r >= Width)
      <3>1. o = IF l > result THEN Failed ELSE Replied(TInteger(result))
        BY <2>1, <2>3 DEF ShiftLeft
      <3>2. /\ RightReply(op, l, r, TInteger(result))
            /\ l > result => r > 0 /\ (l < 0 \/ ~Representable(op, l, r))
        BY <1>10, <2>0, ShiftLeftRight
      <3> HIDE DEF result
      <3>3. CASE l > result
        BY <1>10, <3>1, <3>2, <3>3, FailedRight, RepliedFacts
      <3>4. CASE ~(l > result)
        BY <1>10, <3>1, <3>2, <3>4, RepliedFacts
      <3>5. QED BY <3>3, <3>4
    <2>4. QED BY <2>2, <2>3
  <1>11. QED
    BY <1>1, <1>2, <1>3, <1>4, <1>5, <1>6, <1>7, <1>8, <1>9, <1>10 DEF SmallIntOps

\* Compiled arithmetic has the same outcomes.
LEMMA SameArithmetic ==
  ASSUME NEW op \in SmallIntOps, NEW l \in SmallInts, NEW r \in SmallInts
  PROVE  callSmallIntPrimitive(op, l, r) = compileSmallIntPrimitive(op, l, r)
  <1>0. l \in Int /\ r \in Int /\ Width \in Int
    BY SmallIntsFacts, PrimitivesAssumption
  <1>1. CASE op \in {"add", "sub", "mul", "less", "equal"}
    BY <1>1 DEF callSmallIntPrimitive, compileSmallIntPrimitive
  <1>2. CASE op \in {"div", "mod"}
    BY <1>2 DEF callSmallIntPrimitive, compileSmallIntPrimitive
  <1>3. CASE op \in {"bitOr", "bitAnd"}
    <2>1. /\ TInteger(Signed(BitOr(l, r, Width), Width)) = TInteger(BitOr(l, r, Width))
          /\ TInteger(Signed(BitAnd(l, r, Width), Width)) = TInteger(BitAnd(l, r, Width))
      BY BitOrExact, BitAndExact, TIntegerSigned
    <2>2. QED BY <1>3, <2>1 DEF callSmallIntPrimitive, compileSmallIntPrimitive
  <1>4. CASE op = "bitShift" /\ r < 0
    <2>1. TInteger(Signed(l \div Power2[-r], Width)) = TInteger(l \div Power2[-r])
      BY <1>4, ShiftRightRight, TIntegerSigned
    <2>2. QED BY <1>4, <2>1 DEF callSmallIntPrimitive, compileSmallIntPrimitive, ShiftRight
  <1>5. CASE op = "bitShift" /\ ~(r < 0)
    <2> DEFINE result == Signed(l * Power2[r], Width)
    <2>1. TInteger(Signed(result, Width)) = TInteger(result) /\ r >= 0
      <3>1. r >= 0
        BY <1>0, <1>5
      <3>2. result \in Int
        BY <3>1, ShiftLeftRight
      <3>3. QED BY <3>1, <3>2, TIntegerSigned
    <2>2. callSmallIntPrimitive(op, l, r) = ShiftLeft(l, r)
      BY <1>5 DEF callSmallIntPrimitive
    <2>3. compileSmallIntPrimitive(op, l, r) =
            IF r >= Width THEN AnyInteger \cup {Failed}
            ELSE IF l > result THEN {Failed} ELSE {Replied(TInteger(Signed(result, Width)))}
      BY <1>5, <2>1 DEF compileSmallIntPrimitive
    <2>4. QED BY <2>1, <2>2, <2>3 DEF ShiftLeft
  <1>6. QED BY <1>1, <1>2, <1>3, <1>4, <1>5 DEF SmallIntOps

-----------------------------------------------------------------------------
(***************************************************************************)
(* The heap.                                                               *)
(***************************************************************************)
Contents(o) == IF o \in Strings THEN Bytes ELSE Values \union {Wild}

HeapOK(h) ==
  /\ DOMAIN h = Objects
  /\ \A o \in Objects : h[o] \in Seq(Contents(o)) /\ Len(h[o]) = Len(InitialHeap[o])

\* The fields of arrays hold values.
Unspoilt(h) == \A a \in Arrays : \A k \in 1 .. Len(h[a]) : h[a][k] # Wild

TypesKept == HeapOK(heap) /\ files \subseteq Descriptors

LEMMA TypeOKParts == TypeOK => TypesKept
  BY PrimitivesAssumption DEF TypesKept, TypeOK, HeapOK, Objects, Contents

LEMMA InitialHeapOK == HeapOK(InitialHeap) /\ Unspoilt(InitialHeap)
  <1>1. HeapOK(InitialHeap)
    BY PrimitivesAssumption DEF HeapOK, Objects, Contents
  <1>2. \A v \in Values : v # Wild
    <2>1. \A v \in Values : v.type # "wild"
      BY DEF Values, Small, Ref
    <2>2. QED BY <2>1 DEF Wild
  <1>3. QED BY <1>1, <1>2, PrimitivesAssumption DEF Unspoilt

\* A word has at least a byte.
LEMMA WordFacts ==
  /\ \A m, n \in Nat : m < n => WordBytes * m < WordBytes * n
  /\ \A n \in Nat : n <= WordBytes * n /\ WordBytes * n \in Nat
  <1>1. WordBytes \in Nat /\ WordBytes >= 1
    BY PrimitivesAssumption
  <1>2. ASSUME NEW m \in Nat, NEW n \in Nat, m < n
        PROVE  WordBytes * m < WordBytes * n
    <2> DEFINE less == WordBytes * m
               more == WordBytes * n
               between == WordBytes * (n - m)
    <2>1. between >= 1 /\ between \in Int
      BY <1>1, <1>2
    <2>2. more = less + between
      BY <1>1
    <2>3. less \in Nat /\ more \in Nat
      BY <1>1
    <2> HIDE DEF less, more, between
    <2>4. less < more
      BY <2>1, <2>2, <2>3
    <2>5. QED BY <2>4 DEF less, more
  <1>3. ASSUME NEW n \in Nat
        PROVE  n <= WordBytes * n /\ WordBytes * n \in Nat
    <2>1. (WordBytes - 1) * n \in Nat
      BY <1>1
    <2>2. WordBytes * n = (WordBytes - 1) * n + n
      BY <1>1
    <2>3. QED BY <2>1, <2>2
  <1>4. QED BY <1>2, <1>3

\* An index passes both tests just when it is inside of the object.
LEMMA InBoundsIff ==
  ASSUME HeapOK(heap), NEW o \in Objects, NEW i \in SmallInts
  PROVE  /\ InBounds(i - 1, o) <=> i \in 1 .. Len(heap[o])
         /\ i - 1 >= 0 /\ i - 1 < Len(heap[o]) <=> i \in 1 .. Len(heap[o])
         /\ TooLong(i, o) <=> ~(i \in 0 .. Len(heap[o]))
         /\ Len(heap[o]) \in Nat /\ i \in Int
  <1> DEFINE size == Len(heap[o])
             h == Power2[Width - 1]
             p == Power2[Width - 2]
  <1>1. size \in SmallInts /\ size \in Nat
    BY PrimitivesAssumption DEF HeapOK, Objects
  <1>2. h \in Nat /\ h = 2 * p /\ p \in Nat \ {0, 1} /\ Width \in Nat \ {0}
    BY SmallIntsFacts, PrimitivesAssumption
  <1>3. i \in Int /\ -p <= i /\ i < p /\ size < p
    BY <1>1, SmallIntsFacts
  <1> HIDE DEF size, h, p
  <1>4. size \in 0 .. h /\ i - 1 \in -h .. h /\ i \in -h .. h /\ size + 1 \in 0 .. h
    BY <1>1, <1>2, <1>3
  <1>5. Unsigned(i - 1, Width) < size <=> 0 <= i - 1 /\ i - 1 < size
    BY <1>2, <1>4, UnsignedBelow DEF h
  <1>6. Unsigned(i, Width) < size + 1 <=> 0 <= i /\ i < size + 1
    BY <1>2, <1>4, UnsignedBelow DEF h
  <1>7. InBounds(i - 1, o) <=> i \in 1 .. size
    BY <1>1, <1>3, <1>5 DEF InBounds, size
  <1>8. TooLong(i, o) <=> ~(i \in 0 .. size)
    <2>1. Unsigned(i, Width) \in Int
      <3>1. Power2[Width] \in Nat \ {0}
        BY <1>2, Power2Step
      <3>2. QED BY <1>3, <3>1 DEF Unsigned
    <2>2. TooLong(i, o) <=> Unsigned(i, Width) > size
      BY DEF TooLong, size
    <2>3. QED BY <1>1, <1>3, <1>6, <2>1, <2>2
  <1>9. QED BY <1>1, <1>3, <1>7, <1>8 DEF size

LEMMA ByteOK == ASSUME NEW n \in Int PROVE Byte(n) \in Bytes
  <1>1. Power2[ByteBits] \in Nat \ {0}
    BY PrimitivesAssumption, Power2Step
  <1>2. n % Power2[ByteBits] \in 0 .. Power2[ByteBits] - 1
    BY <1>1, DivMod
  <1>3. QED BY <1>2 DEF Byte, Unsigned, Bytes

LEMMA FileByteOK == FileByte \in Bytes /\ 0 \in Bytes
  <1>1. /\ Power2[ByteBits] = 2 * Power2[ByteBits - 1]
        /\ Power2[ByteBits - 1] \in Nat \ {0}
    BY PrimitivesAssumption, Halves
  <1>2. QED BY <1>1 DEF FileByte, Bytes

\* One object gets other contents.
LEMMA Overwritten ==
  ASSUME HeapOK(heap), NEW o \in Objects, NEW f,
         f = [j \in DOMAIN heap[o] |-> f[j]],
         \A j \in DOMAIN heap[o] : f[j] \in Contents(o)
  PROVE  /\ HeapOK([heap EXCEPT ![o] = f])
         /\ Unspoilt(heap) /\ (o \in Arrays => \A j \in DOMAIN heap[o] : f[j] # Wild) =>
              Unspoilt([heap EXCEPT ![o] = f])
  <1>1. heap[o] \in Seq(Contents(o)) /\ Len(heap[o]) \in Nat /\ DOMAIN heap[o] = 1 .. Len(heap[o])
    BY DEF HeapOK
  <1>2. f \in [1 .. Len(heap[o]) -> Contents(o)]
    BY <1>1
  <1>3. f \in Seq(Contents(o)) /\ Len(f) = Len(heap[o])
    BY <1>1, <1>2
  <1>4. HeapOK([heap EXCEPT ![o] = f])
    BY <1>3 DEF HeapOK
  <1>5. ASSUME Unspoilt(heap), o \in Arrays => \A j \in DOMAIN heap[o] : f[j] # Wild
        PROVE  Unspoilt([heap EXCEPT ![o] = f])
    <2>1. DOMAIN heap = Objects
      BY DEF HeapOK
    <2>2. ASSUME NEW a \in Arrays
          PROVE  [heap EXCEPT ![o] = f][a] = IF a = o THEN f ELSE heap[a]
      BY <2>1 DEF Objects
    <2>3. QED BY <1>1, <1>3, <1>5, <2>2 DEF Unspoilt
  <1>6. QED BY <1>4, <1>5

LEMMA PutFieldsOK ==
  ASSUME HeapOK(heap), NEW o \in Objects, NEW k \in Nat, NEW words,
         words \in Seq(Values), Len(words) \in Nat
  PROVE  LET out == PutFields(o, k, words)
         IN  /\ HeapOK(out.heap) /\ out.reply = Ref(o) /\ out.files = files
             /\ out.outside = Outside(o, WordBytes * k, WordBytes * (k + Len(words)))
             /\ Unspoilt(heap) => Unspoilt(out.heap)
  <1> DEFINE out == PutFields(o, k, words)
             from == WordBytes * k
             to == WordBytes * (k + Len(words))
             f == [j \in DOMAIN heap[o] |->
                     IF Offset(o, j) \notin from .. to - 1 THEN heap[o][j]
                     ELSE IF o \in Strings THEN SomeByte ELSE words[j - k]]
  <1>1. /\ out.heap = [heap EXCEPT ![o] = f] /\ out.reply = Ref(o) /\ out.files = files
        /\ out.outside = Outside(o, from, to)
    BY DEF PutFields, Replied
  <1>2. /\ heap[o] \in Seq(Contents(o)) /\ Len(heap[o]) \in Nat
        /\ DOMAIN heap[o] = 1 .. Len(heap[o])
    BY DEF HeapOK
  <1>3. \A v \in Values : v # Wild
    <2>1. \A v \in Values : v.type # "wild"
      BY DEF Values, Small, Ref
    <2>2. QED BY <2>1 DEF Wild
  <1>4. ASSUME NEW j \in DOMAIN heap[o], o \notin Strings, Offset(o, j) \in from .. to - 1
        PROVE  words[j - k] \in Values
    <2>1. Offset(o, j) = WordBytes * (j - 1) /\ j \in Nat /\ j >= 1
      BY <1>2, <1>4 DEF Offset
    <2>2. k <= j - 1
      <3>1. SUFFICES ASSUME j - 1 < k PROVE FALSE
        BY <2>1
      <3>2. WordBytes * (j - 1) < WordBytes * k /\ WordBytes * (j - 1) \in Nat /\ WordBytes * k \in Nat
        <4>1. j - 1 \in Nat
          BY <2>1
        <4>2. QED BY <3>1, <4>1, WordFacts
      <3> DEFINE offset == WordBytes * (j - 1)
      <3>3. offset \in from .. to - 1 /\ offset < from /\ offset \in Nat /\ from \in Nat
        BY <1>4, <2>1, <3>2
      <3> HIDE DEF offset, from, to
      <3>4. QED BY <3>3
    <2>3. j - 1 < k + Len(words)
      <3>1. SUFFICES ASSUME k + Len(words) <= j - 1 PROVE FALSE
        BY <2>1
      <3>2. to \in Nat /\ WordBytes * (j - 1) \in Nat
        <4>1. k + Len(words) \in Nat /\ j - 1 \in Nat
          BY <2>1
        <4> DEFINE x == k + Len(words)
                   y == j - 1
        <4>2. x \in Nat /\ y \in Nat
          BY <4>1
        <4> HIDE DEF x, y
        <4>3. WordBytes * x \in Nat /\ WordBytes * y \in Nat
          BY <4>2, WordFacts
        <4>4. QED BY <4>3 DEF x, y
      <3>3. WordBytes * (j - 1) <= to - 1
        BY <1>4, <2>1, <3>2
      <3>4. CASE k + Len(words) = j - 1
        <4>1. WordBytes * (j - 1) = to
          BY <3>4
        <4> HIDE DEF to
        <4>2. QED BY <3>2, <3>3, <4>1
      <3>5. CASE k + Len(words) < j - 1
        <4>1. to < WordBytes * (j - 1)
          <5>1. k + Len(words) \in Nat /\ j - 1 \in Nat
            BY <2>1
          <5>2. QED BY <3>5, <5>1, WordFacts
        <4> HIDE DEF to
        <4>2. QED BY <3>2, <3>3, <4>1
      <3>6. QED BY <2>1, <3>1, <3>4, <3>5
    <2>4. j - k \in 1 .. Len(words)
      BY <2>1, <2>2, <2>3
    <2>5. QED BY <2>4
  <1>5. ASSUME NEW j \in DOMAIN heap[o]
        PROVE  /\ f[j] \in Contents(o)
               /\ o \in Arrays => f[j] = heap[o][j] \/ f[j] # Wild
    <2>1. heap[o][j] \in Contents(o)
      BY <1>2
    <2>2. o \in Strings <=> o \notin Arrays
      BY PrimitivesAssumption DEF Objects
    <2>3. f[j] = IF Offset(o, j) \notin from .. to - 1 THEN heap[o][j]
                 ELSE IF o \in Strings THEN SomeByte ELSE words[j - k]
      OBVIOUS
    <2> HIDE DEF from, to, f
    <2>4. o \notin Strings /\ Offset(o, j) \in from .. to - 1 => words[j - k] \in Values
      BY <1>4
    <2>5. CASE Offset(o, j) \notin from .. to - 1
      BY <2>1, <2>3, <2>5
    <2>6. CASE Offset(o, j) \in from .. to - 1 /\ o \in Strings
      BY <2>2, <2>3, <2>6, FileByteOK DEF Contents, SomeByte
    <2>7. CASE Offset(o, j) \in from .. to - 1 /\ o \notin Strings
      BY <1>3, <2>3, <2>4, <2>7 DEF Contents
    <2>8. QED BY <2>5, <2>6, <2>7
  <1>6. f = [j \in DOMAIN heap[o] |-> f[j]]
    OBVIOUS
  <1> HIDE DEF f
  <1>7. HeapOK([heap EXCEPT ![o] = f])
    BY <1>5, <1>6, Overwritten
  <1>8. Unspoilt(heap) => Unspoilt([heap EXCEPT ![o] = f])
    <2>1. Unspoilt(heap) => (o \in Arrays => \A j \in DOMAIN heap[o] : f[j] # Wild)
      BY <1>2, <1>5 DEF Unspoilt
    <2>2. QED BY <1>5, <1>6, <2>1, Overwritten
  <1>9. QED BY <1>1, <1>7, <1>8

LEMMA PutBytesOK ==
  ASSUME HeapOK(heap), NEW o \in Objects, NEW from, NEW to, NEW byte \in Bytes
  PROVE  LET out == PutBytes(o, from, to, byte)
         IN  /\ HeapOK(out.heap) /\ out.reply = Ref(o) /\ out.files = files
             /\ out.outside = Outside(o, from, to)
             /\ o \in Strings /\ Unspoilt(heap) => Unspoilt(out.heap)
  <1> DEFINE out == PutBytes(o, from, to, byte)
             f == [j \in DOMAIN heap[o] |->
                     IF from < to /\ Offset(o, j) < to /\ from < Offset(o, j + 1)
                     THEN IF o \in Strings THEN byte ELSE Wild
                     ELSE heap[o][j]]
  <1>1. /\ out.heap = [heap EXCEPT ![o] = f] /\ out.reply = Ref(o) /\ out.files = files
        /\ out.outside = Outside(o, from, to)
    BY DEF PutBytes, Replied
  <1>2. /\ heap[o] \in Seq(Contents(o)) /\ DOMAIN heap[o] = 1 .. Len(heap[o])
    BY DEF HeapOK
  <1>3. ASSUME NEW j \in DOMAIN heap[o] PROVE f[j] \in Contents(o)
    <2>1. heap[o][j] \in Contents(o)
      BY <1>2
    <2>2. \/ f[j] = heap[o][j]
          \/ o \in Strings /\ f[j] = byte
          \/ o \notin Strings /\ f[j] = Wild
      OBVIOUS
    <2> HIDE DEF f
    <2>3. QED BY <2>1, <2>2 DEF Contents
  <1>4. f = [j \in DOMAIN heap[o] |-> f[j]]
    OBVIOUS
  <1> HIDE DEF f
  <1>5. HeapOK([heap EXCEPT ![o] = f])
    BY <1>3, <1>4, Overwritten
  <1>6. o \in Strings /\ Unspoilt(heap) => Unspoilt([heap EXCEPT ![o] = f])
    <2>1. o \in Strings => o \notin Arrays
      BY PrimitivesAssumption
    <2>2. QED BY <1>3, <1>4, <2>1, Overwritten
  <1>7. QED BY <1>1, <1>5, <1>6

\* memmove() between objects of a kind.
MovedFacts(dst, reach, o) ==
  /\ HeapOK(o.heap) /\ o.reply = Ref(dst) /\ o.files = files
  /\ o.outside = IF reach > Len(heap[dst]) THEN {dst} ELSE {}
  /\ Unspoilt(heap) => Unspoilt(o.heap)

LEMMA MovedOK ==
  ASSUME HeapOK(heap), NEW dst \in Objects, NEW src \in Objects,
         dst \in Strings <=> src \in Strings,
         NEW start \in Nat, NEW from \in Nat, NEW count \in Nat,
         from + count <= Len(heap[src])
  PROVE  MovedFacts(dst, start + count, Moved(dst, start, src, from, count))
  <1> DEFINE size == Len(heap[dst])
             s == [k \in 1 .. size |-> IF k \in start + 1 .. start + count
                                       THEN heap[src][k - start + from] ELSE heap[dst][k]]
             o == Moved(dst, start, src, from, count)
  <1>1. /\ o.heap = [heap EXCEPT ![dst] = s] /\ o.reply = Ref(dst) /\ o.files = files
        /\ o.outside = IF start + count > size THEN {dst} ELSE {}
    BY DEF Moved, Replied
  <1>2. /\ heap[dst] \in Seq(Contents(dst)) /\ heap[src] \in Seq(Contents(dst)) /\ size \in Nat
        /\ DOMAIN heap[dst] = 1 .. size /\ Len(heap[src]) \in Nat
    BY DEF HeapOK, Contents
  <1>3. ASSUME NEW k \in 1 .. size
        PROVE  s[k] = heap[dst][k] \/ \E i \in 1 .. Len(heap[src]) : s[k] = heap[src][i]
    <2>1. CASE k \in start + 1 .. start + count
      <3>1. k - start + from \in 1 .. Len(heap[src])
        BY <1>2, <2>1
      <3>2. s[k] = heap[src][k - start + from]
        BY <2>1
      <3>3. QED BY <3>1, <3>2
    <2>2. CASE ~(k \in start + 1 .. start + count)
      BY <2>2
    <2>3. QED BY <2>1, <2>2
  <1>4. s = [k \in DOMAIN heap[dst] |-> s[k]]
    BY <1>2
  <1> HIDE DEF s
  <1>5. \A k \in DOMAIN heap[dst] : s[k] \in Contents(dst)
    BY <1>2, <1>3
  <1>6. HeapOK([heap EXCEPT ![dst] = s])
    BY <1>4, <1>5, Overwritten
  <1>7. Unspoilt(heap) => Unspoilt([heap EXCEPT ![dst] = s])
    <2>1. dst \in Arrays => src \in Arrays
      BY PrimitivesAssumption DEF Objects
    <2>2. Unspoilt(heap) => (dst \in Arrays => \A k \in DOMAIN heap[dst] : s[k] # Wild)
      BY <1>2, <1>3, <2>1 DEF Unspoilt
    <2>3. QED BY <1>4, <1>5, <2>2, Overwritten
  <1>8. QED BY <1>1, <1>6, <1>7 DEF MovedFacts

-----------------------------------------------------------------------------
(***************************************************************************)
(* Accesses by an index.                                                   *)
(***************************************************************************)
LEMMA ValueFacts ==
  /\ \A n : Small(n).type = "int" /\ Small(n).is = n /\ isSmallInteger(Small(n))
  /\ \A o : Ref(o).type = "ref" /\ Ref(o).is = o /\ ~isSmallInteger(Ref(o))
  /\ ~isSmallInteger(Nil) /\ Nil \in Values
  /\ \A n \in SmallInts : Small(n) \in Values
  /\ \A v \in Values : v.type # "wild"
  BY PrimitivesAssumption DEF Small, Ref, isSmallInteger, Nil, Values, Objects

LEMMA SomeFacts ==
  ASSUME NEW v \in Some
  PROVE  v \in Values /\ (v = Nil \/ (isSmallInteger(v) /\ v.is \in SmallInts /\ v = Small(v.is)))
  BY ValueFacts, PrimitivesAssumption DEF Some

LEMMA ReceiverFacts ==
  ASSUME NEW r \in Receivers
  PROVE  \/ isSmallInteger(r)
         \/ ~isSmallInteger(r) /\ r.is \in Objects /\ r = Ref(r.is)
  BY ValueFacts DEF Receivers

Within(o, index) == isSmallInteger(index) /\ index.is \in 1 .. Len(heap[o])

Answers(o) == o \in {Failed, Broken}

ArrayOutcome(o, i, stored) ==
  IF stored = <<>> THEN GetField(o, i.is - 1) ELSE PutFields(o, i.is - 1, stored)

StringOutcome(o, i, stored) ==
  IF stored = <<>> THEN Replied(TInteger(GetByte(o, i.is - 1)))
  ELSE IF ~isSmallInteger(stored[1]) THEN Broken
  ELSE PutBytes(o, i.is - 1, i.is, Byte(stored[1].is))

CompiledOutcome(o, i, stored) ==
  IF stored = <<>> THEN Replied(TInteger(GetByte(o, i.is - 1)))
  ELSE PutBytes(o, i.is - 1, i.is, StoredByte(stored[1]))

\* Both engines let the same indices through.
AccessForm(r, i, stored) ==
  /\ ~isSmallInteger(r) /\ Within(r.is, i) =>
       /\ ArrayAccess(r, i, stored) = ArrayOutcome(r.is, i, stored)
       /\ compileAccess(r, i, stored, "array") = ArrayOutcome(r.is, i, stored)
       /\ StringAccess(r, i, stored) = StringOutcome(r.is, i, stored)
       /\ compileAccess(r, i, stored, "string") = CompiledOutcome(r.is, i, stored)
  /\ ~isSmallInteger(r) /\ ~Within(r.is, i) =>
       /\ ArrayAccess(r, i, stored) = Failed /\ compileAccess(r, i, stored, "array") = Failed
       /\ StringAccess(r, i, stored) = Failed /\ compileAccess(r, i, stored, "string") = Failed
  /\ isSmallInteger(r) =>
       /\ Answers(ArrayAccess(r, i, stored)) /\ Answers(compileAccess(r, i, stored, "array"))
       /\ Answers(StringAccess(r, i, stored)) /\ Answers(compileAccess(r, i, stored, "string"))

LEMMA AccessForms ==
  ASSUME HeapOK(heap), NEW r \in Receivers, NEW i \in Some, NEW stored
  PROVE  AccessForm(r, i, stored)
  <1>1. CASE isSmallInteger(r)
    BY <1>1 DEF AccessForm, Answers, ArrayAccess, StringAccess, compileAccess
  <1>2. CASE ~isSmallInteger(r) /\ ~isSmallInteger(i)
    BY <1>2 DEF AccessForm, Within, ArrayAccess, StringAccess, compileAccess
  <1>3. CASE ~isSmallInteger(r) /\ isSmallInteger(i)
    <2>1. r.is \in Objects /\ i.is \in SmallInts
      BY <1>3, ReceiverFacts, SomeFacts, ValueFacts
    <2>2. /\ InBounds(i.is - 1, r.is) <=> Within(r.is, i)
          /\ i.is - 1 >= 0 /\ i.is - 1 < Len(heap[r.is]) <=> Within(r.is, i)
      BY <1>3, <2>1, InBoundsIff DEF Within
    <2>3. "array" # "string"
      OBVIOUS
    <2>4. CASE Within(r.is, i)
      BY <1>3, <2>2, <2>3, <2>4
      DEF AccessForm, ArrayOutcome, StringOutcome, CompiledOutcome, ArrayAccess, StringAccess,
          compileAccess
    <2>5. CASE ~Within(r.is, i)
      BY <1>3, <2>2, <2>5 DEF AccessForm, ArrayAccess, StringAccess, compileAccess
    <2>6. QED BY <2>4, <2>5
  <1>4. QED BY <1>1, <1>2, <1>3

-----------------------------------------------------------------------------
(***************************************************************************)
(* Safe outcomes: what MemorySafe asks of the reply v, the heap h and the  *)
(* objects b that a call c left, when it ends.                             *)
(***************************************************************************)
Inside(c, v, h) ==
  v.type \notin {"failed", "broken"} =>
    LET inside(o, i) == i.is \in 1 .. Len(h[o.is])
    IN  /\ c.op \in {"arrayAt", "stringAt"} => inside(c.args[1], c.args[2])
        /\ c.op \in {"arrayAtPut", "stringAtPut"} => inside(c.args[2], c.args[3])
        /\ c.op \in {"ioFileReadIntoByteArray", "ioFileWriteFromByteArray"} =>
             c.args[3].is \in 0 .. Len(h[c.args[2].is])

Overrun(c, v, h, b) ==
  c.op = "bulkReplace" /\ v.type = "ref" =>
    LET size == Len(h[c.args[5].is])
    IN  /\ c.args[1].is \in 1 .. c.args[2].is /\ c.args[2].is <= size + 1
        /\ c.args[4].is \in 1 .. Len(h[c.args[3].is])
        /\ c.args[4].is + c.args[2].is - c.args[1].is <= Len(h[c.args[3].is])
        /\ c.args[2].is > size <=> c.args[5].is \in b

Leaves(c, b) ==
  /\ b \subseteq Objects
  /\ \A o \in b :
       \/ c.op = "bulkReplace" /\ c.args[5] = Ref(o) /\ c.args[2].is = Len(heap[o]) + 1
       \/ c.op = "ioFileSetStatIntoArray" /\ c.args[2] = Ref(o) /\ ByteSize(o) < 3 * WordBytes
       \/ c.op \in {"arrayAt", "arrayAtPut"} /\ Accessed(c) = Ref(o) /\ o \in Strings

Keeps(c, v, h) == Unspoilt(heap) /\ ~Mixes(c) => Unspoilt(h) /\ v.type # "wild"

SafeOutcome(c, o) ==
  /\ HeapOK(o.heap) /\ o.files \subseteq Descriptors
  /\ Inside(c, o.reply, o.heap) /\ Overrun(c, o.reply, o.heap, o.outside)
  /\ Leaves(c, o.outside) /\ Keeps(c, o.reply, o.heap)

ByteAccesses == {"stringAt", "stringAtPut"}

Transfers == {"ioFileReadIntoByteArray", "ioFileWriteFromByteArray"}

AccessOps == {"arrayAt", "arrayAtPut"} \union ByteAccesses \union Transfers

\* Who answers without an effect is safe, if he fails or has nothing to access.
LEMMA QuietSafe ==
  ASSUME TypeOK, NEW c, NEW o, NoEffect(o),
         o.reply.type \in {"failed", "broken"} \/ c.op \notin AccessOps \union {"bulkReplace"}
  PROVE  SafeOutcome(c, o)
  <1>1. HeapOK(o.heap) /\ o.files \subseteq Descriptors
    BY TypeOKParts DEF NoEffect, TypesKept
  <1>2. Inside(c, o.reply, o.heap)
    BY DEF Inside, AccessOps, ByteAccesses, Transfers
  <1>3. Overrun(c, o.reply, o.heap, o.outside)
    BY DEF Overrun
  <1>4. Leaves(c, o.outside) /\ Keeps(c, o.reply, o.heap)
    BY DEF Leaves, Keeps, NoEffect
  <1>5. QED BY <1>1, <1>2, <1>3, <1>4 DEF SafeOutcome

LEMMA FailureSafe ==
  ASSUME TypeOK, NEW c
  PROVE  /\ SafeOutcome(c, Failed) /\ SafeOutcome(c, Broken)
         /\ \A o : Answers(o) => SafeOutcome(c, o)
  BY QuietSafe, RepliedFacts DEF Answers

\* The bytes of an object, and the part of them that an index passes.
LEMMA OutsideFacts ==
  ASSUME HeapOK(heap), NEW o \in Objects
  PROVE  /\ \A from, to : Outside(o, from, to) \subseteq {o}
         /\ \A n \in Nat : n <= Len(heap[o]) => \A from : Outside(o, from, n) = {}
         /\ \A k \in Nat : o \notin Strings /\ k < Len(heap[o]) =>
              Outside(o, WordBytes * k, WordBytes * (k + 1)) = {}
         /\ Len(heap[o]) <= ByteSize(o) /\ ByteSize(o) \in Nat
  <1> DEFINE size == Len(heap[o])
  <1>1. size \in Nat
    BY DEF HeapOK
  <1>2. size <= WordBytes * size /\ WordBytes * size \in Nat
    BY <1>1, WordFacts
  <1>3. size <= ByteSize(o) /\ ByteSize(o) \in Nat
    BY <1>1, <1>2 DEF ByteSize
  <1>4. ASSUME NEW n \in Nat, n <= size, NEW from PROVE Outside(o, from, n) = {}
    <2> DEFINE bytes == ByteSize(o)
    <2>1. n <= bytes
      <3> HIDE DEF size, bytes
      <3>1. size <= bytes /\ bytes \in Nat /\ size \in Nat
        BY <1>1, <1>3 DEF bytes, size
      <3>2. n <= size
        BY <1>4 DEF size
      <3>3. QED BY <3>1, <3>2
    <2>2. ~(n > bytes)
      BY <1>3, <2>1
    <2>3. QED BY <2>2 DEF Outside
  <1>5. ASSUME NEW k \in Nat, o \notin Strings, k < size
        PROVE  Outside(o, WordBytes * k, WordBytes * (k + 1)) = {}
    <2> DEFINE to == WordBytes * (k + 1)
               bytes == WordBytes * size
    <2>1. to <= bytes /\ to \in Nat
      <3>0. k + 1 \in Nat
        OBVIOUS
      <3>1. to \in Nat
        BY <3>0, WordFacts
      <3>2. CASE k + 1 = size
        BY <1>2, <3>2
      <3>3. CASE k + 1 < size
        <4>1. to < bytes
          BY <1>1, <3>0, <3>3, WordFacts
        <4>2. bytes \in Nat
          BY <1>2
        <4> HIDE DEF to, bytes
        <4>3. QED BY <3>1, <4>1, <4>2
      <3> HIDE DEF to, bytes
      <3>4. QED BY <1>1, <1>5, <3>1, <3>2, <3>3
    <2>2. ByteSize(o) = bytes /\ bytes \in Nat
      BY <1>2, <1>5 DEF ByteSize
    <2> HIDE DEF to, bytes
    <2>3. ~(to > ByteSize(o))
      BY <2>1, <2>2
    <2>4. Outside(o, WordBytes * k, to) = {}
      BY <2>3 DEF Outside
    <2>5. QED BY <2>4 DEF to
  <1>6. QED BY <1>3, <1>4, <1>5 DEF Outside

\* An access with an index inside of the object.
IndexOf(c) == c.args[IF c.op \in {"arrayAt", "stringAt"} THEN 2 ELSE 3]

LEMMA AccessSafe ==
  ASSUME TypeOK, NEW c, c.op \in {"arrayAt", "arrayAtPut"} \union ByteAccesses,
         NEW o \in Objects, Accessed(c) = Ref(o), Within(o, IndexOf(c)), NEW out,
         HeapOK(out.heap), out.files = files,
         Leaves(c, out.outside), Keeps(c, out.reply, out.heap)
  PROVE  SafeOutcome(c, out)
  <1>1. HeapOK(heap) /\ files \subseteq Descriptors
    BY TypeOKParts DEF TypesKept
  <1>2. Len(out.heap[o]) = Len(heap[o])
    BY <1>1 DEF HeapOK
  <1>3. IndexOf(c).is \in 1 .. Len(out.heap[o])
    BY <1>2 DEF Within
  <1>4. Inside(c, out.reply, out.heap)
    <2>1. CASE c.op \in {"arrayAt", "stringAt"}
      <3>1. c.args[1].is = o /\ c.args[2] = IndexOf(c)
        BY <2>1, ValueFacts DEF Accessed, IndexOf
      <3>2. QED BY <1>3, <2>1, <3>1 DEF Inside
    <2>2. CASE c.op \in {"arrayAtPut", "stringAtPut"}
      <3>1. c.args[2].is = o /\ c.args[3] = IndexOf(c)
        BY <2>2, ValueFacts DEF Accessed, IndexOf
      <3>2. QED BY <1>3, <2>2, <3>1 DEF Inside
    <2>3. QED BY <2>1, <2>2 DEF ByteAccesses
  <1>5. Overrun(c, out.reply, out.heap, out.outside)
    BY DEF Overrun, ByteAccesses
  <1>6. QED BY <1>1, <1>4, <1>5 DEF SafeOutcome

\* What a word access to a string leaves, and that it mixes kinds.
LEMMA WordAccessFacts ==
  ASSUME HeapOK(heap), NEW c, c.op \in {"arrayAt", "arrayAtPut"}, NEW o \in Objects,
         Accessed(c) = Ref(o), NEW k \in Nat, k < Len(heap[o])
  PROVE  /\ Leaves(c, Outside(o, WordBytes * k, WordBytes * (k + 1)))
         /\ o \in Strings => Mixes(c)
  <1>1. o \in Strings => Mixes(c)
    BY DEF Mixes, WordAccesses
  <1>2. CASE o \in Strings
    <2>1. Outside(o, WordBytes * k, WordBytes * (k + 1)) \subseteq {o}
      BY OutsideFacts
    <2>2. QED BY <1>1, <1>2, <2>1 DEF Leaves
  <1>3. CASE o \notin Strings
    <2>1. Outside(o, WordBytes * k, WordBytes * (k + 1)) = {}
      BY <1>3, OutsideFacts
    <2>2. QED BY <1>1, <2>1 DEF Leaves
  <1>4. QED BY <1>2, <1>3

LEMMA WordReadSafe ==
  ASSUME TypeOK, NEW c, c.op = "arrayAt", NEW o \in Objects, Accessed(c) = Ref(o),
         Within(o, IndexOf(c))
  PROVE  SafeOutcome(c, GetField(o, IndexOf(c).is - 1))
  <1> DEFINE k == IndexOf(c).is - 1
             out == GetField(o, k)
             v == IF o \in Strings THEN Wild ELSE heap[o][k + 1]
  <1>1. HeapOK(heap) /\ Len(heap[o]) \in Nat /\ heap[o] \in Seq(Contents(o))
    BY TypeOKParts DEF TypesKept, HeapOK
  <1>2. k \in Nat /\ k < Len(heap[o]) /\ k + 1 \in 1 .. Len(heap[o])
    BY <1>1 DEF Within
  <1>3. /\ out.reply = v /\ out.heap = heap /\ out.files = files
        /\ out.outside = Outside(o, WordBytes * k, WordBytes * (k + 1))
    BY DEF GetField, Replied
  <1> HIDE DEF out, k
  <1>4. Leaves(c, out.outside) /\ (o \in Strings => Mixes(c))
    BY <1>1, <1>2, <1>3, WordAccessFacts
  <1>5. ASSUME Unspoilt(heap), o \notin Strings PROVE v.type # "wild"
    <2>1. o \in Arrays
      BY <1>5 DEF Objects
    <2>2. v = heap[o][k + 1] /\ v \in Values \union {Wild} /\ v # Wild
      BY <1>1, <1>2, <1>5, <2>1 DEF Contents, Unspoilt
    <2>3. QED BY <2>2, ValueFacts
  <1>6. Keeps(c, out.reply, out.heap)
    BY <1>3, <1>4, <1>5 DEF Keeps
  <1>7. SafeOutcome(c, out)
    BY <1>1, <1>3, <1>4, <1>6, AccessSafe
  <1>8. QED BY <1>7 DEF out, k

LEMMA WordWriteSafe ==
  ASSUME TypeOK, NEW c, c.op = "arrayAtPut", NEW o \in Objects, Accessed(c) = Ref(o),
         Within(o, IndexOf(c)), NEW v \in Values
  PROVE  SafeOutcome(c, PutFields(o, IndexOf(c).is - 1, <<v>>))
  <1> DEFINE k == IndexOf(c).is - 1
             out == PutFields(o, k, <<v>>)
  <1>1. HeapOK(heap) /\ Len(heap[o]) \in Nat
    BY TypeOKParts DEF TypesKept, HeapOK
  <1>2. k \in Nat /\ k < Len(heap[o])
    BY <1>1 DEF Within
  <1>3. <<v>> \in Seq(Values) /\ Len(<<v>>) = 1 /\ 1 \in Nat
    OBVIOUS
  <1> HIDE DEF k
  <1>4. /\ HeapOK(out.heap) /\ out.reply = Ref(o) /\ out.files = files
        /\ out.outside = Outside(o, WordBytes * k, WordBytes * (k + 1))
        /\ Unspoilt(heap) => Unspoilt(out.heap)
    BY <1>1, <1>2, <1>3, PutFieldsOK
  <1> HIDE DEF out
  <1>5. Leaves(c, out.outside)
    BY <1>1, <1>2, <1>4, WordAccessFacts
  <1>6. Keeps(c, out.reply, out.heap)
    BY <1>4, ValueFacts DEF Keeps
  <1>7. SafeOutcome(c, out)
    BY <1>4, <1>5, <1>6, AccessSafe
  <1>8. QED BY <1>7 DEF out, k

LEMMA ByteReadSafe ==
  ASSUME TypeOK, NEW c, c.op = "stringAt", NEW o \in Objects, Accessed(c) = Ref(o),
         Within(o, IndexOf(c)), NEW n
  PROVE  SafeOutcome(c, Replied(TInteger(n)))
  <1> DEFINE out == Replied(TInteger(n))
  <1>1. NoEffect(out)
    BY RepliedFacts
  <1> HIDE DEF out
  <1>2. HeapOK(out.heap) /\ out.files = files
    BY <1>1, TypeOKParts DEF NoEffect, TypesKept
  <1>3. Leaves(c, out.outside) /\ Keeps(c, out.reply, out.heap)
    BY <1>1 DEF Leaves, Keeps, NoEffect
  <1>4. SafeOutcome(c, out)
    BY <1>2, <1>3, AccessSafe DEF ByteAccesses
  <1>5. QED BY <1>4 DEF out

LEMMA ByteWriteSafe ==
  ASSUME TypeOK, NEW c, c.op = "stringAtPut", NEW o \in Objects, Accessed(c) = Ref(o),
         Within(o, IndexOf(c)), NEW b \in Bytes
  PROVE  SafeOutcome(c, PutBytes(o, IndexOf(c).is - 1, IndexOf(c).is, b))
  <1> DEFINE i == IndexOf(c).is
             from == i - 1
             out == PutBytes(o, from, i, b)
  <1>1. HeapOK(heap) /\ Len(heap[o]) \in Nat
    BY TypeOKParts DEF TypesKept, HeapOK
  <1>2. i \in Nat /\ i <= Len(heap[o])
    BY <1>1 DEF Within
  <1> HIDE DEF i, from
  <1>3. /\ HeapOK(out.heap) /\ out.reply = Ref(o) /\ out.files = files
        /\ out.outside = Outside(o, from, i)
        /\ o \in Strings /\ Unspoilt(heap) => Unspoilt(out.heap)
    BY <1>1, PutBytesOK
  <1> HIDE DEF out
  <1>4. Leaves(c, out.outside)
    BY <1>1, <1>2, <1>3, OutsideFacts DEF Leaves
  <1>5. o \notin Strings => Mixes(c)
    BY DEF Mixes, ByteStores, Objects
  <1>6. Keeps(c, out.reply, out.heap)
    BY <1>3, <1>5, ValueFacts DEF Keeps
  <1>7. SafeOutcome(c, out)
    BY <1>3, <1>4, <1>6, AccessSafe DEF ByteAccesses
  <1>8. QED BY <1>7 DEF out, from, i

\* The accesses to arrays and strings, in both engines.
BothSafe(c, inVM, compiled) == SafeOutcome(c, inVM) /\ SafeOutcome(c, compiled)

LEMMA ArrayAtSafe ==
  ASSUME TypeOK, NEW c, c.op = "arrayAt", NEW r \in Receivers, NEW i \in Some, c.args = <<r, i>>
  PROVE  LET inVM == ArrayAccess(c.args[1], c.args[2], <<>>)
             compiled == compileAccess(c.args[1], c.args[2], <<>>, "array")
         IN  BothSafe(c, inVM, compiled) /\ (~isSmallInteger(r) => inVM = compiled)
  <1>1. HeapOK(heap) /\ c.args[1] = r /\ c.args[2] = i
    BY TypeOKParts DEF TypesKept
  <1>2. AccessForm(r, i, <<>>)
    BY <1>1, AccessForms
  <1>3. CASE ~isSmallInteger(r) /\ Within(r.is, i)
    <2>1. r.is \in Objects /\ Accessed(c) = Ref(r.is) /\ IndexOf(c) = i
      BY <1>1, <1>3, ReceiverFacts DEF Accessed, IndexOf
    <2>2. SafeOutcome(c, GetField(r.is, i.is - 1))
      BY <1>3, <2>1, WordReadSafe
    <2>3. QED BY <1>1, <1>2, <1>3, <2>2 DEF AccessForm, ArrayOutcome, BothSafe
  <1>4. CASE ~isSmallInteger(r) /\ ~Within(r.is, i)
    BY <1>1, <1>2, <1>4, FailureSafe DEF AccessForm, BothSafe
  <1>5. CASE isSmallInteger(r)
    BY <1>1, <1>2, <1>5, FailureSafe DEF AccessForm, BothSafe
  <1>6. QED BY <1>3, <1>4, <1>5

LEMMA StringAtSafe ==
  ASSUME TypeOK, NEW c, c.op = "stringAt", NEW r \in Receivers, NEW i \in Some, c.args = <<r, i>>
  PROVE  LET inVM == StringAccess(c.args[1], c.args[2], <<>>)
             compiled == compileAccess(c.args[1], c.args[2], <<>>, "string")
         IN  BothSafe(c, inVM, compiled) /\ (~isSmallInteger(r) => inVM = compiled)
  <1>1. HeapOK(heap) /\ c.args[1] = r /\ c.args[2] = i
    BY TypeOKParts DEF TypesKept
  <1>2. AccessForm(r, i, <<>>)
    BY <1>1, AccessForms
  <1>3. CASE ~isSmallInteger(r) /\ Within(r.is, i)
    <2>1. r.is \in Objects /\ Accessed(c) = Ref(r.is) /\ IndexOf(c) = i
      BY <1>1, <1>3, ReceiverFacts DEF Accessed, IndexOf
    <2>2. SafeOutcome(c, Replied(TInteger(GetByte(r.is, i.is - 1))))
      BY <1>3, <2>1, ByteReadSafe
    <2>3. QED BY <1>1, <1>2, <1>3, <2>2 DEF AccessForm, StringOutcome, CompiledOutcome, BothSafe
  <1>4. CASE ~isSmallInteger(r) /\ ~Within(r.is, i)
    BY <1>1, <1>2, <1>4, FailureSafe DEF AccessForm, BothSafe
  <1>5. CASE isSmallInteger(r)
    BY <1>1, <1>2, <1>5, FailureSafe DEF AccessForm, BothSafe
  <1>6. QED BY <1>3, <1>4, <1>5

LEMMA ArrayAtPutSafe ==
  ASSUME TypeOK, NEW c, c.op = "arrayAtPut", NEW v \in Some, NEW r \in Receivers, NEW i \in Some,
         c.args = <<v, r, i>>
  PROVE  LET inVM == ArrayAccess(c.args[2], c.args[3], <<c.args[1]>>)
             compiled == compileAccess(c.args[2], c.args[3], <<c.args[1]>>, "array")
         IN  BothSafe(c, inVM, compiled) /\ (~isSmallInteger(r) => inVM = compiled)
  <1>1. HeapOK(heap) /\ c.args[1] = v /\ c.args[2] = r /\ c.args[3] = i
    BY TypeOKParts DEF TypesKept
  <1>2. AccessForm(r, i, <<v>>)
    BY <1>1, AccessForms
  <1>3. CASE ~isSmallInteger(r) /\ Within(r.is, i)
    <2>1. r.is \in Objects /\ Accessed(c) = Ref(r.is) /\ IndexOf(c) = i
      BY <1>1, <1>3, ReceiverFacts DEF Accessed, IndexOf
    <2>2. SafeOutcome(c, PutFields(r.is, i.is - 1, <<v>>))
      BY <1>3, <2>1, WordWriteSafe, SomeFacts
    <2>3. <<v>> # <<>>
      OBVIOUS
    <2>4. ArrayOutcome(r.is, i, <<v>>) = PutFields(r.is, i.is - 1, <<v>>)
      BY <2>3 DEF ArrayOutcome
    <2>5. QED BY <1>1, <1>2, <1>3, <2>2, <2>4 DEF AccessForm, BothSafe
  <1>4. CASE ~isSmallInteger(r) /\ ~Within(r.is, i)
    BY <1>1, <1>2, <1>4, FailureSafe DEF AccessForm, BothSafe
  <1>5. CASE isSmallInteger(r)
    BY <1>1, <1>2, <1>5, FailureSafe DEF AccessForm, BothSafe
  <1>6. QED BY <1>3, <1>4, <1>5

LEMMA StringAtPutSafe ==
  ASSUME TypeOK, NEW c, c.op = "stringAtPut", NEW v \in Some, NEW r \in Receivers, NEW i \in Some,
         c.args = <<v, r, i>>
  PROVE  LET inVM == StringAccess(c.args[2], c.args[3], <<c.args[1]>>)
             compiled == compileAccess(c.args[2], c.args[3], <<c.args[1]>>, "string")
         IN  /\ BothSafe(c, inVM, compiled)
             /\ ~isSmallInteger(r) /\ isSmallInteger(v) => inVM = compiled
  <1>1. HeapOK(heap) /\ c.args[1] = v /\ c.args[2] = r /\ c.args[3] = i
    BY TypeOKParts DEF TypesKept
  <1>2. AccessForm(r, i, <<v>>)
    BY <1>1, AccessForms
  <1>3. CASE ~isSmallInteger(r) /\ Within(r.is, i)
    <2>1. r.is \in Objects /\ Accessed(c) = Ref(r.is) /\ IndexOf(c) = i
      BY <1>1, <1>3, ReceiverFacts DEF Accessed, IndexOf
    <2>2. StoredByte(v) \in Bytes /\ (isSmallInteger(v) => StoredByte(v) = Byte(v.is))
      BY FileByteOK, ByteOK, SomeFacts, ValueFacts, SmallIntsFacts DEF StoredByte
    <2>3. SafeOutcome(c, PutBytes(r.is, i.is - 1, i.is, StoredByte(v)))
      BY <1>3, <2>1, <2>2, ByteWriteSafe
    <2>4. <<v>> # <<>> /\ <<v>>[1] = v
      OBVIOUS
    <2>5. /\ CompiledOutcome(r.is, i, <<v>>) = PutBytes(r.is, i.is - 1, i.is, StoredByte(v))
          /\ isSmallInteger(v) =>
               StringOutcome(r.is, i, <<v>>) = PutBytes(r.is, i.is - 1, i.is, StoredByte(v))
          /\ ~isSmallInteger(v) => StringOutcome(r.is, i, <<v>>) = Broken
      BY <2>2, <2>4 DEF StringOutcome, CompiledOutcome
    <2>6. QED BY <1>1, <1>2, <1>3, <2>3, <2>5, FailureSafe DEF AccessForm, BothSafe
  <1>4. CASE ~isSmallInteger(r) /\ ~Within(r.is, i)
    BY <1>1, <1>2, <1>4, FailureSafe DEF AccessForm, BothSafe
  <1>5. CASE isSmallInteger(r)
    BY <1>1, <1>2, <1>5, FailureSafe DEF AccessForm, BothSafe
  <1>6. QED BY <1>3, <1>4, <1>5

\* doBulkReplace() moves only where source and destination are of a kind and
\* the source is long enough.
LEMMA BulkReplaceSafe ==
  ASSUME TypeOK, NEW c, c.op = "bulkReplace", NEW dst \in Receivers, NEW src \in Receivers,
         NEW start \in Some, NEW stop \in Some, NEW from \in Some,
         c.args = <<start, stop, src, from, dst>>
  PROVE  SafeOutcome(c, doBulkReplace(dst, start, stop, src, from))
  <1> DEFINE out == doBulkReplace(dst, start, stop, src, from)
             s == from.is - 1
             d == start.is - 1
             e == stop.is - 1
             n == e - d + 1
             o == src.is
             p == dst.is
  <1>0. /\ c.args[1] = start /\ c.args[2] = stop /\ c.args[3] = src /\ c.args[4] = from
        /\ c.args[5] = dst
    OBVIOUS
  <1>1. CASE ~isSmallInteger(start) \/ ~isSmallInteger(stop) \/ ~isSmallInteger(from)
    <2>1. out = Failed
      BY <1>1 DEF doBulkReplace
    <2>2. QED BY <2>1, FailureSafe
  <1>2. CASE isSmallInteger(start) /\ isSmallInteger(stop) /\ isSmallInteger(from)
    <2>0. start.is \in Int /\ stop.is \in Int /\ from.is \in Int
      BY <1>2, SomeFacts, ValueFacts, SmallIntsFacts
    <2>1. out = IF s < 0 \/ d < 0 \/ e < 0 \/ n < 1 THEN Failed
                ELSE IF isSmallInteger(dst) THEN Broken
                ELSE IF ~TargetFits(p, e) THEN Failed
                ELSE IF isSmallInteger(src) THEN Broken
                ELSE IF Len(heap[o]) < s + n THEN Failed
                ELSE IF {o, p} \subseteq Strings THEN Moved(p, d, o, s, n)
                ELSE IF (o \in StaticObjects) # (p \in StaticObjects) THEN Failed
                ELSE IF {o, p} \subseteq Arrays THEN Moved(p, d, o, s, n)
                ELSE Failed
      <3>1. ~ \E v \in {start, stop, from} : ~isSmallInteger(v)
        BY <1>2
      <3>2. QED BY <3>1 DEF doBulkReplace
    <2>2. CASE out = Failed \/ out = Broken
      BY <2>2, FailureSafe
    <2>3. CASE /\ ~(s < 0 \/ d < 0 \/ e < 0 \/ n < 1) /\ ~isSmallInteger(dst) /\ ~isSmallInteger(src)
               /\ TargetFits(p, e) /\ ~(Len(heap[o]) < s + n)
               /\ {o, p} \subseteq Strings \/ {o, p} \subseteq Arrays
               /\ out = Moved(p, d, o, s, n)
      <3>1. o \in Objects /\ p \in Objects /\ dst = Ref(p)
        BY <2>3, ReceiverFacts
      <3>2. d \in Nat /\ s \in Nat /\ e \in Nat /\ n \in Nat /\ n >= 1 /\ d + n = e + 1
        <4>1. s \in Int /\ d \in Int /\ e \in Int /\ n = e - d + 1
          BY <2>0
        <4>2. ~(s < 0 \/ d < 0 \/ e < 0 \/ n < 1)
          BY <2>3
        <4> HIDE DEF s, d, e, n
        <4>3. QED BY ONLY <4>1, <4>2
      <3>3. e <= Len(heap[p]) /\ s + n <= Len(heap[o])
        BY <2>3, <3>1, <3>2, TypeOKParts DEF TargetFits, HeapOK, TypesKept
      <3>4. p \in Strings <=> o \in Strings
        BY <2>3, PrimitivesAssumption
      <3>5. start.is = d + 1 /\ stop.is = e + 1 /\ from.is = s + 1 /\ n = e - d + 1
        BY <2>0
      <3>6. HeapOK(heap) /\ files \subseteq Descriptors
        BY TypeOKParts DEF TypesKept
      <3> HIDE DEF d, e, s, n, out, o, p
      <3>7. /\ HeapOK(out.heap) /\ out.reply = Ref(p) /\ out.files = files
            /\ out.outside = IF d + n > Len(heap[p]) THEN {p} ELSE {}
            /\ Unspoilt(heap) => Unspoilt(out.heap)
        <4>1. out = Moved(p, d, o, s, n)
          BY <2>3
        <4>2. p \in Objects /\ o \in Objects /\ d \in Nat /\ s \in Nat /\ n \in Nat
          BY <3>1, <3>2
        <4>3. MovedFacts(p, d + n, Moved(p, d, o, s, n))
          BY ONLY <3>3, <3>4, <3>6, <4>2, MovedOK
        <4>4. QED BY <4>1, <4>3 DEF MovedFacts
      <3>8. /\ Len(out.heap[p]) = Len(heap[p]) /\ Len(out.heap[o]) = Len(heap[o])
            /\ Len(heap[p]) \in Nat /\ Len(heap[o]) \in Nat
        BY <3>1, <3>6, <3>7 DEF HeapOK
      <3>9. Inside(c, out.reply, out.heap)
        BY DEF Inside
      <3> DEFINE size == Len(heap[p])
                 limit == Len(heap[o])
      <3>10. d + n > size <=> p \in out.outside
        BY <3>7
      <3>11. size \in Nat /\ limit \in Nat /\ e <= size /\ s + n <= limit
        BY <3>3, <3>8
      <3>12. Overrun(c, out.reply, out.heap, out.outside)
        <4> HIDE DEF size, limit
        <4>1. /\ start.is \in 1 .. stop.is /\ stop.is <= size + 1
              /\ from.is \in 1 .. limit
              /\ from.is + stop.is - start.is <= limit
              /\ stop.is > size <=> d + n > size
          BY <3>2, <3>5, <3>11
        <4>2. Len(out.heap[p]) = size /\ Len(out.heap[o]) = limit
          BY <3>8 DEF size, limit
        <4>3. c.args[5].is = p /\ c.args[3].is = o
          BY <1>0 DEF o, p
        <4>4. QED BY <1>0, <3>10, <4>1, <4>2, <4>3 DEF Overrun
      <3>13. Leaves(c, out.outside)
        <4>1. d + n > size => stop.is = size + 1
          <5> HIDE DEF size
          <5>1. QED BY <3>2, <3>5, <3>11
        <4>2. out.outside \subseteq {p} /\ (out.outside # {} => stop.is = size + 1)
          BY <3>7, <4>1
        <4>3. QED BY <1>0, <3>1, <4>2 DEF Leaves
      <3>14. Keeps(c, out.reply, out.heap)
        BY <3>7, ValueFacts DEF Keeps
      <3>15. SafeOutcome(c, out)
        BY <3>6, <3>7, <3>9, <3>12, <3>13, <3>14 DEF SafeOutcome
      <3>16. QED BY <3>15 DEF out
    <2> HIDE DEF out, s, d, e, n, o, p
    <2>4. QED BY <2>1, <2>2, <2>3 DEF out
  <1>3. QED BY <1>1, <1>2

-----------------------------------------------------------------------------
(***************************************************************************)
(* Files.                                                                  *)
(***************************************************************************)
\* A request that is refused, or changes no more than the open descriptors.
LEMMA FilesOnly ==
  ASSUME TypeOK, NEW c, c.op \notin AccessOps \union {"bulkReplace"}, NEW o,
         o.heap = heap, o.outside = {}, o.files \subseteq Descriptors, o.reply.type # "wild"
  PROVE  SafeOutcome(c, o)
  <1>1. HeapOK(o.heap)
    BY TypeOKParts DEF TypesKept
  <1>2. Inside(c, o.reply, o.heap) /\ Overrun(c, o.reply, o.heap, o.outside)
    BY DEF Inside, Overrun, AccessOps, ByteAccesses, Transfers
  <1>3. Leaves(c, o.outside) /\ Keeps(c, o.reply, o.heap)
    BY DEF Leaves, Keeps
  <1>4. QED BY <1>1, <1>2, <1>3 DEF SafeOutcome

LEMMA FileRequestSafe ==
  ASSUME TypeOK, NEW c, c.op \in {"ioFileOpen", "ioFileClose", "ioFileSeek"}, NEW a,
         NEW o \in callIOPrimitive(c.op, a)
  PROVE  SafeOutcome(c, o)
  <1>0. c.op \notin AccessOps \union {"bulkReplace"} /\ files \subseteq Descriptors
    BY TypeOKParts DEF AccessOps, ByteAccesses, Transfers, TypesKept
  <1>1. CASE Answers(o)
    BY <1>1, FailureSafe
  <1>2. CASE ~Answers(o) /\ c.op = "ioFileOpen"
    <2>1. \E d \in Descriptors : o = [Replied(TInteger(d)) EXCEPT !.files = files \cup {d}]
      BY <1>2 DEF callIOPrimitive, Replied, Answers
    <2>2. PICK d \in Descriptors : o = [Replied(TInteger(d)) EXCEPT !.files = files \cup {d}]
      BY <2>1
    <2>3. /\ o.heap = heap /\ o.outside = {} /\ o.files = files \cup {d}
          /\ o.reply.type # "wild"
      BY <2>2 DEF Replied, TInteger, Small
    <2>4. QED BY <1>0, <2>3, FilesOnly
  <1>3. CASE ~Answers(o) /\ c.op = "ioFileClose"
    <2>1. o = [Replied(Nil) EXCEPT !.files = files \ {a[1].is}]
      BY <1>3 DEF callIOPrimitive, Replied, Answers
    <2>2. o.heap = heap /\ o.outside = {} /\ o.files \subseteq files /\ o.reply.type # "wild"
      BY <2>1 DEF Replied, Nil, Ref
    <2>3. QED BY <1>0, <2>2, FilesOnly
  <1>4. CASE ~Answers(o) /\ c.op = "ioFileSeek"
    <2>1. o = Replied(TInteger(a[2].is))
      BY <1>4 DEF callIOPrimitive, Answers
    <2>2. QED BY <1>0, <2>1, RepliedFacts, QuietSafe
  <1>5. QED BY <1>1, <1>2, <1>3, <1>4

\* The status of a file is stored whatever the object holds.
LEMMA StatSafe ==
  ASSUME TypeOK, NEW c, c.op = "ioFileSetStatIntoArray", NEW d, NEW r \in Receivers,
         c.args = <<d, r>>, NEW o \in callIOPrimitive(c.op, c.args)
  PROVE  SafeOutcome(c, o)
  <1>1. CASE Answers(o)
    BY <1>1, FailureSafe
  <1>2. CASE ~Answers(o)
    <2> DEFINE p == r.is
               out == PutFields(p, 0, FileStat)
    <2>1. c.args[2] = r /\ ~isSmallInteger(r) /\ o = [out EXCEPT !.reply = Nil]
      BY <1>2 DEF callIOPrimitive, Answers
    <2>2. p \in Objects /\ r = Ref(p)
      BY <2>1, ReceiverFacts
    <2>3. FileStat \in Seq(Values) /\ Len(FileStat) = 3 /\ 3 \in Nat /\ 0 \in Nat
      <3>1. Small(1) \in Values
        <4>1. 1 \in SmallInts
          BY SmallIntsFacts, PrimitivesAssumption DEF SmallInts
        <4>2. QED BY <4>1, ValueFacts
      <3>2. QED BY <3>1 DEF FileStat
    <2>4. HeapOK(heap) /\ files \subseteq Descriptors
      BY TypeOKParts DEF TypesKept
    <2> HIDE DEF p
    <2>5. /\ HeapOK(out.heap) /\ out.files = files
          /\ out.outside = Outside(p, WordBytes * 0, WordBytes * (0 + Len(FileStat)))
          /\ Unspoilt(heap) => Unspoilt(out.heap)
      BY <2>2, <2>3, <2>4, PutFieldsOK
    <2>6. /\ o.heap = out.heap /\ o.files = out.files /\ o.outside = out.outside
          /\ o.reply = Nil
      BY <2>1 DEF PutFields, Replied
    <2> HIDE DEF out
    <2>7. Inside(c, o.reply, o.heap) /\ Overrun(c, o.reply, o.heap, o.outside)
      BY DEF Inside, Overrun
    <2>8. Leaves(c, o.outside)
      <3>1. WordBytes * (0 + Len(FileStat)) = 3 * WordBytes
        BY <2>3, PrimitivesAssumption
      <3>2. o.outside \subseteq {p} /\ (o.outside # {} => 3 * WordBytes > ByteSize(p))
        BY <2>5, <2>6, <3>1 DEF Outside
      <3>3. ByteSize(p) \in Nat /\ WordBytes \in Nat
        BY <2>2, <2>4, OutsideFacts, PrimitivesAssumption
      <3>4. o.outside # {} => ByteSize(p) < 3 * WordBytes
        BY <3>2, <3>3
      <3>5. QED BY <2>1, <2>2, <3>2, <3>4 DEF Leaves
    <2>9. Keeps(c, o.reply, o.heap)
      BY <2>5, <2>6, ValueFacts DEF Keeps, Nil
    <2>10. QED BY <2>4, <2>5, <2>6, <2>7, <2>8, <2>9 DEF SafeOutcome
  <1>3. QED BY <1>1, <1>2

\* A transfer, with the arguments as the interpreter hands them over.
LEMMA TransferSafe ==
  ASSUME TypeOK, NEW c, c.op \in Transfers, NEW d, NEW r \in Receivers, NEW v \in Some,
         c.args = <<d, r, v>>, NEW o \in callIOPrimitive(c.op, c.args)
  PROVE  SafeOutcome(c, o)
  <1>1. CASE Answers(o)
    BY <1>1, FailureSafe
  <1>2. CASE ~Answers(o)
    <2> DEFINE p == r.is
               n == v.is
    <2>1. /\ c.args[2] = r /\ c.args[3] = v /\ ~isSmallInteger(r) /\ isSmallInteger(v)
          /\ ~TooLong(n, p)
          /\ \E m \in 0 .. n : o = IF c.op = "ioFileReadIntoByteArray" THEN Filled(p, m)
                                   ELSE Replied(TInteger(m))
      BY <1>2 DEF callIOPrimitive, Answers, Transfers
    <2>2. PICK m \in 0 .. n : o = IF c.op = "ioFileReadIntoByteArray" THEN Filled(p, m)
                                  ELSE Replied(TInteger(m))
      BY <2>1
    <2>3. p \in Objects /\ r = Ref(p) /\ n \in SmallInts /\ HeapOK(heap) /\ files \subseteq Descriptors
      BY <2>1, ReceiverFacts, SomeFacts, ValueFacts, TypeOKParts DEF TypesKept
    <2> HIDE DEF p, n
    <2>4. n \in 0 .. Len(heap[p]) /\ Len(heap[p]) \in Nat
      BY <2>1, <2>3, InBoundsIff
    <2>5. m \in Nat /\ m <= Len(heap[p])
      BY <2>4
    <2>6. /\ HeapOK(o.heap) /\ o.files = files /\ o.outside = {} /\ o.reply = TInteger(m)
          /\ Unspoilt(heap) /\ (p \in Strings \/ c.op # "ioFileReadIntoByteArray") =>
               Unspoilt(o.heap)
      <3>1. CASE c.op = "ioFileReadIntoByteArray"
        <4> DEFINE out == PutBytes(p, 0, m, FileByte)
        <4>1. o = [out EXCEPT !.reply = TInteger(m)]
          BY <2>2, <3>1 DEF Filled
        <4>2. /\ o.heap = out.heap /\ o.files = out.files /\ o.outside = out.outside
              /\ o.reply = TInteger(m)
          BY <4>1 DEF PutBytes, Replied
        <4>3. /\ HeapOK(out.heap) /\ out.files = files /\ out.outside = Outside(p, 0, m)
              /\ p \in Strings /\ Unspoilt(heap) => Unspoilt(out.heap)
          BY <2>3, FileByteOK, PutBytesOK
        <4>4. Outside(p, 0, m) = {}
          BY <2>3, <2>5, OutsideFacts
        <4> HIDE DEF out
        <4>5. QED BY <3>1, <4>2, <4>3, <4>4
      <3>2. CASE c.op # "ioFileReadIntoByteArray"
        <4>1. o = Replied(TInteger(m))
          BY <2>2, <3>2
        <4>2. NoEffect(o) /\ o.reply = TInteger(m)
          BY <4>1, RepliedFacts
        <4>3. QED BY <2>3, <4>2 DEF NoEffect
      <3>3. QED BY <3>1, <3>2
    <2>7. Len(o.heap[p]) = Len(heap[p])
      BY <2>3, <2>6 DEF HeapOK
    <2>8. Inside(c, o.reply, o.heap)
      <3>1. c.args[2].is = p /\ c.args[3].is = n
        BY <2>1 DEF p, n
      <3>2. QED BY <2>4, <2>7, <3>1 DEF Inside, Transfers
    <2>9. Overrun(c, o.reply, o.heap, o.outside) /\ Leaves(c, o.outside)
      BY <2>6 DEF Overrun, Leaves, Transfers
    <2>10. Keeps(c, o.reply, o.heap)
      <3>1. Accessed(c) = Ref(p)
        BY <2>1, <2>3 DEF Accessed, Transfers
      <3>2. p \notin Strings /\ c.op = "ioFileReadIntoByteArray" => Mixes(c)
        BY <2>3, <3>1 DEF Mixes, ByteStores, Objects
      <3>3. o.reply.type # "wild"
        BY <2>6 DEF TInteger, Small
      <3>4. QED BY <2>6, <3>2, <3>3 DEF Keeps
    <2>11. QED BY <2>3, <2>6, <2>8, <2>9, <2>10 DEF SafeOutcome
  <1>3. QED BY <1>1, <1>2

\* What compiled code hands over instead lets neither of them happen.
LEMMA RepeatedAnswers ==
  ASSUME NEW op \in Transfers \union {"ioFileSetStatIntoArray"}, NEW a, a[2] = a[1],
         NEW o \in callIOPrimitive(op, a)
  PROVE  Answers(o)
  <1>1. CASE op \in Transfers
    BY <1>1 DEF callIOPrimitive, Answers, Transfers
  <1>2. CASE op = "ioFileSetStatIntoArray"
    BY <1>2 DEF callIOPrimitive, Answers
  <1>3. QED BY <1>1, <1>2
-----------------------------------------------------------------------------
(***************************************************************************)
(* Every call, in either engine.                                           *)
(***************************************************************************)
\* What the two engines do for each primitive.
LEMMA CallCases ==
  ASSUME NEW op, NEW args
  PROVE  /\ op = "objectsAreEqual" => callPrimitive(op, args) = {Replied(Bool(args[1] = args[2]))}
         /\ op = "getSize" =>
              callPrimitive(op, args) =
                {Replied(TInteger(IF isSmallInteger(args[1]) THEN 0 ELSE Len(heap[args[1].is])))}
         /\ op = "stringAt" => callPrimitive(op, args) = {StringAccess(args[1], args[2], <<>>)}
         /\ op = "stringAtPut" =>
              callPrimitive(op, args) = {StringAccess(args[2], args[3], <<args[1]>>)}
         /\ op \in SmallIntOps =>
              callPrimitive(op, args) =
                IF ~isSmallInteger(args[1]) \/ ~isSmallInteger(args[2]) THEN {Failed}
                ELSE callSmallIntPrimitive(op, args[1].is, args[2].is)
         /\ op \in IOOps => callPrimitive(op, args) = callIOPrimitive(op, args)
  <1>1. CASE op = "objectsAreEqual"
    BY <1>1 DEF callPrimitive, SmallIntOps, IOOps
  <1>2. CASE op = "getSize"
    BY <1>2 DEF callPrimitive, SmallIntOps, IOOps
  <1>3. CASE op = "stringAt"
    BY <1>3 DEF callPrimitive, SmallIntOps, IOOps
  <1>4. CASE op = "stringAtPut"
    BY <1>4 DEF callPrimitive, SmallIntOps, IOOps
  <1>5. CASE op \in SmallIntOps
    BY <1>5 DEF callPrimitive, SmallIntOps, IOOps
  <1>6. CASE op \in IOOps
    BY <1>6 DEF callPrimitive, SmallIntOps, IOOps
  <1>7. QED BY <1>1, <1>2, <1>3, <1>4, <1>5, <1>6

LEMMA PerformCases ==
  ASSUME NEW op, NEW args
  PROVE  /\ op = "arrayAt" => performPrimitive(op, args) = {ArrayAccess(args[1], args[2], <<>>)}
         /\ op = "arrayAtPut" =>
              performPrimitive(op, args) = {ArrayAccess(args[2], args[3], <<args[1]>>)}
         /\ op = "integerNew" =>
              performPrimitive(op, args) = {IF isSmallInteger(args[1]) THEN Replied(args[1]) ELSE Failed}
         /\ op = "bulkReplace" =>
              performPrimitive(op, args) = {doBulkReplace(args[5], args[1], args[2], args[3], args[4])}
         /\ op \in SmallIntOps \union IOOps
                     \union {"objectsAreEqual", "getSize", "stringAt", "stringAtPut"} =>
              performPrimitive(op, args) = callPrimitive(op, args)
  <1>1. CASE op = "arrayAt"
    BY <1>1 DEF performPrimitive, SmallIntOps, IOOps
  <1>2. CASE op = "arrayAtPut"
    BY <1>2 DEF performPrimitive, SmallIntOps, IOOps
  <1>3. CASE op = "integerNew"
    BY <1>3 DEF performPrimitive, SmallIntOps, IOOps
  <1>4. CASE op = "bulkReplace"
    BY <1>4 DEF performPrimitive, SmallIntOps, IOOps
  <1>5. CASE op \in SmallIntOps \union IOOps
                      \union {"objectsAreEqual", "getSize", "stringAt", "stringAtPut"}
    BY <1>5 DEF performPrimitive, SmallIntOps, IOOps
  <1>6. QED BY <1>1, <1>2, <1>3, <1>4, <1>5

FirstRepeated(args) == [k \in DOMAIN args |-> args[1]]

LEMMA CompileCases ==
  ASSUME NEW op, NEW args
  PROVE  /\ op = "objectsAreEqual" => compilePrimitive(op, args) = {Replied(Bool(args[1] = args[2]))}
         /\ op = "getSize" =>
              compilePrimitive(op, args) =
                {Replied(TInteger(IF isSmallInteger(args[1]) THEN 0 ELSE Len(heap[args[1].is])))}
         /\ op = "integerNew" => compilePrimitive(op, args) = {Replied(args[1])}
         /\ op = "arrayAt" => compilePrimitive(op, args) = {compileAccess(args[1], args[2], <<>>, "array")}
         /\ op = "arrayAtPut" =>
              compilePrimitive(op, args) = {compileAccess(args[2], args[3], <<args[1]>>, "array")}
         /\ op = "stringAt" => compilePrimitive(op, args) = {compileAccess(args[1], args[2], <<>>, "string")}
         /\ op = "stringAtPut" =>
              compilePrimitive(op, args) = {compileAccess(args[2], args[3], <<args[1]>>, "string")}
         /\ op = "bulkReplace" =>
              compilePrimitive(op, args) = {doBulkReplace(args[5], args[1], args[2], args[3], args[4])}
         /\ op \in SmallIntOps =>
              compilePrimitive(op, args) =
                IF ~isSmallInteger(args[1]) \/ ~isSmallInteger(args[2]) THEN {Failed}
                ELSE compileSmallIntPrimitive(op, args[1].is, args[2].is)
         /\ op \in IOOps => compilePrimitive(op, args) = callPrimitive(op, FirstRepeated(args))
  <1>1. CASE op = "objectsAreEqual"
    BY <1>1 DEF compilePrimitive, SmallIntOps, IOOps
  <1>2. CASE op = "getSize"
    BY <1>2 DEF compilePrimitive, SmallIntOps, IOOps
  <1>3. CASE op = "integerNew"
    BY <1>3 DEF compilePrimitive, SmallIntOps, IOOps
  <1>4. CASE op = "arrayAt"
    BY <1>4 DEF compilePrimitive, SmallIntOps, IOOps
  <1>5. CASE op = "arrayAtPut"
    BY <1>5 DEF compilePrimitive, SmallIntOps, IOOps
  <1>6. CASE op = "stringAt"
    BY <1>6 DEF compilePrimitive, SmallIntOps, IOOps
  <1>7. CASE op = "stringAtPut"
    BY <1>7 DEF compilePrimitive, SmallIntOps, IOOps
  <1>8. CASE op = "bulkReplace"
    BY <1>8 DEF compilePrimitive, SmallIntOps, IOOps
  <1>9. CASE op \in SmallIntOps
    BY <1>9 DEF compilePrimitive, SmallIntOps, IOOps
  <1>10. CASE op \in IOOps
    BY <1>10 DEF compilePrimitive, SmallIntOps, IOOps, FirstRepeated
  <1>11. QED BY <1>1, <1>2, <1>3, <1>4, <1>5, <1>6, <1>7, <1>8, <1>9, <1>10

\* The calls, by the form of their arguments.
ArithmeticForm(c) ==
  /\ c.op \in SmallIntOps
  /\ \/ \E l, r \in SmallInts : c.args = <<Small(l), Small(r)>>
     \/ c.args = <<Nil, Small(1)>> \/ c.args = <<Small(1), Nil>>

ReadForm(c) ==
  \/ c.op \in {"objectsAreEqual", "getSize"}
  \/ c.op = "integerNew" /\ \E v \in Some : c.args = <<v>>
  \/ /\ c.op \in {"arrayAt", "stringAt"}
     /\ \E r \in Receivers, i \in Some : c.args = <<r, i>>

WriteForm(c) ==
  \/ /\ c.op \in {"arrayAtPut", "stringAtPut"}
     /\ \E v \in Some, r \in Receivers, i \in Some : c.args = <<v, r, i>>
  \/ /\ c.op = "bulkReplace"
     /\ \E i, j, k \in Some, o, p \in Receivers : c.args = <<i, j, o, k, p>>

FileForm(c) ==
  \/ c.op = "ioFileOpen" /\ \E v, w : c.args = <<v, w>>
  \/ c.op = "ioFileClose" /\ \E d \in Handles : c.args = <<d>>
  \/ c.op = "ioFileSeek" /\ \E d \in Handles, n \in Some : c.args = <<d, n>>
  \/ c.op = "ioFileSetStatIntoArray" /\ \E d \in Handles, r \in Receivers : c.args = <<d, r>>
  \/ c.op \in Transfers /\ \E d \in Handles, r \in Receivers, n \in Some : c.args = <<d, r, n>>

CallForm(c) == ArithmeticForm(c) \/ ReadForm(c) \/ WriteForm(c) \/ FileForm(c)

LEMMA CallsForm == ASSUME NEW c \in Calls PROVE CallForm(c)
  BY DEF Calls, CallForm, ArithmeticForm, ReadForm, WriteForm, FileForm, Transfers

\* With one argument compiled code hands over the right ones.
LEMMA SameWhenSingle ==
  ASSUME NEW s, s = <<s[1]>>
  PROVE  FirstRepeated(s) = s
  BY DEF FirstRepeated

\* What ArithmeticExact asks of an outcome.
RightOutcome(c, o) ==
  c.op \in SmallIntOps \ {"less", "equal"}
    /\ isSmallInteger(c.args[1]) /\ isSmallInteger(c.args[2]) =>
    RightReply(c.op, c.args[1].is, c.args[2].is, o.reply)

Comparable(c) == WellTyped(c) /\ (c.op \in IOOps => Len(c.args) = 1)

\* The outcomes in both engines are safe and right, and are the same if they
\* can be compared.
GoodCall(c) ==
  /\ \A o \in performPrimitive(c.op, c.args) : SafeOutcome(c, o) /\ RightOutcome(c, o)
  /\ \A o \in compilePrimitive(c.op, c.args) : SafeOutcome(c, o) /\ RightOutcome(c, o)
  /\ Comparable(c) => performPrimitive(c.op, c.args) = compilePrimitive(c.op, c.args)

LEMMA ArithmeticGood ==
  ASSUME TypeOK, NEW c, ArithmeticForm(c)
  PROVE  GoodCall(c)
  <1>0. c.op \in SmallIntOps /\ c.op \notin AccessOps \union {"bulkReplace"}
    BY DEF ArithmeticForm, SmallIntOps, AccessOps, ByteAccesses, Transfers
  <1>1. CASE isSmallInteger(c.args[1]) /\ isSmallInteger(c.args[2])
    <2>1. PICK l \in SmallInts, r \in SmallInts : c.args = <<Small(l), Small(r)>>
      <3>1. <<Nil, Small(1)>>[1] = Nil /\ <<Small(1), Nil>>[2] = Nil
        OBVIOUS
      <3>2. QED BY <1>1, <3>1, ValueFacts DEF ArithmeticForm
    <2>2. c.args[1].is = l /\ c.args[2].is = r
      <3>1. c.args[1] = Small(l) /\ c.args[2] = Small(r)
        BY <2>1
      <3>2. QED BY <3>1, ValueFacts
    <2>3. performPrimitive(c.op, c.args) = callSmallIntPrimitive(c.op, l, r)
      <3>1. performPrimitive(c.op, c.args) = callPrimitive(c.op, c.args)
        BY <1>0, PerformCases
      <3>2. callPrimitive(c.op, c.args) = callSmallIntPrimitive(c.op, l, r)
        BY <1>0, <1>1, <2>2, CallCases
      <3>3. QED BY <3>1, <3>2
    <2>4. compilePrimitive(c.op, c.args) = compileSmallIntPrimitive(c.op, l, r)
      BY <1>0, <1>1, <2>2, CompileCases
    <2>5. performPrimitive(c.op, c.args) = compilePrimitive(c.op, c.args)
      BY <1>0, <2>3, <2>4, SameArithmetic
    <2>6. ASSUME NEW o \in performPrimitive(c.op, c.args)
          PROVE  SafeOutcome(c, o) /\ RightOutcome(c, o)
      <3>1. (c.op \notin {"less", "equal"} => RightReply(c.op, l, r, o.reply)) /\ NoEffect(o)
        BY <1>0, <2>3, InterpreterArithmetic
      <3>2. SafeOutcome(c, o)
        BY <1>0, <3>1, QuietSafe
      <3>3. RightOutcome(c, o)
        BY <2>2, <3>1 DEF RightOutcome
      <3>4. QED BY <3>2, <3>3
    <2>7. QED BY <2>5, <2>6 DEF GoodCall
  <1>2. CASE ~(isSmallInteger(c.args[1]) /\ isSmallInteger(c.args[2]))
    <2>1. performPrimitive(c.op, c.args) = {Failed} /\ compilePrimitive(c.op, c.args) = {Failed}
      <3>1. performPrimitive(c.op, c.args) = callPrimitive(c.op, c.args)
        BY <1>0, PerformCases
      <3>2. callPrimitive(c.op, c.args) = {Failed}
        BY <1>0, <1>2, CallCases
      <3>3. compilePrimitive(c.op, c.args) = {Failed}
        BY <1>0, <1>2, CompileCases
      <3>4. QED BY <3>1, <3>2, <3>3
    <2>2. RightOutcome(c, Failed)
      BY <1>2 DEF RightOutcome
    <2>3. QED BY <2>1, <2>2, FailureSafe DEF GoodCall
  <1>3. QED BY <1>1, <1>2

\* Nothing but a primitive on integers has to compute a number.
LEMMA OthersRight ==
  ASSUME NEW c, c.op \notin SmallIntOps, NEW o
  PROVE  RightOutcome(c, o)
  BY DEF RightOutcome

\* Each engine has one outcome, and they agree on what can be compared.
LEMMA GoodPair ==
  ASSUME NEW c, c.op \notin SmallIntOps, NEW inVM, NEW compiled,
         performPrimitive(c.op, c.args) = {inVM}, compilePrimitive(c.op, c.args) = {compiled},
         BothSafe(c, inVM, compiled), Comparable(c) => inVM = compiled
  PROVE  GoodCall(c)
  BY OthersRight DEF GoodCall, BothSafe

LEMMA ReadGood ==
  ASSUME TypeOK, NEW c, ReadForm(c)
  PROVE  GoodCall(c)
  <1>0. c.op \notin SmallIntOps
    BY DEF ReadForm, SmallIntOps
  <1>1. CASE c.op \in {"objectsAreEqual", "getSize"}
    <2>1. PICK v : /\ v.type # "wild"
                   /\ performPrimitive(c.op, c.args) = {Replied(v)}
                   /\ compilePrimitive(c.op, c.args) = {Replied(v)}
      <3>1. performPrimitive(c.op, c.args) = callPrimitive(c.op, c.args)
        BY <1>1, PerformCases
      <3>2. CASE c.op = "objectsAreEqual"
        <4>1. callPrimitive(c.op, c.args) = {Replied(Bool(c.args[1] = c.args[2]))}
          BY <3>2, CallCases
        <4>2. compilePrimitive(c.op, c.args) = {Replied(Bool(c.args[1] = c.args[2]))}
          BY <3>2, CompileCases
        <4>3. \A b : Bool(b).type # "wild"
          BY DEF Bool, Ref
        <4>4. QED BY <3>1, <4>1, <4>2, <4>3
      <3>3. CASE c.op = "getSize"
        <4> DEFINE size == IF isSmallInteger(c.args[1]) THEN 0 ELSE Len(heap[c.args[1].is])
        <4>1. callPrimitive(c.op, c.args) = {Replied(TInteger(size))}
          BY <3>3, CallCases
        <4>2. compilePrimitive(c.op, c.args) = {Replied(TInteger(size))}
          BY <3>3, CompileCases
        <4> HIDE DEF size
        <4>3. TInteger(size).type # "wild"
          BY DEF TInteger, Small
        <4>4. QED BY <3>1, <4>1, <4>2, <4>3
      <3>4. QED BY <1>1, <3>2, <3>3
    <2>2. SafeOutcome(c, Replied(v))
      <3>1. c.op \notin AccessOps \union {"bulkReplace"}
        BY <1>1 DEF AccessOps, ByteAccesses, Transfers
      <3>2. NoEffect(Replied(v))
        BY <2>1, RepliedFacts
      <3>3. QED BY <3>1, <3>2, QuietSafe
    <2>3. QED BY <1>0, <2>1, <2>2, GoodPair DEF BothSafe
  <1>2. CASE c.op = "integerNew"
    <2> DEFINE inVM == IF isSmallInteger(c.args[1]) THEN Replied(c.args[1]) ELSE Failed
               compiled == Replied(c.args[1])
    <2>1. performPrimitive(c.op, c.args) = {inVM} /\ compilePrimitive(c.op, c.args) = {compiled}
      <3>1. performPrimitive(c.op, c.args) = {inVM}
        BY <1>2, PerformCases
      <3>2. compilePrimitive(c.op, c.args) = {compiled}
        BY <1>2, CompileCases
      <3>3. QED BY <3>1, <3>2
    <2>2. SafeOutcome(c, compiled)
      <3>1. c.op \notin AccessOps \union {"bulkReplace"}
        BY <1>2 DEF AccessOps, ByteAccesses, Transfers
      <3>2. c.args[1].type # "wild"
        <4>1. PICK v \in Some : c.args = <<v>>
          BY <1>2 DEF ReadForm
        <4>2. QED BY <4>1, SomeFacts, ValueFacts
      <3>3. NoEffect(compiled)
        BY <3>2, RepliedFacts
      <3>4. QED BY <3>1, <3>3, QuietSafe
    <2>3. Comparable(c) => isSmallInteger(c.args[1])
      BY <1>2 DEF Comparable, WellTyped
    <2>4. BothSafe(c, inVM, compiled) /\ (Comparable(c) => inVM = compiled)
      BY <2>2, <2>3, FailureSafe DEF BothSafe
    <2> HIDE DEF inVM, compiled
    <2>5. QED BY <1>0, <2>1, <2>4, GoodPair
  <1>3. CASE c.op = "arrayAt"
    <2> DEFINE inVM == ArrayAccess(c.args[1], c.args[2], <<>>)
               compiled == compileAccess(c.args[1], c.args[2], <<>>, "array")
    <2>1. PICK r \in Receivers, i \in Some : c.args = <<r, i>>
      BY <1>3 DEF ReadForm
    <2>2. BothSafe(c, inVM, compiled) /\ (~isSmallInteger(r) => inVM = compiled)
      BY <1>3, <2>1, ArrayAtSafe
    <2>3. performPrimitive(c.op, c.args) = {inVM} /\ compilePrimitive(c.op, c.args) = {compiled}
      BY <1>3, PerformCases, CompileCases
    <2>4. Comparable(c) => ~isSmallInteger(r)
      BY <1>3, <2>1 DEF Comparable, WellTyped, Accessed
    <2> HIDE DEF inVM, compiled
    <2>5. QED BY <1>0, <2>2, <2>3, <2>4, GoodPair
  <1>4. CASE c.op = "stringAt"
    <2> DEFINE inVM == StringAccess(c.args[1], c.args[2], <<>>)
               compiled == compileAccess(c.args[1], c.args[2], <<>>, "string")
    <2>1. PICK r \in Receivers, i \in Some : c.args = <<r, i>>
      BY <1>4 DEF ReadForm
    <2>2. BothSafe(c, inVM, compiled) /\ (~isSmallInteger(r) => inVM = compiled)
      BY <1>4, <2>1, StringAtSafe
    <2>3. performPrimitive(c.op, c.args) = {inVM} /\ compilePrimitive(c.op, c.args) = {compiled}
      <3>1. performPrimitive(c.op, c.args) = callPrimitive(c.op, c.args)
        BY <1>4, PerformCases
      <3>2. callPrimitive(c.op, c.args) = {inVM}
        BY <1>4, CallCases
      <3>3. compilePrimitive(c.op, c.args) = {compiled}
        BY <1>4, CompileCases
      <3>4. QED BY <3>1, <3>2, <3>3
    <2>4. Comparable(c) => ~isSmallInteger(r)
      BY <1>4, <2>1 DEF Comparable, WellTyped, Accessed
    <2> HIDE DEF inVM, compiled
    <2>5. QED BY <1>0, <2>2, <2>3, <2>4, GoodPair
  <1>5. QED BY <1>1, <1>2, <1>3, <1>4 DEF ReadForm

LEMMA WriteGood ==
  ASSUME TypeOK, NEW c, WriteForm(c)
  PROVE  GoodCall(c)
  <1>0. c.op \notin SmallIntOps
    BY DEF WriteForm, SmallIntOps
  <1>1. CASE c.op = "arrayAtPut"
    <2> DEFINE inVM == ArrayAccess(c.args[2], c.args[3], <<c.args[1]>>)
               compiled == compileAccess(c.args[2], c.args[3], <<c.args[1]>>, "array")
    <2>1. PICK v \in Some, r \in Receivers, i \in Some : c.args = <<v, r, i>>
      BY <1>1 DEF WriteForm
    <2>2. BothSafe(c, inVM, compiled) /\ (~isSmallInteger(r) => inVM = compiled)
      BY <1>1, <2>1, ArrayAtPutSafe
    <2>3. performPrimitive(c.op, c.args) = {inVM} /\ compilePrimitive(c.op, c.args) = {compiled}
      BY <1>1, PerformCases, CompileCases
    <2>4. Comparable(c) => ~isSmallInteger(r)
      BY <1>1, <2>1 DEF Comparable, WellTyped, Accessed
    <2> HIDE DEF inVM, compiled
    <2>5. QED BY <1>0, <2>2, <2>3, <2>4, GoodPair
  <1>2. CASE c.op = "stringAtPut"
    <2> DEFINE inVM == StringAccess(c.args[2], c.args[3], <<c.args[1]>>)
               compiled == compileAccess(c.args[2], c.args[3], <<c.args[1]>>, "string")
    <2>1. PICK v \in Some, r \in Receivers, i \in Some : c.args = <<v, r, i>>
      BY <1>2 DEF WriteForm
    <2>2. /\ BothSafe(c, inVM, compiled)
          /\ ~isSmallInteger(r) /\ isSmallInteger(v) => inVM = compiled
      BY <1>2, <2>1, StringAtPutSafe
    <2>3. performPrimitive(c.op, c.args) = {inVM} /\ compilePrimitive(c.op, c.args) = {compiled}
      BY <1>2, CallCases, PerformCases, CompileCases
    <2>4. Comparable(c) => ~isSmallInteger(r) /\ isSmallInteger(v)
      BY <1>2, <2>1 DEF Comparable, WellTyped, Accessed
    <2> HIDE DEF inVM, compiled
    <2>5. QED BY <1>0, <2>2, <2>3, <2>4, GoodPair
  <1>3. CASE c.op = "bulkReplace"
    <2> DEFINE out == doBulkReplace(c.args[5], c.args[1], c.args[2], c.args[3], c.args[4])
    <2>1. performPrimitive(c.op, c.args) = {out} /\ compilePrimitive(c.op, c.args) = {out}
      <3>1. performPrimitive(c.op, c.args) = {out}
        BY <1>3, PerformCases
      <3>2. compilePrimitive(c.op, c.args) = {out}
        BY <1>3, CompileCases
      <3>3. QED BY <3>1, <3>2
    <2>2. SafeOutcome(c, out)
      <3>1. PICK i \in Some, j \in Some, k \in Some, o \in Receivers, p \in Receivers :
              c.args = <<i, j, o, k, p>>
        BY <1>3 DEF WriteForm
      <3>2. /\ c.args[1] = i /\ c.args[2] = j /\ c.args[3] = o
            /\ c.args[4] = k /\ c.args[5] = p
        BY <3>1
      <3>3. SafeOutcome(c, doBulkReplace(p, i, j, o, k))
        BY <1>3, <3>1, BulkReplaceSafe
      <3>4. QED BY <3>2, <3>3
    <2> HIDE DEF out
    <2>3. QED BY <1>0, <2>1, <2>2, GoodPair DEF BothSafe
  <1>4. QED BY <1>1, <1>2, <1>3 DEF WriteForm

LEMMA FileGood ==
  ASSUME TypeOK, NEW c, FileForm(c)
  PROVE  GoodCall(c)
  <1>0. c.op \notin SmallIntOps /\ c.op \in IOOps
    BY DEF FileForm, SmallIntOps, IOOps, Transfers
  <1> DEFINE first == FirstRepeated(c.args)
  <1>1. /\ performPrimitive(c.op, c.args) = callIOPrimitive(c.op, c.args)
        /\ compilePrimitive(c.op, c.args) = callIOPrimitive(c.op, first)
    <2>1. performPrimitive(c.op, c.args) = callPrimitive(c.op, c.args)
      BY <1>0, PerformCases
    <2>2. callPrimitive(c.op, c.args) = callIOPrimitive(c.op, c.args)
      BY <1>0, CallCases
    <2>3. callPrimitive(c.op, first) = callIOPrimitive(c.op, first)
      BY <1>0, CallCases
    <2>4. compilePrimitive(c.op, c.args) = callPrimitive(c.op, first)
      BY <1>0, CompileCases
    <2>5. QED BY <2>1, <2>2, <2>3, <2>4
  <1>2. ASSUME NEW v, NEW w, c.args = <<v, w>> \/ \E n : c.args = <<v, w, n>>
        PROVE  ~Comparable(c) /\ first[2] = first[1]
    <2>1. Len(c.args) # 1 /\ 1 \in DOMAIN c.args /\ 2 \in DOMAIN c.args
      BY <1>2
    <2>2. QED BY <1>0, <2>1 DEF Comparable, FirstRepeated
  <1> HIDE DEF first
  <1>3. CASE c.op \in {"ioFileOpen", "ioFileClose", "ioFileSeek"}
    <2>1. \A a : \A o \in callIOPrimitive(c.op, a) : SafeOutcome(c, o)
      BY <1>3, FileRequestSafe
    <2>2. Comparable(c) => first = c.args
      <3>1. CASE c.op = "ioFileClose"
        <4>1. PICK d : c.args = <<d>>
          BY <3>1 DEF FileForm, Transfers
        <4>2. c.args = <<c.args[1]>>
          BY <4>1
        <4>3. QED BY <4>2, SameWhenSingle DEF first
      <3>2. CASE c.op # "ioFileClose"
        <4>1. PICK v, w : c.args = <<v, w>>
          BY <1>3, <3>2 DEF FileForm, Transfers
        <4>2. QED BY <1>2, <4>1
      <3>3. QED BY <3>1, <3>2
    <2>3. QED BY <1>0, <1>1, <2>1, <2>2, OthersRight DEF GoodCall
  <1>4. CASE c.op \in Transfers \union {"ioFileSetStatIntoArray"}
    <2>1. PICK d \in Handles, r \in Receivers :
            \/ c.op = "ioFileSetStatIntoArray" /\ c.args = <<d, r>>
            \/ c.op \in Transfers /\ \E n \in Some : c.args = <<d, r, n>>
      BY <1>4 DEF FileForm, Transfers
    <2>2. \A o \in callIOPrimitive(c.op, c.args) : SafeOutcome(c, o)
      BY <2>1, StatSafe, TransferSafe
    <2>3. ~Comparable(c) /\ first[2] = first[1]
      BY <1>2, <2>1
    <2>4. \A o \in callIOPrimitive(c.op, first) : SafeOutcome(c, o)
      BY <1>4, <2>3, RepeatedAnswers, FailureSafe
    <2>5. QED BY <1>0, <1>1, <2>2, <2>3, <2>4, OthersRight DEF GoodCall
  <1>5. QED BY <1>3, <1>4 DEF FileForm

-----------------------------------------------------------------------------
(***************************************************************************)
(* The inductive invariant.  That a call under way is one of the calls the *)
(* system makes is what lets the lemmas above speak of its outcomes; that  *)
(* nothing answers where nothing was called makes Invoke the only step     *)
(* that starts a call; and that a call which mixes kinds is on record is   *)
(* what KindsKept needs to excuse its outcome.                             *)
(***************************************************************************)
UnderWay ==
  /\ call = NoCall => reply = NoReply /\ outside = {}
  /\ call # NoCall => CallForm(call) /\ call.engine \in Engines /\ (Mixes(call) => mixed)

IInv == MemorySafe /\ ArithmeticExact /\ UnderWay

LEMMA NoCallFacts ==
  /\ NoCall.op = "none" /\ NoCall.args = <<>> /\ NoCall.engine = "none"
  /\ ~CallForm(NoCall)
  BY DEF NoCall, CallForm, ArithmeticForm, ReadForm, WriteForm, FileForm, SmallIntOps, Transfers

\* TypeOK and KindsKept, in terms of the lemmas above.
LEMMA TypeOKIff == TypeOK <=> TypesKept /\ mixed \in BOOLEAN
  <1>1. TypesKept /\ mixed \in BOOLEAN => TypeOK
    BY PrimitivesAssumption DEF TypesKept, TypeOK, HeapOK, Objects, Contents
  <1>2. TypeOK => mixed \in BOOLEAN
    BY DEF TypeOK
  <1>3. QED BY <1>1, <1>2, TypeOKParts

LEMMA KindsKeptIff == KindsKept <=> (~mixed => reply.type # "wild" /\ Unspoilt(heap))
  BY DEF KindsKept, Unspoilt

\* Without a reply there is nothing to say about it.
LEMMA NoReplyGood ==
  ASSUME reply = NoReply
  PROVE  IndexInRange /\ OverrunIsOne /\ ArithmeticExact /\ reply.type # "wild"
  BY DEF IndexInRange, OverrunIsOne, ArithmeticExact, NoReply

LEMMA NothingLeft == outside = {} => AccessInBounds
  BY DEF AccessInBounds

LEMMA InitIInv == Init => IInv
  <1> SUFFICES ASSUME Init PROVE IInv
    OBVIOUS
  <1>1. TypeOK
    BY InitialHeapOK, TypeOKIff DEF Init, TypesKept
  <1>2. IndexInRange /\ OverrunIsOne /\ ArithmeticExact /\ reply.type # "wild"
    BY NoReplyGood DEF Init
  <1>3. AccessInBounds
    BY NothingLeft DEF Init
  <1>4. KindsKept
    BY <1>2, InitialHeapOK, KindsKeptIff DEF Init
  <1>5. UnderWay
    BY DEF Init, UnderWay
  <1>6. QED BY <1>1, <1>2, <1>3, <1>4, <1>5 DEF IInv, MemorySafe

LEMMA InvokeForm ==
  ASSUME Invoke
  PROVE  /\ call = NoCall /\ CallForm(call') /\ call'.engine \in Engines /\ call' # NoCall
         /\ mixed' \in BOOLEAN /\ (mixed => mixed') /\ (Mixes(call') => mixed')
  <1>1. PICK c \in Calls, e \in Engines :
          call' = [op |-> c.op, args |-> c.args, engine |-> e] /\ mixed' = (mixed \/ Mixes(c))
    BY DEF Invoke, Available, ObjectCalls, Readings
  <1>2. CallForm(c)
    BY CallsForm
  <1>3. call'.op = c.op /\ call'.args = c.args /\ call'.engine = e
    BY <1>1
  <1>4. CallForm(call')
    BY <1>2, <1>3 DEF CallForm, ArithmeticForm, ReadForm, WriteForm, FileForm
  <1>5. Mixes(call') <=> Mixes(c)
    BY <1>3 DEF Mixes, Accessed
  <1>6. mixed' \in BOOLEAN /\ (mixed => mixed') /\ (Mixes(c) => mixed')
    BY <1>1, Zenon
  <1>7. call = NoCall
    BY DEF Invoke
  <1>8. call' # NoCall
    BY <1>4, NoCallFacts
  <1>9. QED BY <1>3, <1>4, <1>5, <1>6, <1>7, <1>8, Zenon

LEMMA InvokeStep ==
  ASSUME IInv, Invoke
  PROVE  IInv'
  <1>1. /\ call = NoCall /\ CallForm(call') /\ call'.engine \in Engines /\ call' # NoCall
        /\ mixed' \in BOOLEAN /\ (mixed => mixed') /\ (Mixes(call') => mixed')
    BY InvokeForm
  <1>2. /\ UNCHANGED <<heap, outside, files, changes, reply>> /\ reply = NoReply
        /\ outside = {}
    BY <1>1 DEF Invoke, IInv, UnderWay
  <1>3. TypeOK'
    BY <1>1, <1>2 DEF IInv, MemorySafe, TypeOK
  <1>4. IndexInRange' /\ OverrunIsOne' /\ ArithmeticExact'
    BY <1>2 DEF IndexInRange, OverrunIsOne, ArithmeticExact
  <1>5. AccessInBounds'
    BY <1>2 DEF AccessInBounds
  <1>6. KindsKept'
    BY <1>1, <1>2 DEF IInv, MemorySafe, KindsKept
  <1>7. UnderWay'
    BY <1>1, <1>2 DEF UnderWay
  <1>8. QED BY <1>3, <1>4, <1>5, <1>6, <1>7 DEF IInv, MemorySafe

LEMMA PerformStep ==
  ASSUME IInv, Perform
  PROVE  IInv'
  <1>1. /\ call # NoCall /\ CallForm(call) /\ call.engine \in Engines /\ call' = call /\ TypeOK
        /\ (Mixes(call) => mixed)
    BY DEF IInv, UnderWay, Perform, MemorySafe
  <1>2. GoodCall(call)
    BY <1>1, ArithmeticGood, ReadGood, WriteGood, FileGood DEF CallForm
  <1>3. PICK o \in Outcomes(call) :
          reply' = o.reply /\ heap' = o.heap /\ outside' = o.outside /\ files' = o.files
    BY DEF Perform
  <1>4. mixed' = mixed /\ mixed \in BOOLEAN
    BY <1>1, TypeOKIff DEF Perform
  <1>5. SafeOutcome(call, o) /\ RightOutcome(call, o)
    BY <1>2, <1>3 DEF GoodCall, Outcomes
  <1>6. HeapOK(heap') /\ files' \subseteq Descriptors /\ HeapOK(heap)
    BY <1>1, <1>3, <1>5, TypeOKIff DEF SafeOutcome, TypesKept
  <1>7. TypeOK'
    BY <1>4, <1>6, PrimitivesAssumption DEF TypeOK, HeapOK, Objects, Contents
  <1>8. Inside(call', reply', heap') /\ Overrun(call', reply', heap', outside')
    BY <1>1, <1>3, <1>5 DEF SafeOutcome
  <1>9. IndexInRange' /\ OverrunIsOne'
    BY <1>8 DEF IndexInRange, OverrunIsOne, Inside, Overrun
  <1>10. AccessInBounds'
    <2>1. Leaves(call, outside')
      BY <1>3, <1>5 DEF SafeOutcome
    <2>2. ASSUME NEW x \in Objects
          PROVE  Len(heap'[x]) = Len(heap[x]) /\ ByteSize(x)' = ByteSize(x)
      BY <1>6 DEF HeapOK, ByteSize
    <2>3. \A x : Accessed(call') = Accessed(call)
      BY <1>1
    <2>4. ASSUME NEW x \in outside'
          PROVE  \/ /\ call'.op = "bulkReplace" /\ call'.args[5] = Ref(x)
                    /\ call'.args[2].is = Len(heap'[x]) + 1
                 \/ /\ call'.op = "ioFileSetStatIntoArray" /\ call'.args[2] = Ref(x)
                    /\ ByteSize(x)' < 3 * WordBytes
                 \/ /\ call'.op \in {"arrayAt", "arrayAtPut"} /\ Accessed(call') = Ref(x)
                    /\ x \in Strings
      BY <1>1, <2>1, <2>2 DEF Leaves
    <2>5. QED BY <2>4 DEF AccessInBounds
  <1>11. ArithmeticExact'
    BY <1>1, <1>3, <1>5 DEF ArithmeticExact, RightOutcome
  <1>12. KindsKept'
    <2>1. Keeps(call, reply', heap')
      BY <1>3, <1>5 DEF SafeOutcome
    <2>2. ~mixed => Unspoilt(heap) /\ ~Mixes(call)
      BY <1>1, KindsKeptIff DEF IInv, MemorySafe
    <2>3. ~mixed' => reply'.type # "wild" /\ Unspoilt(heap')
      BY <1>4, <2>1, <2>2 DEF Keeps
    <2>4. QED BY <2>3 DEF KindsKept, Unspoilt
  <1>13. UnderWay'
    BY <1>1, <1>4 DEF UnderWay
  <1>14. QED BY <1>7, <1>9, <1>10, <1>11, <1>12, <1>13 DEF IInv, MemorySafe

LEMMA ReturnStep ==
  ASSUME IInv, Return
  PROVE  IInv'
  <1>1. /\ call' = NoCall /\ reply' = NoReply /\ outside' = {}
        /\ UNCHANGED <<heap, files, changes, mixed>>
    BY DEF Return
  <1>2. TypeOK'
    BY <1>1 DEF IInv, MemorySafe, TypeOK
  <1>3. IndexInRange' /\ OverrunIsOne' /\ ArithmeticExact'
    BY <1>1 DEF IndexInRange, OverrunIsOne, ArithmeticExact
  <1>4. AccessInBounds'
    BY <1>1 DEF AccessInBounds
  <1>5. KindsKept'
    BY <1>1 DEF IInv, MemorySafe, KindsKept, NoReply
  <1>6. UnderWay'
    BY <1>1 DEF UnderWay
  <1>7. QED BY <1>2, <1>3, <1>4, <1>5, <1>6 DEF IInv, MemorySafe

LEMMA StepIInv == IInv /\ [Next]_vars => IInv'
  <1> SUFFICES ASSUME IInv, [Next]_vars PROVE IInv'
    OBVIOUS
  <1>1. CASE Invoke
    BY <1>1, InvokeStep
  <1>2. CASE Perform
    BY <1>2, PerformStep
  <1>3. CASE Return
    BY <1>3, ReturnStep
  <1>4. CASE UNCHANGED vars
    <2>1. MemorySafe'
      BY <1>4 DEF vars, IInv, MemorySafe, TypeOK, IndexInRange, OverrunIsOne, AccessInBounds,
                  KindsKept, ByteSize
    <2>2. ArithmeticExact' /\ UnderWay'
      BY <1>4 DEF vars, IInv, ArithmeticExact, UnderWay
    <2>3. QED BY <2>1, <2>2 DEF IInv
  <1>5. QED BY <1>1, <1>2, <1>3, <1>4 DEF Next

LEMMA Invariance == Spec => []IInv
  BY InitIInv, StepIInv, PTL DEF Spec

(***************************************************************************)
(* Whatever objects and integers the primitives are given, their indices   *)
(* are in range, and only doBulkReplace()'s one element, the status of a   *)
(* file in a short object and arrayAt and arrayAtPut on a string leave the *)
(* object; every object keeps its size, and the fields of arrays hold      *)
(* values until a call is given an object of the other kind.               *)
(***************************************************************************)
THEOREM MemorySafety == Spec => []MemorySafe
<1>1. IInv => MemorySafe
  BY DEF IInv
<1>2. QED BY <1>1, Invariance, PTL

(***************************************************************************)
(* callSmallIntPrimitive() and compileSmallIntPrimitive() compute the      *)
(* numbers that they should and fail only when they may, for words of any  *)
(* width.                                                                  *)
(***************************************************************************)
THEOREM ExactArithmetic == Spec => []ArithmeticExact
<1>1. IInv => ArithmeticExact
  BY DEF IInv
<1>2. QED BY <1>1, Invariance, PTL

(***************************************************************************)
(* performPrimitive() and compilePrimitive() have the same outcomes for    *)
(* every call that can be compared, in every state that can be reached.    *)
(***************************************************************************)
THEOREM EnginesAgreement == Spec => EnginesAgree
<1> DEFINE Agree ==
      call = NoCall /\ WellTyped(call') /\ (call'.op \in IOOps => Len(call'.args) = 1) =>
        performPrimitive(call'.op, call'.args) = compilePrimitive(call'.op, call'.args)
<1>1. IInv /\ [Next]_vars => [Agree]_vars
  <2> SUFFICES ASSUME IInv, Next, call = NoCall, Comparable(call')
               PROVE  performPrimitive(call'.op, call'.args) = compilePrimitive(call'.op, call'.args)
    BY DEF Comparable
  <2>1. Invoke
    BY DEF Next, Perform, Return, IInv, UnderWay
  <2>2. CallForm(call') /\ TypeOK
    BY <2>1, InvokeForm DEF IInv, MemorySafe
  <2>3. GoodCall(call')
    BY <2>2, ArithmeticGood, ReadGood, WriteGood, FileGood DEF CallForm
  <2>4. QED BY <2>3 DEF GoodCall
<1>2. QED BY <1>1, Invariance, PTL DEF Spec, EnginesAgree
=============================================================================
