--------------------------- MODULE ImageFormatProofs ---------------------------
(***************************************************************************)
(* For every image, every size of integers and pointers and every point at *)
(* which the writer may be killed: what is loaded is isomorphic to what    *)
(* was written, a file cut short is never loaded, and no file the writer   *)
(* leaves is taken for a corrupt one.                                      *)
(***************************************************************************)
EXTENDS ImageFormat, SequenceTheorems, TLAPS

-----------------------------------------------------------------------------
(***************************************************************************)
(* Division.                                                               *)
(***************************************************************************)
LEMMA DivMod ==
  ASSUME NEW a \in Int, NEW d \in Nat \ {0}
  PROVE  /\ a \div d \in Int /\ a % d \in 0 .. d - 1
         /\ a = d * (a \div d) + (a % d)
  <1>1. a \div d \in Int
    OBVIOUS
  <1>2. a % d \in 0 .. d - 1
    OBVIOUS
  <1>3. a = d * (a \div d) + (a % d)
    OBVIOUS
  <1>4. QED BY <1>1, <1>2, <1>3

LEMMA ModUnique ==
  ASSUME NEW q \in Int, NEW d \in Nat \ {0}, NEW r \in 0 .. d - 1
  PROVE  (d * q + r) % d = r /\ (d * q + r) \div d = q
  <1> DEFINE a == d * q + r
             k == a \div d
             m == a % d
  <1>1. a \in Int /\ a = d * q + r
    OBVIOUS
  <1> HIDE DEF a
  <1>2. k \in Int /\ m \in 0 .. d - 1 /\ a = d * k + m
    BY <1>1, DivMod
  <1> HIDE DEF k, m
  <1>3. q - k \in Int /\ d * (q - k) = m - r
    BY <1>1, <1>2
  <1>4. ~(q - k >= 1)
    <2>1. ASSUME q - k >= 1 PROVE d * (q - k) >= d
      BY <1>3, <2>1
    <2>2. QED BY <1>2, <1>3, <2>1
  <1>5. ~(k - q >= 1)
    <2>1. ASSUME k - q >= 1 PROVE d * (k - q) >= d
      BY <1>2, <2>1
    <2>2. d * (k - q) = r - m
      BY <1>1, <1>2
    <2>3. QED BY <1>2, <2>1, <2>2
  <1>6. q = k /\ r = m
    BY <1>1, <1>2, <1>4, <1>5
  <1>7. QED BY <1>6 DEF a, k, m

\* An integer is its four bytes, the highest of which carries the sign.
LEMMA IntegerIsItsBytes ==
  ASSUME NEW n \in Ints
  PROVE  /\ IntegerBytes(n) \in Seq(0 .. Escape) /\ Len(IntegerBytes(n)) = 4
         /\ LET b == IntegerBytes(n)
                m == b[1] + Base * (b[2] + Base * (b[3] + Base * b[4]))
            IN  n = IF m \in Ints THEN m ELSE m - Base * (Base * (Base * Base))
  <1> DEFINE B  == Base
             n1 == n \div B
             n2 == n1 \div B
             n3 == n2 \div B
             n4 == n3 \div B
  <1>0. PICK h \in Nat \ {0} : B = 2 * h /\ Base \div 2 = h
    <2>1. Escape \in Nat /\ Escape % 2 = 1
      BY ImageFormatAssumption
    <2>2. QED BY <2>1 DEF Base
  <1>1. B \in Nat \ {0} /\ n \in Int /\ Escape = B - 1 /\ Escape \in Nat
    BY ImageFormatAssumption DEF Base, Ints
  <1> HIDE DEF B
  <1>2. n1 \in Int /\ n % B \in 0 .. B - 1 /\ n = B * n1 + (n % B)
    BY <1>1, DivMod
  <1>3. n2 \in Int /\ n1 % B \in 0 .. B - 1 /\ n1 = B * n2 + (n1 % B)
    BY <1>1, <1>2, DivMod
  <1>4. n3 \in Int /\ n2 % B \in 0 .. B - 1 /\ n2 = B * n3 + (n2 % B)
    BY <1>1, <1>3, DivMod
  <1>5. n4 \in Int /\ n3 % B \in 0 .. B - 1 /\ n3 = B * n4 + (n3 % B)
    BY <1>1, <1>4, DivMod
  <1>6. IntegerBytes(n) = <<n % B, n1 % B, n2 % B, n3 % B>>
    BY DEF IntegerBytes, B
  <1> DEFINE m == (n % B) + B * ((n1 % B) + B * ((n2 % B) + B * (n3 % B)))
             P == B * (B * (B * B))
             H == h * (B * (B * B))
  <1>7. m = n - P * n4
    <2> DEFINE r0 == n % B
               r1 == n1 % B
               r2 == n2 % B
               r3 == n3 % B
    <2>1. /\ n = B * n1 + r0 /\ n1 = B * n2 + r1 /\ n2 = B * n3 + r2 /\ n3 = B * n4 + r3
          /\ n1 \in Int /\ n2 \in Int /\ n3 \in Int /\ n4 \in Int
          /\ r0 \in Int /\ r1 \in Int /\ r2 \in Int /\ r3 \in Int
      BY <1>2, <1>3, <1>4, <1>5
    <2> HIDE DEF n1, n2, n3, n4, r0, r1, r2, r3, B
    <2>2. m = r0 + B * (r1 + B * (r2 + B * r3))
      BY DEF r0, r1, r2, r3
    <2>3. B * r3 = B * n3 - B * (B * n4)
      BY <2>1, <1>1
    <2>4. r2 + B * r3 = n2 - B * (B * n4)
      BY <2>1, <2>3, <1>1
    <2> DEFINE q == B * (B * n4)
    <2>5. q \in Int /\ r2 + B * r3 = n2 - q
      BY <2>1, <2>4, <1>1
    <2> HIDE DEF q
    <2>6. B * (r2 + B * r3) = B * n2 - B * q
      BY <2>5, <2>1, <1>1
    <2>7. r1 + B * (r2 + B * r3) = n1 - B * q
      BY <2>6, <2>5, <2>1, <1>1
    <2>8. B * (r1 + B * (r2 + B * r3)) = B * n1 - B * (B * q)
      BY <2>7, <2>5, <2>1, <1>1
    <2>9. m = n - B * (B * q)
      BY <2>2, <2>8, <2>1, <2>5, <1>1
    <2>10. B * (B * q) = P * n4
      BY <2>1, <1>1 DEF q
    <2>11. QED BY <2>9, <2>10
  <1>8. H \in Nat \ {0} /\ P = 2 * H /\ P \in Nat
    <2> DEFINE s == B * (B * B)
    <2>1. s \in Nat \ {0}
      BY <1>1
    <2>2. P = B * s /\ H = h * s
      OBVIOUS
    <2> HIDE DEF s, P, H, B
    <2>3. QED BY <1>0, <2>1, <2>2
  <1>9. Ints = -H .. H - 1
    BY <1>0 DEF Ints, B
  <1>10. m \in Int /\ m >= 0 /\ m < P
    <2> DEFINE r0 == n % B
               r1 == n1 % B
               r2 == n2 % B
               r3 == n3 % B
    <2>1. r0 \in 0 .. B - 1 /\ r1 \in 0 .. B - 1 /\ r2 \in 0 .. B - 1 /\ r3 \in 0 .. B - 1
      BY <1>2, <1>3, <1>4, <1>5
    <2> HIDE DEF r0, r1, r2, r3, B
    <2>2. B * r3 \in Nat /\ B * r3 <= B * (B - 1)
      BY <2>1, <1>1
    <2> DEFINE u == r2 + B * r3
    <2>3. u \in Nat /\ u <= B * B - 1
      BY <2>1, <2>2, <1>1
    <2> HIDE DEF u
    <2>4. B * u \in Nat /\ B * u <= B * (B * B - 1)
      BY <2>3, <1>1
    <2> DEFINE v == r1 + B * u
    <2>5. v \in Nat /\ v <= B * (B * B) - 1
      BY <2>4, <2>1, <1>1
    <2> DEFINE c == B * (B * B)
    <2>6. c \in Nat /\ v <= c - 1
      BY <2>5, <1>1
    <2> HIDE DEF v, c
    <2>7. B * v \in Nat /\ B * v <= B * (c - 1)
      BY <2>5, <2>6, <1>1
    <2>8. m = r0 + B * v
      BY DEF r0, r1, r2, r3, u, v, B
    <2>9. P = B * c
      BY DEF c
    <2>10. QED BY <2>1, <2>6, <2>7, <2>8, <2>9, <2>5, <1>1
  <1>11. n = IF m \in Ints THEN m ELSE m - P
    <2> HIDE DEF m, P, H, n1, n2, n3, n4
    <2>1. n \in -H .. H - 1
      BY <1>9
    <2>2. n4 = 0 \/ n4 = -1
      <3>1. ASSUME n4 >= 1 PROVE FALSE
        <4>1. P * n4 >= P
          BY <3>1, <1>5, <1>8
        <4>2. QED BY <4>1, <1>7, <1>8, <1>10, <2>1, <1>5
      <3>2. ASSUME n4 <= -2 PROVE FALSE
        <4>1. P * n4 <= -(2 * P)
          BY <3>2, <1>5, <1>8
        <4>2. QED BY <4>1, <1>7, <1>8, <1>10, <2>1, <1>5
      <3>3. QED BY <3>1, <3>2, <1>5
    <2>3. CASE n4 = 0
      BY <2>1, <2>3, <1>7, <1>8, <1>9, <1>10, <1>1
    <2>4. CASE n4 = -1
      <3>1. m = n + P
        BY <2>4, <1>7, <1>8, <1>1, <1>10
      <3>2. QED BY <3>1, <2>1, <1>8, <1>9, <1>10, <1>1
    <2>5. QED BY <2>2, <2>3, <2>4
  <1>12. IntegerBytes(n) \in Seq(0 .. Escape) /\ Len(IntegerBytes(n)) = 4
    BY <1>1, <1>2, <1>3, <1>4, <1>5, <1>6
  <1>13. QED BY <1>6, <1>11, <1>12 DEF B

-----------------------------------------------------------------------------
(***************************************************************************)
(* The words of the file.                                                  *)
(***************************************************************************)
LEMMA WordBytes ==
  ASSUME NEW n \in Nat
  PROVE  /\ writeWord(n) \in Seq(0 .. Escape)
         /\ Len(writeWord(n)) = n \div Escape + 1 /\ n \div Escape \in Nat
         /\ \A i \in 1 .. n \div Escape : writeWord(n)[i] = Escape
         /\ writeWord(n)[n \div Escape + 1] = n % Escape
         /\ n % Escape \in 0 .. Escape - 1
         /\ n = (n \div Escape) * Escape + (n % Escape)
  <1> DEFINE q == n \div Escape
             r == n % Escape
             s == [k \in 1 .. q |-> Escape]
             t == <<r>>
  <1>1. Escape \in Nat \ {0}
    BY ImageFormatAssumption
  <1>2. q \in Int /\ r \in 0 .. Escape - 1 /\ n = Escape * q + r
    BY <1>1, DivMod
  <1>3. writeWord(n) = s \o t
    BY DEF writeWord
  <1> HIDE DEF q, r
  <1>4. q \in Nat
    <2>1. ASSUME q <= -1 PROVE FALSE
      <3>1. Escape * q <= -Escape
        BY <1>1, <1>2, <2>1
      <3>2. QED BY <1>1, <1>2, <3>1
    <2>2. QED BY <1>2, <2>1
  <1>5. s \in Seq(0 .. Escape) /\ Len(s) = q /\ \A i \in 1 .. q : s[i] = Escape
    BY <1>1, <1>4
  <1>6. t \in Seq(0 .. Escape) /\ Len(t) = 1 /\ t[1] = r
    BY <1>1, <1>2
  <1> HIDE DEF s, t
  <1>7. /\ s \o t \in Seq(0 .. Escape) /\ Len(s \o t) = q + 1
        /\ \A i \in 1 .. q + 1 : (s \o t)[i] = IF i <= q THEN s[i] ELSE t[i - q]
    BY <1>5, <1>6, ConcatProperties
  <1>8. (\A i \in 1 .. q : (s \o t)[i] = Escape) /\ (s \o t)[q + 1] = r
    BY <1>4, <1>5, <1>6, <1>7
  <1>9. n = q * Escape + r
    BY <1>1, <1>2
  <1>10. QED BY <1>2, <1>3, <1>4, <1>7, <1>8, <1>9 DEF q, r

\* The bytes b follow in the file behind the place p, as far as it goes.
Holds(p, b) == \A i \in 1 .. Len(b) : p + i <= Len(file) => file[p + i] = b[i]

LEMMA HoldsParts ==
  ASSUME NEW p \in Nat, NEW a \in Seq(0 .. Escape), NEW b \in Seq(0 .. Escape),
         Holds(p, a \o b)
  PROVE  Holds(p, a) /\ Holds(p + Len(a), b)
  <1>1. /\ Len(a \o b) = Len(a) + Len(b)
        /\ \A i \in 1 .. Len(a) + Len(b) :
             (a \o b)[i] = IF i <= Len(a) THEN a[i] ELSE b[i - Len(a)]
    BY ConcatProperties
  <1>2. Len(a) \in Nat /\ Len(b) \in Nat
    OBVIOUS
  <1>3. \A i \in 1 .. Len(a) + Len(b) : p + i <= Len(file) => file[p + i] = (a \o b)[i]
    BY <1>1 DEF Holds
  <1>4. Holds(p, a)
    BY <1>1, <1>2, <1>3 DEF Holds
  <1>5. ASSUME NEW i \in 1 .. Len(b), (p + Len(a)) + i <= Len(file)
        PROVE  file[(p + Len(a)) + i] = b[i]
    <2> DEFINE j == Len(a) + i
    <2>1. j \in 1 .. Len(a) + Len(b) /\ ~(j <= Len(a)) /\ j - Len(a) = i
          /\ p + j = (p + Len(a)) + i
      BY <1>2
    <2> HIDE DEF j
    <2>2. QED BY <1>1, <1>3, <1>5, <2>1
  <1>6. QED BY <1>4, <1>5 DEF Holds

\* readWord() throws, or it is back from what writeWord() did.
LEMMA WordReadBack ==
  ASSUME file \in Seq(0 .. Escape), NEW p \in 0 .. Len(file), NEW n \in Nat,
         Holds(p, writeWord(n)), readWord(p).at # -1
  PROVE  /\ readWord(p).value = n
         /\ readWord(p).at = p + Len(writeWord(n))
         /\ readWord(p).at \in p .. Len(file)
  <1> DEFINE q == n \div Escape
             r == n % Escape
             ends == {e \in p + 1 .. Len(file) : file[e] # Escape}
             end == CHOOSE e \in ends : \A d \in ends : e <= d
  <1>1. /\ q \in Nat /\ Len(writeWord(n)) = q + 1
        /\ \A i \in 1 .. q : writeWord(n)[i] = Escape
        /\ writeWord(n)[q + 1] = r /\ r \in 0 .. Escape - 1
        /\ n = q * Escape + r
    BY WordBytes
  <1>2. Escape \in Nat \ {0} /\ Len(file) \in Nat
    BY ImageFormatAssumption
  <1>3. /\ p # -1 /\ ends # {}
        /\ readWord(p) = [value |-> (end - p - 1) * Escape + file[end], at |-> end]
    BY DEF readWord
  <1> HIDE DEF q, r, end
  <1>4. \A i \in 1 .. q + 1 : p + i <= Len(file) => file[p + i] = writeWord(n)[i]
    BY <1>1 DEF Holds
  <1>5. \A i \in 1 .. q : p + i <= Len(file) => file[p + i] = Escape
    <2> SUFFICES ASSUME NEW i \in 1 .. q, p + i <= Len(file) PROVE file[p + i] = Escape
      OBVIOUS
    <2>1. i \in 1 .. q + 1
      BY <1>1
    <2>2. writeWord(n)[i] = Escape
      BY <1>1
    <2>3. QED BY <1>4, <2>1, <2>2
  <1>6. \A e \in ends : e >= p + q + 1
    <2>1. SUFFICES ASSUME NEW e \in ends, e < p + q + 1 PROVE FALSE
      BY <1>1, <1>2
    <2>2. e - p \in 1 .. q /\ p + (e - p) = e
      BY <2>1, <1>1, <1>2
    <2>3. QED BY <1>5, <2>2
  <1>7. p + q + 1 <= Len(file)
    <2>1. PICK e \in ends : TRUE
      BY <1>3
    <2>2. e >= p + q + 1 /\ e \in Int /\ e <= Len(file)
      BY <1>6, <1>2
    <2>3. QED BY <2>2, <1>1, <1>2
  <1>8. file[p + q + 1] = r
    <2>1. q + 1 \in 1 .. q + 1 /\ p + (q + 1) = p + q + 1
      BY <1>1
    <2>2. QED BY <1>1, <1>4, <1>7, <2>1
  <1>9. p + q + 1 \in ends
    BY <1>1, <1>2, <1>7, <1>8
  <1>10. end = p + q + 1
    <2> HIDE DEF ends
    <2>1. \A d \in ends : p + q + 1 <= d
      BY <1>6
    <2>2. end \in ends /\ \A d \in ends : end <= d
      BY <1>9, <2>1 DEF end
    <2>3. end \in Int
      BY <2>2 DEF ends
    <2>4. QED BY <1>1, <1>9, <2>1, <2>2, <2>3
  <1>11. end - p - 1 = q
    BY <1>1, <1>10
  <1>12. file[end] = r
    BY <1>8, <1>10
  <1>13. (end - p - 1) * Escape + file[end] = n
    BY <1>1, <1>11, <1>12
  <1>14. end \in p .. Len(file) /\ end = p + Len(writeWord(n))
    BY <1>1, <1>2, <1>7, <1>10
  <1>15. QED BY <1>3, <1>13, <1>14

-----------------------------------------------------------------------------
(***************************************************************************)
(* The image.                                                              *)
(***************************************************************************)
Objects == DOMAIN image.class

Given == {Int32(n) : n \in Ints} \union {Ref(o) : o \in Objects} \union {Byte(n) : n \in 0 .. Escape}

LEMMA GivenFacts ==
  ASSUME NEW v \in Given
  PROVE  /\ v.type \in {"int", "ref", "byte"}
         /\ v.type = "int" => v.is \in Ints
         /\ v.type = "ref" => v.is \in Objects
         /\ v.type = "byte" => v.is \in 0 .. Escape
  BY DEF Given, Int32, Ref, Byte

LEMMA ImageFacts ==
  ASSUME image \in Images
  PROVE  /\ \A o \in Objects : /\ image.class[o] \in Objects
                               /\ image.contents[o] \in Seq(Given)
                               /\ Ref(image.class[o]) \in Given
         /\ \A o \in Objects : \A j \in 1 .. Len(image.contents[o]) :
              image.contents[o][j].type = "byte" <=> o \in image.binary
         /\ image.globals \in Seq(Given) /\ Len(image.globals) >= 1
         /\ \A j \in 1 .. Len(image.globals) : image.globals[j].type # "byte"
  <1> DEFINE words == {Int32(n) : n \in Ints} \union {Ref(o) : o \in Objects}
             bytes == {Byte(n) : n \in 0 .. Escape}
  <1>1. /\ image.class \in [Objects -> Objects]
        /\ \A o \in Objects :
             image.contents[o] \in Seq(IF o \in image.binary THEN bytes ELSE words)
        /\ image.globals \in Seq(words) /\ image.globals # <<>>
    <2>1. IsImage(image)
      BY ImageFormatAssumption
    <2>2. QED BY <2>1 DEF IsImage, Objects
  <1>2. words \subseteq Given /\ bytes \subseteq Given
    BY DEF Given
  <1>3. (\A v \in words : v.type # "byte") /\ (\A v \in bytes : v.type = "byte")
    BY DEF Int32, Ref, Byte
  <1>4. \A o \in Objects : Ref(image.class[o]) \in Given
    BY <1>1, <1>2
  <1> HIDE DEF words, bytes
  <1>5. ASSUME NEW o \in Objects
        PROVE  /\ image.contents[o] \in Seq(Given)
               /\ \A j \in 1 .. Len(image.contents[o]) :
                    image.contents[o][j].type = "byte" <=> o \in image.binary
    <2>1. CASE o \in image.binary
      <3>1. image.contents[o] \in Seq(bytes)
        BY <1>1, <2>1
      <3>2. image.contents[o] \in Seq(Given)
        BY <3>1, <1>2, SeqMonotonic
      <3>3. QED BY <2>1, <3>1, <3>2, <1>3
    <2>2. CASE o \notin image.binary
      <3>1. image.contents[o] \in Seq(words)
        BY <1>1, <2>2
      <3>2. image.contents[o] \in Seq(Given)
        BY <3>1, <1>2, SeqMonotonic
      <3>3. QED BY <2>2, <3>1, <3>2, <1>3
    <2>3. QED BY <2>1, <2>2
  <1>6. image.globals \in Seq(Given)
    BY <1>1, <1>2, SeqMonotonic
  <1>7. Len(image.globals) >= 1
    BY <1>1
  <1>8. \A j \in 1 .. Len(image.globals) : image.globals[j].type # "byte"
    BY <1>1, <1>3
  <1>9. QED BY <1>1, <1>4, <1>5, <1>6, <1>7, <1>8

LEMMA ValuesFacts ==
  ASSUME image \in Images, NEW o \in Objects
  PROVE  /\ Values(o) \in Seq(Given)
         /\ Len(Values(o)) = Len(image.contents[o]) + 1
         /\ Len(image.contents[o]) \in Nat
         /\ o \in image.binary =>
              /\ \A j \in 1 .. Len(image.contents[o]) : Values(o)[j] = image.contents[o][j]
              /\ Values(o)[Len(image.contents[o]) + 1] = Ref(image.class[o])
         /\ o \notin image.binary =>
              /\ Values(o)[1] = Ref(image.class[o])
              /\ \A j \in 1 .. Len(image.contents[o]) : Values(o)[j + 1] = image.contents[o][j]
  <1> DEFINE c == image.contents[o]
             k == <<Ref(image.class[o])>>
  <1>1. c \in Seq(Given) /\ Len(c) \in Nat
    BY ImageFacts
  <1>2. k \in Seq(Given) /\ Len(k) = 1 /\ k[1] = Ref(image.class[o])
    BY ImageFacts
  <1>3. Values(o) = IF o \in image.binary THEN c \o k ELSE k \o c
    BY DEF Values
  <1> HIDE DEF c, k
  <1>4. /\ c \o k \in Seq(Given) /\ Len(c \o k) = Len(c) + 1
        /\ \A i \in 1 .. Len(c) + 1 : (c \o k)[i] = IF i <= Len(c) THEN c[i] ELSE k[i - Len(c)]
    BY <1>1, <1>2, ConcatProperties, SMTT(30)
  <1>5. /\ k \o c \in Seq(Given) /\ Len(k \o c) = 1 + Len(c)
        /\ \A i \in 1 .. 1 + Len(c) : (k \o c)[i] = IF i <= 1 THEN k[i] ELSE c[i - 1]
    <2>1. /\ k \o c \in Seq(Given) /\ Len(k \o c) = Len(k) + Len(c)
          /\ \A i \in 1 .. Len(k) + Len(c) :
               (k \o c)[i] = IF i <= Len(k) THEN k[i] ELSE c[i - Len(k)]
      BY <1>1, <1>2, ConcatProperties
    <2>2. QED BY <1>2, <2>1
  <1>6. CASE o \in image.binary
    <2>1. \A j \in 1 .. Len(c) : (c \o k)[j] = c[j]
      BY <1>1, <1>4
    <2>2. (c \o k)[Len(c) + 1] = k[1]
      BY <1>1, <1>4
    <2>3. QED BY <1>6, <1>1, <1>2, <1>3, <1>4, <2>1, <2>2 DEF c
  <1>7. CASE o \notin image.binary
    <2>1. \A j \in 1 .. Len(c) : (k \o c)[j + 1] = c[j]
      <3> SUFFICES ASSUME NEW j \in 1 .. Len(c) PROVE (k \o c)[j + 1] = c[j]
        OBVIOUS
      <3>1. j + 1 \in 1 .. 1 + Len(c) /\ ~(j + 1 <= 1) /\ (j + 1) - 1 = j
        BY <1>1
      <3>2. QED BY <1>5, <3>1
    <2>2. (k \o c)[1] = k[1]
      BY <1>1, <1>5
    <2>3. QED BY <1>7, <1>1, <1>2, <1>3, <1>5, <2>1, <2>2 DEF c
  <1>8. QED BY <1>6, <1>7

-----------------------------------------------------------------------------
(***************************************************************************)
(* The stages of the writer.  Each record it writes takes it from one to   *)
(* the next.                                                               *)
(***************************************************************************)
CallSet == [values : Seq(Given), done : Nat]

Pending(s) == s \in Seq(CallSet) /\ \A i \in 1 .. Len(s) : s[i].done < Len(s[i].values)

\* The calls that a record leaves: the one on top has done one value more, or
\* is over.
LEMMA AdvanceFacts ==
  ASSUME NEW s, Pending(s), s # <<>>
  PROVE  /\ Len(s) \in Nat \ {0}
         /\ s[Len(s)].done + 1 \in 1 .. Len(s[Len(s)].values)
         /\ s[Len(s)].values \in Seq(Given)
         /\ Due(s) = s[Len(s)].values[s[Len(s)].done + 1]
         /\ Due(s) \in Given
         /\ Pending(Advance(s))
         /\ Len(Advance(s)) = IF s[Len(s)].done + 1 = Len(s[Len(s)].values)
                              THEN Len(s) - 1 ELSE Len(s)
         /\ \A i \in 1 .. Len(s) - 1 : Advance(s)[i] = s[i]
         /\ s[Len(s)].done + 1 # Len(s[Len(s)].values) =>
              /\ Advance(s)[Len(s)].values = s[Len(s)].values
              /\ Advance(s)[Len(s)].done = s[Len(s)].done + 1
  <1> DEFINE n == Len(s)
             top == s[n]
             up == [values |-> top.values, done |-> top.done + 1]
  <1>1. s \in Seq(CallSet) /\ n \in Nat \ {0}
    BY DEF Pending
  <1>2. top \in CallSet /\ top.done < Len(top.values)
    BY <1>1 DEF Pending
  <1>3. top.values \in Seq(Given) /\ top.done \in Nat /\ Len(top.values) \in Nat
    BY <1>2 DEF CallSet
  <1>4. top.done + 1 \in 1 .. Len(top.values)
    BY <1>2, <1>3
  <1>5. Due(s) = top.values[top.done + 1]
    BY DEF Due, Last
  <1>6. Due(s) \in Given
    BY <1>3, <1>4, <1>5, ElementOfSeq
  <1> HIDE DEF n
  <1>7. CASE top.done + 1 = Len(top.values)
    <2>1. Advance(s) = SubSeq(s, 1, n - 1)
      BY <1>7 DEF Advance, Last, Front, n
    <2>2. /\ SubSeq(s, 1, n - 1) \in Seq(CallSet)
          /\ Len(SubSeq(s, 1, n - 1)) = n - 1
          /\ \A i \in 1 .. n - 1 : SubSeq(s, 1, n - 1)[i] = s[i]
      <3>1. \A i \in 1 .. n - 1 : s[i] \in CallSet
        BY <1>1 DEF n
      <3>2. n - 1 \in Int /\ n - 1 \in Nat /\ 1 \in Int
        BY <1>1
      <3>3. /\ SubSeq(s, 1, n - 1) \in Seq(CallSet)
            /\ Len(SubSeq(s, 1, n - 1)) = IF 1 <= n - 1 THEN n - 1 - 1 + 1 ELSE 0
            /\ \A i \in 1 .. n - 1 - 1 + 1 : SubSeq(s, 1, n - 1)[i] = s[1 + i - 1]
        BY <3>1, <3>2, SubSeqProperties
      <3>4. QED BY <3>2, <3>3
    <2>3. Pending(Advance(s))
      BY <1>1, <2>1, <2>2 DEF Pending, n
    <2>4. QED BY <1>1, <1>3, <1>4, <1>5, <1>6, <1>7, <2>1, <2>2, <2>3 DEF n
  <1>8. CASE top.done + 1 # Len(top.values)
    <2>1. Advance(s) = [s EXCEPT ![n] = up]
      <3>1. Advance(s) = [s EXCEPT ![n].done = top.done + 1]
        BY <1>8 DEF Advance, Last, n
      <3>2. [top EXCEPT !.done = top.done + 1] = up
        BY <1>2 DEF CallSet
      <3>3. [s EXCEPT ![n].done = top.done + 1] = [s EXCEPT ![n] = [top EXCEPT !.done = top.done + 1]]
        OBVIOUS
      <3>4. QED BY <3>1, <3>2, <3>3
    <2>2. up \in CallSet /\ up.done < Len(up.values) /\ up.values = top.values
          /\ up.done = top.done + 1
      BY <1>2, <1>3, <1>8 DEF CallSet
    <2> HIDE DEF up, top
    <2>3. /\ [s EXCEPT ![n] = up] \in Seq(CallSet)
          /\ Len([s EXCEPT ![n] = up]) = n
          /\ \A j \in 1 .. n : [s EXCEPT ![n] = up][j] = IF j = n THEN up ELSE s[j]
      BY <1>1, <2>2, ExceptSeq DEF n
    <2>4. Pending(Advance(s))
      BY <1>1, <2>1, <2>2, <2>3 DEF Pending, n
    <2>5. \A i \in 1 .. n - 1 : Advance(s)[i] = s[i]
      BY <1>1, <2>1, <2>3
    <2>6. Advance(s)[n] = up
      BY <1>1, <2>1, <2>3
    <2>7. QED BY <1>1, <1>3, <1>4, <1>5, <1>6, <1>8, <2>1, <2>2, <2>3, <2>4, <2>5, <2>6 DEF n, top
  <1>9. QED BY <1>7, <1>8

LEMMA IndexFacts ==
  ASSUME NEW S, NEW known \in Seq(S), NEW o, o \in ToSet(known)
  PROVE  Index(known, o) \in 1 .. Len(known) /\ known[Index(known, o)] = o
  BY DEF Index, ToSet

\* The record of a value.
LEMMA RecordTypes ==
  ASSUME NEW known \in Seq(Objects), NEW v \in Given
  PROVE  /\ v.type = "int" => v.is \in Ints /\ getObjectType(v, known) = "inlineInteger"
         /\ v.type = "byte" => v.is \in Nat /\ getObjectType(v, known) = "byte"
         /\ v.type = "ref" => v.is \in Objects
         /\ v.type = "ref" /\ v.is \in ToSet(known) =>
              /\ Index(known, v.is) \in 1 .. Len(known) /\ known[Index(known, v.is)] = v.is
              /\ getObjectType(v, known) =
                   IF Index(known, v.is) = 1 THEN "nilObject" ELSE "previousObject"
         /\ v.type = "ref" /\ v.is \notin ToSet(known) =>
              getObjectType(v, known) =
                IF v.is \in image.binary THEN "byteObject" ELSE "ordinaryObject"
         /\ IsNew(v, known) <=> v.type = "ref" /\ v.is \notin ToSet(known)
  <1>1. /\ v.type \in {"int", "ref", "byte"}
        /\ v.type = "int" => v.is \in Ints
        /\ v.type = "ref" => v.is \in Objects
        /\ v.type = "byte" => v.is \in 0 .. Escape
    BY GivenFacts
  <1>2. CASE v.type = "int"
    BY <1>1, <1>2 DEF getObjectType, IsNew
  <1>3. CASE v.type = "byte"
    BY <1>1, <1>3, ImageFormatAssumption DEF getObjectType, IsNew
  <1>4. CASE v.type = "ref" /\ v.is \in ToSet(known)
    <2>1. Index(known, v.is) \in 1 .. Len(known) /\ known[Index(known, v.is)] = v.is
      BY <1>4, IndexFacts
    <2>2. QED BY <1>1, <1>4, <2>1 DEF getObjectType, IsNew
  <1>5. CASE v.type = "ref" /\ v.is \notin ToSet(known)
    BY <1>1, <1>5 DEF getObjectType, IsNew
  <1>6. v.type = "int" \/ v.type = "byte" \/ v.type = "ref"
    BY <1>1
  <1>7. QED BY <1>2, <1>3, <1>4, <1>5, <1>6, Zenon

LEMMA RecordWords ==
  /\ writeWord(1) \in Seq(0 .. Escape) /\ writeWord(2) \in Seq(0 .. Escape)
  /\ writeWord(3) \in Seq(0 .. Escape) /\ writeWord(4) \in Seq(0 .. Escape)
  /\ writeWord(5) \in Seq(0 .. Escape)
  BY WordBytes

\* What goes into the file, record by record.
LEMMA BytesFacts ==
  ASSUME image \in Images, NEW known \in Seq(Objects), NEW v \in Given
  PROVE  /\ Bytes(v, known) \in Seq(0 .. Escape)
         /\ v.type = "byte" => Bytes(v, known) = writeWord(v.is)
         /\ v.type = "int" => Bytes(v, known) = writeWord(2) \o IntegerBytes(v.is)
         /\ v.type = "ref" /\ v.is \in ToSet(known) =>
              Bytes(v, known) = IF Index(known, v.is) = 1 THEN writeWord(5)
                                ELSE writeWord(4) \o writeWord(Index(known, v.is) - 1)
         /\ v.type = "ref" /\ v.is \notin ToSet(known) =>
              Bytes(v, known) = (IF v.is \in image.binary THEN writeWord(3) ELSE writeWord(1))
                                  \o writeWord(Len(image.contents[v.is]))
  <1> DEFINE S == Seq(0 .. Escape)
             t == getObjectType(v, known)
             all == Bytes(v, known)
  <1>1. \A a \in S, b \in S : a \o b \in S
    BY ConcatProperties
  <1>2. v.type \in {"int", "ref", "byte"}
    BY GivenFacts
  <1>3. CASE v.type = "int"
    <2>1. t = "inlineInteger" /\ v.is \in Ints
      BY <1>3, RecordTypes
    <2>2. IntegerBytes(v.is) \in S
      BY <2>1, IntegerIsItsBytes
    <2>3. all = writeWord(2) \o IntegerBytes(v.is)
      BY <2>1 DEF Bytes, Record
    <2>4. QED BY <1>1, <1>3, <2>2, <2>3, RecordWords
  <1>4. CASE v.type = "byte"
    <2>1. t = "byte" /\ v.is \in Nat
      BY <1>4, RecordTypes
    <2>2. all = writeWord(v.is)
      BY <2>1 DEF Bytes
    <2>3. all \in S
      BY <2>1, <2>2, WordBytes
    <2>4. QED BY <1>4, <2>2, <2>3
  <1>5. CASE v.type = "ref" /\ v.is \in ToSet(known)
    <2> DEFINE i == Index(known, v.is)
    <2>1. i \in 1 .. Len(known) /\ t = IF i = 1 THEN "nilObject" ELSE "previousObject"
      BY <1>5, RecordTypes
    <2> HIDE DEF t
    <2>2. all = IF i = 1 THEN writeWord(5) ELSE writeWord(4) \o writeWord(i - 1)
      BY <2>1 DEF Bytes, Record, t
    <2>3. i - 1 \in Nat
      BY <2>1
    <2>4. writeWord(i - 1) \in S
      BY <2>3, WordBytes
    <2>5. all \in S
      BY <1>1, <2>2, <2>4, RecordWords
    <2>6. QED BY <1>5, <2>2, <2>5
  <1>6. CASE v.type = "ref" /\ v.is \notin ToSet(known)
    <2> DEFINE n == Len(image.contents[v.is])
               w == IF v.is \in image.binary THEN writeWord(3) ELSE writeWord(1)
    <2>1. t = (IF v.is \in image.binary THEN "byteObject" ELSE "ordinaryObject") /\ v.is \in Objects
      BY <1>6, RecordTypes
    <2> HIDE DEF t
    <2>2. all = w \o writeWord(n)
      <3>1. all = writeWord(Record[t]) \o writeWord(n)
        BY <2>1 DEF Bytes, t
      <3>2. writeWord(Record[t]) = w
        BY <2>1 DEF Record
      <3>3. QED BY <3>1, <3>2
    <2>3. n \in Nat
      BY <2>1, ImageFacts
    <2>4. writeWord(n) \in S
      BY <2>3, WordBytes
    <2>5. w \in S
      BY RecordWords
    <2>6. all \in S
      BY <1>1, <2>2, <2>4, <2>5
    <2>7. QED BY <1>6, <2>2, <2>6
  <1>7. QED BY <1>2, <1>3, <1>4, <1>5, <1>6

Stage == [calls : Seq(CallSet), written : Seq(Objects), at : Nat]

StageOK(s) == s \in Stage /\ Pending(s.calls) /\ IsInjective(s.written)

Start == [calls |-> <<Call(image.globals)>>, written |-> <<>>, at |-> 0]

Code(s) == Bytes(Due(s.calls), s.written)

Step(s) ==
  LET v   == Due(s.calls)
      new == IsNew(v, s.written)
  IN  [calls   |-> Advance(s.calls) \o IF new THEN <<Call(Values(v.is))>> ELSE <<>>,
       written |-> IF new THEN Append(s.written, v.is) ELSE s.written,
       at      |-> s.at + Len(Code(s))]

Prefix(a, b) == Len(a) <= Len(b) /\ \A i \in 1 .. Len(a) : a[i] = b[i]

LEMMA NewCall ==
  ASSUME image \in Images, NEW o \in Objects
  PROVE  /\ Call(Values(o)) \in CallSet
         /\ Call(Values(o)).values = Values(o) /\ Call(Values(o)).done = 0
         /\ 0 < Len(Values(o))
  <1>1. Values(o) \in Seq(Given) /\ Len(Values(o)) = Len(image.contents[o]) + 1
        /\ Len(image.contents[o]) \in Nat
    BY ValuesFacts
  <1>2. QED BY <1>1 DEF Call, CallSet

\* The calls of the next stage.
LEMMA StepCalls ==
  ASSUME image \in Images, NEW s, StageOK(s), s.calls # <<>>
  PROVE  LET v == Due(s.calls)
             d == Len(Advance(s.calls))
             new == IsNew(v, s.written)
         IN  /\ Pending(Step(s).calls)
             /\ d \in Nat /\ v \in Given
             /\ Len(Step(s).calls) = IF new THEN d + 1 ELSE d
             /\ \A i \in 1 .. d : Step(s).calls[i] = Advance(s.calls)[i]
             /\ new => /\ Step(s).calls[d + 1].values = Values(v.is)
                       /\ Step(s).calls[d + 1].done = 0
  <1> DEFINE v == Due(s.calls)
             a == Advance(s.calls)
             d == Len(a)
             new == IsNew(v, s.written)
             c == Call(Values(v.is))
  <1>1. s.calls \in Seq(CallSet) /\ s.written \in Seq(Objects) /\ Pending(s.calls)
    BY DEF StageOK, Stage
  <1>2. Pending(a) /\ v \in Given
    BY <1>1, AdvanceFacts
  <1>3. a \in Seq(CallSet) /\ d \in Nat /\ \A i \in 1 .. d : a[i].done < Len(a[i].values)
    BY <1>2 DEF Pending
  <1>4. Step(s).calls = a \o IF new THEN <<c>> ELSE <<>>
    BY DEF Step
  <1> HIDE DEF a, v, c
  <1>5. CASE new
    <2>1. v.is \in Objects
      BY <1>1, <1>2, <1>5, RecordTypes
    <2>2. c \in CallSet /\ c.values = Values(v.is) /\ c.done = 0 /\ 0 < Len(c.values)
      BY <2>1, NewCall DEF c
    <2>3. <<c>> \in Seq(CallSet) /\ Len(<<c>>) = 1 /\ <<c>>[1] = c
      BY <2>2
    <2> DEFINE t == a \o <<c>>
    <2>4. /\ t \in Seq(CallSet) /\ Len(t) = d + Len(<<c>>)
          /\ \A i \in 1 .. d + Len(<<c>>) : t[i] = IF i <= d THEN a[i] ELSE <<c>>[i - d]
      BY <1>3, <2>3, ConcatProperties
    <2> HIDE DEF t
    <2>5. Len(t) = d + 1 /\ t[d + 1] = c /\ \A i \in 1 .. d : t[i] = a[i]
      <3> HIDE DEF d
      <3>1. \A i \in 1 .. d + 1 : t[i] = IF i <= d THEN a[i] ELSE <<c>>[i - d]
        BY <2>3, <2>4
      <3>2. d + 1 \in 1 .. d + 1 /\ ~(d + 1 <= d) /\ (d + 1) - d = 1
        BY <1>3
      <3>3. t[d + 1] = c
        BY <3>1, <3>2, <2>3
      <3>4. QED BY <3>1, <3>3, <2>3, <2>4, <1>3
    <2>6. Pending(t)
      <3>1. ASSUME NEW i \in 1 .. d + 1 PROVE t[i].done < Len(t[i].values)
        <4>1. i \in 1 .. d \/ i = d + 1
          BY <1>3
        <4>2. QED BY <4>1, <1>3, <2>2, <2>5
      <3>2. QED BY <3>1, <2>4, <2>5 DEF Pending
    <2>7. Step(s).calls = t
      BY <1>4, <1>5 DEF t
    <2>8. QED BY <1>2, <1>3, <1>5, <2>2, <2>5, <2>6, <2>7 DEF v, a
  <1>6. CASE ~new
    <2>1. Step(s).calls = a
      BY <1>3, <1>4, <1>6, ConcatEmptySeq
    <2>2. QED BY <1>2, <1>3, <1>6, <2>1 DEF v, a
  <1>7. QED BY <1>5, <1>6

LEMMA StepWritten ==
  ASSUME image \in Images, NEW s, StageOK(s), s.calls # <<>>
  PROVE  /\ Step(s).written \in Seq(Objects) /\ IsInjective(Step(s).written)
         /\ Prefix(s.written, Step(s).written)
         /\ IsNew(Due(s.calls), s.written) =>
              /\ Len(Step(s).written) = Len(s.written) + 1
              /\ Step(s).written[Len(s.written) + 1] = Due(s.calls).is
         /\ ~IsNew(Due(s.calls), s.written) => Step(s).written = s.written
  <1> DEFINE v == Due(s.calls)
             w == s.written
             x == Append(w, v.is)
             new == IsNew(v, w)
  <1>1. w \in Seq(Objects) /\ Pending(s.calls) /\ IsInjective(w)
    BY DEF StageOK, Stage
  <1>2. v \in Given
    BY <1>1, AdvanceFacts
  <1>3. Step(s).written = IF new THEN x ELSE w
    BY DEF Step
  <1> HIDE DEF w, v
  <1>4. CASE new
    <2>1. v.is \in Objects /\ v.is \notin ToSet(w)
      BY <1>1, <1>2, <1>4, RecordTypes
    <2>2. /\ x \in Seq(Objects) /\ Len(x) = Len(w) + 1
          /\ \A i \in 1 .. Len(w) : x[i] = w[i]
          /\ x[Len(w) + 1] = v.is
      BY <1>1, <2>1, AppendProperties
    <2> HIDE DEF x
    <2>3. IsInjective(x)
      <3>1. SUFFICES ASSUME NEW i \in 1 .. Len(w) + 1, NEW j \in 1 .. Len(w) + 1, x[i] = x[j]
                     PROVE  i = j
        BY <2>2 DEF IsInjective
      <3>2. \A k \in 1 .. Len(w) : x[k] # v.is
        BY <2>1, <2>2, <1>1 DEF ToSet
      <3>3. \A k \in 1 .. Len(w), l \in 1 .. Len(w) : w[k] = w[l] => k = l
        BY <1>1 DEF IsInjective
      <3>4. /\ i \in 1 .. Len(w) \/ i = Len(w) + 1
            /\ j \in 1 .. Len(w) \/ j = Len(w) + 1
        BY <1>1
      <3>5. QED BY <3>1, <3>2, <3>3, <3>4, <2>2
    <2>4. QED BY <1>1, <1>3, <1>4, <2>2, <2>3 DEF v, w, Prefix
  <1>5. CASE ~new
    BY <1>1, <1>3, <1>5 DEF v, w, Prefix
  <1>6. QED BY <1>4, <1>5

LEMMA StepOK ==
  ASSUME image \in Images, NEW s, StageOK(s), s.calls # <<>>
  PROVE  /\ StageOK(Step(s))
         /\ Code(s) \in Seq(0 .. Escape) /\ Len(Code(s)) \in Nat
         /\ Step(s).at = s.at + Len(Code(s))
  <1>1. /\ s.calls \in Seq(CallSet) /\ s.written \in Seq(Objects) /\ Pending(s.calls)
        /\ s.at \in Nat
    BY DEF StageOK, Stage
  <1>2. Due(s.calls) \in Given
    BY <1>1, AdvanceFacts
  <1>3. Code(s) \in Seq(0 .. Escape)
    BY <1>1, <1>2, BytesFacts DEF Code
  <1>4. Len(Code(s)) \in Nat
    BY <1>3
  <1>5. Step(s).at = s.at + Len(Code(s))
    BY DEF Step
  <1>6. Pending(Step(s).calls)
    BY StepCalls
  <1>7. Step(s).calls \in Seq(CallSet)
    BY <1>6 DEF Pending
  <1>8. Step(s).written \in Seq(Objects) /\ IsInjective(Step(s).written)
    BY StepWritten
  <1>9. Step(s).at \in Nat
    BY <1>1, <1>4, <1>5
  <1>10. Step(s) = [calls |-> Step(s).calls, written |-> Step(s).written, at |-> Step(s).at]
    BY DEF Step
  <1>11. Step(s) \in Stage
    BY <1>7, <1>8, <1>9, <1>10 DEF Stage
  <1>12. QED BY <1>3, <1>4, <1>5, <1>6, <1>8, <1>11 DEF StageOK

-----------------------------------------------------------------------------
(***************************************************************************)
(* What the writer did, up to its present stage, and what of it is in the  *)
(* file.                                                                   *)
(***************************************************************************)
Logged(log) ==
  /\ log \in Seq(Stage) /\ Len(log) >= 1
  /\ log[1] = Start
  /\ \A i \in 1 .. Len(log) : StageOK(log[i]) /\ Prefix(log[i].written, written)
  /\ \A i \in 1 .. Len(log) - 1 :
       /\ log[i].calls # <<>> /\ log[i + 1] = Step(log[i])
       /\ Holds(log[i].at, Code(log[i]))
  /\ log[Len(log)].calls = calls /\ log[Len(log)].written = written
  /\ cut => Len(file) < log[Len(log)].at
  /\ ~cut => Len(file) = log[Len(log)].at /\ \A i \in 1 .. Len(log) : log[i].at <= Len(file)

WriterInv ==
  /\ image \in Images /\ order \in Orders /\ cut \in BOOLEAN
  /\ phase \in {"write", "read", "loaded", "refused", "exhausted", "corrupt"}
  /\ file \in Seq(0 .. Escape)
  /\ phase # "write" \/ cut => calls = <<>>

\* The same image has the same stages.
LEMMA SameImage ==
  ASSUME image' = image
  PROVE  /\ Objects' = Objects /\ Given' = Given /\ Start' = Start /\ Stage' = Stage
         /\ CallSet' = CallSet
         /\ \A s : /\ StageOK(s)' <=> StageOK(s)
                   /\ Step(s)' = Step(s) /\ Code(s)' = Code(s)
  <1>1. /\ Objects' = Objects /\ Given' = Given /\ Start' = Start
        /\ \A o : Values(o)' = Values(o)
    BY DEF Objects, Given, Start, Values, Call
  <1>2. CallSet' = CallSet
    BY <1>1, Zenon DEF CallSet
  <1>3. Stage' = Stage
    BY <1>1, <1>2, Zenon DEF Stage
  <1>4. \A s : Pending(s)' <=> Pending(s)
    BY <1>2, Zenon DEF Pending
  <1>5. \A v, known : getObjectType(v, known)' = getObjectType(v, known)
    BY Zenon DEF getObjectType
  <1>6. \A v, known : IsNew(v, known)' <=> IsNew(v, known)
    BY <1>5, Zenon DEF IsNew
  <1>7. \A v, known : Bytes(v, known)' = Bytes(v, known)
    BY <1>5, Zenon DEF Bytes
  <1>8. \A s : Code(s)' = Code(s)
    BY <1>7, Zenon DEF Code
  <1>9. \A s : Step(s)' = Step(s)
    BY <1>1, <1>6, <1>8, Zenon DEF Step
  <1>10. \A s : StageOK(s)' <=> StageOK(s)
    BY <1>3, <1>4, Zenon DEF StageOK
  <1>11. QED BY <1>1, <1>2, <1>3, <1>8, <1>9, <1>10

LEMMA StartLogged ==
  ASSUME Init
  PROVE  WriterInv /\ Logged(<<Start>>)
  <1>1. image \in Images /\ order \in Orders /\ cut = FALSE /\ phase = "write"
        /\ calls = <<Call(image.globals)>> /\ written = <<>> /\ file = <<>>
    BY DEF Init
  <1>2. image.globals \in Seq(Given) /\ Len(image.globals) \in Nat \ {0}
    BY <1>1, ImageFacts
  <1> DEFINE c == Call(image.globals)
  <1>3. c \in CallSet /\ c.done < Len(c.values)
    BY <1>2 DEF Call, CallSet
  <1> HIDE DEF c
  <1>4. <<c>> \in Seq(CallSet) /\ Len(<<c>>) = 1 /\ <<c>>[1] = c
    BY <1>3
  <1>5. Pending(<<c>>)
    BY <1>3, <1>4 DEF Pending
  <1>6. <<>> \in Seq(Objects) /\ IsInjective(<<>>)
    BY DEF IsInjective
  <1>7. Start \in Stage /\ Start.calls = <<c>> /\ Start.written = <<>> /\ Start.at = 0
    BY <1>4, <1>6 DEF Start, Stage, c
  <1>8. StageOK(Start)
    BY <1>5, <1>6, <1>7 DEF StageOK
  <1> HIDE DEF Start
  <1> DEFINE log == <<Start>>
  <1>9. log \in Seq(Stage) /\ Len(log) = 1 /\ log[1] = Start
    BY <1>7
  <1> HIDE DEF log
  <1>10. Prefix(Start.written, written)
    BY <1>1, <1>7 DEF Prefix
  <1>11. Len(file) = 0 /\ file \in Seq(0 .. Escape)
    BY <1>1
  <1>12. Logged(log)
    BY <1>1, <1>7, <1>8, <1>9, <1>10, <1>11 DEF Logged, c
  <1>13. QED BY <1>1, <1>11, <1>12 DEF WriterInv, log

\* A record is written: the log has one stage more.
LEMMA WriteLogged ==
  ASSUME WriterInv, NEW log, Logged(log), writeObject
  PROVE  WriterInv' /\ \E g : Logged(g)'
  <1>0. PICK n : n = Len(log)
    OBVIOUS
  <1> DEFINE s == log[n]
             t == Step(s)
             b == Code(s)
  <1>1. /\ log \in Seq(Stage) /\ n >= 1 /\ n \in Nat
        /\ \A i \in 1 .. n : StageOK(log[i]) /\ Prefix(log[i].written, written)
        /\ s.calls = calls /\ s.written = written
    BY <1>0 DEF Logged
  <1>2. calls # <<>> /\ phase = "write" /\ ~cut /\ cut' = cut /\ phase' = phase
        /\ image' = image /\ order' = order
    BY DEF writeObject, WriterInv
  <1>3. image \in Images /\ order \in Orders /\ file \in Seq(0 .. Escape)
    BY DEF WriterInv
  <1>4. file' = file \o b /\ calls' = t.calls /\ written' = t.written
    BY <1>1 DEF writeObject, Code, Step
  <1>5. StageOK(s)
    BY <1>1
  <1>6. /\ StageOK(t) /\ b \in Seq(0 .. Escape) /\ Len(b) \in Nat
        /\ t.at = s.at + Len(b)
    BY <1>1, <1>2, <1>3, <1>5, StepOK
  <1>7. Len(file) = s.at /\ \A i \in 1 .. n : log[i].at <= Len(file)
    BY <1>0, <1>2 DEF Logged
  <1>8. \A i \in 1 .. n - 1 :
          /\ log[i].calls # <<>> /\ log[i + 1] = Step(log[i])
          /\ Holds(log[i].at, Code(log[i]))
    BY <1>0 DEF Logged
  <1>9. t \in Stage /\ \A i \in 1 .. n : log[i].at \in Nat
    BY <1>1, <1>6 DEF StageOK, Stage
  <1>10. Prefix(written, t.written)
    BY <1>1, <1>2, <1>3, <1>5, StepWritten
  <1>10a. t.written \in Seq(Objects) /\ written \in Seq(Objects)
          /\ \A i \in 1 .. n : log[i].written \in Seq(Objects)
    BY <1>1, <1>5, <1>6 DEF StageOK, Stage
  <1> HIDE DEF t, b, s
  <1>11. /\ file' \in Seq(0 .. Escape) /\ Len(file') = Len(file) + Len(b)
         /\ \A i \in 1 .. Len(file) + Len(b) :
              file'[i] = IF i <= Len(file) THEN file[i] ELSE b[i - Len(file)]
    BY <1>3, <1>4, <1>6, ConcatProperties
  <1>11a. PICK g : g = Append(log, t)
    OBVIOUS
  <1>12. /\ g \in Seq(Stage) /\ Len(g) = n + 1
         /\ \A i \in 1 .. n : g[i] = log[i]
         /\ g[n + 1] = t
    BY <1>0, <1>1, <1>9, <1>11a, AppendProperties
  <1>13. \A i \in 1 .. n + 1 : StageOK(g[i]) /\ Prefix(g[i].written, written')
    <2>1. SUFFICES ASSUME NEW i \in 1 .. n + 1
                   PROVE  StageOK(g[i]) /\ Prefix(g[i].written, written')
      OBVIOUS
    <2>2. CASE i = n + 1
      <3>1. Prefix(t.written, t.written)
        BY <1>10a DEF Prefix
      <3>2. QED BY <2>2, <3>1, <1>4, <1>6, <1>12
    <2>3. CASE i \in 1 .. n
      <3>1. g[i] = log[i] /\ StageOK(log[i]) /\ Prefix(log[i].written, written)
        BY <2>3, <1>1, <1>12
      <3> DEFINE w == log[i].written
      <3>2. w \in Seq(Objects)
        BY <2>3, <1>10a
      <3>3. Prefix(w, written)
        BY <3>1
      <3> HIDE DEF w
      <3>4. Prefix(w, t.written)
        BY <3>2, <3>3, <1>10, <1>10a DEF Prefix
      <3>5. QED BY <3>1, <3>4, <1>4 DEF w
    <2>4. QED BY <2>2, <2>3, <1>1
  <1>14. \A i \in 1 .. n : /\ g[i].calls # <<>> /\ g[i + 1] = Step(g[i])
                           /\ Holds(g[i].at, Code(g[i]))'
    <2>0. SUFFICES ASSUME NEW i \in 1 .. n
                   PROVE  /\ g[i].calls # <<>> /\ g[i + 1] = Step(g[i])
                          /\ Holds(g[i].at, Code(g[i]))'
      OBVIOUS
    <2>1. g[i] = log[i]
      BY <1>12
    <2>2. Code(log[i])' = Code(log[i])
      BY <1>2, SameImage
    <2>3. CASE i = n
      <3>1. g[i + 1] = Step(log[i]) /\ log[i].calls # <<>>
        BY <1>1, <1>2, <1>12, <2>3 DEF s, t
      <3>2. \A j \in 1 .. Len(b) : Len(file) + j <= Len(file') => file'[Len(file) + j] = b[j]
        <4> SUFFICES ASSUME NEW j \in 1 .. Len(b) PROVE file'[Len(file) + j] = b[j]
          OBVIOUS
        <4>1. Len(file) + j \in 1 .. Len(file) + Len(b) /\ ~(Len(file) + j <= Len(file))
              /\ (Len(file) + j) - Len(file) = j
          BY <1>6, <1>3
        <4>2. QED BY <4>1, <1>11
      <3>3. log[i].at = Len(file) /\ Code(log[i]) = b
        BY <1>7, <2>3 DEF b, s
      <3>4. Holds(log[i].at, Code(log[i]))'
        BY <3>2, <3>3, <2>2 DEF Holds
      <3>5. QED BY <2>1, <3>1, <3>4
    <2>4. CASE i \in 1 .. n - 1
      <3>1. /\ log[i].calls # <<>> /\ log[i + 1] = Step(log[i])
            /\ Holds(log[i].at, Code(log[i]))
        BY <1>8, <2>4
      <3>2. i + 1 \in 1 .. n
        BY <1>1, <2>4
      <3>3. g[i + 1] = log[i + 1]
        BY <1>12, <3>2
      <3>4. /\ log[i + 1].at <= Len(file) /\ log[i + 1].at = log[i].at + Len(Code(log[i]))
            /\ Len(Code(log[i])) \in Nat /\ log[i].at \in Nat
        <4>1. StageOK(log[i])
          BY <1>1
        <4>2. Step(log[i]).at = log[i].at + Len(Code(log[i])) /\ Len(Code(log[i])) \in Nat
          BY <1>3, <3>1, <4>1, StepOK
        <4>3. QED BY <1>7, <1>9, <3>1, <3>2, <4>2
      <3>5. Holds(log[i].at, Code(log[i]))'
        <4> DEFINE p == log[i].at
                   c == Code(log[i])
        <4>1. \A j \in 1 .. Len(c) : p + j <= Len(file) => file[p + j] = c[j]
          BY <3>1 DEF Holds
        <4>2. p \in Nat /\ Len(c) \in Nat /\ p + Len(c) <= Len(file)
          BY <3>4
        <4>3. c' = c
          BY <2>2
        <4> HIDE DEF p, c
        <4>4. \A j \in 1 .. Len(c) : p + j \in 1 .. Len(file)
          BY <4>2, <1>3
        <4>5. \A j \in 1 .. Len(c) : file'[p + j] = c[j]
          BY <4>1, <4>4, <1>11, <1>6
        <4>6. \A j \in 1 .. Len(Code(log[i])) : file'[log[i].at + j] = Code(log[i])[j]
          BY <4>5 DEF c, p
        <4>7. QED BY <4>6, <2>2 DEF Holds
      <3>6. QED BY <2>1, <3>1, <3>3, <3>5
    <2>5. QED BY <2>3, <2>4, <1>1
  <1>15. Len(file') = t.at /\ \A i \in 1 .. n + 1 : g[i].at <= Len(file')
    <2>1. Len(file') = t.at
      BY <1>6, <1>7, <1>11
    <2>2. \A i \in 1 .. n : log[i].at <= Len(file')
      BY <1>6, <1>7, <1>9, <1>11, <1>3
    <2>3. t.at \in Nat
      BY <1>9 DEF Stage
    <2>4. QED BY <2>1, <2>2, <2>3, <1>1, <1>12
  <1>16. Logged(g)'
    <2>1. /\ Start' = Start /\ Stage' = Stage
          /\ \A x : (StageOK(x)' <=> StageOK(x)) /\ Step(x)' = Step(x)
      BY <1>2, SameImage
    <2>2. g[1] = Start
      BY <1>1, <1>12 DEF Logged
    <2>3. (n + 1) - 1 = n
      BY <1>1
    <2>3a. \A i \in 1 .. n + 1 : (StageOK(g[i]) /\ Prefix(g[i].written, written))'
      BY <1>13, <2>1 DEF Prefix
    <2>3b. \A i \in 1 .. n : (/\ g[i].calls # <<>> /\ g[i + 1] = Step(g[i])
                              /\ Holds(g[i].at, Code(g[i])))'
      BY <1>14, <2>1
    <2>4. (g \in Seq(Stage) /\ Len(g) >= 1 /\ g[1] = Start)'
      BY <1>1, <1>12, <2>1, <2>2
    <2>5. (g[Len(g)].calls = calls /\ g[Len(g)].written = written)'
      BY <1>4, <1>12
    <2>6. ~cut' /\ Len(g) - 1 = n
      BY <1>2, <1>12, <2>3
    <2>7. (Len(file) = g[Len(g)].at /\ \A i \in 1 .. Len(g) : g[i].at <= Len(file))'
      BY <1>12, <1>15
    <2>8. (\A i \in 1 .. Len(g) : StageOK(g[i]) /\ Prefix(g[i].written, written))'
      BY <1>12, <2>3a
    <2>9. (\A i \in 1 .. Len(g) - 1 : /\ g[i].calls # <<>> /\ g[i + 1] = Step(g[i])
                                     /\ Holds(g[i].at, Code(g[i])))'
      BY <2>3b, <2>6
    <2>10. QED BY <2>4, <2>5, <2>6, <2>7, <2>8, <2>9, Zenon DEF Logged
  <1>17. WriterInv'
    BY <1>2, <1>3, <1>11 DEF WriterInv
  <1>18. QED BY <1>16, <1>17

LEMMA LoggedSame ==
  ASSUME WriterInv, NEW log, Logged(log), UNCHANGED writerVars
  PROVE  Logged(log)'
  <1>1. /\ image' = image /\ calls' = calls /\ written' = written /\ file' = file
        /\ cut' = cut
    BY DEF writerVars
  <1>2. /\ Start' = Start /\ Stage' = Stage
        /\ \A x : (StageOK(x)' <=> StageOK(x)) /\ Step(x)' = Step(x) /\ Code(x)' = Code(x)
    BY <1>1, SameImage
  <1>3. \A p, x : Holds(p, Code(x))' <=> Holds(p, Code(x))
    BY <1>1, <1>2, Zenon DEF Holds
  <1>4. \A a : Prefix(a, written)' <=> Prefix(a, written)
    BY <1>1, Zenon DEF Prefix
  <1>5. (log \in Seq(Stage) /\ Len(log) >= 1 /\ log[1] = Start)'
    BY <1>2 DEF Logged
  <1>6. (\A i \in 1 .. Len(log) : StageOK(log[i]) /\ Prefix(log[i].written, written))'
    BY <1>2, <1>4 DEF Logged
  <1>7. (\A i \in 1 .. Len(log) - 1 : /\ log[i].calls # <<>> /\ log[i + 1] = Step(log[i])
                                      /\ Holds(log[i].at, Code(log[i])))'
    BY <1>2, <1>3 DEF Logged
  <1>8. (log[Len(log)].calls = calls /\ log[Len(log)].written = written)'
    BY <1>1 DEF Logged
  <1>9. (/\ cut => Len(file) < log[Len(log)].at
         /\ ~cut => Len(file) = log[Len(log)].at
                    /\ \A i \in 1 .. Len(log) : log[i].at <= Len(file))'
    BY <1>1 DEF Logged
  <1>10. QED BY <1>5, <1>6, <1>7, <1>8, <1>9, Zenon DEF Logged

\* The killed writer leaves the first bytes of what it wrote.
LEMMA KillLogged ==
  ASSUME WriterInv, NEW log, Logged(log), Kill
  PROVE  WriterInv' /\ Logged(log)'
  <1>1. /\ image' = image /\ calls' = calls /\ written' = written /\ cut' = TRUE /\ ~cut
        /\ phase' = phase /\ order' = order /\ calls = <<>>
    BY DEF Kill, WriterInv
  <1>2. file \in Seq(0 .. Escape)
    BY DEF WriterInv
  <1>3. PICK n \in 0 .. Len(file) - 1 : file' = SubSeq(file, 1, n)
    BY DEF Kill
  <1>4. /\ file' \in Seq(0 .. Escape) /\ Len(file') = n /\ n < Len(file)
        /\ \A i \in 1 .. n : file'[i] = file[i]
    <2>1. \A i \in 1 .. n : file[i] \in 0 .. Escape
      <3>1. Len(file) \in Nat /\ n <= Len(file)
        BY <1>2
      <3>2. \A i \in 1 .. n : i \in 1 .. Len(file)
        BY <3>1
      <3>3. QED BY <1>2, <3>2, ElementOfSeq
    <2>2. n \in Int /\ 1 \in Int /\ n \in Nat /\ n < Len(file)
      <3>1. Len(file) \in Nat
        BY <1>2
      <3>2. QED BY <3>1
    <2>3. /\ SubSeq(file, 1, n) \in Seq(0 .. Escape)
          /\ Len(SubSeq(file, 1, n)) = IF 1 <= n THEN n - 1 + 1 ELSE 0
          /\ \A i \in 1 .. n - 1 + 1 : SubSeq(file, 1, n)[i] = file[1 + i - 1]
      BY <2>1, <2>2, SubSeqProperties
    <2>4. QED BY <2>2, <2>3, <1>3
  <1>5. /\ Start' = Start /\ Stage' = Stage
        /\ \A x : (StageOK(x)' <=> StageOK(x)) /\ Step(x)' = Step(x) /\ Code(x)' = Code(x)
    BY <1>1, SameImage
  <1>6. \A a : Prefix(a, written)' <=> Prefix(a, written)
    BY <1>1, Zenon DEF Prefix
  <1>7. (log \in Seq(Stage) /\ Len(log) >= 1 /\ log[1] = Start)'
    BY <1>5 DEF Logged
  <1>8. (\A i \in 1 .. Len(log) : StageOK(log[i]) /\ Prefix(log[i].written, written))'
    BY <1>5, <1>6 DEF Logged
  <1>9. (\A i \in 1 .. Len(log) - 1 : /\ log[i].calls # <<>> /\ log[i + 1] = Step(log[i])
                                      /\ Holds(log[i].at, Code(log[i])))'
    <2>1. SUFFICES ASSUME NEW i \in 1 .. Len(log) - 1
                   PROVE  (/\ log[i].calls # <<>> /\ log[i + 1] = Step(log[i])
                           /\ Holds(log[i].at, Code(log[i])))'
      OBVIOUS
    <2>2. /\ log[i].calls # <<>> /\ log[i + 1] = Step(log[i])
          /\ Holds(log[i].at, Code(log[i]))
      BY DEF Logged
    <2>3. Len(log) \in Nat /\ log[i].at \in Nat /\ Len(Code(log[i])) \in Nat
      <3>1. log \in Seq(Stage) /\ StageOK(log[i])
        BY DEF Logged
      <3>2. image \in Images
        BY DEF WriterInv
      <3>3. log[i].at \in Nat
        BY <3>1 DEF StageOK, Stage
      <3>4. Len(Code(log[i])) \in Nat
        BY <3>1, <3>2, <2>2, StepOK
      <3>5. QED BY <3>1, <3>3, <3>4
    <2> DEFINE p == log[i].at
               c == Code(log[i])
    <2>4. \A j \in 1 .. Len(c) : p + j <= Len(file) => file[p + j] = c[j]
      BY <2>2 DEF Holds
    <2>5. p \in Nat /\ Len(c) \in Nat
      BY <2>3
    <2>6. c' = c
      BY <1>5
    <2> HIDE DEF p, c
    <2>7. \A j \in 1 .. Len(c) : p + j <= Len(file') => file'[p + j] = c[j]
      <3> SUFFICES ASSUME NEW j \in 1 .. Len(c), p + j <= Len(file') PROVE file'[p + j] = c[j]
        OBVIOUS
      <3>1. p + j \in 1 .. n /\ p + j <= Len(file)
        BY <1>2, <1>3, <1>4, <2>5
      <3>2. QED BY <1>4, <2>4, <3>1
    <2>8. \A j \in 1 .. Len(Code(log[i])) :
            log[i].at + j <= Len(file') => file'[log[i].at + j] = Code(log[i])[j]
      BY <2>7 DEF p, c
    <2>9. Holds(log[i].at, Code(log[i]))'
      BY <2>8, <1>5 DEF Holds
    <2>10. QED BY <2>2, <2>9, <1>5
  <1>10. (log[Len(log)].calls = calls /\ log[Len(log)].written = written)'
    BY <1>1 DEF Logged
  <1>11. (/\ cut => Len(file) < log[Len(log)].at
          /\ ~cut => Len(file) = log[Len(log)].at
                     /\ \A i \in 1 .. Len(log) : log[i].at <= Len(file))'
    BY <1>1, <1>4 DEF Logged
  <1>12. Logged(log)'
    BY <1>7, <1>8, <1>9, <1>10, <1>11, Zenon DEF Logged
  <1>13. WriterInv'
    BY <1>1, <1>4 DEF WriterInv
  <1>14. QED BY <1>12, <1>13

-----------------------------------------------------------------------------
(***************************************************************************)
(* What the loader has built.                                              *)
(***************************************************************************)
ReadSet == {Int32(n) : n \in Int} \union {Ref(k) : k \in Nat} \union {Byte(n) : n \in Nat}

ObjectSet == [class : Seq(ReadSet), is : Seq(ReadSet), size : Nat, binary : BOOLEAN]

\* What is read of the object o, and how many of its values that are.
Mirrors(o, x) ==
  /\ x.binary = (o \in image.binary) /\ x.size = Len(image.contents[o])
  /\ Len(x.class) <= 1 /\ Len(x.is) <= x.size
  /\ Len(x.class) = 1 => SameValue(Ref(image.class[o]), x.class[1])
  /\ \A j \in 1 .. Len(x.is) : SameValue(image.contents[o][j], x.is[j])
  /\ IF x.binary THEN Len(x.class) = 1 => Len(x.is) = x.size
     ELSE Len(x.class) = 0 => Len(x.is) = 0

DoneOf(x) == Len(x.class) + Len(x.is)

\* The next value goes where WithValue() stores it.
\* How much of an object is read, in numbers.
LEMMA MirrorNumbers ==
  ASSUME image \in Images, NEW o \in Objects, NEW x \in ObjectSet, Mirrors(o, x)
  PROVE  \E a \in 0 .. 1, n \in Nat, b \in Nat :
           /\ b <= n
           /\ Len(x.class) = a /\ Len(x.is) = b /\ x.size = n
           /\ Len(image.contents[o]) = n /\ Len(Values(o)) = n + 1
           /\ DoneOf(x) = a + b
           /\ x.binary = (o \in image.binary)
           /\ x.class = <<>> <=> a = 0
           /\ Complete(x) <=> a = 1 /\ b = n
           /\ o \in image.binary => (a = 1 => b = n)
           /\ o \notin image.binary => (a = 0 => b = 0)
  <1>1. x.class \in Seq(ReadSet) /\ x.is \in Seq(ReadSet) /\ x.size \in Nat
    BY DEF ObjectSet
  <1>2. PICK a, b, n : a = Len(x.class) /\ b = Len(x.is) /\ n = x.size
    OBVIOUS
  <1>3. a \in Nat /\ b \in Nat /\ n \in Nat /\ (x.class = <<>> <=> a = 0)
    BY <1>1, <1>2
  <1>4. a <= 1 /\ b <= n /\ x.binary = (o \in image.binary) /\ n = Len(image.contents[o])
    BY <1>2 DEF Mirrors
  <1>5. Len(Values(o)) = n + 1
    BY <1>4, ValuesFacts
  <1>6. DoneOf(x) = a + b
    BY <1>2 DEF DoneOf
  <1>7. Complete(x) <=> a = 1 /\ b = n
    <2>1. Complete(x) <=> x.class # <<>> /\ b = n
      BY <1>2 DEF Complete
    <2>2. a <= 1
      BY <1>4
    <2>3. x.class # <<>> <=> a = 1
      BY <1>3, <2>2
    <2>4. QED BY <2>1, <2>3
  <1>8. o \in image.binary => (a = 1 => b = n)
    BY <1>2, <1>4 DEF Mirrors
  <1>9. o \notin image.binary => (a = 0 => b = 0)
    BY <1>2, <1>4 DEF Mirrors
  <1>10. a \in 0 .. 1 /\ b <= n
    BY <1>3, <1>4
  <1>11. QED BY <1>2, <1>3, <1>4, <1>5, <1>6, <1>7, <1>8, <1>9, <1>10

\* What its next value is.
LEMMA NextValue ==
  ASSUME image \in Images, NEW o \in Objects,
         NEW n \in Nat, Len(image.contents[o]) = n, NEW a \in 0 .. 1, NEW b \in Nat, b <= n,
         o \in image.binary => (a = 1 => b = n), o \notin image.binary => (a = 0 => b = 0),
         a + b < n + 1
  PROVE  LET v == Values(o)[(a + b) + 1]
             k == Ref(image.class[o])
         IN  IF o \in image.binary
             THEN a = 0 /\ IF b < n THEN v = image.contents[o][b + 1] /\ v.type = "byte"
                           ELSE v = k /\ v.type = "ref"
             ELSE v.type # "byte" /\ IF a = 0 THEN b = 0 /\ v = k
                                     ELSE b < n /\ v = image.contents[o][b + 1]
  <1> DEFINE c == image.contents[o]
             k == Ref(image.class[o])
             v == Values(o)[(a + b) + 1]
  <1>1. /\ o \in image.binary => /\ \A j \in 1 .. n : Values(o)[j] = c[j]
                                 /\ Values(o)[n + 1] = k
        /\ o \notin image.binary => /\ Values(o)[1] = k
                                    /\ \A j \in 1 .. n : Values(o)[j + 1] = c[j]
    BY ValuesFacts
  <1>2. k.type = "ref" /\ \A j \in 1 .. n : c[j].type = "byte" <=> o \in image.binary
    BY ImageFacts DEF Ref
  <1> HIDE DEF c, k
  <1>3. CASE o \in image.binary
    <2>1. a = 0
      BY <1>3
    <2>2. CASE b < n
      <3>1. (a + b) + 1 = b + 1 /\ b + 1 \in 1 .. n
        BY <2>1, <2>2
      <3>2. v = c[b + 1]
        BY <3>1, <1>1, <1>3
      <3>3. v.type = "byte"
        BY <3>1, <3>2, <1>2, <1>3
      <3>4. QED BY <1>3, <2>1, <2>2, <3>2, <3>3 DEF c
    <2>3. CASE ~(b < n)
      <3>1. (a + b) + 1 = n + 1
        BY <2>1, <2>3
      <3>2. v = k
        BY <3>1, <1>1, <1>3
      <3>3. QED BY <1>2, <1>3, <2>1, <2>3, <3>2 DEF k
    <2>4. QED BY <2>2, <2>3
  <1>4. CASE o \notin image.binary
    <2>1. CASE a = 0
      <3>1. b = 0 /\ (a + b) + 1 = 1
        BY <1>4, <2>1
      <3>2. v = k
        BY <3>1, <1>1, <1>4
      <3>3. QED BY <1>2, <1>4, <2>1, <3>1, <3>2 DEF k
    <2>2. CASE a # 0
      <3>1. (a + b) + 1 = (b + 1) + 1 /\ b + 1 \in 1 .. n /\ b < n
        BY <2>2
      <3>2. v = c[b + 1]
        BY <3>1, <1>1, <1>4
      <3>3. v.type # "byte"
        BY <3>1, <3>2, <1>2, <1>4
      <3>4. QED BY <1>4, <2>2, <3>1, <3>2, <3>3 DEF c
    <2>3. QED BY <2>1, <2>2
  <1>5. QED BY <1>3, <1>4

\* The next value goes where WithValue() stores it.
LEMMA StoreValue ==
  ASSUME image \in Images, NEW o \in Objects, NEW x \in ObjectSet, Mirrors(o, x),
         DoneOf(x) < Len(Values(o)),
         NEW w \in ReadSet, SameValue(Values(o)[DoneOf(x) + 1], w)
  PROVE  LET y == WithValue(x, w)
         IN  /\ y \in ObjectSet /\ Mirrors(o, y) /\ DoneOf(y) = DoneOf(x) + 1
             /\ Complete(y) <=> DoneOf(x) + 1 = Len(Values(o))
  <1> DEFINE c == image.contents[o]
             k == Ref(image.class[o])
             y == WithValue(x, w)
             v == Values(o)[DoneOf(x) + 1]
  <1>1. /\ x.class \in Seq(ReadSet) /\ x.is \in Seq(ReadSet) /\ x.size \in Nat
        /\ x.binary \in BOOLEAN
        /\ x = [class |-> x.class, is |-> x.is, size |-> x.size, binary |-> x.binary]
    BY DEF ObjectSet
  <1>2. PICK a \in 0 .. 1, n \in Nat, b \in Nat :
           /\ b <= n
           /\ Len(x.class) = a /\ Len(x.is) = b /\ x.size = n
           /\ Len(image.contents[o]) = n /\ Len(Values(o)) = n + 1
           /\ DoneOf(x) = a + b
           /\ x.binary = (o \in image.binary)
           /\ x.class = <<>> <=> a = 0
           /\ o \in image.binary => (a = 1 => b = n)
           /\ o \notin image.binary => (a = 0 => b = 0)
    BY MirrorNumbers
  <1>3. IF o \in image.binary
        THEN a = 0 /\ IF b < n THEN v = c[b + 1] /\ v.type = "byte" ELSE v = k /\ v.type = "ref"
        ELSE v.type # "byte" /\ IF a = 0 THEN b = 0 /\ v = k ELSE b < n /\ v = c[b + 1]
    <2>1. a + b < n + 1
      BY <1>2
    <2>2. v = Values(o)[(a + b) + 1]
      BY <1>2
    <2> HIDE DEF v
    <2>3. QED BY <1>2, <2>1, <2>2, NextValue
  <1>4. SameValue(v, w) /\ v.type = w.type
    BY DEF SameValue
  <1>5. SUFFICES /\ y \in ObjectSet /\ Mirrors(o, y) /\ DoneOf(y) = (a + b) + 1
                 /\ Complete(y) <=> (a + b) + 1 = n + 1
    BY <1>2
  <1> HIDE DEF v, k
  <1>6. ASSUME v = c[b + 1], b < n, w.type = "byte" \/ a = 1,
               o \in image.binary => a = 0, o \notin image.binary => a = 1
        PROVE  /\ y \in ObjectSet /\ Mirrors(o, y) /\ DoneOf(y) = (a + b) + 1
               /\ Complete(y) <=> (a + b) + 1 = n + 1
    <2> DEFINE is == Append(x.is, w)
    <2>1. y = [class |-> x.class, is |-> is, size |-> x.size, binary |-> x.binary]
      <3>1. w.type = "byte" \/ x.class # <<>>
        BY <1>2, <1>6
      <3>2. y = [x EXCEPT !.is = is]
        BY <3>1 DEF WithValue
      <3>3. QED BY <3>2, <1>1
    <2>2. /\ is \in Seq(ReadSet) /\ Len(is) = b + 1
          /\ \A j \in 1 .. b : is[j] = x.is[j]
          /\ is[b + 1] = w
      BY <1>1, <1>2, AppendProperties
    <2> HIDE DEF is, y
    <2>3. y \in ObjectSet
      BY <1>1, <2>1, <2>2 DEF ObjectSet
    <2>4. \A j \in 1 .. b + 1 : SameValue(c[j], is[j])
      <3> SUFFICES ASSUME NEW j \in 1 .. b + 1 PROVE SameValue(c[j], is[j])
        OBVIOUS
      <3>1. CASE j = b + 1
        BY <3>1, <1>4, <1>6, <2>2
      <3>2. CASE j \in 1 .. b
        <4>1. SameValue(c[j], x.is[j])
          BY <3>2, <1>2 DEF Mirrors
        <4>2. QED BY <3>2, <4>1, <2>2
      <3>3. QED BY <3>1, <3>2
    <2>5. y.binary = (o \in image.binary) /\ y.size = n /\ y.class = x.class /\ y.is = is
      BY <2>1, <1>2
    <2>6. Len(y.class) = a /\ Len(y.is) = b + 1
      BY <2>2, <2>5, <1>2
    <2>7. Mirrors(o, y)
      <3>1. Len(y.class) <= 1 /\ Len(y.is) <= y.size
        <4>1. y.size = n
          BY <2>5
        <4>2. QED BY <4>1, <2>6, <1>6
      <3>2. Len(y.class) = 1 => SameValue(Ref(image.class[o]), y.class[1])
        BY <2>5 DEF Mirrors
      <3>3. IF y.binary THEN Len(y.class) = 1 => Len(y.is) = y.size
            ELSE Len(y.class) = 0 => Len(y.is) = 0
        <4>1. CASE o \in image.binary
          <5>1. y.binary /\ Len(y.class) = 0
            BY <4>1, <2>5, <2>6, <1>6
          <5>2. QED BY <5>1
        <4>2. CASE o \notin image.binary
          <5>1. ~y.binary /\ Len(y.class) = 1
            BY <4>2, <2>5, <2>6, <1>6
          <5>2. QED BY <5>1
        <4>3. QED BY <4>1, <4>2
      <3>4. \A j \in 1 .. Len(y.is) : SameValue(c[j], y.is[j])
        BY <2>4, <2>5, <2>6
      <3>5. y.binary = (o \in image.binary) /\ y.size = Len(c)
        BY <2>5, <1>2
      <3>6. QED BY <3>1, <3>2, <3>3, <3>4, <3>5 DEF Mirrors
    <2>8. DoneOf(y) = (a + b) + 1
      BY <2>6 DEF DoneOf
    <2>9. Complete(y) <=> (a + b) + 1 = n + 1
      <3>1. y.class # <<>> <=> a = 1
        BY <2>5, <1>2
      <3>2. Complete(y) <=> a = 1 /\ b + 1 = n
        BY <3>1, <2>5, <2>6 DEF Complete
      <3>3. QED BY <3>2, <1>6
    <2>10. QED BY <2>3, <2>7, <2>8, <2>9
  <1>7. ASSUME v = k, a = 0, w.type # "byte", b = IF o \in image.binary THEN n ELSE 0
        PROVE  /\ y \in ObjectSet /\ Mirrors(o, y) /\ DoneOf(y) = (a + b) + 1
               /\ Complete(y) <=> (a + b) + 1 = n + 1
    <2>1. y = [class |-> <<w>>, is |-> x.is, size |-> x.size, binary |-> x.binary]
      <3>1. y = [x EXCEPT !.class = <<w>>]
        BY <1>2, <1>7 DEF WithValue
      <3>2. QED BY <3>1, <1>1
    <2>2. <<w>> \in Seq(ReadSet) /\ Len(<<w>>) = 1 /\ <<w>>[1] = w /\ <<w>> # <<>>
      OBVIOUS
    <2> HIDE DEF y
    <2>3. y \in ObjectSet
      BY <1>1, <2>1, <2>2 DEF ObjectSet
    <2>4. y.binary = (o \in image.binary) /\ y.size = n /\ y.class = <<w>> /\ y.is = x.is
      BY <2>1, <1>2
    <2>5. SameValue(k, y.class[1])
      BY <2>4, <2>2, <1>4, <1>7
    <2>5a. Len(y.class) = 1 /\ Len(y.is) = b
      BY <2>2, <2>4, <1>2
    <2>6. Mirrors(o, y)
      <3>1. \A j \in 1 .. Len(y.is) : SameValue(c[j], y.is[j])
        BY <2>4 DEF Mirrors
      <3>2. Len(y.class) <= 1 /\ Len(y.is) <= y.size
        <4>1. y.size = n
          BY <2>4
        <4>2. QED BY <4>1, <2>5a, <1>2
      <3>3. IF y.binary THEN Len(y.class) = 1 => Len(y.is) = y.size
            ELSE Len(y.class) = 0 => Len(y.is) = 0
        BY <2>4, <2>5a, <1>7
      <3>4. y.binary = (o \in image.binary) /\ y.size = Len(c)
        BY <2>4, <1>2
      <3>5. QED BY <2>5, <3>1, <3>2, <3>3, <3>4 DEF Mirrors, k
    <2>7. DoneOf(y) = (a + b) + 1
      BY <2>5a, <1>7 DEF DoneOf
    <2>8. Complete(y) <=> b = n
      BY <2>2, <2>4, <2>5a DEF Complete
    <2>9. QED BY <2>3, <2>6, <2>7, <2>8, <1>7
  <1> HIDE DEF y
  <1>8. CASE v = c[b + 1] /\ b < n /\ (w.type = "byte" \/ a = 1)
             /\ (o \in image.binary => a = 0) /\ (o \notin image.binary => a = 1)
    BY <1>6, <1>8
  <1>9. CASE v = k /\ a = 0 /\ w.type # "byte" /\ b = IF o \in image.binary THEN n ELSE 0
    BY <1>7, <1>9
  <1>10. CASE o \in image.binary
    <2>1. a = 0 /\ IF b < n THEN v = c[b + 1] /\ v.type = "byte" ELSE v = k /\ v.type = "ref"
      BY <1>3, <1>10
    <2>2. CASE b < n
      BY <2>1, <2>2, <1>4, <1>8, <1>10
    <2>3. CASE ~(b < n)
      <3>1. b = n
        BY <2>3, <1>2
      <3>2. QED BY <2>1, <2>3, <3>1, <1>4, <1>9, <1>10
    <2>4. QED BY <2>2, <2>3
  <1>11. CASE o \notin image.binary
    <2>1. v.type # "byte" /\ IF a = 0 THEN b = 0 /\ v = k ELSE b < n /\ v = c[b + 1]
      BY <1>3, <1>11
    <2>2. CASE a = 0
      BY <2>1, <2>2, <1>4, <1>9, <1>11
    <2>3. CASE a = 1
      BY <2>1, <2>3, <1>4, <1>8, <1>11
    <2>4. QED BY <2>2, <2>3
  <1>12. QED BY <1>10, <1>11

\* Whether its next value is a byte.
LEMMA ByteDue ==
  ASSUME image \in Images, NEW o \in Objects, NEW x \in ObjectSet, Mirrors(o, x),
         DoneOf(x) < Len(Values(o))
  PROVE  x.binary /\ Len(x.is) < x.size <=> Values(o)[DoneOf(x) + 1].type = "byte"
  <1>1. PICK a \in 0 .. 1, n \in Nat, b \in Nat :
           /\ b <= n
           /\ Len(x.is) = b /\ x.size = n
           /\ Len(image.contents[o]) = n /\ Len(Values(o)) = n + 1
           /\ DoneOf(x) = a + b
           /\ x.binary = (o \in image.binary)
           /\ o \in image.binary => (a = 1 => b = n)
           /\ o \notin image.binary => (a = 0 => b = 0)
    BY MirrorNumbers
  <1> DEFINE v == Values(o)[(a + b) + 1]
  <1>2. IF o \in image.binary THEN IF b < n THEN v.type = "byte" ELSE v.type = "ref"
        ELSE v.type # "byte"
    <2>1. a + b < n + 1
      BY <1>1
    <2>2. IF o \in image.binary
          THEN a = 0 /\ IF b < n THEN v = image.contents[o][b + 1] /\ v.type = "byte"
                        ELSE v = Ref(image.class[o]) /\ v.type = "ref"
          ELSE v.type # "byte" /\ IF a = 0 THEN b = 0 /\ v = Ref(image.class[o])
                                  ELSE b < n /\ v = image.contents[o][b + 1]
      BY <1>1, <2>1, NextValue
    <2> HIDE DEF v
    <2>3. QED BY <2>2
  <1>3. v = Values(o)[DoneOf(x) + 1]
    BY <1>1
  <1> HIDE DEF v
  <1>4. QED BY <1>1, <1>2, <1>3

-----------------------------------------------------------------------------
(***************************************************************************)
(* The loader keeps step with the writer: the objects that wait for a      *)
(* value are the calls the writer had under way when it wrote the record   *)
(* that is read next, the globals being the outermost.                     *)
(***************************************************************************)
Bottom(rts) == IF Len(rts) < Len(image.globals) THEN 1 ELSE 0

Fits(c, ind, opn, rts) ==
  /\ ind \in Seq(ObjectSet) /\ Len(ind) <= Len(written)
  /\ \A k \in 1 .. Len(ind) : Mirrors(written[k], ind[k])
  /\ opn \in Seq(Nat) /\ \A i \in 1 .. Len(opn) : opn[i] \in 1 .. Len(ind)
  /\ \A i, j \in 1 .. Len(opn) : opn[i] = opn[j] => i = j
  /\ \A k \in 1 .. Len(ind) : Complete(ind[k]) \/ \E i \in 1 .. Len(opn) : opn[i] = k
  /\ rts \in Seq(ReadSet) /\ Len(rts) <= Len(image.globals)
  /\ \A k \in 1 .. Len(rts) : SameValue(image.globals[k], rts[k])
  /\ Len(c) = Len(opn) + Bottom(rts)
  /\ Bottom(rts) = 1 => c[1].values = image.globals /\ c[1].done = Len(rts)
  /\ \A i \in 1 .. Len(opn) : /\ c[i + Bottom(rts)].values = Values(written[opn[i]])
                              /\ c[i + Bottom(rts)].done = DoneOf(ind[opn[i]])

LEMMA AdvanceCases ==
  ASSUME NEW s, Pending(s), s # <<>>
  PROVE  \E n, d, m :
           /\ n = Len(s) /\ d = s[n].done /\ m = Len(s[n].values)
           /\ Len(Advance(s)) = IF d + 1 = m THEN n - 1 ELSE n
           /\ \A i \in 1 .. n - 1 : Advance(s)[i] = s[i]
           /\ d + 1 # m => /\ Advance(s)[n].values = s[n].values
                           /\ Advance(s)[n].done = d + 1
  <1>1. PICK n, d, m : n = Len(s) /\ d = s[n].done /\ m = Len(s[n].values)
    OBVIOUS
  <1>2. /\ Len(Advance(s)) = IF d + 1 = m THEN n - 1 ELSE n
        /\ \A i \in 1 .. n - 1 : Advance(s)[i] = s[i]
        /\ d + 1 # m => /\ Advance(s)[n].values = s[n].values
                        /\ Advance(s)[n].done = d + 1
    BY <1>1, AdvanceFacts
  <1>3. QED BY <1>1, <1>2

LEMMA FitsTop ==
  ASSUME image \in Images, written \in Seq(Objects), NEW c, NEW ind, NEW opn, NEW rts,
         Fits(c, ind, opn, rts), Pending(c), c # <<>>
  PROVE  /\ opn = <<>> =>
              /\ Bottom(rts) = 1 /\ Len(c) = 1 /\ Len(rts) < Len(image.globals)
              /\ c[1].values = image.globals /\ c[1].done = Len(rts)
              /\ Due(c) = image.globals[Len(rts) + 1]
         /\ opn # <<>> =>
              LET k == opn[Len(opn)]
              IN  /\ Len(opn) \in Nat \ {0} /\ k \in 1 .. Len(ind) /\ ind[k] \in ObjectSet
                  /\ written[k] \in Objects /\ Mirrors(written[k], ind[k])
                  /\ Len(c) = Len(opn) + Bottom(rts)
                  /\ c[Len(c)].values = Values(written[k]) /\ c[Len(c)].done = DoneOf(ind[k])
                  /\ DoneOf(ind[k]) < Len(Values(written[k]))
                  /\ Due(c) = Values(written[k])[DoneOf(ind[k]) + 1]
  <1>1. PICK n, m, b : n = Len(c) /\ m = Len(opn) /\ b = Bottom(rts)
    OBVIOUS
  <1>2. /\ c \in Seq(CallSet) /\ n \in Nat \ {0} /\ opn \in Seq(Nat) /\ m \in Nat
        /\ b \in {0, 1} /\ n = m + b
    BY <1>1 DEF Pending, Fits, Bottom
  <1>3. Due(c) = c[n].values[c[n].done + 1] /\ c[n].done < Len(c[n].values)
    <2>1. Due(c) = c[Len(c)].values[c[Len(c)].done + 1]
      BY AdvanceFacts
    <2>2. n \in 1 .. Len(c)
      BY <1>1, <1>2
    <2>3. c[n].done < Len(c[n].values)
      BY <2>2 DEF Pending
    <2>4. QED BY <1>1, <2>1, <2>3
  <1>4. CASE opn = <<>>
    <2>1. m = 0 /\ b = 1 /\ n = 1
      BY <1>1, <1>2, <1>4
    <2>2. c[1].values = image.globals /\ c[1].done = Len(rts)
      BY <2>1, <1>1 DEF Fits
    <2>3. Len(rts) < Len(image.globals)
      BY <2>1, <1>1 DEF Bottom
    <2>4. QED BY <1>1, <1>3, <1>4, <2>1, <2>2, <2>3
  <1>5. CASE opn # <<>>
    <2>1. m \in 1 .. m /\ m # 0
      BY <1>1, <1>2, <1>5
    <2>2. PICK k : k = opn[m]
      OBVIOUS
    <2>3. k \in 1 .. Len(ind) /\ c[m + b].values = Values(written[k])
          /\ c[m + b].done = DoneOf(ind[k])
      BY <2>1, <2>2, <1>1 DEF Fits
    <2>4. Mirrors(written[k], ind[k]) /\ ind \in Seq(ObjectSet) /\ Len(ind) <= Len(written)
      BY <2>3 DEF Fits
    <2>5. ind[k] \in ObjectSet /\ k \in 1 .. Len(written)
      BY <2>3, <2>4
    <2>6. written[k] \in Objects
      BY <2>5, ElementOfSeq
    <2>7. QED BY <1>1, <1>2, <1>3, <1>5, <2>1, <2>2, <2>3, <2>4, <2>5, <2>6
  <1>6. QED BY <1>4, <1>5

\* A value of the globals is stored.
LEMMA StoreRootFits ==
  ASSUME image \in Images, written \in Seq(Objects), NEW c, NEW ind, NEW rts,
         Fits(c, ind, <<>>, rts), Pending(c), c # <<>>,
         NEW w \in ReadSet, SameValue(Due(c), w)
  PROVE  Fits(Advance(c), ind, <<>>, Append(rts, w))
  <1>1. /\ Len(c) = 1 /\ c[1].values = image.globals /\ c[1].done = Len(rts)
        /\ Due(c) = image.globals[Len(rts) + 1] /\ Len(rts) < Len(image.globals)
    BY FitsTop
  <1>2. PICK m, g : m = Len(rts) /\ g = Len(image.globals)
    OBVIOUS
  <1>3. rts \in Seq(ReadSet) /\ m \in Nat /\ g \in Nat /\ m < g
    BY <1>1, <1>2, ImageFacts DEF Fits
  <1>4. PICK r : r = Append(rts, w)
    OBVIOUS
  <1>5. /\ r \in Seq(ReadSet) /\ Len(r) = m + 1
        /\ \A i \in 1 .. m : r[i] = rts[i]
        /\ r[m + 1] = w
    BY <1>2, <1>3, <1>4, AppendProperties
  <1>6. \A k \in 1 .. m + 1 : SameValue(image.globals[k], r[k])
    <2> SUFFICES ASSUME NEW k \in 1 .. m + 1 PROVE SameValue(image.globals[k], r[k])
      OBVIOUS
    <2>1. CASE k = m + 1
      BY <2>1, <1>1, <1>2, <1>5
    <2>2. CASE k \in 1 .. m
      <3>1. SameValue(image.globals[k], rts[k])
        BY <2>2, <1>2 DEF Fits
      <3>2. QED BY <2>2, <3>1, <1>5
    <2>3. QED BY <2>1, <2>2, <1>3
  <1>7. /\ Len(Advance(c)) = IF m + 1 = g THEN 0 ELSE 1
        /\ m + 1 # g => Advance(c)[1].values = image.globals /\ Advance(c)[1].done = m + 1
    <2>1. PICK t, d, e :
            /\ t = Len(c) /\ d = c[t].done /\ e = Len(c[t].values)
            /\ Len(Advance(c)) = IF d + 1 = e THEN t - 1 ELSE t
            /\ \A i \in 1 .. t - 1 : Advance(c)[i] = c[i]
            /\ d + 1 # e => /\ Advance(c)[t].values = c[t].values
                            /\ Advance(c)[t].done = d + 1
      BY AdvanceCases
    <2>3. t = 1 /\ d = m /\ e = g
      BY <1>1, <1>2, <2>1
    <2>4. QED BY <1>1, <2>1, <2>3
  <1>8. Bottom(r) = IF m + 1 = g THEN 0 ELSE 1
    BY <1>2, <1>3, <1>5 DEF Bottom
  <1>9. Len(<<>>) = 0 /\ <<>> \in Seq(Nat)
    OBVIOUS
  <1>10. /\ ind \in Seq(ObjectSet) /\ Len(ind) <= Len(written)
         /\ \A k \in 1 .. Len(ind) : Mirrors(written[k], ind[k])
         /\ \A k \in 1 .. Len(ind) : Complete(ind[k]) \/ \E i \in 1 .. 0 : FALSE
    BY <1>9 DEF Fits
  <1>11. Len(r) <= g
    BY <1>3, <1>5
  <1>12. Len(Advance(c)) = Len(<<>>) + Bottom(r)
    BY <1>7, <1>8, <1>9
  <1>13. Bottom(r) = 1 => Advance(c)[1].values = image.globals /\ Advance(c)[1].done = Len(r)
    BY <1>5, <1>7, <1>8
  <1>14. Fits(Advance(c), ind, <<>>, r)
    BY <1>2, <1>5, <1>6, <1>9, <1>10, <1>11, <1>12, <1>13 DEF Fits
  <1>15. QED BY <1>4, <1>14

\* A value is stored in the innermost open object.
LEMMA StoreFieldFits ==
  ASSUME image \in Images, written \in Seq(Objects), NEW c, NEW ind, NEW opn, NEW rts,
         Fits(c, ind, opn, rts), Pending(c), c # <<>>, opn # <<>>,
         NEW w \in ReadSet, SameValue(Due(c), w)
  PROVE  LET k == opn[Len(opn)]
             y == WithValue(ind[k], w)
         IN  Fits(Advance(c), [ind EXCEPT ![k] = y],
                  IF Complete(y) THEN Front(opn) ELSE opn, rts)
  <1>1. PICK n, m, b, k : n = Len(c) /\ m = Len(opn) /\ b = Bottom(rts) /\ k = opn[m]
    OBVIOUS
  <1>2. /\ m \in Nat \ {0} /\ k \in 1 .. Len(ind) /\ ind[k] \in ObjectSet
        /\ written[k] \in Objects /\ Mirrors(written[k], ind[k])
        /\ n = m + b
        /\ c[n].values = Values(written[k]) /\ c[n].done = DoneOf(ind[k])
        /\ DoneOf(ind[k]) < Len(Values(written[k]))
        /\ Due(c) = Values(written[k])[DoneOf(ind[k]) + 1]
    BY <1>1, FitsTop
  <1>3. PICK y : y = WithValue(ind[k], w)
    OBVIOUS
  <1>4. /\ y \in ObjectSet /\ Mirrors(written[k], y) /\ DoneOf(y) = DoneOf(ind[k]) + 1
        /\ Complete(y) <=> DoneOf(ind[k]) + 1 = Len(Values(written[k]))
    BY <1>2, <1>3, StoreValue
  <1>5. PICK x : x = [ind EXCEPT ![k] = y]
    OBVIOUS
  <1>6. /\ ind \in Seq(ObjectSet) /\ Len(ind) <= Len(written) /\ Len(ind) \in Nat
    BY DEF Fits
  <1>7. /\ x \in Seq(ObjectSet) /\ Len(x) = Len(ind)
        /\ \A j \in 1 .. Len(ind) : x[j] = IF j = k THEN y ELSE ind[j]
    BY <1>2, <1>4, <1>5, <1>6, ExceptSeq
  <1>8. /\ opn \in Seq(Nat) /\ \A i \in 1 .. m : opn[i] \in 1 .. Len(ind)
        /\ \A i, j \in 1 .. m : opn[i] = opn[j] => i = j
        /\ \A j \in 1 .. Len(ind) : Complete(ind[j]) \/ \E i \in 1 .. m : opn[i] = j
        /\ \A i \in 1 .. m : /\ c[i + b].values = Values(written[opn[i]])
                             /\ c[i + b].done = DoneOf(ind[opn[i]])
        /\ b = 1 => c[1].values = image.globals /\ c[1].done = Len(rts)
    BY <1>1 DEF Fits
  <1>9. b \in {0, 1} /\ n \in Nat \ {0}
    BY <1>1, <1>2 DEF Bottom
  <1>10. /\ Len(Advance(c)) = IF Complete(y) THEN n - 1 ELSE n
         /\ \A i \in 1 .. n - 1 : Advance(c)[i] = c[i]
         /\ ~Complete(y) => /\ Advance(c)[n].values = c[n].values
                            /\ Advance(c)[n].done = DoneOf(y)
    <2>1. PICK t, d, e :
            /\ t = Len(c) /\ d = c[t].done /\ e = Len(c[t].values)
            /\ Len(Advance(c)) = IF d + 1 = e THEN t - 1 ELSE t
            /\ \A i \in 1 .. t - 1 : Advance(c)[i] = c[i]
            /\ d + 1 # e => /\ Advance(c)[t].values = c[t].values
                            /\ Advance(c)[t].done = d + 1
      BY AdvanceCases
    <2>3. t = n /\ d = DoneOf(ind[k]) /\ e = Len(Values(written[k]))
      BY <1>1, <1>2, <2>1
    <2>4. (Complete(y) <=> d + 1 = e) /\ DoneOf(y) = d + 1
      BY <1>4, <2>3
    <2>5. QED BY <2>1, <2>3, <2>4
  <1>11. PICK p : p = IF Complete(y) THEN Front(opn) ELSE opn
    OBVIOUS
  <1>12. PICK l : l = IF Complete(y) THEN m - 1 ELSE m
    OBVIOUS
  <1>13. p \in Seq(Nat) /\ Len(p) = l /\ \A i \in 1 .. l : p[i] = opn[i]
    <2>1. CASE Complete(y)
      <3>1. p = SubSeq(opn, 1, m - 1) /\ l = m - 1
        BY <2>1, <1>1, <1>11, <1>12 DEF Front
      <3>2. \A i \in 1 .. m - 1 : opn[i] \in Nat
        BY <1>1, <1>8
      <3>3. m - 1 \in Int /\ 1 \in Int /\ m - 1 \in Nat
        BY <1>2
      <3>4. /\ SubSeq(opn, 1, m - 1) \in Seq(Nat)
            /\ Len(SubSeq(opn, 1, m - 1)) = IF 1 <= m - 1 THEN m - 1 - 1 + 1 ELSE 0
            /\ \A i \in 1 .. m - 1 - 1 + 1 : SubSeq(opn, 1, m - 1)[i] = opn[1 + i - 1]
        BY <3>2, <3>3, SubSeqProperties
      <3>5. QED BY <3>1, <3>3, <3>4
    <2>2. CASE ~Complete(y)
      BY <2>2, <1>1, <1>8, <1>11, <1>12
    <2>3. QED BY <2>1, <2>2
  <1>14. l \in Nat /\ l <= m
    BY <1>2, <1>12
  <1>15. \A j \in 1 .. Len(x) : Mirrors(written[j], x[j])
    <2>1. \A j \in 1 .. Len(ind) : Mirrors(written[j], ind[j])
      BY DEF Fits
    <2>2. QED BY <2>1, <1>4, <1>7
  <1>16. /\ \A i \in 1 .. l : p[i] \in 1 .. Len(x)
         /\ \A i, j \in 1 .. l : p[i] = p[j] => i = j
    <2>1. \A i \in 1 .. l : i \in 1 .. m /\ p[i] = opn[i]
      BY <1>2, <1>13, <1>14
    <2>2. QED BY <2>1, <1>7, <1>8
  <1>17. \A j \in 1 .. Len(x) : Complete(x[j]) \/ \E i \in 1 .. l : p[i] = j
    <2> SUFFICES ASSUME NEW j \in 1 .. Len(ind)
                 PROVE  Complete(x[j]) \/ \E i \in 1 .. l : p[i] = j
      BY <1>7
    <2>1. CASE j = k
      <3>1. CASE Complete(y)
        BY <2>1, <3>1, <1>7
      <3>2. CASE ~Complete(y)
        <4>1. m \in 1 .. l /\ p[m] = j
          BY <2>1, <3>2, <1>1, <1>2, <1>11, <1>12
        <4>2. QED BY <4>1
      <3>3. QED BY <3>1, <3>2
    <2>2. CASE j # k
      <3>1. x[j] = ind[j]
        BY <2>2, <1>7
      <3>2. CASE Complete(ind[j])
        BY <3>1, <3>2
      <3>3. CASE ~Complete(ind[j])
        <4>1. PICK i \in 1 .. m : opn[i] = j
          BY <3>3, <1>8
        <4>2. i # m
          BY <4>1, <2>2, <1>1
        <4>3. i \in 1 .. l
          BY <4>2, <1>2, <1>12
        <4>4. QED BY <4>1, <4>3, <1>13
      <3>4. QED BY <3>2, <3>3
    <2>3. QED BY <2>1, <2>2
  <1>18. /\ rts \in Seq(ReadSet) /\ Len(rts) <= Len(image.globals)
         /\ \A j \in 1 .. Len(rts) : SameValue(image.globals[j], rts[j])
    BY DEF Fits
  <1>19. Len(Advance(c)) = l + b
    BY <1>2, <1>9, <1>10, <1>12
  <1>20. b = 1 => Advance(c)[1].values = image.globals /\ Advance(c)[1].done = Len(rts)
    <2>1. b = 1 => 1 \in 1 .. n - 1
      BY <1>2
    <2>2. QED BY <2>1, <1>8, <1>10
  <1>21. \A i \in 1 .. l : /\ Advance(c)[i + b].values = Values(written[p[i]])
                           /\ Advance(c)[i + b].done = DoneOf(x[p[i]])
    <2> SUFFICES ASSUME NEW i \in 1 .. l
                 PROVE  /\ Advance(c)[i + b].values = Values(written[p[i]])
                        /\ Advance(c)[i + b].done = DoneOf(x[p[i]])
      OBVIOUS
    <2>1. p[i] = opn[i] /\ i \in 1 .. m /\ opn[i] \in 1 .. Len(ind)
      <3>1. p[i] = opn[i] /\ i \in 1 .. m
        BY <1>2, <1>13, <1>14
      <3>2. QED BY <3>1, <1>8
    <2>2. CASE i = m
      <3>1. ~Complete(y) /\ i + b = n
        BY <2>2, <1>2, <1>12
      <3>2. x[k] = y
        BY <1>2, <1>7
      <3>3. QED BY <2>1, <2>2, <3>1, <3>2, <1>1, <1>2, <1>10
    <2>3. CASE i # m
      <3>1. i + b \in 1 .. n - 1
        BY <2>1, <2>3, <1>2, <1>9
      <3>2. opn[i] # k
        BY <2>1, <2>3, <1>1, <1>2, <1>8
      <3>3. x[opn[i]] = ind[opn[i]]
        BY <2>1, <3>2, <1>7
      <3>4. Advance(c)[i + b] = c[i + b]
        BY <3>1, <1>10
      <3>5. QED BY <2>1, <3>3, <3>4, <1>8
    <2>4. QED BY <2>2, <2>3
  <1>22. Len(x) <= Len(written)
    BY <1>6, <1>7
  <1>23. Fits(Advance(c), x, p, rts)
    BY <1>1, <1>7, <1>13, <1>15, <1>16, <1>17, <1>18, <1>19, <1>20, <1>21, <1>22 DEF Fits
  <1>24. QED BY <1>1, <1>3, <1>5, <1>11, <1>23

LEMMA OneMore ==
  ASSUME NEW S, NEW s \in Seq(S), NEW e \in S
  PROVE  /\ s \o <<e>> \in Seq(S) /\ Len(s \o <<e>>) = Len(s) + 1
         /\ \A i \in 1 .. Len(s) : (s \o <<e>>)[i] = s[i]
         /\ (s \o <<e>>)[Len(s) + 1] = e
  <1> DEFINE t == s \o <<e>>
             d == Len(s)
  <1>1. <<e>> \in Seq(S) /\ Len(<<e>>) = 1 /\ <<e>>[1] = e /\ d \in Nat
    OBVIOUS
  <1>2. /\ t \in Seq(S) /\ Len(t) = d + Len(<<e>>)
        /\ \A i \in 1 .. d + Len(<<e>>) : t[i] = IF i <= d THEN s[i] ELSE <<e>>[i - d]
    BY <1>1, ConcatProperties
  <1> HIDE DEF t, d
  <1>3. \A i \in 1 .. d + 1 : t[i] = IF i <= d THEN s[i] ELSE <<e>>[i - d]
    BY <1>1, <1>2
  <1>4. d + 1 \in 1 .. d + 1 /\ ~(d + 1 <= d) /\ (d + 1) - d = 1
    BY <1>1
  <1>5. t[d + 1] = e
    BY <1>1, <1>3, <1>4
  <1>6. \A i \in 1 .. d : t[i] = s[i]
    BY <1>1, <1>3
  <1>7. QED BY <1>1, <1>2, <1>5, <1>6 DEF t, d

\* Nothing is read of an object that was just begun.
LEMMA Begun ==
  ASSUME image \in Images, NEW o \in Objects,
         NEW x, x = [class |-> <<>>, is |-> <<>>, size |-> Len(image.contents[o]),
                     binary |-> (o \in image.binary)]
  PROVE  x \in ObjectSet /\ Mirrors(o, x) /\ DoneOf(x) = 0
  <1>1. Len(image.contents[o]) \in Nat
    BY ValuesFacts
  <1>2. <<>> \in Seq(ReadSet) /\ Len(<<>>) = 0
    OBVIOUS
  <1>3. (o \in image.binary) \in BOOLEAN
    OBVIOUS
  <1>4. x \in ObjectSet
    BY <1>1, <1>2, <1>3 DEF ObjectSet
  <1>5. x.class = <<>> /\ x.is = <<>> /\ x.size = Len(image.contents[o])
        /\ x.binary = (o \in image.binary)
    OBVIOUS
  <1>6. Len(x.class) = 0 /\ Len(x.is) = 0
    BY <1>2, <1>5
  <1>7. Mirrors(o, x)
    <2>1. Len(x.class) <= 1 /\ Len(x.is) <= x.size
      BY <1>1, <1>5, <1>6
    <2>2. \A j \in 1 .. Len(x.is) : FALSE
      BY <1>6
    <2>3. QED BY <1>5, <1>6, <2>1, <2>2 DEF Mirrors
  <1>8. QED BY <1>4, <1>6, <1>7 DEF DoneOf

\* A new object is open before its values are read.
LEMMA BeginFits ==
  ASSUME image \in Images, written \in Seq(Objects), NEW c, NEW ind, NEW opn, NEW rts,
         Fits(c, ind, opn, rts), NEW l, l = Len(ind), l + 1 <= Len(written),
         NEW o, o = written[l + 1],
         NEW x, x = [class |-> <<>>, is |-> <<>>, size |-> Len(image.contents[o]),
                     binary |-> (o \in image.binary)],
         NEW d, Len(d) = Len(c) + 1, \A i \in 1 .. Len(c) : d[i] = c[i],
         d[Len(c) + 1].values = Values(o), d[Len(c) + 1].done = 0
  PROVE  Fits(d, ind \o <<x>>, opn \o <<l + 1>>, rts)
  <1>1. /\ ind \in Seq(ObjectSet) /\ l \in Nat /\ l <= Len(written) /\ Len(written) \in Nat
    BY DEF Fits
  <1>2. o \in Objects
    <2>1. l + 1 \in 1 .. Len(written)
      BY <1>1
    <2>2. QED BY <2>1, ElementOfSeq
  <1>3. x \in ObjectSet /\ Mirrors(o, x) /\ DoneOf(x) = 0
    BY <1>2, Begun
  <1>4. PICK m, b, n, y, p : m = Len(opn) /\ b = Bottom(rts) /\ n = Len(c)
                             /\ y = ind \o <<x>> /\ p = opn \o <<l + 1>>
    OBVIOUS
  <1>5. /\ opn \in Seq(Nat) /\ m \in Nat /\ b \in {0, 1} /\ n = m + b
        /\ \A i \in 1 .. m : opn[i] \in 1 .. l
        /\ \A i, j \in 1 .. m : opn[i] = opn[j] => i = j
        /\ \A k \in 1 .. l : Complete(ind[k]) \/ \E i \in 1 .. m : opn[i] = k
        /\ \A k \in 1 .. l : Mirrors(written[k], ind[k])
        /\ \A i \in 1 .. m : /\ c[i + b].values = Values(written[opn[i]])
                             /\ c[i + b].done = DoneOf(ind[opn[i]])
        /\ b = 1 => c[1].values = image.globals /\ c[1].done = Len(rts)
    BY <1>4 DEF Fits, Bottom
  <1>6. /\ y \in Seq(ObjectSet) /\ Len(y) = l + 1
        /\ \A i \in 1 .. l : y[i] = ind[i]
        /\ y[l + 1] = x
    BY <1>1, <1>3, <1>4, OneMore
  <1>7. /\ p \in Seq(Nat) /\ Len(p) = m + 1
        /\ \A i \in 1 .. m : p[i] = opn[i]
        /\ p[m + 1] = l + 1
    <2>1. l + 1 \in Nat
      BY <1>1
    <2>2. QED BY <2>1, <1>4, <1>5, OneMore
  <1>8. \A k \in 1 .. l + 1 : Mirrors(written[k], y[k])
    <2> SUFFICES ASSUME NEW k \in 1 .. l + 1 PROVE Mirrors(written[k], y[k])
      OBVIOUS
    <2>1. k \in 1 .. l \/ k = l + 1
      BY <1>1
    <2>2. CASE k \in 1 .. l
      BY <2>2, <1>5, <1>6
    <2>3. CASE k = l + 1
      BY <2>3, <1>3, <1>6
    <2>4. QED BY <2>1, <2>2, <2>3
  <1>9. \A i \in 1 .. m + 1 : i \in 1 .. m \/ i = m + 1
    BY <1>5
  <1>10. \A i \in 1 .. m : p[i] \in 1 .. l
    BY <1>5, <1>7
  <1>11. \A i \in 1 .. m + 1 : p[i] \in 1 .. l + 1
    <2> SUFFICES ASSUME NEW i \in 1 .. m + 1 PROVE p[i] \in 1 .. l + 1
      OBVIOUS
    <2>1. CASE i \in 1 .. m
      <3>1. p[i] \in 1 .. l
        BY <2>1, <1>10
      <3>2. QED BY <3>1, <1>1
    <2>2. CASE i = m + 1
      BY <2>2, <1>1, <1>7
    <2>3. QED BY <2>1, <2>2, <1>9
  <1>12. \A i, j \in 1 .. m + 1 : p[i] = p[j] => i = j
    <2> SUFFICES ASSUME NEW i \in 1 .. m + 1, NEW j \in 1 .. m + 1, p[i] = p[j] PROVE i = j
      OBVIOUS
    <2>1. CASE i \in 1 .. m /\ j \in 1 .. m
      BY <2>1, <1>5, <1>7
    <2>2. \A h \in 1 .. m : p[h] # l + 1
      <3> SUFFICES ASSUME NEW h \in 1 .. m PROVE p[h] # l + 1
        OBVIOUS
      <3>1. p[h] \in 1 .. l
        BY <1>10
      <3>2. QED BY <3>1, <1>1
    <2>3. QED BY <2>1, <2>2, <1>7, <1>9
  <1>13. \A k \in 1 .. l + 1 : Complete(y[k]) \/ \E i \in 1 .. m + 1 : p[i] = k
    <2> SUFFICES ASSUME NEW k \in 1 .. l + 1
                 PROVE  Complete(y[k]) \/ \E i \in 1 .. m + 1 : p[i] = k
      OBVIOUS
    <2>1. k \in 1 .. l \/ k = l + 1
      BY <1>1
    <2>2. CASE k \in 1 .. l
      <3>1. CASE Complete(ind[k])
        BY <2>2, <3>1, <1>6
      <3>2. CASE ~Complete(ind[k])
        <4>1. PICK i \in 1 .. m : opn[i] = k
          BY <2>2, <3>2, <1>5
        <4>2. i \in 1 .. m + 1
          BY <1>5
        <4>3. QED BY <4>1, <4>2, <1>7
      <3>3. QED BY <3>1, <3>2
    <2>3. CASE k = l + 1
      <3>1. m + 1 \in 1 .. m + 1
        BY <1>5
      <3>2. QED BY <2>3, <3>1, <1>7
    <2>4. QED BY <2>1, <2>2, <2>3
  <1>14. Len(d) = (m + 1) + b
    BY <1>4, <1>5
  <1>15. b = 1 => d[1].values = image.globals /\ d[1].done = Len(rts)
    <2>1. b = 1 => 1 \in 1 .. n
      BY <1>5
    <2>2. QED BY <2>1, <1>4, <1>5
  <1>16. \A i \in 1 .. m + 1 : /\ d[i + b].values = Values(written[p[i]])
                               /\ d[i + b].done = DoneOf(y[p[i]])
    <2> SUFFICES ASSUME NEW i \in 1 .. m + 1
                 PROVE  /\ d[i + b].values = Values(written[p[i]])
                        /\ d[i + b].done = DoneOf(y[p[i]])
      OBVIOUS
    <2>1. CASE i \in 1 .. m
      <3>1. i + b \in 1 .. n
        BY <2>1, <1>5
      <3>2. d[i + b] = c[i + b]
        BY <3>1, <1>4
      <3>3. p[i] = opn[i] /\ opn[i] \in 1 .. l
        BY <2>1, <1>5, <1>7
      <3>4. y[p[i]] = ind[opn[i]]
        BY <3>3, <1>6
      <3>5. QED BY <2>1, <3>2, <3>3, <3>4, <1>5
    <2>2. CASE i = m + 1
      <3>1. i + b = Len(c) + 1
        BY <2>2, <1>4, <1>5
      <3>2. p[i] = l + 1
        BY <2>2, <1>7
      <3>3. QED BY <3>1, <3>2, <1>3, <1>6
    <2>3. QED BY <2>1, <2>2, <1>9
  <1>17. /\ rts \in Seq(ReadSet) /\ Len(rts) <= Len(image.globals)
         /\ \A j \in 1 .. Len(rts) : SameValue(image.globals[j], rts[j])
    BY DEF Fits
  <1>18. Fits(d, y, p, rts)
    <2>1. y \in Seq(ObjectSet) /\ Len(y) <= Len(written)
      BY <1>6
    <2>2. p \in Seq(Nat) /\ \A i \in 1 .. Len(p) : p[i] \in 1 .. Len(y)
      BY <1>6, <1>7, <1>11
    <2>3. \A i, j \in 1 .. Len(p) : p[i] = p[j] => i = j
      BY <1>7, <1>12
    <2>4. /\ \A k \in 1 .. Len(y) : Mirrors(written[k], y[k])
          /\ \A k \in 1 .. Len(y) : Complete(y[k]) \/ \E i \in 1 .. Len(p) : p[i] = k
      BY <1>6, <1>7, <1>8, <1>13
    <2>5. Len(d) = Len(p) + Bottom(rts)
      BY <1>4, <1>7, <1>14
    <2>6. /\ Bottom(rts) = 1 => d[1].values = image.globals /\ d[1].done = Len(rts)
          /\ \A i \in 1 .. Len(p) : /\ d[i + Bottom(rts)].values = Values(written[p[i]])
                                    /\ d[i + Bottom(rts)].done = DoneOf(y[p[i]])
      BY <1>4, <1>7, <1>15, <1>16
    <2>7. QED BY <1>17, <2>1, <2>2, <2>3, <2>4, <2>5, <2>6 DEF Fits
  <1>19. QED BY <1>4, <1>18

\* Where Take() stores a value and begins the objects of new.
LEMMA TakeStores ==
  ASSUME image \in Images, written \in Seq(Objects), NEW c, Fits(c, indirects, open, roots),
         Pending(c), c # <<>>, NEW w \in ReadSet, SameValue(Due(c), w),
         NEW new, Take(w, new)
  PROVE  \E i, p, r :
           /\ Fits(Advance(c), i, p, r) /\ Len(i) = Len(indirects)
           /\ indirects' = i \o new /\ roots' = r
           /\ open' = p \o [k \in 1 .. Len(new) |-> Len(indirects) + 1]
           /\ new = <<>> => open' = p
  <1>1. /\ indirects \in Seq(ObjectSet) /\ open \in Seq(Nat)
        /\ \A j \in 1 .. Len(open) : open[j] \in 1 .. Len(indirects)
    BY DEF Fits
  <1>2. CASE open = <<>>
    <2>1. PICK g : g = [k \in 1 .. Len(new) |-> Len(indirects) + 1]
      OBVIOUS
    <2>2. roots' = Append(roots, w) /\ indirects' = indirects \o new /\ open' = g
      BY <1>2, <2>1 DEF Take
    <2>3. Fits(c, indirects, <<>>, roots)
      BY <1>2
    <2>4. Fits(Advance(c), indirects, <<>>, Append(roots, w))
      BY <2>3, StoreRootFits
    <2>5. g = <<>> \o g
      OBVIOUS
    <2>6. new = <<>> => g = <<>>
      BY <2>1
    <2>7. QED BY <2>1, <2>2, <2>4, <2>5, <2>6
  <1>3. CASE open # <<>>
    <2>1. PICK k : k = open[Len(open)]
      OBVIOUS
    <2>2. PICK y : y = WithValue(indirects[k], w)
      OBVIOUS
    <2>3. PICK p : p = IF Complete(y) THEN Front(open) ELSE open
      OBVIOUS
    <2>4. PICK i : i = [indirects EXCEPT ![k] = y]
      OBVIOUS
    <2>5. PICK g : g = [h \in 1 .. Len(new) |-> Len(indirects) + 1]
      OBVIOUS
    <2>6. roots' = roots /\ indirects' = i \o new /\ open' = p \o g
      BY <1>3, <2>1, <2>2, <2>3, <2>4, <2>5 DEF Take, Last
    <2>7. Fits(Advance(c), i, p, roots)
      BY <1>3, <2>1, <2>2, <2>3, <2>4, StoreFieldFits
    <2>8. Len(i) = Len(indirects)
      BY <2>4, <1>1
    <2>9. p \in Seq(Nat)
      BY <2>7 DEF Fits
    <2>10. new = <<>> => p \o g = p
      <3>1. new = <<>> => g = <<>>
        BY <2>5
      <3>2. p \o <<>> = p
        BY <2>9, ConcatEmptySeq
      <3>3. QED BY <3>1, <3>2
    <2>11. QED BY <2>5, <2>6, <2>7, <2>8, <2>10
  <1>4. QED BY <1>2, <1>3

\* A record is read: the loader is where the writer was one record later.
LEMMA TakeFits ==
  ASSUME image \in Images, written \in Seq(Objects),
         NEW s, StageOK(s), s.calls # <<>>, Prefix(Step(s).written, written),
         Len(indirects) = Len(s.written), Fits(s.calls, indirects, open, roots),
         NEW w \in ReadSet, SameValue(Due(s.calls), w), NEW new, Take(w, new),
         IF IsNew(Due(s.calls), s.written)
         THEN new = <<[class |-> <<>>, is |-> <<>>,
                       size |-> Len(image.contents[Due(s.calls).is]),
                       binary |-> (Due(s.calls).is \in image.binary)]>>
         ELSE new = <<>>
  PROVE  /\ Fits(Step(s).calls, indirects', open', roots')
         /\ Len(indirects') = Len(Step(s).written)
  <1>1. PICK c, v, a, l : c = s.calls /\ v = Due(c) /\ a = Advance(c) /\ l = Len(indirects)
    OBVIOUS
  <1>2. Pending(c) /\ c # <<>> /\ s.written \in Seq(Objects) /\ l \in Nat
    BY <1>1 DEF StageOK, Stage, Fits
  <1>3. PICK i, p, r :
          /\ Fits(a, i, p, r) /\ Len(i) = l
          /\ indirects' = i \o new /\ roots' = r
          /\ open' = p \o [k \in 1 .. Len(new) |-> l + 1]
          /\ new = <<>> => open' = p
    <2>1. Fits(c, indirects, open, roots) /\ SameValue(Due(c), w)
      BY <1>1
    <2>2. PICK i, p, r :
            /\ Fits(Advance(c), i, p, r) /\ Len(i) = Len(indirects)
            /\ indirects' = i \o new /\ roots' = r
            /\ open' = p \o [k \in 1 .. Len(new) |-> Len(indirects) + 1]
            /\ new = <<>> => open' = p
      BY <1>2, <2>1, TakeStores
    <2>3. QED BY <1>1, <2>2
  <1>4. i \in Seq(ObjectSet) /\ p \in Seq(Nat)
    BY <1>3 DEF Fits
  <1>5. CASE ~IsNew(v, s.written)
    <2>1. new = <<>>
      BY <1>1, <1>5
    <2>2. Step(s).calls = a
      <3>1. Step(s).calls = a \o <<>>
        BY <1>1, <1>5 DEF Step
      <3>2. a \in Seq(CallSet)
        BY <1>1, <1>2, AdvanceFacts DEF Pending
      <3>3. QED BY <3>1, <3>2, ConcatEmptySeq
    <2>3. i \o <<>> = i
      BY <1>4, ConcatEmptySeq
    <2>4. indirects' = i /\ open' = p
      BY <1>3, <2>1, <2>3
    <2>5. Step(s).written = s.written
      BY <1>1, <1>5, StepWritten
    <2>6. QED BY <1>1, <1>3, <2>2, <2>4, <2>5
  <1>6. CASE IsNew(v, s.written)
    <2>1. PICK x : x = [class |-> <<>>, is |-> <<>>, size |-> Len(image.contents[v.is]),
                        binary |-> (v.is \in image.binary)]
      OBVIOUS
    <2>2. new = <<x>>
      BY <1>1, <1>6, <2>1
    <2>3. [k \in 1 .. Len(new) |-> l + 1] = <<l + 1>>
      BY <2>2
    <2>4. PICK d : d = Step(s).calls
      OBVIOUS
    <2>5. /\ Len(d) = Len(a) + 1
          /\ \A j \in 1 .. Len(a) : d[j] = a[j]
          /\ d[Len(a) + 1].values = Values(v.is) /\ d[Len(a) + 1].done = 0
      BY <1>1, <1>6, <2>4, StepCalls
    <2>6. Len(Step(s).written) = l + 1 /\ Step(s).written[l + 1] = v.is
          /\ Step(s).written \in Seq(Objects)
      BY <1>1, <1>6, StepWritten
    <2>7. l + 1 <= Len(written) /\ v.is = written[l + 1]
      <3>1. l + 1 \in 1 .. Len(Step(s).written)
        BY <1>2, <2>6
      <3>2. QED BY <2>6, <3>1 DEF Prefix
    <2>8. PICK o : o = v.is
      OBVIOUS
    <2>9. Fits(d, i \o <<x>>, p \o <<l + 1>>, r)
      <3>1. o = written[l + 1] /\ l = Len(i)
        BY <1>3, <2>7, <2>8
      <3>2. x = [class |-> <<>>, is |-> <<>>, size |-> Len(image.contents[o]),
                 binary |-> (o \in image.binary)]
        BY <2>1, <2>8
      <3>3. d[Len(a) + 1].values = Values(o) /\ d[Len(a) + 1].done = 0
        BY <2>5, <2>8
      <3>4. Fits(a, i, p, r) /\ l + 1 <= Len(written)
        BY <1>3, <2>7
      <3>5. Len(d) = Len(a) + 1 /\ \A j \in 1 .. Len(a) : d[j] = a[j]
        BY <2>5
      <3>6. QED BY <3>1, <3>2, <3>3, <3>4, <3>5, BeginFits
    <2>10. QED BY <1>3, <2>2, <2>3, <2>4, <2>6, <2>9
  <1>7. QED BY <1>5, <1>6

-----------------------------------------------------------------------------
(***************************************************************************)
(* One record read.  Place(s): the loader is where the writer was when it  *)
(* had come to the stage s, and the record of that stage is what follows   *)
(* in the file as far as it goes.                                          *)
(***************************************************************************)
Place(s) ==
  /\ image \in Images /\ order \in Orders /\ file \in Seq(0 .. Escape)
  /\ written \in Seq(Objects) /\ pointer \in 0 .. Len(file) /\ room \in Nat
  /\ StageOK(s) /\ s.calls # <<>>
  /\ Prefix(s.written, written) /\ Prefix(Step(s).written, written)
  /\ Holds(s.at, Code(s)) /\ pointer = s.at
  /\ Len(indirects) = Len(s.written) /\ Fits(s.calls, indirects, open, roots)

\* The object that a value is the first reference to.
NewObject(o) ==
  <<[class |-> <<>>, is |-> <<>>, size |-> Len(image.contents[o]),
     binary |-> (o \in image.binary)]>>

Consumed(s) ==
  /\ phase' = "read" /\ room' \in Nat
  /\ pointer' = s.at + Len(Code(s)) /\ pointer' <= Len(file)
  /\ \E w \in ReadSet : \E new :
       /\ SameValue(Due(s.calls), w) /\ Take(w, new)
       /\ new = IF IsNew(Due(s.calls), s.written) THEN NewObject(Due(s.calls).is) ELSE <<>>

GaveUp == phase' \in {"refused", "exhausted"} /\ UNCHANGED readerVars

\* What a place says of its value and of its record.
LEMMA PlaceFacts ==
  ASSUME NEW s, Place(s)
  PROVE  /\ Due(s.calls) \in Given /\ s.written \in Seq(Objects) /\ s.at \in Nat
         /\ s.at = pointer /\ s.at \in 0 .. Len(file)
         /\ Pending(s.calls) /\ s.calls # <<>>
         /\ Code(s) = Bytes(Due(s.calls), s.written)
  <1>1. Pending(s.calls) /\ s.written \in Seq(Objects) /\ s.at \in Nat /\ s.calls # <<>>
    BY DEF Place, StageOK, Stage
  <1>2. Due(s.calls) \in Given
    BY <1>1, AdvanceFacts
  <1>3. QED BY <1>1, <1>2 DEF Place, Code

\* A byte is read where a byte was written.
LEMMA ByteWhereWritten ==
  ASSUME NEW s, Place(s)
  PROVE  ByteIsDue <=> Due(s.calls).type = "byte"
  <1>1. PICK c : c = s.calls
    OBVIOUS
  <1>2. /\ image \in Images /\ written \in Seq(Objects) /\ Pending(c) /\ c # <<>>
        /\ Fits(c, indirects, open, roots)
    BY <1>1, PlaceFacts DEF Place
  <1>3. CASE open = <<>>
    <2>1. Len(roots) < Len(image.globals) /\ Due(c) = image.globals[Len(roots) + 1]
      BY <1>2, <1>3, FitsTop
    <2>2. PICK m, g : m = Len(roots) /\ g = Len(image.globals)
      OBVIOUS
    <2>3. m \in Nat /\ g \in Nat
      BY <2>2, <1>2, ImageFacts DEF Fits
    <2>4. m + 1 \in 1 .. g
      BY <2>1, <2>2, <2>3
    <2>5. Due(c).type # "byte"
      BY <2>1, <2>2, <2>4, <1>2, ImageFacts
    <2>6. ~ByteIsDue
      BY <1>3 DEF ByteIsDue
    <2>7. QED BY <1>1, <2>5, <2>6
  <1>4. CASE open # <<>>
    <2>1. PICK k : k = open[Len(open)]
      OBVIOUS
    <2>2. PICK o, x : o = written[k] /\ x = indirects[k]
      OBVIOUS
    <2>3. /\ x \in ObjectSet /\ o \in Objects /\ Mirrors(o, x)
          /\ DoneOf(x) < Len(Values(o)) /\ Due(c) = Values(o)[DoneOf(x) + 1]
      BY <1>2, <1>4, <2>1, <2>2, FitsTop
    <2>4. x.binary /\ Len(x.is) < x.size <=> Due(c).type = "byte"
      BY <1>2, <2>3, ByteDue
    <2>5. ByteIsDue <=> x.binary /\ Len(x.is) < x.size
      BY <1>4, <2>1, <2>2 DEF ByteIsDue, Last
    <2>6. QED BY <1>1, <2>4, <2>5
  <1>5. QED BY <1>3, <1>4

\* Everything is read when the writer had nothing more to write.
LEMMA AllReadWhereWritten ==
  ASSUME image \in Images, NEW c, Pending(c), Fits(c, indirects, open, roots)
  PROVE  AllRead <=> c = <<>>
  <1>1. PICK n, m, b, r, g : n = Len(c) /\ m = Len(open) /\ b = Bottom(roots)
                             /\ r = Len(roots) /\ g = Len(image.globals)
    OBVIOUS
  <1>2. c \in Seq(CallSet) /\ open \in Seq(Nat)
    BY DEF Pending, Fits
  <1>3. n \in Nat /\ m \in Nat /\ (c = <<>> <=> n = 0) /\ (open = <<>> <=> m = 0)
    BY <1>1, <1>2
  <1>4. r \in Nat /\ g \in Nat /\ r <= g
    BY <1>1, ImageFacts DEF Fits
  <1>5. b = IF r < g THEN 1 ELSE 0
    BY <1>1 DEF Bottom
  <1>6. n = m + b
    BY <1>1 DEF Fits
  <1>7. AllRead <=> m = 0 /\ r = g
    BY <1>1, <1>3 DEF AllRead
  <1>8. QED BY <1>3, <1>4, <1>5, <1>6, <1>7

\* The word of a record and what follows it.
LEMMA TwoParts ==
  ASSUME file \in Seq(0 .. Escape), pointer \in 0 .. Len(file), NEW n \in 1 .. 5,
         NEW rest \in Seq(0 .. Escape), Holds(pointer, writeWord(n) \o rest),
         TypeWord.at # -1
  PROVE  /\ TypeWord.value = n /\ TypeWord.at = pointer + Len(writeWord(n))
         /\ TypeWord.at \in 0 .. Len(file) /\ Holds(TypeWord.at, rest)
         /\ Len(writeWord(n) \o rest) = Len(writeWord(n)) + Len(rest)
         /\ Len(writeWord(n)) \in Nat
  <1>1. writeWord(n) \in Seq(0 .. Escape) /\ Len(writeWord(n)) \in Nat /\ n \in Nat
    <2>1. n \in Nat
      OBVIOUS
    <2>2. writeWord(n) \in Seq(0 .. Escape)
      BY <2>1, WordBytes
    <2>3. QED BY <2>1, <2>2
  <1>2. Holds(pointer, writeWord(n)) /\ Holds(pointer + Len(writeWord(n)), rest)
    BY <1>1, HoldsParts
  <1>3. /\ TypeWord.value = n /\ TypeWord.at = pointer + Len(writeWord(n))
        /\ TypeWord.at \in pointer .. Len(file)
    BY <1>1, <1>2, WordReadBack DEF TypeWord
  <1>4. Len(writeWord(n) \o rest) = Len(writeWord(n)) + Len(rest)
    BY <1>1, ConcatProperties
  <1>5. QED BY <1>1, <1>2, <1>3, <1>4

LEMMA IntegerReadBack ==
  ASSUME file \in Seq(0 .. Escape), order \in Orders, NEW p \in Nat, NEW n \in Ints,
         Holds(p, IntegerBytes(n)), p + 4 <= Len(file)
  PROVE  readInteger(p) \in Int /\ (InOrder => readInteger(p) = n)
  <1> DEFINE B == Base
             f(k) == file[p + order[k]]
             m == f(1) + B * (f(2) + B * (f(3) + B * f(4)))
             h == B * (B * (B * B))
  <1>1. order \in [1 .. 4 -> 1 .. 4] /\ B \in Nat
    BY ImageFormatAssumption DEF Base
  <1>2. \A k \in 1 .. 4 : p + order[k] \in 1 .. Len(file)
    BY <1>1
  <1>3. \A k \in 1 .. 4 : f(k) \in Nat
    <2> SUFFICES ASSUME NEW k \in 1 .. 4 PROVE f(k) \in Nat
      OBVIOUS
    <2>1. file[p + order[k]] \in 0 .. Escape
      BY <1>2, ElementOfSeq
    <2>2. QED BY <2>1, ImageFormatAssumption
  <1>4. readInteger(p) = IF m \in Ints THEN m ELSE m - h
    BY DEF readInteger
  <1> HIDE DEF B, f
  <1>5. f(1) \in Nat /\ f(2) \in Nat /\ f(3) \in Nat /\ f(4) \in Nat
    BY <1>3
  <1>6. m \in Int /\ h \in Int
    <2>1. \A x, y \in Nat : x * y \in Nat /\ x + y \in Nat
      OBVIOUS
    <2>2. f(3) + B * f(4) \in Nat
      BY <1>1, <1>5, <2>1
    <2>3. f(2) + B * (f(3) + B * f(4)) \in Nat
      BY <1>1, <1>5, <2>1, <2>2
    <2>4. m \in Nat
      BY <1>1, <1>5, <2>1, <2>3
    <2>5. B * B \in Nat
      BY <1>1, <2>1
    <2>6. B * (B * B) \in Nat
      BY <1>1, <2>1, <2>5
    <2>7. h \in Nat
      BY <1>1, <2>1, <2>6
    <2>8. QED BY <2>4, <2>7
  <1> HIDE DEF m, h
  <1>7. readInteger(p) \in Int
    BY <1>4, <1>6
  <1>8. ASSUME InOrder PROVE readInteger(p) = n
    <2>1. order[1] = 1 /\ order[2] = 2 /\ order[3] = 3 /\ order[4] = 4
      BY <1>1, <1>8 DEF InOrder
    <2>2. PICK b : b = IntegerBytes(n)
      OBVIOUS
    <2>3. Len(b) = 4 /\ n = LET z == b[1] + Base * (b[2] + Base * (b[3] + Base * b[4]))
                            IN  IF z \in Ints THEN z ELSE z - Base * (Base * (Base * Base))
      BY <2>2, IntegerIsItsBytes
    <2>4. \A i \in 1 .. 4 : file[p + i] = b[i]
      <3> SUFFICES ASSUME NEW i \in 1 .. 4 PROVE file[p + i] = b[i]
        OBVIOUS
      <3>1. p + i <= Len(file)
        OBVIOUS
      <3>2. QED BY <3>1, <2>2, <2>3 DEF Holds
    <2>5. f(1) = b[1] /\ f(2) = b[2] /\ f(3) = b[3] /\ f(4) = b[4]
      BY <2>1, <2>4 DEF f
    <2>6. m = b[1] + Base * (b[2] + Base * (b[3] + Base * b[4]))
      BY <2>5 DEF m, B
    <2>7. QED BY <2>3, <2>6, <1>4 DEF h, B
  <1>9. QED BY <1>7, <1>8

\* The byte of a binary object.
LEMMA ByteRead ==
  ASSUME NEW s, Place(s), Due(s.calls).type = "byte", phase = "read", readByte
  PROVE  Consumed(s) \/ GaveUp
  <1>1. PICK v : v = Due(s.calls)
    OBVIOUS
  <1>2. /\ file \in Seq(0 .. Escape) /\ pointer \in 0 .. Len(file) /\ room \in Nat
        /\ Holds(pointer, Code(s)) /\ pointer = s.at
    BY DEF Place
  <1>3. v \in Given /\ s.written \in Seq(Objects) /\ image \in Images
    BY <1>1, PlaceFacts DEF Place
  <1>4. Code(s) = writeWord(v.is) /\ v.is \in Nat /\ v.type = "byte" /\ ~IsNew(v, s.written)
    BY <1>1, <1>3, PlaceFacts, BytesFacts, RecordTypes
  <1>5. CASE readWord(pointer).at = -1
    BY <1>5 DEF readByte, Stop, GaveUp
  <1>6. CASE readWord(pointer).at # -1
    <2>1. /\ readWord(pointer).value = v.is
          /\ readWord(pointer).at = s.at + Len(Code(s))
          /\ readWord(pointer).at \in pointer .. Len(file)
      <3>1. PICK n : n = v.is
        OBVIOUS
      <3>2. n \in Nat /\ Holds(pointer, writeWord(n))
        BY <1>2, <1>4, <3>1
      <3>3. /\ readWord(pointer).value = n
            /\ readWord(pointer).at = pointer + Len(writeWord(n))
            /\ readWord(pointer).at \in pointer .. Len(file)
        BY <1>2, <1>6, <3>2, WordReadBack
      <3>4. QED BY <1>2, <1>4, <3>1, <3>3
    <2>2. /\ Take(Byte(v.is), <<>>) /\ pointer' = s.at + Len(Code(s))
          /\ phase' = "read" /\ room' = room
      BY <1>6, <2>1 DEF readByte
    <2>3. Byte(v.is) \in ReadSet
      BY <1>4 DEF ReadSet
    <2>4. SameValue(v, Byte(v.is))
      BY <1>4 DEF SameValue, Byte
    <2>5. pointer' <= Len(file)
      BY <2>1, <2>2
    <2>6. QED BY <1>1, <1>2, <1>4, <2>2, <2>3, <2>4, <2>5 DEF Consumed
  <1>7. QED BY <1>5, <1>6

LEMMA IntegerRead ==
  ASSUME NEW s, Place(s), Due(s.calls).type = "int", phase = "read", readObject
  PROVE  Consumed(s) \/ GaveUp
  <1>1. PICK v : v = Due(s.calls)
    OBVIOUS
  <1>2. /\ file \in Seq(0 .. Escape) /\ pointer \in 0 .. Len(file) /\ room \in Nat
        /\ Holds(pointer, Code(s)) /\ pointer = s.at /\ order \in Orders
    BY DEF Place
  <1>3. v \in Given /\ s.written \in Seq(Objects) /\ image \in Images
    BY <1>1, PlaceFacts DEF Place
  <1>4. /\ Code(s) = writeWord(2) \o IntegerBytes(v.is) /\ v.is \in Ints
        /\ v.type = "int" /\ ~IsNew(v, s.written)
    BY <1>1, <1>3, PlaceFacts, BytesFacts, RecordTypes
  <1>5. IntegerBytes(v.is) \in Seq(0 .. Escape) /\ Len(IntegerBytes(v.is)) = 4
    BY <1>4, IntegerIsItsBytes
  <1>6. CASE TypeWord.at = -1
    BY <1>6 DEF readObject, Stop, GaveUp
  <1>7. CASE TypeWord.at # -1
    <2>1. PICK p : p = TypeWord.at
      OBVIOUS
    <2>2. /\ TypeWord.value = 2 /\ p \in 0 .. Len(file)
          /\ Holds(p, IntegerBytes(v.is)) /\ p + 4 = s.at + Len(Code(s))
      <3>1. Holds(pointer, writeWord(2) \o IntegerBytes(v.is)) /\ 2 \in 1 .. 5
        BY <1>2, <1>4
      <3>2. /\ TypeWord.value = 2 /\ p = pointer + Len(writeWord(2))
            /\ p \in 0 .. Len(file) /\ Holds(p, IntegerBytes(v.is))
            /\ Len(Code(s)) = Len(writeWord(2)) + 4
            /\ Len(writeWord(2)) \in Nat
        BY <1>2, <1>4, <1>5, <1>7, <2>1, <3>1, TwoParts
      <3>3. QED BY <1>2, <3>2
    <2>3. readInlineInteger
      BY <1>7, <2>2 DEF readObject, Record
    <2>4. CASE p + 4 > Len(file)
      BY <2>1, <2>3, <2>4 DEF readInlineInteger, Stop, GaveUp
    <2>5. CASE ~(p + 4 > Len(file))
      <3>1. PICK i : i = readInteger(p)
        OBVIOUS
      <3>2. /\ Take(Int32(i), <<>>) /\ pointer' = p + 4 /\ phase' = "read" /\ room' = room
        BY <2>1, <2>3, <2>5, <3>1 DEF readInlineInteger
      <3>3. i \in Int /\ (InOrder => i = v.is)
        <4>1. p \in Nat /\ p + 4 <= Len(file)
          BY <1>2, <2>2, <2>5
        <4>2. QED BY <4>1, <1>2, <1>4, <2>2, <3>1, IntegerReadBack
      <3>4. Int32(i) \in ReadSet
        BY <3>3 DEF ReadSet
      <3>5. SameValue(v, Int32(i))
        BY <1>4, <3>3 DEF SameValue, Int32
      <3>6. pointer' = s.at + Len(Code(s)) /\ pointer' <= Len(file)
        BY <1>2, <2>2, <2>5, <3>2
      <3>7. QED BY <1>1, <1>2, <1>4, <3>2, <3>4, <3>5, <3>6 DEF Consumed
    <2>6. QED BY <2>4, <2>5
  <1>8. QED BY <1>6, <1>7

\* A record that only says nil.
LEMMA NilRead ==
  ASSUME NEW s, Place(s), Due(s.calls).type = "ref", Due(s.calls).is \in ToSet(s.written),
         Index(s.written, Due(s.calls).is) = 1, phase = "read", readObject
  PROVE  Consumed(s) \/ GaveUp
  <1>1. PICK v : v = Due(s.calls)
    OBVIOUS
  <1>2. /\ file \in Seq(0 .. Escape) /\ pointer \in 0 .. Len(file) /\ room \in Nat
        /\ Holds(pointer, Code(s)) /\ pointer = s.at /\ written \in Seq(Objects)
        /\ Prefix(s.written, written) /\ Len(indirects) = Len(s.written)
    BY DEF Place
  <1>3. v \in Given /\ s.written \in Seq(Objects) /\ image \in Images
    BY <1>1, PlaceFacts DEF Place
  <1>4. /\ Code(s) = writeWord(5) /\ v.type = "ref" /\ ~IsNew(v, s.written)
        /\ 1 \in 1 .. Len(s.written) /\ s.written[1] = v.is
    BY <1>1, <1>3, PlaceFacts, BytesFacts, RecordTypes
  <1>5. CASE TypeWord.at = -1
    BY <1>5 DEF readObject, Stop, GaveUp
  <1>6. CASE TypeWord.at # -1
    <2>1. /\ TypeWord.value = 5 /\ TypeWord.at = s.at + Len(Code(s))
          /\ TypeWord.at \in pointer .. Len(file)
      <3>1. 5 \in Nat /\ Holds(pointer, writeWord(5))
        BY <1>2, <1>4
      <3>2. /\ TypeWord.value = 5 /\ TypeWord.at = pointer + Len(writeWord(5))
            /\ TypeWord.at \in pointer .. Len(file)
        BY <1>2, <1>6, <3>1, WordReadBack DEF TypeWord
      <3>3. QED BY <1>2, <1>4, <3>2
    <2>2. readNilObject
      BY <1>6, <2>1 DEF readObject, Record
    <2>3. indirects # <<>>
      BY <1>2, <1>4
    <2>4. /\ Take(Ref(1), <<>>) /\ pointer' = TypeWord.at /\ phase' = "read" /\ room' = room
      BY <2>2, <2>3 DEF readNilObject
    <2>5. Ref(1) \in ReadSet
      BY DEF ReadSet
    <2>6. SameValue(v, Ref(1))
      BY <1>2, <1>4 DEF SameValue, Ref, Prefix
    <2>7. pointer' = s.at + Len(Code(s)) /\ pointer' <= Len(file)
      BY <2>1, <2>4
    <2>8. QED BY <1>1, <1>2, <1>4, <2>4, <2>5, <2>6, <2>7 DEF Consumed
  <1>7. QED BY <1>5, <1>6

\* The words of a record with a number: an index or a size.
LEMMA TwoWords ==
  ASSUME NEW s, Place(s), NEW t \in 1 .. 5, NEW n \in Nat,
         Code(s) = writeWord(t) \o writeWord(n), TypeWord.at # -1
  PROVE  /\ TypeWord.value = t
         /\ NextWord.at # -1 => /\ NextWord.value = n
                                /\ NextWord.at = s.at + Len(Code(s))
                                /\ NextWord.at \in 0 .. Len(file)
  <1>1. /\ file \in Seq(0 .. Escape) /\ pointer \in 0 .. Len(file)
        /\ Holds(pointer, writeWord(t) \o writeWord(n)) /\ pointer = s.at
    BY DEF Place
  <1>2. writeWord(n) \in Seq(0 .. Escape) /\ Len(writeWord(n)) \in Nat
    <2>1. writeWord(n) \in Seq(0 .. Escape)
      BY WordBytes
    <2>2. QED BY <2>1
  <1>3. PICK p : p = TypeWord.at
    OBVIOUS
  <1>4. /\ TypeWord.value = t /\ p = pointer + Len(writeWord(t))
        /\ p \in 0 .. Len(file) /\ Holds(p, writeWord(n))
        /\ Len(writeWord(t) \o writeWord(n)) = Len(writeWord(t)) + Len(writeWord(n))
        /\ Len(writeWord(t)) \in Nat
    BY <1>1, <1>2, <1>3, TwoParts
  <1>5. ASSUME NextWord.at # -1
        PROVE  /\ NextWord.value = n /\ NextWord.at = p + Len(writeWord(n))
               /\ NextWord.at \in p .. Len(file)
    <2>1. NextWord = readWord(p)
      BY <1>3 DEF NextWord
    <2>2. readWord(p).at # -1
      BY <1>5, <2>1
    <2>3. QED BY <1>1, <1>4, <2>1, <2>2, WordReadBack
  <1>6. ASSUME NextWord.at # -1
        PROVE  /\ NextWord.value = n /\ NextWord.at = s.at + Len(Code(s))
               /\ NextWord.at \in 0 .. Len(file)
    BY <1>1, <1>2, <1>4, <1>5, <1>6
  <1>7. QED BY <1>4, <1>6

LEMMA PreviousRead ==
  ASSUME NEW s, Place(s), Due(s.calls).type = "ref", Due(s.calls).is \in ToSet(s.written),
         Index(s.written, Due(s.calls).is) # 1, phase = "read", readObject
  PROVE  Consumed(s) \/ GaveUp
  <1>1. PICK v, k : v = Due(s.calls) /\ k = Index(s.written, v.is)
    OBVIOUS
  <1>2. /\ file \in Seq(0 .. Escape) /\ pointer \in 0 .. Len(file) /\ room \in Nat
        /\ pointer = s.at /\ written \in Seq(Objects)
        /\ Prefix(s.written, written) /\ Len(indirects) = Len(s.written)
    BY DEF Place
  <1>3. v \in Given /\ s.written \in Seq(Objects) /\ image \in Images
    BY <1>1, PlaceFacts DEF Place
  <1>4. /\ Code(s) = writeWord(4) \o writeWord(k - 1) /\ v.type = "ref" /\ ~IsNew(v, s.written)
        /\ k \in 1 .. Len(s.written) /\ s.written[k] = v.is
    BY <1>1, <1>3, PlaceFacts, BytesFacts, RecordTypes
  <1>5. CASE TypeWord.at = -1
    BY <1>5 DEF readObject, Stop, GaveUp
  <1>6. CASE TypeWord.at # -1
    <2>1. PICK n : n = k - 1
      OBVIOUS
    <2>2. n \in Nat /\ 4 \in 1 .. 5 /\ Code(s) = writeWord(4) \o writeWord(n)
      BY <1>4, <2>1
    <2>3. /\ TypeWord.value = 4
          /\ NextWord.at # -1 => /\ NextWord.value = n
                                 /\ NextWord.at = s.at + Len(Code(s))
                                 /\ NextWord.at \in 0 .. Len(file)
      BY <1>6, <2>2, TwoWords
    <2>4. readPreviousObject
      BY <1>6, <2>3 DEF readObject, Record
    <2>5. CASE NextWord.at = -1
      BY <2>4, <2>5 DEF readPreviousObject, Stop, GaveUp
    <2>6. CASE NextWord.at # -1
      <3>1. n < Len(indirects) /\ ~(NextWord.value >= Len(indirects)) /\ n + 1 = k
        <4>1. NextWord.value = n /\ n + 1 = k /\ k <= Len(indirects) /\ k \in Nat
          BY <1>2, <1>4, <2>1, <2>3, <2>6
        <4>2. Len(indirects) \in Nat
          BY <1>2, <1>3
        <4>3. QED BY <2>2, <4>1, <4>2
      <3>2. /\ Take(Ref(k), <<>>) /\ pointer' = NextWord.at /\ phase' = "read" /\ room' = room
        BY <2>3, <2>4, <2>6, <3>1 DEF readPreviousObject
      <3>3. Ref(k) \in ReadSet
        BY <1>4 DEF ReadSet
      <3>4. SameValue(v, Ref(k))
        BY <1>2, <1>3, <1>4 DEF SameValue, Ref, Prefix
      <3>5. pointer' = s.at + Len(Code(s)) /\ pointer' <= Len(file)
        BY <2>3, <2>6, <3>2
      <3>6. QED BY <1>1, <1>2, <1>4, <3>2, <3>3, <3>4, <3>5 DEF Consumed
    <2>7. QED BY <2>5, <2>6
  <1>7. QED BY <1>5, <1>6

LEMMA PaddingIsNat ==
  ASSUME NEW n \in Nat
  PROVE  correctPadding(2 * WordSize + n) \in Nat
  <1> DEFINE a == 2 * WordSize + n + WordSize - 1
             q == a \div WordSize
             r == a % WordSize
  <1>1. WordSize \in Nat \ {0}
    BY ImageFormatAssumption
  <1>2. a \in Int /\ a >= WordSize
    BY <1>1
  <1>3. correctPadding(2 * WordSize + n) = q * WordSize
    BY DEF correctPadding
  <1> HIDE DEF a
  <1>4. q \in Int /\ r \in 0 .. WordSize - 1 /\ a = WordSize * q + r
    BY <1>1, <1>2, DivMod
  <1> HIDE DEF q, r
  <1>5. q >= 0
    <2>1. ASSUME q <= -1 PROVE FALSE
      <3>1. WordSize * q <= -WordSize
        BY <1>1, <1>4, <2>1
      <3>2. QED BY <1>1, <1>2, <1>4, <3>1
    <2>2. QED BY <1>4, <2>1
  <1>6. q * WordSize \in Nat
    BY <1>1, <1>4, <1>5
  <1>7. QED BY <1>3, <1>6

\* The record of a new object.
LEMMA RecordRead ==
  ASSUME readObject, TypeWord.at # -1
  PROVE  /\ TypeWord.value = 1 => readNewObject(FALSE, (2 + NextWord.value) * WordSize)
         /\ TypeWord.value = 3 =>
              readNewObject(TRUE, correctPadding(2 * WordSize + NextWord.value))
  <1> DEFINE ordinary == readNewObject(FALSE, (2 + NextWord.value) * WordSize)
             byte == readNewObject(TRUE, correctPadding(2 * WordSize + NextWord.value))
             t == TypeWord.value
  <1>1. IF TypeWord.at = -1 THEN Stop("refused")
        ELSE CASE t = Record.ordinaryObject -> ordinary
               [] t = Record.byteObject     -> byte
               [] t = Record.inlineInteger  -> readInlineInteger
               [] t = Record.previousObject -> readPreviousObject
               [] t = Record.nilObject      -> readNilObject
               [] OTHER -> Stop("corrupt")
    BY DEF readObject
  <1>2. /\ Record.ordinaryObject = 1 /\ Record.inlineInteger = 2 /\ Record.byteObject = 3
        /\ Record.previousObject = 4 /\ Record.nilObject = 5
    BY DEF Record
  <1> HIDE DEF ordinary, byte, t
  <1>3. (t = 1 => ordinary) /\ (t = 3 => byte)
    BY <1>1, <1>2
  <1>4. QED BY <1>3 DEF ordinary, byte, t

\* An object that fits into what room is left.
LEMMA NewObjectRead ==
  ASSUME NEW s, Place(s), Due(s.calls).type = "ref",
         Due(s.calls).is \notin ToSet(s.written), phase = "read", readObject
  PROVE  Consumed(s) \/ GaveUp
  <1>1. PICK v, o, n : v = Due(s.calls) /\ o = v.is /\ n = Len(image.contents[o])
    OBVIOUS
  <1>2. /\ file \in Seq(0 .. Escape) /\ pointer \in 0 .. Len(file) /\ room \in Nat
        /\ pointer = s.at /\ written \in Seq(Objects) /\ StageOK(s) /\ s.calls # <<>>
        /\ Prefix(Step(s).written, written) /\ Len(indirects) = Len(s.written)
    BY DEF Place
  <1>3. v \in Given /\ s.written \in Seq(Objects) /\ image \in Images
    BY <1>1, PlaceFacts DEF Place
  <1>4. PICK t : t = IF o \in image.binary THEN 3 ELSE 1
    OBVIOUS
  <1>5. /\ Code(s) = writeWord(t) \o writeWord(n) /\ v.type = "ref" /\ IsNew(v, s.written)
        /\ o \in Objects /\ t \in 1 .. 5
    <2>1. Code(s) = (IF o \in image.binary THEN writeWord(3) ELSE writeWord(1)) \o writeWord(n)
      BY <1>1, <1>3, PlaceFacts, BytesFacts
    <2>2. v.type = "ref" /\ IsNew(v, s.written) /\ o \in Objects
      BY <1>1, <1>3, RecordTypes
    <2>3. CASE o \in image.binary
      <3>1. t = 3
        BY <1>4, <2>3
      <3>2. Code(s) = writeWord(3) \o writeWord(n)
        BY <2>1, <2>3
      <3>3. QED BY <2>2, <3>1, <3>2
    <2>4. CASE o \notin image.binary
      <3>1. t = 1
        BY <1>4, <2>4
      <3>2. Code(s) = writeWord(1) \o writeWord(n)
        BY <2>1, <2>4
      <3>3. QED BY <2>2, <3>1, <3>2
    <2>5. QED BY <2>3, <2>4
  <1>6. n \in Nat
    BY <1>1, <1>3, <1>5, ValuesFacts
  <1>7. PICK l : l = Len(indirects)
    OBVIOUS
  <1>8. l + 1 \in DOMAIN written /\ written[l + 1] = o /\ l \in Nat
    <2>1. /\ Len(Step(s).written) = l + 1 /\ Step(s).written[l + 1] = o
          /\ Step(s).written \in Seq(Objects)
      BY <1>1, <1>2, <1>3, <1>5, <1>7, StepWritten
    <2>2. l \in Nat /\ l + 1 \in 1 .. Len(Step(s).written)
      BY <1>2, <1>3, <1>7, <2>1
    <2>3. QED BY <1>2, <2>1, <2>2 DEF Prefix
  <1>9. Ref(l + 1) \in ReadSet /\ SameValue(v, Ref(l + 1))
    <2>1. Ref(l + 1) \in ReadSet
      BY <1>8 DEF ReadSet
    <2>2. QED BY <1>1, <1>5, <1>8, <2>1 DEF SameValue, Ref
  <1>10. CASE TypeWord.at = -1
    BY <1>10 DEF readObject, Stop, GaveUp
  <1>11. CASE TypeWord.at # -1
    <2>1. /\ TypeWord.value = t
          /\ NextWord.at # -1 => /\ NextWord.value = n
                                 /\ NextWord.at = s.at + Len(Code(s))
                                 /\ NextWord.at \in 0 .. Len(file)
      BY <1>5, <1>6, <1>11, TwoWords
    <2>2. PICK bytes \in {(2 + NextWord.value) * WordSize,
                          correctPadding(2 * WordSize + NextWord.value)} :
            readNewObject(o \in image.binary, bytes)
              /\ bytes = IF o \in image.binary
                         THEN correctPadding(2 * WordSize + NextWord.value)
                         ELSE (2 + NextWord.value) * WordSize
      <3>1. CASE o \in image.binary
        <4>1. readNewObject(TRUE, correctPadding(2 * WordSize + NextWord.value))
          <5>1. TypeWord.value = 3
            BY <1>4, <2>1, <3>1
          <5>2. QED BY <1>11, <5>1, RecordRead
        <4>2. (o \in image.binary) = TRUE
          BY <3>1
        <4>3. readNewObject(o \in image.binary, correctPadding(2 * WordSize + NextWord.value))
          BY <4>1, <4>2
        <4>4. QED BY <3>1, <4>3
      <3>2. CASE o \notin image.binary
        <4>1. readNewObject(FALSE, (2 + NextWord.value) * WordSize)
          <5>1. TypeWord.value = 1
            BY <1>4, <2>1, <3>2
          <5>2. QED BY <1>11, <5>1, RecordRead
        <4>2. (o \in image.binary) = FALSE
          BY <3>2
        <4>3. readNewObject(o \in image.binary, (2 + NextWord.value) * WordSize)
          BY <4>1, <4>2
        <4>4. QED BY <3>2, <4>3
      <3>3. QED BY <3>1, <3>2
    <2>3. CASE NextWord.at = -1
      BY <2>2, <2>3 DEF readNewObject, Stop, GaveUp
    <2>4. CASE NextWord.at # -1
      <3>1. bytes \in Nat
        <4>1. WordSize \in Nat \ {0}
          BY ImageFormatAssumption
        <4>2. NextWord.value = n
          BY <2>1, <2>4
        <4>3. (2 + n) * WordSize \in Nat
          BY <1>6, <4>1
        <4>4. correctPadding(2 * WordSize + n) \in Nat
          BY <1>6, <4>1, PaddingIsNat
        <4>5. QED BY <2>2, <4>2, <4>3, <4>4
      <3>2. CASE bytes > room
        BY <2>2, <2>4, <3>2 DEF readNewObject, Stop, GaveUp
      <3>3. CASE ~(bytes > room)
        <4>1. /\ Begin(n, o \in image.binary, bytes)
              /\ pointer' = s.at + Len(Code(s)) /\ phase' = "read"
          BY <2>1, <2>2, <2>4, <3>3 DEF readNewObject
        <4>2. /\ room' = room - bytes /\ Take(Ref(l + 1), NewObject(o))
          BY <1>1, <1>7, <4>1 DEF Begin, NewObject
        <4>3. room' \in Nat
          BY <1>2, <3>1, <3>3, <4>2
        <4>4. pointer' <= Len(file)
          BY <2>1, <2>4, <4>1
        <4>5. QED BY <1>1, <1>5, <1>9, <4>1, <4>2, <4>3, <4>4 DEF Consumed
      <3>4. QED BY <3>2, <3>3
    <2>5. QED BY <2>3, <2>4
  <1>12. QED BY <1>10, <1>11

\* A step of the loader while something is still to be read.
LEMMA RecordIsRead ==
  ASSUME NEW s, Place(s), phase = "read", readObject \/ readByte
  PROVE  Consumed(s) \/ GaveUp
  <1>1. Due(s.calls) \in Given
    BY PlaceFacts
  <1>2. ByteIsDue <=> Due(s.calls).type = "byte"
    BY ByteWhereWritten
  <1>3. CASE readByte
    <2>1. Due(s.calls).type = "byte"
      BY <1>2, <1>3 DEF readByte
    <2>2. QED BY <1>3, <2>1, ByteRead
  <1>4. CASE readObject
    <2>1. Due(s.calls).type # "byte"
      BY <1>2, <1>4 DEF readObject
    <2>2. CASE Due(s.calls).type = "int"
      BY <1>4, <2>2, IntegerRead
    <2>3. CASE Due(s.calls).type = "ref"
      <3>1. CASE Due(s.calls).is \notin ToSet(s.written)
        BY <1>4, <2>3, <3>1, NewObjectRead
      <3>2. CASE Due(s.calls).is \in ToSet(s.written)
        <4>1. CASE Index(s.written, Due(s.calls).is) = 1
          BY <1>4, <2>3, <3>2, <4>1, NilRead
        <4>2. CASE Index(s.written, Due(s.calls).is) # 1
          BY <1>4, <2>3, <3>2, <4>2, PreviousRead
        <4>3. QED BY <4>1, <4>2
      <3>3. QED BY <3>1, <3>2
    <2>4. QED BY <1>1, <2>1, <2>2, <2>3, GivenFacts
  <1>5. QED BY <1>3, <1>4

-----------------------------------------------------------------------------
(***************************************************************************)
(* The inductive invariant: there is a log of the stages the writer went   *)
(* through whose records are in the file as far as it goes, and while the  *)
(* loader reads it is at one of them.                                      *)
(***************************************************************************)
At(log, k) ==
  /\ pointer = log[k].at
  /\ \E i, p, r :
       /\ indirects = i /\ open = p /\ roots = r
       /\ Len(i) = Len(log[k].written) /\ Fits(log[k].calls, i, p, r)

Reading(log) == phase = "read" => \E k \in 1 .. Len(log) : At(log, k)

ReaderInv ==
  /\ pointer \in 0 .. Len(file) /\ room \in Nat
  /\ ToSet(open) \subseteq DOMAIN indirects
  /\ phase = "write" => pointer = 0 /\ indirects = <<>> /\ open = <<>> /\ roots = <<>>
  /\ phase # "corrupt"
  /\ cut => phase # "loaded"

IInv ==
  /\ WriterInv /\ ReaderInv /\ LoadedIsomorphic
  /\ \E log : Logged(log) /\ Reading(log)

LEMMA FitsSame ==
  ASSUME image' = image, written' = written, order' = order, NEW c, NEW i, NEW p, NEW r,
         Fits(c, i, p, r)
  PROVE  Fits(c, i, p, r)'
  <1>1. \A v, w : SameValue(v, w)' <=> SameValue(v, w)
    BY DEF SameValue, InOrder
  <1>2. \A o, x : Mirrors(o, x)' <=> Mirrors(o, x)
    BY <1>1, Zenon DEF Mirrors
  <1>3. \A o : Values(o)' = Values(o)
    BY DEF Values
  <1>4. Bottom(r)' = Bottom(r)
    BY DEF Bottom
  <1>5. QED BY <1>1, <1>2, <1>3, <1>4, Zenon DEF Fits

LEMMA WriterStays ==
  ASSUME WriterInv, UNCHANGED writerVars,
         phase' \in {"write", "read", "loaded", "refused", "exhausted"},
         phase' # "write" => calls = <<>>
  PROVE  WriterInv'
  BY DEF WriterInv, writerVars

\* Nothing is said of what is loaded before it is.
LEMMA NotLoaded ==
  ASSUME phase' # "loaded"
  PROVE  LoadedIsomorphic'
  BY DEF LoadedIsomorphic

LEMMA InitIInv ==
  ASSUME Init
  PROVE  IInv
  <1>1. WriterInv /\ Logged(<<Start>>)
    BY StartLogged
  <1>2. phase = "write" /\ pointer = 0 /\ room = 0 /\ indirects = <<>> /\ open = <<>>
        /\ roots = <<>> /\ file = <<>>
    BY DEF Init
  <1>3. ReaderInv
    <2>1. ToSet(<<>>) = {}
      BY DEF ToSet
    <2>2. QED BY <1>2, <2>1 DEF ReaderInv
  <1>4. LoadedIsomorphic /\ Reading(<<Start>>)
    BY <1>2 DEF LoadedIsomorphic, Reading
  <1>5. QED BY <1>1, <1>3, <1>4 DEF IInv

LEMMA WritingStep ==
  ASSUME IInv, writeObject \/ Kill
  PROVE  IInv'
  <1>1. PICK log : Logged(log)
    BY DEF IInv
  <1>2. WriterInv /\ ReaderInv
    BY DEF IInv
  <1>3. phase = "write" /\ phase' = "write" /\ UNCHANGED readerVars
    BY DEF writeObject, Kill
  <1>4. WriterInv' /\ \E g : Logged(g)'
    <2>1. CASE writeObject
      BY <1>1, <1>2, <2>1, WriteLogged
    <2>2. CASE Kill
      BY <1>1, <1>2, <2>2, KillLogged
    <2>3. QED BY <2>1, <2>2
  <1>5. ReaderInv'
    <2>1. file' \in Seq(0 .. Escape)
      BY <1>4 DEF WriterInv
    <2>2. pointer' = 0 /\ room' = room /\ indirects' = <<>> /\ open' = <<>> /\ roots' = <<>>
      BY <1>2, <1>3 DEF ReaderInv, readerVars
    <2>3. ToSet(open') \subseteq DOMAIN indirects'
      BY <1>2, <1>3 DEF ReaderInv, readerVars
    <2>4. QED BY <1>2, <1>3, <2>1, <2>2, <2>3 DEF ReaderInv
  <1>6. \A g : Reading(g)'
    BY <1>3 DEF Reading
  <1>7. LoadedIsomorphic'
    BY <1>3, NotLoaded
  <1>8. QED BY <1>4, <1>5, <1>6, <1>7 DEF IInv

LEMMA StartStep ==
  ASSUME IInv, StartLoading
  PROVE  IInv'
  <1>1. PICK log : Logged(log)
    BY DEF IInv
  <1>2. WriterInv /\ ReaderInv
    BY DEF IInv
  <1>3. /\ phase = "write" /\ phase' = "read" /\ calls = <<>> /\ UNCHANGED writerVars
        /\ room' = (Len(file) * 3) \div 2
        /\ pointer' = pointer /\ indirects' = indirects /\ open' = open /\ roots' = roots
    BY DEF StartLoading
  <1>4. pointer = 0 /\ indirects = <<>> /\ open = <<>> /\ roots = <<>>
    BY <1>2, <1>3 DEF ReaderInv
  <1>5. WriterInv'
    BY <1>2, <1>3, WriterStays
  <1>6. Logged(log)'
    BY <1>1, <1>2, <1>3, LoggedSame
  <1>7. ReaderInv'
    <2>1. file' = file /\ cut' = cut /\ Len(file) \in Nat
      BY <1>2, <1>3 DEF WriterInv, writerVars
    <2>2. room' \in Nat
      <3>1. PICK a : a = Len(file) * 3
        OBVIOUS
      <3>2. a \in Nat
        BY <2>1, <3>1
      <3>3. a \div 2 \in Nat
        BY <3>2
      <3>4. QED BY <1>3, <3>1, <3>3
    <2>3. QED BY <1>2, <1>3, <2>1, <2>2 DEF ReaderInv
  <1>8. Fits(Start.calls, <<>>, <<>>, <<>>)
    <2>1. image \in Images
      BY <1>2 DEF WriterInv
    <2>2. Len(image.globals) >= 1 /\ Len(image.globals) \in Nat
      BY <2>1, ImageFacts
    <2>3. Len(<<>>) = 0 /\ <<>> \in Seq(ObjectSet) /\ <<>> \in Seq(Nat) /\ <<>> \in Seq(ReadSet)
      OBVIOUS
    <2>4. Bottom(<<>>) = 1
      BY <2>2, <2>3 DEF Bottom
    <2>5. Len(Start.calls) = 1 /\ Start.calls[1].values = image.globals
          /\ Start.calls[1].done = 0
      BY DEF Start, Call
    <2>6. Len(written) \in Nat
      BY <1>1 DEF Logged, StageOK, Stage
    <2>7. QED BY <2>2, <2>3, <2>4, <2>5, <2>6 DEF Fits
  <1>9. Fits(Start.calls, <<>>, <<>>, <<>>)'
    <2>1. PICK c : c = Start.calls
      OBVIOUS
    <2>2. image' = image /\ written' = written /\ order' = order
      BY <1>3 DEF writerVars
    <2>3. Fits(c, <<>>, <<>>, <<>>)'
      BY <1>8, <2>1, <2>2, FitsSame
    <2>4. Start' = Start
      BY <2>2, SameImage
    <2>5. QED BY <2>1, <2>3, <2>4
  <1>10. Reading(log)'
    <2>1. log[1] = Start' /\ Len(log) >= 1 /\ Len(log) \in Nat
      BY <1>6 DEF Logged
    <2>2. Start'.at = 0 /\ Start'.written = <<>>
      BY DEF Start
    <2>3. PICK c : c = log[1].calls
      OBVIOUS
    <2>4. Fits(c, <<>>, <<>>, <<>>)'
      BY <1>9, <2>1, <2>3
    <2>5. At(log, 1)'
      BY <1>3, <1>4, <2>1, <2>2, <2>3, <2>4 DEF At
    <2>6. 1 \in 1 .. Len(log)
      BY <2>1
    <2>7. QED BY <2>5, <2>6 DEF Reading
  <1>11. QED BY <1>3, <1>5, <1>6, <1>7, <1>10, NotLoaded DEF IInv

\* While something is still to be read, the record of the next stage follows.
LEMMA ReadingPlace ==
  ASSUME IInv, phase = "read", NEW log, Logged(log), NEW k \in 1 .. Len(log), At(log, k),
         ~AllRead
  PROVE  Place(log[k]) /\ k + 1 \in 1 .. Len(log) /\ log[k + 1] = Step(log[k])
  <1>1. PICK n, s : n = Len(log) /\ s = log[k]
    OBVIOUS
  <1>2. /\ image \in Images /\ order \in Orders /\ file \in Seq(0 .. Escape)
        /\ calls = <<>> /\ pointer \in 0 .. Len(file) /\ room \in Nat
    BY DEF IInv, WriterInv, ReaderInv
  <1>3. /\ log \in Seq(Stage) /\ n \in Nat /\ n >= 1 /\ k \in 1 .. n
        /\ \A i \in 1 .. n : StageOK(log[i]) /\ Prefix(log[i].written, written)
        /\ \A i \in 1 .. n - 1 :
             /\ log[i].calls # <<>> /\ log[i + 1] = Step(log[i])
             /\ Holds(log[i].at, Code(log[i]))
        /\ log[n].calls = <<>> /\ log[n].written = written
    BY <1>1, <1>2 DEF Logged
  <1>4. /\ pointer = s.at /\ Len(indirects) = Len(s.written)
        /\ Fits(s.calls, indirects, open, roots)
    BY <1>1 DEF At
  <1>5. StageOK(s) /\ Pending(s.calls) /\ Prefix(s.written, written)
    BY <1>1, <1>3 DEF StageOK
  <1>6. s.calls # <<>>
    <2>1. PICK c : c = s.calls
      OBVIOUS
    <2>2. AllRead <=> c = <<>>
      BY <1>2, <1>4, <1>5, <2>1, AllReadWhereWritten
    <2>3. QED BY <2>1, <2>2
  <1>7. k \in 1 .. n - 1 /\ k + 1 \in 1 .. n
    <2>1. k # n
      BY <1>1, <1>3, <1>6
    <2>2. QED BY <2>1, <1>3
  <1>8. log[k + 1] = Step(s) /\ Holds(s.at, Code(s))
    BY <1>1, <1>3, <1>7
  <1>9. Prefix(Step(s).written, written)
    BY <1>3, <1>7, <1>8
  <1>10. written \in Seq(Objects)
    <2>1. n \in 1 .. n
      BY <1>3
    <2>2. StageOK(log[n])
      BY <1>3, <2>1
    <2>3. QED BY <2>2, <1>3 DEF StageOK, Stage
  <1>11. Place(s)
    BY <1>2, <1>4, <1>5, <1>6, <1>8, <1>9, <1>10 DEF Place
  <1>12. QED BY <1>1, <1>7, <1>8, <1>11

LEMMA ReadStep ==
  ASSUME IInv, readObject \/ readByte
  PROVE  IInv'
  <1>1. PICK log : Logged(log) /\ Reading(log)
    BY DEF IInv
  <1>2. WriterInv /\ ReaderInv
    BY DEF IInv
  <1>3. phase = "read" /\ UNCHANGED writerVars
    BY DEF readObject, readByte
  <1>4. image' = image /\ written' = written /\ order' = order /\ file' = file /\ cut' = cut
    BY <1>3 DEF writerVars
  <1>5. PICK k \in 1 .. Len(log) : At(log, k)
    BY <1>1, <1>3 DEF Reading
  <1>6. ~AllRead
    BY DEF readObject, readByte, ByteIsDue, AllRead
  <1>7. Place(log[k]) /\ k + 1 \in 1 .. Len(log) /\ log[k + 1] = Step(log[k])
    BY <1>1, <1>3, <1>5, <1>6, ReadingPlace
  <1>8. PICK s : s = log[k]
    OBVIOUS
  <1>9. Logged(log)'
    BY <1>1, <1>2, <1>3, LoggedSame
  <1>10. Consumed(s) \/ GaveUp
    BY <1>3, <1>7, <1>8, RecordIsRead
  <1>11. calls = <<>>
    BY <1>2, <1>3 DEF WriterInv
  <1>12. CASE GaveUp
    <2>1. WriterInv'
      BY <1>2, <1>3, <1>11, <1>12, WriterStays DEF GaveUp
    <2>2. ReaderInv'
      BY <1>2, <1>4, <1>12 DEF ReaderInv, GaveUp, readerVars
    <2>3. Reading(log)' /\ LoadedIsomorphic'
      BY <1>12, NotLoaded DEF Reading, GaveUp
    <2>4. QED BY <1>9, <2>1, <2>2, <2>3 DEF IInv
  <1>13. CASE Consumed(s)
    <2>1. /\ phase' = "read" /\ room' \in Nat
          /\ pointer' = s.at + Len(Code(s)) /\ pointer' <= Len(file)
      BY <1>13 DEF Consumed
    <2>2. PICK w, new :
            /\ w \in ReadSet /\ SameValue(Due(s.calls), w) /\ Take(w, new)
            /\ new = IF IsNew(Due(s.calls), s.written) THEN NewObject(Due(s.calls).is) ELSE <<>>
      BY <1>13 DEF Consumed
    <2>3. /\ image \in Images /\ written \in Seq(Objects) /\ StageOK(s) /\ s.calls # <<>>
          /\ Prefix(Step(s).written, written) /\ Len(indirects) = Len(s.written)
          /\ Fits(s.calls, indirects, open, roots) /\ pointer = s.at
      BY <1>7, <1>8 DEF Place
    <2>4. /\ Fits(Step(s).calls, indirects', open', roots')
          /\ Len(indirects') = Len(Step(s).written)
      BY <2>2, <2>3, TakeFits DEF NewObject
    <2>5. Code(s) \in Seq(0 .. Escape) /\ Step(s).at = s.at + Len(Code(s)) /\ Len(Code(s)) \in Nat
      BY <2>3, StepOK
    <2>6. PICK i, p, r : indirects' = i /\ open' = p /\ roots' = r
      OBVIOUS
    <2>7. PICK t : t = log[k + 1]
      OBVIOUS
    <2>8. Fits(t.calls, i, p, r) /\ Len(i) = Len(t.written) /\ pointer' = t.at
      BY <1>7, <1>8, <2>1, <2>4, <2>5, <2>6, <2>7
    <2>9. PICK c : c = t.calls
      OBVIOUS
    <2>10. Fits(c, i, p, r)'
      BY <1>4, <2>8, <2>9, FitsSame
    <2>11. At(log, k + 1)'
      BY <2>6, <2>7, <2>8, <2>9, <2>10 DEF At
    <2>12. Reading(log)'
      BY <1>7, <2>11 DEF Reading
    <2>13. WriterInv'
      BY <1>2, <1>3, <1>11, <2>1, WriterStays
    <2>14. ReaderInv'
      <3>1. pointer' \in 0 .. Len(file')
        BY <1>2, <1>4, <2>1, <2>3, <2>5 DEF ReaderInv
      <3>2. ToSet(open') \subseteq DOMAIN indirects'
        <4>1. /\ i \in Seq(ObjectSet) /\ p \in Seq(Nat)
              /\ \A j \in 1 .. Len(p) : p[j] \in 1 .. Len(i)
          BY <2>8 DEF Fits
        <4>2. ToSet(p) \subseteq DOMAIN i
          BY <4>1 DEF ToSet
        <4>3. QED BY <4>2, <2>6
      <3>3. QED BY <2>1, <3>1, <3>2 DEF ReaderInv
    <2>15. LoadedIsomorphic'
      BY <2>1, NotLoaded
    <2>16. QED BY <1>9, <2>12, <2>13, <2>14, <2>15 DEF IInv
  <1>14. QED BY <1>10, <1>12, <1>13

\* When everything is read it is what was written, and the file was whole.
LEMMA EndStep ==
  ASSUME IInv, EndLoading
  PROVE  IInv'
  <1>1. PICK log : Logged(log) /\ Reading(log)
    BY DEF IInv
  <1>2. WriterInv /\ ReaderInv
    BY DEF IInv
  <1>3. /\ phase = "read" /\ phase' = "loaded" /\ AllRead
        /\ UNCHANGED writerVars /\ UNCHANGED readerVars
    BY DEF EndLoading
  <1>4. PICK k \in 1 .. Len(log) : At(log, k)
    BY <1>1, <1>3 DEF Reading
  <1>5. PICK n : n = Len(log)
    OBVIOUS
  <1>6. calls = <<>> /\ image \in Images
    BY <1>2, <1>3 DEF WriterInv
  <1>7. /\ n \in Nat /\ n >= 1 /\ k \in 1 .. n
        /\ \A i \in 1 .. n : StageOK(log[i])
        /\ \A i \in 1 .. n - 1 : log[i].calls # <<>>
        /\ log[n].calls = <<>> /\ log[n].written = written
        /\ cut => Len(file) < log[n].at
    BY <1>1, <1>5, <1>6 DEF Logged
  <1>8. /\ pointer = log[k].at /\ Len(indirects) = Len(log[k].written)
        /\ Fits(log[k].calls, indirects, open, roots)
    BY <1>4 DEF At
  <1>9. log[k].calls = <<>>
    <2>1. PICK c : c = log[k].calls
      OBVIOUS
    <2>2. Pending(c)
      BY <1>7, <2>1 DEF StageOK
    <2>3. AllRead <=> c = <<>>
      BY <1>6, <1>8, <2>1, <2>2, AllReadWhereWritten
    <2>4. QED BY <1>3, <2>1, <2>3
  <1>10. k = n
    <2>1. k \notin 1 .. n - 1
      BY <1>7, <1>9
    <2>2. QED BY <2>1, <1>7
  <1>11. ~cut
    <2>1. pointer \in 0 .. Len(file) /\ Len(file) \in Nat
      BY <1>2 DEF WriterInv, ReaderInv
    <2>2. QED BY <1>7, <1>8, <1>10, <2>1
  <1>12. Len(indirects) = Len(written)
    BY <1>7, <1>8, <1>10
  <1>13. open = <<>> /\ Len(roots) = Len(image.globals)
    BY <1>3 DEF AllRead
  <1>14. written \in Seq(Objects)
    <2>1. StageOK(log[n])
      BY <1>7
    <2>2. QED BY <2>1, <1>7 DEF StageOK, Stage
  <1>15. \A j \in DOMAIN roots : SameValue(image.globals[j], roots[j])
    <2>1. roots \in Seq(ReadSet) /\ \A j \in 1 .. Len(roots) : SameValue(image.globals[j], roots[j])
      BY <1>8 DEF Fits
    <2>2. DOMAIN roots = 1 .. Len(roots)
      BY <2>1
    <2>3. QED BY <2>1, <2>2
  <1>16. \A j \in DOMAIN indirects : LET o  == written[j]
                                         is == image.contents[o]
                                     IN  /\ SameValue(Ref(image.class[o]), indirects[j].class[1])
                                         /\ indirects[j].binary = (o \in image.binary)
                                         /\ Len(indirects[j].is) = Len(is)
                                         /\ \A h \in DOMAIN is : SameValue(is[h], indirects[j].is[h])
    <2> SUFFICES ASSUME NEW j \in DOMAIN indirects
                 PROVE  LET o  == written[j]
                            is == image.contents[o]
                        IN  /\ SameValue(Ref(image.class[o]), indirects[j].class[1])
                            /\ indirects[j].binary = (o \in image.binary)
                            /\ Len(indirects[j].is) = Len(is)
                            /\ \A h \in DOMAIN is : SameValue(is[h], indirects[j].is[h])
      OBVIOUS
    <2>1. PICK o, x, is : o = written[j] /\ x = indirects[j] /\ is = image.contents[o]
      OBVIOUS
    <2>2. j \in 1 .. Len(indirects) /\ j \in 1 .. Len(written)
      BY <1>8, <1>12 DEF Fits
    <2>3. o \in Objects
      BY <1>14, <2>1, <2>2, ElementOfSeq
    <2>4. x \in ObjectSet /\ Mirrors(o, x) /\ Complete(x)
      <3>1. Len(open) = 0
        BY <1>13
      <3>2. \A i \in 1 .. Len(open) : FALSE
        BY <3>1
      <3>3. Complete(x)
        BY <1>8, <2>1, <2>2, <3>2 DEF Fits
      <3>4. QED BY <1>8, <2>1, <2>2, <3>3 DEF Fits
    <2>5. is \in Seq(Given)
      BY <1>6, <2>1, <2>3, ImageFacts
    <2>6. x.class # <<>> /\ Len(x.is) = x.size /\ x.class \in Seq(ReadSet)
      BY <2>4 DEF Complete, ObjectSet
    <2>7. Len(x.class) = 1
      <3>1. PICK a : a = Len(x.class)
        OBVIOUS
      <3>2. a \in Nat /\ a # 0
        BY <2>6, <3>1
      <3>3. a <= 1
        BY <2>4, <3>1 DEF Mirrors
      <3>4. a = 1
        BY <3>2, <3>3
      <3>5. QED BY <3>1, <3>4
    <2>8. /\ x.binary = (o \in image.binary) /\ Len(x.is) = Len(is)
          /\ SameValue(Ref(image.class[o]), x.class[1])
          /\ \A h \in 1 .. Len(x.is) : SameValue(is[h], x.is[h])
      BY <2>1, <2>4, <2>6, <2>7 DEF Mirrors
    <2>9. DOMAIN is = 1 .. Len(x.is)
      BY <2>5, <2>8
    <2>10. QED BY <2>1, <2>8, <2>9
  <1>17. LoadedIsomorphic'
    <2>1. /\ image' = image /\ written' = written /\ order' = order
          /\ indirects' = indirects /\ roots' = roots
      BY <1>3 DEF writerVars, readerVars
    <2>2. \A v, w : SameValue(v, w)' <=> SameValue(v, w)
      BY <2>1 DEF SameValue, InOrder
    <2>3. QED BY <1>12, <1>13, <1>15, <1>16, <2>1, <2>2, Zenon DEF LoadedIsomorphic
  <1>18. WriterInv'
    BY <1>2, <1>3, <1>6, WriterStays
  <1>19. ReaderInv'
    BY <1>2, <1>3, <1>11 DEF ReaderInv, readerVars, writerVars
  <1>20. Logged(log)'
    BY <1>1, <1>2, <1>3, LoggedSame
  <1>21. Reading(log)'
    BY <1>3 DEF Reading
  <1>22. QED BY <1>17, <1>18, <1>19, <1>20, <1>21 DEF IInv

LEMMA NoStep ==
  ASSUME IInv, UNCHANGED vars
  PROVE  IInv'
  <1>1. PICK log : Logged(log) /\ Reading(log)
    BY DEF IInv
  <1>2. /\ image' = image /\ written' = written /\ order' = order /\ phase' = phase
        /\ indirects' = indirects /\ roots' = roots /\ open' = open /\ pointer' = pointer
        /\ room' = room /\ file' = file /\ cut' = cut /\ calls' = calls
    BY DEF vars
  <1>3. \A v, w : SameValue(v, w)' <=> SameValue(v, w)
    BY <1>2 DEF SameValue, InOrder
  <1>4. LoadedIsomorphic'
    <2>1. LoadedIsomorphic
      BY DEF IInv
    <2>2. QED BY <1>2, <1>3, <2>1, Zenon DEF LoadedIsomorphic
  <1>5. WriterInv' /\ ReaderInv'
    BY <1>2 DEF IInv, WriterInv, ReaderInv
  <1>6. Logged(log)'
    BY <1>1, <1>2, LoggedSame DEF IInv, writerVars
  <1>7. Reading(log)'
    <2>1. ASSUME NEW k \in 1 .. Len(log), At(log, k) PROVE At(log, k)'
      <3>1. PICK i, p, r : /\ indirects = i /\ open = p /\ roots = r
                           /\ Len(i) = Len(log[k].written) /\ Fits(log[k].calls, i, p, r)
        BY <2>1 DEF At
      <3>2. PICK c : c = log[k].calls
        OBVIOUS
      <3>3. Fits(c, i, p, r)'
        BY <1>2, <3>1, <3>2, FitsSame
      <3>4. QED BY <1>2, <2>1, <3>1, <3>2, <3>3 DEF At
    <2>2. QED BY <1>1, <1>2, <2>1 DEF Reading
  <1>8. QED BY <1>4, <1>5, <1>6, <1>7 DEF IInv

LEMMA StepIInv ==
  ASSUME IInv, [Next]_vars
  PROVE  IInv'
  <1>1. CASE writeObject \/ Kill
    BY <1>1, WritingStep
  <1>2. CASE StartLoading
    BY <1>2, StartStep
  <1>3. CASE readObject \/ readByte
    BY <1>3, ReadStep
  <1>4. CASE EndLoading
    BY <1>4, EndStep
  <1>5. CASE Ended \/ UNCHANGED vars
    BY <1>5, NoStep DEF Ended
  <1>6. QED BY <1>1, <1>2, <1>3, <1>4, <1>5 DEF Next

LEMMA IInvHolds == Spec => []IInv
  <1>1. Init => IInv
    BY InitIInv
  <1>2. IInv /\ [Next]_vars => IInv'
    BY StepIInv
  <1>3. QED BY <1>1, <1>2, PTL DEF Spec

(***************************************************************************)
(* writeTo() and loadImage() are inverse to each other: whatever is loaded *)
(* is isomorphic to the image that was written, for every image, with      *)
(* words, sizes and indices of any number of bytes.                        *)
(***************************************************************************)
THEOREM LoadedIsTheImage == Spec => []LoadedIsomorphic
  <1>1. IInv => LoadedIsomorphic
    BY DEF IInv
  <1>2. QED BY <1>1, IInvHolds, PTL

(***************************************************************************)
(* Wherever the writer was killed, its file is not taken for an image, and *)
(* readObject() neither follows an index to an object it has not read nor  *)
(* meets a record it does not know.                                        *)
(***************************************************************************)
THEOREM CutIsRefused == Spec => []CutNotLoaded
  <1>1. IInv => CutNotLoaded
    <2> SUFFICES ASSUME IInv PROVE CutNotLoaded
      OBVIOUS
    <2>1. WriterInv /\ ReaderInv
      BY DEF IInv
    <2>2. PICK log : Logged(log)
      BY DEF IInv
    <2>3. IsInjective(written)
      <3>1. Len(log) \in 1 .. Len(log)
        BY <2>2 DEF Logged
      <3>2. StageOK(log[Len(log)]) /\ log[Len(log)].written = written
        BY <2>2, <3>1 DEF Logged
      <3>3. QED BY <3>2 DEF StageOK
    <2>4. \A k \in DOMAIN file : file[k] \in 0 .. Escape
      <3>1. file \in Seq(0 .. Escape)
        BY <2>1 DEF WriterInv
      <3>2. \A k \in 1 .. Len(file) : file[k] \in 0 .. Escape
        BY <3>1, ElementOfSeq
      <3>3. DOMAIN file = 1 .. Len(file)
        BY <3>1
      <3>4. QED BY <3>2, <3>3
    <2>5. TypeOK
      BY <2>1, <2>3, <2>4 DEF TypeOK, WriterInv, ReaderInv
    <2>6. QED BY <2>1, <2>5 DEF CutNotLoaded, ReaderInv
  <1>2. QED BY <1>1, IInvHolds, PTL

=============================================================================
