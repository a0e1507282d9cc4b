--------------------------- MODULE DcFifo_proofs ---------------------------
(***************************************************************************)
(* Theorems about DcFifo, for every width of the pointers and every number *)
(* of synchroniser registers.                                              *)
(***************************************************************************)
EXTENDS DcFifo, Integers, SequenceTheorems, WellFoundedInduction, TLAPS

-----------------------------------------------------------------------------
(***************************************************************************)
(* Induction and recursion over the natural numbers.  A set stands for the *)
(* property that is proved by induction, a function for the step of a      *)
(* recursion.                                                              *)
(***************************************************************************)
LEMMA SetInduction ==
  ASSUME NEW S, 0 \in S, \A n \in Nat : n \in S => n + 1 \in S
  PROVE  \A n \in Nat : n \in S
<1> DEFINE Less == OpToRel(<, Nat)
           Rest == Nat \ S
<1>1. IsWellFoundedOn(Less, Nat)
  BY NatLessThanWellFounded DEF OpToRel
<1>2. \A x, y \in Nat : x < y => <<x, y>> \in Less
  BY DEF OpToRel
<1> HIDE DEF Less
<1>3. SUFFICES ASSUME Rest # {} PROVE FALSE
  OBVIOUS
<1>4. Rest \subseteq Nat
  OBVIOUS
<1> HIDE DEF Rest
<1>5. PICK x \in Rest : \A y \in Rest : ~ (<<y, x>> \in Less)
  BY <1>1, <1>3, <1>4, WFMin
<1>6. x \in Nat /\ x # 0 /\ x \notin S
  BY <1>4, <1>5 DEF Rest
<1>7. x - 1 \in Nat /\ (x - 1) + 1 = x /\ x - 1 < x
  BY <1>6
<1>8. x - 1 \in S
  BY <1>2, <1>5, <1>6, <1>7 DEF Rest
<1>9. QED
  BY <1>6, <1>7, <1>8

\* A function on the natural numbers goes from a by the steps s.
IsRecursive(f, S, a, s) ==
  f \in [Nat -> S] /\ f[0] = a /\ \A n \in Nat : f[n + 1] = s[<<n, f[n]>>]

\* Every first value and every step have such a function.
LEMMA Recursion ==
  \A S : \A a \in S : \A s \in [Nat \X S -> S] : \E f : IsRecursive(f, S, a, s)
<1> SUFFICES ASSUME NEW S, NEW a \in S, NEW s \in [Nat \X S -> S]
             PROVE  \E f : IsRecursive(f, S, a, s)
  OBVIOUS
<1> DEFINE Part(g, n) == /\ g \in [0 .. n -> S] /\ g[0] = a
                         /\ \A i \in 0 .. n - 1 : g[i + 1] = s[<<i, g[i]>>]
<1>1. ASSUME NEW n \in Nat, NEW g, Part(g, n + 1)
      PROVE  Part([i \in 0 .. n |-> g[i]], n) /\ g[n + 1] = s[<<n, g[n]>>]
  BY <1>1
<1>2. \A n \in Nat : \E g : Part(g, n)
  <2> DEFINE Good == {n \in Nat : \E g : Part(g, n)}
  <2>1. Part([i \in 0 .. 0 |-> a], 0)
    OBVIOUS
  <2>2. 0 \in Good
    BY <2>1
  <2>3. ASSUME NEW n \in Nat, n \in Good
        PROVE  n + 1 \in Good
    <3>1. PICK g : Part(g, n)
      BY <2>3
    <3> DEFINE h == [i \in 0 .. n + 1 |->
                       IF i = n + 1 THEN s[<<n, g[n]>>] ELSE g[i]]
    <3>2. h \in [0 .. n + 1 -> S] /\ h[0] = a
      <4>1. s[<<n, g[n]>>] \in S
        BY <3>1
      <4>2. QED
        BY <3>1, <4>1
    <3>3. ASSUME NEW i \in 0 .. (n + 1) - 1
          PROVE  h[i + 1] = s[<<i, h[i]>>]
      <4>1. CASE i = n
        <5>1. h[n + 1] = s[<<n, g[n]>>] /\ h[n] = g[n]
          OBVIOUS
        <5>2. QED
          BY <4>1, <5>1
      <4>2. CASE i \in 0 .. n - 1
        BY <3>1, <4>2
      <4>3. QED
        BY <4>1, <4>2
    <3> HIDE DEF h
    <3>4. Part(h, n + 1)
      BY <3>2, <3>3
    <3> HIDE DEF Part
    <3>5. QED
      BY <3>4
  <2> HIDE DEF Good
  <2>4. \A n \in Nat : n \in Good
    BY <2>2, <2>3, SetInduction
  <2>5. QED
    BY <2>4 DEF Good
<1>3. \A n \in Nat : \A g, h : Part(g, n) /\ Part(h, n) => g[n] = h[n]
  <2> DEFINE Good == {n \in Nat :
                        \A g, h : Part(g, n) /\ Part(h, n) => g[n] = h[n]}
  <2>1. 0 \in Good
    OBVIOUS
  <2>2. ASSUME NEW n \in Nat, n \in Good
        PROVE  n + 1 \in Good
    <3>1. SUFFICES ASSUME NEW g, NEW h, Part(g, n + 1), Part(h, n + 1)
                   PROVE  g[n + 1] = h[n + 1]
      OBVIOUS
    <3> DEFINE gg == [i \in 0 .. n |-> g[i]]
               hh == [i \in 0 .. n |-> h[i]]
    <3>2. Part(gg, n) /\ Part(hh, n) /\ gg[n] = g[n] /\ hh[n] = h[n]
      BY <1>1, <3>1
    <3>3. g[n + 1] = s[<<n, g[n]>>] /\ h[n + 1] = s[<<n, h[n]>>]
      BY <1>1, <3>1
    <3> HIDE DEF Part, gg, hh
    <3>4. gg[n] = hh[n]
      BY <2>2, <3>2
    <3>5. QED
      BY <3>2, <3>3, <3>4
  <2> HIDE DEF Good
  <2>3. \A n \in Nat : n \in Good
    BY <2>1, <2>2, SetInduction
  <2>4. QED
    BY <2>3 DEF Good
<1> DEFINE G(n) == CHOOSE g : Part(g, n)
           f == [n \in Nat |-> G(n)[n]]
<1> HIDE DEF Part
<1>4. \A n \in Nat : Part(G(n), n)
  BY <1>2
<1> HIDE DEF G
<1>5. f \in [Nat -> S]
  BY <1>4 DEF Part
<1>6. f[0] = a
  BY <1>4 DEF Part
<1>7. ASSUME NEW n \in Nat
      PROVE  f[n + 1] = s[<<n, f[n]>>]
  <2> DEFINE gg == [i \in 0 .. n |-> G(n + 1)[i]]
  <2>1. Part(gg, n) /\ G(n + 1)[n + 1] = s[<<n, G(n + 1)[n]>>]
    BY <1>1, <1>4
  <2>2. gg[n] = G(n + 1)[n]
    OBVIOUS
  <2> HIDE DEF gg
  <2>3. gg[n] = G(n)[n]
    BY <1>3, <1>4, <2>1
  <2>4. QED
    BY <2>1, <2>2, <2>3
<1>8. QED
  BY <1>5, <1>6, <1>7 DEF IsRecursive

-----------------------------------------------------------------------------
(***************************************************************************)
(* Powers of two and bits.                                                 *)
(***************************************************************************)
LEMMA DivUnique ==
  ASSUME NEW n \in Nat, NEW p \in Nat \ {0}, NEW q \in Nat, NEW r \in Nat,
         r < p, n = p * q + r
  PROVE  n \div p = q /\ n % p = r
<1> DEFINE d == n \div p
           m == n % p
<1>1. d \in Nat /\ m \in 0 .. p - 1 /\ n = p * d + m
  OBVIOUS
<1> HIDE DEF d, m
<1>2. CASE d >= q + 1
  <2>1. PICK k \in Nat : d = q + 1 + k
    <3>1. d - q - 1 \in Nat /\ d = q + 1 + (d - q - 1)
      BY <1>1, <1>2
    <3>2. QED
      BY <3>1
  <2>2. p * d = p * q + p + p * k
    BY <1>1, <2>1
  <2>3. p * k \in Nat /\ p * q \in Nat /\ p * d \in Nat
    BY <1>1, <2>1
  <2>4. QED
    BY <1>1, <2>2, <2>3
<1>3. CASE q >= d + 1
  <2>1. PICK k \in Nat : q = d + 1 + k
    <3>1. q - d - 1 \in Nat /\ q = d + 1 + (q - d - 1)
      BY <1>1, <1>3
    <3>2. QED
      BY <3>1
  <2>2. p * q = p * d + p + p * k
    BY <1>1, <2>1
  <2>3. p * k \in Nat /\ p * q \in Nat /\ p * d \in Nat
    BY <1>1, <2>1
  <2>4. QED
    BY <1>1, <2>2, <2>3
<1>4. d = q
  BY <1>1, <1>2, <1>3
<1>5. m = r
  <2>1. p * d = p * q /\ p * q \in Nat
    BY <1>1, <1>4
  <2>2. QED
    BY <1>1, <2>1
<1>6. QED
  BY <1>4, <1>5 DEF d, m

LEMMA Half ==
  ASSUME NEW n \in Nat, NEW p \in Nat \ {0}
  PROVE  n \div (2 * p) = (n \div p) \div 2
<1> DEFINE d == n \div p
           m == n % p
           q == d \div 2
           e == d % 2
<1>1. d \in Nat /\ m \in 0 .. p - 1 /\ n = p * d + m
  OBVIOUS
<1> HIDE DEF d, m
<1>2. q \in Nat /\ e \in 0 .. 1 /\ d = 2 * q + e
  BY <1>1
<1> HIDE DEF q, e
<1>3. n = (2 * p) * q + (p * e + m)
  <2>1. p * d = (2 * p) * q + p * e
    BY <1>1, <1>2
  <2>2. (2 * p) * q \in Nat /\ p * e \in Nat
    BY <1>1, <1>2
  <2>3. QED
    BY <1>1, <2>1, <2>2
<1>4. p * e + m \in Nat /\ p * e + m < 2 * p
  <2>1. CASE e = 0
    BY <1>1, <2>1
  <2>2. CASE e = 1
    BY <1>1, <2>2
  <2>3. QED
    BY <1>2, <2>1, <2>2
<1>5. 2 * p \in Nat \ {0}
  OBVIOUS
<1>6. n \div (2 * p) = q
  BY <1>2, <1>3, <1>4, <1>5, DivUnique
<1>7. QED
  BY <1>6 DEF q, d

\* Pow2 is what its definition says.
LEMMA Pow2Def ==
  /\ Pow2[0] = 1
  /\ \A n \in Nat : Pow2[n] \in Nat \ {0} /\ Pow2[n + 1] = 2 * Pow2[n]
<1> DEFINE s == [x \in Nat \X Nat |-> 2 * x[2]]
<1>1. s \in [Nat \X Nat -> Nat] /\ \A n, v \in Nat : s[<<n, v>>] = 2 * v
  OBVIOUS
<1> HIDE DEF s
<1>2. PICK f : IsRecursive(f, Nat, 1, s)
  BY <1>1, Recursion
<1>3. f \in [Nat -> Nat] /\ f[0] = 1 /\ \A n \in Nat : f[n + 1] = s[<<n, f[n]>>]
  BY <1>2, Zenon DEF IsRecursive
<1>4. f = [n \in Nat |-> IF n = 0 THEN 1 ELSE 2 * f[n - 1]]
  <2>1. ASSUME NEW n \in Nat, n # 0
        PROVE  f[n] = 2 * f[n - 1]
    <3>1. n - 1 \in Nat /\ (n - 1) + 1 = n /\ f[n - 1] \in Nat
      BY <1>3, <2>1
    <3>2. QED
      BY <1>1, <1>3, <3>1
  <2>2. QED
    BY <1>3, <2>1
<1>5. Pow2 = [n \in Nat |-> IF n = 0 THEN 1 ELSE 2 * Pow2[n - 1]]
  BY <1>4, Zenon DEF Pow2
<1>6. Pow2[0] = 1 /\ \A n \in Nat : Pow2[n + 1] = 2 * Pow2[n]
  BY <1>5
<1> DEFINE Good == {n \in Nat : Pow2[n] \in Nat \ {0}}
<1>7. 0 \in Good /\ \A n \in Nat : n \in Good => n + 1 \in Good
  BY <1>6
<1> HIDE DEF Good
<1>8. \A n \in Nat : n \in Good
  BY <1>7, SetInduction
<1>9. QED
  BY <1>6, <1>8 DEF Good

\* The number without its i lowest bits.
Upper(n, i) == n \div Pow2[i]

LEMMA UpperSteps ==
  ASSUME NEW n \in Nat
  PROVE  /\ Upper(n, 0) = n
         /\ \A i \in Nat : Upper(n, i) \in Nat
                           /\ Upper(n, i + 1) = Upper(n, i) \div 2
<1>1. Upper(n, 0) = n
  BY Pow2Def, DivUnique DEF Upper
<1>2. ASSUME NEW i \in Nat
      PROVE  Upper(n, i) \in Nat /\ Upper(n, i + 1) = Upper(n, i) \div 2
  <2>1. Pow2[i] \in Nat \ {0} /\ Pow2[i + 1] = 2 * Pow2[i]
    BY Pow2Def
  <2>2. n \div Pow2[i] \in Nat
    BY <2>1
  <2>3. n \div (2 * Pow2[i]) = (n \div Pow2[i]) \div 2
    BY <2>1, Half
  <2>4. QED
    BY <2>1, <2>2, <2>3 DEF Upper
<1>3. QED
  BY <1>1, <1>2

LEMMA DepthIsPower ==
  ADDR_WIDTH \in Nat /\ DEPTH \in Nat \ {0} /\ SYNC_DEPTH \in Nat \ {0}
  /\ Words \in Nat \ {0}
  BY DcFifoAssumption, Pow2Def DEF DEPTH

\* What is left of a pointer above bit ADDR_WIDTH - 1 is its extra bit.
LEMMA TopBit ==
  ASSUME NEW n \in 0 .. 2 * DEPTH
  PROVE  Upper(n, ADDR_WIDTH) = IF n < DEPTH THEN 0
                                ELSE IF n < 2 * DEPTH THEN 1 ELSE 2
<1>1. DEPTH \in Nat \ {0}
  BY DepthIsPower
<1>2. CASE n < DEPTH
  <2>1. n = DEPTH * 0 + n
    BY <1>1
  <2>2. QED
    BY <1>1, <1>2, <2>1, DivUnique DEF Upper, DEPTH
<1>3. CASE n >= DEPTH /\ n < 2 * DEPTH
  <2>1. n = DEPTH * 1 + (n - DEPTH) /\ n - DEPTH \in Nat /\ n - DEPTH < DEPTH
    BY <1>1, <1>3
  <2>2. n \div DEPTH = 1
    BY <1>1, <2>1, DivUnique
  <2>3. QED
    BY <1>1, <1>3, <2>2 DEF Upper, DEPTH
<1>4. CASE n = 2 * DEPTH
  <2>1. n = DEPTH * 2 + 0 /\ n \in Nat
    BY <1>1, <1>4
  <2>2. n \div DEPTH = 2
    BY <1>1, <2>1, DivUnique
  <2>3. QED
    BY <1>1, <1>4, <2>2 DEF Upper, DEPTH
<1>5. QED
  BY <1>1, <1>2, <1>3, <1>4

-----------------------------------------------------------------------------
(***************************************************************************)
(* Gray codes.                                                             *)
(***************************************************************************)
LEMMA CodeBits ==
  ASSUME NEW n \in Nat
  PROVE  /\ bin2gray(n) \in Code
         /\ bin2gray(n)[ADDR_WIDTH] = Upper(n, ADDR_WIDTH) % 2
         /\ \A i \in 0 .. ADDR_WIDTH - 1 :
              bin2gray(n)[i] =
                ((Upper(n, i + 1) % 2) + (Upper(n, i) % 2)) % 2
<1>1. \A i \in 0 .. ADDR_WIDTH :
        i \in Nat /\ i + 1 \in Nat /\ Upper(n, i) \in Nat /\ Upper(n, i + 1) \in Nat
  <2>1. SUFFICES ASSUME NEW i \in 0 .. ADDR_WIDTH
                 PROVE  /\ i \in Nat /\ i + 1 \in Nat
                        /\ Upper(n, i) \in Nat /\ Upper(n, i + 1) \in Nat
    OBVIOUS
  <2>2. i \in Nat /\ i + 1 \in Nat
    BY DepthIsPower
  <2>3. QED
    BY <2>2, UpperSteps
<1>2. \A i \in 0 .. ADDR_WIDTH : Bit(n, i) = Upper(n, i) % 2
                                  /\ Bit(n, i + 1) = Upper(n, i + 1) % 2
  BY DEF Bit, Upper
<1>3. bin2gray(n) =
        [i \in 0 .. ADDR_WIDTH |->
           IF i = ADDR_WIDTH THEN Upper(n, i) % 2
           ELSE ((Upper(n, i + 1) % 2) + (Upper(n, i) % 2)) % 2]
  <2>1. bin2gray(n) =
          [i \in 0 .. ADDR_WIDTH |->
             IF i = ADDR_WIDTH THEN Bit(n, i)
             ELSE (Bit(n, i + 1) + Bit(n, i)) % 2]
    BY DEF bin2gray
  <2>2. \A i \in 0 .. ADDR_WIDTH :
          (IF i = ADDR_WIDTH THEN Bit(n, i) ELSE (Bit(n, i + 1) + Bit(n, i)) % 2)
          = (IF i = ADDR_WIDTH THEN Upper(n, i) % 2
             ELSE ((Upper(n, i + 1) % 2) + (Upper(n, i) % 2)) % 2)
    BY <1>2
  <2>3. QED
    BY <2>1, <2>2
<1>4. \A i \in 0 .. ADDR_WIDTH :
        /\ Upper(n, i) % 2 \in {0, 1}
        /\ ((Upper(n, i + 1) % 2) + (Upper(n, i) % 2)) % 2 \in {0, 1}
  BY <1>1
<1> HIDE DEF Upper
<1>5. bin2gray(n) \in Code
  BY <1>3, <1>4 DEF Code
<1>6. QED
  <2>1. ADDR_WIDTH \in 0 .. ADDR_WIDTH
        /\ \A i \in 0 .. ADDR_WIDTH - 1 : i \in 0 .. ADDR_WIDTH /\ i # ADDR_WIDTH
    BY DepthIsPower
  <2>2. QED
    BY <1>3, <1>5, <2>1, Zenon

\* The table that gray2bin reads its result from.
IsLeading(leading, g) ==
  leading = [k \in 0 .. ADDR_WIDTH |->
               IF k = 0 THEN g[ADDR_WIDTH]
               ELSE 2 * leading[k - 1]
                      + ((leading[k - 1] + g[ADDR_WIDTH - k]) % 2)]

LEMMA LeadingExists ==
  ASSUME NEW g \in Code
  PROVE  \E leading : IsLeading(leading, g)
<1> DEFINE bit(n) == IF n < ADDR_WIDTH THEN g[ADDR_WIDTH - (n + 1)] ELSE 0
           s == [x \in Nat \X Nat |-> 2 * x[2] + ((x[2] + bit(x[1])) % 2)]
<1>1. \A n \in Nat : bit(n) \in Nat
  BY DepthIsPower DEF Code
<1>2. g[ADDR_WIDTH] \in Nat
  BY DepthIsPower DEF Code
<1>3. \A n \in 0 .. ADDR_WIDTH - 1 : bit(n) = g[ADDR_WIDTH - (n + 1)]
  BY DepthIsPower
<1> HIDE DEF bit
<1>4. s \in [Nat \X Nat -> Nat]
      /\ \A n, v \in Nat : s[<<n, v>>] = 2 * v + ((v + bit(n)) % 2)
  BY <1>1
<1> HIDE DEF s
<1>5. PICK f : IsRecursive(f, Nat, g[ADDR_WIDTH], s)
  BY <1>2, <1>4, Recursion
<1>6. f \in [Nat -> Nat] /\ f[0] = g[ADDR_WIDTH]
      /\ \A n \in Nat : f[n + 1] = s[<<n, f[n]>>]
  BY <1>5, Zenon DEF IsRecursive
<1>7. ASSUME NEW k \in 0 .. ADDR_WIDTH, k # 0
      PROVE  f[k] = 2 * f[k - 1] + ((f[k - 1] + g[ADDR_WIDTH - k]) % 2)
  <2>1. k - 1 \in Nat /\ (k - 1) + 1 = k /\ f[k - 1] \in Nat
        /\ k - 1 \in 0 .. ADDR_WIDTH - 1
    BY <1>6, <1>7, DepthIsPower
  <2>2. f[k] = s[<<k - 1, f[k - 1]>>]
    BY <1>6, <2>1
  <2>3. QED
    BY <1>3, <1>4, <2>1, <2>2
<1> DEFINE leading == [k \in 0 .. ADDR_WIDTH |-> f[k]]
<1>8. ASSUME NEW k \in 0 .. ADDR_WIDTH
      PROVE  leading[k] = IF k = 0 THEN g[ADDR_WIDTH]
                          ELSE 2 * leading[k - 1]
                                 + ((leading[k - 1] + g[ADDR_WIDTH - k]) % 2)
  <2>1. CASE k = 0
    BY <1>6, <2>1, DepthIsPower
  <2>2. CASE k # 0
    <3>1. k - 1 \in 0 .. ADDR_WIDTH
      BY <2>2, DepthIsPower
    <3>2. QED
      BY <1>7, <2>2, <3>1
  <2>3. QED
    BY <2>1, <2>2
<1>9. IsLeading(leading, g)
  BY <1>8, Zenon DEF IsLeading
<1>10. QED
  BY <1>9

LEMMA LeadingRead ==
  ASSUME NEW g \in Code
  PROVE  \E leading : IsLeading(leading, g) /\ gray2bin(g) = leading[ADDR_WIDTH]
<1> DEFINE leading == CHOOSE l : IsLeading(l, g)
<1>1. IsLeading(leading, g)
  BY LeadingExists
<1>2. gray2bin(g) = leading[ADDR_WIDTH]
  BY Zenon DEF gray2bin, IsLeading
<1>3. QED
  BY <1>1, <1>2

\* A pointer is read back from its code.
THEOREM RoundTrip ==
  ASSUME NEW n \in Ptr
  PROVE  gray2bin(bin2gray(n)) = n
<1> DEFINE g == bin2gray(n)
           A == ADDR_WIDTH
<1>1. A \in Nat /\ n \in Nat /\ n \in 0 .. 2 * DEPTH /\ n < 2 * DEPTH /\ n >= 0
  BY DepthIsPower DEF Ptr
<1>2. g \in Code
  BY <1>1, CodeBits
<1>3. PICK leading : IsLeading(leading, g) /\ gray2bin(g) = leading[A]
  BY <1>2, LeadingRead
<1>4. g[A] = Upper(n, A) % 2
      /\ \A i \in 0 .. A - 1 : g[i] = ((Upper(n, i + 1) % 2) + (Upper(n, i) % 2)) % 2
  BY <1>1, CodeBits
<1> HIDE DEF g
<1>5. leading[0] = g[A]
      /\ \A k \in 0 .. A : k # 0 => leading[k] = 2 * leading[k - 1]
                                     + ((leading[k - 1] + g[A - k]) % 2)
  <2>1. 0 \in 0 .. A
    BY <1>1
  <2>2. QED
    BY <1>3, <2>1, Zenon DEF IsLeading
<1> DEFINE Good == {k \in Nat : k <= A => leading[k] = Upper(n, A - k)}
<1>6. 0 \in Good
  <2>1. Upper(n, A) \in {0, 1}
    BY <1>1, TopBit
  <2>2. leading[0] = Upper(n, A) /\ A - 0 = A
    BY <1>1, <1>4, <1>5, <2>1
  <2>3. QED
    BY <2>2
<1>7. ASSUME NEW k \in Nat, k \in Good
      PROVE  k + 1 \in Good
  <2>1. SUFFICES ASSUME k + 1 <= A
                 PROVE  leading[k + 1] = Upper(n, A - (k + 1))
    OBVIOUS
  <2> DEFINE i == A - (k + 1)
             u == Upper(n, i)
             v == Upper(n, i + 1)
  <2>2. i \in 0 .. A - 1 /\ i \in Nat /\ i + 1 = A - k /\ k + 1 \in 0 .. A
        /\ k + 1 # 0 /\ (k + 1) - 1 = k /\ k <= A
    BY <1>1, <2>1
  <2>3. u \in Nat /\ v = u \div 2
    BY <1>1, <2>2, UpperSteps
  <2>4. leading[k] = v
    BY <1>7, <2>2
  <2>5. leading[k + 1] = 2 * leading[k] + ((leading[k] + g[i]) % 2)
    BY <1>5, <2>2
  <2>6. g[i] = ((v % 2) + (u % 2)) % 2
    BY <1>4, <2>2
  <2> HIDE DEF u, v
  <2>7. leading[k + 1] = u
    BY <2>3, <2>4, <2>5, <2>6
  <2>8. QED
    BY <2>7 DEF u
<1> HIDE DEF Good
<1>8. A \in Good
  BY <1>1, <1>6, <1>7, SetInduction
<1>9. leading[A] = Upper(n, A - A) /\ A - A = 0
  BY <1>1, <1>8 DEF Good
<1>10. QED
  BY <1>1, <1>3, <1>9, UpperSteps DEF g

LEMMA SameCode ==
  ASSUME NEW c \in Code, NEW d \in Code,
         \A i \in 0 .. ADDR_WIDTH : c[i] = d[i]
  PROVE  c = d
<1>1. c = [i \in 0 .. ADDR_WIDTH |-> c[i]] /\ d = [i \in 0 .. ADDR_WIDTH |-> d[i]]
  BY DEF Code
<1>2. QED
  BY <1>1, Zenon

\* Adding one carries into a bit only through the bits below it.
Carry(n, i) == Upper(n + 1, i) = Upper(n, i) + 1

LEMMA Carries ==
  ASSUME NEW n \in Nat
  PROVE  \A i \in Nat : /\ Upper(n + 1, i) \in {Upper(n, i), Upper(n, i) + 1}
                        /\ Carry(n, i + 1) => Carry(n, i) /\ Upper(n, i) % 2 = 1
                        /\ Carry(n, i) /\ ~Carry(n, i + 1) => Upper(n, i) % 2 = 0
<1>1. n + 1 \in Nat
  OBVIOUS
<1>2. /\ Upper(n, 0) = n /\ Upper(n + 1, 0) = n + 1
      /\ \A i \in Nat : /\ Upper(n, i) \in Nat /\ Upper(n + 1, i) \in Nat
                        /\ Upper(n, i + 1) = Upper(n, i) \div 2
                        /\ Upper(n + 1, i + 1) = Upper(n + 1, i) \div 2
  BY <1>1, UpperSteps
<1> DEFINE Good == {i \in Nat :
                      Upper(n + 1, i) \in {Upper(n, i), Upper(n, i) + 1}}
<1>3. 0 \in Good /\ \A i \in Nat : i \in Good => i + 1 \in Good
  <2>1. 0 \in Good
    BY <1>2
  <2>2. ASSUME NEW i \in Nat, i \in Good
        PROVE  i + 1 \in Good
    <3> DEFINE u == Upper(n, i)
               v == Upper(n + 1, i)
    <3>1. /\ u \in Nat /\ v \in {u, u + 1}
          /\ Upper(n, i + 1) = u \div 2 /\ Upper(n + 1, i + 1) = v \div 2
      BY <1>2, <2>2
    <3> HIDE DEF u, v
    <3>2. v \div 2 \in {u \div 2, (u \div 2) + 1}
      BY <3>1
    <3>3. QED
      BY <3>1, <3>2
  <2>3. QED
    BY <2>1, <2>2
<1> HIDE DEF Good
<1>4. \A i \in Nat : i \in Good
  BY <1>3, SetInduction
<1>5. ASSUME NEW i \in Nat
      PROVE  /\ Upper(n + 1, i) \in {Upper(n, i), Upper(n, i) + 1}
             /\ Carry(n, i + 1) => Carry(n, i) /\ Upper(n, i) % 2 = 1
             /\ Carry(n, i) /\ ~Carry(n, i + 1) => Upper(n, i) % 2 = 0
  <2>1. Upper(n + 1, i) \in {Upper(n, i), Upper(n, i) + 1}
    BY <1>4 DEF Good
  <2>2. /\ Upper(n, i) \in Nat /\ Upper(n + 1, i) \in Nat
        /\ Upper(n, i + 1) = Upper(n, i) \div 2
        /\ Upper(n + 1, i + 1) = Upper(n + 1, i) \div 2
    BY <1>2
  <2>3. QED
    BY <2>1, <2>2 DEF Carry
<1>6. QED
  BY <1>5

LEMMA CarriesBelow ==
  ASSUME NEW n \in Nat
  PROVE  \A j \in Nat : \A i \in 0 .. j : Carry(n, j) => Carry(n, i)
<1> DEFINE Good == {j \in Nat : \A i \in 0 .. j : Carry(n, j) => Carry(n, i)}
<1>1. 0 \in Good
  OBVIOUS
<1>2. ASSUME NEW j \in Nat, j \in Good
      PROVE  j + 1 \in Good
  <2>1. \A i \in 0 .. j : Carry(n, j) => Carry(n, i)
    BY <1>2
  <2>2. Carry(n, j + 1) => Carry(n, j)
    BY Carries
  <2>3. \A i \in 0 .. j + 1 : i \in 0 .. j \/ i = j + 1
    OBVIOUS
  <2>4. \A i \in 0 .. j + 1 : Carry(n, j + 1) => Carry(n, i)
    BY <2>1, <2>2, <2>3
  <2>5. QED
    BY <2>4
<1> HIDE DEF Good
<1>3. \A j \in Nat : j \in Good
  BY <1>1, <1>2, SetInduction
<1>4. QED
  BY <1>3 DEF Good

\* The codes of a number and the next differ in one bit: that of the last carry.
LEMMA OneBit ==
  ASSUME NEW n \in Nat,
         NEW i \in 0 .. ADDR_WIDTH, bin2gray(n)[i] # bin2gray(n + 1)[i],
         NEW j \in 0 .. ADDR_WIDTH, bin2gray(n)[j] # bin2gray(n + 1)[j]
  PROVE  i = j
<1>1. ASSUME NEW k \in 0 .. ADDR_WIDTH, bin2gray(n)[k] # bin2gray(n + 1)[k]
      PROVE  Carry(n, k) /\ (k < ADDR_WIDTH => ~Carry(n, k + 1))
  <2>1. k \in Nat /\ k + 1 \in Nat /\ ADDR_WIDTH \in Nat /\ n + 1 \in Nat
    BY DepthIsPower
  <2> DEFINE u == Upper(n, k)
             v == Upper(n + 1, k)
             uu == Upper(n, k + 1)
             vv == Upper(n + 1, k + 1)
  <2>2. /\ v \in {u, u + 1} /\ vv \in {uu, uu + 1} /\ u \in Nat
        /\ uu = u \div 2 /\ vv = v \div 2
    BY <2>1, Carries, UpperSteps
  <2>3. CASE k = ADDR_WIDTH
    <3>1. bin2gray(n)[k] = u % 2 /\ bin2gray(n + 1)[k] = v % 2
      BY <2>1, <2>3, CodeBits
    <3> HIDE DEF u, v
    <3>2. v = u + 1
      BY <1>1, <2>2, <3>1
    <3>3. QED
      BY <2>3, <3>2, <2>1 DEF Carry, u, v
  <2>4. CASE k # ADDR_WIDTH
    <3>1. k \in 0 .. ADDR_WIDTH - 1
      BY <2>1, <2>4
    <3>2. /\ bin2gray(n)[k] = ((uu % 2) + (u % 2)) % 2
          /\ bin2gray(n + 1)[k] = ((vv % 2) + (v % 2)) % 2
      BY <2>1, <3>1, CodeBits
    <3> HIDE DEF u, v, uu, vv
    <3>3. v = u + 1 /\ vv # uu + 1
      BY <1>1, <2>2, <3>2
    <3>4. QED
      BY <3>3 DEF Carry, u, v, uu, vv
  <2>5. QED
    BY <2>3, <2>4
<1>2. ASSUME NEW k \in 0 .. ADDR_WIDTH, NEW l \in 0 .. ADDR_WIDTH, k < l,
             Carry(n, k), k < ADDR_WIDTH => ~Carry(n, k + 1), Carry(n, l)
      PROVE  FALSE
  <2>1. l \in Nat /\ k + 1 \in 0 .. l /\ k < ADDR_WIDTH
    BY <1>2, DepthIsPower
  <2>2. QED
    BY <1>2, <2>1, CarriesBelow
<1>3. i < j \/ j < i \/ i = j
  BY DepthIsPower
<1>4. QED
  BY <1>1, <1>2, <1>3

LEMMA UpperOfZero == \A i \in Nat : Upper(0, i) = 0
<1> DEFINE Good == {i \in Nat : Upper(0, i) = 0}
<1>1. 0 \in Good /\ \A i \in Nat : i \in Good => i + 1 \in Good
  BY UpperSteps
<1> HIDE DEF Good
<1>2. \A i \in Nat : i \in Good
  BY <1>1, SetInduction
<1>3. QED
  BY <1>2 DEF Good

\* The bits that a pointer has of 2 * DEPTH are all zero.
LEMMA UpperOfTurn ==
  \A i \in 0 .. ADDR_WIDTH : Upper(2 * DEPTH, i) % 2 = 0
<1> DEFINE A == ADDR_WIDTH
           N == 2 * DEPTH
<1>1. A \in Nat /\ N \in Nat /\ N = Pow2[A + 1]
  BY DepthIsPower, Pow2Def DEF DEPTH
<1> HIDE DEF N
<1>2. Upper(N, 0) = N /\ \A i \in Nat : Upper(N, i + 1) = Upper(N, i) \div 2
  BY <1>1, UpperSteps
<1> DEFINE Good == {i \in Nat : i <= A => Upper(N, i) = Pow2[(A + 1) - i]}
<1>3. 0 \in Good
  BY <1>1, <1>2
<1>4. ASSUME NEW i \in Nat, i \in Good
      PROVE  i + 1 \in Good
  <2>1. SUFFICES ASSUME i + 1 <= A
                 PROVE  Upper(N, i + 1) = Pow2[(A + 1) - (i + 1)]
    OBVIOUS
  <2>2. (A + 1) - (i + 1) \in Nat /\ (A + 1) - i = ((A + 1) - (i + 1)) + 1
    BY <1>1, <2>1
  <2>3. Upper(N, i) = 2 * Pow2[(A + 1) - (i + 1)]
        /\ Pow2[(A + 1) - (i + 1)] \in Nat
    BY <1>1, <1>4, <2>1, <2>2, Pow2Def
  <2>4. QED
    BY <1>2, <2>3
<1> HIDE DEF Good
<1>5. \A i \in Nat : i \in Good
  BY <1>3, <1>4, SetInduction
<1>6. ASSUME NEW i \in 0 .. A
      PROVE  Upper(N, i) % 2 = 0
  <2>1. i \in Nat /\ i <= A /\ A - i \in Nat /\ (A + 1) - i = (A - i) + 1
    BY <1>1
  <2>2. Upper(N, i) = 2 * Pow2[A - i] /\ Pow2[A - i] \in Nat
    BY <1>5, <2>1, Pow2Def DEF Good
  <2>3. QED
    BY <2>2
<1>7. QED
  BY <1>6 DEF N

\* A pointer that turns starts over as if it counted on.
LEMMA CodeTurns == bin2gray(2 * DEPTH) = bin2gray(0)
<1> DEFINE N == 2 * DEPTH
<1>1. N \in Nat /\ 0 \in Nat /\ ADDR_WIDTH \in Nat
  BY DepthIsPower
<1>2. \A i \in 0 .. ADDR_WIDTH : Upper(N, i) % 2 = 0 /\ Upper(0, i) % 2 = 0
  <2>1. \A i \in 0 .. ADDR_WIDTH : i \in Nat
    BY <1>1
  <2>2. QED
    BY <2>1, UpperOfTurn, UpperOfZero
<1> HIDE DEF N
<1>3. bin2gray(N) \in Code /\ bin2gray(0) \in Code
  BY <1>1, CodeBits
<1>4. ASSUME NEW i \in 0 .. ADDR_WIDTH
      PROVE  bin2gray(N)[i] = bin2gray(0)[i]
  <2>1. CASE i = ADDR_WIDTH
    BY <1>1, <1>2, <2>1, CodeBits
  <2>2. CASE i # ADDR_WIDTH
    <3>1. i \in 0 .. ADDR_WIDTH - 1 /\ i + 1 \in 0 .. ADDR_WIDTH
      BY <1>1, <2>2
    <3>2. /\ bin2gray(N)[i] = ((Upper(N, i + 1) % 2) + (Upper(N, i) % 2)) % 2
          /\ bin2gray(0)[i] = ((Upper(0, i + 1) % 2) + (Upper(0, i) % 2)) % 2
      BY <1>1, <3>1, CodeBits
    <3>3. QED
      BY <1>2, <3>1, <3>2
  <2>3. QED
    BY <2>1, <2>2
<1>5. bin2gray(N) = bin2gray(0)
  BY <1>3, <1>4, SameCode
<1>6. QED
  BY <1>5 DEF N

LEMMA PlusOne ==
  ASSUME NEW p \in Ptr
  PROVE  /\ Plus1(p) = IF p = 2 * DEPTH - 1 THEN 0 ELSE p + 1
         /\ Plus1(p) \in Ptr
<1>1. DEPTH \in Nat \ {0} /\ p \in 0 .. 2 * DEPTH - 1
  BY DepthIsPower DEF Ptr
<1> DEFINE M == 2 * DEPTH
<1>2. M \in Nat \ {0} /\ p \in 0 .. M - 1
  BY <1>1
<1> HIDE DEF M
<1>3. CASE p = M - 1
  <2>1. p + 1 = M * 1 + 0 /\ p + 1 \in Nat /\ 0 < M
    BY <1>2, <1>3
  <2>2. (p + 1) % M = 0
    BY <1>2, <2>1, DivUnique
  <2>3. QED
    BY <1>1, <1>3, <2>2 DEF Plus1, M, Ptr
<1>4. CASE p # M - 1
  <2>1. p + 1 = M * 0 + (p + 1) /\ p + 1 \in Nat /\ p + 1 < M
    BY <1>2, <1>4
  <2>2. (p + 1) % M = p + 1
    BY <1>2, <2>1, DivUnique
  <2>3. QED
    BY <1>1, <1>4, <2>1, <2>2 DEF Plus1, M, Ptr
<1>5. QED
  BY <1>3, <1>4

\* However the bits of a changing code are caught, the code is the old one or
\* the new one.
THEOREM Caught ==
  ASSUME NEW p \in Ptr, NEW q \in {p, Plus1(p)},
         NEW g \in Sampled(bin2gray(p), bin2gray(q))
  PROVE  g \in {bin2gray(p), bin2gray(q)}
<1> DEFINE c == bin2gray(p)
           d == bin2gray(q)
<1>1. p \in Nat /\ q \in Ptr /\ q \in Nat
  BY PlusOne, DepthIsPower DEF Ptr
<1>2. c \in Code /\ d \in Code /\ g \in Code
      /\ \A i \in 0 .. ADDR_WIDTH : g[i] \in {c[i], d[i]}
  BY <1>1, CodeBits DEF Sampled, Code
<1>3. \A i, j \in 0 .. ADDR_WIDTH : c[i] # d[i] /\ c[j] # d[j] => i = j
  <2>1. CASE q = p
    BY <2>1
  <2>2. CASE q # p
    <3>1. d = bin2gray(p + 1)
      <4>1. CASE p = 2 * DEPTH - 1
        <5>1. q = 0 /\ p + 1 = 2 * DEPTH
          BY <2>2, <4>1, PlusOne, DepthIsPower
        <5>2. QED
          BY <5>1, CodeTurns
      <4>2. CASE p # 2 * DEPTH - 1
        BY <2>2, <4>2, PlusOne
      <4>3. QED
        BY <4>1, <4>2
    <3>2. QED
      BY <1>1, <3>1, OneBit
  <2>3. QED
    BY <2>1, <2>2
<1> HIDE DEF c, d
<1>4. CASE \A i \in 0 .. ADDR_WIDTH : c[i] = d[i]
  <2>1. \A i \in 0 .. ADDR_WIDTH : g[i] = c[i]
    BY <1>2, <1>4
  <2>2. g = c
    BY <1>2, <2>1, SameCode
  <2>3. QED
    BY <2>2 DEF c
<1>5. ASSUME NEW b \in 0 .. ADDR_WIDTH, c[b] # d[b]
      PROVE  g = c \/ g = d
  <2>1. \A i \in 0 .. ADDR_WIDTH : i # b => g[i] = c[i] /\ g[i] = d[i]
    BY <1>2, <1>3, <1>5
  <2>2. CASE g[b] = c[b]
    <3>1. \A i \in 0 .. ADDR_WIDTH : g[i] = c[i]
      BY <2>1, <2>2
    <3>2. QED
      BY <1>2, <3>1, SameCode
  <2>3. CASE g[b] = d[b]
    <3>1. \A i \in 0 .. ADDR_WIDTH : g[i] = d[i]
      BY <2>1, <2>3
    <3>2. QED
      BY <1>2, <3>1, SameCode
  <2>4. QED
    BY <1>2, <2>2, <2>3
<1>6. QED
  BY <1>4, <1>5 DEF c, d

-----------------------------------------------------------------------------
(***************************************************************************)
(* Pointers on their way.                                                  *)
(***************************************************************************)
\* How far the pointer b is in front of the pointer a.
Dist(a, b) == IF b >= a THEN b - a ELSE (b + 2 * DEPTH) - a

\* How far a code is behind its pointer.
Lag(ptr, g) == Dist(gray2bin(g), ptr)

Codes == {bin2gray(p) : p \in Ptr}

\* The codes of a pointer: each register is behind the one it takes from, none
\* further than most.
Crossing(ptr, gray, before, chain, most) ==
  /\ gray \in Codes /\ before \in Codes
  /\ Lag(ptr, gray) <= 1
  /\ Lag(ptr, before) \in {Lag(ptr, gray), Lag(ptr, gray) + 1}
  /\ \A i \in 1 .. SYNC_DEPTH :
       /\ chain[i] \in Codes
       /\ Lag(ptr, before) <= Lag(ptr, chain[i])
       /\ Lag(ptr, chain[i]) <= most
  /\ \A i, j \in 1 .. SYNC_DEPTH :
       i < j => Lag(ptr, chain[i]) <= Lag(ptr, chain[j])

\* The writing side sees the read pointer late, so it takes the FIFO for at
\* least as full as it is; the reading side takes it for at least as empty.
WriteInv ==
  /\ Crossing(out_rd_ptr, out_rd_ptr_gray, rd_gray_before, read_crosser,
              DEPTH - Held)
  /\ ~full => Held + Lag(out_rd_ptr, read_crosser[SYNC_DEPTH]) < DEPTH

ReadInv ==
  /\ Crossing(in_wr_ptr, in_wr_ptr_gray, wr_gray_before, write_crosser, Held)
  /\ ~empty => Lag(in_wr_ptr, write_crosser[SYNC_DEPTH]) < Held
  /\ ~empty => internal_out_payload = mem[out_rd_ptr % DEPTH]

FifoInv == TypeOK /\ WriteInv /\ ReadInv

LEMMA CodesRead ==
  ASSUME NEW g \in Codes
  PROVE  g \in Code /\ gray2bin(g) \in Ptr /\ bin2gray(gray2bin(g)) = g
<1>1. PICK p \in Ptr : g = bin2gray(p)
  BY DEF Codes
<1>2. p \in Nat
  BY DepthIsPower DEF Ptr
<1>3. QED
  BY <1>1, <1>2, CodeBits, RoundTrip

LEMMA Distances ==
  ASSUME NEW a \in Ptr, NEW b \in Ptr
  PROVE  /\ Dist(a, b) \in 0 .. 2 * DEPTH - 1
         /\ Dist(a, a) = 0
         /\ Plus1(b) # b
         /\ Dist(b, Plus1(b)) = 1
         /\ Dist(a, b) < 2 * DEPTH - 1 => Dist(a, Plus1(b)) = Dist(a, b) + 1
         /\ Dist(a, b) > 0 => Dist(Plus1(a), b) = Dist(a, b) - 1
  BY DepthIsPower, PlusOne DEF Ptr, Dist

\* A code that is one word further behind than another is the next one's.
LEMMA NextOfLag ==
  ASSUME NEW a \in Ptr, NEW b \in Ptr, NEW c \in Ptr,
         Dist(a, c) \in {Dist(b, c), Dist(b, c) + 1}
  PROVE  b \in {a, Plus1(a)}
  BY DepthIsPower, PlusOne DEF Ptr, Dist

\* A chain after a clock.
LEMMA ShiftedChain ==
  ASSUME NEW chain \in Seq(Code), Len(chain) = SYNC_DEPTH, NEW g \in Code
  PROVE  /\ Shifted(chain, g) \in Seq(Code)
         /\ Len(Shifted(chain, g)) = SYNC_DEPTH
         /\ \A i \in 1 .. SYNC_DEPTH :
              Shifted(chain, g)[i] = IF i = 1 THEN g ELSE chain[i - 1]
<1> DEFINE rest == SubSeq(chain, 1, SYNC_DEPTH - 1)
<1>1. SYNC_DEPTH \in Nat \ {0}
  BY DepthIsPower
<1>2. /\ rest \in Seq(Code) /\ Len(rest) = SYNC_DEPTH - 1
      /\ \A i \in 1 .. SYNC_DEPTH - 1 : rest[i] = chain[i]
  BY <1>1
<1>3. <<g>> \in Seq(Code) /\ Len(<<g>>) = 1 /\ <<g>>[1] = g
  OBVIOUS
<1> HIDE DEF rest
<1>4. /\ <<g>> \o rest \in Seq(Code)
      /\ Len(<<g>> \o rest) = 1 + Len(rest)
      /\ \A i \in 1 .. 1 + Len(rest) :
           (<<g>> \o rest)[i] = IF i <= 1 THEN <<g>>[i] ELSE rest[i - 1]
  BY <1>2, <1>3, ConcatProperties
<1>5. QED
  BY <1>1, <1>2, <1>3, <1>4 DEF Shifted, rest

\* The clock of the pointer: it may move on, its registers take from each other.
LEMMA OwnClock ==
  ASSUME NEW ptr \in Ptr, NEW gray, NEW before, NEW chain,
         NEW most \in 0 .. DEPTH, Crossing(ptr, gray, before, chain, most),
         NEW q \in {ptr, Plus1(ptr)}, q # ptr => most < DEPTH
  PROVE  LET step == IF q = ptr THEN 0 ELSE 1
         IN /\ Crossing(q, bin2gray(ptr), gray, chain, most + step)
            /\ Lag(q, chain[SYNC_DEPTH]) = Lag(ptr, chain[SYNC_DEPTH]) + step
<1> DEFINE step == IF q = ptr THEN 0 ELSE 1
<1>1. DEPTH \in Nat \ {0} /\ SYNC_DEPTH \in 1 .. SYNC_DEPTH
  BY DepthIsPower
<1>2. bin2gray(ptr) \in Codes /\ gray \in Codes /\ before \in Codes
      /\ \A i \in 1 .. SYNC_DEPTH : chain[i] \in Codes
  BY DEF Codes, Crossing
<1>3. \A g \in Codes : Lag(ptr, g) \in Nat
                       /\ (Lag(ptr, g) <= most => Lag(q, g) = Lag(ptr, g) + step)
  <2>1. SUFFICES ASSUME NEW g \in Codes
                 PROVE  /\ Lag(ptr, g) \in Nat
                        /\ Lag(ptr, g) <= most => Lag(q, g) = Lag(ptr, g) + step
    OBVIOUS
  <2>2. gray2bin(g) \in Ptr
    BY CodesRead
  <2>3. Lag(ptr, g) \in 0 .. 2 * DEPTH - 1
    BY <2>2, Distances DEF Lag
  <2>4. CASE q = ptr
    BY <1>1, <2>3, <2>4
  <2>5. CASE q # ptr
    <3>1. q = Plus1(ptr) /\ (Lag(ptr, g) < 2 * DEPTH - 1 => Lag(q, g) = Lag(ptr, g) + 1)
      BY <2>2, <2>5, Distances DEF Lag
    <3>2. QED
      BY <1>1, <2>3, <2>5, <3>1
  <2>6. QED
    BY <2>4, <2>5
<1>4. Lag(q, bin2gray(ptr)) = step
  <2>1. gray2bin(bin2gray(ptr)) = ptr
    BY RoundTrip
  <2>2. QED
    BY <2>1, Distances DEF Lag
<1>5. /\ Lag(ptr, gray) <= 1
      /\ Lag(ptr, before) \in {Lag(ptr, gray), Lag(ptr, gray) + 1}
      /\ \A i \in 1 .. SYNC_DEPTH : /\ Lag(ptr, before) <= Lag(ptr, chain[i])
                                    /\ Lag(ptr, chain[i]) <= most
      /\ \A i, j \in 1 .. SYNC_DEPTH :
           i < j => Lag(ptr, chain[i]) <= Lag(ptr, chain[j])
  BY DEF Crossing
<1>6. Lag(q, gray) = Lag(ptr, gray) + step /\ Lag(ptr, gray) \in 0 .. 1
  <2>1. /\ Lag(ptr, gray) \in Nat /\ Lag(ptr, before) \in Nat
        /\ Lag(ptr, chain[SYNC_DEPTH]) \in Nat
    BY <1>1, <1>2, <1>3
  <2>2. Lag(ptr, before) <= Lag(ptr, chain[SYNC_DEPTH])
        /\ Lag(ptr, chain[SYNC_DEPTH]) <= most
    BY <1>1, <1>5
  <2>3. Lag(ptr, gray) <= most
    BY <1>5, <2>1, <2>2
  <2>4. QED
    BY <1>2, <1>3, <1>5, <2>1, <2>3
<1>7. \A i \in 1 .. SYNC_DEPTH :
        Lag(ptr, chain[i]) \in Nat /\ Lag(q, chain[i]) = Lag(ptr, chain[i]) + step
  BY <1>1, <1>2, <1>3, <1>5
<1>8. step \in 0 .. 1
  OBVIOUS
<1> HIDE DEF step
<1>9. Lag(q, gray) \in {Lag(q, bin2gray(ptr)), Lag(q, bin2gray(ptr)) + 1}
  BY <1>4, <1>6, <1>8
<1>10. \A i \in 1 .. SYNC_DEPTH : /\ Lag(q, gray) <= Lag(q, chain[i])
                                  /\ Lag(q, chain[i]) <= most + step
  <2>1. Lag(ptr, before) \in Nat
    BY <1>2, <1>3
  <2>2. QED
    BY <1>5, <1>6, <1>7, <1>8, <2>1
<1>11. \A i, j \in 1 .. SYNC_DEPTH : i < j => Lag(q, chain[i]) <= Lag(q, chain[j])
  BY <1>5, <1>7, <1>8
<1>12. Crossing(q, bin2gray(ptr), gray, chain, most + step)
  BY <1>2, <1>4, <1>8, <1>9, <1>10, <1>11 DEF Crossing
<1>13. QED
  BY <1>1, <1>7, <1>12 DEF step

\* The other clock: the chain takes the code, which may be changing.
LEMMA OtherClock ==
  ASSUME NEW ptr \in Ptr, NEW gray, NEW before,
         NEW chain \in Seq(Code), Len(chain) = SYNC_DEPTH,
         NEW most, Crossing(ptr, gray, before, chain, most),
         NEW g \in Sampled(before, gray),
         NEW more \in Nat, Lag(ptr, chain[SYNC_DEPTH]) <= more
  PROVE  /\ Crossing(ptr, gray, gray, Shifted(chain, g), more)
         /\ Lag(ptr, Shifted(chain, g)[SYNC_DEPTH]) <= Lag(ptr, chain[SYNC_DEPTH])
         /\ Shifted(chain, g) \in Seq(Code)
         /\ Len(Shifted(chain, g)) = SYNC_DEPTH
<1> DEFINE next == Shifted(chain, g)
<1>1. SYNC_DEPTH \in Nat \ {0} /\ SYNC_DEPTH \in 1 .. SYNC_DEPTH
  BY DepthIsPower
<1>2. gray \in Codes /\ before \in Codes
      /\ \A i \in 1 .. SYNC_DEPTH : chain[i] \in Codes
  BY DEF Crossing
<1>3. g \in {before, gray}
  <2> DEFINE b == gray2bin(before)
             c == gray2bin(gray)
  <2>1. b \in Ptr /\ c \in Ptr /\ before = bin2gray(b) /\ gray = bin2gray(c)
    BY <1>2, CodesRead
  <2>2. Dist(b, ptr) \in {Dist(c, ptr), Dist(c, ptr) + 1}
    BY DEF Crossing, Lag
  <2> HIDE DEF b, c
  <2>3. c \in {b, Plus1(b)}
    BY <2>1, <2>2, NextOfLag
  <2>4. QED
    BY <2>1, <2>3, Caught
<1>4. g \in Codes /\ g \in Code
  BY <1>2, <1>3, CodesRead
<1>5. /\ next \in Seq(Code) /\ Len(next) = SYNC_DEPTH
      /\ \A i \in 1 .. SYNC_DEPTH : next[i] = IF i = 1 THEN g ELSE chain[i - 1]
  BY <1>4, ShiftedChain
<1> HIDE DEF next
<1>6. \A x \in Codes : Lag(ptr, x) \in Nat
  BY CodesRead, Distances DEF Lag
<1>7. /\ Lag(ptr, gray) <= 1
      /\ Lag(ptr, before) \in {Lag(ptr, gray), Lag(ptr, gray) + 1}
      /\ \A i \in 1 .. SYNC_DEPTH : Lag(ptr, before) <= Lag(ptr, chain[i])
      /\ \A i, j \in 1 .. SYNC_DEPTH :
           i < j => Lag(ptr, chain[i]) <= Lag(ptr, chain[j])
  BY DEF Crossing
<1>8. Lag(ptr, gray) <= Lag(ptr, g) /\ Lag(ptr, g) <= Lag(ptr, before)
  BY <1>2, <1>3, <1>6, <1>7
<1>9. \A i \in 1 .. SYNC_DEPTH :
        /\ next[i] \in Codes
        /\ Lag(ptr, gray) <= Lag(ptr, next[i])
        /\ Lag(ptr, next[i]) <= Lag(ptr, chain[i])
  <2>1. SUFFICES ASSUME NEW i \in 1 .. SYNC_DEPTH
                 PROVE  /\ next[i] \in Codes
                        /\ Lag(ptr, gray) <= Lag(ptr, next[i])
                        /\ Lag(ptr, next[i]) <= Lag(ptr, chain[i])
    OBVIOUS
  <2>2. Lag(ptr, gray) \in Nat /\ Lag(ptr, before) \in Nat /\ Lag(ptr, g) \in Nat
        /\ Lag(ptr, chain[i]) \in Nat
    BY <1>2, <1>4, <1>6
  <2>3. CASE i = 1
    <3>1. next[i] = g
      BY <1>5, <2>3
    <3>2. QED
      BY <1>4, <1>7, <1>8, <2>2, <3>1
  <2>4. CASE i # 1
    <3>1. i - 1 \in 1 .. SYNC_DEPTH /\ i - 1 < i /\ next[i] = chain[i - 1]
      BY <1>1, <1>5, <2>4
    <3>2. chain[i - 1] \in Codes /\ Lag(ptr, chain[i - 1]) \in Nat
      BY <1>2, <1>6, <3>1
    <3>3. QED
      BY <1>7, <2>2, <3>1, <3>2
  <2>5. QED
    BY <2>3, <2>4
<1>10. \A i, j \in 1 .. SYNC_DEPTH : i < j => Lag(ptr, next[i]) <= Lag(ptr, next[j])
  <2>1. SUFFICES ASSUME NEW i \in 1 .. SYNC_DEPTH, NEW j \in 1 .. SYNC_DEPTH, i < j
                 PROVE  Lag(ptr, next[i]) <= Lag(ptr, next[j])
    OBVIOUS
  <2>2. j # 1 /\ j - 1 \in 1 .. SYNC_DEPTH /\ next[j] = chain[j - 1]
    BY <1>1, <1>5, <2>1
  <2>3. Lag(ptr, next[i]) \in Nat /\ Lag(ptr, chain[i]) \in Nat
        /\ Lag(ptr, chain[j - 1]) \in Nat
    BY <1>2, <1>6, <1>9, <2>2
  <2>4. Lag(ptr, chain[i]) <= Lag(ptr, chain[j - 1])
    BY <1>7, <2>1, <2>2, <2>3
  <2>5. QED
    BY <1>9, <2>2, <2>3, <2>4
<1>11. ASSUME NEW i \in 1 .. SYNC_DEPTH
       PROVE  Lag(ptr, next[i]) <= more
  <2>1. Lag(ptr, next[i]) \in Nat /\ Lag(ptr, chain[i]) \in Nat
        /\ Lag(ptr, chain[SYNC_DEPTH]) \in Nat
    BY <1>1, <1>2, <1>6, <1>9
  <2>2. Lag(ptr, chain[i]) <= Lag(ptr, chain[SYNC_DEPTH])
    BY <1>1, <1>7, <2>1
  <2>3. QED
    BY <1>9, <2>1, <2>2
<1>12. Crossing(ptr, gray, gray, next, more)
  <2>1. Lag(ptr, gray) \in {Lag(ptr, gray), Lag(ptr, gray) + 1}
    OBVIOUS
  <2>2. QED
    BY <1>2, <1>7, <1>9, <1>10, <1>11, <2>1 DEF Crossing
<1>13. QED
  BY <1>1, <1>5, <1>9, <1>12 DEF next

-----------------------------------------------------------------------------
(***************************************************************************)
(* Full, empty and the addresses.                                          *)
(***************************************************************************)
LEMMA HeldBetween ==
  ASSUME NEW w \in Ptr, NEW r \in Ptr
  PROVE  (w + 2 * DEPTH - r) % (2 * DEPTH) = Dist(r, w)
<1> DEFINE M == 2 * DEPTH
           s == w + M - r
<1>1. M \in Nat \ {0} /\ w \in 0 .. M - 1 /\ r \in 0 .. M - 1
  BY DepthIsPower DEF Ptr
<1> HIDE DEF M
<1>2. CASE w >= r
  <2>1. s = M * 1 + (w - r) /\ s \in Nat /\ w - r \in Nat /\ w - r < M
    BY <1>1, <1>2
  <2> HIDE DEF s
  <2>2. s % M = w - r
    BY <1>1, <2>1, DivUnique
  <2>3. QED
    BY <1>2, <2>2 DEF Dist, M, s
<1>3. CASE ~(w >= r)
  <2>1. s = M * 0 + s /\ s \in Nat /\ s < M /\ s = (w + M) - r
    BY <1>1, <1>3
  <2> HIDE DEF s
  <2>2. s % M = s
    BY <1>1, <2>1, DivUnique
  <2>3. QED
    BY <1>3, <2>1, <2>2 DEF Dist, M, s
<1>4. QED
  BY <1>2, <1>3

LEMMA DistancesAdd ==
  ASSUME NEW a \in Ptr, NEW b \in Ptr, NEW c \in Ptr,
         Dist(a, b) + Dist(b, c) < 2 * DEPTH
  PROVE  Dist(a, c) = Dist(a, b) + Dist(b, c)
  BY DepthIsPower DEF Ptr, Dist

LEMMA SameDistance ==
  ASSUME NEW a \in Ptr, NEW b \in Ptr, NEW c \in Ptr, Dist(a, c) = Dist(b, c)
  PROVE  Dist(a, b) = 0
  BY DepthIsPower DEF Ptr, Dist

\* The address of a pointer, or of a word up to DEPTH behind one.
LEMMA Address ==
  ASSUME NEW s \in 0 .. 3 * DEPTH - 1
  PROVE  s % DEPTH = IF s < DEPTH THEN s
                     ELSE IF s < 2 * DEPTH THEN s - DEPTH ELSE s - 2 * DEPTH
<1>1. DEPTH \in Nat \ {0}
  BY DepthIsPower
<1>2. CASE s < DEPTH
  <2>1. s = DEPTH * 0 + s /\ s \in Nat
    BY <1>1
  <2>2. QED
    BY <1>1, <1>2, <2>1, DivUnique
<1>3. CASE s >= DEPTH /\ s < 2 * DEPTH
  <2>1. s = DEPTH * 1 + (s - DEPTH) /\ s \in Nat /\ s - DEPTH \in Nat
        /\ s - DEPTH < DEPTH
    BY <1>1, <1>3
  <2>2. s % DEPTH = s - DEPTH
    BY <1>1, <2>1, DivUnique
  <2>3. QED
    BY <1>1, <1>3, <2>2
<1>4. CASE s >= 2 * DEPTH
  <2>1. s = DEPTH * 2 + (s - 2 * DEPTH) /\ s \in Nat /\ s - 2 * DEPTH \in Nat
        /\ s - 2 * DEPTH < DEPTH
    BY <1>1, <1>4
  <2>2. s % DEPTH = s - 2 * DEPTH
    BY <1>1, <2>1, DivUnique
  <2>3. QED
    BY <1>1, <1>4, <2>2
<1>5. QED
  BY <1>1, <1>2, <1>3, <1>4

LEMMA PtrAddress ==
  ASSUME NEW p \in Ptr
  PROVE  p % DEPTH = (IF p < DEPTH THEN p ELSE p - DEPTH)
         /\ p % DEPTH \in 0 .. DEPTH - 1
<1>1. p \in 0 .. 3 * DEPTH - 1 /\ p < 2 * DEPTH /\ DEPTH \in Nat \ {0} /\ p \in Nat
  BY DepthIsPower DEF Ptr
<1>2. QED
  BY <1>1, Address

LEMMA FullMeans ==
  ASSUME NEW rd \in Ptr, NEW wr \in Ptr
  PROVE  FullAt(rd, wr) <=> Dist(rd, wr) = DEPTH
<1>1. DEPTH \in Nat \ {0} /\ rd \in 0 .. 2 * DEPTH - 1 /\ wr \in 0 .. 2 * DEPTH - 1
  BY DepthIsPower DEF Ptr
<1>2. rd % DEPTH = (IF rd < DEPTH THEN rd ELSE rd - DEPTH)
      /\ wr % DEPTH = (IF wr < DEPTH THEN wr ELSE wr - DEPTH)
  BY PtrAddress
<1>3. QED
  BY <1>1, <1>2 DEF FullAt, Dist

LEMMA EmptyMeans ==
  ASSUME NEW rd \in Ptr, NEW wr \in Ptr
  PROVE  EmptyAt(rd, wr) <=> Dist(rd, wr) = 0
  BY DepthIsPower DEF Ptr, EmptyAt, Dist

\* The words in the memory have addresses of their own, and that of the next
\* word is none of them.
LEMMA WordAddresses ==
  ASSUME NEW r \in Ptr, NEW w \in Ptr, NEW i \in 1 .. DEPTH
  PROVE  /\ (r + i - 1) % DEPTH \in 0 .. DEPTH - 1
         /\ Dist(r, w) < DEPTH /\ i <= Dist(r, w) => (r + i - 1) % DEPTH # w % DEPTH
         /\ Dist(r, w) < DEPTH /\ i = Dist(r, w) + 1 => (r + i - 1) % DEPTH = w % DEPTH
         /\ (Plus1(r) + i - 1) % DEPTH = (r + (i + 1) - 1) % DEPTH
<1>1. DEPTH \in Nat \ {0} /\ r \in 0 .. 2 * DEPTH - 1 /\ w \in 0 .. 2 * DEPTH - 1
  BY DepthIsPower DEF Ptr
<1> DEFINE s == r + i - 1
           t == r + (i + 1) - 1
           u == Plus1(r) + i - 1
<1>2. s \in 0 .. 3 * DEPTH - 1 /\ s = r + (i - 1) /\ t \in 0 .. 3 * DEPTH - 1
      /\ t = r + i
  BY <1>1
<1>3. u \in 0 .. 3 * DEPTH - 1
      /\ u = IF r = 2 * DEPTH - 1 THEN i - 1 ELSE r + i
  BY <1>1, PlusOne
<1> HIDE DEF s, t, u
<1>4. /\ s % DEPTH = IF s < DEPTH THEN s
                     ELSE IF s < 2 * DEPTH THEN s - DEPTH ELSE s - 2 * DEPTH
      /\ t % DEPTH = IF t < DEPTH THEN t
                     ELSE IF t < 2 * DEPTH THEN t - DEPTH ELSE t - 2 * DEPTH
      /\ u % DEPTH = IF u < DEPTH THEN u
                     ELSE IF u < 2 * DEPTH THEN u - DEPTH ELSE u - 2 * DEPTH
      /\ w % DEPTH = IF w < DEPTH THEN w ELSE w - DEPTH
  BY <1>2, <1>3, Address, PtrAddress
<1>5. s % DEPTH \in 0 .. DEPTH - 1
  BY <1>1, <1>2, <1>4
<1>6. Dist(r, w) < DEPTH /\ i <= Dist(r, w) => s % DEPTH # w % DEPTH
  BY <1>1, <1>2, <1>4 DEF Dist
<1>7. Dist(r, w) < DEPTH /\ i = Dist(r, w) + 1 => s % DEPTH = w % DEPTH
  BY <1>1, <1>2, <1>4 DEF Dist
<1>8. u % DEPTH = t % DEPTH
  BY <1>1, <1>2, <1>3, <1>4
<1>9. QED
  BY <1>5, <1>6, <1>7, <1>8 DEF s, t, u

-----------------------------------------------------------------------------
(***************************************************************************)
(* The invariant.                                                          *)
(***************************************************************************)
LEMMA FifoInitially == Init => FifoInv
<1> SUFFICES ASSUME Init
             PROVE  FifoInv
  OBVIOUS
<1>1. DEPTH \in Nat \ {0} /\ SYNC_DEPTH \in Nat \ {0} /\ Words \in Nat \ {0}
  BY DepthIsPower
<1>2. 0 \in Ptr
  BY <1>1 DEF Ptr
<1> DEFINE zero == bin2gray(0)
<1>3. zero \in Code /\ zero \in Codes /\ gray2bin(zero) = 0
  BY <1>2, RoundTrip, CodeBits DEF Codes
<1> HIDE DEF zero
<1>4. /\ in_wr_ptr = 0 /\ out_rd_ptr = 0
      /\ in_wr_ptr_gray = zero /\ out_rd_ptr_gray = zero
      /\ wr_gray_before = zero /\ rd_gray_before = zero
      /\ read_crosser = [i \in 1 .. SYNC_DEPTH |-> zero]
      /\ write_crosser = [i \in 1 .. SYNC_DEPTH |-> zero]
      /\ full = FALSE /\ empty = TRUE
      /\ internal_out_payload = 0 /\ out_valid = FALSE /\ out_payload = 0
      /\ mem = [a \in 0 .. DEPTH - 1 |-> 0]
      /\ in_data = 0
  BY DEF Init, zero
<1>5. Lag(0, zero) = 0 /\ Held = 0
  BY <1>2, <1>3, <1>4, Distances, HeldBetween DEF Lag, Held
<1>6. read_crosser \in Seq(Code) /\ Len(read_crosser) = SYNC_DEPTH
      /\ write_crosser \in Seq(Code) /\ Len(write_crosser) = SYNC_DEPTH
  BY <1>1, <1>3, <1>4
<1>7. TypeOK
  <2>1. mem \in [0 .. DEPTH - 1 -> 0 .. Words - 1]
    BY <1>1, <1>4
  <2>2. {internal_out_payload, out_payload, in_data} \subseteq 0 .. Words - 1
    BY <1>1, <1>4
  <2>3. Held <= DEPTH
    BY <1>1, <1>5
  <2>4. /\ in_wr_ptr \in Ptr /\ out_rd_ptr \in Ptr
        /\ in_wr_ptr_gray \in Code /\ out_rd_ptr_gray \in Code
        /\ wr_gray_before \in Code /\ rd_gray_before \in Code
        /\ full \in BOOLEAN /\ empty \in BOOLEAN /\ out_valid \in BOOLEAN
    BY <1>2, <1>3, <1>4
  <2>5. QED
    BY <1>6, <2>1, <2>2, <2>3, <2>4 DEF TypeOK
<1>8. \A i \in 1 .. SYNC_DEPTH : read_crosser[i] = zero /\ write_crosser[i] = zero
  BY <1>4
<1>9. Crossing(0, zero, zero, read_crosser, DEPTH)
      /\ Crossing(0, zero, zero, write_crosser, 0)
  BY <1>1, <1>3, <1>5, <1>8 DEF Crossing
<1>10. Lag(0, read_crosser[SYNC_DEPTH]) = 0
  BY <1>1, <1>5, <1>8
<1>11. WriteInv
  BY <1>1, <1>4, <1>5, <1>9, <1>10 DEF WriteInv
<1>12. ReadInv
  BY <1>1, <1>4, <1>5, <1>9 DEF ReadInv
<1>13. QED
  BY <1>7, <1>11, <1>12 DEF FifoInv

\* What the invariant says of the last registers of the two chains.
LEMMA Seen ==
  ASSUME FifoInv
  PROVE  /\ in_wr_ptr \in Ptr /\ out_rd_ptr \in Ptr
         /\ Held = Dist(out_rd_ptr, in_wr_ptr) /\ Held \in 0 .. DEPTH
         /\ DEPTH - Held \in 0 .. DEPTH
         /\ gray2bin(read_crosser[SYNC_DEPTH]) \in Ptr
         /\ gray2bin(write_crosser[SYNC_DEPTH]) \in Ptr
         /\ Lag(out_rd_ptr, read_crosser[SYNC_DEPTH]) \in 0 .. DEPTH - Held
         /\ Lag(in_wr_ptr, write_crosser[SYNC_DEPTH]) \in 0 .. Held
<1>1. in_wr_ptr \in Ptr /\ out_rd_ptr \in Ptr /\ Held <= DEPTH
  BY DEF FifoInv, TypeOK
<1>2. Held = Dist(out_rd_ptr, in_wr_ptr)
  BY <1>1, HeldBetween DEF Held
<1>3. Held \in 0 .. DEPTH /\ DEPTH - Held \in 0 .. DEPTH
  <2>1. Held \in 0 .. 2 * DEPTH - 1
    BY <1>1, <1>2, Distances
  <2>2. QED
    BY <1>1, <2>1, DepthIsPower
<1>4. SYNC_DEPTH \in 1 .. SYNC_DEPTH
  BY DepthIsPower
<1>5. read_crosser[SYNC_DEPTH] \in Codes /\ write_crosser[SYNC_DEPTH] \in Codes
      /\ Lag(out_rd_ptr, read_crosser[SYNC_DEPTH]) <= DEPTH - Held
      /\ Lag(in_wr_ptr, write_crosser[SYNC_DEPTH]) <= Held
  BY <1>4 DEF FifoInv, WriteInv, ReadInv, Crossing
<1>6. gray2bin(read_crosser[SYNC_DEPTH]) \in Ptr
      /\ gray2bin(write_crosser[SYNC_DEPTH]) \in Ptr
  BY <1>5, CodesRead
<1>7. Lag(out_rd_ptr, read_crosser[SYNC_DEPTH]) \in Nat
      /\ Lag(in_wr_ptr, write_crosser[SYNC_DEPTH]) \in Nat
  BY <1>1, <1>6, Distances, DepthIsPower DEF Lag
<1>8. QED
  BY <1>1, <1>2, <1>3, <1>5, <1>6, <1>7

\* An edge of in_clk, and what it does to the words held.
LEMMA InClockWrites ==
  ASSUME FifoInv, NEW b \in BOOLEAN, InClock(b)
  PROVE  LET write == b /\ ~full
         IN /\ in_wr_ptr' = IF write THEN Plus1(in_wr_ptr) ELSE in_wr_ptr
            /\ in_wr_ptr' \in Ptr /\ out_rd_ptr' = out_rd_ptr
            /\ Held' = IF write THEN Held + 1 ELSE Held
            /\ write => Held + Lag(out_rd_ptr, read_crosser[SYNC_DEPTH]) < DEPTH
<1> DEFINE write == b /\ ~full
<1>1. /\ in_wr_ptr' = IF write THEN Plus1(in_wr_ptr) ELSE in_wr_ptr
      /\ out_rd_ptr' = out_rd_ptr
  BY DEF InClock, outVars
<1>2. in_wr_ptr' \in Ptr
  BY <1>1, Seen, PlusOne
<1>3. write => Held + Lag(out_rd_ptr, read_crosser[SYNC_DEPTH]) < DEPTH
  BY DEF FifoInv, WriteInv
<1>4. Held' = Dist(out_rd_ptr, in_wr_ptr')
  BY <1>1, <1>2, Seen, HeldBetween DEF Held
<1>5. CASE write
  <2>1. Held < 2 * DEPTH - 1
    BY <1>3, <1>5, Seen, DepthIsPower
  <2>2. Dist(out_rd_ptr, Plus1(in_wr_ptr)) = Held + 1
    BY <2>1, Seen, Distances
  <2>3. QED
    BY <1>1, <1>2, <1>3, <1>4, <1>5, <2>2
<1>6. CASE ~write
  BY <1>1, <1>2, <1>4, <1>6, Seen
<1>7. QED
  BY <1>5, <1>6

LEMMA InClockKeeps ==
  ASSUME FifoInv, NEW b \in BOOLEAN, InClock(b)
  PROVE  FifoInv'
<1> DEFINE write == b /\ ~full
           L == Lag(out_rd_ptr, read_crosser[SYNC_DEPTH])
           rd == gray2bin(read_crosser[SYNC_DEPTH])
<1>1. /\ in_wr_ptr' = IF write THEN Plus1(in_wr_ptr) ELSE in_wr_ptr
      /\ in_wr_ptr' \in Ptr /\ out_rd_ptr' = out_rd_ptr
      /\ Held' = IF write THEN Held + 1 ELSE Held
      /\ write => Held + L < DEPTH
  BY InClockWrites
<1>2. /\ mem' = IF write THEN [mem EXCEPT ![in_wr_ptr % DEPTH] = in_data] ELSE mem
      /\ in_data' = IF write THEN (in_data + 1) % Words ELSE in_data
      /\ full' = FullAt(rd, in_wr_ptr')
      /\ wr_gray_before' = in_wr_ptr_gray
      /\ in_wr_ptr_gray' = bin2gray(in_wr_ptr)
      /\ rd_gray_before' = out_rd_ptr_gray
      /\ UNCHANGED <<out_rd_ptr, out_rd_ptr_gray, empty, write_crosser,
                     internal_out_payload, out_valid, out_payload>>
  BY DEF InClock, outVars
<1>3. PICK g \in Sampled(rd_gray_before, out_rd_ptr_gray) :
        read_crosser' = Shifted(read_crosser, g)
  BY DEF InClock
<1>4. /\ DEPTH \in Nat \ {0} /\ Words \in Nat \ {0}
      /\ in_wr_ptr \in Ptr /\ out_rd_ptr \in Ptr /\ rd \in Ptr
      /\ Held = Dist(out_rd_ptr, in_wr_ptr) /\ Held \in 0 .. DEPTH
      /\ L = Dist(rd, out_rd_ptr) /\ L \in 0 .. DEPTH - Held
  BY DepthIsPower, Seen DEF Lag
<1> HIDE DEF L, rd
<1>5. Held' \in 0 .. DEPTH /\ DEPTH - Held' \in Nat /\ L <= DEPTH - Held'
  BY <1>1, <1>4
<1>6. /\ Crossing(out_rd_ptr, out_rd_ptr_gray, out_rd_ptr_gray, read_crosser',
                  DEPTH - Held')
      /\ Lag(out_rd_ptr, read_crosser'[SYNC_DEPTH]) <= L
      /\ read_crosser' \in Seq(Code) /\ Len(read_crosser') = SYNC_DEPTH
  <2>1. /\ read_crosser \in Seq(Code) /\ Len(read_crosser) = SYNC_DEPTH
        /\ Crossing(out_rd_ptr, out_rd_ptr_gray, rd_gray_before, read_crosser,
                    DEPTH - Held)
    BY DEF FifoInv, TypeOK, WriteInv
  <2>2. Lag(out_rd_ptr, read_crosser[SYNC_DEPTH]) <= DEPTH - Held'
    BY <1>5 DEF L
  <2>3. QED
    BY <1>3, <1>4, <1>5, <2>1, <2>2, OtherClock DEF L
<1>7. ~full' => Held' + Lag(out_rd_ptr, read_crosser'[SYNC_DEPTH]) < DEPTH
  <2>1. Dist(out_rd_ptr, in_wr_ptr') = Held'
    BY <1>1, <1>4, HeldBetween DEF Held
  <2>2. Dist(rd, in_wr_ptr') = L + Held'
    BY <1>1, <1>4, <1>5, <2>1, DistancesAdd
  <2>3. ~full' => L + Held' # DEPTH
    BY <1>1, <1>2, <1>4, <2>2, FullMeans
  <2>4. Lag(out_rd_ptr, read_crosser'[SYNC_DEPTH]) \in Nat
    <3>1. SYNC_DEPTH \in 1 .. SYNC_DEPTH
      BY DepthIsPower
    <3>2. read_crosser'[SYNC_DEPTH] \in Codes
      BY <1>6, <3>1 DEF Crossing
    <3>3. QED
      BY <1>4, <3>2, CodesRead, Distances DEF Lag
  <2>5. QED
    BY <1>4, <1>5, <1>6, <2>3, <2>4
<1>8. WriteInv'
  BY <1>1, <1>2, <1>6, <1>7 DEF WriteInv
<1>9. /\ Crossing(in_wr_ptr', in_wr_ptr_gray', wr_gray_before', write_crosser', Held')
      /\ Lag(in_wr_ptr', write_crosser'[SYNC_DEPTH])
           = Lag(in_wr_ptr, write_crosser[SYNC_DEPTH]) + (Held' - Held)
  <2>1. Crossing(in_wr_ptr, in_wr_ptr_gray, wr_gray_before, write_crosser, Held)
    BY DEF FifoInv, ReadInv
  <2>2. in_wr_ptr' \in {in_wr_ptr, Plus1(in_wr_ptr)}
        /\ (in_wr_ptr' # in_wr_ptr => Held < DEPTH)
    BY <1>1, <1>4
  <2>3. Plus1(in_wr_ptr) # in_wr_ptr
    BY <1>4, Distances
  <2>4. Held' - Held = IF in_wr_ptr' = in_wr_ptr THEN 0 ELSE 1
    BY <1>1, <1>4, <2>3
  <2>5. Held' = Held + IF in_wr_ptr' = in_wr_ptr THEN 0 ELSE 1
    BY <1>1, <1>4, <2>3
  <2>6. QED
    BY <1>2, <1>4, <2>1, <2>2, <2>4, <2>5, OwnClock
<1>10. mem' \in [0 .. DEPTH - 1 -> 0 .. Words - 1] /\ in_data' \in 0 .. Words - 1
  <2>1. mem \in [0 .. DEPTH - 1 -> 0 .. Words - 1] /\ in_data \in 0 .. Words - 1
    BY DEF FifoInv, TypeOK
  <2>2. in_wr_ptr % DEPTH \in 0 .. DEPTH - 1
    BY <1>4, PtrAddress
  <2>3. (in_data + 1) % Words \in 0 .. Words - 1
    BY <1>4, <2>1
  <2>4. QED
    BY <1>2, <2>1, <2>2, <2>3
<1>11. ReadInv'
  <2>1. ~empty' => Lag(in_wr_ptr', write_crosser'[SYNC_DEPTH]) < Held'
    <3>1. ~empty => Lag(in_wr_ptr, write_crosser[SYNC_DEPTH]) < Held
      BY DEF FifoInv, ReadInv
    <3>2. QED
      BY <1>1, <1>2, <1>4, <1>9, <3>1, Seen
  <2>2. ~empty' => internal_out_payload' = mem'[out_rd_ptr' % DEPTH]
    <3>1. SUFFICES ASSUME ~empty
                   PROVE  mem'[out_rd_ptr % DEPTH] = mem[out_rd_ptr % DEPTH]
      BY <1>2 DEF FifoInv, ReadInv
    <3>2. Held > 0
      BY <1>4, <3>1, Seen DEF FifoInv, ReadInv
    <3>3. CASE write
      <4>1. Held < DEPTH /\ 1 \in 1 .. DEPTH /\ 1 <= Held
        BY <1>1, <1>4, <3>2, <3>3
      <4>2. (out_rd_ptr + 1 - 1) % DEPTH # in_wr_ptr % DEPTH
        BY <1>4, <4>1, WordAddresses
      <4>3. out_rd_ptr + 1 - 1 = out_rd_ptr
        BY <1>4 DEF Ptr
      <4>4. out_rd_ptr % DEPTH \in 0 .. DEPTH - 1
        BY <1>4, PtrAddress
      <4>5. mem \in [0 .. DEPTH - 1 -> 0 .. Words - 1]
        BY DEF FifoInv, TypeOK
      <4>6. QED
        BY <1>2, <3>3, <4>2, <4>3, <4>4, <4>5
    <3>4. CASE ~write
      BY <1>2, <3>4
    <3>5. QED
      BY <3>3, <3>4
  <2>3. QED
    BY <1>9, <2>1, <2>2 DEF ReadInv
<1>12. TypeOK'
  <2>1. bin2gray(in_wr_ptr) \in Code
    BY <1>4, CodeBits, DepthIsPower DEF Ptr
  <2>2. full' \in BOOLEAN
    BY <1>2 DEF FullAt
  <2>3. TypeOK
    BY DEF FifoInv
  <2>4. in_wr_ptr' \in Ptr /\ out_rd_ptr' \in Ptr /\ Held' <= DEPTH
    BY <1>1, <1>4, <1>5
  <2>5. /\ in_wr_ptr_gray' \in Code /\ out_rd_ptr_gray' \in Code
        /\ wr_gray_before' \in Code /\ rd_gray_before' \in Code
        /\ write_crosser' \in Seq(Code) /\ Len(write_crosser') = SYNC_DEPTH
        /\ empty' \in BOOLEAN /\ out_valid' \in BOOLEAN
        /\ {internal_out_payload', out_payload'} \subseteq 0 .. Words - 1
    BY <1>2, <2>1, <2>3 DEF TypeOK
  <2>6. QED
    BY <1>6, <1>10, <2>2, <2>4, <2>5 DEF TypeOK
<1>13. QED
  BY <1>8, <1>11, <1>12 DEF FifoInv

\* An edge of out_clk, and what it does to the words held.
LEMMA OutClockReads ==
  ASSUME FifoInv, NEW b \in BOOLEAN, OutClock(b)
  PROVE  LET read == (b \/ ~out_valid) /\ ~empty
         IN /\ out_rd_ptr' = IF read THEN Plus1(out_rd_ptr) ELSE out_rd_ptr
            /\ out_rd_ptr' \in Ptr /\ in_wr_ptr' = in_wr_ptr
            /\ Held' = IF read THEN Held - 1 ELSE Held
            /\ read => Lag(in_wr_ptr, write_crosser[SYNC_DEPTH]) < Held
<1> DEFINE read == (b \/ ~out_valid) /\ ~empty
<1>1. /\ out_rd_ptr' = IF read THEN Plus1(out_rd_ptr) ELSE out_rd_ptr
      /\ in_wr_ptr' = in_wr_ptr
  BY DEF OutClock, inVars
<1>2. out_rd_ptr' \in Ptr
  BY <1>1, Seen, PlusOne
<1>3. read => Lag(in_wr_ptr, write_crosser[SYNC_DEPTH]) < Held
  BY DEF FifoInv, ReadInv
<1>4. Held' = Dist(out_rd_ptr', in_wr_ptr)
  BY <1>1, <1>2, Seen, HeldBetween DEF Held
<1>5. CASE read
  <2>1. Held > 0
    BY <1>3, <1>5, Seen
  <2>2. Dist(Plus1(out_rd_ptr), in_wr_ptr) = Held - 1
    BY <2>1, Seen, Distances
  <2>3. QED
    BY <1>1, <1>2, <1>3, <1>4, <1>5, <2>2
<1>6. CASE ~read
  BY <1>1, <1>2, <1>4, <1>6, Seen
<1>7. QED
  BY <1>5, <1>6

LEMMA OutClockKeeps ==
  ASSUME FifoInv, NEW b \in BOOLEAN, OutClock(b)
  PROVE  FifoInv'
<1> DEFINE read == (b \/ ~out_valid) /\ ~empty
           L == Lag(in_wr_ptr, write_crosser[SYNC_DEPTH])
           wr == gray2bin(write_crosser[SYNC_DEPTH])
<1>1. /\ out_rd_ptr' = IF read THEN Plus1(out_rd_ptr) ELSE out_rd_ptr
      /\ out_rd_ptr' \in Ptr /\ in_wr_ptr' = in_wr_ptr
      /\ Held' = IF read THEN Held - 1 ELSE Held
      /\ read => L < Held
  BY OutClockReads
<1>2. /\ internal_out_payload' = mem[out_rd_ptr' % DEPTH]
      /\ IF b \/ ~out_valid
         THEN out_valid' = ~empty /\ out_payload' = internal_out_payload
         ELSE UNCHANGED <<out_valid, out_payload>>
      /\ empty' = EmptyAt(out_rd_ptr', wr)
      /\ rd_gray_before' = out_rd_ptr_gray
      /\ out_rd_ptr_gray' = bin2gray(out_rd_ptr)
      /\ wr_gray_before' = in_wr_ptr_gray
      /\ UNCHANGED <<in_wr_ptr, in_wr_ptr_gray, full, read_crosser, mem, in_data>>
  BY DEF OutClock, inVars
<1>3. PICK g \in Sampled(wr_gray_before, in_wr_ptr_gray) :
        write_crosser' = Shifted(write_crosser, g)
  BY DEF OutClock
<1>4. /\ DEPTH \in Nat \ {0} /\ Words \in Nat \ {0}
      /\ in_wr_ptr \in Ptr /\ out_rd_ptr \in Ptr /\ wr \in Ptr
      /\ Held = Dist(out_rd_ptr, in_wr_ptr) /\ Held \in 0 .. DEPTH
      /\ L = Dist(wr, in_wr_ptr) /\ L \in 0 .. Held
  BY DepthIsPower, Seen DEF Lag
<1> HIDE DEF L, wr
<1>5. Held' \in 0 .. DEPTH /\ L <= Held'
  BY <1>1, <1>4
<1>6. /\ Crossing(in_wr_ptr, in_wr_ptr_gray, in_wr_ptr_gray, write_crosser', Held')
      /\ Lag(in_wr_ptr, write_crosser'[SYNC_DEPTH]) <= L
      /\ write_crosser' \in Seq(Code) /\ Len(write_crosser') = SYNC_DEPTH
  <2>1. /\ write_crosser \in Seq(Code) /\ Len(write_crosser) = SYNC_DEPTH
        /\ Crossing(in_wr_ptr, in_wr_ptr_gray, wr_gray_before, write_crosser, Held)
    BY DEF FifoInv, TypeOK, ReadInv
  <2>2. Lag(in_wr_ptr, write_crosser[SYNC_DEPTH]) <= Held' /\ Held' \in Nat
    BY <1>5 DEF L
  <2>3. QED
    BY <1>3, <1>4, <2>1, <2>2, OtherClock DEF L
<1>7. ~empty' => Lag(in_wr_ptr, write_crosser'[SYNC_DEPTH]) < Held'
  <2>1. Dist(out_rd_ptr', in_wr_ptr) = Held'
    BY <1>1, <1>4, HeldBetween DEF Held
  <2>2. L = Held' => Dist(out_rd_ptr', wr) = 0
    BY <1>1, <1>4, <2>1, SameDistance DEF L
  <2>3. ~empty' => L # Held'
    BY <1>1, <1>2, <1>4, <2>2, EmptyMeans
  <2>4. Lag(in_wr_ptr, write_crosser'[SYNC_DEPTH]) \in Nat
    <3>1. SYNC_DEPTH \in 1 .. SYNC_DEPTH
      BY DepthIsPower
    <3>2. write_crosser'[SYNC_DEPTH] \in Codes
      BY <1>6, <3>1 DEF Crossing
    <3>3. QED
      BY <1>4, <3>2, CodesRead, Distances, DepthIsPower DEF Lag
  <2>5. QED
    BY <1>4, <1>5, <1>6, <2>3, <2>4
<1>8. mem \in [0 .. DEPTH - 1 -> 0 .. Words - 1]
      /\ out_rd_ptr' % DEPTH \in 0 .. DEPTH - 1
  BY <1>1, PtrAddress DEF FifoInv, TypeOK
<1>9. ReadInv'
  BY <1>1, <1>2, <1>6, <1>7 DEF ReadInv
<1>10. /\ Crossing(out_rd_ptr', out_rd_ptr_gray', rd_gray_before', read_crosser',
                   DEPTH - Held')
       /\ Lag(out_rd_ptr', read_crosser'[SYNC_DEPTH])
            = Lag(out_rd_ptr, read_crosser[SYNC_DEPTH]) + (Held - Held')
  <2>1. Crossing(out_rd_ptr, out_rd_ptr_gray, rd_gray_before, read_crosser,
                 DEPTH - Held)
    BY DEF FifoInv, WriteInv
  <2>2. out_rd_ptr' \in {out_rd_ptr, Plus1(out_rd_ptr)}
        /\ (out_rd_ptr' # out_rd_ptr => DEPTH - Held < DEPTH)
        /\ DEPTH - Held \in 0 .. DEPTH
    BY <1>1, <1>4
  <2>3. Plus1(out_rd_ptr) # out_rd_ptr
    BY <1>4, Distances
  <2>4. Held - Held' = IF out_rd_ptr' = out_rd_ptr THEN 0 ELSE 1
    BY <1>1, <1>4, <2>3
  <2>5. DEPTH - Held' = (DEPTH - Held) + IF out_rd_ptr' = out_rd_ptr THEN 0 ELSE 1
    BY <1>1, <1>4, <2>3
  <2>6. QED
    BY <1>2, <1>4, <2>1, <2>2, <2>4, <2>5, OwnClock
<1>11. WriteInv'
  <2>1. ~full => Held + Lag(out_rd_ptr, read_crosser[SYNC_DEPTH]) < DEPTH
    BY DEF FifoInv, WriteInv
  <2>2. ~full' => Held' + Lag(out_rd_ptr', read_crosser'[SYNC_DEPTH]) < DEPTH
    BY <1>2, <1>4, <1>5, <1>10, <2>1, Seen
  <2>3. QED
    BY <1>10, <2>2 DEF WriteInv
<1>12. TypeOK'
  <2>1. bin2gray(out_rd_ptr) \in Code
    BY <1>4, CodeBits, DepthIsPower DEF Ptr
  <2>2. empty' \in BOOLEAN
    BY <1>2 DEF EmptyAt
  <2>3. TypeOK
    BY DEF FifoInv
  <2>4. in_wr_ptr' \in Ptr /\ out_rd_ptr' \in Ptr /\ Held' <= DEPTH
    BY <1>1, <1>4, <1>5
  <2>5. {internal_out_payload', out_payload', in_data'} \subseteq 0 .. Words - 1
    BY <1>2, <1>8, <2>3 DEF TypeOK
  <2>6. out_valid' \in BOOLEAN
    BY <1>2, <2>3 DEF TypeOK
  <2>7. /\ in_wr_ptr_gray' \in Code /\ out_rd_ptr_gray' \in Code
        /\ wr_gray_before' \in Code /\ rd_gray_before' \in Code
        /\ read_crosser' \in Seq(Code) /\ Len(read_crosser') = SYNC_DEPTH
        /\ full' \in BOOLEAN /\ mem' \in [0 .. DEPTH - 1 -> 0 .. Words - 1]
    BY <1>2, <1>8, <2>1, <2>3 DEF TypeOK
  <2>8. QED
    BY <1>6, <2>2, <2>4, <2>5, <2>6, <2>7 DEF TypeOK
<1>13. QED
  BY <1>9, <1>11, <1>12 DEF FifoInv

LEMMA FifoStep == FifoInv /\ [Next]_vars => FifoInv'
<1> SUFFICES ASSUME FifoInv, [Next]_vars
             PROVE  FifoInv'
  OBVIOUS
<1>1. CASE Next
  BY <1>1, InClockKeeps, OutClockKeeps DEF Next
<1>2. CASE UNCHANGED vars
  BY <1>2 DEF vars, inVars, outVars, FifoInv, TypeOK, WriteInv, ReadInv, Held
<1>3. QED
  BY <1>1, <1>2

\* Neither side of altera_avalon_dc_fifo.v writes over a word that has not been
\* read, nor reads one that has not been written, whatever it catches of the
\* other's pointer.
THEOREM FifoTypes == Spec => []TypeOK
<1>1. FifoInv => TypeOK
  BY DEF FifoInv
<1>2. QED
  BY <1>1, FifoInitially, FifoStep, PTL DEF Spec

-----------------------------------------------------------------------------
(***************************************************************************)
(* The refinement.                                                         *)
(***************************************************************************)
Word == 0 .. Words - 1

\* The words in the memory, and the one in the output register.
Stored == [i \in 1 .. Held |-> mem[(out_rd_ptr + i - 1) % DEPTH]]
Offered == IF out_valid THEN <<out_payload>> ELSE <<>>

LEMMA SeqOf ==
  ASSUME NEW S, NEW n \in Nat, NEW s, s = [i \in 1 .. n |-> s[i]],
         \A i \in 1 .. n : s[i] \in S
  PROVE  s \in Seq(S) /\ Len(s) = n
<1>1. s \in [1 .. n -> S]
  OBVIOUS
<1>2. QED
  BY <1>1

LEMMA StoredSeq ==
  ASSUME NEW r \in Ptr, NEW h \in 0 .. DEPTH, NEW m, NEW s,
         m \in [0 .. DEPTH - 1 -> Word],
         s = [i \in 1 .. h |-> m[(r + i - 1) % DEPTH]]
  PROVE  /\ s \in Seq(Word) /\ Len(s) = h
         /\ \A i \in 1 .. h : s[i] = m[(r + i - 1) % DEPTH]
<1>1. h \in Nat /\ \A i \in 1 .. h : i \in 1 .. DEPTH
  BY DepthIsPower
<1>2. \A i \in 1 .. h : m[(r + i - 1) % DEPTH] \in Word
  <2>1. \A i \in 1 .. h : (r + i - 1) % DEPTH \in 0 .. DEPTH - 1
    BY <1>1, WordAddresses
  <2>2. QED
    BY <2>1
<1>3. \A i \in 1 .. h : s[i] = m[(r + i - 1) % DEPTH]
  BY Zenon
<1>4. s = [i \in 1 .. h |-> s[i]]
  BY <1>3, Zenon
<1>5. \A i \in 1 .. h : s[i] \in Word
  BY <1>2, <1>3
<1>6. s \in Seq(Word) /\ Len(s) = h
  BY <1>1, <1>4, <1>5, SeqOf
<1>7. QED
  BY <1>3, <1>6

LEMMA StoredIs ==
  FifoInv => /\ Contents = Offered \o Stored
             /\ Stored \in Seq(Word) /\ Len(Stored) = Held
             /\ \A i \in 1 .. Held : Stored[i] = mem[(out_rd_ptr + i - 1) % DEPTH]
             /\ Offered \in Seq(Word) /\ Len(Offered) \in 0 .. 1
<1> SUFFICES ASSUME FifoInv
             PROVE  /\ Contents = Offered \o Stored
                    /\ Stored \in Seq(Word) /\ Len(Stored) = Held
                    /\ \A i \in 1 .. Held :
                         Stored[i] = mem[(out_rd_ptr + i - 1) % DEPTH]
                    /\ Offered \in Seq(Word) /\ Len(Offered) \in 0 .. 1
  OBVIOUS
<1>1. Held \in 0 .. DEPTH /\ out_rd_ptr \in Ptr
  BY Seen
<1>2. mem \in [0 .. DEPTH - 1 -> Word] /\ out_payload \in Word
  BY DEF FifoInv, TypeOK, Word
<1>3. /\ Stored \in Seq(Word) /\ Len(Stored) = Held
      /\ \A i \in 1 .. Held : Stored[i] = mem[(out_rd_ptr + i - 1) % DEPTH]
  <2>1. Stored = [i \in 1 .. Held |-> mem[(out_rd_ptr + i - 1) % DEPTH]]
    BY DEF Stored
  <2>2. QED
    BY <1>1, <1>2, <2>1, StoredSeq, Zenon
<1>4. Offered \in Seq(Word) /\ Len(Offered) \in 0 .. 1
  BY <1>2 DEF Offered
<1>5. Contents = Offered \o Stored
  BY DEF Contents, Offered, Stored
<1>6. QED
  BY <1>3, <1>4, <1>5

LEMMA StoredAfter ==
  FifoInv' => (/\ Contents = Offered \o Stored
               /\ Stored \in Seq(Word) /\ Len(Stored) = Held
               /\ \A i \in 1 .. Held : Stored[i] = mem[(out_rd_ptr + i - 1) % DEPTH]
               /\ Offered \in Seq(Word) /\ Len(Offered) \in 0 .. 1)'
  BY StoredIs, PTL

LEMMA AppendBehind ==
  ASSUME NEW S, NEW s \in Seq(S), NEW t \in Seq(S), NEW x \in S
  PROVE  s \o Append(t, x) = Append(s \o t, x)
<1>1. <<x>> \in Seq(S)
  OBVIOUS
<1>2. Append(t, x) = t \o <<x>> /\ Append(s \o t, x) = (s \o t) \o <<x>>
  BY AppendIsConcat
<1>3. QED
  BY <1>1, <1>2, ConcatAssociative

\* An edge of in_clk puts the word it writes into the queue.
LEMMA InClockPuts ==
  ASSUME FifoInv, NEW b \in BOOLEAN, InClock(b)
  PROVE  (\E w \in Word : Queue!Put(w)) \/ Contents' = Contents
<1>1. FifoInv'
  BY InClockKeeps
<1> DEFINE write == b /\ ~full
<1>2. /\ out_rd_ptr' = out_rd_ptr /\ out_valid' = out_valid
      /\ out_payload' = out_payload
      /\ Held' = IF write THEN Held + 1 ELSE Held
      /\ write => Held < DEPTH
      /\ mem' = IF write THEN [mem EXCEPT ![in_wr_ptr % DEPTH] = in_data] ELSE mem
  <2>1. /\ out_valid' = out_valid /\ out_payload' = out_payload
        /\ mem' = IF write THEN [mem EXCEPT ![in_wr_ptr % DEPTH] = in_data] ELSE mem
    BY DEF InClock, outVars
  <2>2. /\ out_rd_ptr' = out_rd_ptr
        /\ Held' = IF write THEN Held + 1 ELSE Held
        /\ write => Held + Lag(out_rd_ptr, read_crosser[SYNC_DEPTH]) < DEPTH
    BY InClockWrites
  <2>3. QED
    BY <2>1, <2>2, Seen, DepthIsPower
<1>3. Offered' = Offered
  BY <1>2 DEF Offered
<1>4. CASE ~write
  BY <1>2, <1>4 DEF Contents
<1>5. CASE write
  <2>1. /\ in_wr_ptr \in Ptr /\ out_rd_ptr \in Ptr /\ DEPTH \in Nat \ {0}
        /\ Held = Dist(out_rd_ptr, in_wr_ptr) /\ Held \in Nat /\ Held < DEPTH
        /\ in_wr_ptr % DEPTH \in 0 .. DEPTH - 1
    BY <1>2, <1>5, Seen, PtrAddress, DepthIsPower
  <2>2. mem \in [0 .. DEPTH - 1 -> Word] /\ in_data \in Word
    BY DEF FifoInv, TypeOK, Word
  <2>3. /\ Contents = Offered \o Stored /\ Contents' = Offered \o Stored'
        /\ Stored \in Seq(Word) /\ Len(Stored) = Held
        /\ \A i \in 1 .. Held : Stored[i] = mem[(out_rd_ptr + i - 1) % DEPTH]
        /\ Stored' \in Seq(Word) /\ Len(Stored') = Held'
        /\ \A i \in 1 .. Held' : Stored'[i] = mem'[(out_rd_ptr + i - 1) % DEPTH]
        /\ Offered \in Seq(Word) /\ Len(Offered) <= 1
    <3>1. /\ Contents = Offered \o Stored
          /\ Stored \in Seq(Word) /\ Len(Stored) = Held
          /\ \A i \in 1 .. Held : Stored[i] = mem[(out_rd_ptr + i - 1) % DEPTH]
          /\ Offered \in Seq(Word) /\ Len(Offered) <= 1
      BY StoredIs
    <3>2. /\ Contents' = Offered' \o Stored'
          /\ Stored' \in Seq(Word) /\ Len(Stored') = Held'
          /\ \A i \in 1 .. Held' : Stored'[i] = mem'[(out_rd_ptr' + i - 1) % DEPTH]
      BY <1>1, StoredAfter
    <3>3. QED
      BY <1>2, <1>3, <3>1, <3>2
  <2>4. ASSUME NEW i \in 1 .. Held + 1
        PROVE  Stored'[i] = Append(Stored, in_data)[i]
    <3>1. i \in 1 .. DEPTH /\ i \in 1 .. Held' /\ (i \in 1 .. Held \/ i = Held + 1)
      BY <1>2, <1>5, <2>1
    <3>2. (out_rd_ptr + i - 1) % DEPTH \in 0 .. DEPTH - 1
          /\ (i <= Held => (out_rd_ptr + i - 1) % DEPTH # in_wr_ptr % DEPTH)
          /\ (i = Held + 1 => (out_rd_ptr + i - 1) % DEPTH = in_wr_ptr % DEPTH)
      BY <2>1, <3>1, WordAddresses
    <3>3. Stored'[i] = mem'[(out_rd_ptr + i - 1) % DEPTH]
      BY <2>3, <3>1
    <3>4. mem'[(out_rd_ptr + i - 1) % DEPTH]
            = IF i = Held + 1 THEN in_data ELSE mem[(out_rd_ptr + i - 1) % DEPTH]
      BY <1>2, <1>5, <2>1, <2>2, <3>1, <3>2
    <3>5. Append(Stored, in_data)[i]
            = IF i = Held + 1 THEN in_data ELSE Stored[i]
      BY <2>1, <2>2, <2>3, <3>1, AppendProperties
    <3>6. CASE i = Held + 1
      BY <3>3, <3>4, <3>5, <3>6
    <3>7. CASE i # Held + 1
      BY <2>3, <3>1, <3>3, <3>4, <3>5, <3>7
    <3>8. QED
      BY <3>6, <3>7
  <2>5. Stored' = Append(Stored, in_data)
    <3>1. Append(Stored, in_data) \in Seq(Word)
          /\ Len(Append(Stored, in_data)) = Held + 1
      BY <2>2, <2>3, AppendProperties
    <3>2. Len(Stored') = Held + 1
      BY <1>2, <1>5, <2>3
    <3>3. QED
      BY <2>3, <2>4, <3>1, <3>2, SeqEqual
  <2>6. Contents' = Append(Contents, in_data)
    BY <2>2, <2>3, <2>5, AppendBehind
  <2>7. Len(Contents) < DEPTH + 1
    <3>1. Len(Contents) = Len(Offered) + Len(Stored)
      BY <2>3
    <3>2. QED
      BY <2>1, <2>3, <3>1
  <2>8. Queue!Put(in_data)
    BY <2>6, <2>7 DEF Queue!Put
  <2>9. QED
    BY <2>2, <2>8
<1>6. QED
  BY <1>4, <1>5

\* An edge of out_clk takes the word of the output register from the queue.
LEMMA OutClockGets ==
  ASSUME FifoInv, NEW b \in BOOLEAN, OutClock(b)
  PROVE  Queue!Get \/ Contents' = Contents
<1>1. FifoInv'
  BY OutClockKeeps
<1> DEFINE ready == b \/ ~out_valid
<1>2. /\ mem' = mem
      /\ IF ready
         THEN out_valid' = ~empty /\ out_payload' = internal_out_payload
         ELSE UNCHANGED <<out_valid, out_payload>>
  BY DEF OutClock, inVars
<1>3. LET read == ready /\ ~empty
      IN /\ out_rd_ptr' = IF read THEN Plus1(out_rd_ptr) ELSE out_rd_ptr
         /\ Held' = IF read THEN Held - 1 ELSE Held
         /\ read => Held > 0
  <2>1. LET read == ready /\ ~empty
        IN /\ out_rd_ptr' = IF read THEN Plus1(out_rd_ptr) ELSE out_rd_ptr
           /\ Held' = IF read THEN Held - 1 ELSE Held
           /\ read => Lag(in_wr_ptr, write_crosser[SYNC_DEPTH]) < Held
    BY OutClockReads
  <2>2. QED
    BY <2>1, Seen
<1>4. /\ Contents = Offered \o Stored
      /\ Stored \in Seq(Word) /\ Len(Stored) = Held
      /\ \A i \in 1 .. Held : Stored[i] = mem[(out_rd_ptr + i - 1) % DEPTH]
      /\ Offered \in Seq(Word)
  BY StoredIs
<1>5. /\ Contents' = Offered' \o Stored'
      /\ Stored' \in Seq(Word) /\ Len(Stored') = Held'
      /\ \A i \in 1 .. Held' : Stored'[i] = mem[(out_rd_ptr' + i - 1) % DEPTH]
      /\ Offered' \in Seq(Word)
  BY <1>1, <1>2, StoredAfter
<1>6. CASE ~ready
  BY <1>2, <1>3, <1>6 DEF Contents
<1>7. CASE ready
  <2>1. Contents' = Stored
    <3>1. CASE empty
      <4>1. Offered' = <<>> /\ Stored' = Stored
        BY <1>2, <1>3, <1>7, <3>1 DEF Offered, Stored
      <4>2. QED
        BY <1>4, <1>5, <4>1, ConcatEmptySeq
    <3>2. CASE ~empty
      <4>1. /\ Held > 0 /\ Held' = Held - 1 /\ out_rd_ptr' = Plus1(out_rd_ptr)
            /\ out_rd_ptr \in Ptr /\ in_wr_ptr \in Ptr
            /\ Held \in Nat /\ Held <= DEPTH /\ DEPTH \in Nat \ {0}
        BY <1>3, <1>7, <3>2, Seen, DepthIsPower
      <4>2. Offered' = <<internal_out_payload>>
        BY <1>2, <1>7, <3>2 DEF Offered
      <4>3. internal_out_payload \in Word
        BY DEF FifoInv, TypeOK, Word
      <4>4. internal_out_payload = Stored[1]
        <5>1. internal_out_payload = mem[out_rd_ptr % DEPTH]
          BY <3>2 DEF FifoInv, ReadInv
        <5>2. out_rd_ptr + 1 - 1 = out_rd_ptr /\ 1 \in 1 .. Held
          BY <4>1, DepthIsPower DEF Ptr
        <5>3. QED
          BY <1>4, <5>1, <5>2
      <4>5. ASSUME NEW i \in 1 .. Held - 1
            PROVE  Stored'[i] = Stored[i + 1]
        <5>1. i \in 1 .. Held' /\ i \in 1 .. DEPTH /\ i + 1 \in 1 .. Held
          BY <4>1
        <5>2. (Plus1(out_rd_ptr) + i - 1) % DEPTH
                = (out_rd_ptr + (i + 1) - 1) % DEPTH
          BY <4>1, <5>1, WordAddresses
        <5>3. QED
          BY <1>4, <1>5, <4>1, <5>1, <5>2
      <4>6. /\ Offered' \o Stored' \in Seq(Word)
            /\ Len(Offered' \o Stored') = 1 + Len(Stored')
            /\ \A i \in 1 .. 1 + Len(Stored') :
                 (Offered' \o Stored')[i] =
                   IF i <= 1 THEN Offered'[i] ELSE Stored'[i - 1]
        <5>1. Len(Offered') = 1
          BY <4>2
        <5>2. Len(Stored') \in Nat /\ Offered' \in Seq(Word) /\ Stored' \in Seq(Word)
          BY <1>5
        <5>3. /\ Offered' \o Stored' \in Seq(Word)
              /\ Len(Offered' \o Stored') = Len(Offered') + Len(Stored')
              /\ \A i \in 1 .. Len(Offered') + Len(Stored') :
                   (Offered' \o Stored')[i] =
                     IF i <= Len(Offered') THEN Offered'[i]
                     ELSE Stored'[i - Len(Offered')]
          BY <5>2, ConcatProperties
        <5>4. QED
          BY <5>1, <5>2, <5>3
      <4>7. ASSUME NEW i \in 1 .. Held
            PROVE  (Offered' \o Stored')[i] = Stored[i]
        <5>1. CASE i = 1
          <6>1. Offered'[1] = internal_out_payload
            BY <4>2
          <6>2. QED
            BY <1>5, <4>1, <4>4, <4>6, <5>1, <6>1
        <5>2. CASE i # 1
          <6>1. i - 1 \in 1 .. Held - 1 /\ (i - 1) + 1 = i /\ ~(i <= 1)
                /\ i \in 1 .. 1 + Len(Stored')
            BY <1>5, <4>1, <5>2
          <6>2. Stored'[i - 1] = Stored[i]
            BY <4>5, <6>1
          <6>3. QED
            BY <4>6, <6>1, <6>2
        <5>3. QED
          BY <5>1, <5>2
      <4>8. Len(Offered' \o Stored') = Held
        BY <1>5, <4>1, <4>6
      <4>9. QED
        BY <1>4, <1>5, <4>6, <4>7, <4>8, SeqEqual
    <3>3. QED
      BY <3>1, <3>2
  <2>2. CASE ~out_valid
    <3>1. Offered = <<>>
      BY <2>2 DEF Offered
    <3>2. QED
      BY <1>4, <2>1, <3>1, ConcatEmptySeq
  <2>3. CASE out_valid
    <3>1. Offered = <<out_payload>> /\ Len(Offered) = 1
      BY <2>3 DEF Offered
    <3>2. /\ Contents \in Seq(Word) /\ Len(Contents) = 1 + Len(Stored)
          /\ \A i \in 1 .. 1 + Len(Stored) :
               Contents[i] = IF i <= 1 THEN Offered[i] ELSE Stored[i - 1]
      BY <1>4, <3>1, ConcatProperties
    <3>3. /\ SubSeq(Contents, 2, Len(Contents)) \in Seq(Word)
          /\ Len(SubSeq(Contents, 2, Len(Contents))) = Len(Stored)
          /\ \A i \in 1 .. Len(Stored) :
               SubSeq(Contents, 2, Len(Contents))[i] = Stored[i]
      BY <1>4, <3>2
    <3>4. SubSeq(Contents, 2, Len(Contents)) = Stored
      BY <1>4, <3>3, SeqEqual
    <3>5. Len(Contents) >= 1
      BY <1>4, <3>2
    <3>6. Queue!Get
      <4>1. 1 + 1 = 2
        OBVIOUS
      <4>2. QED
        BY <2>1, <3>4, <3>5, <4>1 DEF Queue!Get
    <3>7. QED
      BY <3>6
  <2>4. QED
    BY <2>2, <2>3
<1>8. QED
  BY <1>6, <1>7

\* altera_avalon_dc_fifo.v is a queue of one word more than its memory holds,
\* whatever the widths of its pointers, the length of its synchroniser chains and
\* the order of the edges of its two clocks: no word is lost, repeated or
\* reordered.
THEOREM FifoRefinesQueue == Spec => IsQueue
<1>1. Init => Contents = <<>>
  <2>1. SUFFICES ASSUME Init
                 PROVE  Contents = <<>>
    OBVIOUS
  <2>2. Held = 0 /\ FifoInv
    <3>1. 0 \in Ptr /\ in_wr_ptr = 0 /\ out_rd_ptr = 0
      BY <2>1, DepthIsPower DEF Init, Ptr
    <3>2. QED
      BY <2>1, <3>1, HeldBetween, Distances, FifoInitially DEF Held
  <2>3. Contents = Offered \o Stored /\ Stored \in Seq(Word) /\ Len(Stored) = 0
    BY <2>2, StoredIs
  <2>4. Stored = <<>> /\ Offered = <<>>
    BY <2>1, <2>3 DEF Init, Offered
  <2>5. QED
    BY <2>3, <2>4
<1>2. FifoInv /\ [Next]_vars
        => (\E w \in Word : Queue!Put(w)) \/ Queue!Get \/ Contents' = Contents
  <2>1. SUFFICES ASSUME FifoInv, [Next]_vars
                 PROVE  (\E w \in Word : Queue!Put(w)) \/ Queue!Get
                        \/ Contents' = Contents
    OBVIOUS
  <2>2. CASE Next
    BY <2>1, <2>2, InClockPuts, OutClockGets DEF Next
  <2>3. CASE UNCHANGED vars
    BY <2>3 DEF vars, inVars, outVars, Contents, Held
  <2>4. QED
    BY <2>1, <2>2, <2>3
<1>3. FifoInv /\ [Next]_vars
        => [(\E w \in 0 .. Words - 1 : Queue!Put(w)) \/ Queue!Get]_Contents
  BY <1>2 DEF Word
<1>4. QED
  BY <1>1, <1>3, FifoInitially, FifoStep, PTL DEF Spec, IsQueue, Queue!QueueSpec
=============================================================================
