----------------------------- MODULE AbiProofs -----------------------------
(***************************************************************************)
(* What is encoded with a type of the ABI is read again: proofs about      *)
(* encode and decode of src/src/abi/abi_type.ts, for every type and every  *)
(* value, every size of a byte and of an address, and every depth.         *)
(*                                                                         *)
(* The functions over types are CHOSEn, so that there is one that does     *)
(* what its definition says comes first, by induction on the depth.  What  *)
(* is true of a type is then shown of the simple types, and of the         *)
(* composite ones if it is of what is inside (TypeInduction).  Tuples,     *)
(* arrays and lists are the same: heads, which booleans share, and tails   *)
(* that follow each other.                                                 *)
(*                                                                         *)
(* And what is written as a text is read again: the types, and the         *)
(* signatures of methods (src/src/abi/method.ts).  The commas of a closed  *)
(* text are all inside its parentheses, so that closed texts that are      *)
(* joined are taken apart where they were joined.                          *)
(***************************************************************************)
EXTENDS AbiText, TLAPS, WellFoundedInduction

-----------------------------------------------------------------------------
(* Induction *)

\* A set of natural numbers has a least element.
LEMMA Least ==
  ASSUME NEW S, S \subseteq Nat, S # {}
  PROVE  \E n \in S : \A m \in S : n <= m
<1>1. \E R : IsWellFoundedOn(R, Nat) /\ \A m, n \in Nat : <<m, n>> \in R <=> m < n
  <2> DEFINE Less == OpToRel(<, Nat)
  <2>1. IsWellFoundedOn(Less, Nat)
    BY NatLessThanWellFounded
  <2>2. \A m, n \in Nat : <<m, n>> \in Less <=> m < n
    BY DEF OpToRel
  <2> HIDE DEF Less
  <2> QED BY <2>1, <2>2
<1>2. PICK R : IsWellFoundedOn(R, Nat) /\ \A m, n \in Nat : <<m, n>> \in R <=> m < n
  BY <1>1
<1>3. PICK n \in S : \A m \in S : ~(<<m, n>> \in R)
  <2>1. IsWellFoundedOn(R, Nat)
    BY <1>2
  <2> QED BY <2>1, WFMin
<1>4. \A m \in S : m \in Nat /\ n \in Nat /\ ~(m < n)
  BY <1>2, <1>3
<1> QED BY <1>4

\* A set that has 0 and with every number the next has all.
LEMMA InductionOnNat ==
  ASSUME NEW S, 0 \in S, \A n \in Nat : n \in S => n + 1 \in S
  PROVE  Nat \subseteq S
<1> SUFFICES ASSUME Nat \ S # {} PROVE FALSE
  OBVIOUS
<1>1. PICK n \in Nat \ S : \A m \in Nat \ S : n <= m
  BY Least
<1>2. n - 1 \in Nat /\ n - 1 \in S
  BY <1>1
<1> QED BY <1>1, <1>2

\* The same for the numbers up to N.
LEMMA InductionUpTo ==
  ASSUME NEW N \in Nat, NEW S, 0 \in S,
         \A n \in 1 .. N : n - 1 \in S => n \in S
  PROVE  0 .. N \subseteq S
<1> DEFINE T == {n \in Nat : n <= N => n \in S}
<1>1. 0 \in T
  OBVIOUS
<1>2. ASSUME NEW n \in Nat, n \in T PROVE n + 1 \in T
  <2>1. CASE n + 1 <= N
    <3>1. n + 1 \in 1 .. N /\ (n + 1) - 1 = n /\ n \in S
      BY <1>2, <2>1
    <3> QED BY <3>1
  <2>2. CASE ~(n + 1 <= N)
    BY <2>2
  <2> QED BY <2>1, <2>2
<1>3. Nat \subseteq T
  <2> HIDE DEF T
  <2> QED BY <1>1, <1>2, InductionOnNat
<1> QED BY <1>3

\* f[n + 1] is made of f[n] by g.
Follows(f, S, a, g) ==
  f \in [Nat -> S] /\ f[0] = a /\ \A n \in Nat : f[n + 1] = g[<<n, f[n]>>]

\* What is defined step by step from a first value is defined for all numbers.
LEMMA RecursionOnNat ==
  ASSUME NEW S, NEW a \in S, NEW g \in [Nat \X S -> S]
  PROVE  \E f : Follows(f, S, a, g)
<1> DEFINE IsPart(h, n) ==
      h \in [0 .. n -> S] /\ h[0] = a /\ \A i \in 0 .. n - 1 : h[i + 1] = g[<<i, h[i]>>]
           Has1 == {n \in Nat : \E h : IsPart(h, n)}
<1>1. Nat \subseteq Has1
  <2>1. 0 \in Has1
    <3>1. IsPart([i \in 0 .. 0 |-> a], 0)
      OBVIOUS
    <3> QED BY <3>1
  <2>2. ASSUME NEW n \in Nat, n \in Has1 PROVE n + 1 \in Has1
    <3>1. PICK h : IsPart(h, n)
      <4>1. \E h : IsPart(h, n)
        BY <2>2
      <4> HIDE DEF IsPart
      <4> QED BY <4>1
    <3> DEFINE k == [i \in 0 .. n + 1 |-> IF i = n + 1 THEN g[<<n, h[n]>>] ELSE h[i]]
    <3>2. k \in [0 .. n + 1 -> S] /\ k[0] = a
      BY <3>1
    <3>3. ASSUME NEW i \in 0 .. n PROVE k[i + 1] = g[<<i, k[i]>>]
      <4>1. i + 1 \in 0 .. n + 1 /\ i \in 0 .. n + 1 /\ i # n + 1
        OBVIOUS
      <4>2. CASE i = n
        BY <4>1, <4>2
      <4>3. CASE i # n
        <5>1. i \in 0 .. n - 1 /\ i + 1 # n + 1
          BY <4>3
        <5> QED BY <3>1, <4>1, <5>1
      <4> QED BY <4>2, <4>3
    <3>4. (n + 1) - 1 = n
      OBVIOUS
    <3> HIDE DEF k
    <3>5. IsPart(k, n + 1)
      BY <3>2, <3>3, <3>4
    <3> QED BY <3>5
  <2> HIDE DEF Has1
  <2> QED BY <2>1, <2>2, InductionOnNat
<1>2. ASSUME NEW m \in Nat, NEW n \in Nat, m <= n, NEW h, NEW k, IsPart(h, m), IsPart(k, n)
      PROVE  h[m] = k[m]
  <2> DEFINE Same == {i \in Nat : i <= m => h[i] = k[i]}
  <2>1. 0 \in Same
    BY <1>2
  <2>2. ASSUME NEW i \in Nat, i \in Same PROVE i + 1 \in Same
    <3> SUFFICES ASSUME i + 1 <= m PROVE h[i + 1] = k[i + 1]
      OBVIOUS
    <3>1. i \in 0 .. m - 1 /\ i \in 0 .. n - 1 /\ h[i] = k[i]
      BY <1>2, <2>2
    <3> QED BY <1>2, <3>1
  <2>3. Nat \subseteq Same
    <3> HIDE DEF Same
    <3> QED BY <2>1, <2>2, InductionOnNat
  <2> QED BY <2>3
<1> DEFINE part(n) == CHOOSE h : IsPart(h, n)
           f == [n \in Nat |-> part(n)[n]]
<1>3. ASSUME NEW n \in Nat PROVE IsPart(part(n), n)
  <2>1. \E h : IsPart(h, n)
    BY <1>1
  <2> HIDE DEF IsPart
  <2> QED BY <2>1
<1>4. f \in [Nat -> S]
  <2> SUFFICES ASSUME NEW n \in Nat PROVE part(n)[n] \in S
    OBVIOUS
  <2>1. part(n) \in [0 .. n -> S]
    BY <1>3
  <2> HIDE DEF part
  <2> QED BY <2>1
<1>5. f[0] = a
  BY <1>3
<1>6. ASSUME NEW n \in Nat PROVE f[n + 1] = g[<<n, f[n]>>]
  <2>1. IsPart(part(n), n) /\ IsPart(part(n + 1), n + 1)
    <3> HIDE DEF IsPart, part
    <3>1. n + 1 \in Nat
      OBVIOUS
    <3> QED BY <1>3, <3>1
  <2> HIDE DEF part
  <2>2. part(n + 1)[n + 1] = g[<<n, part(n + 1)[n]>>]
    <3>1. n \in 0 .. (n + 1) - 1
      OBVIOUS
    <3> QED BY <2>1, <3>1
  <2>3. part(n)[n] = part(n + 1)[n]
    BY <1>2, <2>1, SMTT(30)
  <2> QED BY <2>2, <2>3
<1> HIDE DEF f
<1> QED BY <1>4, <1>5, <1>6 DEF Follows

-----------------------------------------------------------------------------
(* Powers and digits *)

\* Power is what its definition says.
LEMMA PowerSteps ==
  Power \in [Nat -> Nat \ {0}] /\ Power[0] = 1 /\ \A n \in Nat : Power[n + 1] = 2 * Power[n]
<1> DEFINE Steps(f) == f = [n \in Nat |-> IF n = 0 THEN 1 ELSE 2 * f[n - 1]]
<1>1. Power = CHOOSE f : Steps(f)
  BY DEF Power
<1>2. \E f : Steps(f)
  <2> DEFINE Positive == Nat \ {0}
             g == [p \in Nat \X Positive |-> 2 * p[2]]
  <2>1. g \in [Nat \X Positive -> Positive] /\ 1 \in Positive
    OBVIOUS
  <2>2. ASSUME NEW n \in Nat, NEW m \in Positive PROVE g[<<n, m>>] = 2 * m
    <3>1. <<n, m>> \in Nat \X Positive /\ <<n, m>>[2] = m
      OBVIOUS
    <3> QED BY <3>1
  <2> HIDE DEF g, Positive
  <2>3. PICK f : Follows(f, Positive, 1, g)
    BY <2>1, RecursionOnNat
  <2>4. f \in [Nat -> Positive] /\ f[0] = 1 /\ \A n \in Nat : f[n + 1] = g[<<n, f[n]>>]
    BY <2>3 DEF Follows
  <2>5. ASSUME NEW n \in Nat PROVE f[n] = IF n = 0 THEN 1 ELSE 2 * f[n - 1]
    <3>1. CASE n = 0
      BY <2>4, <3>1
    <3>2. CASE n # 0
      <4>1. n - 1 \in Nat /\ (n - 1) + 1 = n
        BY <3>2
      <4> QED BY <2>2, <2>4, <3>2, <4>1
    <3> QED BY <3>1, <3>2
  <2>6. f = [n \in Nat |-> IF n = 0 THEN 1 ELSE 2 * f[n - 1]]
    <3>1. f = [n \in Nat |-> f[n]]
      BY <2>4
    <3> QED BY <2>5, <3>1
  <2> QED BY <2>6
<1>3. Steps(Power)
  <2> HIDE DEF Steps
  <2> QED BY <1>1, <1>2
<1>4. Power = [n \in Nat |-> IF n = 0 THEN 1 ELSE 2 * Power[n - 1]]
  BY <1>3
<1>5. Power[0] = 1
  BY <1>4
<1>6. ASSUME NEW n \in Nat PROVE Power[n + 1] = 2 * Power[n]
  <2>1. n + 1 \in Nat /\ n + 1 # 0 /\ (n + 1) - 1 = n
    OBVIOUS
  <2> QED BY <1>4, <2>1
<1>7. \A n \in Nat : Power[n] \in Nat \ {0}
  <2> DEFINE Good == {n \in Nat : Power[n] \in Nat \ {0}}
  <2>1. 0 \in Good
    BY <1>5
  <2>2. \A n \in Nat : n \in Good => n + 1 \in Good
    BY <1>6
  <2> HIDE DEF Good
  <2>3. Nat \subseteq Good
    BY <2>1, <2>2, InductionOnNat
  <2> QED BY <2>3 DEF Good
<1> QED BY <1>4, <1>5, <1>6, <1>7

\* The power of a sum is a product.
LEMMA PowerOfSum ==
  ASSUME NEW a \in Nat, NEW b \in Nat
  PROVE  Power[a + b] = Power[a] * Power[b]
<1> DEFINE Good == {n \in Nat : Power[a + n] = Power[a] * Power[n]}
<1>1. 0 \in Good
  <2>1. a + 0 = a
    OBVIOUS
  <2> QED BY <2>1, PowerSteps
<1>2. ASSUME NEW n \in Nat, n \in Good PROVE n + 1 \in Good
  <2>1. Power[a + n] = Power[a] * Power[n] /\ a + n \in Nat /\ a + (n + 1) = (a + n) + 1
    BY <1>2
  <2>2. Power[a + (n + 1)] = 2 * (Power[a] * Power[n]) /\ Power[n + 1] = 2 * Power[n]
    BY <2>1, PowerSteps
  <2>3. \A p, q \in Nat : p * (2 * q) = 2 * (p * q)
    OBVIOUS
  <2> QED BY <2>2, <2>3, PowerSteps
<1> HIDE DEF Good
<1>3. Nat \subseteq Good
  BY <1>1, <1>2, InductionOnNat
<1> QED BY <1>3 DEF Good

\* Powers grow.
LEMMA PowerGrows ==
  ASSUME NEW a \in Nat, NEW b \in Nat, a <= b
  PROVE  Power[a] <= Power[b]
<1>1. b - a \in Nat /\ a + (b - a) = b
  OBVIOUS
<1>2. Power[b] = Power[a] * Power[b - a] /\ Power[a] \in Nat /\ Power[b - a] \in Nat \ {0}
  BY <1>1, PowerOfSum, PowerSteps
<1>3. \A p \in Nat, q \in Nat \ {0} : p <= p * q
  OBVIOUS
<1> QED BY <1>2, <1>3

\* There are more numbers of n bits than n.
LEMMA PowerExceeds ==
  ASSUME NEW n \in Nat
  PROVE  n < Power[n]
<1> DEFINE Good == {k \in Nat : k < Power[k]}
<1>1. 0 \in Good
  BY PowerSteps
<1>2. \A k \in Nat : k \in Good => k + 1 \in Good
  BY PowerSteps
<1> HIDE DEF Good
<1>3. Nat \subseteq Good
  BY <1>1, <1>2, InductionOnNat
<1> QED BY <1>3 DEF Good

\* What is left of a division.
LEMMA Divided ==
  ASSUME NEW n \in Nat, NEW d \in Nat \ {0}
  PROVE  /\ n \div d \in Nat /\ n % d \in 0 .. d - 1
         /\ n = d * (n \div d) + (n % d)
OBVIOUS

\* Division with a rest.
LEMMA QuotientIs ==
  ASSUME NEW d \in Nat \ {0}, NEW q \in Nat, NEW r \in 0 .. d - 1
  PROVE  (d * q + r) \div d = q /\ (d * q + r) % d = r
<1> DEFINE n == d * q + r
           p == n \div d
<1>1. n \in Nat /\ p \in Nat /\ n % d \in 0 .. d - 1 /\ n = d * p + (n % d)
  <2>1. d * q \in Nat
    OBVIOUS
  <2>2. n \in Nat
    BY <2>1
  <2> HIDE DEF n
  <2> QED BY <2>2, Divided
<1>2. \A x, y \in Nat : x < y => d * x + d <= d * y
  <2> SUFFICES ASSUME NEW x \in Nat, NEW y \in Nat, x < y PROVE d * x + d <= d * y
    OBVIOUS
  <2>1. PICK k \in Nat : y = x + 1 + k
    <3>1. y - x - 1 \in Nat /\ y = x + 1 + (y - x - 1)
      OBVIOUS
    <3> QED BY <3>1
  <2>2. d * y = d * x + d + d * k
    BY <2>1
  <2>3. d * k \in Nat /\ d * x \in Nat
    OBVIOUS
  <2> QED BY <2>2, <2>3
<1>3. p = q
  <2>1. d * p + (n % d) = d * q + r
    BY <1>1
  <2>2. d * p \in Nat /\ d * q \in Nat
    BY <1>1
  <2> HIDE DEF p, n
  <2>3. ~(p < q) /\ ~(q < p)
    BY <1>1, <1>2, <2>1, <2>2
  <2> QED BY <1>1, <2>3
<1> HIDE DEF p
<1>4. n % d = r
  <2>1. d * q \in Nat
    OBVIOUS
  <2>2. n = d * q + (n % d) /\ n = d * q + r /\ n % d \in Nat
    BY <1>1, <1>3
  <2> HIDE DEF n
  <2> QED BY <2>1, <2>2
<1> QED BY <1>3, <1>4 DEF p

\* Division by a product is division by one and then by the other.
LEMMA QuotientOfProduct ==
  ASSUME NEW n \in Nat, NEW d \in Nat \ {0}, NEW e \in Nat \ {0}
  PROVE  n \div (d * e) = (n \div d) \div e
<1> DEFINE q == n \div d
           p == q \div e
<1>1. q \in Nat /\ n % d \in 0 .. d - 1 /\ n = d * q + (n % d)
  BY Divided
<1>2. p \in Nat /\ q % e \in 0 .. e - 1 /\ q = e * p + (q % e)
  BY <1>1, Divided
<1> DEFINE r == d * (q % e) + (n % d)
<1>3. n = (d * e) * p + r
  <2>1. n = d * (e * p + (q % e)) + (n % d)
    BY <1>1, <1>2
  <2> HIDE DEF q, p
  <2>2. \A x, y, z, w \in Nat : x * (y * z + w) = (x * y) * z + x * w
    OBVIOUS
  <2>3. d * (e * p + (q % e)) = (d * e) * p + d * (q % e)
    BY <1>2, <2>2
  <2> QED BY <1>1, <1>2, <2>1, <2>3
<1>4. r \in 0 .. d * e - 1
  <2> HIDE DEF q, p
  <2>1. \A x \in 0 .. e - 1 : d * x \in Nat /\ d * x + d <= d * e
    <3> SUFFICES ASSUME NEW x \in 0 .. e - 1 PROVE d * x \in Nat /\ d * x + d <= d * e
      OBVIOUS
    <3>1. PICK k \in Nat : e = x + 1 + k
      <4>1. e - x - 1 \in Nat /\ e = x + 1 + (e - x - 1)
        OBVIOUS
      <4> QED BY <4>1
    <3>2. d * e = d * x + d + d * k
      BY <3>1
    <3>3. d * k \in Nat /\ d * x \in Nat
      OBVIOUS
    <3> QED BY <3>2, <3>3
  <2>2. d * (q % e) \in Nat /\ d * (q % e) + d <= d * e /\ d * e \in Nat
    BY <1>2, <2>1
  <2> QED BY <1>1, <2>2
<1>5. d * e \in Nat \ {0}
  OBVIOUS
<1> HIDE DEF r, q, p
<1>6. ((d * e) * p + r) \div (d * e) = p
  BY <1>2, <1>4, <1>5, QuotientIs
<1> QED BY <1>3, <1>6 DEF p, q

-----------------------------------------------------------------------------
(* Sums *)

\* A function that adds up the numbers is that of Total.
LEMMA TotalIs ==
  ASSUME NEW n \in Nat, NEW sizes, NEW f, f[0] = 0,
         \A i \in 1 .. n : f[i] = f[i - 1] + sizes[i]
  PROVE  Total(sizes, n) = f[n]
<1> DEFINE Sums(t) == t = [i \in 0 .. n |-> IF i = 0 THEN 0 ELSE t[i - 1] + sizes[i]]
           t0 == CHOOSE t : Sums(t)
<1>1. Total(sizes, n) = t0[n]
  BY DEF Total
<1>2. \E t : Sums(t)
  <2> DEFINE u == [i \in 0 .. n |-> f[i]]
  <2>1. ASSUME NEW i \in 0 .. n PROVE u[i] = IF i = 0 THEN 0 ELSE u[i - 1] + sizes[i]
    <3>1. CASE i = 0
      BY <3>1
    <3>2. CASE i # 0
      <4>1. i \in 1 .. n /\ i - 1 \in 0 .. n
        BY <3>2
      <4> QED BY <3>2, <4>1
    <3> QED BY <3>1, <3>2
  <2>2. u = [i \in 0 .. n |-> u[i]]
    OBVIOUS
  <2> HIDE DEF u
  <2>3. Sums(u)
    BY <2>1, <2>2
  <2> QED BY <2>3
<1>3. Sums(t0)
  <2> HIDE DEF Sums
  <2> QED BY <1>2
<1> DEFINE Same == {i \in 0 .. n : t0[i] = f[i]}
<1> HIDE DEF t0
<1>4. 0 \in Same
  BY <1>3
<1>5. ASSUME NEW i \in 1 .. n, i - 1 \in Same PROVE i \in Same
  <2>1. t0[i] = t0[i - 1] + sizes[i]
    BY <1>3
  <2> QED BY <1>5, <2>1
<1>6. 0 .. n \subseteq Same
  <2> HIDE DEF Same
  <2> QED BY <1>4, <1>5, InductionUpTo
<1> QED BY <1>1, <1>6

\* Total is what its definition says.
LEMMA TotalSteps ==
  ASSUME NEW n \in Nat, NEW sizes, \A i \in 1 .. n : sizes[i] \in Int
  PROVE  /\ Total(sizes, 0) = 0
         /\ \A i \in 1 .. n : Total(sizes, i) = Total(sizes, i - 1) + sizes[i]
         /\ \A i \in 0 .. n : Total(sizes, i) \in Int
<1> DEFINE g == [p \in Nat \X Int |->
                   IF p[1] + 1 \in 1 .. n THEN p[2] + sizes[p[1] + 1] ELSE p[2]]
<1>1. g \in [Nat \X Int -> Int] /\ 0 \in Int
  OBVIOUS
<1>2. ASSUME NEW i \in 1 .. n, NEW m \in Int PROVE g[<<i - 1, m>>] = m + sizes[i]
  <2>1. <<i - 1, m>> \in Nat \X Int /\ (i - 1) + 1 = i
    OBVIOUS
  <2> QED BY <2>1
<1> HIDE DEF g
<1>3. PICK f : Follows(f, Int, 0, g)
  BY <1>1, RecursionOnNat
<1>4. f \in [Nat -> Int] /\ f[0] = 0 /\ \A k \in Nat : f[k + 1] = g[<<k, f[k]>>]
  BY <1>3 DEF Follows
<1>5. ASSUME NEW i \in 1 .. n PROVE f[i] = f[i - 1] + sizes[i]
  <2>1. i - 1 \in Nat /\ (i - 1) + 1 = i /\ f[i - 1] \in Int
    BY <1>4
  <2> QED BY <1>2, <1>4, <2>1
<1>6. ASSUME NEW i \in 0 .. n PROVE Total(sizes, i) = f[i]
  <2>1. i \in Nat /\ \A k \in 1 .. i : f[k] = f[k - 1] + sizes[k]
    BY <1>5
  <2> QED BY <1>4, <2>1, TotalIs
<1>7. \A i \in 1 .. n : i \in 0 .. n /\ i - 1 \in 0 .. n
  OBVIOUS
<1> QED BY <1>4, <1>5, <1>6, <1>7

\* Sums of natural numbers are natural numbers that grow.
LEMMA TotalOfNat ==
  ASSUME NEW n \in Nat, NEW sizes, \A i \in 1 .. n : sizes[i] \in Nat
  PROVE  /\ Total(sizes, 0) = 0
         /\ \A i \in 1 .. n : Total(sizes, i) = Total(sizes, i - 1) + sizes[i]
         /\ \A i \in 0 .. n : Total(sizes, i) \in Nat
         /\ \A j \in 0 .. n : \A i \in 0 .. j : Total(sizes, i) <= Total(sizes, j)
<1>1. /\ Total(sizes, 0) = 0
      /\ \A i \in 1 .. n : Total(sizes, i) = Total(sizes, i - 1) + sizes[i]
      /\ \A i \in 0 .. n : Total(sizes, i) \in Int
  BY TotalSteps
<1> DEFINE Good == {j \in 0 .. n : /\ Total(sizes, j) \in Nat
                                   /\ \A i \in 0 .. j : Total(sizes, i) <= Total(sizes, j)}
<1>2. 0 \in Good
  BY <1>1
<1>3. ASSUME NEW j \in 1 .. n, j - 1 \in Good PROVE j \in Good
  <2>1. Total(sizes, j) = Total(sizes, j - 1) + sizes[j] /\ Total(sizes, j - 1) \in Nat
    BY <1>1, <1>3
  <2>2. ASSUME NEW i \in 0 .. j PROVE Total(sizes, i) <= Total(sizes, j)
    <3>1. CASE i = j
      BY <2>1, <3>1
    <3>2. CASE i # j
      <4>1. i \in 0 .. j - 1 /\ i \in 0 .. n
        BY <3>2
      <4>2. Total(sizes, i) <= Total(sizes, j - 1) /\ Total(sizes, i) \in Int
        BY <1>1, <1>3, <4>1
      <4> QED BY <2>1, <4>2
    <3> QED BY <3>1, <3>2
  <2> QED BY <2>1, <2>2
<1>4. 0 .. n \subseteq Good
  <2> HIDE DEF Good
  <2> QED BY <1>2, <1>3, InductionUpTo
<1> QED BY <1>1, <1>4

\* The sum is that of the same numbers.
LEMMA TotalOfSame ==
  ASSUME NEW n \in Nat, NEW s, NEW t, \A i \in 1 .. n : s[i] \in Int /\ t[i] = s[i]
  PROVE  \A i \in 0 .. n : Total(t, i) = Total(s, i)
<1>1. /\ Total(s, 0) = 0
      /\ \A i \in 1 .. n : Total(s, i) = Total(s, i - 1) + s[i]
  BY TotalSteps
<1>2. /\ Total(t, 0) = 0
      /\ \A i \in 1 .. n : Total(t, i) = Total(t, i - 1) + t[i]
  BY TotalSteps
<1> DEFINE Same == {i \in 0 .. n : Total(t, i) = Total(s, i)}
<1>3. 0 \in Same
  BY <1>1, <1>2
<1>4. ASSUME NEW i \in 1 .. n, i - 1 \in Same PROVE i \in Same
  BY <1>1, <1>2, <1>4
<1>5. 0 .. n \subseteq Same
  <2> HIDE DEF Same
  <2> QED BY <1>3, <1>4, InductionUpTo
<1> QED BY <1>5

\* The sum of more numbers.
\* u has the m numbers of s, and then the n of t.
Continues(u, s, m, t, n) ==
  /\ \A i \in 1 .. m : s[i] \in Int /\ u[i] = s[i]
  /\ \A i \in 1 .. n : t[i] \in Int /\ u[m + i] = t[i]

\* The sum of what continues a list goes on where the list ends.
LEMMA TotalOfMore ==
  ASSUME NEW m \in Nat, NEW n \in Nat, NEW s, NEW t, NEW u, Continues(u, s, m, t, n)
  PROVE  /\ \A i \in 0 .. m : Total(u, i) = Total(s, i)
         /\ \A i \in 0 .. n : Total(u, m + i) = Total(s, m) + Total(t, i)
<1> USE DEF Continues
<1>1. \A i \in 0 .. m : Total(u, i) = Total(s, i)
  BY TotalOfSame
<1>2. ASSUME NEW i \in 1 .. m + n PROVE u[i] \in Int
  <2>1. CASE i <= m
    BY <2>1
  <2>2. CASE i > m
    <3>1. i - m \in 1 .. n /\ m + (i - m) = i
      BY <2>2
    <3> QED BY <3>1
  <2> QED BY <2>1, <2>2
<1>3. /\ \A i \in 1 .. m + n : Total(u, i) = Total(u, i - 1) + u[i]
      /\ \A i \in 0 .. m + n : Total(u, i) \in Int
  <2>1. m + n \in Nat
    OBVIOUS
  <2> QED BY <1>2, <2>1, TotalSteps
<1>4. /\ Total(t, 0) = 0
      /\ \A i \in 1 .. n : Total(t, i) = Total(t, i - 1) + t[i]
      /\ \A i \in 0 .. n : Total(t, i) \in Int
  BY TotalSteps
<1>5. Total(s, m) = Total(u, m) /\ Total(u, m) \in Int
  BY <1>1, <1>3
<1> DEFINE Same == {i \in 0 .. n : Total(u, m + i) = Total(s, m) + Total(t, i)}
<1>6. 0 \in Same
  <2>1. m + 0 = m
    OBVIOUS
  <2> QED BY <1>4, <1>5, <2>1
<1>7. ASSUME NEW i \in 1 .. n, i - 1 \in Same PROVE i \in Same
  <2>1. m + i \in 1 .. m + n /\ (m + i) - 1 = m + (i - 1) /\ i - 1 \in 0 .. n
    OBVIOUS
  <2>2. Total(u, m + i) = Total(u, m + (i - 1)) + t[i]
    BY <1>3, <2>1
  <2>3. Total(u, m + (i - 1)) = Total(s, m) + Total(t, i - 1)
    BY <1>7
  <2> QED BY <1>4, <1>5, <2>1, <2>2, <2>3
<1>8. 0 .. n \subseteq Same
  <2> HIDE DEF Same
  <2> QED BY <1>6, <1>7, InductionUpTo
<1> QED BY <1>1, <1>8

-----------------------------------------------------------------------------
(* Sequences *)

\* Sequences are equal when they are in length and elements.
LEMMA SequencesEqual ==
  ASSUME NEW S, NEW s \in Seq(S), NEW T, NEW t \in Seq(T), Len(s) = Len(t),
         \A i \in 1 .. Len(s) : s[i] = t[i]
  PROVE  s = t
<1>1. s = [i \in 1 .. Len(s) |-> s[i]] /\ t = [i \in 1 .. Len(t) |-> t[i]]
  OBVIOUS
<1> QED BY <1>1

\* A part of a sequence.
LEMMA SliceOf ==
  ASSUME NEW S, NEW s \in Seq(S), NEW m \in Nat, NEW n \in Nat, m + n <= Len(s)
  PROVE  /\ SubSeq(s, m + 1, m + n) \in Seq(S)
         /\ Len(SubSeq(s, m + 1, m + n)) = n
         /\ \A i \in 1 .. n : SubSeq(s, m + 1, m + n)[i] = s[m + i]
<1>1. SubSeq(s, m + 1, m + n) = [i \in 1 .. (m + n) - (m + 1) + 1 |-> s[i + (m + 1) - 1]]
  OBVIOUS
<1>2. (m + n) - (m + 1) + 1 = n /\ \A i \in 1 .. n : i + (m + 1) - 1 = m + i /\ m + i \in 1 .. Len(s)
  OBVIOUS
<1>3. SubSeq(s, m + 1, m + n) = [i \in 1 .. n |-> s[m + i]]
  BY <1>1, <1>2
<1>4. \A i \in 1 .. n : s[m + i] \in S
  BY <1>2
<1>5. [i \in 1 .. n |-> s[m + i]] \in Seq(S) /\ Len([i \in 1 .. n |-> s[m + i]]) = n
  BY <1>4
<1> QED BY <1>3, <1>5

\* A sequence that is found inside another is a part of it.
LEMMA SliceIs ==
  ASSUME NEW S, NEW s \in Seq(S), NEW m \in Nat, NEW t \in Seq(S), m + Len(t) <= Len(s),
         \A i \in 1 .. Len(t) : s[m + i] = t[i]
  PROVE  SubSeq(s, m + 1, m + Len(t)) = t
<1> DEFINE u == SubSeq(s, m + 1, m + Len(t))
<1>1. u \in Seq(S) /\ Len(u) = Len(t) /\ \A i \in 1 .. Len(t) : u[i] = s[m + i]
  BY SliceOf
<1> HIDE DEF u
<1>2. u = t
  BY <1>1, SequencesEqual
<1> QED BY <1>2 DEF u

\* Two sequences joined.
LEMMA JoinedIs ==
  ASSUME NEW S, NEW s \in Seq(S), NEW t \in Seq(S)
  PROVE  /\ s \o t \in Seq(S) /\ Len(s \o t) = Len(s) + Len(t)
         /\ Len(s) \in Nat /\ Len(t) \in Nat
         /\ \A i \in 1 .. Len(s) : (s \o t)[i] = s[i]
         /\ \A i \in 1 .. Len(t) : (s \o t)[Len(s) + i] = t[i]
OBVIOUS

\* The elements of a sequence.
LEMMA ElementIs ==
  ASSUME NEW S, NEW s \in Seq(S)
  PROVE  Len(s) \in Nat /\ DOMAIN s = 1 .. Len(s) /\ \A i \in 1 .. Len(s) : s[i] \in S
OBVIOUS

\* The lengths of the parts.
Lengths(parts) == [k \in DOMAIN parts |-> Len(parts[k])]

\* Positions are sums of lengths.
LEMMA PositionIs ==
  ASSUME NEW S, NEW parts \in Seq(Seq(S))
  PROVE  /\ Total(Lengths(parts), 0) = 0
         /\ \A i \in 1 .. Len(parts) :
              /\ PositionIn(parts, i) = Total(Lengths(parts), i - 1)
              /\ Total(Lengths(parts), i) = Total(Lengths(parts), i - 1) + Len(parts[i])
         /\ \A i \in 0 .. Len(parts) : Total(Lengths(parts), i) \in Nat
         /\ \A j \in 0 .. Len(parts) : \A i \in 0 .. j :
              Total(Lengths(parts), i) <= Total(Lengths(parts), j)
<1>1. Len(parts) \in Nat /\ \A i \in 1 .. Len(parts) : Lengths(parts)[i] \in Nat /\ Lengths(parts)[i] = Len(parts[i])
  BY DEF Lengths
<1>2. \A i \in 1 .. Len(parts) : PositionIn(parts, i) = Total(Lengths(parts), i - 1)
  BY DEF PositionIn, Lengths
<1> QED BY <1>1, <1>2, TotalOfNat

\* Parts that are joined are found at their positions (concatArrays).
LEMMA FlattenIs ==
  ASSUME NEW S, NEW parts \in Seq(Seq(S))
  PROVE  /\ FlattenSeq(parts) \in Seq(S)
         /\ Len(FlattenSeq(parts)) = Total(Lengths(parts), Len(parts))
         /\ \A i \in 1 .. Len(parts) : \A k \in 1 .. Len(parts[i]) :
              FlattenSeq(parts)[PositionIn(parts, i) + k] = parts[i][k]
<1> DEFINE Bytes_ == Seq(S)
           n == Len(parts)
           g == [p \in Nat \X Bytes_ |->
                   IF p[1] + 1 \in 1 .. n THEN p[2] \o parts[p[1] + 1] ELSE p[2]]
<1>1. g \in [Nat \X Bytes_ -> Bytes_] /\ <<>> \in Bytes_
  OBVIOUS
<1>2. ASSUME NEW i \in 1 .. n, NEW s \in Bytes_ PROVE g[<<i - 1, s>>] = s \o parts[i]
  <2>1. <<i - 1, s>> \in Nat \X Bytes_ /\ (i - 1) + 1 = i
    OBVIOUS
  <2> QED BY <2>1
<1> HIDE DEF g, Bytes_
<1>3. PICK f : Follows(f, Bytes_, <<>>, g)
  BY <1>1, RecursionOnNat
<1>4. f \in [Nat -> Bytes_] /\ f[0] = <<>> /\ \A k \in Nat : f[k + 1] = g[<<k, f[k]>>]
  BY <1>3 DEF Follows
<1> USE DEF Bytes_
<1>5. ASSUME NEW i \in 1 .. n PROVE f[i] = f[i - 1] \o parts[i] /\ f[i - 1] \in Seq(S) /\ f[i] \in Seq(S)
  <2>1. i - 1 \in Nat /\ (i - 1) + 1 = i /\ f[i - 1] \in Bytes_ /\ f[i] \in Bytes_
    BY <1>4
  <2> QED BY <1>2, <1>4, <2>1
<1>6. FlattenSeq(parts) = f[n]
  <2>1. CASE n = 0
    <3>1. FlattenSeq(parts) = parts /\ parts = <<>>
      BY <2>1 DEF FlattenSeq
    <3> QED BY <1>4, <2>1, <3>1
  <2>2. CASE n # 0
    <3> DEFINE Flattens(t) == t = [i \in 1 .. n |-> IF i = 1 THEN parts[i] ELSE t[i - 1] \o parts[i]]
               t0 == CHOOSE t : Flattens(t)
    <3>1. FlattenSeq(parts) = t0[n]
      BY <2>2 DEF FlattenSeq
    <3>2. f[1] = parts[1]
      <4>1. 1 \in 1 .. n /\ 1 - 1 = 0
        BY <2>2
      <4>2. f[1] = f[0] \o parts[1]
        BY <1>5, <4>1
      <4>3. f[1] = <<>> \o parts[1] /\ parts[1] \in Seq(S)
        BY <1>4, <4>1, <4>2, ElementIs
      <4> QED BY <4>3
    <3>3. \E t : Flattens(t)
      <4> DEFINE u == [i \in 1 .. n |-> f[i]]
      <4>1. ASSUME NEW i \in 1 .. n PROVE u[i] = IF i = 1 THEN parts[i] ELSE u[i - 1] \o parts[i]
        <5>1. CASE i = 1
          BY <3>2, <5>1
        <5>2. CASE i # 1
          <6>1. i - 1 \in 1 .. n
            BY <5>2
          <6> QED BY <1>5, <5>2, <6>1
        <5> QED BY <5>1, <5>2
      <4>2. u = [i \in 1 .. n |-> u[i]]
        OBVIOUS
      <4> HIDE DEF u
      <4>3. Flattens(u)
        BY <4>1, <4>2
      <4> QED BY <4>3
    <3>4. Flattens(t0)
      <4> HIDE DEF Flattens
      <4> QED BY <3>3
    <3> HIDE DEF t0
    <3> DEFINE Same == {i \in 0 .. n : i > 0 => t0[i] = f[i]}
    <3>5. 0 \in Same
      OBVIOUS
    <3>6. ASSUME NEW i \in 1 .. n, i - 1 \in Same PROVE i \in Same
      <4>1. CASE i = 1
        BY <3>2, <3>4, <4>1
      <4>2. CASE i # 1
        <5>1. t0[i] = t0[i - 1] \o parts[i]
          BY <3>4, <4>2
        <5>2. t0[i - 1] = f[i - 1]
          BY <3>6, <4>2
        <5>3. f[i] = f[i - 1] \o parts[i]
          BY <1>5
        <5>4. t0[i] = f[i]
          BY <5>1, <5>2, <5>3
        <5> QED BY <5>4
      <4> QED BY <4>1, <4>2
    <3>7. 0 .. n \subseteq Same
      <4>1. n \in Nat
        OBVIOUS
      <4> HIDE DEF Same, n
      <4> QED BY <3>5, <3>6, <4>1, InductionUpTo
    <3> QED BY <2>2, <3>1, <3>7
  <2> QED BY <2>1, <2>2
<1>7. /\ Total(Lengths(parts), 0) = 0
      /\ \A i \in 1 .. n :
              /\ PositionIn(parts, i) = Total(Lengths(parts), i - 1)
              /\ Total(Lengths(parts), i) = Total(Lengths(parts), i - 1) + Len(parts[i])
      /\ \A i \in 0 .. n : Total(Lengths(parts), i) \in Nat
  BY PositionIs
<1>8. \A j \in 0 .. n : \A i \in 0 .. j : Total(Lengths(parts), i) <= Total(Lengths(parts), j)
  BY PositionIs
<1> DEFINE Good == {j \in 0 .. n :
      /\ Len(f[j]) = Total(Lengths(parts), j)
      /\ \A i \in 1 .. j : \A k \in 1 .. Len(parts[i]) : f[j][PositionIn(parts, i) + k] = parts[i][k]}
<1>9. 0 \in Good
  BY <1>4, <1>7
<1>10. ASSUME NEW j \in 1 .. n, j - 1 \in Good PROVE j \in Good
  <2>1. f[j] = f[j - 1] \o parts[j] /\ f[j - 1] \in Seq(S) /\ parts[j] \in Seq(S)
    BY <1>5, ElementIs
  <2>2. Len(f[j - 1]) = Total(Lengths(parts), j - 1)
    BY <1>10
  <2>3. Len(f[j]) = Total(Lengths(parts), j)
    <3>1. Len(f[j]) = Len(f[j - 1]) + Len(parts[j])
      BY <2>1, JoinedIs
    <3>2. Total(Lengths(parts), j) = Total(Lengths(parts), j - 1) + Len(parts[j])
      BY <1>7
    <3> QED BY <2>2, <3>1, <3>2
  <2>4. ASSUME NEW i \in 1 .. j, NEW k \in 1 .. Len(parts[i])
        PROVE  f[j][PositionIn(parts, i) + k] = parts[i][k]
    <3>1. CASE i = j
      <4>1. PositionIn(parts, i) = Len(f[j - 1])
        BY <1>7, <2>2, <3>1
      <4>2. (f[j - 1] \o parts[j])[Len(f[j - 1]) + k] = parts[j][k]
        <5>1. \A m \in 1 .. Len(parts[j]) :
                (f[j - 1] \o parts[j])[Len(f[j - 1]) + m] = parts[j][m]
          <6> DEFINE x == f[j - 1]
                     y == parts[j]
          <6>1. x \in Seq(S) /\ y \in Seq(S)
            BY <2>1
          <6> HIDE DEF x, y
          <6>2. \A m \in 1 .. Len(y) : (x \o y)[Len(x) + m] = y[m]
            BY <6>1, JoinedIs
          <6> QED BY <6>2 DEF x, y
        <5> QED BY <3>1, <5>1
      <4> QED BY <2>1, <3>1, <4>1, <4>2
    <3>2. CASE i # j
      <4>1. i \in 1 .. j - 1 /\ i \in 1 .. n /\ i - 1 \in 0 .. n
        BY <3>2
      <4>2. f[j - 1][PositionIn(parts, i) + k] = parts[i][k]
        BY <1>10, <4>1
      <4>3. i \in 0 .. j - 1 /\ j - 1 \in 0 .. n
        BY <4>1
      <4>4. Total(Lengths(parts), i) <= Len(f[j - 1])
        BY <1>8, <2>2, <4>3
      <4>5. PositionIn(parts, i) + k <= Total(Lengths(parts), i) /\ PositionIn(parts, i) \in Nat
        <5>1. parts[i] \in Seq(S)
          BY <4>1
        <5>2. Len(parts[i]) \in Nat
          BY <5>1
        <5> QED BY <1>7, <4>1, <5>2, SMTT(30)
      <4>6. PositionIn(parts, i) + k \in 1 .. Len(f[j - 1])
        <5>1. Len(f[j - 1]) \in Nat /\ Total(Lengths(parts), i) \in Nat
          BY <1>7, <2>1, <4>1, SMTT(30)
        <5> QED BY <4>4, <4>5, <5>1, SMTT(30)
      <4> QED BY <2>1, <4>2, <4>6
    <3> QED BY <3>1, <3>2
  <2> QED BY <2>3, <2>4
<1>11. 0 .. n \subseteq Good
  <2>1. n \in Nat
    OBVIOUS
  <2> HIDE DEF Good, n
  <2> QED BY <1>9, <1>10, <2>1, InductionUpTo
<1>12. n \in 0 .. n /\ f[n] \in Seq(S)
  BY <1>4
<1>13. n \in Good
  BY <1>11, <1>12
<1> QED BY <1>6, <1>12, <1>13

\* The part is found at its position.
LEMMA PartIsThere ==
  ASSUME NEW S, NEW parts \in Seq(Seq(S)), NEW i \in 1 .. Len(parts)
  PROVE  SubSeq(FlattenSeq(parts), PositionIn(parts, i) + 1, PositionIn(parts, i) + Len(parts[i]))
           = parts[i]
<1> DEFINE flat == FlattenSeq(parts)
           at == PositionIn(parts, i)
<1>1. /\ flat \in Seq(S) /\ Len(flat) = Total(Lengths(parts), Len(parts))
      /\ \A k \in 1 .. Len(parts[i]) : flat[at + k] = parts[i][k]
  BY FlattenIs
<1>2. at \in Nat /\ at + Len(parts[i]) <= Len(flat) /\ parts[i] \in Seq(S)
  <2>1. /\ PositionIn(parts, i) = Total(Lengths(parts), i - 1)
        /\ Total(Lengths(parts), i) = Total(Lengths(parts), i - 1) + Len(parts[i])
        /\ Total(Lengths(parts), i - 1) \in Nat
        /\ Total(Lengths(parts), i) <= Total(Lengths(parts), Len(parts))
    <3>1. i - 1 \in 0 .. Len(parts) /\ i \in 0 .. Len(parts) /\ Len(parts) \in 0 .. Len(parts)
      OBVIOUS
    <3> QED BY <3>1, PositionIs
  <2> QED BY <1>1, <2>1
<1> HIDE DEF flat, at
<1>3. SubSeq(flat, at + 1, at + Len(parts[i])) = parts[i]
  BY <1>1, <1>2, SliceIs
<1> QED BY <1>3 DEF flat, at

-----------------------------------------------------------------------------
(* Numbers as bytes *)

\* What is known of the constants.
LEMMA BaseIs ==
  /\ Bits \in Nat /\ Bits >= 2 /\ Digit \in Nat /\ Digit >= 1 /\ Bits = 2 * Digit
  /\ Base \in Nat /\ Base \in Nat \ {0} /\ Base >= 4 /\ Base = Power[Bits]
  /\ MaxLen \in Nat /\ MaxLen >= 15 /\ MaxLen + 1 = Base * Base
  /\ Power[Bits * LengthSize] = MaxLen + 1
<1>1. Bits \in Nat \ {0} /\ Bits % 2 = 0
  BY AbiAssumption
<1>2. Digit \in Nat /\ Bits = 2 * Digit /\ Digit >= 1 /\ Bits >= 2
  BY <1>1 DEF Digit
<1>3. Base = Power[Bits] /\ Base \in Nat
  BY <1>1, PowerSteps DEF Base
<1>4. Power[2] = 4
  <2>1. Power[0 + 1] = 2 * Power[0] /\ Power[1 + 1] = 2 * Power[1] /\ Power[0] = 1
    BY PowerSteps
  <2>2. 0 + 1 = 1 /\ 1 + 1 = 2
    OBVIOUS
  <2> QED BY <2>1, <2>2
<1>5. Base >= 4
  <2>1. Power[2] <= Power[Bits]
    BY <1>2, PowerGrows
  <2> QED BY <1>3, <1>4, <2>1
<1>6. MaxLen \in Nat /\ MaxLen >= 15 /\ MaxLen + 1 = Base * Base
  <2>1. \A b \in Nat : b >= 4 => b * b >= 16 /\ b * b \in Nat
    OBVIOUS
  <2>2. Base * Base >= 16 /\ Base * Base \in Nat
    BY <1>3, <1>5, <2>1
  <2> QED BY <2>2 DEF MaxLen
<1>7. Power[Bits * LengthSize] = MaxLen + 1
  <2>1. Bits * LengthSize = Bits + Bits
    BY <1>2 DEF LengthSize
  <2>2. Power[Bits + Bits] = Power[Bits] * Power[Bits]
    BY <1>2, PowerOfSum
  <2> QED BY <1>3, <1>6, <2>1, <2>2
<1>8. Base \in Nat \ {0}
  BY <1>3, <1>5
<1> QED BY <1>2, <1>3, <1>5, <1>6, <1>7, <1>8

\* As many bytes as were asked for.
LEMMA BytesOfIs ==
  ASSUME NEW n \in Nat, NEW size \in Nat
  PROVE  BytesOf(n, size) \in ByteStrings /\ Len(BytesOf(n, size)) = size
<1>1. ASSUME NEW i \in 1 .. size
      PROVE  (n \div Power[Bits * (size - i)]) % Base \in 0 .. Base - 1
  <2>1. Bits * (size - i) \in Nat
    BY BaseIs
  <2>2. Power[Bits * (size - i)] \in Nat \ {0}
    BY <2>1, PowerSteps
  <2> DEFINE d == Power[Bits * (size - i)]
             q == n \div d
  <2>3. q \in Nat
    <3> HIDE DEF d
    <3> QED BY <2>2, Divided DEF d
  <2> HIDE DEF q
  <2>4. q % Base \in 0 .. Base - 1
    BY <2>3, BaseIs, Divided
  <2> QED BY <2>4 DEF q
<1> QED BY <1>1 DEF BytesOf, ByteStrings

\* A function that reads byte by byte is the one in bytesToBigInt.
LEMMA BigIntIs ==
  ASSUME NEW bytes \in ByteStrings, NEW f, f[0] = 0,
         \A i \in 1 .. Len(bytes) : f[i] = f[i - 1] * Base + bytes[i]
  PROVE  BytesToBigInt(bytes) = f[Len(bytes)]
<1> DEFINE n == Len(bytes)
           Reads(t) == t = [i \in 0 .. n |-> IF i = 0 THEN 0 ELSE t[i - 1] * Base + bytes[i]]
           t0 == CHOOSE t : Reads(t)
<1>1. BytesToBigInt(bytes) = t0[n]
  BY DEF BytesToBigInt
<1>2. n \in Nat
  BY DEF ByteStrings
<1>3. \E t : Reads(t)
  <2> HIDE DEF n
  <2> DEFINE u == [i \in 0 .. n |-> f[i]]
  <2>1. ASSUME NEW i \in 0 .. n PROVE u[i] = IF i = 0 THEN 0 ELSE u[i - 1] * Base + bytes[i]
    <3>1. CASE i = 0
      BY <3>1
    <3>2. CASE i # 0
      <4>1. i \in 1 .. n /\ i - 1 \in 0 .. n
        BY <1>2, <3>2
      <4>2. f[i] = f[i - 1] * Base + bytes[i]
        BY <4>1 DEF n
      <4> QED BY <3>2, <4>1, <4>2
    <3> QED BY <3>1, <3>2
  <2>2. u = [i \in 0 .. n |-> u[i]]
    OBVIOUS
  <2> HIDE DEF u
  <2>3. Reads(u)
    BY <2>1, <2>2
  <2> QED BY <2>3
<1>4. Reads(t0)
  <2> HIDE DEF Reads
  <2> QED BY <1>3
<1> DEFINE Same == {i \in 0 .. n : t0[i] = f[i]}
<1> HIDE DEF t0
<1>5. 0 \in Same
  BY <1>2, <1>4
<1>6. ASSUME NEW i \in 1 .. n, i - 1 \in Same PROVE i \in Same
  <2>1. t0[i] = t0[i - 1] * Base + bytes[i]
    BY <1>2, <1>4
  <2> QED BY <1>2, <1>6, <2>1
<1>7. 0 .. n \subseteq Same
  <2> HIDE DEF Same, n
  <2> QED BY <1>2, <1>5, <1>6, InductionUpTo
<1> QED BY <1>1, <1>2, <1>7

\* Bytes are read as a natural number (bytesToBigInt).
LEMMA BigIntTyped ==
  ASSUME NEW bytes \in ByteStrings
  PROVE  BytesToBigInt(bytes) \in Nat
<1> DEFINE n == Len(bytes)
           g == [p \in Nat \X Nat |-> IF p[1] + 1 \in 1 .. n THEN p[2] * Base + bytes[p[1] + 1] ELSE p[2]]
<1>1. n \in Nat /\ \A i \in 1 .. n : bytes[i] \in Nat
  BY BaseIs, SMTT(30) DEF ByteStrings
<1> HIDE DEF n
<1>2. g \in [Nat \X Nat -> Nat] /\ 0 \in Nat
  BY <1>1, BaseIs
<1>3. ASSUME NEW i \in 1 .. n, NEW m \in Nat PROVE g[<<i - 1, m>>] = m * Base + bytes[i]
  <2>1. <<i - 1, m>> \in Nat \X Nat /\ (i - 1) + 1 = i
    BY <1>1
  <2> QED BY <2>1
<1> HIDE DEF g
<1>4. PICK f : Follows(f, Nat, 0, g)
  BY <1>2, RecursionOnNat
<1>5. f \in [Nat -> Nat] /\ f[0] = 0 /\ \A k \in Nat : f[k + 1] = g[<<k, f[k]>>]
  BY <1>4 DEF Follows
<1>6. ASSUME NEW i \in 1 .. n PROVE f[i] = f[i - 1] * Base + bytes[i]
  <2>1. i - 1 \in Nat /\ (i - 1) + 1 = i /\ f[i - 1] \in Nat
    BY <1>1, <1>5
  <2> QED BY <1>3, <1>5, <2>1
<1>7. BytesToBigInt(bytes) = f[n]
  BY <1>5, <1>6, BigIntIs DEF n
<1> QED BY <1>1, <1>5, <1>7

\* A number that has the bytes is read from them.
LEMMA NumberIsRead ==
  ASSUME NEW size \in Nat, NEW n \in Nat, n < Power[Bits * size]
  PROVE  BytesToBigInt(BytesOf(n, size)) = n
<1> DEFINE bytes == BytesOf(n, size)
           d(i) == Power[Bits * (size - i)]
           f == [i \in 0 .. size |-> n \div d(i)]
<1>1. bytes \in ByteStrings /\ Len(bytes) = size
  BY BytesOfIs
<1>2. ASSUME NEW i \in 0 .. size PROVE d(i) \in Nat \ {0} /\ f[i] = n \div d(i)
  <2>1. Bits * (size - i) \in Nat
    BY BaseIs
  <2> QED BY <2>1, PowerSteps
<1>3. f[0] = 0
  <2>1. n = d(0) * 0 + n /\ n \in 0 .. d(0) - 1
    <3>1. size - 0 = size /\ d(0) \in Nat
      BY <1>2
    <3> QED BY <3>1
  <2>2. 0 \in 0 .. size /\ d(0) \in Nat \ {0}
    BY <1>2
  <2>3. (d(0) * 0 + n) \div d(0) = 0
    <3> HIDE DEF d
    <3> QED BY <2>1, <2>2, QuotientIs
  <2> QED BY <1>2, <2>1, <2>2, <2>3
<1>4. ASSUME NEW i \in 1 .. size PROVE f[i] = f[i - 1] * Base + bytes[i]
  <2>1. i \in 0 .. size /\ i - 1 \in 0 .. size
    OBVIOUS
  <2>2. d(i - 1) = d(i) * Base
    <3>1. Bits * (size - i) \in Nat /\ Bits * (size - (i - 1)) = Bits * (size - i) + Bits
      BY BaseIs
    <3> QED BY <3>1, BaseIs, PowerOfSum, ZenonT(60)
  <2>3. bytes[i] = f[i] % Base
    BY <1>2, <2>1 DEF BytesOf
  <2>4. f[i - 1] = f[i] \div Base
    <3>1. d(i) \in Nat \ {0} /\ Base \in Nat \ {0}
      <4>1. d(i) \in Nat \ {0}
        BY <1>2, <2>1
      <4> QED BY <4>1, BaseIs
    <3> HIDE DEF d
    <3>2. n \div (d(i) * Base) = (n \div d(i)) \div Base
      BY <3>1, QuotientOfProduct
    <3> QED BY <1>2, <2>1, <2>2, <3>2
  <2>5. f[i] \in Nat
    <3> HIDE DEF d
    <3> QED BY <1>2, <2>1, Divided
  <2>6. f[i] = Base * (f[i] \div Base) + (f[i] % Base) /\ f[i] \div Base \in Nat
    <3> HIDE DEF f
    <3> QED BY <2>5, BaseIs, Divided
  <2>7. Base * (f[i] \div Base) = (f[i] \div Base) * Base
    <3> HIDE DEF f
    <3> QED BY <2>6, BaseIs
  <2> HIDE DEF f, bytes
  <2> QED BY <2>3, <2>4, <2>6, <2>7
<1>5. BytesToBigInt(bytes) = f[size]
  <2> HIDE DEF f, bytes
  <2> QED BY <1>1, <1>3, <1>4, BigIntIs
<1>6. f[size] = n
  <2>1. Bits * (size - size) = 0
    BY BaseIs
  <2>2. d(size) = 1
    BY <2>1, PowerSteps
  <2>3. f[size] = n \div 1
    BY <1>2, <2>2
  <2> QED BY <2>3
<1> QED BY <1>5, <1>6

\* There is a number of digits that is enough and not too large.
LEMMA HexLengthIs ==
  ASSUME NEW n \in Nat, NEW least \in Nat
  PROVE  LET d == HexLength(n, least)
         IN  /\ d \in Nat /\ least <= d
             /\ n < Power[Digit * d] /\ (d > least => n >= Power[Digit * (d - 1)])
<1> DEFINE Enough == {d \in Nat : least <= d /\ n < Power[Digit * d]}
           Is(d) == n < Power[Digit * d] /\ (d > least => n >= Power[Digit * (d - 1)])
<1>1. least + n \in Enough
  <2>1. Digit * (least + n) \in Nat /\ n <= Digit * (least + n)
    <3>1. \A x, y \in Nat : y >= 1 => y * x \in Nat /\ x <= y * x
      OBVIOUS
    <3>2. least + n \in Nat /\ Digit \in Nat /\ Digit >= 1
      BY BaseIs
    <3>3. Digit * (least + n) \in Nat /\ least + n <= Digit * (least + n)
      BY <3>1, <3>2
    <3> QED BY <3>2, <3>3
  <2>2. n < Power[n] /\ Power[n] <= Power[Digit * (least + n)]
    BY <2>1, PowerExceeds, PowerGrows
  <2>3. Power[n] \in Nat /\ Power[Digit * (least + n)] \in Nat
    BY <2>1, PowerSteps
  <2> QED BY <2>2, <2>3
<1>2. PICK d \in Enough : \A e \in Enough : d <= e
  <2>1. Enough \subseteq Nat /\ Enough # {}
    BY <1>1
  <2> HIDE DEF Enough
  <2> QED BY <2>1, Least
<1>3. d \in least .. least + n /\ Is(d)
  <2>1. d \in least .. least + n /\ n < Power[Digit * d]
    BY <1>1, <1>2
  <2>2. ASSUME d > least PROVE n >= Power[Digit * (d - 1)]
    <3>1. d - 1 \in Nat /\ least <= d - 1 /\ d - 1 \notin Enough
      BY <1>2, <2>1, <2>2
    <3>2. Digit * (d - 1) \in Nat
      BY <3>1, BaseIs
    <3>3. Power[Digit * (d - 1)] \in Nat
      BY <3>2, PowerSteps
    <3> QED BY <3>1, <3>3
  <2> QED BY <2>1, <2>2
<1>4. HexLength(n, least) = CHOOSE e \in least .. least + n : Is(e)
  BY DEF HexLength
<1> HIDE DEF Is
<1>5. HexLength(n, least) \in least .. least + n /\ Is(HexLength(n, least))
  BY <1>3, <1>4
<1> QED BY <1>5 DEF Is

\* A number that fits has the bytes that it is to have.
LEMMA NumberFits ==
  ASSUME NEW n \in Nat, NEW size \in Nat, n < Power[Bits * size]
  PROVE  BigIntToBytes(n, size) = BytesOf(n, size)
<1> DEFINE d == HexLength(n, 2 * size)
<1>1. /\ d \in Nat /\ 2 * size <= d
      /\ d > 2 * size => n >= Power[Digit * (d - 1)]
  <2>1. 2 * size \in Nat
    OBVIOUS
  <2> QED BY <2>1, HexLengthIs
<1>2. d = 2 * size
  <2> HIDE DEF d
  <2> SUFFICES ASSUME d > 2 * size PROVE FALSE
    BY <1>1
  <2>1. Bits * size <= Digit * (d - 1) /\ Bits * size \in Nat /\ Digit * (d - 1) \in Nat
    <3>1. d - 1 \in Nat /\ 2 * size <= d - 1 /\ 2 * size \in Nat
      BY <1>1
    <3>2. \A x, y, z \in Nat : x <= y => z * x <= z * y /\ z * x \in Nat /\ z * y \in Nat
      OBVIOUS
    <3>3. Digit * (2 * size) <= Digit * (d - 1) /\ Digit * (2 * size) \in Nat /\ Digit * (d - 1) \in Nat
      BY <3>1, <3>2, BaseIs
    <3>4. Digit * (2 * size) = Bits * size
      <4>1. \A x, y \in Nat : x * (2 * y) = (2 * x) * y
        OBVIOUS
      <4> QED BY <4>1, BaseIs
    <3> QED BY <3>3, <3>4
  <2>2. Power[Bits * size] <= Power[Digit * (d - 1)]
    BY <2>1, PowerGrows
  <2>3. Power[Bits * size] \in Nat /\ Power[Digit * (d - 1)] \in Nat
    BY <2>1, PowerSteps
  <2> QED BY <1>1, <2>2, <2>3
<1>3. BigIntToBytes(n, size) = BytesOf(n \div Power[Digit * (d % 2)], d \div 2)
  BY DEF BigIntToBytes
<1>4. d % 2 = 0 /\ d \div 2 = size
  <2> HIDE DEF d
  <2> QED BY <1>2
<1>5. Power[Digit * (d % 2)] = 1
  <2>1. Digit * 0 = 0
    BY BaseIs
  <2> QED BY <1>4, <2>1, PowerSteps
<1>6. n \div 1 = n
  OBVIOUS
<1> HIDE DEF d
<1> QED BY <1>3, <1>4, <1>5, <1>6

\* Any number has bytes, and at least so many.
LEMMA BigIntToBytesIs ==
  ASSUME NEW n \in Nat, NEW size \in Nat
  PROVE  BigIntToBytes(n, size) \in ByteStrings /\ size <= Len(BigIntToBytes(n, size))
<1> DEFINE d == HexLength(n, 2 * size)
<1>1. d \in Nat /\ 2 * size <= d
  <2>1. 2 * size \in Nat
    OBVIOUS
  <2> QED BY <2>1, HexLengthIs
<1>2. BigIntToBytes(n, size) = BytesOf(n \div Power[Digit * (d % 2)], d \div 2)
  BY DEF BigIntToBytes
<1> HIDE DEF d
<1>3. d \div 2 \in Nat /\ size <= d \div 2 /\ d % 2 \in Nat
  BY <1>1
<1>4. Digit * (d % 2) \in Nat
  BY <1>3, BaseIs
<1> DEFINE p == Power[Digit * (d % 2)]
<1>5. p \in Nat \ {0}
  BY <1>4, PowerSteps
<1> HIDE DEF p
<1>6. n \div p \in Nat
  BY <1>5, Divided
<1> QED BY <1>2, <1>3, <1>6, BytesOfIs DEF p

\* The bytes of a length that are left of it, two.
LEMMA LengthBytes ==
  ASSUME NEW n \in Nat
  PROVE  LET bytes == SubSeq(BigIntToBytes(n, LengthSize), 1, LengthSize)
         IN  bytes \in ByteStrings /\ Len(bytes) = LengthSize
<1> DEFINE bytes == BigIntToBytes(n, LengthSize)
<1>1. bytes \in ByteStrings /\ 2 <= Len(bytes)
  BY BigIntToBytesIs DEF LengthSize
<1> HIDE DEF bytes
<1>2. SubSeq(bytes, 0 + 1, 0 + 2) \in Seq(0 .. Base - 1) /\ Len(SubSeq(bytes, 0 + 1, 0 + 2)) = 2
  <2> DEFINE S == 0 .. Base - 1
             m == 0
             k == 2
  <2>1. bytes \in Seq(S) /\ m \in Nat /\ k \in Nat /\ m + k <= Len(bytes)
    BY <1>1 DEF ByteStrings
  <2> HIDE DEF S, m, k
  <2>2. SubSeq(bytes, m + 1, m + k) \in Seq(S) /\ Len(SubSeq(bytes, m + 1, m + k)) = k
    BY <2>1, SliceOf
  <2> QED BY <2>2 DEF S, m, k
<1>3. 0 + 1 = 1 /\ 0 + 2 = 2
  OBVIOUS
<1>4. SubSeq(bytes, 1, 2) \in ByteStrings /\ Len(SubSeq(bytes, 1, 2)) = 2
  BY <1>2, <1>3 DEF ByteStrings
<1> QED BY <1>4 DEF bytes, LengthSize

\* A length or a position up to MaxLen has its two bytes.
LEMMA LengthIsRead ==
  ASSUME NEW n \in 0 .. MaxLen
  PROVE  /\ BytesOf(n, LengthSize) \in ByteStrings /\ Len(BytesOf(n, LengthSize)) = LengthSize
         /\ BytesToBigInt(BytesOf(n, LengthSize)) = n
         /\ BigIntToBytes(n, LengthSize) = BytesOf(n, LengthSize)
<1>1. n \in Nat /\ LengthSize \in Nat /\ n < Power[Bits * LengthSize]
  BY BaseIs DEF LengthSize
<1> QED BY <1>1, BytesOfIs, NumberIsRead, NumberFits

\* Every bit of a sum of different powers is that of its power.
LEMMA BitsAreRead ==
  ASSUME NEW bit, \A n \in 1 .. Bits : bit[n] \in {0, Power[Bits - n]}
  PROVE  /\ Total(bit, Bits) \in 0 .. Base - 1
         /\ \A n \in 1 .. Bits :
              (Total(bit, Bits) \div Power[Bits - n]) % 2 = IF bit[n] = 0 THEN 0 ELSE 1
<1> DEFINE H(n) == Total(bit, n)
           P(n) == Power[Bits - n]
<1>1. ASSUME NEW n \in 0 .. Bits PROVE P(n) \in Nat \ {0}
  <2>1. Bits - n \in Nat
    BY BaseIs
  <2> QED BY <2>1, PowerSteps
<1>2. ASSUME NEW n \in 1 .. Bits PROVE P(n - 1) = 2 * P(n)
  <2>1. Bits - n \in Nat /\ (Bits - n) + 1 = Bits - (n - 1)
    BY BaseIs
  <2> QED BY <2>1, PowerSteps
<1>3. \A n \in 1 .. Bits : bit[n] \in Nat
  <2> SUFFICES ASSUME NEW n \in 1 .. Bits PROVE bit[n] \in Nat
    OBVIOUS
  <2>1. P(n) \in Nat /\ bit[n] \in {0, P(n)}
    BY <1>1
  <2> QED BY <2>1
<1>4. /\ H(0) = 0
      /\ \A n \in 1 .. Bits : H(n) = H(n - 1) + bit[n]
      /\ \A n \in 0 .. Bits : H(n) \in Nat
  <2>1. Bits \in Nat
    BY BaseIs
  <2> QED BY <1>3, <2>1, TotalOfNat
<1> DEFINE B(n) == IF bit[n] = 0 THEN 0 ELSE 1
           Upper == {n \in 0 .. Bits : \E q \in Nat : H(n) = P(n) * q}
           Lower == {k \in 0 .. Bits : H(Bits) - H(Bits - k) \in 0 .. P(Bits - k) - 1}
<1>5. ASSUME NEW n \in 1 .. Bits, NEW q \in Nat, H(n - 1) = P(n - 1) * q
      PROVE  H(n) = P(n) * (2 * q + B(n))
  <2> DEFINE p == P(n)
             h == H(n - 1)
  <2>1. p \in Nat /\ h = (2 * p) * q /\ H(n) = h + bit[n] /\ bit[n] \in {0, p}
    BY <1>1, <1>2, <1>4, <1>5
  <2>2. (2 * p) * q = p * (2 * q)
    <3> HIDE DEF p
    <3> QED BY <2>1
  <2>3. CASE bit[n] = 0
    <3>1. H(n) = p * (2 * q) + 0 /\ B(n) = 0
      BY <2>1, <2>2, <2>3
    <3>2. p * (2 * q) + 0 = p * (2 * q + 0)
      <4> HIDE DEF p
      <4> QED BY <2>1
    <3> QED BY <3>1, <3>2
  <2>4. CASE bit[n] # 0
    <3>1. H(n) = p * (2 * q) + p /\ B(n) = 1
      BY <2>1, <2>2, <2>4
    <3>2. p * (2 * q) + p = p * (2 * q + 1)
      <4> HIDE DEF p
      <4> QED BY <2>1
    <3> QED BY <3>1, <3>2
  <2> QED BY <2>3, <2>4
<1>6. 0 .. Bits \subseteq Upper
  <2>1. 0 \in Upper
    <3>1. 0 \in 0 .. Bits /\ P(0) \in Nat
      BY <1>1, BaseIs
    <3>2. H(0) = P(0) * 0
      <4> HIDE DEF P, H
      <4> QED BY <1>4, <3>1
    <3> QED BY <3>1, <3>2
  <2>2. ASSUME NEW n \in 1 .. Bits, n - 1 \in Upper PROVE n \in Upper
    <3>1. PICK q \in Nat : H(n - 1) = P(n - 1) * q
      BY <2>2
    <3>2. H(n) = P(n) * (2 * q + B(n)) /\ 2 * q + B(n) \in Nat
      BY <1>5, <3>1
    <3> QED BY <3>2
  <2>3. Bits \in Nat
    BY BaseIs
  <2> HIDE DEF Upper
  <2> QED BY <2>1, <2>2, <2>3, InductionUpTo
<1>7. 0 .. Bits \subseteq Lower
  <2>1. 0 \in Lower
    <3>1. Bits \in 0 .. Bits /\ Bits - 0 = Bits /\ 0 \in 0 .. Bits
      BY BaseIs
    <3>2. P(Bits) \in Nat \ {0} /\ H(Bits) \in Nat
      BY <1>1, <1>4, <3>1
    <3> HIDE DEF P, H
    <3> QED BY <3>1, <3>2
  <2>2. ASSUME NEW k \in 1 .. Bits, k - 1 \in Lower PROVE k \in Lower
    <3> DEFINE n == Bits - (k - 1)
    <3>1. n \in 1 .. Bits /\ n - 1 = Bits - k /\ n - 1 \in 0 .. Bits /\ n \in 0 .. Bits
      BY BaseIs
    <3>2. Bits \in 0 .. Bits
      BY BaseIs
    <3> DEFINE p == P(n)
               p1 == P(n - 1)
               h == H(n)
               h1 == H(n - 1)
               t == H(Bits)
    <3>3. p \in Nat /\ p1 = 2 * p /\ h = h1 + bit[n] /\ h1 \in Nat /\ t \in Nat /\ bit[n] \in {0, p}
      BY <1>1, <1>2, <1>4, <3>1, <3>2
    <3>4. t - h \in 0 .. p - 1
      BY <2>2
    <3>5. t - h1 \in 0 .. p1 - 1
      <4> HIDE DEF p, p1, h, h1, t
      <4>1. CASE bit[n] = 0
        BY <3>3, <3>4, <4>1
      <4>2. CASE bit[n] = p
        BY <3>3, <3>4, <4>2
      <4> QED BY <3>3, <4>1, <4>2
    <3>6. k \in 0 .. Bits /\ h1 = H(Bits - k) /\ p1 = P(Bits - k)
      BY <3>1
    <3> QED BY <3>5, <3>6
  <2>3. Bits \in Nat
    BY BaseIs
  <2> HIDE DEF Lower
  <2> QED BY <2>1, <2>2, <2>3, InductionUpTo
<1>8. ASSUME NEW n \in 0 .. Bits PROVE H(Bits) - H(n) \in 0 .. P(n) - 1
  <2>1. Bits - n \in 0 .. Bits /\ Bits - (Bits - n) = n
    BY BaseIs
  <2>2. Bits - n \in Lower
    BY <1>7, <2>1
  <2>3. H(Bits) - H(Bits - (Bits - n)) \in 0 .. P(Bits - (Bits - n)) - 1
    BY <2>2
  <2> HIDE DEF H, P
  <2> QED BY <2>1, <2>3
<1>9. H(Bits) \in 0 .. Base - 1
  <2>1. 0 \in 0 .. Bits /\ Bits - 0 = Bits /\ P(0) = Base /\ Bits \in 0 .. Bits
    BY BaseIs
  <2>2. H(Bits) - H(0) \in 0 .. P(0) - 1 /\ H(Bits) \in Nat
    BY <1>4, <1>8, <2>1
  <2> HIDE DEF H, P
  <2> QED BY <1>4, <2>1, <2>2
<1>10. ASSUME NEW n \in 1 .. Bits PROVE (H(Bits) \div P(n)) % 2 = B(n)
  <2>1. n \in 0 .. Bits /\ n - 1 \in 0 .. Bits /\ Bits \in 0 .. Bits
    BY BaseIs
  <2>2. PICK q \in Nat : H(n - 1) = P(n - 1) * q
    BY <1>6, <2>1
  <2> DEFINE p == P(n)
             r == H(Bits) - H(n)
             c == 2 * q + B(n)
  <2>3. H(n) = p * c /\ c \in Nat /\ B(n) \in {0, 1}
    BY <1>5, <2>2
  <2>4. p \in Nat \ {0} /\ r \in 0 .. p - 1 /\ H(Bits) \in Nat /\ H(n) \in Nat
    BY <1>1, <1>4, <1>8, <2>1
  <2>5. H(Bits) = p * c + r
    <3> HIDE DEF c, p, H
    <3> QED BY <2>3, <2>4
  <2>6. (p * c + r) \div p = c
    <3> HIDE DEF c, p, r
    <3> QED BY <2>3, <2>4, QuotientIs
  <2>7. c % 2 = B(n)
    <3> HIDE DEF B
    <3> QED BY <2>3
  <2> HIDE DEF c, r, H, B
  <2> QED BY <2>5, <2>6, <2>7
<1> QED BY <1>9, <1>10

-----------------------------------------------------------------------------
(* Types *)

\* The depth of types.
LEMMA DepthIs == MaxDepth \in Nat
  BY AbiAssumption

\* Types by depth are what their definition says.
LEMMA TypesToIs ==
  /\ TypesTo[0] = SimpleTypes
  /\ \A d \in 1 .. MaxDepth : TypesTo[d] = SimpleTypes \cup TypesOf(TypesTo[d - 1])
<1> DEFINE D(f, d) == IF d = 0 THEN SimpleTypes ELSE SimpleTypes \cup TypesOf(f[d - 1])
           Is(f, n) == f = [d \in 0 .. n |-> D(f, d)]
           Good == {n \in 0 .. MaxDepth : \E f : Is(f, n)}
<1>1. 0 \in Good
  <2> DEFINE f == [d \in 0 .. 0 |-> SimpleTypes]
  <2>1. \A d \in 0 .. 0 : f[d] = D(f, d)
    OBVIOUS
  <2>2. f = [d \in 0 .. 0 |-> f[d]]
    OBVIOUS
  <2> HIDE DEF f
  <2>3. Is(f, 0)
    BY <2>1, <2>2
  <2> QED BY <2>3, DepthIs
<1>2. ASSUME NEW n \in 1 .. MaxDepth, n - 1 \in Good PROVE n \in Good
  <2>1. PICK f : Is(f, n - 1)
    <3>1. \E f : Is(f, n - 1)
      BY <1>2
    <3> HIDE DEF Is
    <3> QED BY <3>1
  <2> DEFINE h == [d \in 0 .. n |-> D(f, d)]
  <2>2. ASSUME NEW d \in 0 .. n PROVE h[d] = D(h, d)
    <3>1. CASE d = 0
      BY <3>1
    <3>2. CASE d # 0
      <4>1. d - 1 \in 0 .. n - 1 /\ d - 1 \in 0 .. n
        BY <3>2
      <4>2. f[d - 1] = D(f, d - 1) /\ h[d - 1] = D(f, d - 1)
        BY <2>1, <4>1
      <4>3. f[d - 1] = h[d - 1] /\ h[d] = D(f, d)
        BY <4>2
      <4> HIDE DEF h
      <4> QED BY <4>3
    <3> QED BY <3>1, <3>2
  <2>3. h = [d \in 0 .. n |-> h[d]]
    OBVIOUS
  <2> HIDE DEF h
  <2>4. Is(h, n)
    BY <2>2, <2>3
  <2> QED BY <2>4
<1>3. MaxDepth \in Good
  <2>1. 0 .. MaxDepth \subseteq Good
    <3> HIDE DEF Good
    <3> QED BY <1>1, <1>2, DepthIs, InductionUpTo
  <2> QED BY <2>1, DepthIs
<1>4. TypesTo = CHOOSE f : Is(f, MaxDepth)
  BY DEF TypesTo
<1>5. Is(TypesTo, MaxDepth)
  <2>1. \E f : Is(f, MaxDepth)
    BY <1>3
  <2> HIDE DEF Is
  <2> QED BY <1>4, <2>1
<1>6. ASSUME NEW d \in 0 .. MaxDepth PROVE TypesTo[d] = D(TypesTo, d)
  BY <1>5
<1>7. 0 \in 0 .. MaxDepth
  BY DepthIs
<1>8. TypesTo[0] = SimpleTypes
  BY <1>6, <1>7
<1>9. ASSUME NEW d \in 1 .. MaxDepth PROVE TypesTo[d] = SimpleTypes \cup TypesOf(TypesTo[d - 1])
  <2>1. d \in 0 .. MaxDepth /\ d # 0
    OBVIOUS
  <2> QED BY <1>6, <2>1
<1> QED BY <1>8, <1>9

\* Values by depth are what their definition says.
LEMMA ValuesToIs ==
  /\ ValuesTo[0] = SimpleValues
  /\ \A d \in 1 .. MaxDepth : ValuesTo[d] = SimpleValues \cup ({"array"} \X Seq(ValuesTo[d - 1]))
<1> DEFINE D(f, d) == IF d = 0 THEN SimpleValues ELSE SimpleValues \cup ({"array"} \X Seq(f[d - 1]))
           Is(f, n) == f = [d \in 0 .. n |-> D(f, d)]
           Good == {n \in 0 .. MaxDepth : \E f : Is(f, n)}
<1>1. 0 \in Good
  <2> DEFINE f == [d \in 0 .. 0 |-> SimpleValues]
  <2>1. \A d \in 0 .. 0 : f[d] = D(f, d)
    OBVIOUS
  <2>2. f = [d \in 0 .. 0 |-> f[d]]
    OBVIOUS
  <2> HIDE DEF f
  <2>3. Is(f, 0)
    BY <2>1, <2>2
  <2> QED BY <2>3, DepthIs
<1>2. ASSUME NEW n \in 1 .. MaxDepth, n - 1 \in Good PROVE n \in Good
  <2>1. PICK f : Is(f, n - 1)
    <3>1. \E f : Is(f, n - 1)
      BY <1>2
    <3> HIDE DEF Is
    <3> QED BY <3>1
  <2> DEFINE h == [d \in 0 .. n |-> D(f, d)]
  <2>2. ASSUME NEW d \in 0 .. n PROVE h[d] = D(h, d)
    <3>1. CASE d = 0
      BY <3>1
    <3>2. CASE d # 0
      <4>1. d - 1 \in 0 .. n - 1 /\ d - 1 \in 0 .. n
        BY <3>2
      <4>2. f[d - 1] = D(f, d - 1) /\ h[d - 1] = D(f, d - 1)
        BY <2>1, <4>1
      <4>3. f[d - 1] = h[d - 1] /\ h[d] = D(f, d)
        BY <4>2
      <4> HIDE DEF h
      <4> QED BY <4>3
    <3> QED BY <3>1, <3>2
  <2>3. h = [d \in 0 .. n |-> h[d]]
    OBVIOUS
  <2> HIDE DEF h
  <2>4. Is(h, n)
    BY <2>2, <2>3
  <2> QED BY <2>4
<1>3. MaxDepth \in Good
  <2>1. 0 .. MaxDepth \subseteq Good
    <3> HIDE DEF Good
    <3> QED BY <1>1, <1>2, DepthIs, InductionUpTo
  <2> QED BY <2>1, DepthIs
<1>4. ValuesTo = CHOOSE f : Is(f, MaxDepth)
  BY DEF ValuesTo
<1>5. Is(ValuesTo, MaxDepth)
  <2>1. \E f : Is(f, MaxDepth)
    BY <1>3
  <2> HIDE DEF Is
  <2> QED BY <1>4, <2>1
<1>6. ASSUME NEW d \in 0 .. MaxDepth PROVE ValuesTo[d] = D(ValuesTo, d)
  BY <1>5
<1>7. 0 \in 0 .. MaxDepth
  BY DepthIs
<1>8. ValuesTo[0] = SimpleValues
  BY <1>6, <1>7
<1>9. ASSUME NEW d \in 1 .. MaxDepth
      PROVE  ValuesTo[d] = SimpleValues \cup ({"array"} \X Seq(ValuesTo[d - 1]))
  <2>1. d \in 0 .. MaxDepth /\ d # 0
    OBVIOUS
  <2> QED BY <1>6, <2>1
<1> QED BY <1>8, <1>9

\* Of more types inside there are more types.
LEMMA TypesOfGrows ==
  ASSUME NEW A, NEW B, A \subseteq B
  PROVE  TypesOf(A) \subseteq TypesOf(B)
<1>1. Seq(A) \subseteq Seq(B)
  OBVIOUS
<1> QED BY <1>1 DEF TypesOf

\* The types of one depth, and those inside them.
LEMMA TypesNested ==
  ASSUME NEW d \in 1 .. MaxDepth
  PROVE  /\ TypesTo[d - 1] \subseteq TypesTo[d]
         /\ TypesTo[d] = SimpleTypes \cup TypesOf(TypesTo[d - 1])
<1> DEFINE Good == {c \in 0 .. MaxDepth : c > 0 => TypesTo[c - 1] \subseteq TypesTo[c]}
<1>1. 0 \in Good
  BY DepthIs
<1>2. ASSUME NEW c \in 1 .. MaxDepth, c - 1 \in Good PROVE c \in Good
  <2>1. TypesTo[c] = SimpleTypes \cup TypesOf(TypesTo[c - 1])
    BY TypesToIs
  <2>2. CASE c = 1
    <3>1. TypesTo[c - 1] = SimpleTypes
      BY <2>2, TypesToIs
    <3> QED BY <2>1, <3>1
  <2>3. CASE c # 1
    <3>1. c - 1 \in 1 .. MaxDepth
      BY <2>3, DepthIs
    <3>2. TypesTo[c - 1] = SimpleTypes \cup TypesOf(TypesTo[(c - 1) - 1])
      BY <3>1, TypesToIs
    <3>3. TypesTo[(c - 1) - 1] \subseteq TypesTo[c - 1]
      BY <1>2, <3>1
    <3>4. TypesOf(TypesTo[(c - 1) - 1]) \subseteq TypesOf(TypesTo[c - 1])
      BY <3>3, TypesOfGrows
    <3>5. TypesTo[c - 1] \subseteq TypesTo[c]
      BY <2>1, <3>2, <3>4
    <3> QED BY <3>5
  <2> QED BY <2>2, <2>3
<1>3. 0 .. MaxDepth \subseteq Good
  <2> HIDE DEF Good
  <2> QED BY <1>1, <1>2, DepthIs, InductionUpTo
<1>4. d \in Good /\ d > 0
  BY <1>3
<1> QED BY <1>4, TypesToIs

\* What is nested less deep is a type too.
LEMMA TypesGrow ==
  \A d \in 0 .. MaxDepth : TypesTo[d] \subseteq Types
<1> DEFINE Below == {k \in 0 .. MaxDepth : TypesTo[MaxDepth - k] \subseteq Types}
<1>1. 0 \in Below
  BY DepthIs DEF Types
<1>2. ASSUME NEW k \in 1 .. MaxDepth, k - 1 \in Below PROVE k \in Below
  <2>1. MaxDepth - (k - 1) \in 1 .. MaxDepth /\ (MaxDepth - (k - 1)) - 1 = MaxDepth - k
    BY DepthIs
  <2>2. TypesTo[MaxDepth - k] \subseteq TypesTo[MaxDepth - (k - 1)]
    BY <2>1, TypesNested
  <2>3. TypesTo[MaxDepth - k] \subseteq Types
    BY <1>2, <2>2
  <2> QED BY <2>3
<1>3. 0 .. MaxDepth \subseteq Below
  <2> HIDE DEF Below
  <2> QED BY <1>1, <1>2, DepthIs, InductionUpTo
<1>4. ASSUME NEW d \in 0 .. MaxDepth PROVE TypesTo[d] \subseteq Types
  <2>1. MaxDepth - d \in 0 .. MaxDepth /\ MaxDepth - (MaxDepth - d) = d
    BY DepthIs
  <2>2. MaxDepth - d \in Below
    BY <1>3, <2>1
  <2> QED BY <2>1, <2>2
<1> QED BY <1>4

\* A set that has the simple types, and the types of parts that it has, has all.
LEMMA TypeInduction ==
  ASSUME NEW S, SimpleTypes \subseteq S, TypesOf(S \cap Types) \cap Types \subseteq S
  PROVE  Types \subseteq S
<1> DEFINE Good == {d \in 0 .. MaxDepth : TypesTo[d] \subseteq S \cap Types}
<1>1. 0 \in Good
  <2>1. 0 \in 0 .. MaxDepth
    BY DepthIs
  <2>2. TypesTo[0] \subseteq Types /\ TypesTo[0] = SimpleTypes
    BY <2>1, TypesGrow, TypesToIs
  <2> QED BY <2>1, <2>2
<1>2. ASSUME NEW d \in 1 .. MaxDepth, d - 1 \in Good PROVE d \in Good
  <2>1. TypesTo[d] = SimpleTypes \cup TypesOf(TypesTo[d - 1])
    BY TypesToIs
  <2>2. TypesOf(TypesTo[d - 1]) \subseteq TypesOf(S \cap Types)
    BY <1>2, TypesOfGrows
  <2>3. TypesTo[d] \subseteq Types
    BY TypesGrow
  <2>4. TypesTo[d] \subseteq S
    BY <2>1, <2>2, <2>3
  <2> QED BY <2>3, <2>4
<1>3. 0 .. MaxDepth \subseteq Good
  <2> HIDE DEF Good
  <2> QED BY <1>1, <1>2, DepthIs, InductionUpTo
<1>4. MaxDepth \in Good
  BY <1>3, DepthIs
<1> QED BY <1>4 DEF Types

\* The types without others inside.
LEMMA SimpleCases ==
  ASSUME NEW type \in SimpleTypes
  PROVE  \/ type[1] = "uint" /\ type[2] \in Nat \ {0} /\ type = Uint(type[2])
         \/ type[1] = "byte" /\ type = Byte
         \/ type[1] = "bool" /\ type = Bool
         \/ type[1] = "address" /\ type = AddressType
         \/ type[1] = "string" /\ type = Text
BY DEF SimpleTypes, Uint, Byte, Bool, AddressType, Text

\* The types with others inside.
LEMMA CompositeCases ==
  ASSUME NEW parts, NEW type \in TypesOf(parts)
  PROVE  \/ /\ type[1] = "array" /\ type[2] \in parts /\ type[3] \in 0 .. MaxLen
            /\ type = Array(type[2], type[3])
         \/ type[1] = "list" /\ type[2] \in parts /\ type = List(type[2])
         \/ /\ type[1] = "tuple" /\ type[2] \in Seq(parts) /\ Len(type[2]) < MaxLen
            /\ type = Tuple(type[2])
<1>1. CASE type \in {"array"} \X parts \X (0 .. MaxLen)
  BY <1>1 DEF Array
<1>2. CASE type \in {"list"} \X parts
  BY <1>2 DEF List
<1>3. CASE type \in {"tuple"} \X {types \in Seq(parts) : Len(types) < MaxLen}
  BY <1>3 DEF Tuple
<1> QED BY <1>1, <1>2, <1>3 DEF TypesOf

\* A type is a simple one or has types inside.
LEMMA TypeCases ==
  ASSUME NEW type \in Types
  PROVE  type \in SimpleTypes \/ type \in TypesOf(Types)
<1> DEFINE S == SimpleTypes \cup TypesOf(Types)
<1>1. SimpleTypes \subseteq S
  OBVIOUS
<1>2. TypesOf(S \cap Types) \subseteq TypesOf(Types)
  BY TypesOfGrows
<1>3. TypesOf(S \cap Types) \cap Types \subseteq S
  BY <1>2
<1> HIDE DEF S
<1>4. Types \subseteq S
  BY <1>1, <1>3, TypeInduction
<1> QED BY <1>4 DEF S

\* A simple type is a type at every depth.
LEMMA SimpleTypesAreTypes == SimpleTypes \subseteq Types
<1>1. 0 \in 0 .. MaxDepth
  BY DepthIs
<1> QED BY <1>1, TypesGrow, TypesToIs

-----------------------------------------------------------------------------
(* The functions on types are what their definitions say *)

\* There is a function that does what isDynamic does, and it is chosen.
LEMMA IsDynamicIs ==
  IsDynamic = [type \in Types |->
    \/ type[1] \in {"string", "list"}
    \/ type[1] = "array" /\ IsDynamic[type[2]]
    \/ type[1] = "tuple" /\ \E i \in DOMAIN type[2] : IsDynamic[type[2][i]]]
<1> DEFINE D(f, type) ==
      \/ type[1] \in {"string", "list"}
      \/ type[1] = "array" /\ f[type[2]]
      \/ type[1] = "tuple" /\ \E i \in DOMAIN type[2] : f[type[2][i]]
           Is(f, S) == f = [type \in S |-> D(f, type)]
<1>1. ASSUME NEW type \in SimpleTypes, NEW f, NEW h PROVE D(f, type) = D(h, type)
  BY SimpleCases
<1>2. ASSUME NEW parts, NEW type \in TypesOf(parts), NEW f, NEW h,
             \A p \in parts : f[p] = h[p]
      PROVE  D(f, type) = D(h, type)
  <2>1. type[1] = "array" => f[type[2]] = h[type[2]]
    BY <1>2, CompositeCases
  <2>2. type[1] = "tuple" => \A i \in DOMAIN type[2] : f[type[2][i]] = h[type[2][i]]
    BY <1>2, CompositeCases, ElementIs
  <2> QED BY <2>1, <2>2
<1>3. \E f : Is(f, Types)
  <2> HIDE DEF D
  <2> DEFINE Good == {d \in 0 .. MaxDepth : \E f : Is(f, TypesTo[d])}
  <2>1. 0 \in Good
    <3> DEFINE f == [type \in SimpleTypes |-> D(0, type)]
    <3>1. \A type \in SimpleTypes : f[type] = D(f, type)
      BY <1>1
    <3>2. f = [type \in SimpleTypes |-> f[type]]
      OBVIOUS
    <3> HIDE DEF f
    <3>3. Is(f, TypesTo[0])
      BY <3>1, <3>2, TypesToIs
    <3> QED BY <3>3, DepthIs
  <2>2. ASSUME NEW d \in 1 .. MaxDepth, d - 1 \in Good PROVE d \in Good
    <3>1. \E f : Is(f, TypesTo[d - 1])
      BY <2>2
    <3> HIDE DEF Is
    <3>2. PICK f : Is(f, TypesTo[d - 1])
      BY <3>1
    <3> USE DEF Is
    <3> DEFINE h == [type \in TypesTo[d] |-> D(f, type)]
    <3>3. /\ TypesTo[d - 1] \subseteq TypesTo[d]
          /\ TypesTo[d] = SimpleTypes \cup TypesOf(TypesTo[d - 1])
      BY TypesNested
    <3>4. \A type \in TypesTo[d - 1] : f[type] = h[type]
      BY <3>2, <3>3
    <3>5. \A type \in TypesTo[d] : h[type] = D(f, type)
      OBVIOUS
    <3>6. h = [type \in TypesTo[d] |-> h[type]]
      OBVIOUS
    <3> HIDE DEF h
    <3>7. \A type \in TypesTo[d] : D(f, type) = D(h, type)
      BY <1>1, <1>2, <3>3, <3>4
    <3>8. Is(h, TypesTo[d])
      BY <3>5, <3>6, <3>7
    <3> QED BY <3>8
  <2>3. 0 .. MaxDepth \subseteq Good
    <3> HIDE DEF Good
    <3> QED BY <2>1, <2>2, DepthIs, InductionUpTo
  <2>4. MaxDepth \in Good
    BY <2>3, DepthIs
  <2> QED BY <2>4 DEF Types
<1>4. IsDynamic = CHOOSE f : Is(f, Types)
  BY DEF IsDynamic
<1>5. Is(IsDynamic, Types)
  <2> HIDE DEF Is
  <2> QED BY <1>3, <1>4
<1> QED BY <1>5

\* The size of the heads depends on the types inside only.
LEMMA TupleSizeIsLocal ==
  ASSUME NEW types, NEW f, NEW h, \A i \in DOMAIN types : f[types[i]] = h[types[i]]
  PROVE  TupleSize(types, f) = TupleSize(types, h)
<1>1. \A i \in DOMAIN types : HeadSize(types, i, f) = HeadSize(types, i, h)
  BY DEF HeadSize
<1>2. HeadSizes(types, f) = HeadSizes(types, h)
  BY <1>1 DEF HeadSizes
<1> QED BY <1>2 DEF TupleSize

\* There is a function that does what byteLen does, and it is chosen.
LEMMA ByteLenIs ==
  ByteLen = [type \in Types |->
    ByteLenOf(type, ByteLen)]
<1> DEFINE D(f, type) ==
      ByteLenOf(type, f)
           Is(f, S) == f = [type \in S |-> D(f, type)]
<1>1. ASSUME NEW type \in SimpleTypes, NEW f, NEW h PROVE D(f, type) = D(h, type)
  <2>1. type[1] # "array" /\ type[1] # "tuple"
    BY SimpleCases
  <2> QED BY <2>1 DEF ByteLenOf
<1>2. ASSUME NEW parts, NEW type \in TypesOf(parts), NEW f, NEW h,
             \A p \in parts : f[p] = h[p]
      PROVE  D(f, type) = D(h, type)
  <2>1. type[1] = "array" => f[type[2]] = h[type[2]]
    BY <1>2, CompositeCases
  <2>2. type[1] = "tuple" => TupleSize(type[2], f) = TupleSize(type[2], h)
    BY <1>2, CompositeCases, ElementIs, TupleSizeIsLocal
  <2> QED BY <2>1, <2>2 DEF ByteLenOf
<1>3. \E f : Is(f, Types)
  <2> HIDE DEF D
  <2> DEFINE Good == {d \in 0 .. MaxDepth : \E f : Is(f, TypesTo[d])}
  <2>1. 0 \in Good
    <3> DEFINE f == [type \in SimpleTypes |-> D(0, type)]
    <3>1. \A type \in SimpleTypes : f[type] = D(f, type)
      BY <1>1
    <3>2. f = [type \in SimpleTypes |-> f[type]]
      OBVIOUS
    <3> HIDE DEF f
    <3>3. Is(f, TypesTo[0])
      BY <3>1, <3>2, TypesToIs
    <3> QED BY <3>3, DepthIs
  <2>2. ASSUME NEW d \in 1 .. MaxDepth, d - 1 \in Good PROVE d \in Good
    <3>1. \E f : Is(f, TypesTo[d - 1])
      BY <2>2
    <3> HIDE DEF Is
    <3>2. PICK f : Is(f, TypesTo[d - 1])
      BY <3>1
    <3> USE DEF Is
    <3> DEFINE h == [type \in TypesTo[d] |-> D(f, type)]
    <3>3. /\ TypesTo[d - 1] \subseteq TypesTo[d]
          /\ TypesTo[d] = SimpleTypes \cup TypesOf(TypesTo[d - 1])
      BY TypesNested
    <3>4. \A type \in TypesTo[d - 1] : f[type] = h[type]
      BY <3>2, <3>3
    <3>5. \A type \in TypesTo[d] : h[type] = D(f, type)
      OBVIOUS
    <3>6. h = [type \in TypesTo[d] |-> h[type]]
      OBVIOUS
    <3> HIDE DEF h
    <3>7. \A type \in TypesTo[d] : D(f, type) = D(h, type)
      BY <1>1, <1>2, <3>3, <3>4
    <3>8. Is(h, TypesTo[d])
      BY <3>5, <3>6, <3>7
    <3> QED BY <3>8
  <2>3. 0 .. MaxDepth \subseteq Good
    <3> HIDE DEF Good
    <3> QED BY <2>1, <2>2, DepthIs, InductionUpTo
  <2>4. MaxDepth \in Good
    BY <2>3, DepthIs
  <2> QED BY <2>4 DEF Types
<1>4. ByteLen = CHOOSE f : Is(f, Types)
  BY DEF ByteLen
<1>5. Is(ByteLen, Types)
  <2> HIDE DEF Is
  <2> QED BY <1>3, <1>4
<1> QED BY <1>5

\* As many types as there are elements.
LEMMA RepeatedIs ==
  ASSUME NEW type, NEW n
  PROVE  /\ DOMAIN Repeated(type, n) = 1 .. n
         /\ \A i \in 1 .. n : Repeated(type, n)[i] = type
  BY DEF Repeated

\* The types inside a type.
LEMMA Inside ==
  ASSUME NEW parts, NEW type \in TypesOf(parts), NEW f, NEW h, \A p \in parts : f[p] = h[p]
  PROVE  /\ type[1] \in {"array", "list"} =>
              \A n : \A i \in DOMAIN Repeated(type[2], n) :
                f[Repeated(type[2], n)[i]] = h[Repeated(type[2], n)[i]]
         /\ type[1] = "tuple" => \A i \in DOMAIN type[2] : f[type[2][i]] = h[type[2][i]]
         /\ type[1] \in {"array", "list", "tuple"}
<1>1. type[1] \in {"array", "list"} => f[type[2]] = h[type[2]]
  BY CompositeCases
<1>2. type[1] = "tuple" => \A i \in DOMAIN type[2] : f[type[2][i]] = h[type[2][i]]
  BY CompositeCases, ElementIs
<1>3. type[1] \in {"array", "list", "tuple"}
  BY CompositeCases
<1>4. \A n : \A i \in DOMAIN Repeated(type[2], n) : Repeated(type[2], n)[i] = type[2]
  BY DEF Repeated
<1> QED BY <1>1, <1>2, <1>3, <1>4

\* What a tuple is encoded to depends on the types inside only.
LEMMA EncodeTupleIsLocal ==
  ASSUME NEW types, NEW elements, NEW f, NEW h, \A i \in DOMAIN types : f[types[i]] = h[types[i]]
  PROVE  EncodeTuple(types, elements, f) = EncodeTuple(types, elements, h)
<1>1. \A i \in DOMAIN types : EncodeHead(types, elements, i, f) = EncodeHead(types, elements, i, h)
  BY DEF EncodeHead
<1>2. \A i \in DOMAIN types : EncodeTail(types, elements, i, f) = EncodeTail(types, elements, i, h)
  BY DEF EncodeTail
<1>3. /\ [i \in DOMAIN types |-> EncodeHead(types, elements, i, f)]
           = [i \in DOMAIN types |-> EncodeHead(types, elements, i, h)]
      /\ [i \in DOMAIN types |-> EncodeTail(types, elements, i, f)]
           = [i \in DOMAIN types |-> EncodeTail(types, elements, i, h)]
  BY <1>1, <1>2
<1> QED BY <1>3 DEF EncodeTuple

\* There is a function that does what encode does, and it is chosen.
LEMMA AbiEncodeIs ==
  AbiEncode = [type \in Types |->
    [value \in AbiValues |-> EncodeAs(type, value, AbiEncode)]]
<1> DEFINE D(f, type) ==
      [value \in AbiValues |-> EncodeAs(type, value, f)]
           Is(f, S) == f = [type \in S |-> D(f, type)]
<1>1. ASSUME NEW type \in SimpleTypes, NEW f, NEW h PROVE D(f, type) = D(h, type)
  <2>1. type[1] \notin {"array", "list", "tuple"}
    BY SimpleCases
  <2> QED BY <2>1 DEF EncodeAs
<1>2. ASSUME NEW parts, NEW type \in TypesOf(parts), NEW f, NEW h,
             \A p \in parts : f[p] = h[p]
      PROVE  D(f, type) = D(h, type)
  <2>1. ASSUME NEW value PROVE EncodeAs(type, value, f) = EncodeAs(type, value, h)
    <3>1. CASE type[1] = "array"
      <4>1. EncodeArray(type[2], type[3], ElementsOf(value), f)
              = EncodeArray(type[2], type[3], ElementsOf(value), h)
        BY <1>2, <3>1, Inside, EncodeTupleIsLocal DEF EncodeArray
      <4> QED BY <3>1, <4>1 DEF EncodeAs
    <3>2. CASE type[1] = "list"
      <4>1. EncodeTuple(Repeated(type[2], Len(ElementsOf(value))), ElementsOf(value), f)
              = EncodeTuple(Repeated(type[2], Len(ElementsOf(value))), ElementsOf(value), h)
        BY <1>2, <3>2, Inside, EncodeTupleIsLocal
      <4>2. EncodeList(type[2], ElementsOf(value), f) = EncodeList(type[2], ElementsOf(value), h)
        BY <4>1 DEF EncodeList
      <4> QED BY <3>2, <4>2 DEF EncodeAs
    <3>3. CASE type[1] = "tuple"
      <4>1. EncodeTuple(type[2], ElementsOf(value), f) = EncodeTuple(type[2], ElementsOf(value), h)
        BY <1>2, <3>3, Inside, EncodeTupleIsLocal
      <4> QED BY <3>3, <4>1 DEF EncodeAs
    <3> QED BY <1>2, <3>1, <3>2, <3>3, Inside
  <2> QED BY <2>1
<1>3. \E f : Is(f, Types)
  <2> HIDE DEF D
  <2> DEFINE Good == {d \in 0 .. MaxDepth : \E f : Is(f, TypesTo[d])}
  <2>1. 0 \in Good
    <3> DEFINE f == [type \in SimpleTypes |-> D(0, type)]
    <3>1. \A type \in SimpleTypes : f[type] = D(f, type)
      BY <1>1
    <3>2. f = [type \in SimpleTypes |-> f[type]]
      OBVIOUS
    <3> HIDE DEF f
    <3>3. Is(f, TypesTo[0])
      BY <3>1, <3>2, TypesToIs
    <3> QED BY <3>3, DepthIs
  <2>2. ASSUME NEW d \in 1 .. MaxDepth, d - 1 \in Good PROVE d \in Good
    <3>1. \E f : Is(f, TypesTo[d - 1])
      BY <2>2
    <3> HIDE DEF Is
    <3>2. PICK f : Is(f, TypesTo[d - 1])
      BY <3>1
    <3> USE DEF Is
    <3> DEFINE h == [type \in TypesTo[d] |-> D(f, type)]
    <3>3. /\ TypesTo[d - 1] \subseteq TypesTo[d]
          /\ TypesTo[d] = SimpleTypes \cup TypesOf(TypesTo[d - 1])
      BY TypesNested
    <3>4. \A type \in TypesTo[d - 1] : f[type] = h[type]
      BY <3>2, <3>3
    <3>5. \A type \in TypesTo[d] : h[type] = D(f, type)
      OBVIOUS
    <3>6. h = [type \in TypesTo[d] |-> h[type]]
      OBVIOUS
    <3> HIDE DEF h
    <3>7. \A type \in TypesTo[d] : D(f, type) = D(h, type)
      BY <1>1, <1>2, <3>3, <3>4
    <3>8. Is(h, TypesTo[d])
      BY <3>5, <3>6, <3>7
    <3> QED BY <3>8
  <2>3. 0 .. MaxDepth \subseteq Good
    <3> HIDE DEF Good
    <3> QED BY <2>1, <2>2, DepthIs, InductionUpTo
  <2>4. MaxDepth \in Good
    BY <2>3, DepthIs
  <2> QED BY <2>4 DEF Types
<1>4. AbiEncode = CHOOSE f : Is(f, Types)
  BY DEF AbiEncode
<1>5. Is(AbiEncode, Types)
  <2> HIDE DEF Is
  <2> QED BY <1>3, <1>4
<1> QED BY <1>5

\* What a tuple is decoded to depends on the types inside only.
LEMMA DecodeTupleIsLocal ==
  ASSUME NEW types, NEW bytes, NEW f, NEW h, \A i \in DOMAIN types : f[types[i]] = h[types[i]]
  PROVE  DecodeTuple(types, bytes, f) = DecodeTuple(types, bytes, h)
<1>1. ASSUME NEW tails PROVE DecodeParts(types, bytes, tails, f) = DecodeParts(types, bytes, tails, h)
  <2>1. \A i \in DOMAIN types :
          DecodeElement(types, bytes, tails, i, f) = DecodeElement(types, bytes, tails, i, h)
    BY DEF DecodeElement
  <2>2. [i \in DOMAIN types |-> DecodeElement(types, bytes, tails, i, f)]
          = [i \in DOMAIN types |-> DecodeElement(types, bytes, tails, i, h)]
    BY <2>1
  <2> QED BY <2>2 DEF DecodeParts
<1> QED BY <1>1 DEF DecodeTuple

\* There is a function that does what decode does, and it is chosen.
LEMMA AbiDecodeIs ==
  AbiDecode = [type \in Types |->
    [bytes \in ByteStrings |-> DecodeAs(type, bytes, AbiDecode)]]
<1> DEFINE D(f, type) ==
      [bytes \in ByteStrings |-> DecodeAs(type, bytes, f)]
           Is(f, S) == f = [type \in S |-> D(f, type)]
<1>1. ASSUME NEW type \in SimpleTypes, NEW f, NEW h PROVE D(f, type) = D(h, type)
  <2>1. type[1] \notin {"array", "list", "tuple"}
    BY SimpleCases
  <2> QED BY <2>1 DEF DecodeAs
<1>2. ASSUME NEW parts, NEW type \in TypesOf(parts), NEW f, NEW h,
             \A p \in parts : f[p] = h[p]
      PROVE  D(f, type) = D(h, type)
  <2>1. ASSUME NEW bytes PROVE DecodeAs(type, bytes, f) = DecodeAs(type, bytes, h)
    <3>1. CASE type[1] = "array"
      <4>1. DecodeTuple(Repeated(type[2], type[3]), bytes, f)
              = DecodeTuple(Repeated(type[2], type[3]), bytes, h)
        BY <1>2, <3>1, Inside, DecodeTupleIsLocal
      <4> QED BY <3>1, <4>1 DEF DecodeAs
    <3>2. CASE type[1] = "list"
      <4>1. DecodeList(type[2], bytes, f) = DecodeList(type[2], bytes, h)
        BY <1>2, <3>2, Inside, DecodeTupleIsLocal DEF DecodeList
      <4> QED BY <3>2, <4>1 DEF DecodeAs
    <3>3. CASE type[1] = "tuple"
      <4>1. DecodeTuple(type[2], bytes, f) = DecodeTuple(type[2], bytes, h)
        BY <1>2, <3>3, Inside, DecodeTupleIsLocal
      <4> QED BY <3>3, <4>1 DEF DecodeAs
    <3> QED BY <1>2, <3>1, <3>2, <3>3, Inside
  <2> QED BY <2>1
<1>3. \E f : Is(f, Types)
  <2> HIDE DEF D
  <2> DEFINE Good == {d \in 0 .. MaxDepth : \E f : Is(f, TypesTo[d])}
  <2>1. 0 \in Good
    <3> DEFINE f == [type \in SimpleTypes |-> D(0, type)]
    <3>1. \A type \in SimpleTypes : f[type] = D(f, type)
      BY <1>1
    <3>2. f = [type \in SimpleTypes |-> f[type]]
      OBVIOUS
    <3> HIDE DEF f
    <3>3. Is(f, TypesTo[0])
      BY <3>1, <3>2, TypesToIs
    <3> QED BY <3>3, DepthIs
  <2>2. ASSUME NEW d \in 1 .. MaxDepth, d - 1 \in Good PROVE d \in Good
    <3>1. \E f : Is(f, TypesTo[d - 1])
      BY <2>2
    <3> HIDE DEF Is
    <3>2. PICK f : Is(f, TypesTo[d - 1])
      BY <3>1
    <3> USE DEF Is
    <3> DEFINE h == [type \in TypesTo[d] |-> D(f, type)]
    <3>3. /\ TypesTo[d - 1] \subseteq TypesTo[d]
          /\ TypesTo[d] = SimpleTypes \cup TypesOf(TypesTo[d - 1])
      BY TypesNested
    <3>4. \A type \in TypesTo[d - 1] : f[type] = h[type]
      BY <3>2, <3>3
    <3>5. \A type \in TypesTo[d] : h[type] = D(f, type)
      OBVIOUS
    <3>6. h = [type \in TypesTo[d] |-> h[type]]
      OBVIOUS
    <3> HIDE DEF h
    <3>7. \A type \in TypesTo[d] : D(f, type) = D(h, type)
      BY <1>1, <1>2, <3>3, <3>4
    <3>8. Is(h, TypesTo[d])
      BY <3>5, <3>6, <3>7
    <3> QED BY <3>8
  <2>3. 0 .. MaxDepth \subseteq Good
    <3> HIDE DEF Good
    <3> QED BY <2>1, <2>2, DepthIs, InductionUpTo
  <2>4. MaxDepth \in Good
    BY <2>3, DepthIs
  <2> QED BY <2>4 DEF Types
<1>4. AbiDecode = CHOOSE f : Is(f, Types)
  BY DEF AbiDecode
<1>5. Is(AbiDecode, Types)
  <2> HIDE DEF Is
  <2> QED BY <1>3, <1>4
<1> QED BY <1>5

\* The elements that are meant depend on the types inside only.
LEMMA MeantIsLocal ==
  ASSUME NEW types, NEW elements, NEW f, NEW h, \A i \in DOMAIN types : f[types[i]] = h[types[i]]
  PROVE  ElementsMeant(types, elements, f) = ElementsMeant(types, elements, h)
<1>1. [i \in DOMAIN types |-> f[types[i]][elements[i]]]
        = [i \in DOMAIN types |-> h[types[i]][elements[i]]]
  OBVIOUS
<1> QED BY <1>1 DEF ElementsMeant

\* The types of elements are inside the type.
LEMMA InsideElements ==
  ASSUME NEW parts, NEW type \in TypesOf(parts), NEW f, NEW h, \A p \in parts : f[p] = h[p],
         NEW elements
  PROVE  \A i \in DOMAIN ElementTypes(type, elements) :
           f[ElementTypes(type, elements)[i]] = h[ElementTypes(type, elements)[i]]
BY Inside DEF ElementTypes

\* There is a function that says what decode is to give, and it is chosen.
LEMMA MeantIs ==
  Meant = [type \in Types |->
    [value \in AbiValues |-> MeantAs(type, value, Meant)]]
<1> DEFINE D(f, type) ==
      [value \in AbiValues |-> MeantAs(type, value, f)]
           Is(f, S) == f = [type \in S |-> D(f, type)]
<1>1. ASSUME NEW type \in SimpleTypes, NEW f, NEW h PROVE D(f, type) = D(h, type)
  <2>1. type[1] \notin {"array", "list", "tuple"}
    BY SimpleCases
  <2> QED BY <2>1 DEF MeantAs
<1>2. ASSUME NEW parts, NEW type \in TypesOf(parts), NEW f, NEW h,
             \A p \in parts : f[p] = h[p]
      PROVE  D(f, type) = D(h, type)
  <2>1. ASSUME NEW value PROVE MeantAs(type, value, f) = MeantAs(type, value, h)
    <3>1. ElementsMeant(ElementTypes(type, ElementsOf(value)), ElementsOf(value), f)
            = ElementsMeant(ElementTypes(type, ElementsOf(value)), ElementsOf(value), h)
      BY <1>2, InsideElements, MeantIsLocal
    <3>2. type[1] \in {"array", "list", "tuple"}
      BY CompositeCases
    <3> QED BY <3>1, <3>2 DEF MeantAs
  <2> QED BY <2>1
<1>3. \E f : Is(f, Types)
  <2> HIDE DEF D
  <2> DEFINE Good == {d \in 0 .. MaxDepth : \E f : Is(f, TypesTo[d])}
  <2>1. 0 \in Good
    <3> DEFINE f == [type \in SimpleTypes |-> D(0, type)]
    <3>1. \A type \in SimpleTypes : f[type] = D(f, type)
      BY <1>1
    <3>2. f = [type \in SimpleTypes |-> f[type]]
      OBVIOUS
    <3> HIDE DEF f
    <3>3. Is(f, TypesTo[0])
      BY <3>1, <3>2, TypesToIs
    <3> QED BY <3>3, DepthIs
  <2>2. ASSUME NEW d \in 1 .. MaxDepth, d - 1 \in Good PROVE d \in Good
    <3>1. \E f : Is(f, TypesTo[d - 1])
      BY <2>2
    <3> HIDE DEF Is
    <3>2. PICK f : Is(f, TypesTo[d - 1])
      BY <3>1
    <3> USE DEF Is
    <3> DEFINE h == [type \in TypesTo[d] |-> D(f, type)]
    <3>3. /\ TypesTo[d - 1] \subseteq TypesTo[d]
          /\ TypesTo[d] = SimpleTypes \cup TypesOf(TypesTo[d - 1])
      BY TypesNested
    <3>4. \A type \in TypesTo[d - 1] : f[type] = h[type]
      BY <3>2, <3>3
    <3>5. \A type \in TypesTo[d] : h[type] = D(f, type)
      OBVIOUS
    <3>6. h = [type \in TypesTo[d] |-> h[type]]
      OBVIOUS
    <3> HIDE DEF h
    <3>7. \A type \in TypesTo[d] : D(f, type) = D(h, type)
      BY <1>1, <1>2, <3>3, <3>4
    <3>8. Is(h, TypesTo[d])
      BY <3>5, <3>6, <3>7
    <3> QED BY <3>8
  <2>3. 0 .. MaxDepth \subseteq Good
    <3> HIDE DEF Good
    <3> QED BY <2>1, <2>2, DepthIs, InductionUpTo
  <2>4. MaxDepth \in Good
    BY <2>3, DepthIs
  <2> QED BY <2>4 DEF Types
<1>4. Meant = CHOOSE f : Is(f, Types)
  BY DEF Meant
<1>5. Is(Meant, Types)
  <2> HIDE DEF Is
  <2> QED BY <1>3, <1>4
<1> QED BY <1>5

\* The size of the elements depends on the types inside only.
LEMMA SizeIsLocal ==
  ASSUME NEW types, NEW elements, NEW f, NEW h, \A i \in DOMAIN types : f[types[i]] = h[types[i]]
  PROVE  ElementsSize(types, elements, f) = ElementsSize(types, elements, h)
<1>1. [i \in DOMAIN types |-> IF IsDynamic[types[i]] THEN f[types[i]][ElementAt(elements, i)] ELSE 0]
       = [i \in DOMAIN types |-> IF IsDynamic[types[i]] THEN h[types[i]][ElementAt(elements, i)] ELSE 0]
  OBVIOUS
<1> QED BY <1>1 DEF ElementsSize, TailsSize

\* There is a function that says how many bytes there are, and it is chosen.
LEMMA EncodedSizeIs ==
  EncodedSize = [type \in Types |->
    [value \in AbiValues |-> SizeAs(type, value, EncodedSize)]]
<1> DEFINE D(f, type) ==
      [value \in AbiValues |-> SizeAs(type, value, f)]
           Is(f, S) == f = [type \in S |-> D(f, type)]
<1>1. ASSUME NEW type \in SimpleTypes, NEW f, NEW h PROVE D(f, type) = D(h, type)
  <2>1. type[1] \notin {"array", "list", "tuple"}
    BY SimpleCases
  <2> QED BY <2>1 DEF SizeAs
<1>2. ASSUME NEW parts, NEW type \in TypesOf(parts), NEW f, NEW h,
             \A p \in parts : f[p] = h[p]
      PROVE  D(f, type) = D(h, type)
  <2>1. ASSUME NEW value PROVE SizeAs(type, value, f) = SizeAs(type, value, h)
    <3>1. ElementsSize(ElementTypes(type, ElementsOf(value)), ElementsOf(value), f)
            = ElementsSize(ElementTypes(type, ElementsOf(value)), ElementsOf(value), h)
      BY <1>2, InsideElements, SizeIsLocal
    <3>2. type[1] \in {"array", "list", "tuple"}
      BY CompositeCases
    <3> QED BY <3>1, <3>2 DEF SizeAs
  <2> QED BY <2>1
<1>3. \E f : Is(f, Types)
  <2> HIDE DEF D
  <2> DEFINE Good == {d \in 0 .. MaxDepth : \E f : Is(f, TypesTo[d])}
  <2>1. 0 \in Good
    <3> DEFINE f == [type \in SimpleTypes |-> D(0, type)]
    <3>1. \A type \in SimpleTypes : f[type] = D(f, type)
      BY <1>1
    <3>2. f = [type \in SimpleTypes |-> f[type]]
      OBVIOUS
    <3> HIDE DEF f
    <3>3. Is(f, TypesTo[0])
      BY <3>1, <3>2, TypesToIs
    <3> QED BY <3>3, DepthIs
  <2>2. ASSUME NEW d \in 1 .. MaxDepth, d - 1 \in Good PROVE d \in Good
    <3>1. \E f : Is(f, TypesTo[d - 1])
      BY <2>2
    <3> HIDE DEF Is
    <3>2. PICK f : Is(f, TypesTo[d - 1])
      BY <3>1
    <3> USE DEF Is
    <3> DEFINE h == [type \in TypesTo[d] |-> D(f, type)]
    <3>3. /\ TypesTo[d - 1] \subseteq TypesTo[d]
          /\ TypesTo[d] = SimpleTypes \cup TypesOf(TypesTo[d - 1])
      BY TypesNested
    <3>4. \A type \in TypesTo[d - 1] : f[type] = h[type]
      BY <3>2, <3>3
    <3>5. \A type \in TypesTo[d] : h[type] = D(f, type)
      OBVIOUS
    <3>6. h = [type \in TypesTo[d] |-> h[type]]
      OBVIOUS
    <3> HIDE DEF h
    <3>7. \A type \in TypesTo[d] : D(f, type) = D(h, type)
      BY <1>1, <1>2, <3>3, <3>4
    <3>8. Is(h, TypesTo[d])
      BY <3>5, <3>6, <3>7
    <3> QED BY <3>8
  <2>3. 0 .. MaxDepth \subseteq Good
    <3> HIDE DEF Good
    <3> QED BY <2>1, <2>2, DepthIs, InductionUpTo
  <2>4. MaxDepth \in Good
    BY <2>3, DepthIs
  <2> QED BY <2>4 DEF Types
<1>4. EncodedSize = CHOOSE f : Is(f, Types)
  BY DEF EncodedSize
<1>5. Is(EncodedSize, Types)
  <2> HIDE DEF Is
  <2> QED BY <1>3, <1>4
<1> QED BY <1>5

\* Whether elements fit depends on the types inside only.
LEMMA FitsIsLocal ==
  ASSUME NEW types, NEW elements, NEW strictly, NEW f, NEW h,
         \A i \in DOMAIN types : f[types[i]] = h[types[i]]
  PROVE  ElementsFit(types, elements, strictly, f) = ElementsFit(types, elements, strictly, h)
BY DEF ElementsFit

\* There is a function that says which values fit, and it is chosen.
LEMMA FitsIs ==
  Fits = [type \in Types |->
    [strictly \in BOOLEAN |-> [value \in AbiValues |-> FitsAs(type, value, strictly, Fits)]]]
<1> DEFINE D(f, type) ==
      [strictly \in BOOLEAN |-> [value \in AbiValues |-> FitsAs(type, value, strictly, f)]]
           Is(f, S) == f = [type \in S |-> D(f, type)]
<1>1. ASSUME NEW type \in SimpleTypes, NEW f, NEW h PROVE D(f, type) = D(h, type)
  <2>1. type[1] \notin {"array", "list", "tuple"}
    BY SimpleCases
  <2> QED BY <2>1 DEF FitsAs
<1>2. ASSUME NEW parts, NEW type \in TypesOf(parts), NEW f, NEW h,
             \A p \in parts : f[p] = h[p]
      PROVE  D(f, type) = D(h, type)
  <2>1. ASSUME NEW value, NEW strictly \in BOOLEAN
        PROVE  FitsAs(type, value, strictly, f) = FitsAs(type, value, strictly, h)
    <3>1. ElementsFit(ElementTypes(type, value[2]), ElementsOf(value), strictly, f)
            = ElementsFit(ElementTypes(type, value[2]), ElementsOf(value), strictly, h)
      BY <1>2, InsideElements, FitsIsLocal
    <3>2. type[1] \in {"array", "list", "tuple"}
      BY CompositeCases
    <3> QED BY <3>1, <3>2 DEF FitsAs
  <2> QED BY <2>1
<1>3. \E f : Is(f, Types)
  <2> HIDE DEF D
  <2> DEFINE Good == {d \in 0 .. MaxDepth : \E f : Is(f, TypesTo[d])}
  <2>1. 0 \in Good
    <3> DEFINE f == [type \in SimpleTypes |-> D(0, type)]
    <3>1. \A type \in SimpleTypes : f[type] = D(f, type)
      BY <1>1
    <3>2. f = [type \in SimpleTypes |-> f[type]]
      OBVIOUS
    <3> HIDE DEF f
    <3>3. Is(f, TypesTo[0])
      BY <3>1, <3>2, TypesToIs
    <3> QED BY <3>3, DepthIs
  <2>2. ASSUME NEW d \in 1 .. MaxDepth, d - 1 \in Good PROVE d \in Good
    <3>1. \E f : Is(f, TypesTo[d - 1])
      BY <2>2
    <3> HIDE DEF Is
    <3>2. PICK f : Is(f, TypesTo[d - 1])
      BY <3>1
    <3> USE DEF Is
    <3> DEFINE h == [type \in TypesTo[d] |-> D(f, type)]
    <3>3. /\ TypesTo[d - 1] \subseteq TypesTo[d]
          /\ TypesTo[d] = SimpleTypes \cup TypesOf(TypesTo[d - 1])
      BY TypesNested
    <3>4. \A type \in TypesTo[d - 1] : f[type] = h[type]
      BY <3>2, <3>3
    <3>5. \A type \in TypesTo[d] : h[type] = D(f, type)
      OBVIOUS
    <3>6. h = [type \in TypesTo[d] |-> h[type]]
      OBVIOUS
    <3> HIDE DEF h
    <3>7. \A type \in TypesTo[d] : D(f, type) = D(h, type)
      BY <1>1, <1>2, <3>3, <3>4
    <3>8. Is(h, TypesTo[d])
      BY <3>5, <3>6, <3>7
    <3> QED BY <3>8
  <2>3. 0 .. MaxDepth \subseteq Good
    <3> HIDE DEF Good
    <3> QED BY <2>1, <2>2, DepthIs, InductionUpTo
  <2>4. MaxDepth \in Good
    BY <2>3, DepthIs
  <2> QED BY <2>4 DEF Types
<1>4. Fits = CHOOSE f : Is(f, Types)
  BY DEF Fits
<1>5. Is(Fits, Types)
  <2> HIDE DEF Is
  <2> QED BY <1>3, <1>4
<1> QED BY <1>5
\* There is a function that says which types have empty parts, and it is chosen.
LEMMA HasEmptyPartIs ==
  HasEmptyPart = [type \in Types |->
    \/ ByteLen[type] = 0
    \/ type[1] \in {"array", "list"} /\ HasEmptyPart[type[2]]
    \/ type[1] = "tuple" /\ \E i \in DOMAIN type[2] : HasEmptyPart[type[2][i]]]
<1> DEFINE D(f, type) ==
      \/ ByteLen[type] = 0
      \/ type[1] \in {"array", "list"} /\ f[type[2]]
      \/ type[1] = "tuple" /\ \E i \in DOMAIN type[2] : f[type[2][i]]
           Is(f, S) == f = [type \in S |-> D(f, type)]
<1>1. ASSUME NEW type \in SimpleTypes, NEW f, NEW h PROVE D(f, type) = D(h, type)
  BY SimpleCases
<1>2. ASSUME NEW parts, NEW type \in TypesOf(parts), NEW f, NEW h,
             \A p \in parts : f[p] = h[p]
      PROVE  D(f, type) = D(h, type)
  <2>1. type[1] \in {"array", "list"} => f[type[2]] = h[type[2]]
    BY <1>2, CompositeCases
  <2>2. type[1] = "tuple" => \A i \in DOMAIN type[2] : f[type[2][i]] = h[type[2][i]]
    BY <1>2, CompositeCases, ElementIs
  <2> QED BY <2>1, <2>2
<1>3. \E f : Is(f, Types)
  <2> HIDE DEF D
  <2> DEFINE Good == {d \in 0 .. MaxDepth : \E f : Is(f, TypesTo[d])}
  <2>1. 0 \in Good
    <3> DEFINE f == [type \in SimpleTypes |-> D(0, type)]
    <3>1. \A type \in SimpleTypes : f[type] = D(f, type)
      BY <1>1
    <3>2. f = [type \in SimpleTypes |-> f[type]]
      OBVIOUS
    <3> HIDE DEF f
    <3>3. Is(f, TypesTo[0])
      BY <3>1, <3>2, TypesToIs
    <3> QED BY <3>3, DepthIs
  <2>2. ASSUME NEW d \in 1 .. MaxDepth, d - 1 \in Good PROVE d \in Good
    <3>1. \E f : Is(f, TypesTo[d - 1])
      BY <2>2
    <3> HIDE DEF Is
    <3>2. PICK f : Is(f, TypesTo[d - 1])
      BY <3>1
    <3> USE DEF Is
    <3> DEFINE h == [type \in TypesTo[d] |-> D(f, type)]
    <3>3. /\ TypesTo[d - 1] \subseteq TypesTo[d]
          /\ TypesTo[d] = SimpleTypes \cup TypesOf(TypesTo[d - 1])
      BY TypesNested
    <3>4. \A type \in TypesTo[d - 1] : f[type] = h[type]
      BY <3>2, <3>3
    <3>5. \A type \in TypesTo[d] : h[type] = D(f, type)
      OBVIOUS
    <3>6. h = [type \in TypesTo[d] |-> h[type]]
      OBVIOUS
    <3> HIDE DEF h
    <3>7. \A type \in TypesTo[d] : D(f, type) = D(h, type)
      BY <1>1, <1>2, <3>3, <3>4
    <3>8. Is(h, TypesTo[d])
      BY <3>5, <3>6, <3>7
    <3> QED BY <3>8
  <2>3. 0 .. MaxDepth \subseteq Good
    <3> HIDE DEF Good
    <3> QED BY <2>1, <2>2, DepthIs, InductionUpTo
  <2>4. MaxDepth \in Good
    BY <2>3, DepthIs
  <2> QED BY <2>4 DEF Types
<1>4. HasEmptyPart = CHOOSE f : Is(f, Types)
  BY DEF HasEmptyPart
<1>5. Is(HasEmptyPart, Types)
  <2> HIDE DEF Is
  <2> QED BY <1>3, <1>4
<1> QED BY <1>5
\* There is a function that says which types end in booleans, and it is chosen.
LEMMA EndsInBoolsIs ==
  EndsInBools = [type \in Types |->
    \/ type[1] \in {"array", "list"} /\ type[2] = Bool
    \/ type[1] \in {"array", "list"} /\ EndsInBools[type[2]]
    \/ type[1] = "tuple" /\ Range(type[2]) = {Bool}
    \/ /\ type[1] = "tuple"
       /\ \E i \in DOMAIN type[2] :
            EndsInBools[type[2][i]] /\ \A j \in DOMAIN type[2] : j > i => ~IsDynamic[type[2][j]]]
<1> DEFINE D(f, type) ==
      \/ type[1] \in {"array", "list"} /\ type[2] = Bool
      \/ type[1] \in {"array", "list"} /\ f[type[2]]
      \/ type[1] = "tuple" /\ Range(type[2]) = {Bool}
      \/ /\ type[1] = "tuple"
         /\ \E i \in DOMAIN type[2] :
              f[type[2][i]] /\ \A j \in DOMAIN type[2] : j > i => ~IsDynamic[type[2][j]]
           Is(f, S) == f = [type \in S |-> D(f, type)]
<1>1. ASSUME NEW type \in SimpleTypes, NEW f, NEW h PROVE D(f, type) = D(h, type)
  BY SimpleCases
<1>2. ASSUME NEW parts, NEW type \in TypesOf(parts), NEW f, NEW h,
             \A p \in parts : f[p] = h[p]
      PROVE  D(f, type) = D(h, type)
  <2>1. type[1] \in {"array", "list"} => f[type[2]] = h[type[2]]
    BY <1>2, CompositeCases
  <2>2. type[1] = "tuple" => \A i \in DOMAIN type[2] : f[type[2][i]] = h[type[2][i]]
    BY <1>2, CompositeCases, ElementIs
  <2> QED BY <2>1, <2>2
<1>3. \E f : Is(f, Types)
  <2> HIDE DEF D
  <2> DEFINE Good == {d \in 0 .. MaxDepth : \E f : Is(f, TypesTo[d])}
  <2>1. 0 \in Good
    <3> DEFINE f == [type \in SimpleTypes |-> D(0, type)]
    <3>1. \A type \in SimpleTypes : f[type] = D(f, type)
      BY <1>1
    <3>2. f = [type \in SimpleTypes |-> f[type]]
      OBVIOUS
    <3> HIDE DEF f
    <3>3. Is(f, TypesTo[0])
      BY <3>1, <3>2, TypesToIs
    <3> QED BY <3>3, DepthIs
  <2>2. ASSUME NEW d \in 1 .. MaxDepth, d - 1 \in Good PROVE d \in Good
    <3>1. \E f : Is(f, TypesTo[d - 1])
      BY <2>2
    <3> HIDE DEF Is
    <3>2. PICK f : Is(f, TypesTo[d - 1])
      BY <3>1
    <3> USE DEF Is
    <3> DEFINE h == [type \in TypesTo[d] |-> D(f, type)]
    <3>3. /\ TypesTo[d - 1] \subseteq TypesTo[d]
          /\ TypesTo[d] = SimpleTypes \cup TypesOf(TypesTo[d - 1])
      BY TypesNested
    <3>4. \A type \in TypesTo[d - 1] : f[type] = h[type]
      BY <3>2, <3>3
    <3>5. \A type \in TypesTo[d] : h[type] = D(f, type)
      OBVIOUS
    <3>6. h = [type \in TypesTo[d] |-> h[type]]
      OBVIOUS
    <3> HIDE DEF h
    <3>7. \A type \in TypesTo[d] : D(f, type) = D(h, type)
      BY <1>1, <1>2, <3>3, <3>4
    <3>8. Is(h, TypesTo[d])
      BY <3>5, <3>6, <3>7
    <3> QED BY <3>8
  <2>3. 0 .. MaxDepth \subseteq Good
    <3> HIDE DEF Good
    <3> QED BY <2>1, <2>2, DepthIs, InductionUpTo
  <2>4. MaxDepth \in Good
    BY <2>3, DepthIs
  <2> QED BY <2>4 DEF Types
<1>4. EndsInBools = CHOOSE f : Is(f, Types)
  BY DEF EndsInBools
<1>5. Is(EndsInBools, Types)
  <2> HIDE DEF Is
  <2> QED BY <1>3, <1>4
<1> QED BY <1>5

-----------------------------------------------------------------------------
(* The heads of a tuple *)

\* How many booleans there are before one (findBoolLR).
LEMMA BoolsBeforeIs ==
  ASSUME NEW types, NEW i \in Nat \ {0}
  PROVE  LET n == BoolsBefore(types, i)
         IN  /\ n \in 0 .. i - 1 /\ \A k \in i - n .. i - 1 : types[k] = Bool
             /\ n < i - 1 => types[i - n - 1] # Bool
<1> DEFINE Ends == {n \in 0 .. i - 1 : n = i - 1 \/ types[i - n - 1] # Bool}
<1>1. Ends \subseteq Nat /\ i - 1 \in Ends
  OBVIOUS
<1>2. PICK n \in Ends : \A m \in Ends : n <= m
  <2> HIDE DEF Ends
  <2> QED BY <1>1, Least
<1>3. ASSUME NEW k \in i - n .. i - 1 PROVE types[k] = Bool
  <2>1. i - k - 1 \in 0 .. i - 1 /\ i - k - 1 < n /\ i - (i - k - 1) - 1 = k
    BY <1>2
  <2>2. i - k - 1 \notin Ends
    BY <1>2, <2>1
  <2> QED BY <2>1, <2>2
<1>4. n \in 0 .. i - 1 /\ (n < i - 1 => types[i - n - 1] # Bool)
  BY <1>2
<1> QED BY <1>3, <1>4 DEF BoolsBefore

\* There is only one such number.
LEMMA BoolsBeforeIsOne ==
  ASSUME NEW types, NEW i \in Nat \ {0}, NEW n \in 0 .. i - 1,
         \A k \in i - n .. i - 1 : types[k] = Bool, n < i - 1 => types[i - n - 1] # Bool
  PROVE  BoolsBefore(types, i) = n
<1> DEFINE m == BoolsBefore(types, i)
<1>1. /\ m \in 0 .. i - 1 /\ \A k \in i - m .. i - 1 : types[k] = Bool
      /\ m < i - 1 => types[i - m - 1] # Bool
  BY BoolsBeforeIs
<1> HIDE DEF m
<1>2. CASE m < n
  <2>1. i - m - 1 \in i - n .. i - 1 /\ m < i - 1
    BY <1>1, <1>2
  <2> QED BY <1>1, <2>1
<1>3. CASE m > n
  <2>1. i - n - 1 \in i - m .. i - 1 /\ n < i - 1
    BY <1>1, <1>3
  <2> QED BY <1>1, <2>1
<1>4. m = n
  BY <1>1, <1>2, <1>3
<1> QED BY <1>4 DEF m

\* The head of a boolean is a boolean not far before it, and the head of all
\* that are between.
LEMMA HeadOfIs ==
  ASSUME NEW types, NEW i \in Nat \ {0}
  PROVE  LET h == HeadOf(types, i)
         IN  /\ h \in 1 .. i /\ i - h < Bits
             /\ types[i] # Bool => h = i
             /\ types[i] = Bool => types[h] = Bool
             /\ \A k \in h .. i : HeadOf(types, k) = h
<1>1. CASE types[i] # Bool
  <2>1. HeadOf(types, i) = i
    BY <1>1 DEF HeadOf
  <2>2. \A k \in i .. i : k = i
    OBVIOUS
  <2> QED BY <1>1, <2>1, <2>2, BaseIs
<1>2. CASE types[i] = Bool
  <2> DEFINE n == BoolsBefore(types, i)
  <2>1. /\ n \in 0 .. i - 1 /\ \A k \in i - n .. i - 1 : types[k] = Bool
        /\ n < i - 1 => types[i - n - 1] # Bool
    BY BoolsBeforeIs
  <2>2. HeadOf(types, i) = i - (n % Bits)
    BY <1>2 DEF HeadOf
  <2> HIDE DEF n
  <2> DEFINE r == n % Bits
             q == n \div Bits
  <2>3. r \in 0 .. Bits - 1 /\ q \in Nat /\ n = Bits * q + r /\ Bits \in Nat \ {0}
    <3>1. Bits \in Nat \ {0} /\ n \in Nat
      BY <2>1, BaseIs
    <3> QED BY <3>1, Divided
  <2>4. Bits * q \in Nat
    BY <2>3
  <2> HIDE DEF r, q
  <2>5. r <= n
    BY <2>1, <2>3, <2>4
  <2>6. i - r \in 1 .. i /\ i - (i - r) < Bits
    BY <2>1, <2>3, <2>5
  <2>7. ASSUME NEW k \in i - r .. i PROVE types[k] = Bool /\ HeadOf(types, k) = i - r
    <3>1. k \in Nat \ {0} /\ k - (i - r) \in 0 .. Bits - 1
      BY <2>3, <2>6
    <3>2. types[k] = Bool
      BY <1>2, <2>1, <2>5, <2>3
    <3> DEFINE m == n - (i - k)
    <3>3. m \in 0 .. k - 1 /\ k - m = i - n /\ (m < k - 1 => n < i - 1)
      BY <2>1, <2>3, <2>5
    <3>4. \A x \in k - m .. k - 1 : types[x] = Bool
      BY <2>1, <3>3
    <3>5. m < k - 1 => types[k - m - 1] # Bool
      <4>1. k - m - 1 = i - n - 1
        BY <2>1, <3>3
      <4> QED BY <2>1, <3>3, <4>1
    <3>6. m = Bits * q + (k - (i - r))
      BY <2>3, <2>4
    <3> HIDE DEF m
    <3>7. BoolsBefore(types, k) = m
      BY <3>1, <3>3, <3>4, <3>5, BoolsBeforeIsOne
    <3>8. m % Bits = k - (i - r)
      BY <2>3, <3>1, <3>6, QuotientIs
    <3>9. k - (k - (i - r)) = i - r
      BY <2>3
    <3> QED BY <3>2, <3>7, <3>8, <3>9 DEF HeadOf
  <2>8. HeadOf(types, i) = i - r
    BY <2>2 DEF r
  <2>9. i - r \in i - r .. i
    BY <2>3, <2>6
  <2> QED BY <1>2, <2>6, <2>7, <2>8, <2>9
<1> QED BY <1>1, <1>2

\* The boolean that one shares a byte with is the first in the byte.
LEMMA HeadHasHead ==
  ASSUME NEW types, NEW i \in Nat \ {0}
  PROVE  /\ HasHead(types, HeadOf(types, i))
         /\ types[i] # Bool => HasHead(types, i)
         /\ \A k \in HeadOf(types, i) + 1 .. i : ~HasHead(types, k)
<1> DEFINE h == HeadOf(types, i)
<1>1. h \in 1 .. i /\ (types[i] # Bool => h = i) /\ \A k \in h .. i : HeadOf(types, k) = h
  BY HeadOfIs
<1> HIDE DEF h
<1>2. HeadOf(types, h) = h /\ \A k \in h + 1 .. i : HeadOf(types, k) # k
  BY <1>1
<1> QED BY <1>1, <1>2 DEF HasHead, h

-----------------------------------------------------------------------------
(* Kinds of types, and their sizes *)

\* The types, each with what it has inside.
LEMMA Kinds ==
  ASSUME NEW type \in Types
  PROVE  \/ type[1] = "uint" /\ type[2] \in Nat \ {0} /\ type = Uint(type[2])
         \/ type[1] = "byte" /\ type = Byte
         \/ type[1] = "bool" /\ type = Bool
         \/ type[1] = "address" /\ type = AddressType
         \/ type[1] = "string" /\ type = Text
         \/ /\ type[1] = "array" /\ type[2] \in Types /\ type[3] \in 0 .. MaxLen
            /\ type = Array(type[2], type[3])
         \/ type[1] = "list" /\ type[2] \in Types /\ type = List(type[2])
         \/ /\ type[1] = "tuple" /\ type[2] \in Seq(Types) /\ Len(type[2]) < MaxLen
            /\ type = Tuple(type[2])
<1>1. CASE type \in SimpleTypes
  BY <1>1, SimpleCases
<1>2. CASE type \in TypesOf(Types)
  BY <1>2, CompositeCases
<1> QED BY <1>1, <1>2, TypeCases

\* The type of booleans is one.
LEMMA KindOfBool == Bool[1] = "bool" /\ Bool \in Types
  BY SimpleTypesAreTypes DEF Bool, SimpleTypes

\* Which types are dynamic (isDynamic).
LEMMA DynamicIs ==
  ASSUME NEW type \in Types
  PROVE  /\ IsDynamic[type] \in BOOLEAN
         /\ type[1] \in {"uint", "byte", "bool", "address"} => ~IsDynamic[type]
         /\ type[1] \in {"string", "list"} => IsDynamic[type]
         /\ type[1] = "array" => IsDynamic[type] = IsDynamic[type[2]]
         /\ type[1] = "tuple" => IsDynamic[type] = (DynamicIn(type[2]) # {})
<1> DEFINE D(t) ==
      \/ t[1] \in {"string", "list"}
      \/ t[1] = "array" /\ IsDynamic[t[2]]
      \/ t[1] = "tuple" /\ \E i \in DOMAIN t[2] : IsDynamic[t[2][i]]
<1>1. \A t \in Types : IsDynamic[t] = D(t)
  BY IsDynamicIs
<1>2. \A t \in Types : IsDynamic[t] \in BOOLEAN
  BY <1>1
<1>3. IsDynamic[type] = D(type)
  BY <1>1
<1>4. type[1] = "array" => type[2] \in Types
  BY Kinds
<1>5. (\E i \in DOMAIN type[2] : IsDynamic[type[2][i]]) = (DynamicIn(type[2]) # {})
  BY DEF DynamicIn
<1> QED BY <1>2, <1>3, <1>4, <1>5

\* How many bytes a type has (byteLen), and the position of a tail.
LEMMA ByteLenCases ==
  ASSUME NEW type \in Types
  PROVE  /\ IsDynamic[type] => ByteLen[type] = LengthSize
         /\ type[1] = "uint" => ByteLen[type] = type[2]
         /\ type[1] \in {"byte", "bool"} => ByteLen[type] = 1
         /\ type[1] = "address" => ByteLen[type] = AddressSize
         /\ type[1] = "array" /\ ~IsDynamic[type] =>
              ByteLen[type] = IF type[2] = Bool THEN (type[3] + Bits - 1) \div Bits
                              ELSE type[3] * ByteLen[type[2]]
         /\ type[1] = "tuple" /\ ~IsDynamic[type] => ByteLen[type] = TupleSize(type[2], ByteLen)
<1>1. ByteLen[type] = ByteLenOf(type, ByteLen)
  BY ByteLenIs
<1>2. type[1] \in {"uint", "byte", "bool", "address"} => ~IsDynamic[type]
  BY DynamicIs
<1> QED BY <1>1, <1>2 DEF ByteLenOf

\* A type has its bytes in the heads, unless it is a boolean in the byte of another.
LEMMA HeadSizeIs ==
  ASSUME NEW types, NEW i, types[i] \in Types
  PROVE  /\ ~HasHead(types, i) => HeadSize(types, i, ByteLen) = 0
         /\ HasHead(types, i) => HeadSize(types, i, ByteLen) = ByteLen[types[i]]
BY KindOfBool, ByteLenCases DEF HeadSize

\* The bytes of a type are a natural number (byteLen).
LEMMA ByteLenTyped ==
  \A type \in Types : ByteLen[type] \in Nat
<1> DEFINE S == {type \in Types : ByteLen[type] \in Nat}
<1>1. SimpleTypes \subseteq S
  <2> SUFFICES ASSUME NEW type \in SimpleTypes PROVE type \in Types /\ ByteLen[type] \in Nat
    OBVIOUS
  <2>1. type \in Types
    BY SimpleTypesAreTypes
  <2>2. \/ type[1] = "uint" /\ type[2] \in Nat \ {0}
        \/ type[1] \in {"byte", "bool", "address", "string"}
    BY SimpleCases
  <2> QED BY <2>1, <2>2, ByteLenCases, DynamicIs, AbiAssumption DEF LengthSize
<1>2. TypesOf(S \cap Types) \cap Types \subseteq S
  <2> SUFFICES ASSUME NEW type \in TypesOf(S \cap Types), type \in Types
               PROVE  ByteLen[type] \in Nat
    OBVIOUS
  <2>1. CASE IsDynamic[type]
    BY <2>1, ByteLenCases DEF LengthSize
  <2>2. CASE ~IsDynamic[type] /\ type[1] = "array"
    <3>1. type[2] \in S /\ type[3] \in 0 .. MaxLen
      BY <2>2, CompositeCases
    <3>2. type[3] \in Nat /\ Bits \in Nat \ {0}
      BY <3>1, BaseIs
    <3>3. type[3] + Bits - 1 \in Nat
      BY <3>2
    <3>4. (type[3] + Bits - 1) \div Bits \in Nat
      BY <3>2, <3>3, Divided
    <3>5. \A x, y \in Nat : x * y \in Nat
      OBVIOUS
    <3>6. type[3] * ByteLen[type[2]] \in Nat
      BY <3>1, <3>2, <3>5
    <3> QED BY <2>2, <3>4, <3>6, ByteLenCases
  <2>3. CASE ~IsDynamic[type] /\ type[1] = "tuple"
    <3>1. type[2] \in Seq(S)
      BY <2>3, CompositeCases
    <3>2. Len(type[2]) \in Nat /\ DOMAIN type[2] = 1 .. Len(type[2])
          /\ \A i \in 1 .. Len(type[2]) : type[2][i] \in S
      BY <3>1, ElementIs
    <3>3. \A i \in 1 .. Len(type[2]) : HeadSizes(type[2], ByteLen)[i] \in Nat
      BY <3>2, HeadSizeIs DEF HeadSizes
    <3>4. TupleSize(type[2], ByteLen) \in Nat
      BY <3>2, <3>3, TotalOfNat DEF TupleSize
    <3> QED BY <2>3, <3>4, ByteLenCases
  <2>4. type[1] = "list" => IsDynamic[type]
    BY DynamicIs
  <2> QED BY <2>1, <2>2, <2>3, <2>4, CompositeCases
<1>3. Types \subseteq S
  <2> HIDE DEF S
  <2> QED BY <1>1, <1>2, TypeInduction
<1> QED BY <1>3

\* Where the heads are.
LEMMA HeadsAre ==
  ASSUME NEW types \in Seq(Types)
  PROVE  LET sizes == HeadSizes(types, ByteLen)
             n == Len(types)
         IN  /\ n \in Nat /\ DOMAIN types = 1 .. n /\ DOMAIN sizes = 1 .. n
             /\ \A i \in 1 .. n : types[i] \in Types
             /\ TupleSize(types, ByteLen) = Total(sizes, n)
             /\ Total(sizes, 0) = 0
             /\ \A i \in 1 .. n : Total(sizes, i) = Total(sizes, i - 1) + sizes[i]
             /\ \A i \in 1 .. n : sizes[i] \in Nat
             /\ \A i \in 0 .. n : Total(sizes, i) \in Nat
             /\ \A j \in 0 .. n : \A i \in 0 .. j : Total(sizes, i) <= Total(sizes, j)
             /\ \A i \in 1 .. n :
                  sizes[i] = IF HasHead(types, i) THEN ByteLen[types[i]] ELSE 0
<1> DEFINE sizes == HeadSizes(types, ByteLen)
           n == Len(types)
<1>1. n \in Nat /\ DOMAIN types = 1 .. n /\ \A i \in 1 .. n : types[i] \in Types
  BY ElementIs
<1>2. DOMAIN sizes = 1 .. n /\ \A i \in 1 .. n : sizes[i] = HeadSize(types, i, ByteLen)
  BY <1>1 DEF HeadSizes
<1>3. \A i \in 1 .. n : sizes[i] = IF HasHead(types, i) THEN ByteLen[types[i]] ELSE 0
  BY <1>1, <1>2, HeadSizeIs
<1>4. \A i \in 1 .. n : sizes[i] \in Nat
  BY <1>1, <1>3, ByteLenTyped
<1>5. TupleSize(types, ByteLen) = Total(sizes, n)
  BY DEF TupleSize
<1> HIDE DEF sizes
<1>6. /\ Total(sizes, 0) = 0
      /\ \A i \in 1 .. n : Total(sizes, i) = Total(sizes, i - 1) + sizes[i]
      /\ \A i \in 0 .. n : Total(sizes, i) \in Nat
      /\ \A j \in 0 .. n : \A i \in 0 .. j : Total(sizes, i) <= Total(sizes, j)
  BY <1>1, <1>4, TotalOfNat
<1> QED BY <1>1, <1>2, <1>3, <1>4, <1>5, <1>6 DEF sizes

\* The types of the elements of an array.
LEMMA RepeatedTypes ==
  ASSUME NEW type \in Types, NEW n \in Nat
  PROVE  /\ Repeated(type, n) \in Seq(Types) /\ Len(Repeated(type, n)) = n
         /\ DOMAIN Repeated(type, n) = 1 .. n
         /\ \A i \in 1 .. n : Repeated(type, n)[i] = type
BY DEF Repeated

\* As many bytes as booleans need: one more for every Bits of them.
LEMMA RoundedUp ==
  ASSUME NEW i \in Nat
  PROVE  /\ (i + Bits) \div Bits = (i \div Bits) + 1
         /\ (i + Bits - 1) \div Bits = (i \div Bits) + IF i % Bits = 0 THEN 0 ELSE 1
<1> DEFINE q == i \div Bits
           r == i % Bits
<1>1. Bits \in Nat \ {0}
  BY BaseIs
<1>2. q \in Nat /\ r \in 0 .. Bits - 1 /\ i = Bits * q + r
  BY <1>1, Divided
<1>3. \A x, y \in Nat : x * (y + 1) = x * y + x /\ x * y \in Nat
  OBVIOUS
<1> HIDE DEF q, r
<1>4. i + Bits = Bits * (q + 1) + r /\ q + 1 \in Nat
  BY <1>1, <1>2, <1>3
<1>5. (i + Bits) \div Bits = q + 1
  BY <1>1, <1>2, <1>4, QuotientIs
<1>6. CASE r = 0
  <2>1. i + Bits - 1 = Bits * q + (Bits - 1) /\ Bits - 1 \in 0 .. Bits - 1
    BY <1>1, <1>2, <1>3, <1>6
  <2>2. (i + Bits - 1) \div Bits = q
    BY <1>1, <1>2, <2>1, QuotientIs
  <2> QED BY <1>2, <1>5, <1>6, <2>2 DEF q, r
<1>7. CASE r # 0
  <2>1. i + Bits - 1 = Bits * (q + 1) + (r - 1) /\ r - 1 \in 0 .. Bits - 1
    BY <1>1, <1>2, <1>4, <1>3, <1>7
  <2>2. (i + Bits - 1) \div Bits = q + 1
    BY <1>1, <1>4, <2>1, QuotientIs
  <2> QED BY <1>5, <1>7, <2>2 DEF q, r
<1> QED BY <1>6, <1>7

\* The size of an array.
LEMMA RepeatedSize ==
  ASSUME NEW type \in Types, NEW n \in Nat
  PROVE  TupleSize(Repeated(type, n), ByteLen) =
           IF type = Bool THEN (n + Bits - 1) \div Bits ELSE n * ByteLen[type]
<1> DEFINE types == Repeated(type, n)
           sizes == HeadSizes(types, ByteLen)
           size(i) == IF type = Bool THEN (i + Bits - 1) \div Bits ELSE i * ByteLen[type]
           Good == {i \in 0 .. n : Total(sizes, i) = size(i)}
<1>1. types \in Seq(Types) /\ Len(types) = n /\ \A i \in 1 .. n : types[i] = type
  BY RepeatedTypes
<1>2. /\ TupleSize(types, ByteLen) = Total(sizes, n)
      /\ Total(sizes, 0) = 0
      /\ \A i \in 1 .. n : Total(sizes, i) = Total(sizes, i - 1) + sizes[i]
      /\ \A i \in 1 .. n : sizes[i] = IF HasHead(types, i) THEN ByteLen[types[i]] ELSE 0
  BY <1>1, HeadsAre
<1> HIDE DEF types, sizes
<1>3. Bits \in Nat \ {0} /\ ByteLen[type] \in Nat
  BY BaseIs, ByteLenTyped
<1>4. 0 \in Good
  <2>1. Bits - 1 = Bits * 0 + (Bits - 1) /\ Bits - 1 \in 0 .. Bits - 1 /\ 0 + Bits - 1 = Bits - 1
    BY <1>3
  <2>2. (0 + Bits - 1) \div Bits = 0
    BY <1>3, <2>1, QuotientIs
  <2>3. 0 * ByteLen[type] = 0
    BY <1>3
  <2> QED BY <1>2, <2>2, <2>3
<1>5. ASSUME NEW i \in 1 .. n, i - 1 \in Good PROVE i \in Good
  <2>1. Total(sizes, i) = size(i - 1) + IF HasHead(types, i) THEN ByteLen[type] ELSE 0
    BY <1>1, <1>2, <1>5
  <2>2. CASE type = Bool
    <3>1. BoolsBefore(types, i) = i - 1
      <4>1. i \in Nat \ {0} /\ i - 1 \in 0 .. i - 1 /\ ~(i - 1 < i - 1)
        OBVIOUS
      <4>2. \A k \in i - (i - 1) .. i - 1 : types[k] = Bool
        BY <1>1, <2>2
      <4> QED BY <4>1, <4>2, BoolsBeforeIsOne
    <3>2. HasHead(types, i) <=> (i - 1) % Bits = 0
      <4>1. i - 1 \in Nat
        OBVIOUS
      <4>2. (i - 1) % Bits \in 0 .. Bits - 1
        BY <1>3, <4>1, Divided
      <4>3. HeadOf(types, i) = i - ((i - 1) % Bits)
        BY <1>1, <2>2, <3>1 DEF HeadOf
      <4> QED BY <1>3, <4>2, <4>3 DEF HasHead
    <3>3. ByteLen[type] = 1
      BY <2>2, KindOfBool, ByteLenCases
    <3>4. /\ ((i - 1) + Bits) \div Bits = ((i - 1) \div Bits) + 1
          /\ ((i - 1) + Bits - 1) \div Bits
               = ((i - 1) \div Bits) + IF (i - 1) % Bits = 0 THEN 0 ELSE 1
      <4>1. i - 1 \in Nat
        OBVIOUS
      <4> QED BY <4>1, RoundedUp
    <3>5. (i - 1) + Bits = i + Bits - 1
      BY <1>3
    <3>6. (i - 1) \div Bits \in Nat
      <4>1. i - 1 \in Nat
        OBVIOUS
      <4> QED BY <1>3, <4>1, Divided
    <3> QED BY <2>1, <2>2, <3>2, <3>3, <3>4, <3>5, <3>6
  <2>3. CASE type # Bool
    <3>1. HasHead(types, i)
      BY <1>1, <2>3, HeadHasHead
    <3>2. \A x \in Nat, y \in Nat \ {0} : y * x = (y - 1) * x + x
      OBVIOUS
    <3>3. i * ByteLen[type] = (i - 1) * ByteLen[type] + ByteLen[type]
      BY <1>3, <3>2
    <3> QED BY <2>1, <2>3, <3>1, <3>3
  <2> QED BY <2>2, <2>3
<1>6. n \in Good
  <2>1. 0 .. n \subseteq Good
    <3> HIDE DEF Good
    <3> QED BY <1>4, <1>5, InductionUpTo
  <2> QED BY <2>1
<1> QED BY <1>2, <1>6 DEF types

\* A static array has the bytes of the tuple of its elements (byteLen).
LEMMA ArraySize ==
  ASSUME NEW type \in Types, type[1] = "array", ~IsDynamic[type]
  PROVE  ByteLen[type] = TupleSize(Repeated(type[2], type[3]), ByteLen)
<1>1. type[2] \in Types /\ type[3] \in 0 .. MaxLen
  BY Kinds
<1>2. type[3] \in Nat
  BY <1>1, BaseIs
<1> QED BY <1>1, <1>2, ByteLenCases, RepeatedSize

-----------------------------------------------------------------------------
(* Values *)

\* The values of one depth, and those inside them.
LEMMA ValuesNested ==
  ASSUME NEW d \in 1 .. MaxDepth
  PROVE  /\ ValuesTo[d - 1] \subseteq ValuesTo[d]
         /\ ValuesTo[d] = SimpleValues \cup ({"array"} \X Seq(ValuesTo[d - 1]))
<1> DEFINE Good == {c \in 0 .. MaxDepth : c > 0 => ValuesTo[c - 1] \subseteq ValuesTo[c]}
<1>1. 0 \in Good
  BY DepthIs
<1>2. ASSUME NEW c \in 1 .. MaxDepth, c - 1 \in Good PROVE c \in Good
  <2>1. ValuesTo[c] = SimpleValues \cup ({"array"} \X Seq(ValuesTo[c - 1]))
    BY ValuesToIs
  <2>2. CASE c = 1
    <3>1. ValuesTo[c - 1] = SimpleValues
      BY <2>2, ValuesToIs
    <3> QED BY <2>1, <3>1
  <2>3. CASE c # 1
    <3>1. c - 1 \in 1 .. MaxDepth
      BY <2>3, DepthIs
    <3>2. ValuesTo[c - 1] = SimpleValues \cup ({"array"} \X Seq(ValuesTo[(c - 1) - 1]))
      BY <3>1, ValuesToIs
    <3>3. ValuesTo[(c - 1) - 1] \subseteq ValuesTo[c - 1]
      BY <1>2, <3>1
    <3>4. ({"array"} \X Seq(ValuesTo[(c - 1) - 1])) \subseteq ({"array"} \X Seq(ValuesTo[c - 1]))
      BY <3>3
    <3>5. ValuesTo[c - 1] \subseteq ValuesTo[c]
      BY <2>1, <3>2, <3>4
    <3> QED BY <3>5
  <2> QED BY <2>2, <2>3
<1>3. 0 .. MaxDepth \subseteq Good
  <2> HIDE DEF Good
  <2> QED BY <1>1, <1>2, DepthIs, InductionUpTo
<1>4. d \in Good /\ d > 0
  BY <1>3
<1> QED BY <1>4, ValuesToIs

\* What is nested less deep is a value too.
LEMMA ValuesGrow ==
  \A d \in 0 .. MaxDepth : ValuesTo[d] \subseteq AbiValues
<1> DEFINE Below == {k \in 0 .. MaxDepth : ValuesTo[MaxDepth - k] \subseteq AbiValues}
<1>1. 0 \in Below
  BY DepthIs DEF AbiValues
<1>2. ASSUME NEW k \in 1 .. MaxDepth, k - 1 \in Below PROVE k \in Below
  <2>1. MaxDepth - (k - 1) \in 1 .. MaxDepth /\ (MaxDepth - (k - 1)) - 1 = MaxDepth - k
    BY DepthIs
  <2>2. ValuesTo[MaxDepth - k] \subseteq ValuesTo[MaxDepth - (k - 1)]
    BY <2>1, ValuesNested
  <2>3. ValuesTo[MaxDepth - k] \subseteq AbiValues
    BY <1>2, <2>2
  <2> QED BY <2>3
<1>3. 0 .. MaxDepth \subseteq Below
  <2> HIDE DEF Below
  <2> QED BY <1>1, <1>2, DepthIs, InductionUpTo
<1>4. ASSUME NEW d \in 0 .. MaxDepth PROVE ValuesTo[d] \subseteq AbiValues
  <2>1. MaxDepth - d \in 0 .. MaxDepth /\ MaxDepth - (MaxDepth - d) = d
    BY DepthIs
  <2>2. MaxDepth - d \in Below
    BY <1>3, <2>1
  <2> QED BY <2>1, <2>2
<1> QED BY <1>4

\* A simple value is a value at every depth.
LEMMA SimpleValuesAreValues == SimpleValues \subseteq AbiValues
<1>1. 0 \in 0 .. MaxDepth
  BY DepthIs
<1> QED BY <1>1, ValuesGrow, ValuesToIs

\* The values, each with what it has inside.
LEMMA ValueKinds ==
  ASSUME NEW value \in AbiValues
  PROVE  \/ value[1] \in {"number", "bigint"} /\ value[2] \in Int
         \/ value[1] = "boolean" /\ value[2] \in BOOLEAN /\ value = Boolean(value[2])
         \/ value[1] \in {"string", "bytes"} /\ value[2] \in ByteStrings
         \/ value[1] = "address" /\ value[2] \in [1 .. AddressSize -> 0 .. Base - 1]
         \/ value[1] = "undefined" /\ value = Undefined
         \/ value[1] = "array" /\ value[2] \in Seq(AbiValues) /\ value = ArrayValue(value[2])
<1>1. value \in SimpleValues \/ \E d \in 1 .. MaxDepth : value \in {"array"} \X Seq(ValuesTo[d - 1])
  <2>1. CASE MaxDepth = 0
    BY <2>1, ValuesToIs DEF AbiValues
  <2>2. CASE MaxDepth # 0
    <3>1. MaxDepth \in 1 .. MaxDepth
      BY <2>2, DepthIs
    <3>2. ValuesTo[MaxDepth] = SimpleValues \cup ({"array"} \X Seq(ValuesTo[MaxDepth - 1]))
      BY <3>1, ValuesToIs
    <3> QED BY <3>1, <3>2 DEF AbiValues
  <2> QED BY <2>1, <2>2
<1>2. CASE value \in SimpleValues
  <2>1. CASE value \in {"number", "bigint"} \X Int
    BY <2>1
  <2>2. CASE value \in {"boolean"} \X BOOLEAN
    BY <2>2 DEF Boolean
  <2>3. CASE value \in {"string", "bytes"} \X ByteStrings
    BY <2>3
  <2>4. CASE value \in {"address"} \X [1 .. AddressSize -> 0 .. Base - 1]
    BY <2>4
  <2>5. CASE value = Undefined
    BY <2>5 DEF Undefined
  <2> QED BY <1>2, <2>1, <2>2, <2>3, <2>4, <2>5 DEF SimpleValues
<1>3. ASSUME NEW d \in 1 .. MaxDepth, value \in {"array"} \X Seq(ValuesTo[d - 1])
      PROVE  value[1] = "array" /\ value[2] \in Seq(AbiValues) /\ value = ArrayValue(value[2])
  <2>1. ValuesTo[d - 1] \subseteq AbiValues
    <3>1. d - 1 \in 0 .. MaxDepth
      BY DepthIs
    <3> QED BY <3>1, ValuesGrow
  <2>2. Seq(ValuesTo[d - 1]) \subseteq Seq(AbiValues)
    BY <2>1
  <2>3. value[1] = "array" /\ value[2] \in Seq(ValuesTo[d - 1]) /\ value = <<"array", value[2]>>
    BY <1>3
  <2> QED BY <2>2, <2>3 DEF ArrayValue
<1> QED BY <1>1, <1>2, <1>3

\* The elements of a value are values.
LEMMA ElementsAre ==
  ASSUME NEW value \in AbiValues, IsList(value)
  PROVE  /\ ElementsOf(value) \in Seq(AbiValues)
         /\ Len(ElementsOf(value)) = Len(value[2])
         /\ value[1] = "array" => ElementsOf(value) = value[2]
<1>1. CASE value[1] = "array"
  BY <1>1, ValueKinds DEF ElementsOf, IsA
<1>2. CASE value[1] = "bytes"
  <2>1. value[2] \in ByteStrings
    BY <1>2, ValueKinds
  <2>2. /\ Len(value[2]) \in Nat /\ DOMAIN value[2] = 1 .. Len(value[2])
        /\ \A i \in 1 .. Len(value[2]) : value[2][i] \in 0 .. Base - 1
    BY <2>1, ElementIs DEF ByteStrings
  <2>3. \A i \in 1 .. Len(value[2]) : Number(value[2][i]) \in AbiValues
    <3>1. \A n \in Int : Number(n) \in SimpleValues
      BY DEF Number, SimpleValues
    <3> QED BY <2>2, <3>1, SimpleValuesAreValues, BaseIs
  <2>4. ElementsOf(value) = [i \in 1 .. Len(value[2]) |-> Number(value[2][i])]
    BY <1>2, <2>2 DEF ElementsOf, IsA
  <2> QED BY <1>2, <2>2, <2>3, <2>4
<1> QED BY <1>1, <1>2 DEF IsList

\* An element that is not there is undefined.
LEMMA ElementAtIs ==
  ASSUME NEW elements \in Seq(AbiValues), NEW i
  PROVE  /\ ElementAt(elements, i) \in AbiValues
         /\ i \in DOMAIN elements => ElementAt(elements, i) = elements[i]
         /\ i \notin DOMAIN elements => ElementAt(elements, i) = Undefined
<1>1. Undefined \in AbiValues
  BY SimpleValuesAreValues DEF SimpleValues
<1>2. \A k \in DOMAIN elements : elements[k] \in AbiValues
  BY ElementIs
<1> QED BY <1>1, <1>2 DEF ElementAt

\* What throws gives no bytes.
LEMMA NoBytesAreNone ==
  ASSUME NEW bytes \in ByteStrings
  PROVE  bytes # NoBytes
<1>1. \A i \in 1 .. Len(bytes) : bytes[i] \in 0 .. Base - 1
  BY ElementIs DEF ByteStrings
<1>2. Len(NoBytes) = 1 /\ NoBytes[1] = -1
  BY DEF NoBytes
<1>3. -1 \notin 0 .. Base - 1
  BY BaseIs
<1> QED BY <1>1, <1>2, <1>3

-----------------------------------------------------------------------------
(* What is encoded *)

\* The functions over types and values, each as its definition says.
LEMMA FunctionsAre ==
  ASSUME NEW type \in Types
  PROVE  /\ \A value \in AbiValues :
              /\ AbiEncode[type][value] = EncodeAs(type, value, AbiEncode)
              /\ Meant[type][value] = MeantAs(type, value, Meant)
              /\ EncodedSize[type][value] = SizeAs(type, value, EncodedSize)
              /\ \A strictly \in BOOLEAN :
                   Fits[type][strictly][value] = FitsAs(type, value, strictly, Fits)
         /\ \A bytes \in ByteStrings : AbiDecode[type][bytes] = DecodeAs(type, bytes, AbiDecode)
<1>1. \A value \in AbiValues : AbiEncode[type][value] = EncodeAs(type, value, AbiEncode)
  BY AbiEncodeIs
<1>2. \A value \in AbiValues : Meant[type][value] = MeantAs(type, value, Meant)
  BY MeantIs
<1>3. \A value \in AbiValues : EncodedSize[type][value] = SizeAs(type, value, EncodedSize)
  BY EncodedSizeIs
<1>4. \A value \in AbiValues : \A strictly \in BOOLEAN :
        Fits[type][strictly][value] = FitsAs(type, value, strictly, Fits)
  <2>1. Fits[type] = [strictly \in BOOLEAN |->
                       [value \in AbiValues |-> FitsAs(type, value, strictly, Fits)]]
    BY FitsIs
  <2> QED BY <2>1
<1>5. \A bytes \in ByteStrings : AbiDecode[type][bytes] = DecodeAs(type, bytes, AbiDecode)
  BY AbiDecodeIs
<1> QED BY <1>1, <1>2, <1>3, <1>4, <1>5

\* encode gives the bytes of just the values that fit, as many as are expected.
EncodesAll(type) ==
  \A value \in AbiValues :
    /\ AbiEncode[type][value] \in ByteStrings \cup {NoBytes}
    /\ AbiEncode[type][value] # NoBytes <=> Fits[type][FALSE][value]
    /\ AbiEncode[type][value] # NoBytes =>
         Len(AbiEncode[type][value]) = EncodedSize[type][value]
    /\ Fits[type][TRUE][value] => Fits[type][FALSE][value]

\* What an integer is encoded to: as many bytes as its size says (bigIntToBytes).
LEMMA IntegerEncoded ==
  ASSUME NEW value \in AbiValues, NEW size \in Nat
  PROVE  /\ EncodeInteger(value, size) \in ByteStrings \cup {NoBytes}
         /\ EncodeInteger(value, size) # NoBytes =>
              /\ value[1] \in {"number", "bigint"}
              /\ value[2] \in Nat /\ value[2] < Power[Bits * size]
              /\ EncodeInteger(value, size) = BytesOf(value[2], size)
              /\ Len(EncodeInteger(value, size)) = size
<1> DEFINE Right == /\ value[1] \in {"number", "bigint"}
                    /\ value[2] \in 0 .. Power[Bits * size] - 1
                    /\ IsA(value, "number") => value[2] <= MaxSafeInteger
<1>1. CASE Right
  <2>1. Bits * size \in Nat
    <3>1. \A x, y \in Nat : x * y \in Nat
      OBVIOUS
    <3> QED BY <3>1, BaseIs
  <2>2. Power[Bits * size] \in Nat
    BY <2>1, PowerSteps
  <2>3. value[2] \in Nat /\ value[2] < Power[Bits * size]
    BY <1>1, <2>2
  <2>4. EncodeInteger(value, size) = BytesOf(value[2], size)
    BY <1>1, <2>3, NumberFits DEF EncodeInteger
  <2> QED BY <1>1, <2>3, <2>4, BytesOfIs
<1>2. CASE ~Right
  BY <1>2 DEF EncodeInteger
<1> QED BY <1>1, <1>2

\* The byte of the boolean that is true.
LEMMA HighBit == Power[Bits - 1] \in 1 .. Base - 1
<1>1. Bits - 1 \in Nat /\ (Bits - 1) + 1 = Bits
  BY BaseIs
<1>2. Power[Bits] = 2 * Power[Bits - 1] /\ Power[Bits - 1] \in Nat \ {0}
  BY <1>1, PowerSteps
<1> QED BY <1>2, BaseIs

\* A byte is a string of bytes.
LEMMA OneByte ==
  ASSUME NEW n \in 0 .. Base - 1
  PROVE  <<n>> \in ByteStrings /\ Len(<<n>>) = 1
BY DEF ByteStrings

\* What a byte is encoded to (ABIByteType.encode).
LEMMA ByteEncoded ==
  ASSUME NEW value \in AbiValues
  PROVE  /\ EncodeByte(value) \in ByteStrings \cup {NoBytes}
         /\ EncodeByte(value) # NoBytes =>
              /\ value[1] \in {"number", "bigint"} /\ value[2] \in 0 .. Base - 1
              /\ EncodeByte(value) = <<value[2]>> /\ Len(EncodeByte(value)) = 1
BY OneByte DEF EncodeByte

\* What a boolean is encoded to (ABIBoolType.encode).
LEMMA BoolEncoded ==
  ASSUME NEW value \in AbiValues
  PROVE  /\ EncodeBool(value) \in ByteStrings \cup {NoBytes}
         /\ EncodeBool(value) # NoBytes <=> IsA(value, "boolean")
         /\ IsA(value, "boolean") =>
              /\ value \in {Boolean(TRUE), Boolean(FALSE)}
              /\ EncodeBool(value) =
                   IF value = Boolean(TRUE) THEN <<Power[Bits - 1]>> ELSE <<0>>
              /\ Len(EncodeBool(value)) = 1
<1>1. Boolean(TRUE) # Boolean(FALSE)
  BY DEF Boolean
<1>2. IsA(value, "boolean") => value \in {Boolean(TRUE), Boolean(FALSE)}
  <2>1. IsA(value, "boolean") => value[2] \in BOOLEAN /\ value = Boolean(value[2])
    BY ValueKinds DEF IsA
  <2> QED BY <2>1
<1>3. <<Power[Bits - 1]>> \in ByteStrings /\ <<0>> \in ByteStrings
      /\ Len(<<Power[Bits - 1]>>) = 1 /\ Len(<<0>>) = 1
  BY HighBit, OneByte, BaseIs
<1>4. IsA(value, "boolean") =>
        EncodeBool(value) = IF value = Boolean(TRUE) THEN <<Power[Bits - 1]>> ELSE <<0>>
  BY <1>1, <1>2 DEF EncodeBool
<1>5. ~IsA(value, "boolean") => EncodeBool(value) = NoBytes
  <2>1. ~IsA(value, "boolean") => value # Boolean(TRUE) /\ value # Boolean(FALSE)
    <3>1. Boolean(TRUE)[1] = "boolean" /\ Boolean(FALSE)[1] = "boolean"
      BY DEF Boolean
    <3> QED BY <3>1 DEF IsA
  <2> QED BY <2>1 DEF EncodeBool
<1> QED BY <1>2, <1>3, <1>4, <1>5, NoBytesAreNone

\* A function over the first numbers is a sequence.
LEMMA FunctionIsSequence ==
  ASSUME NEW S, NEW n \in Nat, NEW f \in [1 .. n -> S]
  PROVE  f \in Seq(S) /\ Len(f) = n
OBVIOUS

\* What an address is encoded to (ABIAddressType.encode).
LEMMA AddressEncoded ==
  ASSUME NEW value \in AbiValues
  PROVE  /\ EncodeAddress(value) \in ByteStrings \cup {NoBytes}
         /\ EncodeAddress(value) # NoBytes =>
              /\ EncodeAddress(value) = value[2] /\ Len(value[2]) = AddressSize
              /\ value[2] \in ByteStrings
<1>1. CASE value[1] = "address"
  <2>1. value[2] \in [1 .. AddressSize -> 0 .. Base - 1]
    BY <1>1, ValueKinds
  <2>2. value[2] \in ByteStrings /\ Len(value[2]) = AddressSize
    <3>1. AddressSize \in Nat
      BY AbiAssumption
    <3> QED BY <2>1, <3>1, FunctionIsSequence DEF ByteStrings
  <2>3. EncodeAddress(value) = value[2]
    BY <1>1 DEF EncodeAddress, IsA
  <2> QED BY <2>2, <2>3
<1>2. CASE value[1] = "bytes" /\ Len(value[2]) = AddressSize
  <2>1. value[2] \in ByteStrings
    BY <1>2, ValueKinds
  <2>2. EncodeAddress(value) = value[2]
    BY <1>2 DEF EncodeAddress, IsA
  <2> QED BY <1>2, <2>1, <2>2
<1>3. CASE value[1] # "address" /\ ~(value[1] = "bytes" /\ Len(value[2]) = AddressSize)
  BY <1>3 DEF EncodeAddress, IsA
<1> QED BY <1>1, <1>2, <1>3

\* What a text is encoded to (ABIStringType.encode).
LEMMA StringEncoded ==
  ASSUME NEW value \in AbiValues
  PROVE  /\ EncodeString(value) \in ByteStrings \cup {NoBytes}
         /\ EncodeString(value) # NoBytes <=> value[1] \in {"string", "bytes"}
         /\ value[1] \in {"string", "bytes"} =>
              /\ value[2] \in ByteStrings
              /\ EncodeString(value) =
                   SubSeq(BigIntToBytes(Len(value[2]), LengthSize), 1, LengthSize) \o value[2]
              /\ Len(EncodeString(value)) = LengthSize + Len(value[2])
<1> DEFINE length == SubSeq(BigIntToBytes(Len(value[2]), LengthSize), 1, LengthSize)
<1>1. CASE value[1] \in {"string", "bytes"}
  <2>1. value[2] \in ByteStrings
    BY <1>1, ValueKinds
  <2>2. Len(value[2]) \in Nat
    BY <2>1 DEF ByteStrings
  <2>3. length \in ByteStrings /\ Len(length) = LengthSize
    BY <2>2, LengthBytes
  <2>4. EncodeString(value) = length \o value[2]
    BY <1>1 DEF EncodeString
  <2> HIDE DEF length
  <2>5. length \o value[2] \in ByteStrings
        /\ Len(length \o value[2]) = LengthSize + Len(value[2])
    BY <2>1, <2>3, JoinedIs, ZenonT(60) DEF ByteStrings
  <2> QED BY <1>1, <2>1, <2>4, <2>5, NoBytesAreNone DEF length
<1>2. CASE value[1] \notin {"string", "bytes"}
  BY <1>2 DEF EncodeString
<1> QED BY <1>1, <1>2

\* Of the simple types, just what fits is encoded, to as many bytes as meant.
LEMMA SimpleEncoded ==
  ASSUME NEW type \in SimpleTypes
  PROVE  EncodesAll(type)
<1> SUFFICES ASSUME NEW value \in AbiValues
             PROVE  /\ AbiEncode[type][value] \in ByteStrings \cup {NoBytes}
                    /\ AbiEncode[type][value] # NoBytes <=> Fits[type][FALSE][value]
                    /\ AbiEncode[type][value] # NoBytes =>
                         Len(AbiEncode[type][value]) = EncodedSize[type][value]
                    /\ Fits[type][TRUE][value] => Fits[type][FALSE][value]
  BY DEF EncodesAll
<1>1. type \in Types
  BY SimpleTypesAreTypes
<1>2. /\ AbiEncode[type][value] = EncodeAs(type, value, AbiEncode)
      /\ EncodedSize[type][value] = SizeAs(type, value, EncodedSize)
      /\ Fits[type][TRUE][value] = FitsAs(type, value, TRUE, Fits)
      /\ Fits[type][FALSE][value] = FitsAs(type, value, FALSE, Fits)
  BY <1>1, FunctionsAre
<1>3. ~IsDynamic[type] => EncodedSize[type][value] = ByteLen[type]
  BY <1>1, <1>2, DynamicIs DEF SizeAs
<1>4. CASE type[1] = "uint"
  <2>1. type[2] \in Nat
    BY <1>1, <1>4, Kinds
  <2>2. /\ AbiEncode[type][value] = EncodeInteger(value, type[2])
        /\ Fits[type][TRUE][value] = (EncodeInteger(value, type[2]) # NoBytes)
        /\ Fits[type][FALSE][value] = (EncodeInteger(value, type[2]) # NoBytes)
    BY <1>2, <1>4 DEF EncodeAs, FitsAs
  <2>3. EncodedSize[type][value] = type[2]
    BY <1>1, <1>3, <1>4, DynamicIs, ByteLenCases
  <2> QED BY <2>1, <2>2, <2>3, IntegerEncoded
<1>5. CASE type[1] = "byte"
  <2>1. /\ AbiEncode[type][value] = EncodeByte(value)
        /\ Fits[type][TRUE][value] = (EncodeByte(value) # NoBytes)
        /\ Fits[type][FALSE][value] = (EncodeByte(value) # NoBytes)
    BY <1>2, <1>5 DEF EncodeAs, FitsAs
  <2>2. EncodedSize[type][value] = 1
    BY <1>1, <1>3, <1>5, DynamicIs, ByteLenCases
  <2> QED BY <2>1, <2>2, ByteEncoded
<1>6. CASE type[1] = "bool"
  <2>1. /\ AbiEncode[type][value] = EncodeBool(value)
        /\ Fits[type][TRUE][value] = IsA(value, "boolean")
        /\ Fits[type][FALSE][value] = IsA(value, "boolean")
    BY <1>2, <1>6 DEF EncodeAs, FitsAs
  <2>2. EncodedSize[type][value] = 1
    BY <1>1, <1>3, <1>6, DynamicIs, ByteLenCases
  <2> QED BY <2>1, <2>2, BoolEncoded
<1>7. CASE type[1] = "address"
  <2>1. /\ AbiEncode[type][value] = EncodeAddress(value)
        /\ Fits[type][TRUE][value] = (EncodeAddress(value) # NoBytes)
        /\ Fits[type][FALSE][value] = (EncodeAddress(value) # NoBytes)
    BY <1>2, <1>7 DEF EncodeAs, FitsAs
  <2>2. EncodedSize[type][value] = AddressSize
    BY <1>1, <1>3, <1>7, DynamicIs, ByteLenCases
  <2> QED BY <2>1, <2>2, AddressEncoded
<1>8. CASE type[1] = "string"
  <2>1. /\ AbiEncode[type][value] = EncodeString(value)
        /\ Fits[type][TRUE][value] =
             (/\ value[1] \in {"string", "bytes"}
              /\ TRUE => Len(value[2]) <= MaxLen /\ IsText(value[2]))
        /\ Fits[type][FALSE][value] =
             (/\ value[1] \in {"string", "bytes"}
              /\ FALSE => Len(value[2]) <= MaxLen /\ IsText(value[2]))
    BY <1>2, <1>8 DEF EncodeAs, FitsAs
  <2>2. EncodedSize[type][value] = LengthSize + Len(value[2])
    BY <1>1, <1>2, <1>8, DynamicIs DEF SizeAs
  <2> QED BY <2>1, <2>2, StringEncoded
<1> QED BY <1>4, <1>5, <1>6, <1>7, <1>8, SimpleCases

\* Heads, and tails where they say.
IsJoined(heads, tails, dynamic, bytes) ==
  LET n == Len(heads)
      start(i) == Total(Lengths(heads), i - 1)
      position(i) == Total(Lengths(heads), n) + Total(Lengths(tails), i - 1)
  IN  IF \E i \in dynamic : position(i) > MaxLen THEN bytes = NoBytes
      ELSE /\ bytes \in ByteStrings
           /\ Len(bytes) = Total(Lengths(heads), n) + Total(Lengths(tails), n)
           /\ \A i \in (1 .. n) \ dynamic :
                SubSeq(bytes, start(i) + 1, start(i) + Len(heads[i])) = heads[i]
           /\ \A i \in dynamic :
                SubSeq(bytes, start(i) + 1, start(i) + LengthSize)
                  = BytesOf(position(i), LengthSize)
           /\ \A i \in 1 .. n :
                SubSeq(bytes, position(i) + 1, position(i) + Len(tails[i])) = tails[i]

\* Heads and tails joined: each is at its position, or one is too far away.
LEMMA JoinedTuple ==
  ASSUME NEW heads \in Seq(ByteStrings), NEW tails \in Seq(ByteStrings), Len(heads) = Len(tails),
         NEW dynamic \in SUBSET (1 .. Len(heads)), \A i \in dynamic : Len(heads[i]) = LengthSize
  PROVE  IsJoined(heads, tails, dynamic, JoinTuple(heads, tails, dynamic))
<1> USE DEF IsJoined
<1> DEFINE n == Len(heads)
           start(i) == Total(Lengths(heads), i - 1)
           position(i) == Total(Lengths(heads), n) + Total(Lengths(tails), i - 1)
           bytes == JoinTuple(heads, tails, dynamic)
           written == [i \in DOMAIN heads |-> IF i \in dynamic THEN BytesOf(position(i), LengthSize)
                                              ELSE heads[i]]
           parts == written \o tails
<1>1. /\ n \in Nat /\ DOMAIN heads = 1 .. n /\ \A i \in 1 .. n : heads[i] \in ByteStrings
      /\ DOMAIN tails = 1 .. n /\ \A i \in 1 .. n : tails[i] \in ByteStrings
      /\ n = Len(heads) /\ n = Len(tails)
  BY ElementIs
<1> HIDE DEF n
<1>2. /\ \A i \in 1 .. n : Lengths(heads)[i] = Len(heads[i]) /\ Len(heads[i]) \in Nat
      /\ \A i \in 1 .. n : Lengths(tails)[i] = Len(tails[i]) /\ Len(tails[i]) \in Nat
      /\ \A i \in 0 .. n : Total(Lengths(heads), i) \in Nat /\ Total(Lengths(tails), i) \in Nat
  <2>1. /\ \A i \in 1 .. n : Lengths(heads)[i] = Len(heads[i]) /\ Len(heads[i]) \in Nat
        /\ \A i \in 1 .. n : Lengths(tails)[i] = Len(tails[i]) /\ Len(tails[i]) \in Nat
    BY <1>1 DEF Lengths, ByteStrings
  <2>2. \A i \in 0 .. n : Total(Lengths(heads), i) \in Nat /\ Total(Lengths(tails), i) \in Nat
    BY <1>1, <2>1, TotalOfNat
  <2> QED BY <2>1, <2>2
<1>3. ASSUME NEW front \in Seq(ByteStrings), Len(front) = n,
             \A i \in 1 .. n : Len(front[i]) = Len(heads[i])
      PROVE  /\ front \o tails \in Seq(ByteStrings) /\ Len(front \o tails) = n + n
             /\ \A i \in 1 .. n : (front \o tails)[i] = front[i] /\ (front \o tails)[n + i] = tails[i]
             /\ \A i \in 1 .. n : PositionIn(front \o tails, i) = start(i)
             /\ \A i \in 1 .. n : PositionIn(front \o tails, n + i) = position(i)
             /\ Total(Lengths(front \o tails), n + n)
                  = Total(Lengths(heads), n) + Total(Lengths(tails), n)
  <2>1. /\ front \o tails \in Seq(ByteStrings) /\ Len(front \o tails) = n + n
        /\ \A i \in 1 .. n : (front \o tails)[i] = front[i] /\ (front \o tails)[n + i] = tails[i]
    <3>1. /\ front \o tails \in Seq(ByteStrings) /\ Len(front \o tails) = Len(front) + Len(tails)
          /\ \A i \in 1 .. Len(front) : (front \o tails)[i] = front[i]
          /\ \A i \in 1 .. Len(tails) : (front \o tails)[Len(front) + i] = tails[i]
      BY JoinedIs
    <3>2. Len(front) = n /\ Len(tails) = n
      BY <1>1, <1>3
    <3> QED BY <3>1, <3>2
  <2> DEFINE all == front \o tails
  <2>2. DOMAIN all = 1 .. n + n
    BY <2>1, ElementIs
  <2> HIDE DEF all
  <2>3. /\ \A i \in 1 .. n : Lengths(all)[i] = Lengths(heads)[i]
        /\ \A i \in 1 .. n : Lengths(all)[n + i] = Lengths(tails)[i]
    <3>1. \A i \in 1 .. n : i \in 1 .. n + n /\ n + i \in 1 .. n + n
      BY <1>1
    <3> QED BY <1>2, <1>3, <2>1, <2>2, <3>1 DEF Lengths, all
  <2>4. /\ \A i \in 0 .. n : Total(Lengths(all), i) = Total(Lengths(heads), i)
        /\ \A i \in 0 .. n :
             Total(Lengths(all), n + i) = Total(Lengths(heads), n) + Total(Lengths(tails), i)
    <3>1. /\ \A i \in 1 .. n : Lengths(heads)[i] \in Int /\ Lengths(all)[i] = Lengths(heads)[i]
          /\ \A i \in 1 .. n : Lengths(tails)[i] \in Int /\ Lengths(all)[n + i] = Lengths(tails)[i]
      <4>1. \A x \in Nat : x \in Int
        OBVIOUS
      <4> QED BY <1>2, <2>3, <4>1
    <3>2. Continues(Lengths(all), Lengths(heads), n, Lengths(tails), n)
      BY <3>1 DEF Continues
    <3> QED BY <1>1, <3>2, TotalOfMore
  <2>5. ASSUME NEW i \in 1 .. n
        PROVE  PositionIn(all, i) = start(i) /\ PositionIn(all, n + i) = position(i)
    <3>1. i - 1 \in 0 .. n /\ (n + i) - 1 = n + (i - 1)
      BY <1>1
    <3>2. \A k : PositionIn(all, k) = Total(Lengths(all), k - 1)
      BY DEF PositionIn, Lengths
    <3> QED BY <2>4, <3>1, <3>2
  <2>6. n \in 0 .. n
    BY <1>1
  <2> QED BY <2>1, <2>4, <2>5, <2>6 DEF all
<1>4. \A i \in 1 .. n : PositionIn(heads \o tails, Len(heads) + i) = position(i)
  <2>1. Len(heads) = n
    BY <1>1
  <2> HIDE DEF start, position
  <2> QED BY <2>1, <1>3
<1>5. NoBytes \notin Range(heads \o tails)
  <2>1. heads \o tails \in Seq(ByteStrings)
    BY <1>3
  <2>2. \A i \in DOMAIN (heads \o tails) : (heads \o tails)[i] \in ByteStrings
    BY <2>1, ElementIs
  <2> QED BY <2>2, NoBytesAreNone DEF Range
<1>6. bytes = IF \E i \in dynamic : position(i) > MaxLen THEN NoBytes ELSE FlattenSeq(parts)
  <2>1. written = [i \in DOMAIN heads |->
                    IF i \in dynamic
                    THEN BytesOf(PositionIn(heads \o tails, Len(heads) + i), LengthSize)
                    ELSE heads[i]]
    BY <1>1, <1>4
  <2>2. \A i \in dynamic : PositionIn(heads \o tails, Len(heads) + i) = position(i)
    BY <1>1, <1>4
  <2> HIDE DEF position, written
  <2>3. (\E i \in dynamic : PositionIn(heads \o tails, Len(heads) + i) > MaxLen)
          <=> \E i \in dynamic : position(i) > MaxLen
    BY <2>2
  <2> QED BY <1>5, <2>1, <2>3 DEF JoinTuple
<1>7. CASE ~\E i \in dynamic : position(i) > MaxLen
  <2>1. /\ written \in Seq(ByteStrings) /\ Len(written) = n
        /\ \A i \in 1 .. n : written[i] = IF i \in dynamic THEN BytesOf(position(i), LengthSize)
                                          ELSE heads[i]
        /\ \A i \in 1 .. n : Len(written[i]) = Len(heads[i])
    <3>1. \A i \in 1 .. n : position(i) \in Nat
      <4>1. \A i \in 1 .. n : i - 1 \in 0 .. n /\ n \in 0 .. n
        BY <1>1
      <4>2. \A x, y \in Nat : x + y \in Nat
        OBVIOUS
      <4> QED BY <1>2, <4>1, <4>2
    <3>2. \A i \in 1 .. n : BytesOf(position(i), LengthSize) \in ByteStrings
                            /\ Len(BytesOf(position(i), LengthSize)) = LengthSize
      <4>1. LengthSize \in Nat
        BY DEF LengthSize
      <4> QED BY <3>1, <4>1, BytesOfIs
    <3>3. \A i \in 1 .. n : written[i] = IF i \in dynamic THEN BytesOf(position(i), LengthSize)
                                         ELSE heads[i]
      BY <1>1
    <3>4. written \in [1 .. n -> ByteStrings]
      <4> HIDE DEF position
      <4> QED BY <1>1, <3>2
    <3>5. written \in Seq(ByteStrings) /\ Len(written) = n
      BY <1>1, <3>4, FunctionIsSequence
    <3>6. \A i \in dynamic : Len(heads[i]) = LengthSize
      OBVIOUS
    <3> HIDE DEF position, written
    <3>7. \A i \in 1 .. n : Len(written[i]) = Len(heads[i])
      BY <3>2, <3>3, <3>6
    <3> QED BY <3>3, <3>5, <3>7
  <2> HIDE DEF written
  <2>2. /\ parts \in Seq(ByteStrings) /\ Len(parts) = n + n
        /\ \A i \in 1 .. n : parts[i] = written[i] /\ parts[n + i] = tails[i]
        /\ \A i \in 1 .. n : PositionIn(parts, i) = start(i)
        /\ \A i \in 1 .. n : PositionIn(parts, n + i) = position(i)
        /\ Total(Lengths(parts), n + n) = Total(Lengths(heads), n) + Total(Lengths(tails), n)
    BY <1>3, <2>1
  <2> HIDE DEF parts, position, start
  <2>3. /\ FlattenSeq(parts) \in ByteStrings
        /\ Len(FlattenSeq(parts)) = Total(Lengths(parts), n + n)
        /\ \A i \in 1 .. n + n :
             SubSeq(FlattenSeq(parts), PositionIn(parts, i) + 1,
                    PositionIn(parts, i) + Len(parts[i])) = parts[i]
    BY <2>2, FlattenIs, PartIsThere DEF ByteStrings
  <2>4. \A i \in 1 .. n : i \in 1 .. n + n /\ n + i \in 1 .. n + n
    BY <1>1
  <2>5. bytes = FlattenSeq(parts)
    BY <1>6, <1>7
  <2> HIDE DEF bytes
  <2>6. \A i \in 1 .. n : SubSeq(bytes, start(i) + 1, start(i) + Len(heads[i])) = written[i]
    BY <2>1, <2>2, <2>3, <2>4, <2>5
  <2>7. \A i \in 1 .. n : SubSeq(bytes, position(i) + 1, position(i) + Len(tails[i])) = tails[i]
    BY <2>2, <2>3, <2>4, <2>5
  <2>8. /\ bytes \in ByteStrings
        /\ Len(bytes) = Total(Lengths(heads), n) + Total(Lengths(tails), n)
    BY <2>2, <2>3, <2>5
  <2>9. /\ \A i \in (1 .. n) \ dynamic :
             SubSeq(bytes, start(i) + 1, start(i) + Len(heads[i])) = heads[i]
        /\ \A i \in dynamic :
             SubSeq(bytes, start(i) + 1, start(i) + LengthSize) = BytesOf(position(i), LengthSize)
    <3>1. \A i \in dynamic : i \in 1 .. n /\ Len(heads[i]) = LengthSize
      BY <1>1
    <3> QED BY <2>1, <2>6, <3>1
  <2> USE DEF bytes, position, start, n
  <2> QED BY <1>7, <2>7, <2>8, <2>9
<1>8. CASE \E i \in dynamic : position(i) > MaxLen
  <2>1. bytes = NoBytes
    <3> HIDE DEF position, bytes
    <3> QED BY <1>6, <1>8
  <2> QED BY <1>8, <2>1 DEF n
<1> QED BY <1>7, <1>8

\* The bit that a boolean is encoded as; one that is missing is 0.
BitOf(elements, i) == IF i \in DOMAIN elements /\ elements[i] = Boolean(TRUE) THEN 1 ELSE 0

\* Booleans that share a byte.
LEMMA BoolsCompressed ==
  ASSUME NEW types \in Seq(Types), NEW elements \in Seq(AbiValues), NEW h \in 1 .. Len(types),
         types[h] = Bool
  PROVE  LET bytes == CompressBools(types, elements, h)
         IN  /\ bytes \in ByteStrings \cup {NoBytes}
             /\ bytes # NoBytes <=>
                  \A i \in DOMAIN types \cap DOMAIN elements :
                    HeadOf(types, i) = h => IsA(elements[i], "boolean")
             /\ bytes # NoBytes => Len(bytes) = 1
             /\ bytes # NoBytes =>
                  \A i \in 1 .. Len(types) :
                    types[i] = Bool /\ HeadOf(types, i) = h =>
                      (bytes[1] \div Power[Bits - (i - h + 1)]) % 2 = BitOf(elements, i)
<1> DEFINE shared == {i \in DOMAIN types \cap DOMAIN elements : HeadOf(types, i) = h}
           bit(n) == IF h + n - 1 \in shared /\ elements[h + n - 1] = Boolean(TRUE)
                     THEN Power[Bits - n] ELSE 0
           bits == [n \in 1 .. Bits |-> bit(n)]
           bytes == CompressBools(types, elements, h)
<1>1. bytes = IF \E i \in shared : ~IsA(elements[i], "boolean") THEN NoBytes
              ELSE <<Total(bits, Bits)>>
  BY DEF CompressBools
<1>2. /\ Bits \in Nat /\ \A n \in 1 .. Bits : bits[n] \in {0, Power[Bits - n]}
      /\ \A n \in 1 .. Bits : Power[Bits - n] \in Nat \ {0}
  <2>1. \A n \in 1 .. Bits : Bits - n \in Nat
    BY BaseIs
  <2>2. \A n \in 1 .. Bits : Power[Bits - n] \in Nat \ {0}
    BY <2>1, PowerSteps
  <2> QED BY <2>2, BaseIs
<1>3. /\ Total(bits, Bits) \in 0 .. Base - 1
      /\ \A n \in 1 .. Bits :
           (Total(bits, Bits) \div Power[Bits - n]) % 2 = IF bits[n] = 0 THEN 0 ELSE 1
  <2> HIDE DEF bits
  <2> QED BY <1>2, BitsAreRead
<1>4. <<Total(bits, Bits)>> \in ByteStrings /\ Len(<<Total(bits, Bits)>>) = 1
  BY <1>3, OneByte
<1>5. bytes # NoBytes => bytes = <<Total(bits, Bits)>>
  <2> HIDE DEF bytes, bits
  <2> QED BY <1>1
<1>6. bytes # NoBytes <=> \A i \in shared : IsA(elements[i], "boolean")
  <2> HIDE DEF bytes, bits, shared
  <2> QED BY <1>1, <1>4, NoBytesAreNone
<1>7. ASSUME NEW i \in 1 .. Len(types), types[i] = Bool, HeadOf(types, i) = h
      PROVE  (Total(bits, Bits) \div Power[Bits - (i - h + 1)]) % 2 = BitOf(elements, i)
  <2>1. h \in Nat /\ h <= i /\ i - h < Bits
    <3>1. i \in Nat \ {0}
      OBVIOUS
    <3> QED BY <1>7, <3>1, HeadOfIs
  <2>2. i - h + 1 \in 1 .. Bits /\ h + (i - h + 1) - 1 = i
    BY <1>2, <2>1
  <2>3. DOMAIN types = 1 .. Len(types)
    OBVIOUS
  <2>4. i \in shared <=> i \in DOMAIN elements
    BY <1>7, <2>3
  <2>5. bits[i - h + 1] = IF i \in shared /\ elements[i] = Boolean(TRUE)
                          THEN Power[Bits - (i - h + 1)] ELSE 0
    <3> HIDE DEF shared
    <3> QED BY <2>2
  <2>6. bits[i - h + 1] = 0 <=> BitOf(elements, i) = 0
    <3> HIDE DEF shared, bits
    <3>1. Power[Bits - (i - h + 1)] # 0
      BY <1>2, <2>2
    <3> DEFINE Set == i \in DOMAIN elements /\ elements[i] = Boolean(TRUE)
    <3>2. BitOf(elements, i) = IF Set THEN 1 ELSE 0
      BY DEF BitOf
    <3>3. bits[i - h + 1] = IF Set THEN Power[Bits - (i - h + 1)] ELSE 0
      BY <2>4, <2>5
    <3> HIDE DEF Set
    <3> QED BY <3>1, <3>2, <3>3
  <2>7. BitOf(elements, i) \in {0, 1}
    BY DEF BitOf
  <2> HIDE DEF bits
  <2> QED BY <1>3, <2>2, <2>6, <2>7
<1>8. <<Total(bits, Bits)>>[1] = Total(bits, Bits)
  OBVIOUS
<1> HIDE DEF bits, bytes
<1> QED BY <1>4, <1>5, <1>6, <1>7, <1>8 DEF bytes

\* The tuple has types, and values where what is inside is encoded as it should be.
Encodable(types, elements) ==
  /\ types \in Seq(Types) /\ elements \in Seq(AbiValues)
  /\ \A i \in DOMAIN types : EncodesAll(types[i])

\* The head and the tail of an element, as the codec makes them.
HeadBytes(types, elements, i) == EncodeHead(types, elements, i, AbiEncode)
TailBytes(types, elements, i) == EncodeTail(types, elements, i, AbiEncode)

\* The sizes that the tails of a tuple are to have.
TailSizes(types, elements) ==
  [i \in DOMAIN types |->
    IF IsDynamic[types[i]] THEN EncodedSize[types[i]][ElementAt(elements, i)] ELSE 0]

\* An element is encoded as its type says.
LEMMA ElementEncoded ==
  ASSUME NEW types, NEW elements, Encodable(types, elements), NEW i \in 1 .. Len(types)
  PROVE  LET bytes == AbiEncode[types[i]][ElementAt(elements, i)]
         IN  /\ types[i] \in Types /\ ElementAt(elements, i) \in AbiValues
             /\ bytes \in ByteStrings \cup {NoBytes}
             /\ bytes # NoBytes <=> Fits[types[i]][FALSE][ElementAt(elements, i)]
             /\ bytes # NoBytes => Len(bytes) = EncodedSize[types[i]][ElementAt(elements, i)]
<1>1. i \in DOMAIN types /\ types[i] \in Types
  BY ElementIs DEF Encodable
<1>2. ElementAt(elements, i) \in AbiValues
  BY ElementAtIs DEF Encodable
<1>3. EncodesAll(types[i])
  BY <1>1 DEF Encodable
<1> QED BY <1>1, <1>2, <1>3 DEF EncodesAll

\* What is encoded with a static type has as many bytes as the type.
LEMMA StaticSize ==
  ASSUME NEW type \in Types, ~IsDynamic[type], NEW value \in AbiValues
  PROVE  EncodedSize[type][value] = ByteLen[type]
<1>1. EncodedSize[type][value] = SizeAs(type, value, EncodedSize)
  BY FunctionsAre
<1> QED BY <1>1, DynamicIs DEF SizeAs

\* The head of an element has as many bytes as the type says.
LEMMA HeadEncoded ==
  ASSUME NEW types, NEW elements, Encodable(types, elements), NEW i \in 1 .. Len(types)
  PROVE  LET bytes == HeadBytes(types, elements, i)
         IN  /\ bytes \in ByteStrings \cup {NoBytes}
             /\ bytes # NoBytes => Len(bytes) = HeadSizes(types, ByteLen)[i]
             /\ IsDynamic[types[i]] => bytes = <<0, 0>>
             /\ ~HasHead(types, i) => bytes = <<>>
             /\ HasHead(types, i) /\ types[i] = Bool => bytes = CompressBools(types, elements, i)
             /\ ~IsDynamic[types[i]] /\ types[i] # Bool =>
                  bytes = AbiEncode[types[i]][ElementAt(elements, i)]
<1> DEFINE bytes == HeadBytes(types, elements, i)
<1>1. types[i] \in Types /\ types \in Seq(Types) /\ elements \in Seq(AbiValues)
  BY ElementEncoded DEF Encodable
<1>2. ~IsDynamic[Bool]
  BY KindOfBool, DynamicIs
<1>3. HeadSizes(types, ByteLen)[i] = IF HasHead(types, i) THEN ByteLen[types[i]] ELSE 0
  BY <1>1, HeadsAre
<1>4. types[i] # Bool => HasHead(types, i)
  <2>1. i \in Nat \ {0}
    OBVIOUS
  <2> QED BY <2>1, HeadHasHead
<1>5. CASE ~HasHead(types, i)
  <2>1. bytes = <<>>
    BY <1>2, <1>4, <1>5 DEF HeadBytes, EncodeHead
  <2>2. <<>> \in ByteStrings /\ Len(<<>>) = 0
    BY DEF ByteStrings
  <2> QED BY <1>2, <1>3, <1>4, <1>5, <2>1, <2>2
<1>6. CASE HasHead(types, i) /\ types[i] = Bool
  <2>1. bytes = CompressBools(types, elements, i)
    BY <1>2, <1>6 DEF HeadBytes, EncodeHead
  <2>2. bytes \in ByteStrings \cup {NoBytes} /\ (bytes # NoBytes => Len(bytes) = 1)
    BY <1>1, <1>6, <2>1, BoolsCompressed
  <2>3. ByteLen[Bool] = 1
    BY KindOfBool, ByteLenCases
  <2> HIDE DEF bytes
  <2> QED BY <1>2, <1>3, <1>6, <2>1, <2>2, <2>3 DEF bytes
<1>7. CASE HasHead(types, i) /\ types[i] # Bool /\ IsDynamic[types[i]]
  <2>1. bytes = <<0, 0>>
    BY <1>7 DEF HeadBytes, EncodeHead
  <2>2. <<0, 0>> \in ByteStrings /\ Len(<<0, 0>>) = LengthSize
    <3>1. 0 \in 0 .. Base - 1
      BY BaseIs
    <3> QED BY <3>1 DEF ByteStrings, LengthSize
  <2>3. ByteLen[types[i]] = LengthSize
    BY <1>1, <1>7, ByteLenCases
  <2> QED BY <1>3, <1>7, <2>1, <2>2, <2>3
<1>8. CASE HasHead(types, i) /\ types[i] # Bool /\ ~IsDynamic[types[i]]
  <2>1. bytes = AbiEncode[types[i]][ElementAt(elements, i)]
    BY <1>8 DEF HeadBytes, EncodeHead
  <2>2. EncodedSize[types[i]][ElementAt(elements, i)] = ByteLen[types[i]]
    BY <1>8, ElementEncoded, StaticSize
  <2> QED BY <1>3, <1>8, <2>1, <2>2, ElementEncoded
<1>9. IsDynamic[types[i]] \in BOOLEAN
  BY <1>1, DynamicIs
<1> QED BY <1>4, <1>5, <1>6, <1>7, <1>8, <1>9

\* The tail of an element is what its type encodes, if the type is dynamic.
LEMMA TailEncoded ==
  ASSUME NEW types, NEW elements, Encodable(types, elements), NEW i \in 1 .. Len(types)
  PROVE  LET bytes == TailBytes(types, elements, i)
         IN  /\ bytes \in ByteStrings \cup {NoBytes}
             /\ bytes # NoBytes => Len(bytes) = TailSizes(types, elements)[i]
             /\ IsDynamic[types[i]] => bytes = AbiEncode[types[i]][ElementAt(elements, i)]
             /\ ~IsDynamic[types[i]] => bytes = <<>>
<1>1. i \in DOMAIN types
  BY ElementIs DEF Encodable
<1>2. <<>> \in ByteStrings /\ Len(<<>>) = 0
  BY DEF ByteStrings
<1>3. CASE IsDynamic[types[i]]
  BY <1>1, <1>3, ElementEncoded DEF TailBytes, EncodeTail, TailSizes
<1>4. CASE ~IsDynamic[types[i]]
  BY <1>1, <1>2, <1>4 DEF TailBytes, EncodeTail, TailSizes
<1> QED BY <1>3, <1>4

\* A missing value is of no type.
LEMMA NothingFits ==
  ASSUME NEW type \in Types, NEW strictly \in BOOLEAN
  PROVE  ~Fits[type][strictly][Undefined]
<1>1. Undefined \in AbiValues
  BY SimpleValuesAreValues DEF SimpleValues
<1>2. Fits[type][strictly][Undefined] = FitsAs(type, Undefined, strictly, Fits)
  BY <1>1, FunctionsAre
<1>3. /\ Undefined[1] = "undefined" /\ ~IsList(Undefined) /\ ~IsA(Undefined, "boolean")
      /\ \A size : EncodeInteger(Undefined, size) = NoBytes
      /\ EncodeByte(Undefined) = NoBytes
  <2>1. Undefined[1] = "undefined"
    BY DEF Undefined
  <2> QED BY <2>1 DEF IsList, IsA, EncodeInteger, EncodeByte
<1>4. EncodeAddress(Undefined) = NoBytes
  BY <1>3 DEF EncodeAddress, IsA
<1> QED BY <1>2, <1>3, <1>4, Kinds DEF FitsAs

\* The element fits its type; of a missing one only a boolean is read.
FitsAt(types, elements, i, strictly) ==
  IF i \in DOMAIN elements THEN Fits[types[i]][strictly][elements[i]] ELSE types[i] = Bool

\* A boolean fits its type.
LEMMA BoolFits ==
  ASSUME NEW value \in AbiValues, NEW strictly \in BOOLEAN
  PROVE  Fits[Bool][strictly][value] = IsA(value, "boolean")
<1>1. Fits[Bool][strictly][value] = FitsAs(Bool, value, strictly, Fits)
  BY KindOfBool, FunctionsAre
<1> QED BY <1>1, KindOfBool DEF FitsAs

\* The parts have bytes when they fit.
LEMMA PartsFit ==
  ASSUME NEW types, NEW elements, Encodable(types, elements)
  PROVE  (\A i \in 1 .. Len(types) :
            HeadBytes(types, elements, i) # NoBytes /\ TailBytes(types, elements, i) # NoBytes)
         <=> \A i \in 1 .. Len(types) : FitsAt(types, elements, i, FALSE)
<1>1. /\ types \in Seq(Types) /\ elements \in Seq(AbiValues)
      /\ Len(types) \in Nat /\ DOMAIN types = 1 .. Len(types)
  BY ElementIs DEF Encodable
<1>2. \A i \in 1 .. Len(types) :
        AbiEncode[types[i]][ElementAt(elements, i)] # NoBytes
          <=> (types[i] # Bool => FitsAt(types, elements, i, FALSE)) /\
              (types[i] = Bool => Fits[types[i]][FALSE][ElementAt(elements, i)])
  <2> SUFFICES ASSUME NEW i \in 1 .. Len(types)
               PROVE  AbiEncode[types[i]][ElementAt(elements, i)] # NoBytes
                        <=> (types[i] # Bool => FitsAt(types, elements, i, FALSE)) /\
                            (types[i] = Bool => Fits[types[i]][FALSE][ElementAt(elements, i)])
    OBVIOUS
  <2>1. /\ types[i] \in Types
        /\ AbiEncode[types[i]][ElementAt(elements, i)] # NoBytes
             <=> Fits[types[i]][FALSE][ElementAt(elements, i)]
    BY ElementEncoded
  <2>2. CASE i \in DOMAIN elements
    <3>1. ElementAt(elements, i) = elements[i]
      BY <2>2 DEF ElementAt
    <3> QED BY <2>1, <2>2, <3>1 DEF FitsAt
  <2>3. CASE i \notin DOMAIN elements
    <3>1. ElementAt(elements, i) = Undefined
      BY <2>3 DEF ElementAt
    <3>2. ~Fits[types[i]][FALSE][Undefined]
      BY <2>1, NothingFits
    <3> QED BY <2>1, <2>3, <3>1, <3>2 DEF FitsAt
  <2> QED BY <2>2, <2>3
<1>3. ASSUME NEW i \in 1 .. Len(types), types[i] # Bool
      PROVE  HeadBytes(types, elements, i) # NoBytes /\ TailBytes(types, elements, i) # NoBytes
               <=> FitsAt(types, elements, i, FALSE)
  <2>1. <<>> # NoBytes /\ <<0, 0>> # NoBytes
    BY DEF NoBytes
  <2>2. types[i] \in Types
    BY ElementEncoded
  <2>3. CASE IsDynamic[types[i]]
    <3>1. /\ HeadBytes(types, elements, i) = <<0, 0>>
          /\ TailBytes(types, elements, i) = AbiEncode[types[i]][ElementAt(elements, i)]
      BY <2>3, HeadEncoded, TailEncoded
    <3>2. AbiEncode[types[i]][ElementAt(elements, i)] # NoBytes <=> FitsAt(types, elements, i, FALSE)
      BY <1>2, <1>3
    <3> QED BY <2>1, <3>1, <3>2
  <2>4. CASE ~IsDynamic[types[i]]
    <3>1. /\ HeadBytes(types, elements, i) = AbiEncode[types[i]][ElementAt(elements, i)]
          /\ TailBytes(types, elements, i) = <<>>
      BY <1>3, <2>4, HeadEncoded, TailEncoded
    <3>2. AbiEncode[types[i]][ElementAt(elements, i)] # NoBytes <=> FitsAt(types, elements, i, FALSE)
      BY <1>2, <1>3
    <3> QED BY <2>1, <3>1, <3>2
  <2> QED BY <2>2, <2>3, <2>4, DynamicIs
<1>4. ASSUME NEW i \in 1 .. Len(types), types[i] = Bool
      PROVE  /\ TailBytes(types, elements, i) # NoBytes
             /\ FitsAt(types, elements, i, FALSE)
                  <=> (i \in DOMAIN elements => IsA(elements[i], "boolean"))
             /\ HeadOf(types, i) \in 1 .. Len(types) /\ types[HeadOf(types, i)] = Bool
             /\ HeadBytes(types, elements, i) # NoBytes
                  <=> ~HasHead(types, i) \/
                      \A k \in DOMAIN types \cap DOMAIN elements :
                        HeadOf(types, k) = i => IsA(elements[k], "boolean")
  <2>1. <<>> # NoBytes
    BY DEF NoBytes
  <2>2. ~IsDynamic[types[i]]
    BY <1>4, KindOfBool, DynamicIs
  <2>3. TailBytes(types, elements, i) # NoBytes
    BY <2>1, <2>2, TailEncoded
  <2>4. FitsAt(types, elements, i, FALSE) <=> (i \in DOMAIN elements => IsA(elements[i], "boolean"))
    <3>1. i \in DOMAIN elements => elements[i] \in AbiValues
      BY <1>1, ElementIs
    <3> QED BY <1>4, <3>1, BoolFits DEF FitsAt
  <2>5. HeadOf(types, i) \in 1 .. i /\ types[HeadOf(types, i)] = Bool
    <3>1. i \in Nat \ {0}
      OBVIOUS
    <3> QED BY <1>4, <3>1, HeadOfIs
  <2>6. HeadOf(types, i) \in 1 .. Len(types)
    BY <1>1, <2>5
  <2>7. HeadBytes(types, elements, i) # NoBytes
          <=> ~HasHead(types, i) \/
              \A k \in DOMAIN types \cap DOMAIN elements :
                HeadOf(types, k) = i => IsA(elements[k], "boolean")
    <3>1. CASE HasHead(types, i)
      <4>1. HeadBytes(types, elements, i) = CompressBools(types, elements, i)
        BY <1>4, <3>1, HeadEncoded
      <4> QED BY <1>1, <1>4, <3>1, <4>1, BoolsCompressed
    <3>2. CASE ~HasHead(types, i)
      BY <2>1, <3>2, HeadEncoded
    <3> QED BY <3>1, <3>2
  <2> QED BY <2>3, <2>4, <2>5, <2>6, <2>7
<1>5. ASSUME \A i \in 1 .. Len(types) : HeadBytes(types, elements, i) # NoBytes,
             NEW i \in 1 .. Len(types), types[i] = Bool
      PROVE  FitsAt(types, elements, i, FALSE)
  <2>1. HasHead(types, HeadOf(types, i)) /\ types[HeadOf(types, i)] = Bool
        /\ HeadOf(types, i) \in 1 .. Len(types)
    <3>1. i \in Nat \ {0}
      OBVIOUS
    <3> QED BY <1>4, <1>5, <3>1, HeadHasHead
  <2>2. \A k \in DOMAIN types \cap DOMAIN elements :
          HeadOf(types, k) = HeadOf(types, i) => IsA(elements[k], "boolean")
    BY <1>4, <1>5, <2>1
  <2> QED BY <1>1, <1>4, <1>5, <2>2
<1>6. ASSUME \A i \in 1 .. Len(types) : FitsAt(types, elements, i, FALSE),
             NEW i \in 1 .. Len(types), types[i] = Bool
      PROVE  HeadBytes(types, elements, i) # NoBytes
  <2>1. ASSUME NEW k \in DOMAIN types \cap DOMAIN elements, HeadOf(types, k) = i
        PROVE  IsA(elements[k], "boolean")
    <3>1. k \in 1 .. Len(types) /\ k \in Nat \ {0}
      BY <1>1
    <3>2. types[k] = Bool
      BY <1>6, <2>1, <3>1, HeadOfIs
    <3> QED BY <1>4, <1>6, <3>1, <3>2
  <2> QED BY <1>4, <1>6, <2>1
<1> QED BY <1>3, <1>4, <1>5, <1>6

\* Where a head and a tail start.
Start(types, i) == Total(HeadSizes(types, ByteLen), i - 1)

\* Where the tail of an element is to start.
TailStart(types, elements, i) ==
  TupleSize(types, ByteLen) + TailsSize(types, elements, i - 1, EncodedSize)

\* What an element is encoded as, and the size of that.
EncodedAt(types, elements, i) == AbiEncode[types[i]][ElementAt(elements, i)]
SizeAt(types, elements, i) == EncodedSize[types[i]][ElementAt(elements, i)]

\* A dynamic element is laid out: its position is at its head, and its bytes are there.
DynamicLaidOut(types, elements, bytes, i) ==
  /\ TailStart(types, elements, i) \in 0 .. MaxLen
  /\ SubSeq(bytes, Start(types, i) + 1, Start(types, i) + LengthSize)
       = BytesOf(TailStart(types, elements, i), LengthSize)
  /\ SubSeq(bytes, TailStart(types, elements, i) + 1,
            TailStart(types, elements, i) + SizeAt(types, elements, i))
       = EncodedAt(types, elements, i)

\* A static element is laid out: its bytes are at its head.
StaticLaidOut(types, elements, bytes, i) ==
  SubSeq(bytes, Start(types, i) + 1, Start(types, i) + ByteLen[types[i]])
    = EncodedAt(types, elements, i)

\* A boolean is laid out: its bit is in the byte that the run of booleans shares.
BoolLaidOut(types, elements, bytes, i) ==
  LET h == HeadOf(types, i)
  IN  (bytes[Start(types, h) + 1] \div Power[Bits - (i - h + 1)]) % 2 = BitOf(elements, i)

\* Every part of the tuple is where it is looked for.
IsLaidOut(types, elements, bytes) ==
  /\ bytes \in ByteStrings
  /\ Len(bytes) = ElementsSize(types, elements, EncodedSize)
  /\ \A i \in 1 .. Len(types) :
       /\ SizeAt(types, elements, i) \in Nat
       /\ IsDynamic[types[i]] => DynamicLaidOut(types, elements, bytes, i)
       /\ ~IsDynamic[types[i]] /\ types[i] # Bool => StaticLaidOut(types, elements, bytes, i)
       /\ types[i] = Bool => BoolLaidOut(types, elements, bytes, i)

\* Every element of a tuple is encoded.
AllBytes(types, elements) ==
  \A i \in 1 .. Len(types) :
    HeadBytes(types, elements, i) # NoBytes /\ TailBytes(types, elements, i) # NoBytes

\* Every tail starts where a position can say.
TailsFitIn(types, elements) ==
  \A i \in 1 .. Len(types) : IsDynamic[types[i]] => TailStart(types, elements, i) <= MaxLen

\* The tails have the sizes that were meant.
LEMMA TailSizesAre ==
  ASSUME NEW types, NEW elements, Encodable(types, elements), AllBytes(types, elements)
  PROVE  LET sizes == TailSizes(types, elements)
             n == Len(types)
         IN  /\ n \in Nat
             /\ \A i \in 1 .. n : sizes[i] \in Nat
             /\ \A i \in 1 .. n : SizeAt(types, elements, i) \in Nat
             /\ \A i \in 1 .. n :
                  sizes[i] = IF IsDynamic[types[i]] THEN SizeAt(types, elements, i) ELSE 0
             /\ \A i : TailsSize(types, elements, i, EncodedSize) = Total(sizes, i)
             /\ Total(sizes, 0) = 0
             /\ \A i \in 1 .. n : Total(sizes, i) = Total(sizes, i - 1) + sizes[i]
             /\ \A i \in 0 .. n : Total(sizes, i) \in Nat
             /\ \A j \in 0 .. n : \A i \in 0 .. j : Total(sizes, i) <= Total(sizes, j)
             /\ ElementsSize(types, elements, EncodedSize)
                  = TupleSize(types, ByteLen) + Total(sizes, n)
<1> DEFINE sizes == TailSizes(types, elements)
           n == Len(types)
<1>1. n \in Nat /\ DOMAIN types = 1 .. n
  BY ElementIs DEF Encodable
<1>2. \A i \in 1 .. n :
        sizes[i] = IF IsDynamic[types[i]] THEN SizeAt(types, elements, i) ELSE 0
  BY <1>1 DEF TailSizes, SizeAt
<1>3. ASSUME NEW i \in 1 .. n PROVE sizes[i] \in Nat
  <2>1. TailBytes(types, elements, i) \in ByteStrings
        /\ Len(TailBytes(types, elements, i)) = sizes[i]
    BY TailEncoded DEF AllBytes
  <2> QED BY <2>1 DEF ByteStrings
<1>4. ASSUME NEW i \in 1 .. n PROVE SizeAt(types, elements, i) \in Nat
  <2>1. types[i] \in Types /\ ElementAt(elements, i) \in AbiValues
    BY ElementEncoded
  <2>2. CASE IsDynamic[types[i]]
    BY <1>2, <1>3, <2>2
  <2>3. CASE ~IsDynamic[types[i]]
    BY <2>1, <2>3, StaticSize, ByteLenTyped DEF SizeAt
  <2> QED BY <2>2, <2>3
<1>5. \A i : TailsSize(types, elements, i, EncodedSize) = Total(sizes, i)
  BY DEF TailsSize, TailSizes
<1>6. ElementsSize(types, elements, EncodedSize) = TupleSize(types, ByteLen) + Total(sizes, n)
  BY <1>5 DEF ElementsSize
<1> HIDE DEF sizes
<1>7. /\ Total(sizes, 0) = 0
      /\ \A i \in 1 .. n : Total(sizes, i) = Total(sizes, i - 1) + sizes[i]
      /\ \A i \in 0 .. n : Total(sizes, i) \in Nat
      /\ \A j \in 0 .. n : \A i \in 0 .. j : Total(sizes, i) <= Total(sizes, j)
  BY <1>1, <1>3, TotalOfNat
<1> QED BY <1>1, <1>2, <1>3, <1>4, <1>5, <1>6, <1>7 DEF sizes

\* A part of one byte.
LEMMA FirstByte ==
  ASSUME NEW bytes \in ByteStrings, NEW m \in Nat, m < Len(bytes)
  PROVE  SubSeq(bytes, m + 1, m + 1)[1] = bytes[m + 1]
<1>1. m + 1 <= Len(bytes)
  BY DEF ByteStrings
<1> QED BY <1>1, SliceOf DEF ByteStrings

\* A tuple whose elements have bytes is laid out as meant if its tails fit.
LEMMA TupleLaidOut ==
  ASSUME NEW types, NEW elements, Encodable(types, elements), AllBytes(types, elements),
         Len(types) < MaxLen, Len(elements) <= MaxLen
  PROVE  LET bytes == EncodeTuple(types, elements, AbiEncode)
         IN  IF TailsFitIn(types, elements)
             THEN IsLaidOut(types, elements, bytes) ELSE bytes = NoBytes
<1> DEFINE bytes == EncodeTuple(types, elements, AbiEncode)
           heads == [i \in DOMAIN types |-> HeadBytes(types, elements, i)]
           tails == [i \in DOMAIN types |-> TailBytes(types, elements, i)]
           dynamic == DynamicIn(types)
           n == Len(types)
           hsizes == HeadSizes(types, ByteLen)
           tsizes == TailSizes(types, elements)
<1>1. /\ types \in Seq(Types) /\ elements \in Seq(AbiValues)
      /\ n \in Nat /\ DOMAIN types = 1 .. n /\ Len(elements) \in Nat
  BY ElementIs DEF Encodable
<1>2. bytes = JoinTuple(heads, tails, dynamic)
  BY <1>1, BaseIs DEF EncodeTuple, HeadBytes, TailBytes
<1>3. /\ heads \in Seq(ByteStrings) /\ Len(heads) = n
      /\ tails \in Seq(ByteStrings) /\ Len(tails) = n
      /\ \A i \in 1 .. n : heads[i] = HeadBytes(types, elements, i) /\ Len(heads[i]) = hsizes[i]
      /\ \A i \in 1 .. n : tails[i] = TailBytes(types, elements, i) /\ Len(tails[i]) = tsizes[i]
  <2>1. \A i \in 1 .. n :
          /\ HeadBytes(types, elements, i) \in ByteStrings
          /\ Len(HeadBytes(types, elements, i)) = hsizes[i]
          /\ TailBytes(types, elements, i) \in ByteStrings
          /\ Len(TailBytes(types, elements, i)) = tsizes[i]
    BY HeadEncoded, TailEncoded DEF AllBytes
  <2>2. heads \in [1 .. n -> ByteStrings] /\ tails \in [1 .. n -> ByteStrings]
    BY <1>1, <2>1
  <2>3. /\ heads \in Seq(ByteStrings) /\ Len(heads) = n
        /\ tails \in Seq(ByteStrings) /\ Len(tails) = n
    <3> HIDE DEF heads, tails, n
    <3> QED BY <1>1, <2>2, FunctionIsSequence
  <2> QED BY <1>1, <2>1, <2>3
<1>4. /\ dynamic \in SUBSET (1 .. Len(heads)) /\ \A i \in dynamic : Len(heads[i]) = LengthSize
      /\ \A i \in 1 .. n : i \in dynamic <=> IsDynamic[types[i]]
  <2>1. \A i \in 1 .. n : i \in dynamic <=> IsDynamic[types[i]]
    BY <1>1 DEF DynamicIn
  <2>2. dynamic \subseteq 1 .. n
    BY <1>1 DEF DynamicIn
  <2>3. \A i \in dynamic : heads[i] = <<0, 0>>
    BY <1>3, <2>1, <2>2, HeadEncoded
  <2>4. Len(<<0, 0>>) = LengthSize
    BY DEF LengthSize
  <2> HIDE DEF heads, dynamic
  <2> QED BY <1>3, <2>1, <2>2, <2>3, <2>4
<1>5. /\ \A i \in 0 .. n : Total(Lengths(heads), i) = Total(hsizes, i)
      /\ \A i \in 0 .. n : Total(Lengths(tails), i) = Total(tsizes, i)
  <2>1. DOMAIN heads = 1 .. n /\ DOMAIN tails = 1 .. n
    BY <1>1
  <2> HIDE DEF heads, tails
  <2>2. /\ \A i \in 1 .. n : hsizes[i] \in Int /\ Lengths(heads)[i] = hsizes[i]
        /\ \A i \in 1 .. n : tsizes[i] \in Int /\ Lengths(tails)[i] = tsizes[i]
    <3>1. \A i \in 1 .. n : hsizes[i] \in Nat /\ tsizes[i] \in Nat
      BY <1>1, HeadsAre, TailSizesAre
    <3> QED BY <1>3, <2>1, <3>1 DEF Lengths
  <2> HIDE DEF hsizes, tsizes
  <2>3. \A i \in 0 .. n : Total(Lengths(heads), i) = Total(hsizes, i)
    BY <1>1, <2>2, TotalOfSame, ZenonT(60)
  <2>4. \A i \in 0 .. n : Total(Lengths(tails), i) = Total(tsizes, i)
    BY <1>1, <2>2, TotalOfSame, ZenonT(60)
  <2> QED BY <2>3, <2>4
<1>6. /\ TupleSize(types, ByteLen) = Total(hsizes, n)
      /\ \A i \in 0 .. n : Total(hsizes, i) \in Nat /\ Total(tsizes, i) \in Nat
      /\ \A i \in 1 .. n : TailStart(types, elements, i) = Total(hsizes, n) + Total(tsizes, i - 1)
      /\ \A i : Start(types, i) = Total(hsizes, i - 1)
      /\ ElementsSize(types, elements, EncodedSize) = Total(hsizes, n) + Total(tsizes, n)
  BY <1>1, HeadsAre, TailSizesAre DEF TailStart, Start
<1>7. \A i \in 1 .. n : i - 1 \in 0 .. n /\ n \in 0 .. n
  BY <1>1
<1>8. IF \E i \in dynamic : TailStart(types, elements, i) > MaxLen THEN bytes = NoBytes
      ELSE /\ bytes \in ByteStrings
           /\ Len(bytes) = Total(hsizes, n) + Total(tsizes, n)
           /\ \A i \in (1 .. n) \ dynamic :
                SubSeq(bytes, Start(types, i) + 1, Start(types, i) + Len(heads[i])) = heads[i]
           /\ \A i \in dynamic :
                SubSeq(bytes, Start(types, i) + 1, Start(types, i) + LengthSize)
                  = BytesOf(TailStart(types, elements, i), LengthSize)
           /\ \A i \in 1 .. n :
                SubSeq(bytes, TailStart(types, elements, i) + 1,
                       TailStart(types, elements, i) + Len(tails[i])) = tails[i]
  <2> DEFINE start(i) == Total(Lengths(heads), i - 1)
             position(i) == Total(Lengths(heads), n) + Total(Lengths(tails), i - 1)
  <2>1. IF \E i \in dynamic : position(i) > MaxLen THEN bytes = NoBytes
        ELSE /\ bytes \in ByteStrings
             /\ Len(bytes) = Total(Lengths(heads), n) + Total(Lengths(tails), n)
             /\ \A i \in (1 .. n) \ dynamic :
                  SubSeq(bytes, start(i) + 1, start(i) + Len(heads[i])) = heads[i]
             /\ \A i \in dynamic :
                  SubSeq(bytes, start(i) + 1, start(i) + LengthSize)
                    = BytesOf(position(i), LengthSize)
             /\ \A i \in 1 .. n :
                  SubSeq(bytes, position(i) + 1, position(i) + Len(tails[i])) = tails[i]
    <3> HIDE DEF heads, tails, dynamic, bytes
    <3>1. Len(heads) = n /\ Len(heads) = Len(tails)
      BY <1>3
    <3>2. heads \in Seq(ByteStrings) /\ tails \in Seq(ByteStrings)
      BY <1>3
    <3>3. IsJoined(heads, tails, dynamic, bytes)
      BY <1>2, <1>4, <3>1, <3>2, JoinedTuple
    <3>4. IF \E i \in dynamic :
               Total(Lengths(heads), Len(heads)) + Total(Lengths(tails), i - 1) > MaxLen
          THEN bytes = NoBytes
          ELSE /\ bytes \in ByteStrings
               /\ Len(bytes) = Total(Lengths(heads), Len(heads)) + Total(Lengths(tails), Len(heads))
               /\ \A i \in (1 .. Len(heads)) \ dynamic :
                    SubSeq(bytes, start(i) + 1, start(i) + Len(heads[i])) = heads[i]
               /\ \A i \in dynamic :
                    SubSeq(bytes, start(i) + 1, start(i) + LengthSize)
                      = BytesOf(Total(Lengths(heads), Len(heads)) + Total(Lengths(tails), i - 1),
                                LengthSize)
               /\ \A i \in 1 .. Len(heads) :
                    SubSeq(bytes, Total(Lengths(heads), Len(heads)) + Total(Lengths(tails), i - 1) + 1,
                           Total(Lengths(heads), Len(heads)) + Total(Lengths(tails), i - 1)
                             + Len(tails[i])) = tails[i]
      BY <3>3 DEF IsJoined
    <3> HIDE DEF n
    <3> QED BY <3>1, <3>4
  <2>2. \A i \in 1 .. n : start(i) = Start(types, i) /\ position(i) = TailStart(types, elements, i)
    <3> HIDE DEF heads, tails, hsizes, tsizes
    <3> QED BY <1>5, <1>6, <1>7
  <2>3. Total(Lengths(heads), n) = Total(hsizes, n) /\ Total(Lengths(tails), n) = Total(tsizes, n)
    <3>1. n \in 0 .. n
      BY <1>1
    <3> QED BY <1>5, <3>1
  <2>4. dynamic \subseteq 1 .. n
    BY <1>3, <1>4
  <2> HIDE DEF heads, tails, hsizes, tsizes, dynamic, bytes, start, position, n
  <2> QED BY <2>1, <2>2, <2>3, <2>4
<1>9. TailsFitIn(types, elements) <=> ~\E i \in dynamic : TailStart(types, elements, i) > MaxLen
  <2>1. \A i \in 1 .. n : TailStart(types, elements, i) \in Nat
    <3>1. \A x, y \in Nat : x + y \in Nat
      OBVIOUS
    <3> QED BY <1>6, <1>7, <3>1
  <2>2. dynamic \subseteq 1 .. n /\ MaxLen \in Nat
    BY <1>3, <1>4, BaseIs
  <2> QED BY <1>4, <2>1, <2>2 DEF TailsFitIn
<1>10. CASE TailsFitIn(types, elements)
  <2>1. /\ bytes \in ByteStrings
        /\ Len(bytes) = Total(hsizes, n) + Total(tsizes, n)
        /\ \A i \in (1 .. n) \ dynamic :
             SubSeq(bytes, Start(types, i) + 1, Start(types, i) + Len(heads[i])) = heads[i]
        /\ \A i \in dynamic :
             SubSeq(bytes, Start(types, i) + 1, Start(types, i) + LengthSize)
               = BytesOf(TailStart(types, elements, i), LengthSize)
        /\ \A i \in 1 .. n :
             SubSeq(bytes, TailStart(types, elements, i) + 1,
                    TailStart(types, elements, i) + Len(tails[i])) = tails[i]
    BY <1>8, <1>9, <1>10
  <2>2. ASSUME NEW i \in 1 .. n, IsDynamic[types[i]]
        PROVE  DynamicLaidOut(types, elements, bytes, i)
    <3>1. TailStart(types, elements, i) \in 0 .. MaxLen
      <4>1. TailStart(types, elements, i) \in Nat
        <5>1. \A x, y \in Nat : x + y \in Nat
          OBVIOUS
        <5> QED BY <1>6, <1>7, <5>1
      <4> QED BY <1>10, <2>2, <4>1, BaseIs DEF TailsFitIn
    <3>2. i \in dynamic
      BY <1>4, <2>2
    <3>3. tails[i] = EncodedAt(types, elements, i) /\ Len(tails[i]) = SizeAt(types, elements, i)
      <4>1. tails[i] = TailBytes(types, elements, i) /\ Len(tails[i]) = tsizes[i]
        BY <1>3
      <4>2. TailBytes(types, elements, i) = EncodedAt(types, elements, i)
        BY <2>2, TailEncoded DEF EncodedAt
      <4>3. tsizes[i] = SizeAt(types, elements, i)
        BY <2>2, TailSizesAre
      <4> QED BY <4>1, <4>2, <4>3
    <3> HIDE DEF tails, dynamic, bytes
    <3> QED BY <2>1, <3>1, <3>2, <3>3 DEF DynamicLaidOut
  <2>3. ASSUME NEW i \in 1 .. n, ~IsDynamic[types[i]], types[i] # Bool
        PROVE  StaticLaidOut(types, elements, bytes, i)
    <3>1. i \in (1 .. n) \ dynamic
      BY <1>4, <2>3
    <3>2. heads[i] = EncodedAt(types, elements, i)
      BY <1>3, <2>3, HeadEncoded DEF EncodedAt
    <3>3. HasHead(types, i)
      <4>1. i \in Nat \ {0}
        OBVIOUS
      <4> QED BY <2>3, <4>1, HeadHasHead
    <3>4. Len(heads[i]) = ByteLen[types[i]]
      BY <1>1, <1>3, <3>3, HeadsAre
    <3> HIDE DEF heads, dynamic, bytes
    <3> QED BY <2>1, <3>1, <3>2, <3>4 DEF StaticLaidOut
  <2>4. ASSUME NEW i \in 1 .. n, types[i] = Bool
        PROVE  BoolLaidOut(types, elements, bytes, i)
    <3> DEFINE h == HeadOf(types, i)
    <3>1. h \in 1 .. n /\ types[h] = Bool /\ HasHead(types, h)
      <4>1. i \in Nat \ {0}
        OBVIOUS
      <4>2. h \in 1 .. i /\ types[h] = Bool /\ HasHead(types, h)
        BY <2>4, <4>1, HeadOfIs, HeadHasHead
      <4> HIDE DEF h
      <4> QED BY <1>1, <4>2
    <3>2. ~IsDynamic[types[h]]
      BY <3>1, KindOfBool, DynamicIs
    <3>3. heads[h] = CompressBools(types, elements, h) /\ heads[h] # NoBytes
      BY <1>3, <3>1, HeadEncoded DEF AllBytes
    <3>4. /\ Len(heads[h]) = 1
          /\ (heads[h][1] \div Power[Bits - (i - h + 1)]) % 2 = BitOf(elements, i)
      BY <1>1, <2>4, <3>1, <3>3, BoolsCompressed, SMTT(30)
    <3>5. SubSeq(bytes, Start(types, h) + 1, Start(types, h) + 1) = heads[h]
      <4>1. h \in (1 .. n) \ dynamic
        BY <1>4, <3>1, <3>2
      <4> HIDE DEF heads, dynamic, bytes, h
      <4> QED BY <2>1, <3>4, <4>1
    <3>6. Start(types, h) \in Nat /\ Start(types, h) < Len(bytes)
      <4>1. /\ Total(hsizes, h) = Total(hsizes, h - 1) + hsizes[h]
            /\ Total(hsizes, h) <= Total(hsizes, n) /\ Total(hsizes, h - 1) \in Nat
        <5>1. h \in 0 .. n /\ n \in 0 .. n /\ h - 1 \in 0 .. n
          BY <1>1, <3>1
        <5> HIDE DEF h
        <5> QED BY <1>1, <3>1, <5>1, HeadsAre
      <4>2. hsizes[h] = 1
        BY <1>3, <3>1, <3>4
      <4>3. Total(tsizes, n) \in Nat /\ Total(hsizes, n) \in Nat
        BY <1>1, <1>6
      <4> HIDE DEF hsizes, tsizes, bytes, h
      <4> QED BY <1>6, <2>1, <4>1, <4>2, <4>3
    <3>7. bytes[Start(types, h) + 1] = heads[h][1]
      <4> HIDE DEF heads, bytes, h
      <4> QED BY <2>1, <3>5, <3>6, FirstByte
    <3> HIDE DEF heads, bytes
    <3> QED BY <3>4, <3>7 DEF BoolLaidOut
  <2>5. \A i \in 1 .. n : SizeAt(types, elements, i) \in Nat
    BY TailSizesAre
  <2>6. Len(bytes) = ElementsSize(types, elements, EncodedSize)
    BY <1>6, <2>1
  <2> HIDE DEF bytes
  <2>7. IsLaidOut(types, elements, bytes)
    BY <2>1, <2>2, <2>3, <2>4, <2>5, <2>6 DEF IsLaidOut
  <2> QED BY <1>10, <2>7 DEF bytes
<1>11. CASE ~TailsFitIn(types, elements)
  BY <1>8, <1>9, <1>11
<1> QED BY <1>10, <1>11

\* Of tuples, just what fits is encoded, and it is laid out as meant.
LEMMA TupleEncoded ==
  ASSUME NEW types, NEW elements, Encodable(types, elements)
  PROVE  LET bytes == EncodeTuple(types, elements, AbiEncode)
         IN  /\ bytes \in ByteStrings \cup {NoBytes}
             /\ bytes # NoBytes <=> ElementsFit(types, elements, FALSE, Fits)
             /\ bytes # NoBytes => IsLaidOut(types, elements, bytes) /\ AllBytes(types, elements)
<1> DEFINE bytes == EncodeTuple(types, elements, AbiEncode)
<1>1. /\ types \in Seq(Types) /\ elements \in Seq(AbiValues) /\ Len(elements) \in Nat
      /\ Len(types) \in Nat /\ DOMAIN types = 1 .. Len(types) /\ MaxLen \in Nat
  BY ElementIs, BaseIs DEF Encodable
<1>2. ElementsFit(types, elements, FALSE, Fits) <=>
        /\ Len(types) < MaxLen /\ Len(elements) <= MaxLen
        /\ \A i \in 1 .. Len(types) : FitsAt(types, elements, i, FALSE)
        /\ TailsFitIn(types, elements)
  <2>1. TailsFit(types, elements) <=> TailsFitIn(types, elements)
    BY <1>1 DEF TailsFit, TailsFitIn, TailStart, DynamicIn
  <2>2. (\A i \in DOMAIN types :
           IF i \in DOMAIN elements THEN Fits[types[i]][FALSE][elements[i]] ELSE types[i] = Bool)
          <=> \A i \in 1 .. Len(types) : FitsAt(types, elements, i, FALSE)
    BY <1>1 DEF FitsAt
  <2> QED BY <2>1, <2>2 DEF ElementsFit
<1>3. AllBytes(types, elements) <=> \A i \in 1 .. Len(types) : FitsAt(types, elements, i, FALSE)
  BY PartsFit DEF AllBytes
<1>4. CASE Len(types) >= MaxLen \/ Len(elements) > MaxLen
  <2>1. bytes = NoBytes
    BY <1>4 DEF EncodeTuple
  <2>2. ~ElementsFit(types, elements, FALSE, Fits)
    <3>1. ~(Len(types) < MaxLen /\ Len(elements) <= MaxLen)
      BY <1>1, <1>4
    <3> QED BY <1>2, <3>1
  <2> QED BY <2>1, <2>2
<1>5. CASE Len(types) < MaxLen /\ Len(elements) <= MaxLen /\ ~AllBytes(types, elements)
  <2> DEFINE heads == [i \in DOMAIN types |-> HeadBytes(types, elements, i)]
             tails == [i \in DOMAIN types |-> TailBytes(types, elements, i)]
             n == Len(types)
  <2>1. bytes = JoinTuple(heads, tails, DynamicIn(types))
    BY <1>1, <1>5 DEF EncodeTuple, HeadBytes, TailBytes
  <2>2. /\ heads \in Seq(ByteStrings \cup {NoBytes}) /\ Len(heads) = n
        /\ tails \in Seq(ByteStrings \cup {NoBytes}) /\ Len(tails) = n
    <3>1. \A i \in 1 .. n : /\ HeadBytes(types, elements, i) \in ByteStrings \cup {NoBytes}
                            /\ TailBytes(types, elements, i) \in ByteStrings \cup {NoBytes}
      BY HeadEncoded, TailEncoded
    <3>2. /\ heads \in [1 .. n -> ByteStrings \cup {NoBytes}]
          /\ tails \in [1 .. n -> ByteStrings \cup {NoBytes}]
      BY <1>1, <3>1
    <3> HIDE DEF heads, tails, n
    <3> QED BY <1>1, <3>2, FunctionIsSequence DEF n
  <2>3. PICK i \in 1 .. n : heads[i] = NoBytes \/ tails[i] = NoBytes
    BY <1>1, <1>5 DEF AllBytes
  <2> HIDE DEF heads, tails
  <2>4. /\ DOMAIN (heads \o tails) = 1 .. n + n
        /\ (heads \o tails)[i] = heads[i] /\ (heads \o tails)[n + i] = tails[i]
    <3>1. /\ heads \o tails \in Seq(ByteStrings \cup {NoBytes})
          /\ Len(heads \o tails) = Len(heads) + Len(tails)
          /\ \A k \in 1 .. Len(heads) : (heads \o tails)[k] = heads[k]
          /\ \A k \in 1 .. Len(tails) : (heads \o tails)[Len(heads) + k] = tails[k]
      <4> DEFINE S == ByteStrings \cup {NoBytes}
      <4>1. heads \in Seq(S) /\ tails \in Seq(S)
        BY <2>2
      <4> HIDE DEF S
      <4>2. /\ heads \o tails \in Seq(S)
            /\ Len(heads \o tails) = Len(heads) + Len(tails)
            /\ \A k \in 1 .. Len(heads) : (heads \o tails)[k] = heads[k]
            /\ \A k \in 1 .. Len(tails) : (heads \o tails)[Len(heads) + k] = tails[k]
        BY <4>1, JoinedIs
      <4> QED BY <4>2 DEF S
    <3>2. DOMAIN (heads \o tails) = 1 .. Len(heads \o tails)
      BY <3>1, ElementIs
    <3> QED BY <2>2, <3>1, <3>2
  <2>5. i \in 1 .. n + n /\ n + i \in 1 .. n + n
    BY <1>1
  <2>6. NoBytes \in Range(heads \o tails)
    BY <2>3, <2>4, <2>5 DEF Range
  <2>7. bytes = NoBytes
    BY <2>1, <2>6 DEF JoinTuple
  <2> QED BY <1>2, <1>3, <1>5, <2>7
<1>6. CASE Len(types) < MaxLen /\ Len(elements) <= MaxLen /\ AllBytes(types, elements)
  <2>1. IF TailsFitIn(types, elements)
        THEN IsLaidOut(types, elements, bytes) ELSE bytes = NoBytes
    BY <1>6, TupleLaidOut
  <2> HIDE DEF bytes
  <2>2. TailsFitIn(types, elements) => bytes \in ByteStrings /\ bytes # NoBytes
    BY <2>1, NoBytesAreNone DEF IsLaidOut
  <2>3. bytes # NoBytes <=> TailsFitIn(types, elements)
    BY <2>1, <2>2
  <2> QED BY <1>2, <1>3, <1>6, <2>1, <2>2, <2>3 DEF bytes
<1>7. \/ Len(types) >= MaxLen \/ Len(elements) > MaxLen
      \/ Len(types) < MaxLen /\ Len(elements) <= MaxLen
  BY <1>1
<1> QED BY <1>4, <1>5, <1>6, <1>7

\* What adds nothing changes no sum.
LEMMA TotalOfNone ==
  ASSUME NEW n \in Nat, NEW sizes, \A k \in 1 .. n : sizes[k] \in Nat,
         NEW i \in 0 .. n, NEW j \in i .. n, \A k \in i + 1 .. j : sizes[k] = 0
  PROVE  Total(sizes, j) = Total(sizes, i)
<1>1. /\ \A k \in 1 .. n : Total(sizes, k) = Total(sizes, k - 1) + sizes[k]
      /\ \A k \in 0 .. n : Total(sizes, k) \in Nat
  BY TotalOfNat
<1> DEFINE Same == {k \in 0 .. j - i : Total(sizes, i + k) = Total(sizes, i)}
<1>2. 0 \in Same
  <2>1. i + 0 = i
    OBVIOUS
  <2> QED BY <2>1
<1>3. ASSUME NEW k \in 1 .. j - i, k - 1 \in Same PROVE k \in Same
  <2>1. i + k \in 1 .. n /\ i + k \in i + 1 .. j /\ (i + k) - 1 = i + (k - 1) /\ i \in 0 .. n
    OBVIOUS
  <2>2. Total(sizes, i + k) = Total(sizes, i + (k - 1)) + 0
    BY <1>1, <2>1
  <2>3. Total(sizes, i + (k - 1)) = Total(sizes, i) /\ Total(sizes, i) \in Nat
    BY <1>1, <1>3
  <2> QED BY <2>2, <2>3
<1>4. j - i \in Nat /\ i + (j - i) = j
  OBVIOUS
<1>5. 0 .. j - i \subseteq Same
  <2> HIDE DEF Same
  <2> QED BY <1>2, <1>3, <1>4, InductionUpTo
<1>6. j - i \in Same
  BY <1>4, <1>5
<1> QED BY <1>4, <1>6

\* Without dynamic elements there are no tails.
LEMMA NoTails ==
  ASSUME NEW types, NEW elements, Encodable(types, elements), AllBytes(types, elements),
         DynamicIn(types) = {}
  PROVE  ElementsSize(types, elements, EncodedSize) = TupleSize(types, ByteLen)
<1> DEFINE sizes == TailSizes(types, elements)
           n == Len(types)
<1>1. /\ n \in Nat /\ \A i \in 1 .. n : sizes[i] \in Nat
      /\ \A i \in 1 .. n : sizes[i] = IF IsDynamic[types[i]] THEN SizeAt(types, elements, i) ELSE 0
      /\ Total(sizes, 0) = 0
      /\ ElementsSize(types, elements, EncodedSize) = TupleSize(types, ByteLen) + Total(sizes, n)
  BY TailSizesAre
<1>2. \A i \in 1 .. n : ~IsDynamic[types[i]]
  <2>1. DOMAIN types = 1 .. n
    BY ElementIs DEF Encodable
  <2> QED BY <2>1 DEF DynamicIn
<1>3. TupleSize(types, ByteLen) \in Nat
  <2>1. types \in Seq(Types)
    BY DEF Encodable
  <2>2. n \in 0 .. n
    BY <1>1
  <2> QED BY <2>1, <2>2, HeadsAre
<1> HIDE DEF sizes, n
<1>4. Total(sizes, n) = Total(sizes, 0)
  <2>1. 0 \in 0 .. n /\ n \in 0 .. n
    BY <1>1
  <2>2. \A k \in 0 + 1 .. n : sizes[k] = 0
    BY <1>1, <1>2
  <2> QED BY <1>1, <2>1, <2>2, TotalOfNone
<1> QED BY <1>1, <1>3, <1>4 DEF n

\* The types that are encoded as tuples.
IsComposite(type) == type[1] \in {"array", "list", "tuple"}

\* The types of the elements of the tuple that a value is encoded as.
ElementTypesOf(type, value) == ElementTypes(type, ElementsOf(value))

\* The types of the elements of a value are types inside the type.
LEMMA ElementTypesAre ==
  ASSUME NEW S, NEW type \in TypesOf(S \cap Types), NEW value \in AbiValues, IsList(value)
  PROVE  /\ ElementTypesOf(type, value) \in Seq(S \cap Types)
         /\ ElementsOf(value) \in Seq(AbiValues)
         /\ ElementTypes(type, value[2]) = ElementTypesOf(type, value)
         /\ type[1] = "tuple" => ElementTypesOf(type, value) = type[2]
         /\ type[1] # "tuple" =>
              /\ ElementTypesOf(type, value) = Repeated(type[2], Len(ElementsOf(value)))
              /\ Len(ElementTypesOf(type, value)) = Len(ElementsOf(value))
<1>1. /\ ElementsOf(value) \in Seq(AbiValues) /\ Len(ElementsOf(value)) = Len(value[2])
      /\ Len(ElementsOf(value)) \in Nat
  BY ElementsAre
<1>2. CASE type[1] = "tuple"
  <2>1. type[2] \in Seq(S \cap Types)
    BY <1>2, CompositeCases
  <2> QED BY <1>1, <1>2, <2>1 DEF ElementTypes, ElementTypesOf
<1>3. CASE type[1] # "tuple"
  <2>1. type[2] \in S \cap Types
    BY <1>3, CompositeCases
  <2> DEFINE n == Len(ElementsOf(value))
             A == S \cap Types
  <2>2. Repeated(type[2], n) \in Seq(A) /\ Len(Repeated(type[2], n)) = n
    <3>1. Repeated(type[2], n) \in [1 .. n -> A]
      BY <2>1 DEF Repeated
    <3> HIDE DEF A
    <3> QED BY <1>1, <3>1, FunctionIsSequence
  <2> QED BY <1>1, <1>3, <2>2 DEF ElementTypes, ElementTypesOf
<1> QED BY <1>2, <1>3

\* Which values fit a type with others inside.
LEMMA CompositeFits ==
  ASSUME NEW type \in Types, IsComposite(type), NEW value \in AbiValues, NEW strictly \in BOOLEAN
  PROVE  /\ ~IsList(value) => ~Fits[type][strictly][value]
         /\ IsList(value) =>
              (Fits[type][strictly][value] <=>
                 /\ type[1] = "array" => Len(ElementsOf(value)) = type[3]
                 /\ ElementsFit(ElementTypesOf(type, value), ElementsOf(value), strictly, Fits))
<1>1. Fits[type][strictly][value] = FitsAs(type, value, strictly, Fits)
  BY FunctionsAre
<1>2. FitsAs(type, value, strictly, Fits) <=>
        /\ IsList(value)
        /\ type[1] = "array" => Len(value[2]) = type[3]
        /\ ElementsFit(ElementTypes(type, value[2]), ElementsOf(value), strictly, Fits)
  BY DEF FitsAs, IsComposite
<1>3. CASE IsList(value)
  <2>1. type \in TypesOf(Types \cap Types)
    <3>1. type \notin SimpleTypes
      BY SimpleCases DEF IsComposite
    <3>2. Types \cap Types = Types
      OBVIOUS
    <3> QED BY <3>1, <3>2, TypeCases
  <2>2. ElementTypes(type, value[2]) = ElementTypesOf(type, value)
    BY <1>3, <2>1, ElementTypesAre
  <2>3. Len(ElementsOf(value)) = Len(value[2])
    BY <1>3, ElementsAre
  <2> QED BY <1>1, <1>2, <1>3, <2>2, <2>3
<1>4. CASE ~IsList(value)
  BY <1>1, <1>2, <1>4
<1> QED BY <1>3, <1>4

\* What fits strictly fits.
LEMMA StrictlyFits ==
  ASSUME NEW types, NEW elements, Encodable(types, elements),
         ElementsFit(types, elements, TRUE, Fits)
  PROVE  ElementsFit(types, elements, FALSE, Fits)
<1>1. ASSUME NEW i \in DOMAIN types, i \in DOMAIN elements
      PROVE  Fits[types[i]][TRUE][elements[i]] => Fits[types[i]][FALSE][elements[i]]
  <2>1. elements[i] \in AbiValues
    BY <1>1, ElementIs DEF Encodable
  <2> QED BY <2>1 DEF Encodable, EncodesAll
<1> QED BY <1>1 DEF ElementsFit

\* How values are encoded whose elements are.
LEMMA CompositeIs ==
  ASSUME NEW type \in Types, IsComposite(type), NEW value \in AbiValues
  PROVE  /\ ~IsList(value) => AbiEncode[type][value] = NoBytes
         /\ IsList(value) =>
              LET types == ElementTypesOf(type, value)
                  bytes == EncodeTuple(types, ElementsOf(value), AbiEncode)
              IN  /\ type[1] = "array" =>
                       AbiEncode[type][value] = IF Len(ElementsOf(value)) = type[3] THEN bytes
                                                ELSE NoBytes
                  /\ type[1] = "list" =>
                       AbiEncode[type][value] =
                         IF bytes = NoBytes THEN NoBytes
                         ELSE BigIntToBytes(Len(ElementsOf(value)), LengthSize) \o bytes
                  /\ type[1] = "tuple" => AbiEncode[type][value] = bytes
                  /\ IsDynamic[type] =>
                       EncodedSize[type][value] =
                         LET size == ElementsSize(types, ElementsOf(value), EncodedSize)
                         IN  IF type[1] = "list" THEN LengthSize + size ELSE size
<1>1. /\ AbiEncode[type][value] = EncodeAs(type, value, AbiEncode)
      /\ EncodedSize[type][value] = SizeAs(type, value, EncodedSize)
  BY FunctionsAre
<1>2. CASE ~IsList(value)
  BY <1>1, <1>2 DEF EncodeAs, IsComposite
<1>3. CASE IsList(value)
  <2>1. type \in TypesOf(Types \cap Types)
    <3>1. type \notin SimpleTypes
      BY SimpleCases DEF IsComposite
    <3>2. Types \cap Types = Types
      OBVIOUS
    <3> QED BY <3>1, <3>2, TypeCases
  <2> DEFINE types == ElementTypesOf(type, value)
             elements == ElementsOf(value)
             bytes == EncodeTuple(types, elements, AbiEncode)
  <2>2. /\ type[1] = "tuple" => types = type[2]
        /\ type[1] # "tuple" => types = Repeated(type[2], Len(elements))
    BY <1>3, <2>1, ElementTypesAre
  <2> HIDE DEF types
  <2>3. ASSUME type[1] = "array"
        PROVE  AbiEncode[type][value] = IF Len(elements) = type[3] THEN bytes ELSE NoBytes
    <3>1. AbiEncode[type][value] = EncodeArray(type[2], type[3], elements, AbiEncode)
      BY <1>1, <1>3, <2>3 DEF EncodeAs
    <3> QED BY <2>2, <2>3, <3>1 DEF EncodeArray
  <2>4. ASSUME type[1] = "list"
        PROVE  AbiEncode[type][value] =
                 IF bytes = NoBytes THEN NoBytes
                 ELSE BigIntToBytes(Len(elements), LengthSize) \o bytes
    <3>1. AbiEncode[type][value] = EncodeList(type[2], elements, AbiEncode)
      BY <1>1, <1>3, <2>4 DEF EncodeAs
    <3>2. EncodeTuple(Repeated(type[2], Len(elements)), elements, AbiEncode) = bytes
      BY <2>2, <2>4
    <3> QED BY <3>1, <3>2 DEF EncodeList
  <2>5. ASSUME type[1] = "tuple" PROVE AbiEncode[type][value] = bytes
    <3>1. AbiEncode[type][value] = EncodeTuple(type[2], elements, AbiEncode)
      BY <1>1, <1>3, <2>5 DEF EncodeAs
    <3> QED BY <2>2, <2>5, <3>1
  <2>6. ASSUME IsDynamic[type]
        PROVE  EncodedSize[type][value] =
                 LET size == ElementsSize(types, elements, EncodedSize)
                 IN  IF type[1] = "list" THEN LengthSize + size ELSE size
    BY <1>1, <2>6 DEF SizeAs, IsComposite, types, ElementTypesOf
  <2> HIDE DEF elements, bytes
  <2> QED BY <1>3, <2>3, <2>4, <2>5, <2>6 DEF types, elements, bytes
<1> QED BY <1>2, <1>3

\* The elements of a value, when what is inside the type is encoded as it should be.
LEMMA ElementsEncodable ==
  ASSUME NEW S, NEW type \in TypesOf(S \cap Types), NEW value \in AbiValues, IsList(value),
         \A t \in S : EncodesAll(t)
  PROVE  Encodable(ElementTypesOf(type, value), ElementsOf(value))
<1> DEFINE types == ElementTypesOf(type, value)
           A == S \cap Types
<1>1. types \in Seq(A) /\ ElementsOf(value) \in Seq(AbiValues)
  BY ElementTypesAre
<1> HIDE DEF types, A
<1>2. \A i \in DOMAIN types : types[i] \in A
  BY <1>1, ElementIs
<1>3. types \in Seq(Types)
  BY <1>1 DEF A
<1> QED BY <1>1, <1>2, <1>3 DEF Encodable, types, A

\* A composite type is static when its elements are, and then of the size of their heads.
LEMMA StaticElements ==
  ASSUME NEW type \in Types, IsComposite(type), NEW value \in AbiValues, IsList(value),
         ~IsDynamic[type], type[1] = "array" => Len(ElementsOf(value)) = type[3]
  PROVE  LET types == ElementTypesOf(type, value)
         IN  type[1] # "list" /\ DynamicIn(types) = {} /\ TupleSize(types, ByteLen) = ByteLen[type]
<1> DEFINE types == ElementTypesOf(type, value)
<1>0. type[1] # "list"
  BY DynamicIs
<1>1. CASE type[1] = "tuple"
  <2>1. types = type[2]
    BY <1>1 DEF ElementTypes, ElementTypesOf
  <2>2. DynamicIn(type[2]) = {} /\ ByteLen[type] = TupleSize(type[2], ByteLen)
    BY <1>1, DynamicIs, ByteLenCases
  <2> QED BY <1>1, <2>1, <2>2
<1>2. CASE type[1] = "array"
  <2>1. types = Repeated(type[2], type[3])
    BY <1>2 DEF ElementTypes, ElementTypesOf
  <2>2. type[2] \in Types /\ type[3] \in 0 .. MaxLen /\ type[3] \in Nat /\ ~IsDynamic[type[2]]
    <3>1. type[2] \in Types /\ type[3] \in 0 .. MaxLen
      BY <1>2, Kinds
    <3> QED BY <1>2, <3>1, BaseIs, DynamicIs
  <2>3. DynamicIn(Repeated(type[2], type[3])) = {}
    BY <2>2 DEF DynamicIn, Repeated
  <2>4. TupleSize(Repeated(type[2], type[3]), ByteLen) = ByteLen[type]
    BY <1>2, ArraySize
  <2> QED BY <1>2, <2>1, <2>3, <2>4
<1> QED BY <1>0, <1>1, <1>2 DEF IsComposite

\* Just what fits is encoded, if it is so for the types inside.
LEMMA CompositeEncoded ==
  ASSUME NEW S, \A t \in S : EncodesAll(t), NEW type \in TypesOf(S \cap Types), type \in Types
  PROVE  EncodesAll(type)
<1> SUFFICES ASSUME NEW value \in AbiValues
             PROVE  /\ AbiEncode[type][value] \in ByteStrings \cup {NoBytes}
                    /\ AbiEncode[type][value] # NoBytes <=> Fits[type][FALSE][value]
                    /\ AbiEncode[type][value] # NoBytes =>
                         Len(AbiEncode[type][value]) = EncodedSize[type][value]
                    /\ Fits[type][TRUE][value] => Fits[type][FALSE][value]
  BY DEF EncodesAll
<1>1. IsComposite(type)
  BY CompositeCases DEF IsComposite
<1>2. CASE ~IsList(value)
  <2>1. AbiEncode[type][value] = NoBytes
    BY <1>1, <1>2, CompositeIs
  <2>2. \A strictly \in BOOLEAN : ~Fits[type][strictly][value]
    BY <1>1, <1>2, CompositeFits
  <2> QED BY <2>1, <2>2
<1>3. CASE IsList(value)
  <2> DEFINE types == ElementTypesOf(type, value)
             elements == ElementsOf(value)
             bytes == EncodeTuple(types, elements, AbiEncode)
             size == ElementsSize(types, elements, EncodedSize)
             counted == type[1] = "array" => Len(elements) = type[3]
  <2>1. Encodable(types, elements)
    BY <1>3, ElementsEncodable
  <2>2. /\ bytes \in ByteStrings \cup {NoBytes}
        /\ bytes # NoBytes <=> ElementsFit(types, elements, FALSE, Fits)
        /\ bytes # NoBytes => IsLaidOut(types, elements, bytes) /\ AllBytes(types, elements)
    BY <2>1, TupleEncoded
  <2>3. \A strictly \in BOOLEAN :
          Fits[type][strictly][value] <=> counted /\ ElementsFit(types, elements, strictly, Fits)
    BY <1>1, <1>3, CompositeFits
  <2>4. ElementsFit(types, elements, TRUE, Fits) => ElementsFit(types, elements, FALSE, Fits)
    BY <2>1, StrictlyFits
  <2>5. /\ type[1] = "array" =>
             AbiEncode[type][value] = IF Len(elements) = type[3] THEN bytes ELSE NoBytes
        /\ type[1] = "list" =>
             AbiEncode[type][value] = IF bytes = NoBytes THEN NoBytes
                                      ELSE BigIntToBytes(Len(elements), LengthSize) \o bytes
        /\ type[1] = "tuple" => AbiEncode[type][value] = bytes
        /\ IsDynamic[type] =>
             EncodedSize[type][value] = IF type[1] = "list" THEN LengthSize + size ELSE size
    BY <1>1, <1>3, CompositeIs
  <2>6. bytes # NoBytes => bytes \in ByteStrings /\ Len(bytes) = size
    BY <2>2 DEF IsLaidOut
  <2>7. ASSUME bytes # NoBytes, counted, type[1] # "list"
        PROVE  size = EncodedSize[type][value]
    <3>1. CASE IsDynamic[type]
      BY <2>5, <2>7, <3>1
    <3>2. CASE ~IsDynamic[type]
      <4>1. DynamicIn(types) = {} /\ TupleSize(types, ByteLen) = ByteLen[type]
        BY <1>1, <1>3, <2>7, <3>2, StaticElements
      <4>2. size = TupleSize(types, ByteLen)
        BY <2>1, <2>2, <2>7, <4>1, NoTails
      <4>3. EncodedSize[type][value] = ByteLen[type]
        BY <3>2, StaticSize
      <4> QED BY <4>1, <4>2, <4>3
    <3> QED BY <3>1, <3>2
  <2>8. ASSUME bytes # NoBytes
        PROVE  LET encoded == BigIntToBytes(Len(elements), LengthSize) \o bytes
               IN  encoded \in ByteStrings /\ Len(encoded) = LengthSize + size
    <3>1. Len(elements) \in 0 .. MaxLen
      <4>1. ElementsFit(types, elements, FALSE, Fits)
        BY <2>2, <2>8
      <4>2. Len(elements) <= MaxLen /\ Len(elements) \in Nat
        BY <2>1, <4>1, ElementIs DEF ElementsFit, Encodable
      <4> QED BY <4>2, BaseIs
    <3> DEFINE prefix == BigIntToBytes(Len(elements), LengthSize)
    <3>2. prefix \in ByteStrings /\ Len(prefix) = LengthSize
      <4> HIDE DEF elements
      <4> QED BY <3>1, LengthIsRead
    <3>3. bytes \in ByteStrings /\ Len(bytes) = size
      BY <2>6, <2>8
    <3> HIDE DEF prefix, bytes, size
    <3>4. prefix \o bytes \in ByteStrings /\ Len(prefix \o bytes) = Len(prefix) + Len(bytes)
      BY <3>2, <3>3, JoinedIs DEF ByteStrings
    <3> QED BY <3>2, <3>3, <3>4 DEF prefix, bytes, size
  <2> HIDE DEF types, elements, bytes, size, counted
  <2>9. /\ AbiEncode[type][value] \in ByteStrings \cup {NoBytes}
        /\ AbiEncode[type][value] # NoBytes <=> counted /\ bytes # NoBytes
        /\ AbiEncode[type][value] # NoBytes =>
             Len(AbiEncode[type][value]) = EncodedSize[type][value]
    <3>1. CASE type[1] = "array"
      <4>1. counted <=> Len(elements) = type[3]
        BY <3>1 DEF counted
      <4>2. AbiEncode[type][value] = IF counted THEN bytes ELSE NoBytes
        BY <2>5, <3>1, <4>1
      <4> QED BY <2>2, <2>6, <2>7, <3>1, <4>2
    <3>2. CASE type[1] = "tuple"
      <4>1. counted
        BY <3>2 DEF counted
      <4>2. AbiEncode[type][value] = bytes
        BY <2>5, <3>2
      <4> QED BY <2>2, <2>6, <2>7, <3>2, <4>1, <4>2
    <3>3. CASE type[1] = "list"
      <4>1. counted
        BY <3>3 DEF counted
      <4>2. EncodedSize[type][value] = LengthSize + size
        BY <2>5, <3>3, DynamicIs
      <4>3. CASE bytes = NoBytes
        BY <2>5, <3>3, <4>3
      <4>4. CASE bytes # NoBytes
        <5> DEFINE encoded == BigIntToBytes(Len(elements), LengthSize) \o bytes
        <5>1. AbiEncode[type][value] = encoded
          BY <2>5, <3>3, <4>4
        <5>2. encoded \in ByteStrings /\ Len(encoded) = LengthSize + size
          BY <2>8, <4>4
        <5>3. encoded # NoBytes
          BY <5>2, NoBytesAreNone
        <5> HIDE DEF encoded
        <5> QED BY <4>1, <4>2, <4>4, <5>1, <5>2, <5>3
      <4> QED BY <4>3, <4>4
    <3> QED BY <1>1, <3>1, <3>2, <3>3 DEF IsComposite
  <2> QED BY <2>2, <2>3, <2>4, <2>9
<1> QED BY <1>2, <1>3

\* Of every type just the values that fit have bytes.
THEOREM TypesEncode == \A type \in Types : EncodesAll(type)
<1> DEFINE S == {type \in Types : EncodesAll(type)}
<1>1. SimpleTypes \subseteq S
  BY SimpleEncoded, SimpleTypesAreTypes
<1>2. \A t \in S : EncodesAll(t)
  OBVIOUS
<1>3. ASSUME NEW type \in TypesOf(S \cap Types), type \in Types
      PROVE  type \in S
  <2> HIDE DEF S
  <2>1. EncodesAll(type)
    BY <1>2, <1>3, CompositeEncoded
  <2> QED BY <1>3, <2>1 DEF S
<1>4. TypesOf(S \cap Types) \cap Types \subseteq S
  BY <1>3
<1> HIDE DEF S
<1>5. Types \subseteq S
  BY <1>1, <1>4, TypeInduction
<1> QED BY <1>2, <1>5

\* Where a head is, and where those after it.
LEMMA HeadStarts ==
  ASSUME NEW types \in Seq(Types), NEW i \in 1 .. Len(types), HasHead(types, i)
  PROVE  /\ HeadPosition(types, i) = Start(types, i) /\ Start(types, i) \in Nat
         /\ ByteLen[types[i]] \in Nat /\ TupleSize(types, ByteLen) \in Nat
         /\ Start(types, i) + ByteLen[types[i]] <= TupleSize(types, ByteLen)
         /\ \A j \in i + 1 .. Len(types) :
              /\ Start(types, j) \in Nat
              /\ Start(types, i) + ByteLen[types[i]] <= Start(types, j)
<1> DEFINE sizes == HeadSizes(types, ByteLen)
           n == Len(types)
<1>1. /\ n \in Nat /\ types[i] \in Types
      /\ TupleSize(types, ByteLen) = Total(sizes, n)
      /\ Total(sizes, i) = Total(sizes, i - 1) + sizes[i]
      /\ \A k \in 0 .. n : Total(sizes, k) \in Nat
      /\ \A k \in 0 .. n : \A m \in 0 .. k : Total(sizes, m) <= Total(sizes, k)
      /\ sizes[i] = ByteLen[types[i]]
  BY HeadsAre
<1>2. HeadPosition(types, i) = Start(types, i)
  BY DEF HeadPosition, Start, HasHead
<1>3. \A k : Start(types, k) = Total(sizes, k - 1)
  BY DEF Start
<1>4. ByteLen[types[i]] \in Nat
  BY <1>1, ByteLenTyped
<1> HIDE DEF sizes
<1>5. i - 1 \in 0 .. n /\ i \in 0 .. n /\ n \in 0 .. n /\ i \in 0 .. n
  BY <1>1 DEF n
<1>6. Total(sizes, i) <= Total(sizes, n) /\ Total(sizes, i) \in Nat /\ Total(sizes, i - 1) \in Nat
      /\ Total(sizes, n) \in Nat
  BY <1>1, <1>5
<1>7. ASSUME NEW j \in i + 1 .. n
      PROVE  Start(types, j) \in Nat /\ Total(sizes, i) <= Start(types, j)
  <2>1. j - 1 \in 0 .. n /\ i \in 0 .. j - 1
    BY <1>1 DEF n
  <2> QED BY <1>1, <1>3, <2>1
<1> HIDE DEF n
<1> QED BY <1>1, <1>2, <1>3, <1>4, <1>6, <1>7 DEF n

\* The head of a boolean is a byte, and there.
LEMMA BoolHead ==
  ASSUME NEW types \in Seq(Types), NEW i \in 1 .. Len(types), types[i] = Bool
  PROVE  LET h == HeadOf(types, i)
         IN  /\ h \in 1 .. i /\ HasHead(types, h) /\ types[h] = Bool /\ i - h < Bits
             /\ HeadPosition(types, i) = Start(types, h) /\ Start(types, h) \in Nat
             /\ Start(types, h) + 1 <= TupleSize(types, ByteLen)
<1> DEFINE h == HeadOf(types, i)
<1>1. i \in Nat \ {0} /\ Len(types) \in Nat
  BY ElementIs
<1>2. h \in 1 .. i /\ HasHead(types, h) /\ types[h] = Bool /\ i - h < Bits
  BY <1>1, HeadOfIs, HeadHasHead
<1>3. HeadPosition(types, i) = Start(types, h)
  BY DEF HeadPosition, Start
<1> HIDE DEF h
<1>4. h \in 1 .. Len(types)
  BY <1>1, <1>2
<1>5. ByteLen[types[h]] = 1
  BY <1>2, KindOfBool, ByteLenCases
<1>6. Start(types, h) \in Nat /\ Start(types, h) + ByteLen[types[h]] <= TupleSize(types, ByteLen)
  BY <1>2, <1>4, HeadStarts
<1> QED BY <1>2, <1>3, <1>5, <1>6 DEF h

\* Decode finds the elements of a tuple that was encoded.
LaidOut(types, elements, bytes) ==
  /\ Encodable(types, elements) /\ AllBytes(types, elements)
  /\ IsLaidOut(types, elements, bytes)

\* The sizes of what is laid out.
LEMMA Sizes ==
  ASSUME NEW types, NEW elements, NEW bytes, LaidOut(types, elements, bytes)
  PROVE  /\ types \in Seq(Types) /\ elements \in Seq(AbiValues) /\ bytes \in ByteStrings
         /\ Len(types) \in Nat /\ DOMAIN types = 1 .. Len(types)
         /\ Len(bytes) \in Nat /\ TupleSize(types, ByteLen) \in Nat
         /\ TupleSize(types, ByteLen) <= Len(bytes)
         /\ Len(bytes) = TupleSize(types, ByteLen) + Total(TailSizes(types, elements), Len(types))
<1>1. types \in Seq(Types) /\ elements \in Seq(AbiValues) /\ bytes \in ByteStrings
      /\ Len(bytes) = ElementsSize(types, elements, EncodedSize)
  BY DEF LaidOut, Encodable, IsLaidOut
<1>2. Len(types) \in Nat /\ DOMAIN types = 1 .. Len(types) /\ TupleSize(types, ByteLen) \in Nat
  <2>1. Len(types) \in 0 .. Len(types)
    BY <1>1, ElementIs
  <2> QED BY <1>1, <2>1, HeadsAre
<1> DEFINE tails == Total(TailSizes(types, elements), Len(types))
<1>3. tails \in Nat /\ Len(bytes) = TupleSize(types, ByteLen) + tails
  <2>1. Len(types) \in 0 .. Len(types)
    BY <1>2
  <2> QED BY <1>1, <2>1, TailSizesAre DEF LaidOut
<1> HIDE DEF tails
<1>4. TupleSize(types, ByteLen) <= Len(bytes) /\ Len(bytes) \in Nat
  BY <1>2, <1>3
<1> QED BY <1>1, <1>2, <1>3, <1>4 DEF tails

\* decode of a tuple finds what a static element was encoded to.
LEMMA StaticPart ==
  ASSUME NEW types, NEW elements, NEW bytes, LaidOut(types, elements, bytes), NEW tails,
         NEW i \in 1 .. Len(types), types[i] # Bool, ~IsDynamic[types[i]], i \notin DOMAIN tails
  PROVE  Part(types, bytes, tails, i) = EncodedAt(types, elements, i)
<1>1. /\ types \in Seq(Types) /\ bytes \in ByteStrings /\ Len(bytes) \in Nat
      /\ TupleSize(types, ByteLen) <= Len(bytes) /\ i \in Nat \ {0}
  BY Sizes
<1>2. HasHead(types, i)
  BY <1>1, HeadHasHead
<1>3. /\ HeadPosition(types, i) = Start(types, i) /\ Start(types, i) \in Nat
      /\ ByteLen[types[i]] \in Nat /\ TupleSize(types, ByteLen) \in Nat
      /\ Start(types, i) + ByteLen[types[i]] <= TupleSize(types, ByteLen)
  BY <1>1, <1>2, HeadStarts
<1> DEFINE first == Start(types, i) + 1
           last == Start(types, i) + ByteLen[types[i]]
<1>4. last <= Len(bytes) /\ last \in Nat
  BY <1>1, <1>3
<1>5. Slice(bytes, first, last) = SubSeq(bytes, first, last)
  <2> HIDE DEF first, last
  <2>1. (IF last < Len(bytes) THEN last ELSE Len(bytes)) = last
    BY <1>1, <1>4
  <2> QED BY <2>1 DEF Slice
<1>6. Part(types, bytes, tails, i) = Slice(bytes, first, last)
  BY <1>3 DEF Part
<1>7. SubSeq(bytes, first, last) = EncodedAt(types, elements, i)
  BY DEF LaidOut, IsLaidOut, StaticLaidOut
<1> QED BY <1>5, <1>6, <1>7

\* decode of a tuple finds every boolean in its bit.
LEMMA BoolIsSet ==
  ASSUME NEW types, NEW elements, NEW bytes, LaidOut(types, elements, bytes),
         NEW i \in 1 .. Len(types), types[i] = Bool
  PROVE  BitIsSet(bytes, HeadPosition(types, i), i - HeadOf(types, i) + 1)
           <=> i \in DOMAIN elements /\ elements[i] = Boolean(TRUE)
<1> DEFINE h == HeadOf(types, i)
<1>1. /\ types \in Seq(Types) /\ Len(bytes) \in Nat /\ TupleSize(types, ByteLen) \in Nat
      /\ TupleSize(types, ByteLen) <= Len(bytes)
  BY Sizes
<1>2. /\ HeadPosition(types, i) = Start(types, h) /\ Start(types, h) \in Nat
      /\ Start(types, h) + 1 <= TupleSize(types, ByteLen)
  BY <1>1, BoolHead
<1>3. (bytes[Start(types, h) + 1] \div Power[Bits - (i - h + 1)]) % 2 = BitOf(elements, i)
  BY DEF LaidOut, IsLaidOut, BoolLaidOut
<1> HIDE DEF h
<1>4. Start(types, h) + 1 <= Len(bytes)
  BY <1>1, <1>2
<1>5. BitIsSet(bytes, HeadPosition(types, i), i - h + 1) <=> BitOf(elements, i) = 1
  BY <1>2, <1>3, <1>4 DEF BitIsSet
<1>6. BitOf(elements, i) = 1 <=> i \in DOMAIN elements /\ elements[i] = Boolean(TRUE)
  <2> DEFINE Set == i \in DOMAIN elements /\ elements[i] = Boolean(TRUE)
  <2>1. BitOf(elements, i) = IF Set THEN 1 ELSE 0
    BY DEF BitOf
  <2> HIDE DEF Set
  <2>2. BitOf(elements, i) = 1 <=> Set
    BY <2>1
  <2> QED BY <2>2 DEF Set
<1> QED BY <1>5, <1>6 DEF h

\* Where the tails of a tuple start.
TailsOf(types, elements) == [i \in DynamicIn(types) |-> TailStart(types, elements, i)]

\* The numbers of the tails.
LEMMA TailStarts ==
  ASSUME NEW types, NEW elements, NEW bytes, LaidOut(types, elements, bytes)
  PROVE  LET n == Len(types)
             size == TupleSize(types, ByteLen)
             sizes == TailSizes(types, elements)
         IN  /\ n \in Nat /\ size \in Nat
             /\ \A i \in 1 .. n : TailStart(types, elements, i) = size + Total(sizes, i - 1)
             /\ \A i \in 1 .. n : sizes[i] \in Nat
             /\ \A i \in 1 .. n :
                  sizes[i] = IF IsDynamic[types[i]] THEN SizeAt(types, elements, i) ELSE 0
             /\ \A i \in 1 .. n : Total(sizes, i) = Total(sizes, i - 1) + sizes[i]
             /\ \A i \in 0 .. n : Total(sizes, i) \in Nat
             /\ \A j \in 0 .. n : \A i \in 0 .. j : Total(sizes, i) <= Total(sizes, j)
             /\ Len(bytes) = size + Total(sizes, n)
             /\ Len(bytes) \in Nat
<1> DEFINE n == Len(types)
           size == TupleSize(types, ByteLen)
           sizes == TailSizes(types, elements)
<1>1. n \in Nat /\ size \in Nat /\ Len(bytes) = size + Total(sizes, n) /\ Len(bytes) \in Nat
  BY Sizes
<1>2. /\ \A i \in 1 .. n : sizes[i] \in Nat
      /\ \A i \in 1 .. n :
           sizes[i] = IF IsDynamic[types[i]] THEN SizeAt(types, elements, i) ELSE 0
      /\ \A i : TailsSize(types, elements, i, EncodedSize) = Total(sizes, i)
      /\ \A i \in 1 .. n : Total(sizes, i) = Total(sizes, i - 1) + sizes[i]
      /\ \A i \in 0 .. n : Total(sizes, i) \in Nat
      /\ \A j \in 0 .. n : \A i \in 0 .. j : Total(sizes, i) <= Total(sizes, j)
  BY TailSizesAre DEF LaidOut
<1>3. \A i \in 1 .. n : TailStart(types, elements, i) = size + Total(sizes, i - 1)
  BY <1>2 DEF TailStart
<1> HIDE DEF n, size, sizes
<1> QED BY <1>1, <1>2, <1>3 DEF n, size, sizes

\* A dynamic type is not a boolean, and has a head of its own.
LEMMA DynamicHasHead ==
  ASSUME NEW types \in Seq(Types), NEW i \in DynamicIn(types)
  PROVE  i \in 1 .. Len(types) /\ IsDynamic[types[i]] /\ types[i] # Bool /\ HasHead(types, i)
<1>1. i \in 1 .. Len(types) /\ IsDynamic[types[i]]
  BY ElementIs DEF DynamicIn
<1>2. types[i] # Bool
  BY <1>1, KindOfBool, DynamicIs
<1>3. i \in Nat \ {0}
  BY <1>1, ElementIs
<1> QED BY <1>1, <1>2, <1>3, HeadHasHead

\* decode of a tuple reads from the heads where the tails are.
LEMMA TailsAreRead ==
  ASSUME NEW types, NEW elements, NEW bytes, LaidOut(types, elements, bytes)
  PROVE  TailPositions(types, bytes) = TailsOf(types, elements)
<1>1. types \in Seq(Types)
  BY Sizes
<1>2. ASSUME NEW i \in DynamicIn(types)
      PROVE  BytesToBigInt(SubSeq(bytes, HeadPosition(types, i) + 1,
                                  HeadPosition(types, i) + LengthSize))
             = TailStart(types, elements, i)
  <2>1. i \in 1 .. Len(types) /\ IsDynamic[types[i]] /\ HasHead(types, i)
    BY <1>1, DynamicHasHead
  <2>2. HeadPosition(types, i) = Start(types, i)
    BY <1>1, <2>1, HeadStarts
  <2>3. /\ TailStart(types, elements, i) \in 0 .. MaxLen
        /\ SubSeq(bytes, Start(types, i) + 1, Start(types, i) + LengthSize)
             = BytesOf(TailStart(types, elements, i), LengthSize)
    BY <2>1 DEF LaidOut, IsLaidOut, DynamicLaidOut
  <2> QED BY <2>2, <2>3, LengthIsRead
<1> QED BY <1>2 DEF TailPositions, TailsOf

\* A tail ends where the next starts, or with the last byte.
LEMMA TailEnds ==
  ASSUME NEW types, NEW elements, NEW bytes, LaidOut(types, elements, bytes),
         NEW i \in DynamicIn(types)
  PROVE  TailEnd(TailsOf(types, elements), i, Len(bytes))
           = TailStart(types, elements, i) + SizeAt(types, elements, i)
<1> DEFINE n == Len(types)
           size == TupleSize(types, ByteLen)
           sizes == TailSizes(types, elements)
           tails == TailsOf(types, elements)
           later == {j \in DOMAIN tails : j > i}
<1>1. /\ n \in Nat /\ size \in Nat
      /\ \A k \in 1 .. n : TailStart(types, elements, k) = size + Total(sizes, k - 1)
      /\ \A k \in 1 .. n : sizes[k] \in Nat
      /\ \A k \in 1 .. n : sizes[k] = IF IsDynamic[types[k]] THEN SizeAt(types, elements, k) ELSE 0
      /\ \A k \in 1 .. n : Total(sizes, k) = Total(sizes, k - 1) + sizes[k]
      /\ \A k \in 0 .. n : Total(sizes, k) \in Nat
      /\ Len(bytes) = size + Total(sizes, n)
  BY TailStarts
<1>2. types \in Seq(Types) /\ DOMAIN types = 1 .. n
  BY Sizes
<1>3. DOMAIN tails = DynamicIn(types) /\ \A k \in DynamicIn(types) : tails[k] = TailStart(types, elements, k)
  BY DEF TailsOf
<1>4. i \in 1 .. n /\ IsDynamic[types[i]]
  BY <1>2, DynamicHasHead
<1>5. later = {j \in i + 1 .. n : IsDynamic[types[j]]}
  <2> HIDE DEF tails, n
  <2>0. \A j \in 1 .. n : j > i <=> j \in i + 1 .. n
    BY <1>1, <1>4, SMTT(30)
  <2>1. \A j \in DOMAIN types : j > i <=> j \in i + 1 .. n
    BY <1>2, <2>0
  <2>2. i + 1 .. n \subseteq 1 .. n
    BY <1>1, <1>4
  <2>3. i + 1 .. n \subseteq DOMAIN types
    BY <1>2, <2>2
  <2> QED BY <1>3, <2>1, <2>3 DEF DynamicIn
<1> HIDE DEF n, size, sizes, tails
<1>6. i \in 0 .. n /\ i - 1 \in 0 .. n /\ SizeAt(types, elements, i) = sizes[i]
  BY <1>1, <1>4
<1>7. TailStart(types, elements, i) + SizeAt(types, elements, i) = size + Total(sizes, i)
  BY <1>1, <1>4, <1>6, SMTT(30)
<1>8. ASSUME NEW j \in i .. n, \A k \in i + 1 .. j : ~IsDynamic[types[k]]
      PROVE  Total(sizes, j) = Total(sizes, i)
  <2>0. n \in Nat /\ i \in Nat /\ 1 <= i
    BY <1>1, <1>4
  <2>1. \A k \in i + 1 .. j : k \in 1 .. n
    BY <2>0
  <2>2. \A k \in i + 1 .. j : sizes[k] = 0
    BY <1>1, <1>8, <2>1
  <2> QED BY <1>1, <1>6, <2>2, TotalOfNone
<1>9. CASE later = {}
  <2>1. TailEnd(tails, i, Len(bytes)) = Len(bytes)
    BY <1>9 DEF TailEnd
  <2>2. \A k \in i + 1 .. n : ~IsDynamic[types[k]]
    BY <1>5, <1>9
  <2>4. n \in i .. n
    BY <1>1, <1>4
  <2>3. Total(sizes, n) = Total(sizes, i)
    BY <1>8, <2>2, <2>4
  <2> QED BY <1>1, <1>7, <2>1, <2>3 DEF tails
<1>10. CASE later # {}
  <2>1. \E j \in later : \A other \in later : j <= other
    <3>1. later \subseteq Nat
      BY <1>1, <1>4, <1>5
    <3> HIDE DEF later
    <3> QED BY <1>10, <3>1, Least
  <2> DEFINE j == CHOOSE j \in later : \A other \in later : j <= other
  <2>2. j \in later /\ \A other \in later : j <= other
    <3> HIDE DEF later
    <3> QED BY <2>1
  <2>3. TailEnd(tails, i, Len(bytes)) = tails[j]
    BY <1>10 DEF TailEnd
  <2> HIDE DEF j, later
  <2>4. j \in i + 1 .. n /\ IsDynamic[types[j]]
    BY <1>5, <2>2
  <2>5. j \in 1 .. n /\ j \in DynamicIn(types) /\ j - 1 \in i .. n
    BY <1>1, <1>2, <1>4, <2>4 DEF DynamicIn
  <2>6. \A k \in i + 1 .. j - 1 : ~IsDynamic[types[k]]
    <3> SUFFICES ASSUME NEW k \in i + 1 .. j - 1, IsDynamic[types[k]] PROVE FALSE
      OBVIOUS
    <3>1. k \in i + 1 .. n /\ k < j
      BY <1>1, <1>4, <2>4
    <3>2. k \in later
      BY <1>5, <3>1
    <3>3. j <= k
      BY <2>2, <3>2
    <3> QED BY <1>4, <2>4, <3>1, <3>3
  <2>7. Total(sizes, j - 1) = Total(sizes, i)
    BY <1>8, <2>5, <2>6
  <2>8. tails[j] = size + Total(sizes, j - 1)
    BY <1>1, <1>3, <2>5
  <2> QED BY <1>7, <2>3, <2>7, <2>8 DEF tails
<1> QED BY <1>9, <1>10

\* decode of a tuple finds what a dynamic element was encoded to.
LEMMA DynamicPart ==
  ASSUME NEW types, NEW elements, NEW bytes, LaidOut(types, elements, bytes),
         NEW i \in DynamicIn(types)
  PROVE  Part(types, bytes, TailsOf(types, elements), i) = EncodedAt(types, elements, i)
<1> DEFINE tails == TailsOf(types, elements)
<1>1. i \in DOMAIN tails /\ tails[i] = TailStart(types, elements, i)
  BY DEF TailsOf
<1>2. TailEnd(tails, i, Len(bytes)) = TailStart(types, elements, i) + SizeAt(types, elements, i)
  BY TailEnds
<1>3. i \in 1 .. Len(types) /\ IsDynamic[types[i]]
  BY Sizes, DynamicHasHead
<1>4. SubSeq(bytes, TailStart(types, elements, i) + 1,
             TailStart(types, elements, i) + SizeAt(types, elements, i))
        = EncodedAt(types, elements, i)
  BY <1>3 DEF LaidOut, IsLaidOut, DynamicLaidOut
<1> HIDE DEF tails
<1>5. Part(types, bytes, tails, i) = SubSeq(bytes, tails[i] + 1, TailEnd(tails, i, Len(bytes)))
  BY <1>1 DEF Part
<1> QED BY <1>1, <1>2, <1>4, <1>5 DEF tails

\* What is laid out has the tails that decode of a tuple looks for.
LEMMA TailsThere ==
  ASSUME NEW types, NEW elements, NEW bytes, LaidOut(types, elements, bytes)
  PROVE  TailsAreThere(types, bytes, TailsOf(types, elements))
<1> DEFINE n == Len(types)
           size == TupleSize(types, ByteLen)
           sizes == TailSizes(types, elements)
           tails == TailsOf(types, elements)
<1>1. /\ n \in Nat /\ size \in Nat /\ Len(bytes) \in Nat
      /\ \A k \in 1 .. n : TailStart(types, elements, k) = size + Total(sizes, k - 1)
      /\ \A k \in 0 .. n : Total(sizes, k) \in Nat
      /\ \A j \in 0 .. n : \A i \in 0 .. j : Total(sizes, i) <= Total(sizes, j)
      /\ Len(bytes) = size + Total(sizes, n)
  BY TailStarts
<1>2. types \in Seq(Types)
  BY Sizes
<1>3. /\ DOMAIN tails = DynamicIn(types)
      /\ \A k \in DynamicIn(types) : k \in 1 .. n /\ tails[k] = TailStart(types, elements, k)
  BY <1>2, DynamicHasHead DEF TailsOf
<1>4. DOMAIN tails = {} => size >= Len(bytes)
  <2> SUFFICES ASSUME DOMAIN tails = {} PROVE size >= Len(bytes)
    OBVIOUS
  <2>1. ElementsSize(types, elements, EncodedSize) = size
    BY <1>3, NoTails DEF LaidOut
  <2>2. Len(bytes) = size
    BY <2>1 DEF LaidOut, IsLaidOut
  <2> QED BY <1>1, <2>2
<1> HIDE DEF n, size, sizes, tails
<1>5. ASSUME NEW i \in DOMAIN tails PROVE tails[i] <= Len(bytes)
  <2>1. i \in 1 .. n /\ tails[i] = size + Total(sizes, i - 1)
    BY <1>1, <1>3
  <2>2. i - 1 \in 0 .. n /\ n \in 0 .. n
    BY <1>1, <2>1, SMTT(30)
  <2>3. Total(sizes, i - 1) <= Total(sizes, n) /\ Total(sizes, i - 1) \in Nat /\ Total(sizes, n) \in Nat
    BY <1>1, <2>2
  <2> QED BY <1>1, <2>1, <2>3
<1>6. ASSUME NEW i \in DOMAIN tails, NEW j \in DOMAIN tails, i < j PROVE tails[i] <= tails[j]
  <2>1. /\ i \in 1 .. n /\ tails[i] = size + Total(sizes, i - 1)
        /\ j \in 1 .. n /\ tails[j] = size + Total(sizes, j - 1)
    BY <1>1, <1>3
  <2>4. j \in 1 .. n /\ i \in 1 .. n /\ i < j
    BY <1>6, <2>1
  <2>5. n \in Nat
    BY <1>1
  <2>6. \A k, m \in 1 .. n : k < m => k - 1 \in 0 .. m - 1 /\ m - 1 \in 0 .. n /\ k - 1 \in 0 .. n
    BY <2>5
  <2>2. i - 1 \in 0 .. j - 1 /\ j - 1 \in 0 .. n /\ i - 1 \in 0 .. n
    BY <2>4, <2>6
  <2>3. /\ Total(sizes, i - 1) <= Total(sizes, j - 1)
        /\ Total(sizes, i - 1) \in Nat /\ Total(sizes, j - 1) \in Nat
    BY <1>1, <2>2
  <2> QED BY <1>1, <2>1, <2>3
<1> QED BY <1>4, <1>5, <1>6 DEF TailsAreThere, tails, size

\* What is laid out has the heads that decode looks for, if all have bytes.
LEMMA HeadsThere ==
  ASSUME NEW types, NEW elements, NEW bytes, LaidOut(types, elements, bytes),
         \A i \in 1 .. Len(types) : ByteLen[types[i]] # 0
  PROVE  HeadsAreThere(types, bytes)
<1>1. /\ types \in Seq(Types) /\ Len(types) \in Nat /\ DOMAIN types = 1 .. Len(types)
      /\ Len(bytes) \in Nat
      /\ TupleSize(types, ByteLen) \in Nat /\ TupleSize(types, ByteLen) <= Len(bytes)
  BY Sizes
<1>2. ASSUME NEW i \in 1 .. Len(types), HasHead(types, i), IsDynamic[types[i]]
      PROVE  HeadPosition(types, i) + LengthSize <= Len(bytes)
  <2>1. /\ HeadPosition(types, i) = Start(types, i) /\ Start(types, i) \in Nat
        /\ Start(types, i) + ByteLen[types[i]] <= TupleSize(types, ByteLen)
    BY <1>1, <1>2, HeadStarts
  <2>2. ByteLen[types[i]] = LengthSize
    BY <1>1, <1>2, ElementIs, ByteLenCases
  <2>3. LengthSize \in Nat
    BY DEF LengthSize
  <2> QED BY <1>1, <2>1, <2>2, <2>3
<1>3. ASSUME NEW i \in 1 .. Len(types), HasHead(types, i),
             NEW j \in 1 .. Len(types), j > i, HasHead(types, j)
      PROVE  HeadPosition(types, i) + ByteLen[types[i]] < Len(bytes)
  <2>1. j \in i + 1 .. Len(types)
    BY <1>1, <1>3
  <2>2. /\ HeadPosition(types, i) = Start(types, i) /\ Start(types, i) \in Nat
        /\ ByteLen[types[i]] \in Nat
        /\ Start(types, i) + ByteLen[types[i]] <= Start(types, j)
    BY <1>1, <1>3, <2>1, HeadStarts
  <2>3. /\ Start(types, j) \in Nat /\ ByteLen[types[j]] \in Nat
        /\ Start(types, j) + ByteLen[types[j]] <= TupleSize(types, ByteLen)
    BY <1>1, <1>3, HeadStarts
  <2>4. ByteLen[types[j]] # 0
    OBVIOUS
  <2> QED BY <1>1, <2>2, <2>3, <2>4, SMTT(30)
<1> QED BY <1>1, <1>2, <1>3 DEF HeadsAreThere

\* decode gives what is meant by the value; it may throw for parts of no bytes.
RoundTrip(type) ==
  \A value \in AbiValues : Fits[type][TRUE][value] =>
    LET read == AbiDecode[type][AbiEncode[type][value]]
    IN  /\ Meant[type][value] # NoValue
        /\ read = Meant[type][value] \/ (read = NoValue /\ HasEmptyPart[type])

\* What decode gives is not that it threw.
LEMMA ValuesAreValues ==
  /\ \A n : BigInt(n) # NoValue /\ Number(n) # NoValue /\ Boolean(n) # NoValue
  /\ \A s : AddressOf(s) # NoValue /\ String(s) # NoValue /\ ArrayValue(s) # NoValue
<1>1. Len(NoValue) = 1
  BY DEF NoValue
<1>2. \A a, b : Len(<<a, b>>) = 2
  OBVIOUS
<1>3. \A a, b : <<a, b>> # NoValue
  BY <1>1, <1>2
<1> QED BY <1>3 DEF BigInt, Number, Boolean, AddressOf, String, ArrayValue

\* A boolean that is true just when another is.
LEMMA BoolRead ==
  ASSUME NEW P, P \in BOOLEAN, NEW value, value \in {Boolean(TRUE), Boolean(FALSE)},
         P <=> value = Boolean(TRUE)
  PROVE  Boolean(P) = value
<1>1. CASE P
  BY <1>1
<1>2. CASE ~P
  <2>1. P = FALSE
    BY <1>2
  <2> QED BY <1>2, <2>1
<1> QED BY <1>1, <1>2

\* An element of a tuple that was encoded.
LEMMA ElementRead ==
  ASSUME NEW types, NEW elements, NEW bytes, LaidOut(types, elements, bytes),
         NEW i \in 1 .. Len(types), i \in DOMAIN elements,
         Fits[types[i]][TRUE][elements[i]], RoundTrip(types[i])
  PROVE  LET read == DecodeElement(types, bytes, TailsOf(types, elements), i, AbiDecode)
             meant == Meant[types[i]][elements[i]]
         IN  meant # NoValue /\ (read = meant \/ (read = NoValue /\ HasEmptyPart[types[i]]))
<1> DEFINE tails == TailsOf(types, elements)
           read == DecodeElement(types, bytes, tails, i, AbiDecode)
           meant == Meant[types[i]][elements[i]]
<1>1. types \in Seq(Types) /\ elements \in Seq(AbiValues) /\ types[i] \in Types
      /\ elements[i] \in AbiValues
  BY Sizes, ElementIs
<1>2. CASE types[i] = Bool
  <2>1. elements[i] \in {Boolean(TRUE), Boolean(FALSE)}
    <3>1. IsA(elements[i], "boolean")
      BY <1>1, <1>2, BoolFits
    <3> QED BY <1>1, <3>1, BoolEncoded
  <2>2. meant = elements[i]
    <3>1. Meant[Bool][elements[i]] = MeantAs(Bool, elements[i], Meant)
      BY <1>1, KindOfBool, FunctionsAre
    <3> QED BY <1>2, <3>1, KindOfBool DEF MeantAs
  <2> DEFINE P == BitIsSet(bytes, HeadPosition(types, i), i - HeadOf(types, i) + 1)
  <2>3. read = Boolean(P)
    BY <1>2 DEF DecodeElement
  <2>4. P <=> elements[i] = Boolean(TRUE)
    BY <1>2, BoolIsSet
  <2>5. P \in BOOLEAN
    BY DEF BitIsSet
  <2> HIDE DEF P, read, meant
  <2>6. Boolean(P) = elements[i]
    BY <2>1, <2>4, <2>5, BoolRead
  <2> QED BY <2>1, <2>2, <2>3, <2>6, ValuesAreValues DEF read, meant
<1>3. CASE types[i] # Bool
  <2>1. Part(types, bytes, tails, i) = EncodedAt(types, elements, i)
    <3>1. CASE i \in DynamicIn(types)
      BY <3>1, DynamicPart
    <3>2. CASE i \notin DynamicIn(types)
      <4>1. ~IsDynamic[types[i]] /\ i \notin DOMAIN tails
        BY <1>1, <3>2, ElementIs DEF DynamicIn, TailsOf
      <4> HIDE DEF tails
      <4> QED BY <1>3, <4>1, StaticPart
    <3> QED BY <3>1, <3>2
  <2>2. EncodedAt(types, elements, i) = AbiEncode[types[i]][elements[i]]
    BY DEF EncodedAt, ElementAt
  <2>3. read = AbiDecode[types[i]][Part(types, bytes, tails, i)]
    BY <1>3 DEF DecodeElement
  <2> HIDE DEF read, tails
  <2> QED BY <1>1, <2>1, <2>2, <2>3 DEF RoundTrip, read, tails
<1> QED BY <1>2, <1>3

\* A tuple that was encoded is read, if it is so for the types inside.
LEMMA TupleRead ==
  ASSUME NEW types, NEW elements, Encodable(types, elements),
         ElementsFit(types, elements, TRUE, Fits), \A i \in DOMAIN types : RoundTrip(types[i])
  PROVE  LET read == DecodeTuple(types, EncodeTuple(types, elements, AbiEncode), AbiDecode)
             meant == ElementsMeant(types, elements, Meant)
         IN  /\ meant # NoValue
             /\ read = meant \/ (read = NoValue /\ \E i \in DOMAIN types : HasEmptyPart[types[i]])
<1> DEFINE bytes == EncodeTuple(types, elements, AbiEncode)
           read == DecodeTuple(types, bytes, AbiDecode)
           meant == ElementsMeant(types, elements, Meant)
           tails == TailsOf(types, elements)
           part(i) == DecodeElement(types, bytes, tails, i, AbiDecode)
           means(i) == Meant[types[i]][elements[i]]
           Empty == \E i \in DOMAIN types : HasEmptyPart[types[i]]
<1>1. ElementsFit(types, elements, FALSE, Fits)
  BY StrictlyFits
<1>2. LaidOut(types, elements, bytes)
  BY <1>1, TupleEncoded DEF LaidOut
<1>3. types \in Seq(Types) /\ elements \in Seq(AbiValues) /\ DOMAIN types = 1 .. Len(types)
  BY ElementIs DEF Encodable
<1>4. Len(types) < MaxLen /\ DOMAIN elements = DOMAIN types
  BY <1>3, ElementIs DEF ElementsFit
<1>5. ASSUME NEW i \in DOMAIN types
      PROVE  means(i) # NoValue /\ (part(i) = means(i) \/ (part(i) = NoValue /\ HasEmptyPart[types[i]]))
  <2>1. Fits[types[i]][TRUE][elements[i]]
    BY <1>4 DEF ElementsFit
  <2>2. i \in 1 .. Len(types) /\ i \in DOMAIN elements
    BY <1>3, <1>4
  <2> HIDE DEF bytes
  <2> QED BY <1>2, <2>1, <2>2, ElementRead
<1>6. meant = ArrayValue([i \in DOMAIN types |-> means(i)])
  BY DEF ElementsMeant
<1>7. CASE ~HeadsAreThere(types, bytes)
  <2>1. read = NoValue
    BY <1>7 DEF DecodeTuple
  <2>2. PICK i \in 1 .. Len(types) : ByteLen[types[i]] = 0
    <3> HIDE DEF bytes
    <3> QED BY <1>2, <1>7, HeadsThere
  <2>3. HasEmptyPart[types[i]]
    <3>1. types[i] \in Types
      BY <1>3, ElementIs
    <3> QED BY <2>2, <3>1, HasEmptyPartIs
  <2> HIDE DEF read, meant
  <2> QED BY <1>3, <1>6, <2>1, <2>3, ValuesAreValues DEF read, meant
<1>8. CASE HeadsAreThere(types, bytes)
  <2>1. read = ValueOf([i \in DOMAIN types |-> part(i)])
    <3>1. TailPositions(types, bytes) = tails /\ TailsAreThere(types, bytes, tails)
      <4> HIDE DEF bytes
      <4> QED BY <1>2, TailsAreRead, TailsThere
    <3> HIDE DEF bytes, tails
    <3> QED BY <1>4, <1>8, <3>1 DEF DecodeTuple, DecodeParts
  <2> HIDE DEF read, part, means
  <2>2. CASE \E i \in DOMAIN types : part(i) = NoValue
    <3>1. PICK i \in DOMAIN types : part(i) = NoValue
      BY <2>2
    <3>2. HasEmptyPart[types[i]]
      BY <1>5, <3>1
    <3>3. NoValue \in Range([k \in DOMAIN types |-> part(k)])
      BY <3>1 DEF Range
    <3>4. read = NoValue
      BY <2>1, <3>3 DEF ValueOf
    <3> HIDE DEF meant
    <3> QED BY <1>6, <3>2, <3>4, ValuesAreValues DEF read, meant
  <2>3. CASE \A i \in DOMAIN types : part(i) # NoValue
    <3>1. [i \in DOMAIN types |-> part(i)] = [i \in DOMAIN types |-> means(i)]
      BY <1>5, <2>3
    <3>2. NoValue \notin Range([i \in DOMAIN types |-> part(i)])
      BY <2>3 DEF Range
    <3>3. read = ArrayValue([i \in DOMAIN types |-> part(i)])
      BY <2>1, <3>2 DEF ValueOf
    <3> HIDE DEF meant
    <3> QED BY <1>6, <3>1, <3>3, ValuesAreValues DEF read, meant
  <2> QED BY <2>2, <2>3
<1> QED BY <1>7, <1>8

\* What follows its length.
LEMMA PrefixIs ==
  ASSUME NEW p \in ByteStrings, NEW q \in ByteStrings, Len(p) = LengthSize
  PROVE  /\ p \o q \in ByteStrings /\ Len(p \o q) = LengthSize + Len(q) /\ Len(q) \in Nat
         /\ SubSeq(p \o q, 1, LengthSize) = p
         /\ SubSeq(p \o q, LengthSize + 1, Len(p \o q)) = q
<1> DEFINE s == p \o q
<1>1. /\ s \in Seq(0 .. Base - 1) /\ Len(s) = Len(p) + Len(q)
      /\ Len(p) \in Nat /\ Len(q) \in Nat
      /\ \A i \in 1 .. Len(p) : s[i] = p[i]
      /\ \A i \in 1 .. Len(q) : s[Len(p) + i] = q[i]
  <2> DEFINE D == 0 .. Base - 1
  <2>1. p \in Seq(D) /\ q \in Seq(D)
    BY DEF ByteStrings
  <2> HIDE DEF D
  <2>2. s \in Seq(D) /\ Len(s) = Len(p) + Len(q) /\ Len(p) \in Nat /\ Len(q) \in Nat
    BY <2>1, JoinedIs
  <2>3. \A i \in 1 .. Len(p) : s[i] = p[i]
    BY <2>1, JoinedIs
  <2>4. \A i \in 1 .. Len(q) : s[Len(p) + i] = q[i]
    BY <2>1, JoinedIs
  <2> QED BY <2>2, <2>3, <2>4 DEF D
<1> HIDE DEF s
<1>2. SubSeq(s, 0 + 1, 0 + Len(p)) = p
  <2>1. 0 + Len(p) <= Len(s) /\ \A i \in 1 .. Len(p) : s[0 + i] = p[i]
    BY <1>1
  <2>2. 0 \in Nat
    OBVIOUS
  <2> QED BY <1>1, <2>1, <2>2, SliceIs DEF ByteStrings
<1>3. SubSeq(s, Len(p) + 1, Len(p) + Len(q)) = q
  <2>1. Len(p) + Len(q) <= Len(s)
    BY <1>1
  <2> QED BY <1>1, <2>1, SliceIs DEF ByteStrings
<1>4. 0 + 1 = 1 /\ 0 + Len(p) = Len(p)
  BY <1>1
<1> QED BY <1>1, <1>2, <1>3, <1>4 DEF s, ByteStrings

\* A value of a simple type that was encoded is read.
LEMMA SimpleRead ==
  ASSUME NEW type \in SimpleTypes
  PROVE  RoundTrip(type)
<1> SUFFICES ASSUME NEW value \in AbiValues, Fits[type][TRUE][value]
             PROVE  LET read == AbiDecode[type][AbiEncode[type][value]]
                    IN  /\ Meant[type][value] # NoValue
                        /\ read = Meant[type][value] \/ (read = NoValue /\ HasEmptyPart[type])
  BY DEF RoundTrip
<1> DEFINE bytes == AbiEncode[type][value]
<1>1. type \in Types
  BY SimpleTypesAreTypes
<1>2. bytes \in ByteStrings
  <2>1. Fits[type][FALSE][value] /\ bytes \in ByteStrings \cup {NoBytes}
        /\ (bytes # NoBytes <=> Fits[type][FALSE][value])
    BY <1>1, TypesEncode DEF EncodesAll
  <2> QED BY <2>1
<1>3. /\ bytes = EncodeAs(type, value, AbiEncode)
      /\ Meant[type][value] = MeantAs(type, value, Meant)
      /\ FitsAs(type, value, TRUE, Fits)
      /\ AbiDecode[type][bytes] = DecodeAs(type, bytes, AbiDecode)
  <2> HIDE DEF bytes
  <2>1. AbiDecode[type][bytes] = DecodeAs(type, bytes, AbiDecode)
    BY <1>1, <1>2, FunctionsAre
  <2> QED BY <1>1, <2>1, FunctionsAre DEF bytes
<1> SUFFICES DecodeAs(type, bytes, AbiDecode) = Meant[type][value] /\ Meant[type][value] # NoValue
  BY <1>3
<1> HIDE DEF bytes
<1>4. CASE type[1] = "uint"
  <2>1. bytes = EncodeInteger(value, type[2])
    BY <1>3, <1>4 DEF EncodeAs
  <2>2. EncodeInteger(value, type[2]) # NoBytes
    BY <1>3, <1>4 DEF FitsAs
  <2>3. type[2] \in Nat
    BY <1>4, SimpleCases
  <2>4. /\ value[2] \in Nat /\ value[2] < Power[Bits * type[2]]
        /\ bytes = BytesOf(value[2], type[2]) /\ Len(bytes) = type[2]
    BY <2>1, <2>2, <2>3, IntegerEncoded
  <2>5. BytesToBigInt(bytes) = value[2]
    BY <2>3, <2>4, NumberIsRead
  <2>6. Meant[type][value] = BigInt(value[2])
    BY <1>3, <1>4 DEF MeantAs
  <2>7. DecodeAs(type, bytes, AbiDecode) = BigInt(BytesToBigInt(bytes))
    BY <1>4, <2>4 DEF DecodeAs
  <2> QED BY <2>5, <2>6, <2>7, ValuesAreValues
<1>5. CASE type[1] = "byte"
  <2>1. bytes = EncodeByte(value)
    BY <1>3, <1>5 DEF EncodeAs
  <2>2. EncodeByte(value) # NoBytes
    BY <1>3, <1>5 DEF FitsAs
  <2>3. bytes = <<value[2]>>
    BY <2>1, <2>2, ByteEncoded
  <2>4. Len(bytes) = 1 /\ bytes[1] = value[2]
    BY <2>3
  <2>5. Meant[type][value] = Number(value[2])
    BY <1>3, <1>5 DEF MeantAs
  <2>6. DecodeAs(type, bytes, AbiDecode) = Number(bytes[1])
    BY <1>5, <2>4 DEF DecodeAs
  <2> QED BY <2>4, <2>5, <2>6, ValuesAreValues
<1>6. CASE type[1] = "bool"
  <2>1. bytes = EncodeBool(value)
    BY <1>3, <1>6 DEF EncodeAs
  <2>2. IsA(value, "boolean")
    BY <1>3, <1>6 DEF FitsAs
  <2>3. /\ value \in {Boolean(TRUE), Boolean(FALSE)}
        /\ bytes = IF value = Boolean(TRUE) THEN <<Power[Bits - 1]>> ELSE <<0>>
    BY <2>1, <2>2, BoolEncoded
  <2>4. <<Power[Bits - 1]>> # <<0>>
    <3>1. Power[Bits - 1] # 0
      BY HighBit
    <3>2. <<Power[Bits - 1]>>[1] = Power[Bits - 1] /\ <<0>>[1] = 0
      OBVIOUS
    <3> QED BY <3>1, <3>2
  <2>5. DecodeBool(bytes) = value
    <3>1. CASE value = Boolean(TRUE)
      BY <2>3, <2>4, <3>1 DEF DecodeBool
    <3>2. CASE value # Boolean(TRUE)
      <4>1. bytes = <<0>> /\ value = Boolean(FALSE)
        BY <2>3, <3>2
      <4> QED BY <2>4, <4>1 DEF DecodeBool
    <3> QED BY <3>1, <3>2
  <2>6. Meant[type][value] = value
    BY <1>3, <1>6 DEF MeantAs
  <2>7. DecodeAs(type, bytes, AbiDecode) = DecodeBool(bytes)
    BY <1>6 DEF DecodeAs
  <2> QED BY <2>3, <2>5, <2>6, <2>7, ValuesAreValues
<1>7. CASE type[1] = "address"
  <2>1. bytes = EncodeAddress(value)
    BY <1>3, <1>7 DEF EncodeAs
  <2>2. EncodeAddress(value) # NoBytes
    BY <1>3, <1>7 DEF FitsAs
  <2>3. bytes = value[2] /\ Len(bytes) = AddressSize
    BY <2>1, <2>2, AddressEncoded
  <2>4. Meant[type][value] = AddressOf(value[2])
    BY <1>3, <1>7 DEF MeantAs
  <2>5. DecodeAs(type, bytes, AbiDecode) = AddressOf(bytes)
    BY <1>7, <2>3 DEF DecodeAs
  <2> QED BY <2>3, <2>4, <2>5, ValuesAreValues
<1>8. CASE type[1] = "string"
  <2>1. bytes = EncodeString(value)
    BY <1>3, <1>8 DEF EncodeAs
  <2>2. value[1] \in {"string", "bytes"} /\ Len(value[2]) <= MaxLen /\ IsText(value[2])
    BY <1>3, <1>8 DEF FitsAs
  <2>3. /\ value[2] \in ByteStrings
        /\ bytes = SubSeq(BigIntToBytes(Len(value[2]), LengthSize), 1, LengthSize) \o value[2]
    BY <2>1, <2>2, StringEncoded
  <2> DEFINE text == value[2]
             prefix == BytesOf(Len(text), LengthSize)
  <2>4. Len(text) \in 0 .. MaxLen
    BY <2>2, <2>3, BaseIs DEF ByteStrings
  <2>5. /\ prefix \in ByteStrings /\ Len(prefix) = LengthSize /\ BytesToBigInt(prefix) = Len(text)
        /\ BigIntToBytes(Len(text), LengthSize) = prefix
    <3> HIDE DEF text
    <3> QED BY <2>4, LengthIsRead
  <2> HIDE DEF prefix
  <2>6. SubSeq(prefix, 1, LengthSize) = prefix
    BY <2>5 DEF ByteStrings, LengthSize
  <2>7. bytes = prefix \o text
    BY <2>3, <2>5, <2>6
  <2>8. text \in ByteStrings /\ DecodeText(text) = text
    BY <2>2, <2>3 DEF IsText
  <2> HIDE DEF text
  <2>9. /\ Len(bytes) = LengthSize + Len(text) /\ Len(text) \in Nat
        /\ SubSeq(bytes, 1, LengthSize) = prefix
        /\ SubSeq(bytes, LengthSize + 1, Len(bytes)) = text
    BY <2>5, <2>7, <2>8, PrefixIs
  <2>10. Len(bytes) >= LengthSize /\ Len(bytes) - LengthSize = Len(text)
    BY <2>9 DEF LengthSize
  <2>11. DecodeString(bytes) = String(text)
    BY <2>5, <2>8, <2>9, <2>10 DEF DecodeString
  <2>12. Meant[type][value] = String(text)
    BY <1>3, <1>8 DEF MeantAs, text
  <2>13. DecodeAs(type, bytes, AbiDecode) = DecodeString(bytes)
    BY <1>8 DEF DecodeAs
  <2> QED BY <2>11, <2>12, <2>13, ValuesAreValues
<1> QED BY <1>4, <1>5, <1>6, <1>7, <1>8, SimpleCases

\* A value that was encoded is read, if it is so for the types inside.
LEMMA CompositeRead ==
  ASSUME NEW S, \A t \in S : RoundTrip(t), NEW type \in TypesOf(S \cap Types), type \in Types
  PROVE  RoundTrip(type)
<1> SUFFICES ASSUME NEW value \in AbiValues, Fits[type][TRUE][value]
             PROVE  LET read == AbiDecode[type][AbiEncode[type][value]]
                    IN  /\ Meant[type][value] # NoValue
                        /\ read = Meant[type][value] \/ (read = NoValue /\ HasEmptyPart[type])
  BY DEF RoundTrip
<1> DEFINE types == ElementTypesOf(type, value)
           elements == ElementsOf(value)
           bytes == EncodeTuple(types, elements, AbiEncode)
           encoded == AbiEncode[type][value]
           meant == ElementsMeant(types, elements, Meant)
           read == DecodeTuple(types, bytes, AbiDecode)
           Empty == \E i \in DOMAIN types : HasEmptyPart[types[i]]
<1>1. IsComposite(type)
  BY CompositeCases DEF IsComposite
<1>2. IsList(value) /\ (type[1] = "array" => Len(elements) = type[3])
      /\ ElementsFit(types, elements, TRUE, Fits)
  BY <1>1, CompositeFits
<1>3. /\ types \in Seq(S \cap Types) /\ elements \in Seq(AbiValues)
      /\ type[1] = "tuple" => types = type[2]
      /\ type[1] # "tuple" => types = Repeated(type[2], Len(elements))
  BY <1>2, ElementTypesAre
<1>4. Encodable(types, elements)
  <2>1. types \in Seq(Types)
    BY <1>3
  <2>2. \A i \in DOMAIN types : types[i] \in Types
    BY <2>1, ElementIs
  <2> QED BY <1>3, <2>1, <2>2, TypesEncode DEF Encodable
<1>5. \A i \in DOMAIN types : RoundTrip(types[i])
  <2>1. \A i \in DOMAIN types : types[i] \in S \cap Types
    BY <1>3, ElementIs
  <2> QED BY <2>1
<1>6. meant # NoValue /\ (read = meant \/ (read = NoValue /\ Empty))
  <2> HIDE DEF types, elements
  <2> QED BY <1>2, <1>4, <1>5, TupleRead
<1>7. bytes \in ByteStrings
  <2>1. ElementsFit(types, elements, FALSE, Fits)
    BY <1>2, <1>4, StrictlyFits
  <2> HIDE DEF types, elements
  <2> QED BY <1>4, <2>1, TupleEncoded
<1>8. Meant[type][value] = meant
  <2>1. Meant[type][value] = MeantAs(type, value, Meant)
    BY FunctionsAre
  <2> QED BY <1>1, <2>1 DEF MeantAs, IsComposite, ElementTypesOf
<1>9. Empty => HasEmptyPart[type]
  <2> SUFFICES ASSUME NEW i \in DOMAIN types, HasEmptyPart[types[i]] PROVE HasEmptyPart[type]
    OBVIOUS
  <2>1. CASE type[1] = "tuple"
    BY <1>3, <2>1, HasEmptyPartIs
  <2>2. CASE type[1] \in {"array", "list"}
    <3>1. types[i] = type[2]
      BY <1>3, <2>2 DEF Repeated
    <3> QED BY <2>2, <3>1, HasEmptyPartIs
  <2> QED BY <1>1, <2>1, <2>2 DEF IsComposite
<1>10. /\ type[1] = "array" => encoded = bytes
       /\ type[1] = "list" => encoded = BigIntToBytes(Len(elements), LengthSize) \o bytes
       /\ type[1] = "tuple" => encoded = bytes
  <2>1. bytes # NoBytes
    BY <1>7, NoBytesAreNone
  <2> QED BY <1>1, <1>2, <2>1, CompositeIs
<1>11. encoded \in ByteStrings
  <2>1. Fits[type][FALSE][value] /\ encoded \in ByteStrings \cup {NoBytes}
        /\ (encoded # NoBytes <=> Fits[type][FALSE][value])
    BY TypesEncode DEF EncodesAll
  <2> QED BY <2>1
<1>12. Len(elements) \in 0 .. MaxLen
  <2>1. Len(elements) <= MaxLen /\ Len(elements) \in Nat
    BY <1>2, <1>3, ElementIs DEF ElementsFit
  <2> QED BY <2>1, BaseIs
<1> HIDE DEF types, elements, bytes, encoded, meant, Empty
<1>13. AbiDecode[type][encoded] = DecodeAs(type, encoded, AbiDecode)
  BY <1>11, FunctionsAre
<1>14. DecodeAs(type, encoded, AbiDecode) = read
  <2>1. CASE type[1] = "array"
    <3>1. types = Repeated(type[2], type[3])
      BY <1>2, <1>3, <2>1
    <3> QED BY <1>10, <2>1, <3>1 DEF DecodeAs
  <2>2. CASE type[1] = "tuple"
    BY <1>3, <1>10, <2>2 DEF DecodeAs
  <2>3. CASE type[1] = "list"
    <3> DEFINE prefix == BytesOf(Len(elements), LengthSize)
    <3>1. /\ prefix \in ByteStrings /\ Len(prefix) = LengthSize
          /\ BytesToBigInt(prefix) = Len(elements)
          /\ BigIntToBytes(Len(elements), LengthSize) = prefix
      BY <1>12, LengthIsRead
    <3> HIDE DEF prefix
    <3>2. encoded = prefix \o bytes
      BY <1>10, <2>3, <3>1
    <3>3. /\ Len(encoded) = LengthSize + Len(bytes) /\ Len(bytes) \in Nat
          /\ SubSeq(encoded, 1, LengthSize) = prefix
          /\ SubSeq(encoded, LengthSize + 1, Len(encoded)) = bytes
      BY <1>7, <3>1, <3>2, PrefixIs
    <3>4. ~(Len(encoded) < LengthSize)
      BY <3>3 DEF LengthSize
    <3>5. DecodeAs(type, encoded, AbiDecode) = DecodeList(type[2], encoded, AbiDecode)
      BY <2>3 DEF DecodeAs
    <3>6. Repeated(type[2], Len(elements)) = types
      BY <1>3, <2>3
    <3> QED BY <3>1, <3>3, <3>4, <3>5, <3>6 DEF DecodeList
  <2> QED BY <1>1, <2>1, <2>2, <2>3 DEF IsComposite
<1> HIDE DEF read
<1> QED BY <1>6, <1>8, <1>9, <1>13, <1>14 DEF encoded

\* Of every type the values that fit are read as what they mean, but for parts of no bytes.
THEOREM TypesAreRead == \A type \in Types : RoundTrip(type)
<1> DEFINE S == {type \in Types : RoundTrip(type)}
<1>1. SimpleTypes \subseteq S
  BY SimpleRead, SimpleTypesAreTypes
<1>2. \A t \in S : RoundTrip(t)
  OBVIOUS
<1>3. ASSUME NEW type \in TypesOf(S \cap Types), type \in Types
      PROVE  type \in S
  <2> HIDE DEF S
  <2>1. RoundTrip(type)
    BY <1>2, <1>3, CompositeRead
  <2> QED BY <1>3, <2>1 DEF S
<1>4. TypesOf(S \cap Types) \cap Types \subseteq S
  BY <1>3
<1> HIDE DEF S
<1>5. Types \subseteq S
  BY <1>1, <1>4, TypeInduction
<1> QED BY <1>2, <1>5

\* What there is when a tuple was read.
LEMMA TupleParts ==
  ASSUME NEW types, NEW bytes, DecodeTuple(types, bytes, AbiDecode) # NoValue
  PROVE  LET tails == TailPositions(types, bytes)
         IN  /\ HeadsAreThere(types, bytes) /\ TailsAreThere(types, bytes, tails)
             /\ \A i \in DOMAIN types : DecodeElement(types, bytes, tails, i, AbiDecode) # NoValue
<1> DEFINE tails == TailPositions(types, bytes)
           part(i) == DecodeElement(types, bytes, tails, i, AbiDecode)
<1>1. /\ HeadsAreThere(types, bytes)
      /\ DecodeTuple(types, bytes, AbiDecode) = DecodeParts(types, bytes, tails, AbiDecode)
  BY DEF DecodeTuple
<1> HIDE DEF tails
<1>2. /\ TailsAreThere(types, bytes, tails)
      /\ DecodeParts(types, bytes, tails, AbiDecode) = ValueOf([i \in DOMAIN types |-> part(i)])
  BY <1>1 DEF DecodeParts
<1> HIDE DEF part
<1>3. NoValue \notin Range([i \in DOMAIN types |-> part(i)])
  BY <1>1, <1>2 DEF ValueOf
<1>4. \A i \in DOMAIN types : part(i) # NoValue
  BY <1>3 DEF Range
<1> QED BY <1>1, <1>2, <1>4 DEF tails, part

\* A static type whose values are of one length.
OneLength(type) ==
  ~IsDynamic[type] /\ ~EndsInBools[type] =>
    \A bytes \in ByteStrings : AbiDecode[type][bytes] # NoValue => Len(bytes) = ByteLen[type]

\* The heads but one follow each other.
LEMMA HeadBefore ==
  ASSUME NEW types \in Seq(Types), NEW h \in 2 .. Len(types), HasHead(types, h)
  PROVE  \E k \in 1 .. h - 1 :
           HasHead(types, k) /\ Start(types, k) + ByteLen[types[k]] = Start(types, h)
<1> DEFINE sizes == HeadSizes(types, ByteLen)
           n == Len(types)
           k == HeadOf(types, h - 1)
<1>1. h - 1 \in Nat \ {0} /\ n \in Nat
  BY ElementIs
<1>2. /\ k \in 1 .. h - 1 /\ HasHead(types, k)
      /\ \A m \in k + 1 .. h - 1 : ~HasHead(types, m)
  <2>1. h - 1 \in Nat \ {0}
    BY <1>1
  <2>2. k \in 1 .. h - 1
    BY <2>1, HeadOfIs
  <2>3. HasHead(types, k) /\ \A m \in k + 1 .. h - 1 : ~HasHead(types, m)
    BY <2>1, HeadHasHead
  <2> QED BY <2>2, <2>3
<1>3. /\ \A i \in 1 .. n : sizes[i] \in Nat
      /\ \A i \in 1 .. n : sizes[i] = IF HasHead(types, i) THEN ByteLen[types[i]] ELSE 0
      /\ \A i \in 1 .. n : Total(sizes, i) = Total(sizes, i - 1) + sizes[i]
  BY HeadsAre
<1>4. \A i : Start(types, i) = Total(sizes, i - 1)
  BY DEF Start
<1> HIDE DEF k, sizes
<1>5. k \in 0 .. n /\ h - 1 \in k .. n /\ k \in 1 .. n
  BY <1>1, <1>2
<1>6. \A m \in k + 1 .. h - 1 : m \in 1 .. n
  BY <1>1, <1>2
<1>7. \A m \in k + 1 .. h - 1 : sizes[m] = 0
  BY <1>2, <1>3, <1>6
<1> HIDE DEF n
<1>8. Total(sizes, h - 1) = Total(sizes, k)
  BY <1>1, <1>3, <1>5, <1>7, TotalOfNone, ZenonT(60)
<1>9. Total(sizes, k) = Total(sizes, k - 1) + ByteLen[types[k]]
  BY <1>2, <1>3, <1>5
<1> QED BY <1>2, <1>4, <1>8, <1>9

\* The last head is the end of the heads.
LEMMA LastHead ==
  ASSUME NEW types \in Seq(Types), Len(types) > 0
  PROVE  LET h == HeadOf(types, Len(types))
         IN  /\ h \in 1 .. Len(types) /\ HasHead(types, h)
             /\ TupleSize(types, ByteLen) = Start(types, h) + ByteLen[types[h]]
<1> DEFINE sizes == HeadSizes(types, ByteLen)
           n == Len(types)
           h == HeadOf(types, n)
<1>1. n \in Nat \ {0}
  BY ElementIs
<1>2. h \in 1 .. n /\ HasHead(types, h) /\ \A m \in h + 1 .. n : ~HasHead(types, m)
  <2> HIDE DEF n
  <2>1. h \in 1 .. n
    BY <1>1, HeadOfIs
  <2>2. HasHead(types, h) /\ \A m \in h + 1 .. n : ~HasHead(types, m)
    BY <1>1, HeadHasHead
  <2> QED BY <2>1, <2>2
<1>3. /\ \A i \in 1 .. n : sizes[i] \in Nat
      /\ \A i \in 1 .. n : sizes[i] = IF HasHead(types, i) THEN ByteLen[types[i]] ELSE 0
      /\ \A i \in 1 .. n : Total(sizes, i) = Total(sizes, i - 1) + sizes[i]
      /\ TupleSize(types, ByteLen) = Total(sizes, n)
  BY HeadsAre
<1>4. \A i : Start(types, i) = Total(sizes, i - 1)
  BY DEF Start
<1> HIDE DEF h, sizes, n
<1>5. h \in 0 .. n /\ n \in h .. n /\ n \in Nat
  BY <1>1, <1>2
<1>6. \A m \in h + 1 .. n : m \in 1 .. n
  BY <1>1, <1>2
<1>7. \A m \in h + 1 .. n : sizes[m] = 0
  BY <1>2, <1>3, <1>6
<1>8. Total(sizes, n) = Total(sizes, h)
  BY <1>3, <1>5, <1>7, TotalOfNone
<1>9. Total(sizes, h) = Total(sizes, h - 1) + ByteLen[types[h]]
  BY <1>2, <1>3
<1> QED BY <1>2, <1>3, <1>4, <1>8, <1>9 DEF h, n

\* What is taken of bytes is as long as what is there.
LEMMA SliceLength ==
  ASSUME NEW bytes \in ByteStrings, NEW m \in Nat, NEW size \in Nat, m <= Len(bytes)
  PROVE  /\ Slice(bytes, m + 1, m + size) \in ByteStrings
         /\ Len(Slice(bytes, m + 1, m + size)) = size => m + size <= Len(bytes)
<1> DEFINE last == m + size
           k == (IF last < Len(bytes) THEN last ELSE Len(bytes)) - m
<1>1. Len(bytes) \in Nat /\ bytes \in Seq(0 .. Base - 1)
  BY DEF ByteStrings
<1>2. k \in Nat /\ m + k <= Len(bytes) /\ (k = size => m + size <= Len(bytes))
      /\ m + k = IF last < Len(bytes) THEN last ELSE Len(bytes)
  BY <1>1
<1>3. Slice(bytes, m + 1, last) = SubSeq(bytes, m + 1, m + k)
  BY <1>2 DEF Slice
<1> HIDE DEF k
<1>4. SubSeq(bytes, m + 1, m + k) \in Seq(0 .. Base - 1) /\ Len(SubSeq(bytes, m + 1, m + k)) = k
  <2> DEFINE D == 0 .. Base - 1
  <2>1. bytes \in Seq(D)
    BY <1>1
  <2> HIDE DEF D
  <2>2. SubSeq(bytes, m + 1, m + k) \in Seq(D) /\ Len(SubSeq(bytes, m + 1, m + k)) = k
    BY <1>2, <2>1, SliceOf
  <2> QED BY <2>2 DEF D
<1> QED BY <1>2, <1>3, <1>4 DEF ByteStrings

\* A tuple without tails is as long as its heads.
LEMMA StaticTuple ==
  ASSUME NEW types \in Seq(Types), DynamicIn(types) = {}, Range(types) # {Bool},
         \A i \in DOMAIN types : ~EndsInBools[types[i]] /\ OneLength(types[i]),
         NEW bytes \in ByteStrings, DecodeTuple(types, bytes, AbiDecode) # NoValue
  PROVE  Len(bytes) = TupleSize(types, ByteLen)
<1> DEFINE tails == TailPositions(types, bytes)
           n == Len(types)
           size == TupleSize(types, ByteLen)
           h == HeadOf(types, n)
<1>1. /\ HeadsAreThere(types, bytes) /\ TailsAreThere(types, bytes, tails)
      /\ \A i \in DOMAIN types : DecodeElement(types, bytes, tails, i, AbiDecode) # NoValue
  BY TupleParts
<1>2. DOMAIN tails = {}
  BY DEF TailPositions
<1>3. size >= Len(bytes)
  BY <1>1, <1>2 DEF TailsAreThere
<1>4. n \in Nat /\ DOMAIN types = 1 .. n /\ size \in Nat /\ Len(bytes) \in Nat
  <2>1. n \in 0 .. n /\ DOMAIN types = 1 .. n
    BY ElementIs
  <2>2. Len(bytes) \in Nat
    BY DEF ByteStrings
  <2> QED BY <2>1, <2>2, HeadsAre
<1>5. CASE n = 0
  <2>1. size = 0
    BY <1>5, HeadsAre
  <2> QED BY <1>3, <1>4, <2>1
<1>6. CASE n > 0
  <2>1. h \in 1 .. n /\ HasHead(types, h) /\ size = Start(types, h) + ByteLen[types[h]]
    BY <1>6, LastHead
  <2>2. /\ HeadPosition(types, h) = Start(types, h) /\ Start(types, h) \in Nat
        /\ ByteLen[types[h]] \in Nat
    BY <2>1, HeadStarts
  <2>3. h > 1 => Start(types, h) < Len(bytes)
    <3> SUFFICES ASSUME h > 1 PROVE Start(types, h) < Len(bytes)
      OBVIOUS
    <3>1. h \in 2 .. n
      BY <1>4, <2>1
    <3> HIDE DEF h
    <3>2. PICK k \in 1 .. h - 1 :
            HasHead(types, k) /\ Start(types, k) + ByteLen[types[k]] = Start(types, h)
      BY <2>1, <3>1, HeadBefore
    <3>3. k \in 1 .. n /\ h > k
      BY <1>4, <3>1
    <3>4. HeadPosition(types, k) = Start(types, k)
      BY <3>2, <3>3, HeadStarts
    <3>5. HeadPosition(types, k) + ByteLen[types[k]] < Len(bytes)
      BY <1>1, <1>4, <2>1, <3>2, <3>3 DEF HeadsAreThere
    <3> QED BY <3>2, <3>4, <3>5
  <2>4. CASE types[n] = Bool
    <3>1. types[h] = Bool /\ \A k \in h .. n : HeadOf(types, k) = h
      <4>1. n \in Nat \ {0}
        BY <1>4, <1>6
      <4> HIDE DEF n
      <4> QED BY <2>4, <4>1, HeadOfIs
    <3>2. h # 1
      <4> SUFFICES ASSUME h = 1 PROVE FALSE
        OBVIOUS
      <4> HIDE DEF n, h
      <4>1. ASSUME NEW k \in 1 .. n PROVE types[k] = Bool
        <5>1. HeadOf(types, k) = 1
          BY <3>1
        <5>2. types[k] # Bool => HeadOf(types, k) = k
          BY DEF HeadOf
        <5> QED BY <3>1, <5>1, <5>2
      <4>2. Range(types) = {Bool}
        <5>1. 1 \in DOMAIN types
          BY <1>4, <1>6
        <5> QED BY <1>4, <4>1, <5>1 DEF Range
      <4> QED BY <4>2
    <3>3. ByteLen[types[h]] = 1
      BY <3>1, KindOfBool, ByteLenCases
    <3> HIDE DEF h, size
    <3>4. Start(types, h) < Len(bytes)
      BY <2>1, <2>3, <3>2
    <3> QED BY <1>3, <1>4, <2>1, <2>2, <3>3, <3>4 DEF size
  <2>5. CASE types[n] # Bool
    <3>1. h = n
      BY <2>5 DEF HeadOf
    <3> DEFINE part == Slice(bytes, Start(types, n) + 1, Start(types, n) + ByteLen[types[n]])
    <3>2. AbiDecode[types[n]][part] # NoValue
      <4>1. n \in DOMAIN types
        BY <1>4, <1>6
      <4>2. DecodeElement(types, bytes, tails, n, AbiDecode) # NoValue
        BY <1>1, <4>1
      <4>3. Part(types, bytes, tails, n) = part
        BY <1>2, <2>2, <3>1 DEF Part
      <4> HIDE DEF n, part, tails
      <4> QED BY <2>5, <4>2, <4>3 DEF DecodeElement
    <3>3. Start(types, n) <= Len(bytes)
      <4>1. CASE n = 1
        <5>1. Start(types, n) = 0
          BY <4>1, HeadsAre DEF Start
        <5> QED BY <1>4, <5>1
      <4>2. CASE n # 1
        <5>1. h > 1
          BY <1>4, <1>6, <3>1, <4>2
        <5>2. Start(types, n) < Len(bytes)
          BY <2>3, <3>1, <5>1
        <5> QED BY <1>4, <2>2, <3>1, <5>2
      <4> QED BY <4>1, <4>2
    <3>4. Start(types, n) \in Nat /\ ByteLen[types[n]] \in Nat
      BY <2>2, <3>1
    <3>5. /\ part \in ByteStrings
          /\ Len(part) = ByteLen[types[n]] =>
               Start(types, n) + ByteLen[types[n]] <= Len(bytes)
      <4> HIDE DEF n
      <4> QED BY <3>3, <3>4, SliceLength
    <3>6. ~IsDynamic[types[n]] /\ ~EndsInBools[types[n]] /\ OneLength(types[n])
      BY <1>4, <1>6 DEF DynamicIn
    <3>7. Len(part) = ByteLen[types[n]]
      <4> HIDE DEF part
      <4> QED BY <3>2, <3>5, <3>6 DEF OneLength
    <3>8. Start(types, n) + ByteLen[types[n]] <= Len(bytes)
      BY <3>5, <3>7
    <3>9. size = Start(types, n) + ByteLen[types[n]]
      BY <2>1, <3>1
    <3> HIDE DEF n, size
    <3> QED BY <1>3, <1>4, <3>4, <3>8, <3>9 DEF size
  <2> QED BY <2>4, <2>5
<1> QED BY <1>4, <1>5, <1>6

\* What ends in booleans.
LEMMA EndsInBoolsCases ==
  ASSUME NEW type \in Types, ~EndsInBools[type]
  PROVE  /\ type[1] \in {"array", "list"} => type[2] # Bool /\ ~EndsInBools[type[2]]
         /\ type[1] = "tuple" =>
              /\ Range(type[2]) # {Bool}
              /\ \A i \in DOMAIN type[2] :
                   (\A j \in DOMAIN type[2] : j > i => ~IsDynamic[type[2][j]])
                     => ~EndsInBools[type[2][i]]
BY EndsInBoolsIs

\* The types of the elements of an array are not all booleans.
LEMMA RepeatedRange ==
  ASSUME NEW type \in Types, type # Bool, NEW n \in Nat
  PROVE  Range(Repeated(type, n)) # {Bool}
<1> SUFFICES ASSUME Range(Repeated(type, n)) = {Bool} PROVE FALSE
  OBVIOUS
<1>1. PICK i \in DOMAIN Repeated(type, n) : Repeated(type, n)[i] = Bool
  BY DEF Range
<1> QED BY <1>1, RepeatedTypes

\* What is decoded has one length, if it is so for the types inside.
LEMMA CompositeLength ==
  ASSUME NEW S, \A t \in S : OneLength(t), NEW type \in TypesOf(S \cap Types), type \in Types
  PROVE  OneLength(type)
<1> SUFFICES ASSUME ~IsDynamic[type], ~EndsInBools[type], NEW bytes \in ByteStrings,
                    AbiDecode[type][bytes] # NoValue
             PROVE  Len(bytes) = ByteLen[type]
  BY DEF OneLength
<1>1. AbiDecode[type][bytes] = DecodeAs(type, bytes, AbiDecode)
  BY FunctionsAre
<1>2. type[1] # "list"
  BY DynamicIs
<1>3. CASE type[1] = "array"
  <2> DEFINE types == Repeated(type[2], type[3])
  <2>1. type[2] \in S \cap Types /\ type[3] \in Nat
    BY <1>3, CompositeCases, BaseIs
  <2>2. types \in Seq(Types) /\ \A i \in DOMAIN types : types[i] = type[2]
    <3>1. type[2] \in Types
      BY <2>1
    <3>2. types \in Seq(Types) /\ DOMAIN types = 1 .. type[3]
          /\ \A i \in 1 .. type[3] : types[i] = type[2]
      BY <2>1, <3>1, RepeatedTypes
    <3> QED BY <3>2
  <2>3. ~IsDynamic[type[2]] /\ type[2] # Bool /\ ~EndsInBools[type[2]]
    BY <1>3, DynamicIs, EndsInBoolsCases
  <2>4. DynamicIn(types) = {} /\ Range(types) # {Bool}
    <3>1. Range(types) # {Bool}
      BY <2>1, <2>3, RepeatedRange
    <3> HIDE DEF types
    <3> QED BY <2>2, <2>3, <3>1 DEF DynamicIn
  <2>5. DecodeTuple(types, bytes, AbiDecode) # NoValue
    BY <1>1, <1>3 DEF DecodeAs
  <2>6. TupleSize(types, ByteLen) = ByteLen[type]
    BY <1>3, ArraySize
  <2> HIDE DEF types
  <2>7. \A i \in DOMAIN types : ~EndsInBools[types[i]] /\ OneLength(types[i])
    BY <2>1, <2>2, <2>3
  <2> QED BY <2>2, <2>4, <2>5, <2>6, <2>7, StaticTuple
<1>4. CASE type[1] = "tuple"
  <2> DEFINE types == type[2]
  <2>1. types \in Seq(S \cap Types)
    BY <1>4, CompositeCases
  <2>2. types \in Seq(Types) /\ \A i \in DOMAIN types : types[i] \in S \cap Types
    BY <2>1, ElementIs
  <2>3. DynamicIn(types) = {}
    BY <1>4, DynamicIs
  <2>4. Range(types) # {Bool} /\ \A i \in DOMAIN types : ~EndsInBools[types[i]]
    <3>1. \A i \in DOMAIN types : ~IsDynamic[types[i]]
      BY <2>3 DEF DynamicIn
    <3> QED BY <1>4, <3>1, EndsInBoolsCases
  <2>5. DecodeTuple(types, bytes, AbiDecode) # NoValue
    BY <1>1, <1>4 DEF DecodeAs
  <2>6. TupleSize(types, ByteLen) = ByteLen[type]
    BY <1>4, ByteLenCases
  <2> HIDE DEF types
  <2> QED BY <2>2, <2>3, <2>4, <2>5, <2>6, StaticTuple
<1> QED BY <1>2, <1>3, <1>4, CompositeCases

\* What is decoded with a simple type has one length.
LEMMA SimpleLength ==
  ASSUME NEW type \in SimpleTypes
  PROVE  OneLength(type)
<1> SUFFICES ASSUME ~IsDynamic[type], NEW bytes \in ByteStrings,
                    AbiDecode[type][bytes] # NoValue
             PROVE  Len(bytes) = ByteLen[type]
  BY DEF OneLength
<1>1. type \in Types
  BY SimpleTypesAreTypes
<1>2. AbiDecode[type][bytes] = DecodeAs(type, bytes, AbiDecode)
  BY <1>1, FunctionsAre
<1>3. type[1] # "string"
  BY <1>1, DynamicIs
<1>4. CASE type[1] = "uint"
  BY <1>1, <1>2, <1>4, ByteLenCases DEF DecodeAs
<1>5. CASE type[1] = "byte"
  BY <1>1, <1>2, <1>5, ByteLenCases DEF DecodeAs
<1>6. CASE type[1] = "address"
  BY <1>1, <1>2, <1>6, ByteLenCases DEF DecodeAs
<1>7. CASE type[1] = "bool"
  <2>1. DecodeBool(bytes) # NoValue
    BY <1>2, <1>7 DEF DecodeAs
  <2>2. bytes = <<Power[Bits - 1]>> \/ bytes = <<0>>
    BY <2>1 DEF DecodeBool
  <2>3. Len(bytes) = 1
    BY <2>2
  <2> QED BY <1>1, <1>7, <2>3, ByteLenCases
<1> QED BY <1>3, <1>4, <1>5, <1>6, <1>7, SimpleCases

\* decode of a static type gives a value only of as many bytes as the type has,
\* unless booleans are the last of it (abi_type.ts byteLen, decode).
THEOREM TypesOfOneLength == \A type \in Types : OneLength(type)
<1> DEFINE S == {type \in Types : OneLength(type)}
<1>1. SimpleTypes \subseteq S
  BY SimpleLength, SimpleTypesAreTypes
<1>2. \A t \in S : OneLength(t)
  OBVIOUS
<1>3. ASSUME NEW type \in TypesOf(S \cap Types), type \in Types
      PROVE  type \in S
  <2> HIDE DEF S
  <2>1. OneLength(type)
    BY <1>2, <1>3, CompositeLength
  <2> QED BY <1>3, <2>1 DEF S
<1>4. TypesOf(S \cap Types) \cap Types \subseteq S
  BY <1>3
<1> HIDE DEF S
<1>5. Types \subseteq S
  BY <1>1, <1>4, TypeInduction
<1> QED BY <1>2, <1>5

\* Other bytes: the last is missing, or there is one more.
Damaged(bytes, other) ==
  /\ bytes \in ByteStrings /\ other \in ByteStrings
  /\ Len(other) \in {Len(bytes) - 1, Len(bytes) + 1}
  /\ \A i \in 1 .. Len(bytes) : i <= Len(other) => other[i] = bytes[i]

\* What comes before the damage is the same.
LEMMA DamagedPart ==
  ASSUME NEW bytes, NEW other, Damaged(bytes, other), NEW m \in Nat, NEW k \in Nat,
         m + k <= Len(bytes), m + k <= Len(other)
  PROVE  SubSeq(other, m + 1, m + k) = SubSeq(bytes, m + 1, m + k)
<1> DEFINE D == 0 .. Base - 1
           t == SubSeq(bytes, m + 1, m + k)
<1>1. bytes \in Seq(D) /\ other \in Seq(D) /\ Len(bytes) \in Nat /\ Len(other) \in Nat
      /\ \A i \in 1 .. Len(bytes) : i <= Len(other) => other[i] = bytes[i]
  BY DEF Damaged, ByteStrings
<1> HIDE DEF D
<1>2. t \in Seq(D) /\ Len(t) = k /\ \A i \in 1 .. k : t[i] = bytes[m + i]
  BY <1>1, SliceOf
<1> HIDE DEF t
<1>3. \A i \in 1 .. k : other[m + i] = t[i]
  <2> SUFFICES ASSUME NEW i \in 1 .. k PROVE other[m + i] = t[i]
    OBVIOUS
  <2>1. m + i \in 1 .. Len(bytes) /\ m + i <= Len(other)
    BY <1>1
  <2> QED BY <1>1, <1>2, <2>1
<1>4. SubSeq(other, m + 1, m + Len(t)) = t
  BY <1>1, <1>2, <1>3, SliceIs
<1> QED BY <1>2, <1>4 DEF t

\* The rest of damaged bytes is damaged.
LEMMA DamagedRest ==
  ASSUME NEW bytes, NEW other, Damaged(bytes, other), NEW m \in Nat,
         m <= Len(bytes), m <= Len(other)
  PROVE  Damaged(SubSeq(bytes, m + 1, Len(bytes)), SubSeq(other, m + 1, Len(other)))
<1> DEFINE D == 0 .. Base - 1
           k == Len(bytes) - m
           l == Len(other) - m
           s == SubSeq(bytes, m + 1, m + k)
           t == SubSeq(other, m + 1, m + l)
<1>1. bytes \in Seq(D) /\ other \in Seq(D) /\ Len(bytes) \in Nat /\ Len(other) \in Nat
      /\ Len(other) \in {Len(bytes) - 1, Len(bytes) + 1}
      /\ \A i \in 1 .. Len(bytes) : i <= Len(other) => other[i] = bytes[i]
  BY DEF Damaged, ByteStrings
<1>2. k \in Nat /\ l \in Nat /\ m + k = Len(bytes) /\ m + l = Len(other) /\ l \in {k - 1, k + 1}
  BY <1>1
<1> HIDE DEF D, k, l
<1>3. s \in Seq(D) /\ Len(s) = k /\ \A i \in 1 .. k : s[i] = bytes[m + i]
  <2>1. m + k <= Len(bytes) /\ bytes \in Seq(D) /\ k \in Nat
    BY <1>1, <1>2
  <2> QED BY <2>1, SliceOf
<1>4. t \in Seq(D) /\ Len(t) = l /\ \A i \in 1 .. l : t[i] = other[m + i]
  <2>1. m + l <= Len(other) /\ other \in Seq(D) /\ l \in Nat
    BY <1>1, <1>2
  <2> QED BY <2>1, SliceOf
<1> HIDE DEF s, t
<1>5. ASSUME NEW i \in 1 .. Len(s), i <= Len(t) PROVE t[i] = s[i]
  <2>1. i \in 1 .. k /\ i \in 1 .. l
    BY <1>2, <1>3, <1>4, <1>5
  <2>2. m + i \in 1 .. Len(bytes) /\ m + i <= Len(other)
    BY <1>1, <1>2, <2>1
  <2> QED BY <1>1, <1>3, <1>4, <2>1, <2>2
<1>6. Damaged(s, t)
  BY <1>2, <1>3, <1>4, <1>5 DEF Damaged, ByteStrings, D
<1> QED BY <1>2, <1>6 DEF s, t

\* What is decoded of other bytes shows that they are others.
NotMissed(type) ==
  ~EndsInBools[type] =>
    \A value \in AbiValues : Fits[type][TRUE][value] =>
      \A other : Damaged(AbiEncode[type][value], other) => AbiDecode[type][other] = NoValue

\* Of the elements that end a tuple none ends in booleans.
NoBoolsAtEnd(types) ==
  /\ Range(types) # {Bool}
  /\ \A i \in DOMAIN types :
       (\A j \in DOMAIN types : j > i => ~IsDynamic[types[j]]) => ~EndsInBools[types[i]]

\* Where tails are is read of damaged bytes too.
LEMMA DamagedHeads ==
  ASSUME NEW types, NEW elements, NEW bytes, LaidOut(types, elements, bytes),
         NEW other, Damaged(bytes, other), HeadsAreThere(types, other)
  PROVE  TailPositions(types, other) = TailsOf(types, elements)
<1>1. types \in Seq(Types) /\ TupleSize(types, ByteLen) <= Len(bytes) /\ DOMAIN types = 1 .. Len(types)
      /\ TupleSize(types, ByteLen) \in Nat /\ Len(bytes) \in Nat
  BY Sizes
<1>2. ASSUME NEW i \in DynamicIn(types)
      PROVE  SubSeq(other, HeadPosition(types, i) + 1, HeadPosition(types, i) + LengthSize)
             = SubSeq(bytes, HeadPosition(types, i) + 1, HeadPosition(types, i) + LengthSize)
  <2>1. i \in 1 .. Len(types) /\ IsDynamic[types[i]] /\ HasHead(types, i)
    BY <1>1, DynamicHasHead
  <2>2. HeadPosition(types, i) + LengthSize <= Len(other)
    BY <1>1, <2>1 DEF HeadsAreThere
  <2>3. /\ HeadPosition(types, i) \in Nat /\ ByteLen[types[i]] \in Nat
        /\ HeadPosition(types, i) + ByteLen[types[i]] <= TupleSize(types, ByteLen)
    BY <1>1, <2>1, HeadStarts
  <2>4. ByteLen[types[i]] = LengthSize
    BY <1>1, <2>1, ElementIs, ByteLenCases
  <2>5. HeadPosition(types, i) + LengthSize <= Len(bytes) /\ LengthSize \in Nat
    BY <1>1, <2>3, <2>4
  <2> QED BY <2>2, <2>3, <2>5, DamagedPart, ZenonT(60)
<1>3. TailPositions(types, other) = TailPositions(types, bytes)
  BY <1>2 DEF TailPositions
<1> QED BY <1>3, TailsAreRead

\* If there is a dynamic type there is a last one.
LEMMA LastDynamic ==
  ASSUME NEW types \in Seq(Types), DynamicIn(types) # {}
  PROVE  \E d \in DynamicIn(types) : \A i \in DynamicIn(types) : i <= d
<1> DEFINE n == Len(types)
           Below == {n - i : i \in DynamicIn(types)}
<1>1. n \in Nat /\ DynamicIn(types) \subseteq 1 .. n
  BY ElementIs DEF DynamicIn
<1>2. Below \subseteq Nat /\ Below # {}
  BY <1>1
<1>3. PICK m \in Below : \A k \in Below : m <= k
  <2> HIDE DEF Below
  <2> QED BY <1>2, Least
<1>4. PICK d \in DynamicIn(types) : m = n - d
  OBVIOUS
<1>5. \A i \in DynamicIn(types) : n - d <= n - i
  BY <1>3, <1>4
<1> QED BY <1>1, <1>4, <1>5

\* Damage to a tuple does not go unnoticed, if it does not for the types inside.
LEMMA DamagedTuple ==
  ASSUME NEW types, NEW elements, Encodable(types, elements),
         ElementsFit(types, elements, TRUE, Fits),
         NoBoolsAtEnd(types), \A i \in DOMAIN types : NotMissed(types[i]),
         NEW other, Damaged(EncodeTuple(types, elements, AbiEncode), other)
  PROVE  DecodeTuple(types, other, AbiDecode) = NoValue
<1> SUFFICES ASSUME DecodeTuple(types, other, AbiDecode) # NoValue PROVE FALSE
  OBVIOUS
<1> DEFINE bytes == EncodeTuple(types, elements, AbiEncode)
           tails == TailsOf(types, elements)
<1>1. LaidOut(types, elements, bytes)
  <2>1. ElementsFit(types, elements, FALSE, Fits)
    BY StrictlyFits
  <2> QED BY <2>1, TupleEncoded DEF LaidOut
<1>2. Damaged(bytes, other)
  OBVIOUS
<1> HIDE DEF bytes, tails
<1>3. /\ types \in Seq(Types) /\ elements \in Seq(AbiValues) /\ DOMAIN types = 1 .. Len(types)
      /\ bytes \in ByteStrings /\ other \in ByteStrings
      /\ Len(bytes) \in Nat /\ Len(other) \in Nat /\ Len(other) \in {Len(bytes) - 1, Len(bytes) + 1}
  BY <1>1, <1>2, Sizes DEF Damaged, ByteStrings
<1>4. CASE DynamicIn(types) = {}
  <2>1. \A i \in DOMAIN types : ~EndsInBools[types[i]] /\ OneLength(types[i])
    <3>1. \A i \in DOMAIN types : ~IsDynamic[types[i]]
      BY <1>4 DEF DynamicIn
    <3>2. \A i \in DOMAIN types : OneLength(types[i])
      BY <1>3, ElementIs, TypesOfOneLength
    <3> QED BY <3>1, <3>2 DEF NoBoolsAtEnd
  <2>2. Len(other) = TupleSize(types, ByteLen)
    BY <1>3, <1>4, <2>1, StaticTuple DEF NoBoolsAtEnd
  <2>3. Len(bytes) = TupleSize(types, ByteLen)
    BY <1>1, <1>4, NoTails DEF LaidOut, IsLaidOut
  <2> QED BY <1>3, <2>2, <2>3
<1>5. CASE DynamicIn(types) # {}
  <2>1. PICK d \in DynamicIn(types) : \A i \in DynamicIn(types) : i <= d
    BY <1>3, <1>5, LastDynamic
  <2>2. d \in 1 .. Len(types) /\ IsDynamic[types[d]] /\ types[d] # Bool
    BY <1>3, DynamicHasHead
  <2>3. /\ HeadsAreThere(types, other) /\ TailsAreThere(types, other, TailPositions(types, other))
        /\ DecodeElement(types, other, TailPositions(types, other), d, AbiDecode) # NoValue
    BY <1>3, <2>2, TupleParts
  <2>4. TailPositions(types, other) = tails
    BY <1>1, <1>2, <2>3, DamagedHeads DEF tails
  <2>5. DOMAIN tails = DynamicIn(types) /\ tails[d] = TailStart(types, elements, d)
    BY DEF tails, TailsOf
  <2>6. \A length : TailEnd(tails, d, length) = length
    <3>1. {j \in DOMAIN tails : j > d} = {}
      <4>1. \A j \in DynamicIn(types) : j \in Int /\ j <= d
        BY <1>3, <2>1, DynamicHasHead
      <4> QED BY <2>2, <2>5, <4>1
    <3> QED BY <3>1 DEF TailEnd
  <2> DEFINE m == TailStart(types, elements, d)
             rest == SubSeq(bytes, m + 1, Len(bytes))
             part == SubSeq(other, m + 1, Len(other))
  <2>7. Part(types, other, tails, d) = part
    BY <2>5, <2>6 DEF Part
  <2>8. m \in Nat /\ m <= Len(other) /\ m <= Len(bytes)
    <3>1. m \in 0 .. MaxLen
      BY <1>1, <2>2 DEF LaidOut, IsLaidOut, DynamicLaidOut
    <3>2. m <= Len(other)
      BY <2>3, <2>4, <2>5 DEF TailsAreThere
    <3>3. m <= Len(bytes)
      <4>1. TailsAreThere(types, bytes, tails)
        BY <1>1, TailsThere DEF tails
      <4> QED BY <2>5, <4>1 DEF TailsAreThere
    <3> QED BY <3>1, <3>2, <3>3
  <2>9. rest = AbiEncode[types[d]][elements[d]]
    <3>1. Part(types, bytes, tails, d) = EncodedAt(types, elements, d)
      BY <1>1, DynamicPart DEF tails
    <3>2. Part(types, bytes, tails, d) = rest
      BY <2>5, <2>6 DEF Part
    <3>3. d \in DOMAIN elements
      BY <1>3, <2>2, ElementIs DEF ElementsFit
    <3>4. EncodedAt(types, elements, d) = AbiEncode[types[d]][elements[d]]
      BY <3>3 DEF EncodedAt, ElementAt
    <3> QED BY <3>1, <3>2, <3>4
  <2> HIDE DEF m
  <2>10. Damaged(rest, part)
    BY <1>2, <2>8, DamagedRest
  <2> HIDE DEF rest, part
  <2>11. AbiDecode[types[d]][part] = NoValue
    <3>1. \A j \in DOMAIN types : j > d => ~IsDynamic[types[j]]
      <4> SUFFICES ASSUME NEW j \in DOMAIN types, j > d, IsDynamic[types[j]] PROVE FALSE
        OBVIOUS
      <4>1. j \in DynamicIn(types)
        BY DEF DynamicIn
      <4>2. j <= d /\ j \in Int /\ d \in Int
        BY <1>3, <2>1, <2>2, <4>1
      <4> QED BY <4>2
    <3>2. ~EndsInBools[types[d]] /\ NotMissed(types[d])
      BY <1>3, <2>2, <3>1 DEF NoBoolsAtEnd
    <3>3. Fits[types[d]][TRUE][elements[d]] /\ elements[d] \in AbiValues
      <4>1. d \in DOMAIN elements /\ d \in DOMAIN types
        BY <1>3, <2>2, ElementIs DEF ElementsFit
      <4> QED BY <1>3, <4>1, ElementIs DEF ElementsFit
    <3> QED BY <2>9, <2>10, <3>2, <3>3 DEF NotMissed
  <2>12. DecodeElement(types, other, tails, d, AbiDecode) = AbiDecode[types[d]][part]
    BY <2>2, <2>7 DEF DecodeElement
  <2> QED BY <2>3, <2>4, <2>11, <2>12
<1> QED BY <1>4, <1>5

\* Bytes that come after their length, when they are others.
LEMMA DamagedPrefix ==
  ASSUME NEW n \in 0 .. MaxLen, NEW rest \in ByteStrings, NEW other,
         Damaged(BytesOf(n, LengthSize) \o rest, other), ~(Len(other) < LengthSize)
  PROVE  /\ BytesToBigInt(SubSeq(other, 1, LengthSize)) = n
         /\ Damaged(rest, SubSeq(other, LengthSize + 1, Len(other)))
         /\ Len(other) - LengthSize \in {Len(rest) - 1, Len(rest) + 1}
<1> DEFINE prefix == BytesOf(n, LengthSize)
           bytes == prefix \o rest
<1>1. prefix \in ByteStrings /\ Len(prefix) = LengthSize /\ BytesToBigInt(prefix) = n
  BY LengthIsRead
<1> HIDE DEF prefix
<1>2. /\ bytes \in ByteStrings /\ Len(bytes) = LengthSize + Len(rest) /\ Len(rest) \in Nat
      /\ SubSeq(bytes, 1, LengthSize) = prefix
      /\ SubSeq(bytes, LengthSize + 1, Len(bytes)) = rest
  BY <1>1, PrefixIs
<1>3. Damaged(bytes, other)
  BY DEF prefix
<1> HIDE DEF bytes
<1>4. Len(other) \in Nat /\ Len(bytes) \in Nat /\ Len(other) \in {Len(bytes) - 1, Len(bytes) + 1}
  BY <1>3 DEF Damaged, ByteStrings
<1>5. /\ LengthSize \in Nat /\ 0 \in Nat /\ 0 + LengthSize = LengthSize /\ 0 + 1 = 1
      /\ LengthSize <= Len(other) /\ LengthSize <= Len(bytes)
      /\ Len(other) - LengthSize \in {Len(rest) - 1, Len(rest) + 1}
  BY <1>2, <1>4 DEF LengthSize
<1>6. SubSeq(other, 0 + 1, 0 + LengthSize) = SubSeq(bytes, 0 + 1, 0 + LengthSize)
  <2>1. 0 + LengthSize <= Len(other) /\ 0 + LengthSize <= Len(bytes)
    BY <1>5
  <2> QED BY <1>3, <1>5, <2>1, DamagedPart
<1>7. Damaged(SubSeq(bytes, LengthSize + 1, Len(bytes)), SubSeq(other, LengthSize + 1, Len(other)))
  BY <1>3, <1>5, DamagedRest
<1> QED BY <1>1, <1>2, <1>5, <1>6, <1>7

\* Damage to a value of a simple type does not go unnoticed.
LEMMA SimpleNotMissed ==
  ASSUME NEW type \in SimpleTypes
  PROVE  NotMissed(type)
<1> SUFFICES ASSUME ~EndsInBools[type], NEW value \in AbiValues, Fits[type][TRUE][value],
                    NEW other, Damaged(AbiEncode[type][value], other),
                    AbiDecode[type][other] # NoValue
             PROVE  FALSE
  BY DEF NotMissed
<1> DEFINE bytes == AbiEncode[type][value]
<1>1. type \in Types
  BY SimpleTypesAreTypes
<1>2. bytes \in ByteStrings /\ Len(bytes) = EncodedSize[type][value]
  <2>1. Fits[type][FALSE][value] /\ bytes \in ByteStrings \cup {NoBytes}
        /\ (bytes # NoBytes <=> Fits[type][FALSE][value])
        /\ (bytes # NoBytes => Len(bytes) = EncodedSize[type][value])
    BY <1>1, TypesEncode DEF EncodesAll
  <2> QED BY <2>1
<1>3. /\ bytes = EncodeAs(type, value, AbiEncode)
      /\ FitsAs(type, value, TRUE, Fits)
  BY <1>1, FunctionsAre
<1>4. Damaged(bytes, other)
  OBVIOUS
<1> HIDE DEF bytes
<1>5. other \in ByteStrings /\ Len(other) # Len(bytes) /\ Len(other) \in Nat /\ Len(bytes) \in Nat
  BY <1>4 DEF Damaged, ByteStrings
<1>6. CASE ~IsDynamic[type]
  <2>1. Len(other) = ByteLen[type]
    BY <1>1, <1>5, <1>6, TypesOfOneLength DEF OneLength
  <2>2. Len(bytes) = ByteLen[type]
    BY <1>1, <1>2, <1>6, StaticSize
  <2> QED BY <1>5, <2>1, <2>2
<1>7. CASE IsDynamic[type]
  <2>1. type[1] = "string"
    BY <1>1, <1>7, SimpleCases, DynamicIs
  <2> DEFINE text == value[2]
  <2>2. value[1] \in {"string", "bytes"} /\ Len(text) <= MaxLen
    BY <1>3, <2>1 DEF FitsAs
  <2>3. /\ text \in ByteStrings
        /\ bytes = SubSeq(BigIntToBytes(Len(text), LengthSize), 1, LengthSize) \o text
    <3>1. bytes = EncodeString(value)
      BY <1>3, <2>1 DEF EncodeAs
    <3> QED BY <2>2, <3>1, StringEncoded
  <2>4. Len(text) \in 0 .. MaxLen
    BY <2>2, <2>3, BaseIs DEF ByteStrings
  <2> HIDE DEF text
  <2>5. bytes = BytesOf(Len(text), LengthSize) \o text
    <3> DEFINE prefix == BytesOf(Len(text), LengthSize)
    <3>1. prefix \in ByteStrings /\ Len(prefix) = LengthSize
          /\ BigIntToBytes(Len(text), LengthSize) = prefix
      BY <2>4, LengthIsRead
    <3> HIDE DEF prefix
    <3>2. SubSeq(prefix, 1, LengthSize) = prefix
      BY <3>1 DEF ByteStrings, LengthSize
    <3> QED BY <2>3, <3>1, <3>2 DEF prefix
  <2>6. DecodeString(other) # NoValue
    <3>1. AbiDecode[type][other] = DecodeAs(type, other, AbiDecode)
      BY <1>1, <1>5, FunctionsAre
    <3> QED BY <2>1, <3>1 DEF DecodeAs
  <2>7. Len(other) >= LengthSize /\ BytesToBigInt(SubSeq(other, 1, LengthSize)) = Len(other) - LengthSize
    BY <2>6 DEF DecodeString
  <2>8. /\ BytesToBigInt(SubSeq(other, 1, LengthSize)) = Len(text)
        /\ Len(other) - LengthSize \in {Len(text) - 1, Len(text) + 1}
    <3>1. ~(Len(other) < LengthSize)
      BY <1>5, <2>7 DEF LengthSize
    <3>2. Damaged(BytesOf(Len(text), LengthSize) \o text, other)
      BY <1>4, <2>5
    <3>3. text \in ByteStrings
      BY <2>3
    <3> DEFINE n == Len(text)
    <3>4. n \in 0 .. MaxLen
      BY <2>4
    <3>5. Damaged(BytesOf(n, LengthSize) \o text, other)
      BY <3>2
    <3> HIDE DEF n
    <3>6. /\ BytesToBigInt(SubSeq(other, 1, LengthSize)) = n
          /\ Len(other) - LengthSize \in {Len(text) - 1, Len(text) + 1}
      BY <3>1, <3>3, <3>4, <3>5, DamagedPrefix
    <3> QED BY <3>6 DEF n
  <2> QED BY <2>4, <2>7, <2>8
<1>8. IsDynamic[type] \in BOOLEAN
  BY <1>1, DynamicIs
<1> QED BY <1>6, <1>7

\* The elements of an array or a list that does not end in booleans.
LEMMA RepeatedNoBools ==
  ASSUME NEW type \in Types, type # Bool, ~EndsInBools[type], NEW n \in Nat
  PROVE  NoBoolsAtEnd(Repeated(type, n))
<1>1. \A i \in DOMAIN Repeated(type, n) : Repeated(type, n)[i] = type
  BY DEF Repeated
<1> QED BY <1>1, RepeatedRange DEF NoBoolsAtEnd

\* Damage does not go unnoticed, if it does not for the types inside.
LEMMA CompositeNotMissed ==
  ASSUME NEW S, \A t \in S : NotMissed(t), NEW type \in TypesOf(S \cap Types), type \in Types
  PROVE  NotMissed(type)
<1> SUFFICES ASSUME ~EndsInBools[type], NEW value \in AbiValues, Fits[type][TRUE][value],
                    NEW other, Damaged(AbiEncode[type][value], other)
             PROVE  AbiDecode[type][other] = NoValue
  BY DEF NotMissed
<1> DEFINE types == ElementTypesOf(type, value)
           elements == ElementsOf(value)
           bytes == EncodeTuple(types, elements, AbiEncode)
           encoded == AbiEncode[type][value]
<1>1. IsComposite(type)
  BY CompositeCases DEF IsComposite
<1>2. IsList(value) /\ (type[1] = "array" => Len(elements) = type[3])
      /\ ElementsFit(types, elements, TRUE, Fits)
  BY <1>1, CompositeFits
<1>3. /\ types \in Seq(S \cap Types) /\ elements \in Seq(AbiValues)
      /\ type[1] = "tuple" => types = type[2]
      /\ type[1] # "tuple" => types = Repeated(type[2], Len(elements))
  BY <1>2, ElementTypesAre
<1>4. Len(elements) \in 0 .. MaxLen
  <2>1. Len(elements) <= MaxLen /\ Len(elements) \in Nat
    BY <1>2, <1>3, ElementIs DEF ElementsFit
  <2> QED BY <2>1, BaseIs
<1>5. Encodable(types, elements) /\ \A i \in DOMAIN types : NotMissed(types[i])
  <2>1. types \in Seq(Types)
    BY <1>3
  <2>2. \A i \in DOMAIN types : types[i] \in S \cap Types
    BY <1>3, ElementIs
  <2> QED BY <1>3, <2>1, <2>2, TypesEncode DEF Encodable
<1>6. bytes \in ByteStrings
  <2>1. ElementsFit(types, elements, FALSE, Fits)
    BY <1>2, <1>5, StrictlyFits
  <2> HIDE DEF types, elements
  <2> QED BY <1>5, <2>1, TupleEncoded
<1>7. NoBoolsAtEnd(types)
  <2>1. CASE type[1] = "tuple"
    BY <1>3, <2>1, EndsInBoolsCases DEF NoBoolsAtEnd
  <2>2. CASE type[1] \in {"array", "list"}
    <3>1. type[2] \in Types /\ type[2] # Bool /\ ~EndsInBools[type[2]]
      BY <2>2, CompositeCases, EndsInBoolsCases
    <3>2. types = Repeated(type[2], Len(elements)) /\ Len(elements) \in Nat
      BY <1>3, <1>4, <2>2, BaseIs
    <3> HIDE DEF types, elements
    <3> QED BY <3>1, <3>2, RepeatedNoBools
  <2> QED BY <1>1, <2>1, <2>2 DEF IsComposite
<1>8. \A rest : Damaged(bytes, rest) => DecodeTuple(types, rest, AbiDecode) = NoValue
  <2> HIDE DEF types, elements
  <2> QED BY <1>2, <1>5, <1>7, DamagedTuple
<1>9. /\ type[1] = "array" => encoded = bytes
      /\ type[1] = "list" => encoded = BigIntToBytes(Len(elements), LengthSize) \o bytes
      /\ type[1] = "tuple" => encoded = bytes
  <2>1. bytes # NoBytes
    BY <1>6, NoBytesAreNone
  <2> QED BY <1>1, <1>2, <2>1, CompositeIs
<1>10. Damaged(encoded, other)
  OBVIOUS
<1> HIDE DEF types, elements, bytes, encoded
<1>11. AbiDecode[type][other] = DecodeAs(type, other, AbiDecode)
  BY <1>10, FunctionsAre DEF Damaged
<1>12. CASE type[1] = "array"
  <2>1. types = Repeated(type[2], type[3])
    BY <1>2, <1>3, <1>12
  <2> QED BY <1>8, <1>9, <1>10, <1>11, <1>12, <2>1 DEF DecodeAs
<1>13. CASE type[1] = "tuple"
  BY <1>3, <1>8, <1>9, <1>10, <1>11, <1>13 DEF DecodeAs
<1>14. CASE type[1] = "list"
  <2>1. AbiDecode[type][other] = DecodeList(type[2], other, AbiDecode)
    BY <1>11, <1>14 DEF DecodeAs
  <2>2. CASE Len(other) < LengthSize
    BY <2>1, <2>2 DEF DecodeList
  <2>3. CASE ~(Len(other) < LengthSize)
    <3>1. Damaged(BytesOf(Len(elements), LengthSize) \o bytes, other)
      BY <1>4, <1>9, <1>10, <1>14, LengthIsRead
    <3>2. /\ BytesToBigInt(SubSeq(other, 1, LengthSize)) = Len(elements)
          /\ Damaged(bytes, SubSeq(other, LengthSize + 1, Len(other)))
      BY <1>4, <1>6, <2>3, <3>1, DamagedPrefix
    <3>3. types = Repeated(type[2], Len(elements))
      BY <1>3, <1>14
    <3> QED BY <1>8, <2>1, <2>3, <3>2, <3>3 DEF DecodeList
  <2> QED BY <2>2, <2>3
<1> QED BY <1>1, <1>12, <1>13, <1>14 DEF IsComposite

\* Of a type that does not end in booleans no value is read of other bytes.
THEOREM TypesAreNotMissed == \A type \in Types : NotMissed(type)
<1> DEFINE S == {type \in Types : NotMissed(type)}
<1>1. SimpleTypes \subseteq S
  BY SimpleNotMissed, SimpleTypesAreTypes
<1>2. \A t \in S : NotMissed(t)
  OBVIOUS
<1>3. ASSUME NEW type \in TypesOf(S \cap Types), type \in Types
      PROVE  type \in S
  <2> HIDE DEF S
  <2>1. NotMissed(type)
    BY <1>2, <1>3, CompositeNotMissed
  <2> QED BY <1>3, <2>1 DEF S
<1>4. TypesOf(S \cap Types) \cap Types \subseteq S
  BY <1>3
<1> HIDE DEF S
<1>5. Types \subseteq S
  BY <1>1, <1>4, TypeInduction
<1> QED BY <1>2, <1>5

-----------------------------------------------------------------------------
(* Texts: the parentheses of a text, and the strings that it is parsed into *)

\* There is a function that does what toString does, and it is chosen.
LEMMA TextOfIs ==
  TextOf = [type \in Types |-> TextAs(type, TextOf)]
<1> DEFINE D(f, type) == TextAs(type, f)
           Is(f, S) == f = [type \in S |-> D(f, type)]
<1>1. ASSUME NEW type \in SimpleTypes, NEW f, NEW h PROVE D(f, type) = D(h, type)
  <2>1. type[1] \notin {"array", "list", "tuple"}
    BY SimpleCases
  <2> QED BY <2>1 DEF TextAs
<1>2. ASSUME NEW parts, NEW type \in TypesOf(parts), NEW f, NEW h,
             \A p \in parts : f[p] = h[p]
      PROVE  D(f, type) = D(h, type)
  <2>1. type[1] \in {"array", "list"} => f[type[2]] = h[type[2]]
    BY <1>2, CompositeCases
  <2>2. type[1] = "tuple" => [i \in DOMAIN type[2] |-> f[type[2][i]]]
                             = [i \in DOMAIN type[2] |-> h[type[2][i]]]
    BY <1>2, CompositeCases, ElementIs
  <2> QED BY <2>1, <2>2, CompositeCases DEF TextAs
<1>3. \E f : Is(f, Types)
  <2> HIDE DEF D
  <2> DEFINE Good == {d \in 0 .. MaxDepth : \E f : Is(f, TypesTo[d])}
  <2>1. 0 \in Good
    <3> DEFINE f == [type \in SimpleTypes |-> D(0, type)]
    <3>1. \A type \in SimpleTypes : f[type] = D(f, type)
      BY <1>1
    <3>2. f = [type \in SimpleTypes |-> f[type]]
      OBVIOUS
    <3> HIDE DEF f
    <3>3. Is(f, TypesTo[0])
      BY <3>1, <3>2, TypesToIs
    <3> QED BY <3>3, DepthIs
  <2>2. ASSUME NEW d \in 1 .. MaxDepth, d - 1 \in Good PROVE d \in Good
    <3>1. \E f : Is(f, TypesTo[d - 1])
      BY <2>2
    <3> HIDE DEF Is
    <3>2. PICK f : Is(f, TypesTo[d - 1])
      BY <3>1
    <3> USE DEF Is
    <3> DEFINE h == [type \in TypesTo[d] |-> D(f, type)]
    <3>3. /\ TypesTo[d - 1] \subseteq TypesTo[d]
          /\ TypesTo[d] = SimpleTypes \cup TypesOf(TypesTo[d - 1])
      BY TypesNested
    <3>4. \A type \in TypesTo[d - 1] : f[type] = h[type]
      BY <3>2, <3>3
    <3>5. \A type \in TypesTo[d] : h[type] = D(f, type)
      OBVIOUS
    <3>6. h = [type \in TypesTo[d] |-> h[type]]
      OBVIOUS
    <3> HIDE DEF h
    <3>7. \A type \in TypesTo[d] : D(f, type) = D(h, type)
      BY <1>1, <1>2, <3>3, <3>4
    <3>8. Is(h, TypesTo[d])
      BY <3>5, <3>6, <3>7
    <3> QED BY <3>8
  <2>3. 0 .. MaxDepth \subseteq Good
    <3> HIDE DEF Good
    <3> QED BY <2>1, <2>2, DepthIs, InductionUpTo
  <2>4. MaxDepth \in Good
    BY <2>3, DepthIs
  <2> QED BY <2>4 DEF Types
<1>4. TextOf = CHOOSE f : Is(f, Types)
  BY DEF TextOf
<1>5. Is(TextOf, Types)
  <2> HIDE DEF Is
  <2> QED BY <1>3, <1>4
<1> QED BY <1>5

\* How many parentheses are open, word by word.
LEMMA DepthIsCounted ==
  ASSUME NEW text \in Seq(Words)
  PROVE  /\ DepthAfter(text, 0) = 0
         /\ \A n \in 1 .. Len(text) :
              DepthAfter(text, n) = DepthAfter(text, n - 1) + Opens(text[n])
         /\ \A n \in 0 .. Len(text) : DepthAfter(text, n) \in Int
<1> DEFINE opens == [i \in DOMAIN text |-> Opens(text[i])]
<1>1. Len(text) \in Nat /\ \A i \in 1 .. Len(text) : opens[i] = Opens(text[i]) /\ opens[i] \in Int
  BY DEF Opens
<1>2. \A n : DepthAfter(text, n) = Total(opens, n)
  BY DEF DepthAfter
<1> HIDE DEF opens
<1> QED BY <1>1, <1>2, TotalSteps

\* Where a text continues with another one, so does the count.
LEMMA DepthGoesOn ==
  ASSUME NEW text \in Seq(Words), NEW m \in Nat, NEW t \in Seq(Words),
         m + Len(t) <= Len(text), \A k \in 1 .. Len(t) : text[m + k] = t[k]
  PROVE  \A k \in 0 .. Len(t) : DepthAfter(text, m + k) = DepthAfter(text, m) + DepthAfter(t, k)
<1>1. Len(t) \in Nat /\ Len(text) \in Nat
  OBVIOUS
<1>2. DepthAfter(text, m) \in Int /\ DepthAfter(t, 0) = 0
  <2>1. m \in 0 .. Len(text)
    BY <1>1
  <2> QED BY <2>1, DepthIsCounted
<1> DEFINE Same == {k \in 0 .. Len(t) : DepthAfter(text, m + k) = DepthAfter(text, m) + DepthAfter(t, k)}
<1>3. 0 \in Same
  <2>1. m + 0 = m
    OBVIOUS
  <2> QED BY <1>1, <1>2, <2>1
<1>4. ASSUME NEW k \in 1 .. Len(t), k - 1 \in Same PROVE k \in Same
  <2>1. m + k \in 1 .. Len(text) /\ (m + k) - 1 = m + (k - 1) /\ k - 1 \in 0 .. Len(t)
    BY <1>1
  <2>2. DepthAfter(text, m + k) = DepthAfter(text, m + (k - 1)) + Opens(t[k])
    BY <2>1, DepthIsCounted
  <2>3. DepthAfter(t, k) = DepthAfter(t, k - 1) + Opens(t[k]) /\ DepthAfter(t, k - 1) \in Int
    BY <2>1, DepthIsCounted
  <2>4. DepthAfter(text, m + (k - 1)) = DepthAfter(text, m) + DepthAfter(t, k - 1)
    BY <1>4
  <2>5. Opens(t[k]) \in Int
    BY DEF Opens
  <2> QED BY <1>2, <2>2, <2>3, <2>4, <2>5
<1>5. 0 .. Len(t) \subseteq Same
  <2> HIDE DEF Same
  <2> QED BY <1>1, <1>3, <1>4, InductionUpTo
<1> QED BY <1>5

\* A function that goes on with each word is that of Parsed.
LEMMA ParsedIs ==
  ASSUME NEW n \in Nat, NEW text, NEW f, f[0] = [strings |-> <<>>, word |-> <<>>],
         \A i \in 1 .. n : f[i] = ParseWord(f[i - 1], text, i)
  PROVE  Parsed(text, n) = f[n]
<1> DEFINE Parses(t) == t = [i \in 0 .. n |-> IF i = 0 THEN [strings |-> <<>>, word |-> <<>>]
                                              ELSE ParseWord(t[i - 1], text, i)]
           t0 == CHOOSE t : Parses(t)
<1>1. Parsed(text, n) = t0[n]
  BY DEF Parsed
<1>2. \E t : Parses(t)
  <2> DEFINE u == [i \in 0 .. n |-> f[i]]
  <2>1. ASSUME NEW i \in 0 .. n
        PROVE  u[i] = IF i = 0 THEN [strings |-> <<>>, word |-> <<>>]
                      ELSE ParseWord(u[i - 1], text, i)
    <3>1. CASE i = 0
      BY <3>1
    <3>2. CASE i # 0
      <4>1. i \in 1 .. n /\ i - 1 \in 0 .. n
        BY <3>2
      <4> QED BY <3>2, <4>1
    <3> QED BY <3>1, <3>2
  <2>2. u = [i \in 0 .. n |-> u[i]]
    OBVIOUS
  <2> HIDE DEF u
  <2>3. Parses(u)
    BY <2>1, <2>2
  <2> QED BY <2>3
<1>3. Parses(t0)
  <2> HIDE DEF Parses
  <2> QED BY <1>2
<1> DEFINE Same == {i \in 0 .. n : t0[i] = f[i]}
<1> HIDE DEF t0
<1>4. 0 \in Same
  BY <1>3
<1>5. ASSUME NEW i \in 1 .. n, i - 1 \in Same PROVE i \in Same
  <2>1. t0[i] = ParseWord(t0[i - 1], text, i)
    BY <1>3
  <2> QED BY <1>5, <2>1
<1>6. 0 .. n \subseteq Same
  <2> HIDE DEF Same
  <2> QED BY <1>4, <1>5, InductionUpTo
<1> QED BY <1>1, <1>6

\* What the parser keeps while it goes through a text.
ParsedTexts == [strings : Seq(Seq(Words)), word : Seq(Words)]

\* Parsed goes on with each word.
LEMMA ParsedSteps ==
  ASSUME NEW text \in Seq(Words)
  PROVE  /\ Parsed(text, 0) = [strings |-> <<>>, word |-> <<>>]
         /\ \A n \in 1 .. Len(text) : Parsed(text, n) = ParseWord(Parsed(text, n - 1), text, n)
         /\ \A n \in 0 .. Len(text) : Parsed(text, n) \in ParsedTexts
<1> DEFINE W == Seq(Words)
           start == [strings |-> <<>>, word |-> <<>>]
           g == [p \in Nat \X ParsedTexts |->
                   IF p[1] + 1 \in 1 .. Len(text) THEN ParseWord(p[2], text, p[1] + 1) ELSE p[2]]
<1>1. start \in ParsedTexts
  <2>1. <<>> \in W /\ <<>> \in Seq(W)
    OBVIOUS
  <2> HIDE DEF W
  <2> QED BY <2>1 DEF ParsedTexts, W
<1>2. ASSUME NEW parsed \in ParsedTexts, NEW i \in 1 .. Len(text)
      PROVE  ParseWord(parsed, text, i) \in ParsedTexts
  <2>1. /\ parsed.strings \in Seq(W) /\ parsed.word \in Seq(Words) /\ text[i] \in Words
        /\ parsed = [strings |-> parsed.strings, word |-> parsed.word]
    BY DEF ParsedTexts
  <2>2. <<>> \in W /\ Append(parsed.word, text[i]) \in W
    BY <2>1
  <2>3. Append(parsed.strings, parsed.word) \in Seq(W)
    <3> HIDE DEF W
    <3>1. parsed.word \in W
      BY <2>1 DEF W
    <3> QED BY <2>1, <3>1
  <2>4. CASE IsSeparator(text, i)
    BY <2>2, <2>3, <2>4 DEF ParseWord, ParsedTexts
  <2>5. CASE ~IsSeparator(text, i)
    <3>1. ParseWord(parsed, text, i)
            = [strings |-> parsed.strings, word |-> Append(parsed.word, text[i])]
      BY <2>1, <2>5 DEF ParseWord
    <3> QED BY <2>1, <2>2, <3>1 DEF ParsedTexts
  <2> QED BY <2>4, <2>5
<1>3. g \in [Nat \X ParsedTexts -> ParsedTexts]
  <2>1. ASSUME NEW p \in Nat \X ParsedTexts
        PROVE  (IF p[1] + 1 \in 1 .. Len(text) THEN ParseWord(p[2], text, p[1] + 1) ELSE p[2])
                 \in ParsedTexts
    <3>1. p[2] \in ParsedTexts
      OBVIOUS
    <3> QED BY <1>2, <3>1
  <2> QED BY <2>1
<1>4. ASSUME NEW i \in 1 .. Len(text), NEW parsed \in ParsedTexts
      PROVE  g[<<i - 1, parsed>>] = ParseWord(parsed, text, i)
  <2>1. <<i - 1, parsed>> \in Nat \X ParsedTexts /\ (i - 1) + 1 = i
    OBVIOUS
  <2> QED BY <2>1
<1> HIDE DEF g, start
<1>5. PICK f : Follows(f, ParsedTexts, start, g)
  BY <1>1, <1>3, RecursionOnNat
<1>6. f \in [Nat -> ParsedTexts] /\ f[0] = start /\ \A k \in Nat : f[k + 1] = g[<<k, f[k]>>]
  BY <1>5 DEF Follows
<1>7. ASSUME NEW i \in 1 .. Len(text) PROVE f[i] = ParseWord(f[i - 1], text, i)
  <2>1. i - 1 \in Nat /\ (i - 1) + 1 = i /\ f[i - 1] \in ParsedTexts
    BY <1>6
  <2> QED BY <1>4, <1>6, <2>1
<1>8. ASSUME NEW n \in 0 .. Len(text) PROVE Parsed(text, n) = f[n]
  <2>1. n \in Nat /\ \A k \in 1 .. n : f[k] = ParseWord(f[k - 1], text, k)
    BY <1>7
  <2> QED BY <1>6, <2>1, ParsedIs, SMTT(30) DEF start
<1>9. Len(text) \in Nat /\ \A n \in 1 .. Len(text) : n \in 0 .. Len(text) /\ n - 1 \in 0 .. Len(text)
  OBVIOUS
<1> QED BY <1>6, <1>7, <1>8, <1>9 DEF start

\* What the same words are parsed into.
LEMMA ParsedOfSame ==
  ASSUME NEW u \in Seq(Words), NEW v \in Seq(Words), NEW n \in Nat, n <= Len(u), n <= Len(v),
         \A i \in 1 .. n : u[i] = v[i]
  PROVE  \A i \in 0 .. n : DepthAfter(u, i) = DepthAfter(v, i) /\ Parsed(u, i) = Parsed(v, i)
<1>1. \A i \in 1 .. n : i \in 1 .. Len(u) /\ i \in 1 .. Len(v)
  OBVIOUS
<1>2. /\ DepthAfter(u, 0) = 0 /\ Parsed(u, 0) = [strings |-> <<>>, word |-> <<>>]
      /\ \A i \in 1 .. n : /\ DepthAfter(u, i) = DepthAfter(u, i - 1) + Opens(u[i])
                           /\ Parsed(u, i) = ParseWord(Parsed(u, i - 1), u, i)
  BY <1>1, DepthIsCounted, ParsedSteps
<1>3. /\ DepthAfter(v, 0) = 0 /\ Parsed(v, 0) = [strings |-> <<>>, word |-> <<>>]
      /\ \A i \in 1 .. n : /\ DepthAfter(v, i) = DepthAfter(v, i - 1) + Opens(v[i])
                           /\ Parsed(v, i) = ParseWord(Parsed(v, i - 1), v, i)
  BY <1>1, DepthIsCounted, ParsedSteps
<1> DEFINE Same == {i \in 0 .. n : DepthAfter(u, i) = DepthAfter(v, i) /\ Parsed(u, i) = Parsed(v, i)}
<1>4. 0 \in Same
  BY <1>2, <1>3
<1>5. ASSUME NEW i \in 1 .. n, i - 1 \in Same PROVE i \in Same
  <2>1. DepthAfter(u, i - 1) = DepthAfter(v, i - 1) /\ Parsed(u, i - 1) = Parsed(v, i - 1)
    BY <1>5
  <2>2. DepthAfter(u, i) = DepthAfter(v, i)
    BY <1>2, <1>3, <2>1
  <2>3. IsSeparator(u, i) <=> IsSeparator(v, i)
    BY <2>2 DEF IsSeparator
  <2>4. ParseWord(Parsed(u, i - 1), u, i) = ParseWord(Parsed(v, i - 1), v, i)
    BY <2>1, <2>3 DEF ParseWord
  <2> QED BY <1>2, <1>3, <2>2, <2>4
<1>6. 0 .. n \subseteq Same
  <2> HIDE DEF Same
  <2> QED BY <1>4, <1>5, InductionUpTo
<1> QED BY <1>6

-----------------------------------------------------------------------------
(* Reading a text *)

\* A sequence with one more element.
LEMMA AppendIs ==
  ASSUME NEW S, NEW s \in Seq(S), NEW e \in S
  PROVE  /\ Append(s, e) \in Seq(S) /\ Len(Append(s, e)) = Len(s) + 1
         /\ \A i \in 1 .. Len(s) : Append(s, e)[i] = s[i]
         /\ Append(s, e)[Len(s) + 1] = e
         /\ \A i \in DOMAIN Append(s, e) : i \in 1 .. Len(s) \/ i = Len(s) + 1
OBVIOUS

\* What a text is parsed into is no longer than the text.
LEMMA StringsAreShort ==
  ASSUME NEW text \in Seq(Words)
  PROVE  /\ ParseTupleContent(text) \in Seq(Seq(Words))
         /\ \A i \in DOMAIN ParseTupleContent(text) : Len(ParseTupleContent(text)[i]) <= Len(text)
<1> DEFINE W == Seq(Words)
           Short(parsed, n) ==
             /\ Len(parsed.word) <= n
             /\ \A i \in DOMAIN parsed.strings : Len(parsed.strings[i]) <= n
           Good == {n \in 0 .. Len(text) : Short(Parsed(text, n), n)}
<1>1. Len(text) \in Nat /\ \A n \in 1 .. Len(text) : n \in Nat /\ n - 1 \in 0 .. Len(text)
  OBVIOUS
<1>2. ASSUME NEW n \in 0 .. Len(text)
      PROVE  /\ Parsed(text, n) \in ParsedTexts
             /\ Parsed(text, n).strings \in Seq(W) /\ Parsed(text, n).word \in Seq(Words)
  BY ParsedSteps DEF ParsedTexts
<1>3. 0 \in Good
  <2>1. Parsed(text, 0) = [strings |-> <<>>, word |-> <<>>]
    BY ParsedSteps
  <2>2. Parsed(text, 0).word = <<>> /\ Parsed(text, 0).strings = <<>>
    BY <2>1
  <2> QED BY <1>1, <2>2
<1>4. ASSUME NEW n \in 1 .. Len(text), n - 1 \in Good PROVE n \in Good
  <2> DEFINE parsed == Parsed(text, n - 1)
             after == Parsed(text, n)
  <2>1. after = ParseWord(parsed, text, n)
    BY ParsedSteps
  <2>2. /\ parsed.strings \in Seq(W) /\ parsed.word \in Seq(Words)
        /\ parsed = [strings |-> parsed.strings, word |-> parsed.word]
    BY <1>1, <1>2 DEF ParsedTexts
  <2>3. /\ Len(parsed.word) <= n - 1 /\ Len(parsed.word) \in Nat
        /\ \A i \in DOMAIN parsed.strings : Len(parsed.strings[i]) <= n - 1
    BY <1>4, <2>2
  <2>4. \A i \in DOMAIN parsed.strings : Len(parsed.strings[i]) \in Nat
    BY <2>2
  <2> HIDE DEF W, after, parsed
  <2>5. parsed.word \in W
    BY <2>2 DEF W
  <2>6. CASE IsSeparator(text, n)
    <3>1. after.word = <<>> /\ after.strings = Append(parsed.strings, parsed.word)
      BY <2>1, <2>6 DEF ParseWord
    <3>2. \A i \in DOMAIN after.strings :
            after.strings[i] = parsed.word
              \/ (i \in DOMAIN parsed.strings /\ after.strings[i] = parsed.strings[i])
      <4>1. /\ \A i \in 1 .. Len(parsed.strings) : after.strings[i] = parsed.strings[i]
            /\ after.strings[Len(parsed.strings) + 1] = parsed.word
            /\ \A i \in DOMAIN after.strings :
                 i \in 1 .. Len(parsed.strings) \/ i = Len(parsed.strings) + 1
        BY <2>2, <2>5, <3>1, AppendIs
      <4>2. DOMAIN parsed.strings = 1 .. Len(parsed.strings)
        BY <2>2, ElementIs
      <4>3. ASSUME NEW i \in DOMAIN after.strings
            PROVE  after.strings[i] = parsed.word
                     \/ (i \in DOMAIN parsed.strings /\ after.strings[i] = parsed.strings[i])
        <5>1. CASE i \in 1 .. Len(parsed.strings)
          BY <4>1, <4>2, <5>1
        <5>2. CASE i = Len(parsed.strings) + 1
          BY <4>1, <5>2
        <5> QED BY <4>1, <5>1, <5>2
      <4> QED BY <4>3
    <3>3. \A i \in DOMAIN after.strings : Len(after.strings[i]) <= n
      BY <1>1, <2>3, <2>4, <3>2
    <3>4. Len(after.word) <= n
      BY <3>1
    <3> QED BY <1>1, <3>3, <3>4 DEF after
  <2>7. CASE ~IsSeparator(text, n)
    <3>1. after = [strings |-> parsed.strings, word |-> Append(parsed.word, text[n])]
      BY <2>1, <2>2, <2>7 DEF ParseWord
    <3>2. after.strings = parsed.strings /\ after.word = Append(parsed.word, text[n])
      BY <3>1
    <3>3. Len(after.word) <= n
      BY <2>2, <2>3, <3>2
    <3>4. \A i \in DOMAIN after.strings : Len(after.strings[i]) <= n
      BY <1>1, <2>3, <2>4, <3>2
    <3> QED BY <1>1, <3>3, <3>4 DEF after
  <2> QED BY <2>6, <2>7
<1>5. Len(text) \in Good
  <2>1. 0 .. Len(text) \subseteq Good
    <3> HIDE DEF Good
    <3> QED BY <1>1, <1>3, <1>4, InductionUpTo
  <2> QED BY <1>1, <2>1
<1> DEFINE parsed == Parsed(text, Len(text))
           strings == WithLast(parsed)
<1>6. /\ parsed.strings \in Seq(W) /\ parsed.word \in W
      /\ Len(parsed.word) <= Len(text)
      /\ \A i \in DOMAIN parsed.strings : Len(parsed.strings[i]) <= Len(text)
  BY <1>1, <1>2, <1>5
<1>7. strings = IF parsed.word = <<>> THEN parsed.strings ELSE Append(parsed.strings, parsed.word)
  BY DEF WithLast
<1>8. ParseTupleContent(text) = strings
  BY DEF ParseTupleContent
<1> HIDE DEF parsed, W, strings
<1>9. strings \in Seq(W) /\ \A i \in DOMAIN strings : Len(strings[i]) <= Len(text)
  BY <1>6, <1>7
<1> QED BY <1>8, <1>9 DEF W

\* What from does depends on what it does for shorter texts only.
LEMMA TypeFromIsLocal ==
  ASSUME NEW text \in Seq(Words), NEW f, NEW h,
         \A t \in Seq(Words) : Len(t) < Len(text) => f[t] = h[t]
  PROVE  TypeFrom(text, f) = TypeFrom(text, h)
<1> DEFINE n == Len(text)
<1>1. n \in Nat
  OBVIOUS
<1>2. EndsAsList(text) => f[SubSeq(text, 1, n - 2)] = h[SubSeq(text, 1, n - 2)]
  <2> SUFFICES ASSUME n > 2 PROVE f[SubSeq(text, 1, n - 2)] = h[SubSeq(text, 1, n - 2)]
    BY DEF EndsAsList
  <2>1. n - 2 \in Nat /\ 0 + (n - 2) <= n /\ 0 + (n - 2) = n - 2 /\ 0 \in Nat /\ n - 2 < n
    BY <1>1
  <2>2. SubSeq(text, 0 + 1, 0 + (n - 2)) \in Seq(Words) /\ Len(SubSeq(text, 0 + 1, 0 + (n - 2))) = n - 2
    BY <2>1, SliceOf
  <2> DEFINE start == SubSeq(text, 1, n - 2)
  <2>3. start \in Seq(Words) /\ Len(start) = n - 2
    BY <2>1, <2>2
  <2> HIDE DEF start
  <2>4. f[start] = h[start]
    BY <2>1, <2>3
  <2> QED BY <2>4 DEF start
<1>3. EndsAsArray(text) => f[SubSeq(text, 1, n - 3)] = h[SubSeq(text, 1, n - 3)]
  <2> SUFFICES ASSUME n > 3 PROVE f[SubSeq(text, 1, n - 3)] = h[SubSeq(text, 1, n - 3)]
    BY DEF EndsAsArray
  <2>1. n - 3 \in Nat /\ 0 + (n - 3) <= n /\ 0 + (n - 3) = n - 3 /\ 0 \in Nat /\ n - 3 < n
    BY <1>1
  <2>2. SubSeq(text, 0 + 1, 0 + (n - 3)) \in Seq(Words) /\ Len(SubSeq(text, 0 + 1, 0 + (n - 3))) = n - 3
    BY <2>1, SliceOf
  <2> DEFINE start == SubSeq(text, 1, n - 3)
  <2>3. start \in Seq(Words) /\ Len(start) = n - 3
    BY <2>1, <2>2
  <2> HIDE DEF start
  <2>4. f[start] = h[start]
    BY <2>1, <2>3
  <2> QED BY <2>4 DEF start
<1>4. IsInParentheses(text) => TupleFrom(SubSeq(text, 2, n - 1), f) = TupleFrom(SubSeq(text, 2, n - 1), h)
  <2> SUFFICES ASSUME n > 1
               PROVE  TupleFrom(SubSeq(text, 2, n - 1), f) = TupleFrom(SubSeq(text, 2, n - 1), h)
    BY DEF IsInParentheses
  <2> DEFINE content == SubSeq(text, 2, n - 1)
             texts == ParseTupleContent(content)
  <2>1. n - 2 \in Nat /\ 1 + (n - 2) <= n /\ 1 + (n - 2) = n - 1 /\ 1 \in Nat /\ 1 + 1 = 2
    BY <1>1
  <2>2. SubSeq(text, 1 + 1, 1 + (n - 2)) \in Seq(Words) /\ Len(SubSeq(text, 1 + 1, 1 + (n - 2))) = n - 2
    BY <2>1, SliceOf
  <2>3. content \in Seq(Words) /\ Len(content) = n - 2
    BY <2>1, <2>2
  <2> HIDE DEF content
  <2>4. /\ texts \in Seq(Seq(Words))
        /\ \A i \in DOMAIN texts : Len(texts[i]) <= Len(content)
    BY <2>3, StringsAreShort
  <2> HIDE DEF texts
  <2>5. ASSUME NEW i \in DOMAIN texts PROVE f[texts[i]] = h[texts[i]]
    <3>1. texts[i] \in Seq(Words) /\ Len(texts[i]) <= n - 2
      BY <2>3, <2>4
    <3>2. Len(texts[i]) < n
      BY <1>1, <3>1
    <3> QED BY <3>1, <3>2
  <2>6. [i \in DOMAIN texts |-> f[texts[i]]] = [i \in DOMAIN texts |-> h[texts[i]]]
    BY <2>5
  <2>7. TupleFrom(content, f) = TupleFrom(content, h)
    BY <2>6 DEF TupleFrom, texts
  <2> QED BY <2>7 DEF content
<1> QED BY <1>2, <1>3, <1>4 DEF TypeFrom

\* There is a function that does what from does, and it is chosen.
LEMMA FromIs ==
  From = [text \in Seq(Words) |-> TypeFrom(text, From)]
<1> DEFINE Shorter(n) == {text \in Seq(Words) : Len(text) < n}
           Is(f, S) == f = [text \in S |-> TypeFrom(text, f)]
<1>1. ASSUME NEW n \in Nat, NEW text \in Shorter(n + 1), NEW f, NEW h,
             \A t \in Shorter(n) : f[t] = h[t]
      PROVE  TypeFrom(text, f) = TypeFrom(text, h)
  <2>1. Len(text) \in Nat /\ Len(text) < n + 1
    OBVIOUS
  <2>2. \A t \in Seq(Words) : Len(t) < Len(text) => t \in Shorter(n)
    BY <2>1
  <2> QED BY <1>1, <2>2, TypeFromIsLocal
<1>2. ASSUME NEW n \in Nat, NEW f, NEW h, NEW m \in Nat, n <= m, Is(f, Shorter(n)), Is(h, Shorter(m))
      PROVE  \A text \in Shorter(n) : f[text] = h[text]
  <2> DEFINE Same == {k \in 0 .. n : \A text \in Shorter(k) : f[text] = h[text]}
  <2>1. 0 \in Same
    <3>1. Shorter(0) = {}
      OBVIOUS
    <3> QED BY <3>1
  <2>2. ASSUME NEW k \in 1 .. n, k - 1 \in Same PROVE k \in Same
    <3>1. k - 1 \in Nat /\ (k - 1) + 1 = k
      OBVIOUS
    <3>2. ASSUME NEW text \in Shorter(k) PROVE f[text] = h[text]
      <4>1. TypeFrom(text, f) = TypeFrom(text, h)
        BY <1>1, <2>2, <3>1
      <4>2. text \in Shorter(n) /\ text \in Shorter(m)
        <5>1. Len(text) \in Nat /\ Len(text) < k /\ k <= n /\ n <= m
          BY <1>2
        <5> QED BY <5>1
      <4>3. f[text] = TypeFrom(text, f) /\ h[text] = TypeFrom(text, h)
        BY <1>2, <4>2
      <4> QED BY <4>1, <4>3
    <3> QED BY <3>2
  <2>3. 0 .. n \subseteq Same
    <3> HIDE DEF Same
    <3> QED BY <2>1, <2>2, InductionUpTo
  <2> QED BY <2>3
<1> DEFINE Good == {n \in Nat : \E f : Is(f, Shorter(n))}
<1>3. 0 \in Good
  <2> DEFINE f == [text \in Shorter(0) |-> NoType]
  <2>1. Shorter(0) = {}
    OBVIOUS
  <2>2. Is(f, Shorter(0))
    BY <2>1
  <2> HIDE DEF Is
  <2> QED BY <2>2
<1>4. ASSUME NEW n \in Nat, n \in Good PROVE n + 1 \in Good
  <2>1. \E f : Is(f, Shorter(n))
    BY <1>4
  <2> HIDE DEF Is
  <2>2. PICK f : Is(f, Shorter(n))
    BY <2>1
  <2> USE DEF Is
  <2> DEFINE h == [text \in Shorter(n + 1) |-> TypeFrom(text, f)]
  <2>3. Shorter(n) \subseteq Shorter(n + 1)
    <3>1. \A text \in Seq(Words) : Len(text) \in Nat
      OBVIOUS
    <3> QED BY <3>1
  <2>4. \A text \in Shorter(n) : f[text] = h[text]
    BY <2>2, <2>3
  <2>5. h = [text \in Shorter(n + 1) |-> h[text]] /\ \A text \in Shorter(n + 1) : h[text] = TypeFrom(text, f)
    OBVIOUS
  <2> HIDE DEF h
  <2>6. \A text \in Shorter(n + 1) : TypeFrom(text, f) = TypeFrom(text, h)
    BY <1>1, <2>4
  <2>7. Is(h, Shorter(n + 1))
    BY <2>5, <2>6
  <2> HIDE DEF Is
  <2>8. n + 1 \in Nat
    OBVIOUS
  <2> QED BY <2>7, <2>8
<1>5. ASSUME NEW n \in Nat PROVE \E f : Is(f, Shorter(n))
  <2>1. Nat \subseteq Good
    <3> HIDE DEF Good
    <3> QED BY <1>3, <1>4, InductionOnNat
  <2> QED BY <2>1
<1> DEFINE part(n) == CHOOSE f : Is(f, Shorter(n))
           F == [text \in Seq(Words) |-> part(Len(text) + 1)[text]]
<1>6. ASSUME NEW n \in Nat PROVE Is(part(n), Shorter(n))
  <2>1. \E f : Is(f, Shorter(n))
    BY <1>5
  <2> HIDE DEF Is
  <2> QED BY <2>1
<1> HIDE DEF part
<1>7. ASSUME NEW text \in Seq(Words) PROVE F[text] = TypeFrom(text, F)
  <2> DEFINE n == Len(text) + 1
  <2>1. n \in Nat /\ text \in Shorter(n) /\ F[text] = part(n)[text]
    OBVIOUS
  <2>2. F[text] = TypeFrom(text, part(n))
    BY <1>6, <2>1
  <2>3. ASSUME NEW t \in Seq(Words), Len(t) < Len(text) PROVE part(n)[t] = F[t]
    <3>1. Len(t) + 1 \in Nat /\ Len(t) + 1 <= n /\ t \in Shorter(Len(t) + 1) /\ F[t] = part(Len(t) + 1)[t]
      BY <2>3
    <3>2. Is(part(n), Shorter(n)) /\ Is(part(Len(t) + 1), Shorter(Len(t) + 1))
      BY <1>6, <2>1, <3>1
    <3> HIDE DEF F, n, Is
    <3>3. \A x \in Shorter(Len(t) + 1) : part(Len(t) + 1)[x] = part(n)[x]
      BY <1>2, <2>1, <3>1, <3>2
    <3> QED BY <3>1, <3>3
  <2> HIDE DEF F, n
  <2> QED BY <2>2, <2>3, TypeFromIsLocal
<1>8. Is(F, Seq(Words))
  <2>1. F = [text \in Seq(Words) |-> F[text]]
    OBVIOUS
  <2> HIDE DEF F
  <2> QED BY <1>7, <2>1
<1>9. From = CHOOSE f : Is(f, Seq(Words))
  BY DEF From
<1>10. Is(From, Seq(Words))
  <2> HIDE DEF Is, F
  <2> QED BY <1>8, <1>9
<1> QED BY <1>10

-----------------------------------------------------------------------------
(* Closed texts *)

\* The first e words: parentheses that are all closed again, and commas that
\* each stand between two other words.
Sound(text, e) ==
  /\ DepthAfter(text, e) = 0
  /\ \A p \in 0 .. e : DepthAfter(text, p) >= 0
  /\ \A p \in 1 .. e - 1 : ~(text[p] = Comma /\ text[p + 1] = Comma)
  /\ e > 0 => text[1] # Comma /\ text[e] # Comma

\* A text with commas only between parentheses, which is one string of a tuple.
Closed(text) ==
  /\ text \in Seq(Words) /\ Len(text) >= 1
  /\ Sound(text, Len(text))
  /\ \A p \in 1 .. Len(text) : text[p] = Comma => DepthAfter(text, p) >= 1

\* A text that goes on with a closed one, which is the first or follows a comma.
LEMMA SoundMore ==
  ASSUME NEW text \in Seq(Words), NEW e \in Nat, NEW m \in Nat, NEW t, Closed(t),
         m + Len(t) <= Len(text), \A k \in 1 .. Len(t) : text[m + k] = t[k],
         Sound(text, e),
         \/ e = 0 /\ m = 0
         \/ e > 0 /\ m = e + 1 /\ text[m] = Comma
  PROVE  DepthAfter(text, m) = 0 /\ Sound(text, m + Len(t))
<1>1. t \in Seq(Words) /\ Len(t) \in Nat /\ Len(t) >= 1 /\ Len(text) \in Nat
  BY DEF Closed
<1>2. /\ DepthAfter(t, Len(t)) = 0
      /\ \A p \in 0 .. Len(t) : DepthAfter(t, p) >= 0
      /\ \A p \in 1 .. Len(t) - 1 : ~(t[p] = Comma /\ t[p + 1] = Comma)
      /\ t[1] # Comma /\ t[Len(t)] # Comma
  BY <1>1 DEF Closed, Sound
<1>3. /\ DepthAfter(text, e) = 0
      /\ \A p \in 0 .. e : DepthAfter(text, p) >= 0
      /\ \A p \in 1 .. e - 1 : ~(text[p] = Comma /\ text[p + 1] = Comma)
      /\ e > 0 => text[1] # Comma /\ text[e] # Comma
  BY DEF Sound
<1>4. DepthAfter(text, m) = 0
  <2>1. CASE e = 0 /\ m = 0
    BY <1>3, <2>1
  <2>2. CASE e > 0 /\ m = e + 1 /\ text[m] = Comma
    <3>1. m \in 1 .. Len(text) /\ m - 1 = e
      BY <1>1, <2>2
    <3>2. DepthAfter(text, m) = DepthAfter(text, e) + Opens(text[m])
      BY <3>1, DepthIsCounted
    <3>3. Opens(Comma) = 0
      BY DEF Opens, Comma, Open, Close
    <3> QED BY <1>3, <2>2, <3>2, <3>3
  <2> QED BY <2>1, <2>2
<1>5. \A k \in 0 .. Len(t) : DepthAfter(text, m + k) = DepthAfter(t, k)
  <2>1. \A k \in 0 .. Len(t) : DepthAfter(text, m + k) = DepthAfter(text, m) + DepthAfter(t, k)
    BY <1>1, DepthGoesOn
  <2>2. \A k \in 0 .. Len(t) : DepthAfter(t, k) \in Int
    BY <1>1, DepthIsCounted
  <2> QED BY <1>4, <2>1, <2>2
<1>6. DepthAfter(text, m + Len(t)) = 0
  BY <1>1, <1>2, <1>5
<1>7. ASSUME NEW p \in 0 .. m + Len(t) PROVE DepthAfter(text, p) >= 0
  <2>1. CASE p <= e
    BY <1>3, <2>1
  <2>2. CASE p >= m
    <3>1. p - m \in 0 .. Len(t) /\ m + (p - m) = p
      BY <1>1, <2>2
    <3> QED BY <1>2, <1>5, <3>1
  <2> QED BY <2>1, <2>2
<1>8. ASSUME NEW p \in 1 .. (m + Len(t)) - 1
      PROVE  ~(text[p] = Comma /\ text[p + 1] = Comma)
  <2>1. CASE p < e
    <3>1. p \in 1 .. e - 1
      BY <2>1
    <3> QED BY <1>3, <3>1
  <2>2. CASE p = e
    BY <1>3, <2>2
  <2>3. CASE p = m
    <3>1. text[m + 1] = t[1]
      BY <1>1
    <3> QED BY <1>2, <2>3, <3>1
  <2>4. CASE p > m
    <3>1. p - m \in 1 .. Len(t) - 1 /\ m + (p - m) = p /\ m + ((p - m) + 1) = p + 1
      BY <1>1, <2>4
    <3>2. p - m \in 1 .. Len(t) /\ (p - m) + 1 \in 1 .. Len(t)
      BY <1>1, <3>1
    <3>3. text[p] = t[p - m] /\ text[p + 1] = t[(p - m) + 1]
      BY <3>1, <3>2
    <3> QED BY <1>2, <3>1, <3>3
  <2> QED BY <2>1, <2>2, <2>3, <2>4
<1>9. text[m + Len(t)] # Comma
  <2>1. Len(t) \in 1 .. Len(t)
    BY <1>1
  <2>2. text[m + Len(t)] = t[Len(t)]
    BY <2>1
  <2> QED BY <1>2, <2>2
<1>10. text[1] # Comma
  <2>1. CASE e = 0 /\ m = 0
    <3>1. text[0 + 1] = t[1] /\ 0 + 1 = 1
      BY <1>1, <2>1
    <3> QED BY <1>2, <3>1
  <2>2. CASE e > 0
    BY <1>3, <2>2
  <2> QED BY <2>1, <2>2
<1> QED BY <1>4, <1>6, <1>7, <1>8, <1>9, <1>10 DEF Sound

\* What the first n words of a text are parsed into.
Reads(text, n, strings, word) == Parsed(text, n) = [strings |-> strings, word |-> word]

\* A closed text that is found where a string begins is that string.
LEMMA ParsedAsOne ==
  ASSUME NEW text \in Seq(Words), NEW m \in Nat, NEW t, Closed(t), NEW strings,
         m + Len(t) <= Len(text), \A k \in 1 .. Len(t) : text[m + k] = t[k],
         DepthAfter(text, m) = 0, Reads(text, m, strings, <<>>)
  PROVE  Reads(text, m + Len(t), strings, t)
<1>1. t \in Seq(Words) /\ Len(t) \in Nat /\ Len(t) >= 1 /\ Len(text) \in Nat
  BY DEF Closed
<1> DEFINE start(k) == SubSeq(t, 1, k)
           Good == {k \in 0 .. Len(t) : Parsed(text, m + k) = [strings |-> strings, word |-> start(k)]}
<1>2. start(0) = <<>> /\ start(Len(t)) = t
  BY <1>1
<1>3. \A k \in 1 .. Len(t) : Append(start(k - 1), t[k]) = start(k)
  BY <1>1
<1> HIDE DEF start
<1>4. 0 \in Good
  <2>1. m + 0 = m
    OBVIOUS
  <2> QED BY <1>1, <1>2, <2>1 DEF Reads
<1>5. ASSUME NEW k \in 1 .. Len(t), k - 1 \in Good PROVE k \in Good
  <2>1. /\ m + k \in 1 .. Len(text) /\ (m + k) - 1 = m + (k - 1) /\ text[m + k] = t[k]
        /\ k \in 0 .. Len(t)
    BY <1>1
  <2>2. Parsed(text, m + k) = ParseWord(Parsed(text, m + (k - 1)), text, m + k)
    BY <2>1, ParsedSteps
  <2>3. Parsed(text, m + (k - 1)) = [strings |-> strings, word |-> start(k - 1)]
    BY <1>5
  <2>4. ~IsSeparator(text, m + k)
    <3>1. \A j \in 0 .. Len(t) : DepthAfter(text, m + j) = DepthAfter(text, m) + DepthAfter(t, j)
      BY <1>1, DepthGoesOn
    <3>2. DepthAfter(t, k) \in Int
      BY <1>1, <2>1, DepthIsCounted
    <3>3. t[k] = Comma => DepthAfter(t, k) >= 1
      BY DEF Closed
    <3>4. DepthAfter(text, m + k) = DepthAfter(t, k)
      BY <2>1, <3>1, <3>2
    <3> QED BY <2>1, <3>3, <3>4 DEF IsSeparator
  <2>5. Parsed(text, m + k) = [Parsed(text, m + (k - 1)) EXCEPT !.word = Append(@, text[m + k])]
    BY <2>2, <2>4 DEF ParseWord
  <2>6. Parsed(text, m + k) = [strings |-> strings, word |-> Append(start(k - 1), text[m + k])]
    <3> DEFINE before == Parsed(text, m + (k - 1))
               w == Append(before.word, text[m + k])
    <3>1. before = [strings |-> strings, word |-> start(k - 1)]
      BY <2>3
    <3>2. before.word = start(k - 1)
      BY <3>1
    <3>3. Parsed(text, m + k) = [before EXCEPT !.word = w]
      BY <2>5
    <3> HIDE DEF before, w
    <3>4. Parsed(text, m + k) = [strings |-> strings, word |-> w]
      BY <3>1, <3>3
    <3> QED BY <3>2, <3>4 DEF w
  <2>7. Parsed(text, m + k) = [strings |-> strings, word |-> start(k)]
    BY <1>3, <2>1, <2>6
  <2> QED BY <2>1, <2>7
<1>6. Len(t) \in Good
  <2>1. 0 .. Len(t) \subseteq Good
    <3> HIDE DEF Good
    <3> QED BY <1>1, <1>4, <1>5, InductionUpTo
  <2>2. Len(t) \in 0 .. Len(t)
    BY <1>1
  <2> QED BY <2>1, <2>2
<1> QED BY <1>2, <1>6 DEF Reads

\* The texts, each but the first behind a comma.
Separated(texts) == [i \in DOMAIN texts |-> IF i = 1 THEN texts[i] ELSE <<Comma>> \o texts[i]]

\* Closed texts that are joined are taken apart again.
LEMMA TextsAreParsed ==
  ASSUME NEW texts \in Seq(Seq(Words)), \A i \in 1 .. Len(texts) : Closed(texts[i])
  PROVE  /\ JoinTexts(texts) \in Seq(Words)
         /\ Sound(JoinTexts(texts), Len(JoinTexts(texts)))
         /\ ParseTupleContent(JoinTexts(texts)) = texts
<1> DEFINE parts == Separated(texts)
           text == JoinTexts(texts)
           n == Len(texts)
           end(i) == Total(Lengths(parts), i)
<1>1. n \in Nat /\ DOMAIN texts = 1 .. n
  BY ElementIs
<1>2. Comma \in Words /\ <<Comma>> \in Seq(Words) /\ Len(<<Comma>>) = 1 /\ <<Comma>>[1] = Comma
  BY DEF Words
<1>3. ASSUME NEW i \in 1 .. n
      PROVE  /\ parts[i] \in Seq(Words) /\ texts[i] \in Seq(Words) /\ Len(texts[i]) \in Nat
             /\ i = 1 => parts[i] = texts[i]
             /\ i # 1 => /\ Len(parts[i]) = 1 + Len(texts[i]) /\ parts[i][1] = Comma
                         /\ \A k \in 1 .. Len(texts[i]) : parts[i][1 + k] = texts[i][k]
  <2>1. texts[i] \in Seq(Words) /\ Len(texts[i]) \in Nat
    BY ElementIs
  <2>2. parts[i] = IF i = 1 THEN texts[i] ELSE <<Comma>> \o texts[i]
    BY <1>1 DEF Separated
  <2>3. /\ <<Comma>> \o texts[i] \in Seq(Words) /\ Len(<<Comma>> \o texts[i]) = Len(<<Comma>>) + Len(texts[i])
        /\ \A k \in 1 .. Len(<<Comma>>) : (<<Comma>> \o texts[i])[k] = <<Comma>>[k]
        /\ \A k \in 1 .. Len(texts[i]) : (<<Comma>> \o texts[i])[Len(<<Comma>>) + k] = texts[i][k]
    BY <1>2, <2>1, JoinedIs
  <2>4. (<<Comma>> \o texts[i])[1] = Comma
    <3>1. 1 \in 1 .. Len(<<Comma>>)
      BY <1>2
    <3> QED BY <1>2, <2>3, <3>1
  <2> QED BY <1>2, <2>1, <2>2, <2>3, <2>4
<1>4. parts \in Seq(Seq(Words)) /\ Len(parts) = n
  <2>1. \A i \in 1 .. n : parts[i] \in Seq(Words)
    BY <1>3
  <2>2. parts = [i \in 1 .. n |-> parts[i]]
    BY <1>1 DEF Separated
  <2> DEFINE W == Seq(Words)
  <2> HIDE DEF parts, W
  <2>3. \A i \in 1 .. n : parts[i] \in W
    BY <2>1 DEF W
  <2>4. parts \in Seq(W) /\ Len(parts) = n
    BY <1>1, <2>2, <2>3
  <2> QED BY <2>4 DEF W
<1>5. text = FlattenSeq(parts)
  BY DEF JoinTexts, Separated
<1> HIDE DEF parts, text
<1>6. /\ text \in Seq(Words) /\ Len(text) = end(n)
      /\ \A i \in 1 .. n : \A k \in 1 .. Len(parts[i]) : text[PositionIn(parts, i) + k] = parts[i][k]
  BY <1>4, <1>5, FlattenIs, SMTT(30)
<1>7. /\ end(0) = 0
      /\ \A i \in 1 .. n : PositionIn(parts, i) = end(i - 1) /\ end(i) = end(i - 1) + Len(parts[i])
      /\ \A i \in 0 .. n : end(i) \in Nat
      /\ \A i \in 0 .. n : end(i) <= end(n)
  <2>1. \A i \in 0 .. n : i \in 0 .. n /\ n \in 0 .. n /\ i \in 0 .. n
    BY <1>1
  <2> QED BY <1>1, <1>4, <2>1, PositionIs
<1> DEFINE first(i) == IF i = 1 THEN 0 ELSE end(i - 1) + 1
<1>8. ASSUME NEW i \in 1 .. n
      PROVE  /\ first(i) \in Nat /\ first(i) + Len(texts[i]) = end(i) /\ end(i) <= Len(text)
             /\ \A k \in 1 .. Len(texts[i]) : text[first(i) + k] = texts[i][k]
             /\ i # 1 => text[first(i)] = Comma
             /\ Closed(texts[i]) /\ end(i) > 0
  <2>1. i \in 0 .. n /\ i - 1 \in 0 .. n
    BY <1>1
  <2>2. /\ end(i - 1) \in Nat /\ end(i) = end(i - 1) + Len(parts[i]) /\ end(i) <= Len(text)
        /\ \A k \in 1 .. Len(parts[i]) : text[end(i - 1) + k] = parts[i][k]
    BY <1>6, <1>7, <2>1
  <2>3. Closed(texts[i]) /\ Len(texts[i]) \in Nat /\ Len(texts[i]) >= 1
    BY <1>3 DEF Closed
  <2> HIDE DEF end
  <2>4. CASE i = 1
    <3>1. end(i - 1) = 0 /\ parts[i] = texts[i]
      BY <1>3, <1>7, <2>4
    <3> QED BY <2>2, <2>3, <2>4, <3>1
  <2>5. CASE i # 1
    <3>1. /\ Len(parts[i]) = 1 + Len(texts[i]) /\ parts[i][1] = Comma
          /\ \A k \in 1 .. Len(texts[i]) : parts[i][1 + k] = texts[i][k]
      BY <1>3, <2>5
    <3>2. 1 \in 1 .. Len(parts[i]) /\ \A k \in 1 .. Len(texts[i]) : 1 + k \in 1 .. Len(parts[i])
      BY <2>3, <3>1
    <3>3. /\ text[end(i - 1) + 1] = Comma
          /\ \A k \in 1 .. Len(texts[i]) : text[end(i - 1) + (1 + k)] = texts[i][k]
      BY <2>2, <3>1, <3>2
    <3>4. \A k \in 1 .. Len(texts[i]) : end(i - 1) + (1 + k) = (end(i - 1) + 1) + k
      BY <2>2
    <3>5. /\ first(i) = end(i - 1) + 1
          /\ \A k \in 1 .. Len(texts[i]) : text[first(i) + k] = texts[i][k]
      BY <2>5, <3>3, <3>4
    <3>6. first(i) = end(i - 1) + 1 /\ text[first(i)] = Comma
      BY <3>3, <3>5
    <3> HIDE DEF first
    <3>7. /\ first(i) \in Nat /\ end(i) > 0
          /\ end(i) = end(i - 1) + (1 + Len(texts[i]))
      <4> DEFINE m == first(i)
                 e == end(i - 1)
                 k == Len(texts[i])
                 c == end(i)
                 l == Len(parts[i])
      <4>1. e \in Nat /\ c = e + l
        BY <2>2
      <4>2. k \in Nat /\ l = 1 + k
        BY <2>3, <3>1
      <4>3. m = e + 1
        BY <3>6
      <4> HIDE DEF m, e, k, c, l
      <4>4. m \in Nat /\ c > 0 /\ c = e + (1 + k)
        BY <4>1, <4>2, <4>3
      <4> QED BY <4>4 DEF m, e, k, c
    <3>8. first(i) + Len(texts[i]) = end(i)
      <4> DEFINE m == first(i)
                 e == end(i - 1)
                 k == Len(texts[i])
                 c == end(i)
      <4>1. e \in Nat /\ k \in Nat /\ m = e + 1 /\ c = e + (1 + k)
        BY <2>2, <2>3, <3>6, <3>7
      <4> HIDE DEF m, e, k, c
      <4>2. m + k = c
        BY <4>1
      <4> QED BY <4>2 DEF m, k, c
    <3> QED BY <2>2, <2>3, <3>5, <3>6, <3>7, <3>8
  <2> QED BY <2>4, <2>5
<1> DEFINE before(i) == SubSeq(texts, 1, i - 1)
<1>9. /\ before(1) = <<>>
      /\ \A i \in 1 .. n : Append(before(i), texts[i]) = before(i + 1)
      /\ before(n + 1) = texts
  <2> DEFINE W == Seq(Words)
  <2>1. texts \in Seq(W)
    OBVIOUS
  <2> HIDE DEF W
  <2> QED BY <1>1, <2>1
<1> DEFINE Good == {i \in 0 .. n :
                      /\ Sound(text, end(i))
                      /\ i > 0 => Parsed(text, end(i)) = [strings |-> before(i), word |-> texts[i]]}
<1> HIDE DEF end, before
<1>10. 0 \in Good
  <2>1. DepthAfter(text, 0) = 0
    BY <1>6, DepthIsCounted
  <2>2. Sound(text, 0)
    BY <2>1 DEF Sound
  <2> QED BY <1>1, <1>7, <2>2
<1>11. ASSUME NEW i \in 1 .. n, i - 1 \in Good PROVE i \in Good
  <2>1. i \in 0 .. n /\ i - 1 \in 0 .. n
    BY <1>1
  <2>2. /\ first(i) \in Nat /\ first(i) + Len(texts[i]) = end(i) /\ end(i) <= Len(text)
        /\ \A k \in 1 .. Len(texts[i]) : text[first(i) + k] = texts[i][k]
        /\ Closed(texts[i])
    BY <1>8
  <2>3. Sound(text, end(i - 1)) /\ end(i - 1) \in Nat
    BY <1>7, <1>11, <2>1
  <2>4. \/ end(i - 1) = 0 /\ first(i) = 0
        \/ end(i - 1) > 0 /\ first(i) = end(i - 1) + 1 /\ text[first(i)] = Comma
    <3>1. CASE i = 1
      BY <1>7, <3>1
    <3>2. CASE i # 1
      <4>1. i - 1 \in 1 .. n
        BY <1>1, <3>2
      <4> QED BY <1>8, <3>2, <4>1
    <3> QED BY <3>1, <3>2
  <2>5. Parsed(text, first(i)) = [strings |-> before(i), word |-> <<>>]
    <3>1. CASE i = 1
      <4>1. Parsed(text, 0) = [strings |-> <<>>, word |-> <<>>]
        BY <1>6, ParsedSteps
      <4> QED BY <1>9, <3>1, <4>1
    <3>2. CASE i # 1
      <4>1. /\ i - 1 > 0 /\ i - 1 \in 1 .. n /\ (i - 1) + 1 = i
            /\ first(i) = end(i - 1) + 1 /\ text[first(i)] = Comma
        BY <1>1, <1>8, <3>2
      <4>2. Parsed(text, end(i - 1)) = [strings |-> before(i - 1), word |-> texts[i - 1]]
        BY <1>11, <4>1
      <4>3. first(i) \in 1 .. Len(text) /\ first(i) - 1 = end(i - 1)
        <5>1. Len(texts[i]) \in Nat /\ Len(text) \in Nat
          BY <1>3, <1>6
        <5> DEFINE m == first(i)
                   e == end(i - 1)
                   k == Len(texts[i])
        <5>2. m \in Nat /\ m + k <= Len(text) /\ e \in Nat /\ m = e + 1 /\ k \in Nat
          BY <2>2, <2>3, <4>1, <5>1
        <5> HIDE DEF m, e, k
        <5>3. m \in 1 .. Len(text) /\ m - 1 = e
          BY <5>1, <5>2
        <5> QED BY <5>3 DEF m, e
      <4>4. Parsed(text, first(i)) = ParseWord(Parsed(text, end(i - 1)), text, first(i))
        BY <1>6, <4>3, ParsedSteps
      <4>5. IsSeparator(text, first(i))
        <5>1. DepthAfter(text, first(i)) = DepthAfter(text, end(i - 1)) + Opens(text[first(i)])
          BY <1>6, <4>3, DepthIsCounted
        <5>2. Opens(Comma) = 0
          BY DEF Opens, Comma, Open, Close
        <5>3. DepthAfter(text, end(i - 1)) = 0
          BY <2>3 DEF Sound
        <5> HIDE DEF first
        <5> QED BY <4>1, <5>1, <5>2, <5>3 DEF IsSeparator
      <4>6. Append(before(i - 1), texts[i - 1]) = before(i)
        BY <1>9, <4>1
      <4>7. ASSUME NEW parsed, NEW s, NEW t, parsed = [strings |-> s, word |-> t]
            PROVE  parsed.strings = s /\ parsed.word = t
        BY <4>7
      <4>8. /\ Parsed(text, end(i - 1)).strings = before(i - 1)
            /\ Parsed(text, end(i - 1)).word = texts[i - 1]
        BY <4>2, <4>7
      <4> HIDE DEF first
      <4> QED BY <4>4, <4>5, <4>6, <4>8 DEF ParseWord
    <3> QED BY <3>1, <3>2
  <2> HIDE DEF first
  <2>6. DepthAfter(text, first(i)) = 0 /\ Sound(text, end(i))
    <3> DEFINE e == end(i - 1)
               m == first(i)
               t == texts[i]
    <3>1. /\ e \in Nat /\ m \in Nat /\ Closed(t) /\ m + Len(t) <= Len(text) /\ Sound(text, e)
          /\ \A k \in 1 .. Len(t) : text[m + k] = t[k]
          /\ \/ e = 0 /\ m = 0
             \/ e > 0 /\ m = e + 1 /\ text[m] = Comma
      BY <2>2, <2>3, <2>4
    <3> HIDE DEF e, m, t
    <3>2. DepthAfter(text, m) = 0 /\ Sound(text, m + Len(t))
      BY <1>6, <3>1, SoundMore
    <3> QED BY <2>2, <3>2 DEF m, t
  <2>7. Parsed(text, end(i)) = [strings |-> before(i), word |-> texts[i]]
    <3> DEFINE m == first(i)
               t == texts[i]
               strings == before(i)
    <3>1. /\ m \in Nat /\ Closed(t) /\ m + Len(t) <= Len(text)
          /\ \A k \in 1 .. Len(t) : text[m + k] = t[k]
          /\ DepthAfter(text, m) = 0
      BY <2>2, <2>6
    <3>3. Reads(text, m, strings, <<>>)
      BY <2>5 DEF Reads
    <3> HIDE DEF m, t, strings
    <3>2. Reads(text, m + Len(t), strings, t)
      BY <1>6, <3>1, <3>3, ParsedAsOne
    <3> QED BY <2>2, <3>2 DEF m, t, strings, Reads
  <2> QED BY <2>1, <2>6, <2>7
<1>12. n \in Good
  <2>1. 0 .. n \subseteq Good
    <3> HIDE DEF Good, n
    <3> QED BY <1>1, <1>10, <1>11, InductionUpTo
  <2>2. n \in 0 .. n
    BY <1>1
  <2> QED BY <2>1, <2>2
<1>13. ParseTupleContent(text) = texts
  <2>1. CASE n = 0
    <3>1. Parsed(text, Len(text)) = [strings |-> <<>>, word |-> <<>>]
      BY <1>6, <1>7, <2>1, ParsedSteps
    <3>2. texts = <<>>
      BY <2>1
    <3> QED BY <3>1, <3>2 DEF ParseTupleContent, WithLast
  <2>2. CASE n # 0
    <3>1. n > 0 /\ n \in 1 .. n
      BY <1>1, <2>2
    <3>2. Parsed(text, Len(text)) = [strings |-> before(n), word |-> texts[n]]
      BY <1>6, <1>12, <3>1
    <3>3. texts[n] # <<>>
      <4>1. Closed(texts[n])
        BY <3>1
      <4> QED BY <4>1 DEF Closed
    <3>4. Append(before(n), texts[n]) = texts
      BY <1>9, <3>1
    <3>5. /\ Parsed(text, Len(text)).strings = before(n)
          /\ Parsed(text, Len(text)).word = texts[n]
      BY <3>2
    <3> QED BY <3>3, <3>4, <3>5 DEF ParseTupleContent, WithLast
  <2> QED BY <2>1, <2>2
<1>14. Sound(text, Len(text))
  BY <1>6, <1>12
<1> QED BY <1>6, <1>13, <1>14 DEF text

-----------------------------------------------------------------------------
(* What is written around texts *)

\* A word that is no comma and no parenthesis.
LEMMA WordIsClosed ==
  ASSUME NEW word \in Words \ {Comma, Open, Close}
  PROVE  Closed(<<word>>)
<1> DEFINE t == <<word>>
<1>1. t \in Seq(Words) /\ Len(t) = 1 /\ t[1] = word
  OBVIOUS
<1> HIDE DEF t
<1>2. DepthAfter(t, 0) = 0 /\ DepthAfter(t, 1) = 0
  <2>1. DepthAfter(t, 1) = DepthAfter(t, 0) + Opens(t[1]) /\ DepthAfter(t, 0) = 0
    <3>1. 1 \in 1 .. Len(t) /\ 1 - 1 = 0
      BY <1>1
    <3> QED BY <1>1, <3>1, DepthIsCounted
  <2>2. Opens(t[1]) = 0
    BY <1>1 DEF Opens
  <2> QED BY <2>1, <2>2
<1>3. \A p \in 0 .. 1 : p = 0 \/ p = 1
  OBVIOUS
<1>4. Sound(t, 1)
  BY <1>1, <1>2, <1>3 DEF Sound
<1>5. Closed(t)
  BY <1>1, <1>4 DEF Closed
<1> QED BY <1>5 DEF t

\* A closed text and words behind it that are no commas and no parentheses.
LEMMA EndedIsClosed ==
  ASSUME NEW t, Closed(t), NEW ending \in Seq(Words \ {Comma, Open, Close})
  PROVE  Closed(t \o ending)
<1> DEFINE text == t \o ending
<1>1. /\ t \in Seq(Words) /\ Len(t) \in Nat /\ Len(t) >= 1 /\ Sound(t, Len(t))
      /\ \A p \in 1 .. Len(t) : t[p] = Comma => DepthAfter(t, p) >= 1
  BY DEF Closed
<1>2. /\ ending \in Seq(Words) /\ Len(ending) \in Nat
      /\ \A k \in 1 .. Len(ending) : ending[k] # Comma /\ Opens(ending[k]) = 0
  BY DEF Opens
<1>3. /\ text \in Seq(Words) /\ Len(text) = Len(t) + Len(ending)
      /\ \A p \in 1 .. Len(t) : text[p] = t[p]
      /\ \A k \in 1 .. Len(ending) : text[Len(t) + k] = ending[k]
  BY <1>1, <1>2, JoinedIs
<1> HIDE DEF text
<1>4. \A p \in 0 .. Len(t) : DepthAfter(text, p) = DepthAfter(t, p)
  <2>1. Len(t) \in Nat /\ Len(t) <= Len(text) /\ Len(t) <= Len(t)
    BY <1>1, <1>2, <1>3
  <2> QED BY <1>1, <1>3, <2>1, ParsedOfSame
<1>5. /\ DepthAfter(t, Len(t)) = 0 /\ \A p \in 0 .. Len(t) : DepthAfter(t, p) >= 0
      /\ \A p \in 1 .. Len(t) - 1 : ~(t[p] = Comma /\ t[p + 1] = Comma)
      /\ t[1] # Comma /\ t[Len(t)] # Comma
  BY <1>1 DEF Sound
<1> DEFINE Good == {k \in 0 .. Len(ending) : DepthAfter(text, Len(t) + k) = 0}
<1>6. 0 \in Good
  <2>1. Len(t) + 0 = Len(t) /\ Len(t) \in 0 .. Len(t)
    BY <1>1
  <2>2. DepthAfter(text, Len(t) + 0) = 0
    BY <1>4, <1>5, <2>1
  <2> QED BY <1>2, <2>2
<1>7. ASSUME NEW k \in 1 .. Len(ending), k - 1 \in Good PROVE k \in Good
  <2>1. Len(t) + k \in 1 .. Len(text) /\ (Len(t) + k) - 1 = Len(t) + (k - 1) /\ k \in 0 .. Len(ending)
    BY <1>1, <1>2, <1>3
  <2>2. DepthAfter(text, Len(t) + k) = DepthAfter(text, Len(t) + (k - 1)) + Opens(text[Len(t) + k])
    BY <1>3, <2>1, DepthIsCounted
  <2>3. DepthAfter(text, Len(t) + (k - 1)) = 0 /\ Opens(text[Len(t) + k]) = 0
    BY <1>2, <1>3, <1>7
  <2>4. DepthAfter(text, Len(t) + k) = 0
    BY <2>2, <2>3
  <2> QED BY <2>1, <2>4
<1>8. \A k \in 0 .. Len(ending) : DepthAfter(text, Len(t) + k) = 0
  <2>1. 0 .. Len(ending) \subseteq Good
    <3> HIDE DEF Good
    <3> QED BY <1>2, <1>6, <1>7, InductionUpTo
  <2> QED BY <2>1
<1> HIDE DEF Good
<1>9. ASSUME NEW p \in 0 .. Len(text)
      PROVE  p \in 0 .. Len(t) \/ (p - Len(t) \in 1 .. Len(ending) /\ Len(t) + (p - Len(t)) = p)
  BY <1>1, <1>2, <1>3
<1>10. ASSUME NEW p \in 0 .. Len(text) PROVE DepthAfter(text, p) >= 0
  <2>1. CASE p \in 0 .. Len(t)
    BY <1>4, <1>5, <2>1
  <2>2. CASE p - Len(t) \in 1 .. Len(ending) /\ Len(t) + (p - Len(t)) = p
    <3>1. p - Len(t) \in 0 .. Len(ending)
      BY <2>2
    <3>2. DepthAfter(text, p) = 0
      BY <1>8, <2>2, <3>1
    <3> QED BY <3>2
  <2> QED BY <1>9, <2>1, <2>2
<1>11. ASSUME NEW p \in 1 .. Len(text), text[p] = Comma
       PROVE  p \in 1 .. Len(t) /\ t[p] = Comma
  <2>1. p \in 0 .. Len(text)
    OBVIOUS
  <2>2. CASE p \in 0 .. Len(t)
    <3>1. p \in 1 .. Len(t)
      BY <2>2
    <3> QED BY <1>3, <1>11, <3>1
  <2>3. CASE p - Len(t) \in 1 .. Len(ending) /\ Len(t) + (p - Len(t)) = p
    <3>1. text[p] = ending[p - Len(t)]
      BY <1>3, <2>3
    <3> QED BY <1>2, <1>11, <2>3, <3>1
  <2> QED BY <1>9, <2>1, <2>2, <2>3
<1>12. \A p \in 1 .. Len(text) : text[p] = Comma => DepthAfter(text, p) >= 1
  <2>1. ASSUME NEW p \in 1 .. Len(text), text[p] = Comma PROVE DepthAfter(text, p) >= 1
    <3>1. p \in 1 .. Len(t) /\ t[p] = Comma /\ p \in 0 .. Len(t)
      BY <1>11, <2>1
    <3> QED BY <1>1, <1>4, <3>1
  <2> QED BY <2>1
<1>13. ASSUME NEW p \in 1 .. Len(text) - 1, text[p] = Comma, text[p + 1] = Comma PROVE FALSE
  <2>1. p \in 1 .. Len(text) /\ p + 1 \in 1 .. Len(text)
    BY <1>3
  <2>2. p \in 1 .. Len(t) /\ t[p] = Comma /\ p + 1 \in 1 .. Len(t) /\ t[p + 1] = Comma
    BY <1>11, <1>13, <2>1
  <2>3. p \in 1 .. Len(t) - 1
    BY <1>1, <2>2
  <2> QED BY <1>5, <2>2, <2>3
<1>14. Len(text) \in Nat /\ Len(text) >= 1 /\ text[1] # Comma
  <2>1. Len(text) \in Nat /\ Len(text) >= 1
    BY <1>1, <1>2, <1>3
  <2>2. 1 \in 1 .. Len(t)
    BY <1>1
  <2> QED BY <1>3, <1>5, <2>1, <2>2
<1>15. text[Len(text)] # Comma
  <2>1. Len(text) \in 1 .. Len(text)
    BY <1>14
  <2>2. CASE Len(ending) = 0
    <3>1. Len(text) = Len(t) /\ Len(t) \in 1 .. Len(t)
      BY <1>1, <1>3, <2>2
    <3> QED BY <1>3, <1>5, <3>1
  <2>3. CASE Len(ending) # 0
    <3>1. Len(ending) \in 1 .. Len(ending)
      BY <1>2, <2>3
    <3>2. text[Len(text)] = ending[Len(ending)]
      BY <1>3, <3>1
    <3> QED BY <1>2, <3>1, <3>2
  <2> QED BY <2>2, <2>3
<1>16. DepthAfter(text, Len(text)) = 0
  <2>1. Len(ending) \in 0 .. Len(ending)
    BY <1>2
  <2> QED BY <1>3, <1>8, <2>1
<1>17. Sound(text, Len(text))
  BY <1>10, <1>13, <1>14, <1>15, <1>16 DEF Sound
<1>18. Closed(text)
  BY <1>3, <1>12, <1>14, <1>17 DEF Closed
<1> QED BY <1>18 DEF text

\* A text in parentheses, and what follows it.
Enclosing(inner, rest) == (<<Open>> \o inner \o <<Close>>) \o rest

\* Where the parentheses are, and how many are open.
LEMMA Enclosed ==
  ASSUME NEW inner \in Seq(Words), Sound(inner, Len(inner)), NEW rest \in Seq(Words)
  PROVE  /\ Enclosing(inner, rest) \in Seq(Words) /\ Len(Enclosing(inner, rest)) = Len(inner) + 2 + Len(rest)
         /\ Enclosing(inner, rest)[1] = Open /\ Enclosing(inner, rest)[Len(inner) + 2] = Close
         /\ \A k \in 1 .. Len(inner) : Enclosing(inner, rest)[1 + k] = inner[k]
         /\ \A k \in 1 .. Len(rest) : Enclosing(inner, rest)[(Len(inner) + 2) + k] = rest[k]
         /\ DepthAfter(Enclosing(inner, rest), 0) = 0
         /\ \A k \in 0 .. Len(inner) : DepthAfter(Enclosing(inner, rest), 1 + k) = 1 + DepthAfter(inner, k)
         /\ DepthAfter(Enclosing(inner, rest), Len(inner) + 2) = 0
<1> DEFINE text == Enclosing(inner, rest)
<1> HIDE DEF text
<1>1. Len(inner) \in Nat /\ Len(rest) \in Nat
  BY ElementIs
<1>2. Open \in Words /\ Close \in Words
  BY DEF Words
<1>3. /\ text \in Seq(Words) /\ Len(text) = Len(inner) + 2 + Len(rest)
      /\ text[1] = Open /\ text[Len(inner) + 2] = Close
      /\ \A k \in 1 .. Len(inner) : text[1 + k] = inner[k]
      /\ \A k \in 1 .. Len(rest) : text[(Len(inner) + 2) + k] = rest[k]
  <2> DEFINE a == <<Open>>
             b == <<Close>>
             ai == a \o inner
             aib == ai \o b
  <2>1. /\ a \in Seq(Words) /\ b \in Seq(Words) /\ Len(a) = 1 /\ Len(b) = 1
        /\ a[1] = Open /\ b[1] = Close
    BY <1>2
  <2> HIDE DEF a, b
  <2>2. /\ ai \in Seq(Words) /\ Len(ai) = 1 + Len(inner)
        /\ \A k \in 1 .. 1 : ai[k] = a[k]
        /\ \A k \in 1 .. Len(inner) : ai[1 + k] = inner[k]
    <3>1. /\ ai \in Seq(Words) /\ Len(ai) = Len(a) + Len(inner)
          /\ \A k \in 1 .. Len(a) : ai[k] = a[k]
          /\ \A k \in 1 .. Len(inner) : ai[Len(a) + k] = inner[k]
      <4>1. a \in Seq(Words) /\ inner \in Seq(Words)
        BY <2>1
      <4> QED BY <4>1, JoinedIs
    <3> HIDE DEF ai
    <3> QED BY <2>1, <3>1
  <2> HIDE DEF ai
  <2>3. /\ aib \in Seq(Words) /\ Len(aib) = Len(inner) + 2
        /\ \A k \in 1 .. Len(ai) : aib[k] = ai[k]
        /\ \A k \in 1 .. 1 : aib[Len(ai) + k] = b[k]
    <3>1. /\ aib \in Seq(Words) /\ Len(aib) = Len(ai) + Len(b)
          /\ \A k \in 1 .. Len(ai) : aib[k] = ai[k]
          /\ \A k \in 1 .. Len(b) : aib[Len(ai) + k] = b[k]
      <4>1. ai \in Seq(Words) /\ b \in Seq(Words)
        BY <2>1, <2>2
      <4> QED BY <4>1, JoinedIs
    <3> HIDE DEF aib
    <3> QED BY <1>1, <2>1, <2>2, <3>1
  <2> HIDE DEF aib
  <2>4. text = aib \o rest
    BY DEF text, Enclosing, aib, ai, a, b
  <2>5. /\ text \in Seq(Words) /\ Len(text) = Len(aib) + Len(rest)
        /\ \A k \in 1 .. Len(aib) : text[k] = aib[k]
        /\ \A k \in 1 .. Len(rest) : text[Len(aib) + k] = rest[k]
    <3>1. aib \in Seq(Words)
      BY <2>3
    <3> QED BY <2>4, <3>1, JoinedIs
  <2>6. text[1] = Open
    <3>1. 1 \in 1 .. Len(aib) /\ 1 \in 1 .. Len(ai) /\ 1 \in 1 .. 1
      BY <1>1, <2>2, <2>3
    <3>2. text[1] = aib[1] /\ aib[1] = ai[1] /\ ai[1] = a[1]
      BY <2>2, <2>3, <2>5, <3>1
    <3> QED BY <2>1, <3>2
  <2>7. text[Len(inner) + 2] = Close
    <3>1. Len(inner) + 2 \in 1 .. Len(aib) /\ Len(ai) + 1 = Len(inner) + 2 /\ 1 \in 1 .. 1
      BY <1>1, <2>2, <2>3
    <3>2. text[Len(inner) + 2] = aib[Len(inner) + 2] /\ aib[Len(ai) + 1] = b[1]
      BY <2>3, <2>5, <3>1
    <3> QED BY <2>1, <3>1, <3>2
  <2>8. ASSUME NEW k \in 1 .. Len(inner) PROVE text[1 + k] = inner[k]
    <3>1. 1 + k \in 1 .. Len(aib) /\ 1 + k \in 1 .. Len(ai)
      BY <1>1, <2>2, <2>3
    <3>2. text[1 + k] = aib[1 + k] /\ aib[1 + k] = ai[1 + k] /\ ai[1 + k] = inner[k]
      BY <2>2, <2>3, <2>5, <3>1
    <3> QED BY <3>2
  <2>9. Len(text) = Len(inner) + 2 + Len(rest)
    BY <2>3, <2>5
  <2>10. \A k \in 1 .. Len(rest) : text[(Len(inner) + 2) + k] = rest[k]
    BY <2>3, <2>5
  <2> QED BY <2>5, <2>6, <2>7, <2>8, <2>9, <2>10
<1>4. /\ DepthAfter(text, 0) = 0
      /\ \A p \in 1 .. Len(text) : DepthAfter(text, p) = DepthAfter(text, p - 1) + Opens(text[p])
  BY <1>3, DepthIsCounted
<1>5. Opens(Open) = 1 /\ Opens(Close) = -1
  BY DEF Opens, Open, Close
<1>6. DepthAfter(text, 1) = 1
  <2>1. 1 \in 1 .. Len(text) /\ 1 - 1 = 0
    BY <1>1, <1>3
  <2>2. DepthAfter(text, 1) = DepthAfter(text, 0) + Opens(text[1])
    BY <1>4, <2>1
  <2>3. Opens(text[1]) = 1 /\ DepthAfter(text, 0) = 0
    BY <1>3, <1>4, <1>5
  <2> QED BY <2>2, <2>3
<1>7. \A k \in 0 .. Len(inner) : DepthAfter(text, 1 + k) = DepthAfter(text, 1) + DepthAfter(inner, k)
  <2>1. 1 + Len(inner) <= Len(text) /\ 1 \in Nat
    BY <1>1, <1>3
  <2> QED BY <1>3, <2>1, DepthGoesOn
<1>8. DepthAfter(text, Len(inner) + 2) = 0
  <2>1. /\ Len(inner) + 2 \in 1 .. Len(text) /\ (Len(inner) + 2) - 1 = 1 + Len(inner)
        /\ Len(inner) \in 0 .. Len(inner)
    BY <1>1, <1>3
  <2>2. DepthAfter(text, Len(inner) + 2) = DepthAfter(text, 1 + Len(inner)) + Opens(Close)
    BY <1>3, <1>4, <2>1
  <2>3. DepthAfter(inner, Len(inner)) = 0
    BY DEF Sound
  <2>4. DepthAfter(text, 1 + Len(inner)) = 1
    <3>1. DepthAfter(text, 1 + Len(inner)) = DepthAfter(text, 1) + DepthAfter(inner, Len(inner))
      BY <1>7, <2>1
    <3> QED BY <1>6, <2>3, <3>1
  <2>5. Opens(Close) = -1
    BY <1>5
  <2> QED BY <2>2, <2>4, <2>5
<1>9. \A k \in 0 .. Len(inner) : DepthAfter(text, 1 + k) = 1 + DepthAfter(inner, k)
  BY <1>6, <1>7
<1> QED BY <1>3, <1>4, <1>8, <1>9 DEF text

\* A text in parentheses is closed.
LEMMA EnclosedIsClosed ==
  ASSUME NEW inner \in Seq(Words), Sound(inner, Len(inner))
  PROVE  Closed(<<Open>> \o inner \o <<Close>>)
<1> DEFINE text == <<Open>> \o inner \o <<Close>>
           n == Len(inner)
<1>1. n \in Nat
  BY ElementIs
<1>2. text = text \o <<>>
  <2>1. text \in Seq(Words)
    BY DEF Words
  <2> HIDE DEF text
  <2> QED BY <2>1
<1>3. /\ text \in Seq(Words) /\ Len(text) = n + 2
      /\ text[1] = Open /\ text[n + 2] = Close
      /\ \A k \in 1 .. n : text[1 + k] = inner[k]
      /\ DepthAfter(text, 0) = 0
      /\ \A k \in 0 .. n : DepthAfter(text, 1 + k) = 1 + DepthAfter(inner, k)
      /\ DepthAfter(text, n + 2) = 0
  <2>1. <<>> \in Seq(Words) /\ Len(<<>>) = 0
    OBVIOUS
  <2>2. text = (<<Open>> \o inner \o <<Close>>) \o <<>>
    BY <1>2
  <2> DEFINE rest == <<>>
  <2>3. rest \in Seq(Words) /\ Len(rest) = 0 /\ text = Enclosing(inner, rest)
    BY <2>2 DEF Enclosing
  <2> HIDE DEF text, rest
  <2>4. /\ text \in Seq(Words) /\ Len(text) = Len(inner) + 2 + Len(rest)
        /\ text[1] = Open /\ text[Len(inner) + 2] = Close
        /\ \A k \in 1 .. Len(inner) : text[1 + k] = inner[k]
        /\ DepthAfter(text, 0) = 0
        /\ \A k \in 0 .. Len(inner) : DepthAfter(text, 1 + k) = 1 + DepthAfter(inner, k)
        /\ DepthAfter(text, Len(inner) + 2) = 0
    BY <2>3, Enclosed
  <2>5. Len(inner) + 2 + 0 = Len(inner) + 2
    BY <1>1
  <2> QED BY <2>3, <2>4, <2>5
<1> HIDE DEF text
<1>4. /\ \A k \in 0 .. n : DepthAfter(inner, k) >= 0 /\ DepthAfter(inner, k) \in Int
      /\ \A p \in 1 .. n - 1 : ~(inner[p] = Comma /\ inner[p + 1] = Comma)
  BY DepthIsCounted DEF Sound
<1>5. Open # Comma /\ Close # Comma
  BY DEF Open, Close, Comma
<1>6. ASSUME NEW p \in 1 .. n + 2
      PROVE  p = 1 \/ p = n + 2 \/ (p - 1 \in 1 .. n /\ 1 + (p - 1) = p)
  BY <1>1
<1>7. ASSUME NEW p \in 1 .. n + 2, text[p] = Comma PROVE p - 1 \in 1 .. n /\ inner[p - 1] = Comma /\ 1 + (p - 1) = p
  BY <1>3, <1>5, <1>6, <1>7
<1>8. ASSUME NEW p \in 0 .. n + 2 PROVE DepthAfter(text, p) >= 0
  <2>1. CASE p = 0
    BY <1>3, <2>1
  <2>2. CASE p = n + 2
    BY <1>3, <2>2
  <2>3. CASE p # 0 /\ p # n + 2
    <3>1. p - 1 \in 0 .. n /\ 1 + (p - 1) = p
      BY <1>1, <2>3
    <3>2. DepthAfter(text, p) = 1 + DepthAfter(inner, p - 1)
      BY <1>3, <3>1
    <3> QED BY <1>4, <3>1, <3>2
  <2> QED BY <2>1, <2>2, <2>3
<1>9. ASSUME NEW p \in 1 .. n + 2, text[p] = Comma PROVE DepthAfter(text, p) >= 1
  <2>1. p - 1 \in 0 .. n /\ 1 + (p - 1) = p
    BY <1>7, <1>9
  <2>2. DepthAfter(text, p) = 1 + DepthAfter(inner, p - 1)
    BY <1>3, <2>1
  <2> QED BY <1>4, <2>1, <2>2
<1>10. ASSUME NEW p \in 1 .. (n + 2) - 1, text[p] = Comma, text[p + 1] = Comma PROVE FALSE
  <2>1. p \in 1 .. n + 2 /\ p + 1 \in 1 .. n + 2 /\ (p + 1) - 1 = (p - 1) + 1
    BY <1>1
  <2>2. p - 1 \in 1 .. n /\ inner[p - 1] = Comma /\ (p + 1) - 1 \in 1 .. n /\ inner[(p + 1) - 1] = Comma
    BY <1>7, <1>10, <2>1
  <2>3. p - 1 \in 1 .. n - 1 /\ inner[(p - 1) + 1] = Comma
    BY <1>1, <2>1, <2>2
  <2> QED BY <1>4, <2>2, <2>3
<1>11. n + 2 > 0 /\ n + 2 >= 1
  BY <1>1
<1>12. Sound(text, n + 2)
  BY <1>3, <1>5, <1>8, <1>10 DEF Sound
<1>13. Closed(text)
  BY <1>3, <1>9, <1>11, <1>12 DEF Closed
<1> QED BY <1>13 DEF text

\* What is between the parentheses.
LEMMA InnerIs ==
  ASSUME NEW inner \in Seq(Words), Sound(inner, Len(inner))
  PROVE  /\ <<Open>> \o inner \o <<Close>> \in Seq(Words)
         /\ Len(<<Open>> \o inner \o <<Close>>) = Len(inner) + 2 /\ Len(inner) \in Nat
         /\ (<<Open>> \o inner \o <<Close>>)[1] = Open
         /\ (<<Open>> \o inner \o <<Close>>)[Len(inner) + 2] = Close
         /\ SubSeq(<<Open>> \o inner \o <<Close>>, 2, Len(inner) + 1) = inner
<1> DEFINE text == <<Open>> \o inner \o <<Close>>
           rest == <<>>
<1>1. text \in Seq(Words) /\ rest \in Seq(Words) /\ Len(rest) = 0 /\ Len(inner) \in Nat
  BY DEF Words
<1>2. text = Enclosing(inner, rest)
  BY <1>1 DEF Enclosing
<1> HIDE DEF text, rest
<1>3. /\ Len(text) = Len(inner) + 2 + Len(rest)
      /\ text[1] = Open /\ text[Len(inner) + 2] = Close
      /\ \A k \in 1 .. Len(inner) : text[1 + k] = inner[k]
  BY <1>1, <1>2, Enclosed, ZenonT(60)
<1>4. Len(text) = Len(inner) + 2 /\ 1 + Len(inner) <= Len(text)
  BY <1>1, <1>3
<1>5. SubSeq(text, 1 + 1, 1 + Len(inner)) = inner
  BY <1>1, <1>3, <1>4, SliceIs
<1>6. 1 + 1 = 2 /\ 1 + Len(inner) = Len(inner) + 1
  BY <1>1
<1>7. SubSeq(text, 2, Len(inner) + 1) = inner
  BY <1>5, <1>6
<1> QED BY <1>1, <1>3, <1>4, <1>7 DEF text

\* What is read in the parentheses (parseTupleContent).
LEMMA SoundIsRead ==
  ASSUME NEW text \in Seq(Words), Sound(text, Len(text))
  PROVE  ~IsMalformed(text)
<1>1. Len(text) \in Nat /\ (text # <<>> => Len(text) > 0)
  BY ElementIs
<1> QED BY <1>1 DEF IsMalformed, Sound

-----------------------------------------------------------------------------
(* The texts of types *)

\* A type that is read from its text, which is a string of a tuple.
TextIsRead(type) == Closed(TextOf[type]) /\ From[TextOf[type]] = type

\* What throws is no type.
LEMMA NoTypeIsNone == NoType \notin Types
<1>1. \A type \in Types : type[1] \in {"uint", "byte", "bool", "address", "string", "array", "list", "tuple"}
  BY Kinds
<1>2. NoType[1] = "throws"
  BY DEF NoType
<1> QED BY <1>1, <1>2

\* The words are different from each other.
LEMMA WordsDiffer ==
  /\ \A word \in SimpleTypes : word \in Words \ {Comma, Open, Close}
  /\ \A word \in {Void} \cup ReferenceTypes \cup TransactionTypes :
       word \in Words \ {Comma, Open, Close} /\ word \notin SimpleTypes
  /\ \A n \in Nat : <<OpenArray, CloseArray>> \in Seq(Words \ {Comma, Open, Close})
                    /\ <<OpenArray, Digits(n), CloseArray>> \in Seq(Words \ {Comma, Open, Close})
  /\ OpenArray # Close /\ CloseArray # Close /\ \A n : Digits(n) # OpenArray
  /\ Void \notin ReferenceTypes \cup TransactionTypes
<1>1. ASSUME NEW word \in SimpleTypes PROVE word \in Words \ {Comma, Open, Close}
  <2>1. word[1] \in {"uint", "byte", "bool", "address", "string"}
    BY SimpleCases
  <2>2. Comma[1] = "," /\ Open[1] = "(" /\ Close[1] = ")"
    BY DEF Comma, Open, Close
  <2> QED BY <2>1, <2>2 DEF Words
<1>2. ASSUME NEW word \in {Void} \cup ReferenceTypes \cup TransactionTypes
      PROVE  word \in Words \ {Comma, Open, Close} /\ word \notin SimpleTypes
  <2>1. word[1] \in {"void", "account", "application", "asset",
                     "txn", "pay", "keyreg", "acfg", "axfer", "afrz", "appl"}
    BY DEF Void, ReferenceTypes, TransactionTypes
  <2>2. Comma[1] = "," /\ Open[1] = "(" /\ Close[1] = ")"
    BY DEF Comma, Open, Close
  <2>3. \A type \in SimpleTypes : type[1] \in {"uint", "byte", "bool", "address", "string"}
    BY SimpleCases
  <2> QED BY <2>1, <2>2, <2>3 DEF Words
<1>3. ASSUME NEW n \in Nat
      PROVE  {OpenArray, CloseArray, Digits(n)} \subseteq Words \ {Comma, Open, Close}
  <2>1. Comma[1] = "," /\ Open[1] = "(" /\ Close[1] = ")" /\ OpenArray[1] = "[" /\ CloseArray[1] = "]" /\ Digits(n)[1] = "digits"
    BY DEF Comma, Open, Close, OpenArray, CloseArray, Digits
  <2>2. {OpenArray, CloseArray, Digits(n)} \subseteq Words
    BY DEF Words, Digits
  <2> QED BY <2>1, <2>2
<1>4. ASSUME NEW n \in Nat
      PROVE  /\ <<OpenArray, CloseArray>> \in Seq(Words \ {Comma, Open, Close})
             /\ <<OpenArray, Digits(n), CloseArray>> \in Seq(Words \ {Comma, Open, Close})
  <2> DEFINE W == Words \ {Comma, Open, Close}
             a == OpenArray
             b == CloseArray
             d == Digits(n)
  <2>1. a \in W /\ b \in W /\ d \in W
    BY <1>3
  <2> HIDE DEF W, a, b, d
  <2>2. <<a, b>> \in Seq(W) /\ <<a, d, b>> \in Seq(W)
    BY <2>1
  <2> QED BY <2>2 DEF W, a, b, d
<1>5. OpenArray # Close /\ CloseArray # Close /\ \A n : Digits(n) # OpenArray
  <2>1. /\ Close[1] = ")" /\ OpenArray[1] = "[" /\ CloseArray[1] = "]"
        /\ \A n : Digits(n)[1] = "digits"
    BY DEF Close, OpenArray, CloseArray, Digits
  <2> QED BY <2>1
<1>6. Void \notin ReferenceTypes \cup TransactionTypes
  <2>1. Void[1] = "void"
    BY DEF Void
  <2>2. \A word \in ReferenceTypes \cup TransactionTypes :
          word[1] \in {"account", "application", "asset",
                       "txn", "pay", "keyreg", "acfg", "axfer", "afrz", "appl"}
    BY DEF ReferenceTypes, TransactionTypes
  <2> QED BY <2>1, <2>2
<1> QED BY <1>1, <1>2, <1>4, <1>5, <1>6

\* What from does with a text.
LEMMA FromDoes ==
  ASSUME NEW text \in Seq(Words)
  PROVE  From[text] = TypeFrom(text, From)
BY FromIs

\* The text of a simple type is its name.
LEMMA SimpleText ==
  ASSUME NEW type \in SimpleTypes
  PROVE  TextOf[type] = <<type>> /\ TextIsRead(type)
<1>1. type \in Types /\ type \in Words \ {Comma, Open, Close}
  BY SimpleTypesAreTypes, WordsDiffer
<1>2. TextOf[type] = <<type>>
  <2>1. type[1] \notin {"array", "list", "tuple"}
    BY SimpleCases
  <2>2. TextOf[type] = TextAs(type, TextOf)
    BY <1>1, TextOfIs
  <2>3. TextAs(type, TextOf) = <<type>>
    BY <2>1 DEF TextAs
  <2> QED BY <2>2, <2>3
<1> DEFINE t == <<type>>
<1>3. t \in Seq(Words) /\ Len(t) = 1 /\ t[1] = type
  BY <1>1
<1> HIDE DEF t
<1>4. TypeFrom(t, From) = type
  <2>1. ~EndsAsList(t) /\ ~EndsAsArray(t) /\ ~IsInParentheses(t)
    BY <1>3 DEF EndsAsList, EndsAsArray, IsInParentheses
  <2>2. Len(t) = 1 /\ t[1] \in SimpleTypes
    BY <1>3
  <2> QED BY <1>3, <2>1, <2>2 DEF TypeFrom
<1>5. From[t] = type
  BY <1>3, <1>4, FromDoes
<1>6. Closed(<<type>>)
  BY <1>1, WordIsClosed
<1>7. TextOf[type] = t
  BY <1>2 DEF t
<1> QED BY <1>2, <1>5, <1>6, <1>7 DEF TextIsRead

\* What is written behind a text is found there, and the text before it.
LEMMA EndingIs ==
  ASSUME NEW t \in Seq(Words), NEW ending \in Seq(Words)
  PROVE  /\ t \o ending \in Seq(Words) /\ Len(t \o ending) = Len(t) + Len(ending)
         /\ \A k \in 1 .. Len(ending) : (t \o ending)[Len(t) + k] = ending[k]
         /\ SubSeq(t \o ending, 1, Len(t)) = t
<1> DEFINE text == t \o ending
<1>1. /\ text \in Seq(Words) /\ Len(text) = Len(t) + Len(ending)
      /\ Len(t) \in Nat /\ Len(ending) \in Nat
      /\ \A k \in 1 .. Len(t) : text[k] = t[k]
      /\ \A k \in 1 .. Len(ending) : text[Len(t) + k] = ending[k]
  BY JoinedIs
<1> HIDE DEF text
<1>2. SubSeq(text, 0 + 1, 0 + Len(t)) = t
  <2>1. 0 \in Nat /\ 0 + Len(t) <= Len(text) /\ \A k \in 1 .. Len(t) : text[0 + k] = t[k]
    BY <1>1
  <2> QED BY <1>1, <2>1, SliceIs
<1>3. SubSeq(text, 1, Len(t)) = t
  <2>1. 0 + 1 = 1 /\ 0 + Len(t) = Len(t)
    BY <1>1
  <2> QED BY <1>2, <2>1
<1> QED BY <1>1, <1>3 DEF text

\* Lists: the text of the type inside, and brackets.
LEMMA ListText ==
  ASSUME NEW type \in Types, NEW child \in Types, type = List(child), TextIsRead(child)
  PROVE  TextIsRead(type)
<1> DEFINE t == TextOf[child]
           ending == <<OpenArray, CloseArray>>
           text == t \o ending
<1>1. TextOf[type] = text
  <2>1. TextOf[type] = TextAs(type, TextOf)
    BY TextOfIs
  <2>2. type[1] = "list" /\ type[2] = child
    BY DEF List
  <2> QED BY <2>1, <2>2 DEF TextAs
<1>2. Closed(t) /\ t \in Seq(Words) /\ Len(t) \in Nat /\ Len(t) >= 1 /\ From[t] = child
  BY DEF TextIsRead, Closed
<1>3. /\ ending \in Seq(Words \ {Comma, Open, Close}) /\ ending \in Seq(Words)
      /\ Len(ending) = 2 /\ ending[1] = OpenArray /\ ending[2] = CloseArray
  BY WordsDiffer
<1> HIDE DEF t, ending
<1>4. Closed(text)
  BY <1>2, <1>3, EndedIsClosed
<1>5. /\ text \in Seq(Words) /\ Len(text) = Len(t) + Len(ending)
      /\ \A k \in 1 .. Len(ending) : text[Len(t) + k] = ending[k]
      /\ SubSeq(text, 1, Len(t)) = t
  BY <1>2, <1>3, EndingIs
<1> HIDE DEF text
<1>6. /\ Len(text) > 2 /\ Len(text) - 2 = Len(t) /\ Len(text) - 1 = Len(t) + 1
      /\ Len(text) = Len(t) + 2 /\ Len(text) # 1
  BY <1>2, <1>3, <1>5
<1>7. text[Len(t) + 1] = OpenArray /\ text[Len(t) + 2] = CloseArray
  BY <1>3, <1>5
<1>8. EndsAsList(text)
  BY <1>6, <1>7 DEF EndsAsList
<1>9. ~EndsAsArray(text)
  <2>1. text[Len(text) - 1][1] # "digits"
    BY <1>6, <1>7 DEF OpenArray
  <2> QED BY <2>1 DEF EndsAsArray
<1>10. ~IsInParentheses(text)
  <2>1. text[Len(text)] # Close
    BY <1>6, <1>7, WordsDiffer
  <2> QED BY <2>1 DEF IsInParentheses
<1>11. TypeFrom(text, From) = ListOf(From[SubSeq(text, 1, Len(text) - 2)])
  BY <1>6, <1>8, <1>9, <1>10 DEF TypeFrom
<1>12. From[SubSeq(text, 1, Len(text) - 2)] = child
  BY <1>2, <1>5, <1>6
<1>13. From[text] = type
  BY <1>5, <1>11, <1>12, FromDoes, NoTypeIsNone DEF ListOf
<1> QED BY <1>1, <1>4, <1>13 DEF TextIsRead

\* Arrays: their length is between the brackets.
LEMMA ArrayText ==
  ASSUME NEW type \in Types, NEW child \in Types, NEW length \in 0 .. MaxLen,
         type = Array(child, length), TextIsRead(child)
  PROVE  TextIsRead(type)
<1> DEFINE t == TextOf[child]
           ending == <<OpenArray, Digits(length), CloseArray>>
           text == t \o ending
<1>1. TextOf[type] = text
  <2>1. TextOf[type] = TextAs(type, TextOf)
    BY TextOfIs
  <2>2. type[1] = "array" /\ type[2] = child /\ type[3] = length
    BY DEF Array
  <2> QED BY <2>1, <2>2 DEF TextAs
<1>2. Closed(t) /\ t \in Seq(Words) /\ Len(t) \in Nat /\ Len(t) >= 1 /\ From[t] = child
  BY DEF TextIsRead, Closed
<1>3. /\ ending \in Seq(Words \ {Comma, Open, Close}) /\ ending \in Seq(Words)
      /\ Len(ending) = 3 /\ ending[1] = OpenArray /\ ending[2] = Digits(length) /\ ending[3] = CloseArray
  <2>1. length \in Nat
    BY BaseIs
  <2> QED BY <2>1, WordsDiffer
<1> HIDE DEF t, ending
<1>4. Closed(text)
  BY <1>2, <1>3, EndedIsClosed
<1>5. /\ text \in Seq(Words) /\ Len(text) = Len(t) + Len(ending)
      /\ \A k \in 1 .. Len(ending) : text[Len(t) + k] = ending[k]
      /\ SubSeq(text, 1, Len(t)) = t
  BY <1>2, <1>3, EndingIs
<1> HIDE DEF text
<1>6. /\ Len(text) > 3 /\ Len(text) - 3 = Len(t) /\ Len(text) - 2 = Len(t) + 1
      /\ Len(text) - 1 = Len(t) + 2 /\ Len(text) = Len(t) + 3 /\ Len(text) # 1
  BY <1>2, <1>3, <1>5
<1>7. text[Len(t) + 1] = OpenArray /\ text[Len(t) + 2] = Digits(length) /\ text[Len(t) + 3] = CloseArray
  BY <1>3, <1>5
<1>8. Digits(length)[1] = "digits" /\ Digits(length)[2] = length
  BY DEF Digits
<1>9. EndsAsArray(text)
  <2>1. text[Len(text) - 1][1] = "digits"
    BY <1>6, <1>7, <1>8
  <2> QED BY <1>6, <1>7, <2>1 DEF EndsAsArray
<1>10. ~EndsAsList(text)
  <2>1. text[Len(text) - 1] # OpenArray
    BY <1>6, <1>7, WordsDiffer
  <2> QED BY <2>1 DEF EndsAsList
<1>11. ~IsInParentheses(text)
  <2>1. text[Len(text)] # Close
    BY <1>6, <1>7, WordsDiffer
  <2> QED BY <2>1 DEF IsInParentheses
<1>12. TypeFrom(text, From) = ArrayOfLength(From[SubSeq(text, 1, Len(text) - 3)], text[Len(text) - 1][2])
  BY <1>6, <1>9, <1>10, <1>11 DEF TypeFrom
<1>13. From[SubSeq(text, 1, Len(text) - 3)] = child /\ text[Len(text) - 1][2] = length
  BY <1>2, <1>5, <1>6, <1>7, <1>8
<1>14. ~(length > MaxLen) /\ child # NoType
  BY BaseIs, NoTypeIsNone
<1>15. From[text] = type
  BY <1>5, <1>12, <1>13, <1>14, FromDoes DEF ArrayOfLength
<1> QED BY <1>1, <1>4, <1>15 DEF TextIsRead

\* Tuples: the texts of the types inside, between parentheses.
LEMMA TupleText ==
  ASSUME NEW type \in Types, NEW types \in Seq(Types), Len(types) < MaxLen, type = Tuple(types),
         \A i \in 1 .. Len(types) : TextIsRead(types[i])
  PROVE  TextIsRead(type)
<1> DEFINE texts == [i \in DOMAIN types |-> TextOf[types[i]]]
           inner == JoinTexts(texts)
           text == InParentheses(texts)
<1>1. TextOf[type] = text
  <2>1. TextOf[type] = TextAs(type, TextOf)
    BY TextOfIs
  <2>2. type[1] = "tuple" /\ type[2] = types
    BY DEF Tuple
  <2> QED BY <2>1, <2>2 DEF TextAs
<1>2. Len(types) \in Nat /\ DOMAIN types = 1 .. Len(types) /\ \A i \in 1 .. Len(types) : types[i] \in Types
  BY ElementIs
<1>3. \A i \in 1 .. Len(types) :
        texts[i] = TextOf[types[i]] /\ Closed(texts[i]) /\ texts[i] \in Seq(Words) /\ From[texts[i]] = types[i]
  BY <1>2 DEF TextIsRead, Closed
<1>4. texts \in Seq(Seq(Words)) /\ Len(texts) = Len(types) /\ DOMAIN texts = 1 .. Len(types)
  <2> DEFINE W == Seq(Words)
             n == Len(types)
  <2>1. texts = [i \in 1 .. n |-> texts[i]]
    BY <1>2
  <2>2. \A i \in 1 .. n : texts[i] \in W
    BY <1>3
  <2>3. n \in Nat
    BY <1>2
  <2> HIDE DEF texts, W, n
  <2>4. texts \in Seq(W) /\ Len(texts) = n /\ DOMAIN texts = 1 .. n
    BY <2>1, <2>2, <2>3
  <2> QED BY <2>4 DEF W, n
<1>5. text = <<Open>> \o inner \o <<Close>>
  BY DEF InParentheses
<1> HIDE DEF texts
<1>6. inner \in Seq(Words) /\ Sound(inner, Len(inner)) /\ ParseTupleContent(inner) = texts
  BY <1>3, <1>4, TextsAreParsed
<1> HIDE DEF inner, text
<1>7. Closed(text)
  <2>1. Closed(<<Open>> \o inner \o <<Close>>)
    BY <1>6, EnclosedIsClosed
  <2> QED BY <1>5, <2>1
<1>8. /\ text \in Seq(Words) /\ Len(text) = Len(inner) + 2 /\ Len(inner) \in Nat
      /\ text[1] = Open /\ text[Len(inner) + 2] = Close
      /\ SubSeq(text, 2, Len(inner) + 1) = inner
  BY <1>5, <1>6, InnerIs
<1>9. Len(text) > 1 /\ Len(text) - 1 = Len(inner) + 1 /\ Len(text) # 1
  BY <1>8
<1>10. IsInParentheses(text)
  BY <1>8, <1>9 DEF IsInParentheses
<1>11. ~EndsAsList(text) /\ ~EndsAsArray(text)
  <2>1. text[Len(text)] # CloseArray
    BY <1>8, WordsDiffer
  <2> QED BY <2>1 DEF EndsAsList, EndsAsArray
<1>12. TypeFrom(text, From) = TupleFrom(SubSeq(text, 2, Len(text) - 1), From)
  BY <1>9, <1>10, <1>11 DEF TypeFrom
<1>13. From[text] = TupleFrom(inner, From)
  BY <1>8, <1>9, <1>12, FromDoes
<1>14. TupleFrom(inner, From) = TupleOfTypes([i \in DOMAIN texts |-> From[texts[i]]])
  <2>1. ~IsMalformed(inner)
    BY <1>6, SoundIsRead
  <2> QED BY <1>6, <2>1 DEF TupleFrom
<1>15. [i \in DOMAIN texts |-> From[texts[i]]] = types
  <2> DEFINE read == [i \in DOMAIN texts |-> From[texts[i]]]
  <2>1. read = [i \in 1 .. Len(types) |-> types[i]]
    BY <1>3, <1>4
  <2>2. types = [i \in 1 .. Len(types) |-> types[i]]
    OBVIOUS
  <2> QED BY <2>1, <2>2
<1>16. TupleOfTypes(types) = type
  <2>1. NoType \notin Range(types)
    BY <1>2, NoTypeIsNone DEF Range
  <2>2. ~(Len(types) >= MaxLen)
    BY <1>2, BaseIs
  <2> QED BY <2>1, <2>2 DEF TupleOfTypes
<1> QED BY <1>1, <1>7, <1>13, <1>14, <1>15, <1>16 DEF TextIsRead

-----------------------------------------------------------------------------
(* Types and signatures are read from their texts *)

\* The text of every type is read as the type (ABIType.from of toString),
\* whatever is inside it and however deep.
THEOREM TypesAreReadFromText == \A type \in Types : TextIsRead(type)
<1> DEFINE S == {type \in Types : TextIsRead(type)}
<1>1. SimpleTypes \subseteq S
  BY SimpleText, SimpleTypesAreTypes
<1>2. ASSUME NEW type \in TypesOf(S \cap Types) \cap Types PROVE type \in S
  <2>1. CASE type[1] = "array" /\ type[2] \in S /\ type[3] \in 0 .. MaxLen /\ type = Array(type[2], type[3])
    <3>1. type[2] \in Types /\ TextIsRead(type[2])
      BY <2>1
    <3>2. TextIsRead(type)
      BY <2>1, <3>1, ArrayText
    <3> QED BY <3>2
  <2>2. CASE type[1] = "list" /\ type[2] \in S /\ type = List(type[2])
    <3>1. type[2] \in Types /\ TextIsRead(type[2])
      BY <2>2
    <3>2. TextIsRead(type)
      BY <2>2, <3>1, ListText
    <3> QED BY <3>2
  <2>3. CASE /\ type[1] = "tuple" /\ type[2] \in Seq(S \cap Types) /\ Len(type[2]) < MaxLen
             /\ type = Tuple(type[2])
    <3>1. type[2] \in Seq(Types) /\ \A i \in 1 .. Len(type[2]) : TextIsRead(type[2][i])
      BY <2>3
    <3>2. TextIsRead(type)
      BY <2>3, <3>1, TupleText
    <3> QED BY <3>2
  <2> HIDE DEF S
  <2>4. \/ type[1] = "array" /\ type[2] \in S \cap Types /\ type[3] \in 0 .. MaxLen /\ type = Array(type[2], type[3])
        \/ type[1] = "list" /\ type[2] \in S \cap Types /\ type = List(type[2])
        \/ /\ type[1] = "tuple" /\ type[2] \in Seq(S \cap Types) /\ Len(type[2]) < MaxLen
           /\ type = Tuple(type[2])
    BY CompositeCases
  <2> QED BY <2>1, <2>2, <2>3, <2>4
<1>3. Types \subseteq S
  <2> HIDE DEF S
  <2> QED BY <1>1, <1>2, TypeInduction
<1> QED BY <1>3

\* The text of a type is no other word.
LEMMA TextIsNoWord ==
  ASSUME NEW type \in Types, NEW word \in {Void} \cup ReferenceTypes \cup TransactionTypes
  PROVE  TextOf[type] # <<word>>
<1>1. From[TextOf[type]] = type
  BY TypesAreReadFromText DEF TextIsRead
<1>2. From[<<word>>] = NoType
  <2> DEFINE t == <<word>>
  <2>1. t \in Seq(Words) /\ Len(t) = 1 /\ t[1] = word /\ word \notin SimpleTypes
    BY WordsDiffer
  <2> HIDE DEF t
  <2>2. ~EndsAsList(t) /\ ~EndsAsArray(t) /\ ~IsInParentheses(t)
    BY <2>1 DEF EndsAsList, EndsAsArray, IsInParentheses
  <2>3. ~(Len(t) = 1 /\ t[1] \in SimpleTypes)
    BY <2>1
  <2>4. TypeFrom(t, From) = NoType
    BY <2>2, <2>3 DEF TypeFrom
  <2>5. From[t] = NoType
    BY <2>1, <2>4, FromDoes
  <2> QED BY <2>5 DEF t
<1> QED BY <1>1, <1>2, NoTypeIsNone

\* What may be an argument of a method.
ArgTypes == Types \cup ReferenceTypes \cup TransactionTypes

\* An argument in a signature.
LEMMA ArgIsRead ==
  ASSUME NEW type \in ArgTypes
  PROVE  Closed(ArgText(type)) /\ ArgTypeFrom(ArgText(type)) = type
<1>1. CASE type \in ReferenceTypes \cup TransactionTypes
  <2>1. ArgText(type) = <<type>>
    BY <1>1 DEF ArgText
  <2>2. Closed(<<type>>)
    BY <1>1, WordsDiffer, WordIsClosed
  <2>3. Len(<<type>>) = 1 /\ <<type>>[1] = type
    OBVIOUS
  <2> QED BY <1>1, <2>1, <2>2, <2>3 DEF ArgTypeFrom
<1>2. CASE type \notin ReferenceTypes \cup TransactionTypes
  <2>1. type \in Types /\ ArgText(type) = TextOf[type]
    BY <1>2 DEF ArgText, ArgTypes
  <2>2. TextIsRead(type)
    BY <2>1, TypesAreReadFromText
  <2>3. ~(Len(TextOf[type]) = 1 /\ TextOf[type][1] \in ReferenceTypes \cup TransactionTypes)
    <3> DEFINE t == TextOf[type]
    <3>1. t \in Seq(Words)
      BY <2>2 DEF TextIsRead, Closed
    <3>2. \A word \in ReferenceTypes \cup TransactionTypes : t # <<word>>
      BY <2>1, TextIsNoWord
    <3> HIDE DEF t
    <3>3. Len(t) = 1 => t = <<t[1]>>
      BY <3>1
    <3>4. ~(Len(t) = 1 /\ t[1] \in ReferenceTypes \cup TransactionTypes)
      BY <3>2, <3>3
    <3> QED BY <3>4 DEF t
  <2> QED BY <2>1, <2>2, <2>3 DEF ArgTypeFrom, TextIsRead
<1> QED BY <1>1, <1>2

\* What a method returns, in its signature.
LEMMA ReturnIsReadFromText ==
  ASSUME NEW type \in Types \cup {Void}
  PROVE  ReturnText(type) \in Seq(Words) /\ ReturnTypeFrom(ReturnText(type)) = type
<1>1. CASE type = Void
  <2>1. <<Void>> \in Seq(Words)
    BY WordsDiffer
  <2> QED BY <1>1, <2>1 DEF ReturnText, ReturnTypeFrom
<1>2. CASE type # Void
  <2>1. type \in Types /\ ReturnText(type) = TextOf[type]
    BY <1>2 DEF ReturnText
  <2>2. TextOf[type] # <<Void>>
    BY <2>1, TextIsNoWord
  <2>3. TextOf[type] \in Seq(Words) /\ From[TextOf[type]] = type
    BY <2>1, TypesAreReadFromText DEF TextIsRead, Closed
  <2> QED BY <2>1, <2>2, <2>3 DEF ReturnTypeFrom
<1> QED BY <1>1, <1>2

\* The parenthesis that closes the first is the one that was written there.
LEMMA ArgsEndIs ==
  ASSUME NEW inner \in Seq(Words), Sound(inner, Len(inner)), NEW rest \in Seq(Words)
  PROVE  ArgsEnd(Enclosing(inner, rest)) = Len(inner) + 2
<1> DEFINE text == Enclosing(inner, rest)
           end == Len(inner) + 2
           IsEnd(i) == DepthAfter(text, i) = 0 /\ \A j \in 1 .. i - 1 : DepthAfter(text, j) # 0
<1>1. Len(inner) \in Nat /\ Len(rest) \in Nat
  BY ElementIs
<1>2. /\ text \in Seq(Words) /\ Len(text) = Len(inner) + 2 + Len(rest)
      /\ \A k \in 0 .. Len(inner) : DepthAfter(text, 1 + k) = 1 + DepthAfter(inner, k)
      /\ DepthAfter(text, end) = 0
  BY Enclosed
<1>3. \A k \in 0 .. Len(inner) : DepthAfter(inner, k) >= 0 /\ DepthAfter(inner, k) \in Int
  BY DepthIsCounted DEF Sound
<1> HIDE DEF text
<1>4. end \in DOMAIN text /\ DOMAIN text \subseteq Nat \ {0}
  <2>1. DOMAIN text = 1 .. Len(text)
    BY <1>2
  <2> QED BY <1>1, <1>2, <2>1
<1>5. ASSUME NEW j \in 1 .. end - 1 PROVE DepthAfter(text, j) # 0
  <2>1. j - 1 \in 0 .. Len(inner) /\ 1 + (j - 1) = j
    BY <1>1
  <2>2. DepthAfter(text, j) = 1 + DepthAfter(inner, j - 1)
    BY <1>2, <2>1
  <2> QED BY <1>3, <2>1, <2>2
<1>6. IsEnd(end)
  BY <1>2, <1>5
<1>7. ASSUME NEW i \in DOMAIN text, IsEnd(i) PROVE i = end
  <2>1. i \in Nat \ {0} /\ end \in Nat \ {0}
    BY <1>4
  <2> HIDE DEF end
  <2>2. ~(i < end)
    <3>1. SUFFICES ASSUME i < end PROVE FALSE
      OBVIOUS
    <3>2. i \in 1 .. end - 1
      BY <2>1, <3>1
    <3> QED BY <1>5, <1>7, <3>2
  <2>3. ~(end < i)
    <3>1. SUFFICES ASSUME end < i PROVE FALSE
      OBVIOUS
    <3>2. end \in 1 .. i - 1
      BY <2>1, <3>1
    <3> QED BY <1>2, <1>7, <3>2
  <2> QED BY <2>1, <2>2, <2>3
<1>8. ArgsEnd(text) = CHOOSE i \in DOMAIN text : IsEnd(i)
  BY DEF ArgsEnd
<1> HIDE DEF IsEnd, end
<1>9. ArgsEnd(text) = end
  BY <1>4, <1>6, <1>7, <1>8
<1> QED BY <1>9 DEF text, end

\* The signature of every method is read as the method (getSignature,
\* fromSignature): the types of its arguments, in their order, and what it returns.
THEOREM SignaturesAreRead ==
  ASSUME NEW types \in Seq(ArgTypes), NEW returns \in Types \cup {Void}
  PROVE  MethodFrom(SignatureOf([args |-> types, returns |-> returns]))
           = [args |-> types, returns |-> returns]
<1> DEFINE method == [args |-> types, returns |-> returns]
           texts == [i \in DOMAIN types |-> ArgText(types[i])]
           inner == JoinTexts(texts)
           rest == ReturnText(returns)
           text == Enclosing(inner, rest)
<1>1. SignatureOf(method) = text
  BY DEF SignatureOf, InParentheses, Enclosing
<1>2. Len(types) \in Nat /\ DOMAIN types = 1 .. Len(types) /\ \A i \in 1 .. Len(types) : types[i] \in ArgTypes
  BY ElementIs
<1>3. \A i \in 1 .. Len(types) :
        /\ texts[i] = ArgText(types[i]) /\ Closed(texts[i]) /\ texts[i] \in Seq(Words)
        /\ ArgTypeFrom(texts[i]) = types[i]
  BY <1>2, ArgIsRead DEF Closed
<1>4. texts \in Seq(Seq(Words)) /\ Len(texts) = Len(types) /\ DOMAIN texts = 1 .. Len(types)
  <2> DEFINE W == Seq(Words)
             n == Len(types)
  <2>1. texts = [i \in 1 .. n |-> texts[i]]
    BY <1>2
  <2>2. \A i \in 1 .. n : texts[i] \in W
    BY <1>3
  <2>3. n \in Nat
    BY <1>2
  <2> HIDE DEF texts, W, n
  <2>4. texts \in Seq(W) /\ Len(texts) = n /\ DOMAIN texts = 1 .. n
    BY <2>1, <2>2, <2>3
  <2> QED BY <2>4 DEF W, n
<1> HIDE DEF texts
<1>5. inner \in Seq(Words) /\ Sound(inner, Len(inner)) /\ ParseTupleContent(inner) = texts
  BY <1>3, <1>4, TextsAreParsed
<1>6. rest \in Seq(Words) /\ ReturnTypeFrom(rest) = returns
  BY ReturnIsReadFromText
<1> HIDE DEF inner, rest
<1>7. /\ text \in Seq(Words) /\ Len(text) = Len(inner) + 2 + Len(rest)
      /\ Len(inner) \in Nat /\ Len(rest) \in Nat
      /\ \A k \in 1 .. Len(inner) : text[1 + k] = inner[k]
      /\ \A k \in 1 .. Len(rest) : text[(Len(inner) + 2) + k] = rest[k]
  BY <1>5, <1>6, Enclosed, ElementIs
<1>8. ArgsEnd(text) = Len(inner) + 2
  BY <1>5, <1>6, ArgsEndIs
<1> HIDE DEF text
<1>9. SubSeq(text, 2, ArgsEnd(text) - 1) = inner
  <2>1. SubSeq(text, 1 + 1, 1 + Len(inner)) = inner
    <3>1. 1 \in Nat /\ 1 + Len(inner) <= Len(text)
      BY <1>7
    <3> QED BY <1>5, <1>7, <3>1, SliceIs
  <2>2. 1 + 1 = 2 /\ ArgsEnd(text) - 1 = 1 + Len(inner)
    BY <1>7, <1>8
  <2> QED BY <2>1, <2>2
<1>10. SubSeq(text, ArgsEnd(text) + 1, Len(text)) = rest
  <2>1. SubSeq(text, (Len(inner) + 2) + 1, (Len(inner) + 2) + Len(rest)) = rest
    <3>1. Len(inner) + 2 \in Nat /\ (Len(inner) + 2) + Len(rest) <= Len(text)
      BY <1>7
    <3> QED BY <1>6, <1>7, <3>1, SliceIs
  <2>2. Len(text) = (Len(inner) + 2) + Len(rest) /\ ArgsEnd(text) + 1 = (Len(inner) + 2) + 1
    BY <1>7, <1>8
  <2> QED BY <2>1, <2>2
<1>11. ~IsMalformed(inner)
  BY <1>5, SoundIsRead
<1>12. MethodFrom(text) = [args |-> [i \in DOMAIN texts |-> ArgTypeFrom(texts[i])],
                           returns |-> ReturnTypeFrom(rest)]
  BY <1>5, <1>9, <1>10, <1>11 DEF MethodFrom
<1>13. [i \in DOMAIN texts |-> ArgTypeFrom(texts[i])] = types
  <2>1. [i \in DOMAIN texts |-> ArgTypeFrom(texts[i])] = [i \in 1 .. Len(types) |-> types[i]]
    BY <1>3, <1>4
  <2>2. types = [i \in 1 .. Len(types) |-> types[i]]
    OBVIOUS
  <2> QED BY <2>1, <2>2
<1>14. MethodFrom(text) = method
  BY <1>6, <1>12, <1>13
<1> QED BY <1>1, <1>14
=============================================================================
