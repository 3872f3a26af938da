---------------------------- MODULE Foundations ----------------------------
(***************************************************************************)
(* What the proofs keep needing and the provers do not find.               *)
(*                                                                         *)
(* Division and remainder by a constant that is a parameter, which are     *)
(* products of two unknowns: every counter and buffer offset of the        *)
(* hashers is such a remainder.                                            *)
(*                                                                         *)
(* Induction, and the functions defined by it: every loop over the blocks  *)
(* of an input is one. Induction is stated with a set in place of a        *)
(* predicate, and follows from the least elements a well-founded relation  *)
(* has (WFMin), so that a proof can apply it by naming its set.            *)
(***************************************************************************)
EXTENDS Integers, Sequences, WellFoundedInduction, TLAPS

\* The multiples of m are at least m apart.
LEMMA MultiplesApart ==
    ASSUME NEW a \in Int, NEW b \in Int, NEW m \in Nat \ {0}, a > b
    PROVE  a * m >= b * m + m
<1>1. a * m = b * m + (a - b) * m  BY SMT
<1>2. (a - b) * m >= m  BY SMT
<1> QED  BY <1>1, <1>2

\* Division with remainder.
LEMMA DivMod ==
    ASSUME NEW x \in Int, NEW m \in Nat \ {0}
    PROVE  /\ x \div m \in Int
           /\ x % m \in 0 .. m - 1
           /\ x = (x \div m) * m + (x % m)
OBVIOUS

\* Where the quotient does not matter.
LEMMA ModRange ==
    ASSUME NEW x \in Int, NEW m \in Nat \ {0}
    PROVE  x % m \in 0 .. m - 1
OBVIOUS

\* The remainder is the only one in its range.
LEMMA ModUnique ==
    ASSUME NEW x \in Int, NEW m \in Nat \ {0}, NEW q \in Int, NEW r \in 0 .. m - 1,
           x = q * m + r
    PROVE  x % m = r /\ x \div m = q
<1> DEFINE d == x \div m
           e == x % m
<1>1. d \in Int /\ e \in 0 .. m - 1 /\ x = d * m + e  BY DivMod
<1> HIDE DEF d, e
<1>2. ~ (d > q)  BY <1>1, MultiplesApart
<1>3. ~ (q > d)  BY <1>1, MultiplesApart
<1>4. d = q  BY <1>1, <1>2, <1>3
<1>5. e = r  BY <1>1, <1>4
<1> QED  BY <1>4, <1>5 DEF d, e

\* A number below the divisor is its own remainder.
LEMMA ModSmall ==
    ASSUME NEW m \in Nat \ {0}, NEW x \in 0 .. m - 1
    PROVE  x % m = x
<1>1. x = 0 * m + x  OBVIOUS
<1> QED  BY <1>1, ModUnique

\* Adding a multiple of the divisor changes no remainder.
LEMMA ModAddMultiple ==
    ASSUME NEW x \in Int, NEW k \in Int, NEW m \in Nat \ {0}
    PROVE  (x + k * m) % m = x % m
<1> DEFINE d == x \div m
           e == x % m
<1>1. d \in Int /\ e \in 0 .. m - 1 /\ x = d * m + e  BY DivMod
<1> HIDE DEF d, e
<1>2. x + k * m = (d + k) * m + e  BY <1>1
<1>3. (x + k * m) % m = e  BY <1>1, <1>2, ModUnique
<1> QED  BY <1>3 DEF e

\* Only the remainder of a summand counts.
LEMMA ModSum ==
    ASSUME NEW x \in Int, NEW y \in Int, NEW m \in Nat \ {0}
    PROVE  (x + y) % m = ((x % m) + y) % m
<1> DEFINE d == x \div m
           e == x % m
<1>1. d \in Int /\ e \in 0 .. m - 1 /\ x = d * m + e  BY DivMod
<1> HIDE DEF d, e
<1> DEFINE z == e + y
<1>2. z \in Int /\ x + y = z + d * m  BY <1>1
<1> HIDE DEF z
<1>3. (z + d * m) % m = z % m  BY <1>1, <1>2, ModAddMultiple
<1>4. (x + y) % m = z % m  BY <1>2, <1>3
<1> QED  BY <1>4 DEF e, z

\* Dropping one divisor changes no remainder.
LEMMA ModDropOne ==
    ASSUME NEW x \in Int, NEW m \in Nat \ {0}
    PROVE  (x - m) % m = x % m
<1> DEFINE z == x - m
<1>1. z \in Int /\ x = z + 1 * m  OBVIOUS
<1> HIDE DEF z
<1> DEFINE d == z \div m
           e == z % m
<1>2. d \in Int /\ e \in 0 .. m - 1 /\ z = d * m + e  BY <1>1, DivMod
<1> HIDE DEF d, e
<1>3. x = (d + 1) * m + e  BY <1>1, <1>2
<1>4. x % m = e  BY <1>2, <1>3, ModUnique
<1> QED  BY <1>4 DEF z, e

\* Subtracting the remainder leaves a multiple.
LEMMA ModFloor ==
    ASSUME NEW x \in Nat, NEW m \in Nat \ {0}
    PROVE  /\ x - (x % m) \in 0 .. x
           /\ (x - (x % m)) % m = 0
<1> DEFINE d == x \div m
           e == x % m
<1>1. d \in Int /\ e \in 0 .. m - 1 /\ x = d * m + e  BY DivMod
<1> HIDE DEF d, e
<1> DEFINE z == x - e
<1>2. z \in Int /\ z = d * m + 0  BY <1>1
<1> HIDE DEF z
<1>3. z % m = 0  BY <1>1, <1>2, ModUnique
<1>4. d >= 0
  <2> SUFFICES ASSUME d < 0 PROVE FALSE  BY <1>1
  <2>1. 0 * m >= d * m + m  BY <1>1, MultiplesApart
  <2> QED  BY <1>1, <2>1
<1>5. d * m >= 0  BY <1>1, <1>4
<1> QED  BY <1>1, <1>2, <1>3, <1>5 DEF e, z

Divides(m, n) == \E k \in Nat : n = k * m

\* A counter that wraps at a multiple of m keeps its remainder by m.
LEMMA ModMod ==
    ASSUME NEW x \in Int, NEW m \in Nat \ {0}, NEW n \in Nat \ {0}, Divides(m, n)
    PROVE  (x % n) % m = x % m
<1>0. PICK k \in Nat : n = k * m  BY DEF Divides
<1> DEFINE d == x \div n
           e == x % n
<1>1. d \in Int /\ e \in 0 .. n - 1 /\ x = d * n + e  BY DivMod
<1> HIDE DEF d, e
<1> DEFINE j == d * k
<1>2. j \in Int /\ d * n = j * m  BY <1>0, <1>1
<1> HIDE DEF j
<1>3. x = e + j * m  BY <1>1, <1>2
<1> DEFINE f == e \div m
           r == e % m
<1>e. e \in Int  BY <1>1
<1>4. f \in Int /\ r \in 0 .. m - 1 /\ e = f * m + r  BY <1>e, DivMod
<1> HIDE DEF f, r
<1>5. x = (f + j) * m + r  BY <1>1, <1>2, <1>3, <1>4
<1> DEFINE q == f + j
<1>6. q \in Int /\ x = q * m + r  BY <1>2, <1>4, <1>5
<1> HIDE DEF q
<1>7. x % m = r  BY <1>4, <1>6, ModUnique
<1> QED  BY <1>7 DEF e, r

\* Adding less than a word to a counter of one word wraps at most once, and
\* the result is below the summand exactly when it does.
LEMMA WrapSeen ==
    ASSUME NEW n \in Nat \ {0}, NEW t \in 0 .. n - 1, NEW y \in 0 .. n - 1
    PROVE  /\ (t + y) % n < y => t + y = n + ((t + y) % n)
           /\ (t + y) % n >= y => t + y = (t + y) % n
<1>1. CASE t + y < n
  <2>1. (t + y) % n = t + y  BY <1>1, ModSmall
  <2> QED  BY <2>1
<1>2. CASE t + y >= n
  <2>1. t + y - n \in 0 .. n - 1  BY <1>2
  <2>2. t + y = 1 * n + (t + y - n)  OBVIOUS
  <2>3. (t + y) % n = t + y - n  BY <2>1, <2>2, ModUnique
  <2> QED  BY <2>3
<1> QED  BY <1>1, <1>2

\* Two summands below the divisor that lead to the same remainder are equal.
LEMMA ModCancel ==
    ASSUME NEW m \in Nat \ {0}, NEW x \in Int,
           NEW y \in 0 .. m - 1, NEW z \in 0 .. m - 1,
           (x + y) % m = (x + z) % m
    PROVE  y = z
<1> DEFINE u == x + y
           v == x + z
           d == u \div m
           f == v \div m
           e == u % m
<1>1. u \in Int /\ v \in Int /\ v % m = e  OBVIOUS
<1>2. u - v = y - z  OBVIOUS
<1> HIDE DEF u, v
<1>3. d \in Int /\ e \in 0 .. m - 1 /\ u = d * m + e  BY <1>1, DivMod
<1>4. f \in Int /\ v = f * m + e
  <2>1. v % m \in 0 .. m - 1 /\ f \in Int /\ v = f * m + (v % m)  BY <1>1, DivMod
  <2> QED  BY <2>1, <1>1
<1> HIDE DEF d, e, f
<1>5. ~ (d > f)
  <2> SUFFICES ASSUME d > f PROVE FALSE  OBVIOUS
  <2>1. d * m >= f * m + m  BY <1>3, <1>4, MultiplesApart
  <2>2. d * m \in Int /\ f * m \in Int  BY <1>3, <1>4
  <2> QED  BY <2>1, <2>2, <1>2, <1>3, <1>4
<1>6. ~ (f > d)
  <2> SUFFICES ASSUME f > d PROVE FALSE  OBVIOUS
  <2>1. f * m >= d * m + m  BY <1>3, <1>4, MultiplesApart
  <2>2. d * m \in Int /\ f * m \in Int  BY <1>3, <1>4
  <2> QED  BY <2>1, <2>2, <1>2, <1>3, <1>4
<1>7. d = f  BY <1>3, <1>4, <1>5, <1>6
<1>8. u = v  BY <1>3, <1>4, <1>7
<1> QED  BY <1>1, <1>2, <1>8

\* A number of two digits: the high one below n, the low one below w.
LEMMA TwoDigits ==
    ASSUME NEW w \in Nat \ {0}, NEW h \in 0 .. w - 1, NEW l \in 0 .. w - 1
    PROVE  /\ w * w \in Nat \ {0}
           /\ h * w + l \in 0 .. w * w - 1
           /\ (h * w + l) \div w = h
           /\ (h * w + l) % w = l
<1>1. w * w \in Nat \ {0}
  <2>1. w * w >= 0 * w + w  BY MultiplesApart
  <2> QED  BY <2>1
<1>2. h * w \in Nat
  <2>1. CASE h = 0  BY <2>1
  <2>2. CASE h > 0
    <3>1. h * w >= 0 * w + w  BY <2>2, MultiplesApart
    <3> QED  BY <3>1
  <2> QED  BY <2>1, <2>2
<1>3. w * w >= h * w + w  BY MultiplesApart
<1> DEFINE x == h * w + l
<1>4. x \in Int /\ x = h * w + l  BY <1>2
<1>5. x \in 0 .. w * w - 1
  <2> DEFINE p == h * w
             q == w * w
  <2>1. p \in Nat /\ q \in Nat /\ q >= p + w /\ x = p + l  BY <1>1, <1>2, <1>3
  <2> HIDE DEF p, q, x
  <2>2. x \in 0 .. q - 1  BY <2>1
  <2> QED  BY <2>2 DEF q
<1> HIDE DEF x
<1>6. x % w = l /\ x \div w = h  BY <1>4, ModUnique
<1> QED  BY <1>1, <1>5, <1>6 DEF x

-----------------------------------------------------------------------------
(* Divisors *)

LEMMA DividesSum ==
    ASSUME NEW h \in Nat \ {0}, NEW a \in Nat, NEW b \in Nat, Divides(h, a), Divides(h, b)
    PROVE  Divides(h, a + b)
<1>1. PICK j \in Nat : a = j * h  BY DEF Divides
<1>2. PICK k \in Nat : b = k * h  BY DEF Divides
<1>3. a + b = (j + k) * h  BY <1>1, <1>2
<1>4. j + k \in Nat  OBVIOUS
<1> QED  BY <1>3, <1>4, Zenon DEF Divides

LEMMA DividesSelf == \A h \in Nat : Divides(h, h) /\ Divides(h, 0) /\ Divides(1, h)
<1> TAKE h \in Nat
<1>1. h = 1 * h /\ 0 = 0 * h /\ h = h * 1 /\ 1 \in Nat /\ 0 \in Nat  OBVIOUS
<1> QED  BY <1>1, Zenon DEF Divides

LEMMA DividesLess ==
    ASSUME NEW h \in Nat \ {0}, NEW m \in Nat, Divides(h, m), m > 0
    PROVE  h <= m
<1>1. PICK k \in Nat : m = k * h  BY DEF Divides
<1>2. k # 0
  <2> SUFFICES ASSUME k = 0 PROVE FALSE  OBVIOUS
  <2> QED  BY <1>1
<1>3. k * h >= 0 * h + h  BY <1>2, MultiplesApart
<1> QED  BY <1>1, <1>3

LEMMA DividesDifference ==
    ASSUME NEW h \in Nat \ {0}, NEW a \in Nat, NEW b \in Nat, b <= a, Divides(h, a), Divides(h, b)
    PROVE  Divides(h, a - b)
<1>1. PICK j \in Nat : a = j * h  BY DEF Divides
<1>2. PICK k \in Nat : b = k * h  BY DEF Divides
<1>3. a - b = (j - k) * h  BY <1>1, <1>2
<1>4. ~ (k > j)
  <2> SUFFICES ASSUME k > j PROVE FALSE  OBVIOUS
  <2>1. k * h >= j * h + h  BY MultiplesApart
  <2> QED  BY <1>1, <1>2, <2>1
<1>5. j - k \in Nat  BY <1>4
<1> QED  BY <1>3, <1>5, Zenon DEF Divides

LEMMA DividesTransitive ==
    ASSUME NEW g \in Nat, NEW h \in Nat, NEW m \in Nat, Divides(g, h), Divides(h, m)
    PROVE  Divides(g, m)
<1>1. PICK j \in Nat : h = j * g  BY DEF Divides
<1>2. PICK k \in Nat : m = k * h  BY DEF Divides
<1>3. m = (k * j) * g /\ k * j \in Nat  BY <1>1, <1>2
<1> QED  BY <1>3, Zenon DEF Divides

LEMMA DividesMod ==
    ASSUME NEW h \in Nat \ {0}, NEW m \in Nat
    PROVE  Divides(h, m) <=> m % h = 0
<1>1. ASSUME Divides(h, m) PROVE m % h = 0
  <2>1. PICK k \in Nat : m = k * h  BY <1>1 DEF Divides
  <2>2. m = k * h + 0 /\ 0 \in 0 .. h - 1 /\ k \in Int  BY <2>1
  <2> QED  BY <2>2, ModUnique
<1>2. ASSUME m % h = 0 PROVE Divides(h, m)
  <2> DEFINE d == m \div h
  <2>1. d \in Int /\ m = d * h + (m % h)  BY DivMod
  <2> HIDE DEF d
  <2>2. m = d * h  BY <1>2, <2>1
  <2>3. ~ (0 > d)
    <3> SUFFICES ASSUME 0 > d PROVE FALSE  OBVIOUS
    <3>1. 0 * h >= d * h + h  BY <2>1, MultiplesApart
    <3> QED  BY <2>1, <2>2, <3>1
  <2>4. d \in Nat  BY <2>1, <2>3
  <2> QED  BY <2>2, <2>4, Zenon DEF Divides
<1> QED  BY <1>1, <1>2

\* An odd multiple lies between two even ones.
LEMMA DividesOdd ==
    ASSUME NEW h \in Nat \ {0}, NEW m \in Nat, Divides(h, m), ~Divides(2 * h, m)
    PROVE  /\ h <= m /\ m - h \in Nat
           /\ Divides(2 * h, m - h) /\ Divides(2 * h, m + h)
<1>1. PICK k \in Nat : m = k * h  BY DEF Divides
<1> DEFINE d == k \div 2
           r == k % 2
<1>2. d \in Nat /\ r \in 0 .. 1 /\ k = 2 * d + r  OBVIOUS
<1> HIDE DEF d, r
<1>3. r # 0
  <2> SUFFICES ASSUME r = 0 PROVE FALSE  OBVIOUS
  <2>1. m = d * (2 * h)  BY <1>1, <1>2
  <2> QED  BY <1>2, <2>1, Zenon DEF Divides
<1>4. k = 2 * d + 1  BY <1>2, <1>3
<1>5. m - h = d * (2 * h)  BY <1>1, <1>2, <1>4
<1>6. m + h = (d + 1) * (2 * h)  BY <1>1, <1>2, <1>4
<1>7. Divides(2 * h, m - h)  BY <1>2, <1>5, Zenon DEF Divides
<1>8. Divides(2 * h, m + h)
  <2>1. d + 1 \in Nat  BY <1>2
  <2> QED  BY <2>1, <1>6, Zenon DEF Divides
<1>9. m # 0
  <2> SUFFICES ASSUME m = 0 PROVE FALSE  OBVIOUS
  <2>1. 2 * h \in Nat  OBVIOUS
  <2> QED  BY <2>1, DividesSelf
<1>10. h <= m  BY <1>9, DividesLess
<1> QED  BY <1>7, <1>8, <1>10

-----------------------------------------------------------------------------
(* Induction *)

\* A set with 0 and the successors of its members contains the naturals.
LEMMA SetInduction ==
    ASSUME NEW S, 0 \in S, \A n \in Nat : n \in S => n + 1 \in S
    PROVE  \A n \in Nat : n \in S
<1> DEFINE R == {ss \in Nat \X Nat : ss[1] < ss[2]}
           T == Nat \ S
<1> SUFFICES ASSUME T # {} PROVE FALSE  OBVIOUS
<1>1. IsWellFoundedOn(R, Nat)  BY NatLessThanWellFounded DEF OpToRel
<1>2. \E x \in T : \A y \in T : ~ (<<y, x>> \in R)
  <2>1. T \subseteq Nat  OBVIOUS
  <2> HIDE DEF R, T
  <2> QED  BY <1>1, <2>1, WFMin
<1>3. PICK x \in T : \A y \in T : ~ (<<y, x>> \in R)  BY <1>2
<1>4. x \in Nat /\ x # 0  OBVIOUS
<1>5. x - 1 \in Nat /\ <<x - 1, x>> \in R  BY <1>4
<1>6. x - 1 \in S  BY <1>3, <1>5
<1>7. (x - 1) + 1 \in S  BY <1>5, <1>6
<1> QED  BY <1>4, <1>7

\* The same between two bounds.
LEMMA IntervalInduction ==
    ASSUME NEW lo \in Int, NEW hi \in Int, NEW S,
           lo <= hi => lo \in S,
           \A n \in lo .. hi - 1 : n \in S => n + 1 \in S
    PROVE  \A n \in lo .. hi : n \in S
<1> DEFINE T == {k \in Nat : lo + k <= hi => lo + k \in S}
<1>1. 0 \in T  OBVIOUS
<1>2. ASSUME NEW k \in Nat, k \in T  PROVE k + 1 \in T
  <2> SUFFICES ASSUME lo + (k + 1) <= hi  PROVE lo + (k + 1) \in S  OBVIOUS
  <2>1. lo + k \in lo .. hi - 1  OBVIOUS
  <2>2. lo + k \in S  BY <1>2
  <2>3. (lo + k) + 1 \in S  BY <2>1, <2>2
  <2> QED  BY <2>3
<1>3. \A k \in Nat : k \in T
  <2> HIDE DEF T
  <2> QED  BY <1>1, <1>2, SetInduction
<1>4. ASSUME NEW n \in lo .. hi  PROVE n \in S
  <2>1. n - lo \in Nat /\ lo + (n - lo) = n  OBVIOUS
  <2>2. n - lo \in T  BY <1>3, <2>1
  <2> QED  BY <2>1, <2>2
<1> QED  BY <1>4

\* A function on an interval may be defined by its first value and a step from
\* each value to the next. (A definition f[n \in lo .. hi] == e stands for some
\* function that satisfies the equation, if there is one.) The n-th value is in
\* T[n], and all of them are in S.
Steps(lo, hi, S, T, a, step) ==
    /\ lo \in Int /\ hi \in Int
    /\ \A n \in lo .. hi : T[n] \subseteq S
    /\ lo <= hi => a \in T[lo]
    /\ \A n \in lo + 1 .. hi : step[n] \in [T[n - 1] -> T[n]]
Iterates(g, lo, hi, S, T, a, step) ==
    /\ g \in [lo .. hi -> S]
    /\ \A n \in lo .. hi : g[n] = IF n = lo THEN a ELSE step[n][g[n - 1]]
    /\ \A n \in lo .. hi : g[n] \in T[n]

LEMMA StepFunction ==
    ASSUME NEW lo, NEW hi, NEW S, NEW T, NEW a, NEW step,
           Steps(lo, hi, S, T, a, step)
    PROVE  \E g : Iterates(g, lo, hi, S, T, a, step)
<1> USE DEF Steps
<1> DEFINE Goes(h, m) == Iterates(h, lo, m, S, T, a, step)
           D == {m \in Int : \E h : Goes(h, m)}
<1>1. CASE hi < lo
  <2>1. Goes([n \in lo .. hi |-> a], hi)  BY <1>1 DEF Iterates
  <2> QED  BY <2>1
<1>2. CASE lo <= hi
  <2>1. lo \in D
    <3>1. Goes([n \in lo .. lo |-> a], lo)  BY <1>2 DEF Iterates
    <3> QED  BY <3>1
  <2>2. ASSUME NEW m \in lo .. hi - 1, m \in D  PROVE m + 1 \in D
    <3>0. PICK h : Goes(h, m)  BY <2>2
    <3>1. /\ h \in [lo .. m -> S]
          /\ \A n \in lo .. m : h[n] = IF n = lo THEN a ELSE step[n][h[n - 1]]
          /\ \A n \in lo .. m : h[n] \in T[n]
      BY <3>0 DEF Iterates
    <3> DEFINE x == step[m + 1][h[m]]
               g == [n \in lo .. m + 1 |-> IF n <= m THEN h[n] ELSE x]
    <3>2. h[m] \in T[m] /\ m + 1 \in lo + 1 .. hi /\ (m + 1) - 1 = m  BY <3>1
    <3>3. x \in T[m + 1]
      <4>1. step[m + 1] \in [T[m] -> T[m + 1]]  BY <3>2
      <4> QED  BY <3>2, <4>1
    <3>4. ASSUME NEW n \in lo .. m + 1
          PROVE  g[n] = (IF n = lo THEN a ELSE step[n][g[n - 1]]) /\ g[n] \in T[n]
      <4>1. CASE n = m + 1
        <5>1. g[m + 1] = x /\ g[m] = h[m] /\ n # lo  BY <4>1
        <5> HIDE DEF g
        <5> QED  BY <3>3, <4>1, <5>1, SMTT(30)
      <4>2. CASE n <= m
        <5>1. n \in lo .. m /\ g[n] = h[n]  BY <4>2
        <5>2. n # lo => g[n - 1] = h[n - 1]  BY <4>2
        <5>3. h[n] = IF n = lo THEN a ELSE step[n][h[n - 1]]
          <6> HIDE DEF x, g
          <6> QED  BY <3>1, <5>1
        <5>4. h[n] \in T[n]  BY <3>1, <5>1
        <5> HIDE DEF g
        <5> QED  BY <5>1, <5>2, <5>3, <5>4
      <4> QED  BY <4>1, <4>2
    <3>5. g \in [lo .. m + 1 -> S]
      <4>1. \A n \in lo .. m + 1 : n \in lo .. hi /\ g[n] \in T[n]
        <5> HIDE DEF g
        <5> QED  BY <3>4
      <4>2. \A n \in lo .. m + 1 : g[n] \in S
        <5> HIDE DEF g
        <5> QED  BY <4>1
      <4>3. g = [n \in lo .. m + 1 |-> g[n]]  OBVIOUS
      <4> HIDE DEF g
      <4> QED  BY <4>2, <4>3
    <3> HIDE DEF g
    <3>7. Goes(g, m + 1)  BY <3>4, <3>5 DEF Iterates
    <3>8. m + 1 \in Int  OBVIOUS
    <3> HIDE DEF Goes
    <3> QED  BY <3>7, <3>8
  <2>3. \A m \in lo .. hi : m \in D
    <3> HIDE DEF D
    <3> QED  BY <2>1, <2>2, IntervalInduction
  <2>4. hi \in D
    <3>1. hi \in lo .. hi  BY <1>2
    <3> HIDE DEF D
    <3> QED  BY <2>3, <3>1
  <2> QED  BY <2>4
<1> QED  BY <1>1, <1>2

\* Induction from all the numbers before.
LEMMA StrongInduction ==
    ASSUME NEW hi \in Nat, NEW S,
           \A n \in 0 .. hi : (\A m \in 0 .. n - 1 : m \in S) => n \in S
    PROVE  \A n \in 0 .. hi : n \in S
<1> DEFINE M == {n \in 0 .. hi : \A m \in 0 .. n : m \in S}
<1>1. 0 \in M
  <2>1. 0 \in 0 .. hi /\ \A m \in 0 .. 0 - 1 : m \in S  OBVIOUS
  <2>2. 0 \in S  BY <2>1
  <2>3. \A m \in 0 .. 0 : m = 0  OBVIOUS
  <2> QED  BY <2>1, <2>2, <2>3
<1>2. ASSUME NEW n \in 0 .. hi - 1, n \in M  PROVE n + 1 \in M
  <2>1. n + 1 \in 0 .. hi  OBVIOUS
  <2>2. \A m \in 0 .. (n + 1) - 1 : m \in S  BY <1>2
  <2>3. n + 1 \in S  BY <2>1, <2>2
  <2>4. \A m \in 0 .. n + 1 : m \in S
    <3> TAKE m \in 0 .. n + 1
    <3>1. m = n + 1 \/ m \in 0 .. (n + 1) - 1  OBVIOUS
    <3> QED  BY <2>2, <2>3, <3>1
  <2> QED  BY <2>1, <2>4
<1>3. 0 \in Int /\ hi \in Int  OBVIOUS
<1> HIDE DEF M
<1>4. \A n \in 0 .. hi : n \in M  BY <1>1, <1>2, <1>3, IntervalInduction
<1>5. ASSUME NEW n \in 0 .. hi  PROVE n \in S
  <2>1. n \in 0 .. n  OBVIOUS
  <2> QED  BY <1>4, <2>1 DEF M
<1> QED  BY <1>5

\* A set of numbers that is bounded has a largest.
LEMMA LargestExists ==
    ASSUME NEW hi \in Nat, NEW S, S \subseteq 0 .. hi, NEW a \in S
    PROVE  \E p \in S : \A q \in S : q <= p
<1> SUFFICES ASSUME \A p \in S : \E q \in S : ~ (q <= p) PROVE FALSE  OBVIOUS
<1> DEFINE M == {k \in Nat : \E q \in S : q >= k}
<1>1. 0 \in M
  <2>1. a >= 0  OBVIOUS
  <2> QED  BY <2>1
<1>2. ASSUME NEW k \in Nat, k \in M  PROVE k + 1 \in M
  <2>1. PICK q \in S : q >= k  BY <1>2
  <2>2. PICK r \in S : ~ (r <= q)  OBVIOUS
  <2>3. q \in Nat /\ r \in Nat  OBVIOUS
  <2>4. r >= k + 1  BY <2>1, <2>2, <2>3
  <2> QED  BY <2>4
<1>3. hi + 1 \in M
  <2> HIDE DEF M
  <2> QED  BY <1>1, <1>2, SetInduction
<1>4. PICK q \in S : q >= hi + 1  BY <1>3
<1> QED  BY <1>4
=============================================================================
