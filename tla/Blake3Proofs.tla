---------------------------- MODULE Blake3Proofs ----------------------------
(***************************************************************************)
(* Proofs about BLAKE3 in BlockStreams: for every block and chunk length,  *)
(* width of a length, message, way to cut it into updates, and number of   *)
(* lanes.                                                                  *)
(***************************************************************************)
EXTENDS BlockStreamsProofs

-----------------------------------------------------------------------------
(* Powers of two *)

Top == B3!TwoTo[Bits]
Power == {B3!TwoTo[k] : k \in 0 .. Bits}

LEMMA TreeConstants ==
    /\ Bits \in Nat /\ MaxTree \in Nat /\ MaxTree < Top
    /\ BLOCK_LEN \in B3!Pow2 /\ CHUNK_LEN \in B3!Pow2 /\ BLOCK_LEN < CHUNK_LEN
    /\ Degrees \subseteq B3!Pow2
    /\ MAX_DEPTH \in 0 .. Bits /\ CHUNK_LEN * B3!TwoTo[MAX_DEPTH] = Top
BY InstancesFit, Zenon DEF B3!ConstantsFit, Top

LEMMA TwoToIs ==
    /\ B3!TwoTo[0] = 1
    /\ \A k \in 0 .. Bits : B3!TwoTo[k] \in Nat \ {0}
    /\ \A k \in 1 .. Bits : B3!TwoTo[k] = 2 * B3!TwoTo[k - 1]
<1> DEFINE Pos == Nat \ {0}
           T == [i \in 0 .. Bits |-> Pos]
           step == [i \in 0 + 1 .. Bits |-> [x \in Pos |-> 2 * x]]
           f == B3!TwoTo
<1>1. Bits \in Nat  BY TreeConstants
<1>2. PICK g : Iterates(g, 0, Bits, Pos, T, 1, step)
  <2> HIDE DEF f
  <2>1. 0 \in Int /\ Bits \in Int /\ (0 <= Bits => 1 \in T[0])  BY <1>1
  <2>2. \A i \in 0 .. Bits : T[i] \subseteq Pos  OBVIOUS
  <2>3. \A i \in 0 + 1 .. Bits : step[i] \in [T[i - 1] -> T[i]]
    <3>1. \A i \in 0 + 1 .. Bits : T[i - 1] = Pos /\ T[i] = Pos  BY <1>1
    <3>2. \A i \in 0 + 1 .. Bits : step[i] \in [Pos -> Pos]  BY <1>1
    <3> HIDE DEF T, step, Pos
    <3> QED  BY <3>1, <3>2
  <2> HIDE DEF T, step, Pos
  <2>4. Steps(0, Bits, Pos, T, 1, step)  BY <2>1, <2>2, <2>3 DEF Steps
  <2> QED  BY <2>4, StepFunction
<1>3. g \in [0 .. Bits -> Pos]  BY <1>2 DEF Iterates
<1>4. \A i \in 0 .. Bits : g[i] = IF i = 0 THEN 1 ELSE 2 * g[i - 1]
  <2>2. \A i \in 0 .. Bits : g[i] = IF i = 0 THEN 1 ELSE step[i][g[i - 1]]
    BY <1>2 DEF Iterates
  <2> HIDE DEF f
  <2>3. \A i \in 0 .. Bits : i # 0 => i \in 0 + 1 .. Bits /\ g[i - 1] \in Pos  BY <1>1, <1>3
  <2>4. \A i \in 0 .. Bits : i # 0 => step[i][g[i - 1]] = 2 * g[i - 1]  BY <2>3
  <2> HIDE DEF step
  <2> QED  BY <2>2, <2>4
<1>5. g = [k \in 0 .. Bits |-> IF k = 0 THEN 1 ELSE 2 * g[k - 1]]
  BY <1>3, <1>4
<1>6. f = [k \in 0 .. Bits |-> IF k = 0 THEN 1 ELSE 2 * f[k - 1]]
  BY <1>5, Zenon DEF B3!TwoTo
<1> HIDE DEF f
<1>7. f[0] = 1 /\ \A k \in 1 .. Bits : f[k] = 2 * f[k - 1]
  <2>1. 0 \in 0 .. Bits /\ \A k \in 1 .. Bits : k \in 0 .. Bits /\ k # 0  BY <1>1
  <2> QED  BY <1>6, <2>1
<1>8. \A k \in 0 .. Bits : f[k] \in Pos
  <2> DEFINE M == {k \in Int : f[k] \in Pos}
  <2>1. 0 \in M  BY <1>7
  <2>2. ASSUME NEW k \in 0 .. Bits - 1, k \in M  PROVE k + 1 \in M
    <3>1. k + 1 \in 1 .. Bits /\ (k + 1) - 1 = k  BY <1>1
    <3>2. f[k + 1] = 2 * f[k]  BY <1>7, <3>1
    <3> QED  BY <2>2, <3>1, <3>2
  <2> HIDE DEF M
  <2>3. \A k \in 0 .. Bits : k \in M  BY <1>1, <2>1, <2>2, IntervalInduction
  <2> QED  BY <2>3 DEF M
<1> QED  BY <1>7, <1>8 DEF f

\* 2 ^ (j + k) = 2 ^ j * 2 ^ k
LEMMA TwoToSum ==
    ASSUME NEW j \in 0 .. Bits, NEW k \in 0 .. Bits - j
    PROVE  B3!TwoTo[j + k] = B3!TwoTo[j] * B3!TwoTo[k]
<1> DEFINE f == B3!TwoTo
           M == {i \in 0 .. Bits - j : f[j + i] = f[j] * f[i]}
<1>1. /\ f[0] = 1 /\ \A i \in 0 .. Bits : f[i] \in Nat \ {0}
      /\ \A i \in 1 .. Bits : f[i] = 2 * f[i - 1] /\ Bits \in Nat
  BY TwoToIs, TreeConstants
<1> HIDE DEF f
<1>b. Bits \in Nat  BY TreeConstants
<1>2. 0 \in M
  <2>1. j + 0 = j /\ f[j] * 1 = f[j] /\ 0 \in 0 .. Bits - j  BY <1>1, <1>b
  <2> QED  BY <2>1, <1>1
<1>3. ASSUME NEW i \in 0 .. (Bits - j) - 1, i \in M  PROVE i + 1 \in M
  <2>1. /\ i + 1 \in 1 .. Bits /\ (i + 1) - 1 = i /\ j + (i + 1) \in 1 .. Bits
        /\ (j + (i + 1)) - 1 = j + i /\ i \in 0 .. Bits /\ i + 1 \in 0 .. Bits - j
    BY <1>b
  <2>2. f[i + 1] = 2 * f[i] /\ f[j + (i + 1)] = 2 * f[j + i]  BY <1>1, <2>1
  <2>3. f[j + i] = f[j] * f[i]  BY <1>3
  <2> DEFINE x == f[j]
             y == f[i]
  <2>4. x \in Nat /\ y \in Nat  BY <1>1, <2>1
  <2> HIDE DEF x, y
  <2>5. 2 * (x * y) = x * (2 * y)  BY <2>4
  <2>6. f[j + (i + 1)] = f[j] * f[i + 1]  BY <2>2, <2>3, <2>5 DEF x, y
  <2> QED  BY <2>1, <2>6
<1>4. 0 \in Int /\ Bits - j \in Int  BY <1>b
<1> HIDE DEF M
<1>5. \A i \in 0 .. Bits - j : i \in M  BY <1>2, <1>3, <1>4, IntervalInduction
<1> QED  BY <1>5 DEF M, f

LEMMA Powers ==
    /\ Power \subseteq Nat \ {0} /\ B3!Pow2 \subseteq Power /\ Top \in Power
    /\ Bits # 0 /\ 1 \in B3!Pow2
<1>1. Bits \in Nat /\ CHUNK_LEN \in B3!Pow2  BY TreeConstants
<1>2. \A k \in 0 .. Bits - 1 : k \in 0 .. Bits  BY <1>1
<1>3. B3!Pow2 \subseteq Power  BY <1>2, Zenon DEF Power, B3!Pow2
<1>4. Power \subseteq Nat \ {0}  BY TwoToIs, Zenon DEF Power
<1>5. Top \in Power
  <2>1. Bits \in 0 .. Bits  BY <1>1
  <2> QED  BY <2>1, Zenon DEF Power, Top
<1>6. PICK k \in 0 .. Bits - 1 : CHUNK_LEN = B3!TwoTo[k]  BY <1>1, Zenon DEF B3!Pow2
<1>7. Bits # 0 /\ 0 \in 0 .. Bits - 1  BY <1>1, <1>6
<1>8. 1 \in B3!Pow2  BY <1>7, TwoToIs, Zenon DEF B3!Pow2
<1> QED  BY <1>3, <1>4, <1>5, <1>7, <1>8

\* Of two powers, twice the smaller divides the greater.
LEMMA PowerLess ==
    ASSUME NEW p \in Power, NEW q \in Power, p < q
    PROVE  /\ 2 * p <= q /\ Divides(2 * p, q) /\ 2 * p \in Power /\ p \in B3!Pow2
<1> DEFINE f == B3!TwoTo
<1>1. PICK j \in 0 .. Bits : p = f[j]  BY Zenon DEF Power
<1>2. PICK k \in 0 .. Bits : q = f[k]  BY Zenon DEF Power
<1>b. Bits \in Nat  BY TreeConstants
<1>t. \A i \in 0 .. Bits : f[i] \in Nat \ {0}  BY TwoToIs
<1>3. j < k
  <2> SUFFICES ASSUME ~ (j < k) PROVE FALSE  OBVIOUS
  <2>1. j - k \in 0 .. Bits - k /\ k + (j - k) = j /\ j - k \in 0 .. Bits  BY <1>b
  <2>2. f[k + (j - k)] = f[k] * f[j - k]  BY <2>1, TwoToSum
  <2> DEFINE y == f[j - k]
  <2>3. y \in Nat \ {0} /\ q \in Nat \ {0} /\ p = q * y  BY <1>1, <1>2, <1>t, <2>1, <2>2
  <2> HIDE DEF y, f
  <2>4. p = y * q  BY <2>3
  <2>5. y * q >= 0 * q + q  BY <2>3, MultiplesApart
  <2>6. 0 * q = 0 /\ y * q \in Int  BY <2>3
  <2> QED  BY <2>3, <2>4, <2>5, <2>6
<1> DEFINE i == k - (j + 1)
<1>4. /\ j + 1 \in 0 .. Bits /\ i \in 0 .. Bits - (j + 1) /\ (j + 1) + i = k
      /\ j + 1 \in 1 .. Bits /\ (j + 1) - 1 = j /\ i \in 0 .. Bits /\ j \in 0 .. Bits - 1
  BY <1>3, <1>b
<1>5. f[k] = f[j + 1] * f[i]  BY <1>4, TwoToSum
<1>6. f[j + 1] = 2 * f[j]  BY <1>4, TwoToIs
<1>7. f[i] \in Nat \ {0} /\ p \in Nat \ {0} /\ q \in Nat \ {0}  BY <1>t, <1>1, <1>2, <1>4
<1>8. 2 * p \in Power /\ p \in B3!Pow2
  <2>1. 2 * p = f[j + 1]  BY <1>1, <1>6
  <2>2. 2 * p \in Power  BY <2>1, <1>4, Zenon DEF Power
  <2>3. p \in B3!Pow2  BY <1>1, <1>4, Zenon DEF B3!Pow2
  <2> QED  BY <2>2, <2>3
<1> DEFINE y == f[i]
           z == 2 * p
<1>9. y \in Nat \ {0} /\ z \in Nat \ {0} /\ q = z * y  BY <1>1, <1>2, <1>5, <1>6, <1>7
<1> HIDE DEF y, f, z, i
<1>10. q = y * z /\ y \in Nat  BY <1>9
<1>11. Divides(z, q)  BY <1>10, Zenon DEF Divides
<1>12. z <= q  BY <1>7, <1>9, <1>11, DividesLess
<1> QED  BY <1>8, <1>11, <1>12 DEF z

LEMMA PowerHalf ==
    ASSUME NEW p \in Power, p # 1
    PROVE  \E q \in B3!Pow2 : p = 2 * q
<1>1. PICK k \in 0 .. Bits : p = B3!TwoTo[k]  BY Zenon DEF Power
<1>2. k # 0  BY <1>1, TwoToIs
<1>3. k \in 1 .. Bits /\ k - 1 \in 0 .. Bits - 1  BY <1>2, TreeConstants
<1>4. p = 2 * B3!TwoTo[k - 1]  BY <1>1, <1>3, TwoToIs
<1>5. B3!TwoTo[k - 1] \in B3!Pow2  BY <1>3, Zenon DEF B3!Pow2
<1> QED  BY <1>4, <1>5

\* A power divides every power that is not smaller.
LEMMA PowerDivides ==
    ASSUME NEW p \in Power, NEW q \in Power, p <= q
    PROVE  Divides(p, q)
<1>1. p \in Nat \ {0} /\ q \in Nat \ {0}  BY Powers
<1>2. CASE p = q  BY <1>1, <1>2, DividesSelf
<1>3. CASE p < q
  <2>1. Divides(2 * p, q)  BY <1>3, PowerLess
  <2>2. Divides(p, 2 * p)
    <3>1. 2 \in Nat  OBVIOUS
    <3> QED  BY <3>1, Zenon DEF Divides
  <2>3. 2 * p \in Nat /\ p \in Nat /\ q \in Nat  BY <1>1
  <2> QED  BY <2>1, <2>2, <2>3, DividesTransitive
<1> QED  BY <1>1, <1>2, <1>3

\* A property that 1 has, and that holds of twice what it holds of, holds of
\* all powers.
LEMMA PowerInduction ==
    ASSUME NEW S, 1 \in S, \A p \in B3!Pow2 : p \in S => 2 * p \in S
    PROVE  \A p \in Power : p \in S
<1> DEFINE M == {k \in 0 .. Bits : B3!TwoTo[k] \in S}
<1>b. Bits \in Nat /\ 0 \in Int /\ Bits \in Int  BY TreeConstants
<1>1. 0 \in M  BY <1>b, TwoToIs
<1>2. ASSUME NEW k \in 0 .. Bits - 1, k \in M  PROVE k + 1 \in M
  <2>1. k + 1 \in 1 .. Bits /\ (k + 1) - 1 = k /\ k + 1 \in 0 .. Bits  BY <1>b
  <2>2. B3!TwoTo[k + 1] = 2 * B3!TwoTo[k]  BY <2>1, TwoToIs
  <2>3. B3!TwoTo[k] \in B3!Pow2  BY Zenon DEF B3!Pow2
  <2> QED  BY <1>2, <2>1, <2>2, <2>3
<1> HIDE DEF M
<1>3. \A k \in 0 .. Bits : k \in M  BY <1>b, <1>1, <1>2, IntervalInduction
<1> QED  BY <1>3, Zenon DEF M, Power

\* The greatest power of two not above a number.
LEMMA RoundDown ==
    ASSUME NEW x \in 1 .. Top - 1
    PROVE  /\ B3!round_down_to_power_of_2(x) \in B3!Pow2
           /\ B3!round_down_to_power_of_2(x) <= x
           /\ x < 2 * B3!round_down_to_power_of_2(x)
<1> DEFINE Good(p) == p <= x /\ x < 2 * p
           S == {p \in Power : p <= x \/ \E q \in B3!Pow2 : Good(q)}
<1>t. Top \in Nat \ {0}  BY Powers
<1>1. 1 \in S
  <2>1. 1 \in Power /\ 1 <= x  BY Powers
  <2> QED  BY <2>1
<1>2. ASSUME NEW p \in B3!Pow2, p \in S  PROVE 2 * p \in S
  <2>0. p \in Nat \ {0}  BY Powers
  <2>1. 2 * p \in Power
    <3>1. PICK k \in 0 .. Bits - 1 : p = B3!TwoTo[k]  BY Zenon DEF B3!Pow2
    <3>2. k + 1 \in 1 .. Bits /\ (k + 1) - 1 = k /\ k + 1 \in 0 .. Bits  BY TreeConstants
    <3>3. B3!TwoTo[k + 1] = 2 * p  BY <3>1, <3>2, TwoToIs
    <3> QED  BY <3>2, <3>3, Zenon DEF Power
  <2>2. CASE \E q \in B3!Pow2 : Good(q)  BY <2>1, <2>2
  <2>3. CASE p <= x
    <3>1. CASE 2 * p <= x  BY <2>1, <3>1
    <3>2. CASE ~ (2 * p <= x)
      <4>1. Good(p)  BY <2>0, <2>3, <3>2
      <4> QED  BY <2>1, <4>1
    <3> QED  BY <3>1, <3>2
  <2> QED  BY <1>2, <2>2, <2>3
<1>3. Top \in S
  <2> HIDE DEF S
  <2> QED  BY <1>1, <1>2, PowerInduction, Powers
<1>4. \E q \in B3!Pow2 : Good(q)  BY <1>3, <1>t
<1>5. Good(B3!round_down_to_power_of_2(x)) /\ B3!round_down_to_power_of_2(x) \in B3!Pow2
  BY <1>4, Zenon DEF B3!round_down_to_power_of_2
<1> QED  BY <1>5

LEMMA RoundDownIs ==
    ASSUME NEW x \in 1 .. Top - 1, NEW p \in B3!Pow2, p <= x, x < 2 * p
    PROVE  B3!round_down_to_power_of_2(x) = p
<1> DEFINE q == B3!round_down_to_power_of_2(x)
<1>1. q \in B3!Pow2 /\ q <= x /\ x < 2 * q  BY RoundDown
<1> HIDE DEF q
<1>2. p \in Power /\ q \in Power /\ p \in Nat \ {0} /\ q \in Nat \ {0}  BY <1>1, Powers
<1>3. ~ (p < q)
  <2> SUFFICES ASSUME p < q PROVE FALSE  OBVIOUS
  <2>1. 2 * p <= q  BY <1>2, PowerLess
  <2> QED  BY <2>1, <1>1, <1>2
<1>4. ~ (q < p)
  <2> SUFFICES ASSUME q < p PROVE FALSE  OBVIOUS
  <2>1. 2 * q <= p  BY <1>2, PowerLess
  <2> QED  BY <2>1, <1>1, <1>2
<1>5. p = q  BY <1>2, <1>3, <1>4
<1> QED  BY <1>5 DEF q

\* The lowest one bit of a number.
IsLow(p, x) == Divides(p, x) /\ ~Divides(2 * p, x)

LEMMA LowExists ==
    ASSUME NEW x \in 1 .. Top - 1
    PROVE  \E p \in B3!Pow2 : IsLow(p, x)
<1> DEFINE S == {p \in Power : Divides(p, x) \/ \E q \in B3!Pow2 : IsLow(q, x)}
<1>t. Top \in Nat \ {0} /\ x \in Nat  BY Powers
<1>1. 1 \in S
  <2>1. 1 \in Power /\ Divides(1, x)  BY <1>t, Powers, DividesSelf
  <2> QED  BY <2>1
<1>2. ASSUME NEW p \in B3!Pow2, p \in S  PROVE 2 * p \in S
  <2>1. 2 * p \in Power
    <3>1. PICK k \in 0 .. Bits - 1 : p = B3!TwoTo[k]  BY Zenon DEF B3!Pow2
    <3>2. k + 1 \in 1 .. Bits /\ (k + 1) - 1 = k /\ k + 1 \in 0 .. Bits  BY TreeConstants
    <3>3. B3!TwoTo[k + 1] = 2 * p  BY <3>1, <3>2, TwoToIs
    <3> QED  BY <3>2, <3>3, Zenon DEF Power
  <2> QED  BY <1>2, <2>1 DEF IsLow
<1>3. Top \in S
  <2> HIDE DEF S
  <2> QED  BY <1>1, <1>2, PowerInduction, Powers
<1>4. ~Divides(Top, x)
  <2> SUFFICES ASSUME Divides(Top, x) PROVE FALSE  OBVIOUS
  <2>1. Top <= x  BY <1>t, DividesLess
  <2> QED  BY <1>t, <2>1
<1> QED  BY <1>3, <1>4

LEMMA LowUnique ==
    ASSUME NEW x \in Nat, NEW p \in Power, NEW q \in Power, IsLow(p, x), IsLow(q, x)
    PROVE  p = q
<1>1. p \in Nat \ {0} /\ q \in Nat \ {0} /\ 2 * p \in Nat /\ 2 * q \in Nat  BY Powers
<1>2. ~ (p < q)
  <2> SUFFICES ASSUME p < q PROVE FALSE  OBVIOUS
  <2>1. Divides(2 * p, q)  BY PowerLess
  <2>2. q \in Nat /\ Divides(q, x)  BY <1>1 DEF IsLow
  <2>3. Divides(2 * p, x)  BY <2>1, <2>2, <1>1, DividesTransitive
  <2> QED  BY <2>3 DEF IsLow
<1>3. ~ (q < p)
  <2> SUFFICES ASSUME q < p PROVE FALSE  OBVIOUS
  <2>1. Divides(2 * q, p)  BY PowerLess
  <2>2. p \in Nat /\ Divides(p, x)  BY <1>1 DEF IsLow
  <2>3. Divides(2 * q, x)  BY <2>1, <2>2, <1>1, DividesTransitive
  <2> QED  BY <2>3 DEF IsLow
<1> QED  BY <1>1, <1>2, <1>3

LEMMA LowBitIs ==
    ASSUME NEW x \in 1 .. Top - 1
    PROVE  B3!LowBit(x) \in B3!Pow2 /\ IsLow(B3!LowBit(x), x)
<1>1. PICK p \in B3!Pow2 : IsLow(p, x)  BY LowExists
<1>2. ASSUME NEW q \in B3!Pow2
      PROVE  IsLow(q, x) <=> x % q = 0 /\ x % (2 * q) # 0
  <2>1. q \in Nat \ {0} /\ 2 * q \in Nat \ {0} /\ x \in Nat  BY Powers
  <2>2. Divides(q, x) <=> x % q = 0  BY <2>1, DividesMod
  <2>3. Divides(2 * q, x) <=> x % (2 * q) = 0  BY <2>1, DividesMod
  <2> QED  BY <2>2, <2>3, Zenon DEF IsLow
<1>3. \E q \in B3!Pow2 : x % q = 0 /\ x % (2 * q) # 0  BY <1>1, <1>2, Zenon
<1>4. /\ B3!LowBit(x) \in B3!Pow2 /\ x % B3!LowBit(x) = 0 /\ x % (2 * B3!LowBit(x)) # 0
  BY <1>3, Zenon DEF B3!LowBit
<1> QED  BY <1>2, <1>4, Zenon

\* What a number is without its lowest one bit: nothing, or a number whose
\* lowest one bit is higher.
LEMMA WithoutLow ==
    ASSUME NEW x \in 1 .. Top - 1
    PROVE  /\ B3!LowBit(x) \in Nat \ {0} /\ B3!LowBit(x) <= x
           /\ x - B3!LowBit(x) \in 0 .. x - 1
           /\ Divides(2 * B3!LowBit(x), x - B3!LowBit(x))
<1> DEFINE b == B3!LowBit(x)
<1>1. b \in B3!Pow2 /\ IsLow(b, x)  BY LowBitIs
<1> HIDE DEF b
<1>2. b \in Nat \ {0} /\ x \in Nat  BY <1>1, Powers
<1>3. b <= x /\ Divides(2 * b, x - b)  BY <1>1, <1>2, DividesOdd DEF IsLow
<1> QED  BY <1>2, <1>3 DEF b

\* A power that divides a number is not above its lowest one bit.
LEMMA DividesBelowLow ==
    ASSUME NEW x \in 1 .. Top - 1, NEW h \in Power, Divides(h, x)
    PROVE  h <= B3!LowBit(x)
<1> DEFINE b == B3!LowBit(x)
<1>1. b \in B3!Pow2 /\ IsLow(b, x)  BY LowBitIs
<1> HIDE DEF b
<1>2. b \in Nat \ {0} /\ x \in Nat /\ h \in Nat \ {0} /\ b \in Power  BY <1>1, Powers
<1>3. ~ (b < h)
  <2> SUFFICES ASSUME b < h PROVE FALSE  OBVIOUS
  <2>1. Divides(2 * b, h) /\ 2 * b \in Nat  BY <1>2, PowerLess
  <2>2. Divides(2 * b, x)  BY <1>2, <2>1, DividesTransitive
  <2> QED  BY <1>1, <2>2 DEF IsLow
<1>4. h <= b  BY <1>2, <1>3
<1> QED  BY <1>4 DEF b

-----------------------------------------------------------------------------
(* The one bits of a number *)

LEMMA PopcntIs ==
    /\ B3!OneBits[0] = 0
    /\ \A x \in 1 .. Top - 1 : B3!OneBits[x] = 1 + B3!OneBits[x - B3!LowBit(x)]
    /\ \A x \in 0 .. Top - 1 : B3!OneBits[x] \in Nat
<1> DEFINE L(x) == B3!LowBit(x)
           hi == Top - 1
           Is(f, n) == f = [x \in 0 .. n |-> IF x = 0 THEN 0 ELSE 1 + f[x - L(x)]]
           M == {n \in 0 .. hi : \E f : Is(f, n)}
           p == B3!OneBits
<1>b. Top \in Nat \ {0} /\ hi \in Nat  BY Powers
<1>l. \A x \in 1 .. hi : x - L(x) \in 0 .. x - 1  BY WithoutLow
<1> HIDE DEF L, hi
<1>1. 0 \in M
  <2>1. Is([x \in 0 .. 0 |-> 0], 0)  OBVIOUS
  <2> HIDE DEF Is
  <2> QED  BY <1>b, <2>1
<1>2. ASSUME NEW n \in 0 .. hi - 1, n \in M  PROVE n + 1 \in M
  <2>1. PICK f : Is(f, n)  BY <1>2
  <2> DEFINE y == 1 + f[(n + 1) - L(n + 1)]
             g == [x \in 0 .. n + 1 |-> IF x = n + 1 THEN y ELSE f[x]]
  <2>2. n + 1 \in 1 .. hi /\ n + 1 \in 0 .. hi  BY <1>b
  <2>3. (n + 1) - L(n + 1) \in 0 .. n  BY <2>2, <1>l
  <2>4. ASSUME NEW x \in 0 .. n + 1  PROVE g[x] = IF x = 0 THEN 0 ELSE 1 + g[x - L(x)]
    <3>1. CASE x = n + 1
      <4>1. g[x] = y /\ x # 0  BY <3>1
      <4>2. x - L(x) \in 0 .. n  BY <2>3, <3>1
      <4>3. g[x - L(x)] = f[x - L(x)]
        <5> DEFINE z == x - L(x)
        <5>1. z \in 0 .. n + 1 /\ z # n + 1  BY <4>2
        <5> HIDE DEF z, y
        <5>2. g[z] = f[z]  BY <5>1
        <5> QED  BY <5>2 DEF z
      <4> QED  BY <3>1, <4>1, <4>3
    <3>2. CASE x # n + 1
      <4>1. x \in 0 .. n /\ g[x] = f[x]  BY <3>2
      <4>2. CASE x = 0
        <5>1. f[0] = 0  BY <2>1, <4>2, <4>1
        <5> QED  BY <4>1, <4>2, <5>1
      <4>3. CASE x # 0
        <5> DEFINE z == x - L(x)
        <5>1. x \in 1 .. hi  BY <1>b, <4>1, <4>3, <2>2
        <5>2. z \in 0 .. n + 1 /\ z # n + 1  BY <1>l, <4>1, <5>1
        <5>3. f[x] = 1 + f[z]  BY <2>1, <4>1, <4>3
        <5> HIDE DEF z, y
        <5>4. g[z] = f[z]  BY <5>2
        <5> HIDE DEF g
        <5> QED  BY <4>1, <4>3, <5>3, <5>4 DEF z
      <4> QED  BY <4>2, <4>3
    <3> QED  BY <3>1, <3>2
  <2>5. g = [x \in 0 .. n + 1 |-> g[x]]  OBVIOUS
  <2> HIDE DEF g
  <2>6. Is(g, n + 1)  BY <2>4, <2>5
  <2> QED  BY <2>2, <2>6
<1>3. \E f : Is(f, hi)
  <2>1. 0 \in Int /\ hi \in Int /\ hi \in 0 .. hi  BY <1>b
  <2> HIDE DEF M
  <2>2. \A n \in 0 .. hi : n \in M  BY <1>1, <1>2, <2>1, IntervalInduction
  <2> QED  BY <2>1, <2>2 DEF M
<1>4. Is(p, hi)  BY <1>3, Zenon DEF B3!OneBits, Top, hi, L
<1> HIDE DEF p
<1>5. p[0] = 0  BY <1>4, <1>b
<1>6. \A x \in 1 .. hi : p[x] = 1 + p[x - L(x)]
  <2> TAKE x \in 1 .. hi
  <2>1. x \in 0 .. hi /\ x # 0  OBVIOUS
  <2> QED  BY <1>4, <2>1
<1>7. \A x \in 0 .. hi : p[x] \in Nat
  <2> DEFINE S == {x \in 0 .. hi : p[x] \in Nat}
  <2>1. ASSUME NEW x \in 0 .. hi, \A m \in 0 .. x - 1 : m \in S  PROVE x \in S
    <3>1. CASE x = 0  BY <1>5, <3>1
    <3>2. CASE x # 0
      <4>1. x \in 1 .. hi  BY <3>2
      <4>2. x - L(x) \in S  BY <1>l, <2>1, <4>1
      <4> QED  BY <1>6, <4>1, <4>2
    <3> QED  BY <3>1, <3>2
  <2> HIDE DEF S
  <2>2. \A x \in 0 .. hi : x \in S  BY <1>b, <2>1, StrongInduction
  <2> QED  BY <2>2 DEF S
<1> QED  BY <1>5, <1>6, <1>7 DEF p, hi, L

\* A multiple of p plus p has at most one more one bit.
LEMMA PopcntCarry ==
    ASSUME NEW x \in 0 .. Top - 1, NEW p \in Power, Divides(p, x), x + p \in 0 .. Top - 1
    PROVE  B3!OneBits[x + p] <= B3!OneBits[x] + 1
<1> DEFINE hi == Top - 1
           ones == B3!OneBits
           S == {n \in 0 .. hi : \A q \in Power :
                   Divides(q, n) /\ n + q \in 0 .. hi => ones[n + q] <= ones[n] + 1}
<1>b. hi \in Nat /\ Top \in Nat \ {0}  BY Powers
<1>p. /\ \A n \in 1 .. hi : ones[n] = 1 + ones[n - B3!LowBit(n)]
      /\ \A n \in 0 .. hi : ones[n] \in Nat
  BY PopcntIs
<1> HIDE DEF ones
<1>1. ASSUME NEW n \in 0 .. hi, \A m \in 0 .. n - 1 : m \in S  PROVE n \in S
  <2> SUFFICES ASSUME NEW q \in Power, Divides(q, n), n + q \in 0 .. hi
               PROVE  ones[n + q] <= ones[n] + 1
    OBVIOUS
  <2>q. q \in Nat \ {0} /\ 2 * q \in Nat \ {0} /\ n \in Nat  BY Powers
  <2>1. n + q \in 1 .. hi /\ n + q \in Nat  BY <2>q
  <2>2. q < Top /\ Top \in Power  BY <1>b, <2>q, Powers
  <2>3. q \in B3!Pow2 /\ 2 * q \in Power  BY <2>2, PowerLess
  <2>4. CASE Divides(2 * q, n)
    <3>1. IsLow(q, n + q)
      <4>1. Divides(q, n + q)  BY <2>q, DividesSum, DividesSelf
      <4>2. ~Divides(2 * q, n + q)
        <5> SUFFICES ASSUME Divides(2 * q, n + q) PROVE FALSE  OBVIOUS
        <5>1. n <= n + q /\ (n + q) - n = q  BY <2>q
        <5>2. Divides(2 * q, q)  BY <2>q, <2>1, <2>4, <5>1, DividesDifference
        <5>3. 2 * q <= q  BY <2>q, <5>2, DividesLess
        <5> QED  BY <2>q, <5>3
      <4> QED  BY <4>1, <4>2 DEF IsLow
    <3>2. n + q \in 1 .. Top - 1  BY <2>1
    <3>3. B3!LowBit(n + q) \in Power /\ IsLow(B3!LowBit(n + q), n + q)
      BY <3>2, LowBitIs, Powers
    <3>4. B3!LowBit(n + q) = q  BY <2>1, <3>1, <3>3, LowUnique
    <3>5. ones[n + q] = 1 + ones[(n + q) - q]  BY <1>p, <2>1, <3>4
    <3>6. (n + q) - q = n  BY <2>q
    <3> QED  BY <1>p, <3>5, <3>6
  <2>5. CASE ~Divides(2 * q, n)
    <3> DEFINE m == n - q
    <3>1. q <= n /\ m \in Nat /\ Divides(2 * q, m)  BY <2>5, <2>q, DividesOdd
    <3>2. n \in 1 .. Top - 1 /\ n \in 1 .. hi  BY <2>q, <3>1
    <3>3. IsLow(q, n)  BY <2>5 DEF IsLow
    <3>4. B3!LowBit(n) = q  BY <2>q, <3>2, <3>3, LowBitIs, Powers, LowUnique
    <3>5. ones[n] = 1 + ones[m]  BY <1>p, <3>2, <3>4
    <3>6. m \in 0 .. n - 1 /\ m + 2 * q = n + q /\ m \in 0 .. hi  BY <1>b, <2>q, <3>1
    <3> HIDE DEF m
    <3>7. m \in S  BY <1>1, <3>6
    <3>8. ones[m + 2 * q] <= ones[m] + 1
      <4> DEFINE r == 2 * q
      <4>1. r \in Power /\ Divides(r, m) /\ m + r \in 0 .. hi  BY <2>3, <3>1, <3>6
      <4> HIDE DEF r
      <4>2. ones[m + r] <= ones[m] + 1  BY <3>7, <4>1
      <4> QED  BY <4>2 DEF r
    <3> QED  BY <1>p, <3>5, <3>6, <3>8
  <2> QED  BY <2>4, <2>5
<1> HIDE DEF S, hi
<1>2. \A n \in 0 .. hi : n \in S  BY <1>b, <1>1, StrongInduction
<1> QED  BY <1>2 DEF S, hi, ones

\* A number below 2 ^ k, a multiple of 2 ^ j, has at most k - j one bits.
LEMMA PopcntBound ==
    ASSUME NEW x \in 0 .. Top - 1, NEW k \in 0 .. Bits, x < B3!TwoTo[k]
    PROVE  B3!OneBits[x] <= k
<1> DEFINE ones == B3!OneBits
           hi == Top - 1
           f == B3!TwoTo
           S == {n \in 0 .. hi : \A j \in 0 .. k : Divides(f[j], n) /\ n < f[k] => ones[n] <= k - j}
<1>b. hi \in Nat /\ Top \in Nat \ {0} /\ Bits \in Nat  BY Powers, TreeConstants
<1>p. /\ \A n \in 1 .. hi : ones[n] = 1 + ones[n - B3!LowBit(n)]
      /\ \A n \in 0 .. hi : ones[n] \in Nat
      /\ ones[0] = 0
  BY PopcntIs
<1>f. \A j \in 0 .. Bits : f[j] \in Power /\ f[j] \in Nat \ {0}
  BY TwoToIs, Zenon DEF Power
<1> HIDE DEF ones
<1>1. ASSUME NEW n \in 0 .. hi, \A m \in 0 .. n - 1 : m \in S  PROVE n \in S
  <2> SUFFICES ASSUME NEW j \in 0 .. k, Divides(f[j], n), n < f[k]
               PROVE  ones[n] <= k - j
    OBVIOUS
  <2>1. CASE n = 0  BY <1>p, <2>1
  <2>2. CASE n # 0
    <3> DEFINE b == B3!LowBit(n)
    <3>1. n \in 1 .. hi /\ n \in 1 .. Top - 1 /\ n \in Nat  BY <2>2
    <3>2. b \in B3!Pow2 /\ b \in Nat \ {0} /\ b <= n /\ n - b \in 0 .. n - 1 /\ Divides(2 * b, n - b)
      BY <3>1, LowBitIs, WithoutLow
    <3>3. ones[n] = 1 + ones[n - b]  BY <1>p, <3>1
    <3>4. f[j] \in Power /\ f[j] <= b
      <4>1. j \in 0 .. Bits  BY <1>b
      <4>2. f[j] \in Power  BY <1>f, <4>1
      <4> QED  BY <3>1, <4>2, DividesBelowLow
    <3> HIDE DEF b
    <3>5. PICK i \in 0 .. Bits - 1 : b = f[i]  BY <3>2, Zenon DEF B3!Pow2
    <3>6. i + 1 \in 1 .. Bits /\ (i + 1) - 1 = i /\ i + 1 \in 0 .. Bits /\ i \in 0 .. Bits  BY <1>b
    <3>7. f[i + 1] = 2 * b  BY <3>5, <3>6, TwoToIs
    <3>8. i < k
      <4> SUFFICES ASSUME ~ (i < k) PROVE FALSE  OBVIOUS
      <4>1. f[k] <= f[i]
        <5>1. i - k \in 0 .. Bits - k /\ k + (i - k) = i /\ i - k \in 0 .. Bits  BY <1>b
        <5>2. f[i] = f[k] * f[i - k]
          BY <5>1, TwoToSum
        <5> DEFINE y == f[i - k]
                   z == f[k]
        <5>3. y \in Nat \ {0} /\ z \in Nat \ {0} /\ f[i] = z * y  BY <1>f, <5>1, <5>2
        <5> HIDE DEF y, z, f
        <5>4. y * z >= 0 * z + z  BY <5>3, MultiplesApart
        <5>5. 0 * z = 0 /\ y * z \in Int /\ z * y = y * z  BY <5>3
        <5> QED  BY <5>3, <5>4, <5>5 DEF z
      <4>2. f[i] \in Nat /\ f[k] \in Nat  BY <1>f, <3>6
      <4> HIDE DEF f
      <4> QED  BY <3>1, <3>2, <3>5, <4>1, <4>2
    <3>9. j <= i
      <4> SUFFICES ASSUME i < j PROVE FALSE  OBVIOUS
      <4>1. j - (i + 1) \in 0 .. Bits - (i + 1) /\ (i + 1) + (j - (i + 1)) = j /\ j - (i + 1) \in 0 .. Bits
        BY <1>b
      <4>2. f[j] = f[i + 1] * f[j - (i + 1)]  BY <3>6, <4>1, TwoToSum
      <4> DEFINE y == f[j - (i + 1)]
                 z == 2 * b
      <4>3. y \in Nat \ {0} /\ z \in Nat \ {0} /\ f[j] = z * y  BY <1>f, <3>2, <3>7, <4>1, <4>2
      <4>6. z > b  BY <3>2
      <4> HIDE DEF y, z, f
      <4>4. y * z >= 0 * z + z  BY <4>3, MultiplesApart
      <4>5. 0 * z = 0 /\ y * z \in Int /\ z * y = y * z  BY <4>3
      <4> QED  BY <3>2, <3>4, <4>3, <4>4, <4>5, <4>6
    <3>10. i + 1 \in 0 .. k /\ Divides(f[i + 1], n - b) /\ n - b < f[k]
      <4>1. f[k] \in Nat  BY <1>f
      <4> HIDE DEF f
      <4> QED  BY <3>1, <3>2, <3>6, <3>7, <3>8, <4>1
    <3>11. ones[n - b] <= k - (i + 1)
      <4>1. n - b \in S  BY <1>1, <3>2
      <4> HIDE DEF f
      <4> QED  BY <3>10, <4>1
    <3>12. ones[n - b] \in Nat
      <4>1. n - b \in 0 .. hi  BY <1>b, <3>1, <3>2
      <4> HIDE DEF hi
      <4> QED  BY <1>p, <4>1
    <3> HIDE DEF f, hi, S
    <3> QED  BY <3>3, <3>9, <3>11, <3>12, <3>8
  <2> QED  BY <2>1, <2>2
<1>2. x \in S
  <2> HIDE DEF S, hi
  <2>1. \A n \in 0 .. hi : n \in S  BY <1>b, <1>1, StrongInduction
  <2> QED  BY <2>1 DEF hi
<1>3. 0 \in 0 .. k /\ f[0] = 1 /\ Divides(1, x)
  <2>1. x \in Nat /\ f[0] = 1  BY TwoToIs
  <2> QED  BY <2>1, DividesSelf
<1>4. ones[x] <= k - 0
  <2>1. Divides(f[0], x) /\ x < f[k]  BY <1>3
  <2> HIDE DEF f
  <2> QED  BY <1>2, <1>3, <2>1
<1>5. ones[x] \in Nat  BY <1>p
<1> QED  BY <1>4, <1>5 DEF ones

-----------------------------------------------------------------------------
(* Chunks and the tree over them *)

\* The length of n chunks.
Bytes(n) == n * CHUNK_LEN
LastChunk == MaxTree \div CHUNK_LEN

LEMMA ChunkLen ==
    /\ CHUNK_LEN \in Nat \ {0} /\ BLOCK_LEN \in Nat \ {0} /\ 2 <= CHUNK_LEN
    /\ MaxTree \in Nat /\ Top \in Nat \ {0} /\ MaxTree < Top
<1>1. CHUNK_LEN \in Nat \ {0} /\ BLOCK_LEN \in Nat \ {0} /\ Top \in Nat \ {0}
  BY TreeConstants, Powers
<1>2. 2 <= CHUNK_LEN
  <2>1. BLOCK_LEN < CHUNK_LEN  BY TreeConstants
  <2> QED  BY <1>1, <2>1
<1> QED  BY <1>1, <1>2, TreeConstants

LEMMA BytesOf ==
    /\ \A n \in Nat : Bytes(n) \in Nat /\ n <= Bytes(n) /\ Bytes(n) \div CHUNK_LEN = n
    /\ \A m, n \in Nat : Bytes(m + n) = Bytes(m) + Bytes(n)
    /\ \A m, n \in Nat : m < n <=> Bytes(m) + CHUNK_LEN <= Bytes(n)
    /\ Bytes(0) = 0 /\ Bytes(1) = CHUNK_LEN
<1>1. ASSUME NEW n \in Nat
      PROVE  Bytes(n) \in Nat /\ n <= Bytes(n) /\ Bytes(n) \div CHUNK_LEN = n
  <2>1. CHUNK_LEN \in Nat \ {0}  BY ChunkLen
  <2> DEFINE b == n * CHUNK_LEN
             d == CHUNK_LEN - 1
  <2>2. b \in Int /\ b = n + n * d /\ d \in Nat  BY <2>1
  <2>3. n * d \in Nat  BY <2>2
  <2>4. b = n * CHUNK_LEN + 0 /\ 0 \in 0 .. CHUNK_LEN - 1 /\ n \in Int  BY <2>1
  <2>5. b \div CHUNK_LEN = n
    <3> HIDE DEF b
    <3> QED  BY <2>1, <2>2, <2>4, ModUnique
  <2> QED  BY <2>2, <2>3, <2>5 DEF Bytes
<1>2. \A m, n \in Nat : Bytes(m + n) = Bytes(m) + Bytes(n)  BY ChunkLen DEF Bytes
<1>3. ASSUME NEW m \in Nat, NEW n \in Nat
      PROVE  m < n <=> Bytes(m) + CHUNK_LEN <= Bytes(n)
  <2>1. CHUNK_LEN \in Nat \ {0}  BY ChunkLen
  <2>2. Bytes(m) \in Nat /\ Bytes(n) \in Nat  BY <1>1
  <2>3. m < n => Bytes(n) >= Bytes(m) + CHUNK_LEN  BY <2>1, MultiplesApart DEF Bytes
  <2>4. n < m => Bytes(m) >= Bytes(n) + CHUNK_LEN  BY <2>1, MultiplesApart DEF Bytes
  <2>5. n = m \/ n < m \/ m < n  OBVIOUS
  <2>6. n = m => Bytes(m) = Bytes(n)  OBVIOUS
  <2> QED  BY <2>1, <2>2, <2>3, <2>4, <2>5, <2>6
<1>4. Bytes(0) = 0 /\ Bytes(1) = CHUNK_LEN  BY ChunkLen DEF Bytes
<1> QED  BY <1>1, <1>2, <1>3, <1>4

LEMMA LastChunkIs ==
    /\ LastChunk \in Nat
    /\ \A n \in Nat : n <= LastChunk <=> Bytes(n) <= MaxTree
    /\ \A n \in 0 .. LastChunk : n \in 0 .. Top - 1
<1>1. CHUNK_LEN \in Nat \ {0} /\ MaxTree \in Nat /\ MaxTree < Top /\ Top \in Nat  BY ChunkLen
<1> DEFINE d == LastChunk
           r == MaxTree % CHUNK_LEN
<1>2. d \in Int /\ r \in 0 .. CHUNK_LEN - 1 /\ MaxTree = d * CHUNK_LEN + r
  BY <1>1, DivMod DEF LastChunk
<1> HIDE DEF d, r
<1>3. ~ (0 > d)
  <2> SUFFICES ASSUME 0 > d PROVE FALSE  OBVIOUS
  <2>1. 0 * CHUNK_LEN >= d * CHUNK_LEN + CHUNK_LEN  BY <1>1, <1>2, MultiplesApart
  <2>2. 0 * CHUNK_LEN = 0 /\ d * CHUNK_LEN \in Int  BY <1>1, <1>2
  <2> QED  BY <1>1, <1>2, <2>1, <2>2
<1>4. d \in Nat  BY <1>2, <1>3
<1>5. MaxTree = Bytes(d) + r  BY <1>2 DEF Bytes
<1>6. ASSUME NEW n \in Nat  PROVE n <= d <=> Bytes(n) <= MaxTree
  <2>1. Bytes(n) \in Nat /\ Bytes(d) \in Nat  BY <1>4, BytesOf
  <2>2. d < n => Bytes(d) + CHUNK_LEN <= Bytes(n)  BY <1>4, BytesOf
  <2>3. n < d => Bytes(n) + CHUNK_LEN <= Bytes(d)  BY <1>4, BytesOf
  <2>4. n = d => Bytes(n) = Bytes(d)  OBVIOUS
  <2> QED  BY <1>1, <1>2, <1>4, <1>5, <2>1, <2>2, <2>3, <2>4
<1>7. ASSUME NEW n \in 0 .. d  PROVE n \in 0 .. Top - 1
  <2>1. n \in Nat /\ n <= d  BY <1>4
  <2>2. Bytes(n) <= MaxTree /\ n <= Bytes(n) /\ Bytes(n) \in Nat  BY <1>6, <2>1, BytesOf
  <2> QED  BY <1>1, <2>1, <2>2
<1> QED  BY <1>4, <1>6, <1>7 DEF d

\* A power of two of chunks is a power of two of bytes, and the other way.
LEMMA PowerOfChunks ==
    /\ \A h \in Power : Bytes(h) < Top => Bytes(h) \in B3!Pow2 /\ h \in B3!Pow2
    /\ \A p \in Power : CHUNK_LEN <= p => \E h \in Power : p = Bytes(h)
<1> DEFINE f == B3!TwoTo
<1>b. Bits \in Nat /\ CHUNK_LEN \in Nat \ {0} /\ Top \in Nat \ {0}  BY TreeConstants, ChunkLen
<1>1. PICK c \in 0 .. Bits - 1 : CHUNK_LEN = f[c]  BY TreeConstants, Zenon DEF B3!Pow2
<1>t. \A i \in 0 .. Bits : f[i] \in Nat \ {0}  BY TwoToIs
<1>c. c \in 0 .. Bits /\ Bits - c \in 0 .. Bits  BY <1>b
<1>2. ASSUME NEW h \in Power, Bytes(h) < Top  PROVE Bytes(h) \in B3!Pow2
  <2>1. PICK j \in 0 .. Bits : h = f[j]  BY Zenon DEF Power
  <2>2. c + j < Bits
    <3> SUFFICES ASSUME ~ (c + j < Bits) PROVE FALSE  OBVIOUS
    <3> DEFINE i == Bits - c
               k == j - i
    <3>1. i \in 0 .. Bits /\ k \in 0 .. Bits - i /\ i + k = j /\ c + i = Bits /\ i \in 0 .. Bits - c
          /\ k \in 0 .. Bits
      BY <1>b
    <3> HIDE DEF i, k
    <3>2. f[j] = f[i] * f[k]  BY <3>1, TwoToSum
    <3>3. Top = f[c] * f[i]  BY <1>c, <3>1, TwoToSum DEF Top
    <3> DEFINE x == f[i]
               y == f[k]
    <3>4. x \in Nat \ {0} /\ y \in Nat \ {0}  BY <1>t, <3>1
    <3>5. Bytes(h) = (x * y) * CHUNK_LEN /\ Top = CHUNK_LEN * x
      BY <1>1, <2>1, <3>2, <3>3 DEF Bytes
    <3> HIDE DEF x, y, f
    <3>6. Bytes(h) = y * Top  BY <1>b, <3>4, <3>5
    <3>7. y * Top >= 0 * Top + Top  BY <1>b, <3>4, MultiplesApart
    <3>8. 0 * Top = 0 /\ y * Top \in Int  BY <1>b, <3>4
    <3> QED  BY <1>2, <1>b, <3>6, <3>7, <3>8
  <2>3. j \in 0 .. Bits - c /\ c + j \in 0 .. Bits - 1  BY <2>2, <1>b
  <2>4. f[c + j] = f[c] * f[j]  BY <1>c, <2>3, TwoToSum
  <2>5. f[c] * f[j] = f[j] * f[c]
    <3> DEFINE x == f[c]
               y == f[j]
    <3>1. x \in Nat /\ y \in Nat  BY <1>t, <1>c
    <3> HIDE DEF x, y, f
    <3>2. x * y = y * x  BY <3>1
    <3> QED  BY <3>2 DEF x, y
  <2>6. Bytes(h) = f[c + j]  BY <1>1, <2>1, <2>4, <2>5 DEF Bytes
  <2> QED  BY <2>3, <2>6, Zenon DEF B3!Pow2
<1>3. ASSUME NEW h \in Power, Bytes(h) < Top  PROVE h \in B3!Pow2
  <2>1. h \in Nat /\ h <= Bytes(h) /\ Bytes(h) \in Nat  BY Powers, BytesOf
  <2>2. h < Top  BY <1>3, <1>b, <2>1
  <2> QED  BY <2>2, Powers, PowerLess
<1>4. ASSUME NEW p \in Power, CHUNK_LEN <= p  PROVE \E h \in Power : p = Bytes(h)
  <2>1. PICK k \in 0 .. Bits : p = f[k]  BY Zenon DEF Power
  <2>2. CHUNK_LEN \in Power  BY TreeConstants, Powers
  <2>3. CASE k < c
    <3>1. c - k \in 0 .. Bits - k /\ k + (c - k) = c /\ c - k \in 0 .. Bits  BY <1>b, <2>3
    <3>2. f[c] = f[k] * f[c - k]  BY <3>1, TwoToSum
    <3> DEFINE y == f[c - k]
    <3>3. y \in Nat \ {0} /\ p \in Nat \ {0} /\ CHUNK_LEN = p * y  BY <1>1, <1>t, <2>1, <3>1, <3>2
    <3> HIDE DEF y, f
    <3>4. CHUNK_LEN = y * p  BY <3>3
    <3>5. y = 1
      <4> SUFFICES ASSUME y > 1 PROVE FALSE  BY <3>3
      <4>1. y * p >= 1 * p + p  BY <3>3, MultiplesApart
      <4>2. y * p \in Int /\ 1 * p = p  BY <3>3
      <4> QED  BY <1>4, <3>3, <3>4, <4>1, <4>2
    <3>6. p = CHUNK_LEN  BY <3>3, <3>5
    <3>7. p = Bytes(1) /\ 1 \in Power  BY <3>6, BytesOf, Powers
    <3> QED  BY <3>7
  <2>4. CASE ~ (k < c)
    <3> DEFINE j == k - c
    <3>1. j \in 0 .. Bits - c /\ c + j = k /\ j \in 0 .. Bits  BY <1>b, <2>4
    <3> HIDE DEF j
    <3>2. f[k] = f[c] * f[j]  BY <1>c, <3>1, TwoToSum
    <3> DEFINE y == f[j]
    <3>3. y \in Nat /\ p = CHUNK_LEN * y  BY <1>1, <1>t, <2>1, <3>1, <3>2
    <3>4. y \in Power  BY <3>1, Zenon DEF Power
    <3> HIDE DEF y, f
    <3>5. p = Bytes(y)  BY <1>b, <3>3 DEF Bytes
    <3> QED  BY <3>4, <3>5
  <2> QED  BY <2>3, <2>4
<1> QED  BY <1>2, <1>3, <1>4

LEMMA LeftIs ==
    ASSUME NEW n \in 2 .. Top
    PROVE  /\ B3!Left(n) \in B3!Pow2 /\ B3!Left(n) \in 1 .. n - 1 /\ n <= 2 * B3!Left(n)
           /\ \A p \in B3!Pow2 : p < n /\ n <= 2 * p => B3!Left(n) = p
<1>t. Top \in Nat \ {0}  BY Powers
<1> DEFINE x == n - 1
           q == B3!round_down_to_power_of_2(x)
           l == B3!Left(n)
<1>1. x \in 1 .. Top - 1 /\ n \in Nat  BY <1>t
<1>2. q \in B3!Pow2 /\ q <= x /\ x < 2 * q  BY <1>1, RoundDown
<1>3. q < n /\ n <= 2 * q
  <2>1. q \in Nat  BY <1>2, Powers
  <2> HIDE DEF q
  <2> QED  BY <1>1, <1>2, <2>1
<1>4. l \in B3!Pow2 /\ l < n /\ n <= 2 * l
  <2> HIDE DEF q, l
  <2>1. \E p \in B3!Pow2 : p < n /\ n <= 2 * p  BY <1>2, <1>3
  <2> QED  BY <2>1, Zenon DEF B3!Left, l
<1> HIDE DEF l, q
<1>5. ASSUME NEW p \in B3!Pow2, p < n, n <= 2 * p  PROVE l = p
  <2>1. p \in Nat /\ l \in Nat  BY <1>4, Powers
  <2>2. p <= x /\ x < 2 * p /\ l <= x /\ x < 2 * l  BY <1>1, <1>4, <1>5, <2>1
  <2>3. B3!round_down_to_power_of_2(x) = p  BY <1>1, <2>2, RoundDownIs
  <2>4. B3!round_down_to_power_of_2(x) = l  BY <1>1, <1>4, <2>2, RoundDownIs
  <2> QED  BY <2>3, <2>4
<1>6. l \in 1 .. n - 1
  <2>1. l \in Nat \ {0}  BY <1>4, Powers
  <2> QED  BY <1>1, <1>4, <2>1
<1> QED  BY <1>4, <1>5, <1>6 DEF l

\* The tree of more than one chunk is that of its left part and of the rest.
LEMMA TreeIs ==
    ASSUME NEW n \in 0 .. MaxTree, NEW at \in Nat
    PROVE  /\ n <= CHUNK_LEN => B3!Tree[n][at] = B3!Chunk(at, n)
           /\ n > CHUNK_LEN =>
                B3!Tree[n][at]
                  = B3!parent_output(
                      <<B3!output_chaining_value(B3!Tree[B3!Left(n)][at]),
                        B3!output_chaining_value(B3!Tree[n - B3!Left(n)][at + B3!Left(n)])>>)
<1> DEFINE CV(o) == B3!output_chaining_value(o)
           Node(x, y) == B3!parent_output(<<CV(x), CV(y)>>)
           Leaf(a, m) == B3!Chunk(a, m)
           L(m) == B3!Left(m)
           hi == MaxTree
           Is(f, k) == f = [m \in 0 .. k |-> [a \in Nat |->
                              IF m <= CHUNK_LEN THEN Leaf(a, m)
                              ELSE Node(f[L(m)][a], f[m - L(m)][a + L(m)])]]
           M == {k \in 0 .. hi : \E f : Is(f, k)}
           t == B3!Tree
<1>b. hi \in Nat /\ CHUNK_LEN \in Nat /\ 2 <= CHUNK_LEN  BY ChunkLen
<1>l. ASSUME NEW m \in 0 .. hi, m > CHUNK_LEN
      PROVE  L(m) \in 1 .. m - 1 /\ m - L(m) \in 1 .. m - 1 /\ L(m) \in Nat
  <2>1. m \in 2 .. Top  BY <1>l, ChunkLen
  <2>2. L(m) \in 1 .. m - 1  BY <2>1, LeftIs
  <2> HIDE DEF L
  <2> QED  BY <1>b, <2>2
<1>4t. (\E f : Is(f, hi)) => Is(t, hi)
  BY Zenon DEF B3!Tree
<1> HIDE DEF t, L, hi, Node, Leaf
<1>1. 0 \in M
  <2> DEFINE f == [m \in 0 .. 0 |-> [a \in Nat |-> Leaf(a, m)]]
  <2>1. \A m \in 0 .. 0 : m <= CHUNK_LEN  BY <1>b
  <2>2. f = [m \in 0 .. 0 |-> [a \in Nat |->
                              IF m <= CHUNK_LEN THEN Leaf(a, m)
                              ELSE Node(f[L(m)][a], f[m - L(m)][a + L(m)])]]
    BY <2>1
  <2>3. Is(f, 0)  BY <2>2
  <2> HIDE DEF Is, f
  <2> QED  BY <1>b, <2>3
<1>2. ASSUME NEW k \in 0 .. hi - 1, k \in M  PROVE k + 1 \in M
  <2>1. PICK f : Is(f, k)  BY <1>2
  <2> DEFINE Body(h, m, a) == IF m <= CHUNK_LEN THEN Leaf(a, m)
                              ELSE Node(h[L(m)][a], h[m - L(m)][a + L(m)])
             y == [a \in Nat |-> Body(f, k + 1, a)]
             g == [m \in 0 .. k + 1 |-> IF m = k + 1 THEN y ELSE f[m]]
  <2>2. k + 1 \in 0 .. hi  BY <1>b
  <2>3. f = [m \in 0 .. k |-> [a \in Nat |-> Body(f, m, a)]]  BY <2>1
  <2>e. ASSUME NEW m \in 0 .. k  PROVE g[m] = f[m]
    <3> HIDE DEF y
    <3>1. m \in 0 .. k + 1 /\ m # k + 1  BY <1>b
    <3> QED  BY <3>1
  <2>y. g[k + 1] = y
    <3> HIDE DEF y
    <3>1. k + 1 \in 0 .. k + 1  BY <1>b
    <3> QED  BY <3>1
  <2>d. g = [m \in 0 .. k + 1 |-> g[m]]  OBVIOUS
  <2> HIDE DEF g
  <2>4. ASSUME NEW m \in 0 .. k + 1, NEW a \in Nat  PROVE Body(f, m, a) = Body(g, m, a)
    <3>1. CASE m <= CHUNK_LEN  BY <3>1
    <3>2. CASE ~ (m <= CHUNK_LEN)
      <4>1. m \in 0 .. hi /\ m > CHUNK_LEN  BY <1>b, <3>2
      <4>2. L(m) \in 0 .. k /\ m - L(m) \in 0 .. k  BY <1>b, <1>l, <4>1
      <4>3. g[L(m)] = f[L(m)] /\ g[m - L(m)] = f[m - L(m)]  BY <2>e, <4>2
      <4> QED  BY <4>3
    <3> QED  BY <3>1, <3>2
  <2>5. ASSUME NEW m \in 0 .. k + 1  PROVE g[m] = [a \in Nat |-> Body(g, m, a)]
    <3>1. g[m] = [a \in Nat |-> Body(f, m, a)]
      <4>1. CASE m = k + 1  BY <2>y, <4>1
      <4>2. CASE m # k + 1
        <5>1. m \in 0 .. k  BY <1>b, <4>2
        <5> HIDE DEF Body
        <5> QED  BY <2>3, <2>e, <5>1
      <4> QED  BY <4>1, <4>2
    <3> HIDE DEF Body
    <3> QED  BY <2>4, <3>1
  <2>6. g = [m \in 0 .. k + 1 |-> [a \in Nat |-> Body(g, m, a)]]
    <3> HIDE DEF Body
    <3> QED  BY <2>5, <2>d
  <2>7. Is(g, k + 1)  BY <2>6
  <2> HIDE DEF Is
  <2> QED  BY <2>2, <2>7
<1>3. \E f : Is(f, hi)
  <2>1. 0 \in Int /\ hi \in Int /\ hi \in 0 .. hi  BY <1>b
  <2> HIDE DEF M
  <2>2. \A k \in 0 .. hi : k \in M  BY <1>1, <1>2, <2>1, IntervalInduction
  <2> HIDE DEF Is
  <2> QED  BY <2>1, <2>2 DEF M
<1>4. Is(t, hi)  BY <1>3, <1>4t, Zenon
<1>5. t[n][at] = IF n <= CHUNK_LEN THEN Leaf(at, n)
                 ELSE Node(t[L(n)][at], t[n - L(n)][at + L(n)])
  <2>1. n \in 0 .. hi  BY DEF hi
  <2> DEFINE Body(h, m, a) == IF m <= CHUNK_LEN THEN Leaf(a, m)
                              ELSE Node(h[L(m)][a], h[m - L(m)][a + L(m)])
  <2>2. t = [m \in 0 .. hi |-> [a \in Nat |-> Body(t, m, a)]]  BY <1>4
  <2> HIDE DEF Body, Is
  <2>3. t[n] = [a \in Nat |-> Body(t, n, a)]
    <3> DEFINE r == [m \in 0 .. hi |-> [a \in Nat |-> Body(t, m, a)]]
    <3>1. r[n] = [a \in Nat |-> Body(t, n, a)]  BY <2>1
    <3> HIDE DEF r
    <3> QED  BY <2>2, <3>1, Zenon DEF r
  <2>4. t[n][at] = Body(t, n, at)  BY <2>3
  <2> QED  BY <2>4 DEF Body
<1>6. n \in Nat  OBVIOUS
<1>7. n <= CHUNK_LEN => t[n][at] = Leaf(at, n)  BY <1>5
<1>8. n > CHUNK_LEN => t[n][at] = Node(t[L(n)][at], t[n - L(n)][at + L(n)])
  BY <1>b, <1>5, <1>6
<1> QED  BY <1>7, <1>8, Zenon DEF Node, CV, Leaf, t, L

\* A tree of at most twice 2 ^ k chunks, and of more than 2 ^ k, splits there.
LEMMA TreeSplits ==
    ASSUME NEW h \in Power, NEW r \in 1 .. Bytes(h), Bytes(h) + r <= MaxTree, NEW at \in Nat
    PROVE  B3!Tree[Bytes(h) + r][at]
             = B3!parent_output(
                 <<B3!output_chaining_value(B3!Tree[Bytes(h)][at]),
                   B3!output_chaining_value(B3!Tree[r][at + Bytes(h)])>>)
<1> DEFINE b == Bytes(h)
           n == b + r
<1>1. h \in Nat \ {0} /\ b \in Nat /\ h <= b  BY Powers, BytesOf
<1>2. CHUNK_LEN <= b
  <2>1. 0 < h /\ Bytes(0) + CHUNK_LEN <= Bytes(h) /\ Bytes(0) = 0  BY <1>1, BytesOf
  <2> QED  BY <2>1, ChunkLen
<1> HIDE DEF b
<1>3. b < Top /\ r \in 1 .. b /\ n \in 2 .. Top /\ n \in 0 .. MaxTree /\ n > CHUNK_LEN
  <2>1. r \in 1 .. b /\ b + r <= MaxTree  BY DEF b
  <2> QED  BY <1>1, <1>2, <2>1, ChunkLen
<1>4. b \in B3!Pow2  BY <1>3, PowerOfChunks DEF b
<1>5. b < n /\ n <= 2 * b /\ n - b = r  BY <1>1, <1>3
<1> HIDE DEF n
<1>6. B3!Left(n) = b  BY <1>3, <1>4, <1>5, LeftIs
<1>7. B3!Tree[n][at] = B3!parent_output(
                      <<B3!output_chaining_value(B3!Tree[b][at]),
                        B3!output_chaining_value(B3!Tree[r][at + b])>>)
  BY <1>3, <1>5, <1>6, TreeIs
<1> QED  BY <1>7, Zenon DEF n, b

\* Two subtrees of the same size are those of one of twice the size.
LEMMA SubtreesJoin ==
    ASSUME NEW h \in Power, NEW a \in Nat, Bytes(h) + Bytes(h) <= MaxTree
    PROVE  B3!Subtree(a, 2 * h)
             = B3!output_chaining_value(B3!parent_output(
                 <<B3!Subtree(a, h), B3!Subtree(a + h, h)>>))
<1>1. h \in Nat \ {0} /\ Bytes(h) \in Nat /\ h <= Bytes(h)  BY Powers, BytesOf
<1>2. 2 * h = h + h  BY <1>1
<1>3. Bytes(2 * h) = Bytes(h) + Bytes(h) /\ Bytes(a + h) = Bytes(a) + Bytes(h) /\ Bytes(a) \in Nat
  BY <1>1, <1>2, BytesOf
<1>4. Bytes(h) \in 1 .. Bytes(h)  BY <1>1
<1>5. B3!Tree[Bytes(h) + Bytes(h)][Bytes(a)]
        = B3!parent_output(
            <<B3!output_chaining_value(B3!Tree[Bytes(h)][Bytes(a)]),
              B3!output_chaining_value(B3!Tree[Bytes(h)][Bytes(a) + Bytes(h)])>>)
  BY <1>3, <1>4, TreeSplits
<1>6. \A x, n : B3!Subtree(x, n) = B3!output_chaining_value(B3!Tree[Bytes(n)][Bytes(x)])
  BY Zenon DEF B3!Subtree, Bytes
<1> QED  BY <1>3, <1>5, <1>6, Zenon

-----------------------------------------------------------------------------
(* The stack of a whole number of chunks *)

LEMMA CanonicalIs ==
    /\ B3!Canonical[0] = <<>>
    /\ \A n \in 1 .. LastChunk :
          B3!Canonical[n] = Append(B3!Canonical[n - B3!LowBit(n)],
                                   B3!Subtree(n - B3!LowBit(n), B3!LowBit(n)))
<1> DEFINE L(n) == B3!LowBit(n)
           Sub(a, n) == B3!Subtree(a, n)
           hi == LastChunk
           Is(f, k) == f = [n \in 0 .. k |->
                              IF n = 0 THEN <<>> ELSE Append(f[n - L(n)], Sub(n - L(n), L(n)))]
           M == {k \in 0 .. hi : \E f : Is(f, k)}
           t == B3!Canonical
<1>b. hi \in Nat  BY LastChunkIs
<1>l. ASSUME NEW n \in 1 .. hi  PROVE n - L(n) \in 0 .. n - 1
  <2>1. n \in 0 .. hi /\ n \in Nat /\ n # 0  BY <1>b
  <2>2. n \in 0 .. Top - 1  BY <2>1, LastChunkIs
  <2>3. n \in 1 .. Top - 1  BY <2>1, <2>2
  <2> QED  BY <2>3, WithoutLow
<1>4t. (\E f : Is(f, hi)) => Is(t, hi)
  BY Zenon DEF B3!Canonical, LastChunk
<1> HIDE DEF t, L, hi, Sub
<1>1. 0 \in M
  <2>1. Is([n \in 0 .. 0 |-> <<>>], 0)  OBVIOUS
  <2> HIDE DEF Is
  <2> QED  BY <1>b, <2>1
<1>2. ASSUME NEW k \in 0 .. hi - 1, k \in M  PROVE k + 1 \in M
  <2>1. PICK f : Is(f, k)  BY <1>2
  <2> DEFINE Body(h, n) == IF n = 0 THEN <<>> ELSE Append(h[n - L(n)], Sub(n - L(n), L(n)))
             y == Body(f, k + 1)
             g == [n \in 0 .. k + 1 |-> IF n = k + 1 THEN y ELSE f[n]]
  <2>2. k + 1 \in 0 .. hi  BY <1>b
  <2>3. f = [n \in 0 .. k |-> Body(f, n)]  BY <2>1
  <2>e. ASSUME NEW n \in 0 .. k  PROVE g[n] = f[n]
    <3> HIDE DEF y
    <3>1. n \in 0 .. k + 1 /\ n # k + 1  BY <1>b
    <3> QED  BY <3>1
  <2>y. g[k + 1] = y
    <3> HIDE DEF y
    <3>1. k + 1 \in 0 .. k + 1  BY <1>b
    <3> QED  BY <3>1
  <2>d. g = [n \in 0 .. k + 1 |-> g[n]]  OBVIOUS
  <2> HIDE DEF g
  <2>4. ASSUME NEW n \in 0 .. k + 1  PROVE Body(f, n) = Body(g, n)
    <3>1. CASE n = 0  BY <3>1
    <3>2. CASE n # 0
      <4>1. n \in 1 .. hi  BY <1>b, <3>2
      <4>2. n - L(n) \in 0 .. k  BY <1>b, <1>l, <4>1
      <4>3. g[n - L(n)] = f[n - L(n)]  BY <2>e, <4>2
      <4> QED  BY <4>3
    <3> QED  BY <3>1, <3>2
  <2>5. ASSUME NEW n \in 0 .. k + 1  PROVE g[n] = Body(g, n)
    <3>1. g[n] = Body(f, n)
      <4>1. CASE n = k + 1  BY <2>y, <4>1
      <4>2. CASE n # k + 1
        <5>1. n \in 0 .. k  BY <1>b, <4>2
        <5> HIDE DEF Body
        <5> QED  BY <2>3, <2>e, <5>1
      <4> QED  BY <4>1, <4>2
    <3> HIDE DEF Body
    <3> QED  BY <2>4, <3>1
  <2>6. g = [n \in 0 .. k + 1 |-> Body(g, n)]
    <3> HIDE DEF Body
    <3> QED  BY <2>5, <2>d
  <2>7. Is(g, k + 1)  BY <2>6
  <2> HIDE DEF Is
  <2> QED  BY <2>2, <2>7
<1>3. \E f : Is(f, hi)
  <2>1. 0 \in Int /\ hi \in Int /\ hi \in 0 .. hi  BY <1>b
  <2> HIDE DEF M
  <2>2. \A k \in 0 .. hi : k \in M  BY <1>1, <1>2, <2>1, IntervalInduction
  <2> HIDE DEF Is
  <2> QED  BY <2>1, <2>2 DEF M
<1>4. Is(t, hi)  BY <1>3, <1>4t, Zenon
<1>5. t[0] = <<>>  BY <1>4, <1>b
<1>6. ASSUME NEW n \in 1 .. hi  PROVE t[n] = Append(t[n - L(n)], Sub(n - L(n), L(n)))
  <2>1. n \in 0 .. hi /\ n # 0  BY <1>b
  <2> QED  BY <1>4, <2>1
<1> QED  BY <1>5, <1>6, Zenon DEF t, L, Sub, hi

\* The chaining values there are, and a stack of the chunks before m, whose
\* merges are done, with the subtree of h chunks on top.
Value == UNION {{B3!Subtree(a, n) : n \in 0 .. LastChunk} : a \in 0 .. LastChunk}
Pending(m, h) == Append(B3!Canonical[m], B3!Subtree(m, h))
\* On top of a stack of n chunks there may be a subtree of a power of two of
\* chunks that divides n.
OnTop(n) == {h \in Power : h <= n /\ Divides(h, n)}
Stacks(n) == IF n = 0 THEN {<<>>} ELSE {Pending(n - h, h) : h \in OnTop(n)}

LEMMA ValueIs == \A a, n \in 0 .. LastChunk : B3!Subtree(a, n) \in Value
<1> TAKE a, n \in 0 .. LastChunk
<1>1. B3!Subtree(a, n) \in {B3!Subtree(a, k) : k \in 0 .. LastChunk}  BY Zenon
<1> QED  BY <1>1, Zenon DEF Value

LEMMA LowOnTop ==
    ASSUME NEW n \in 1 .. LastChunk
    PROVE  B3!LowBit(n) \in OnTop(n) /\ B3!Canonical[n] = Pending(n - B3!LowBit(n), B3!LowBit(n))
<1>1. n \in 1 .. Top - 1
  <2>1. n \in 0 .. LastChunk /\ n \in Nat /\ n # 0  BY LastChunkIs
  <2>2. n \in 0 .. Top - 1  BY <2>1, LastChunkIs
  <2> QED  BY <2>1, <2>2
<1>2. B3!LowBit(n) \in Power /\ Divides(B3!LowBit(n), n) /\ B3!LowBit(n) <= n
  BY <1>1, LowBitIs, WithoutLow, Powers, Zenon DEF IsLow
<1>3. B3!Canonical[n] = Pending(n - B3!LowBit(n), B3!LowBit(n))
  BY CanonicalIs, Zenon DEF Pending
<1> QED  BY <1>2, <1>3 DEF OnTop

LEMMA CanonicalType ==
    \A n \in 0 .. LastChunk :
       /\ B3!Canonical[n] \in Seq(Value)
       /\ Len(B3!Canonical[n]) = B3!OneBits[n] /\ B3!OneBits[n] \in Nat
<1> DEFINE f == B3!Canonical
           ones == B3!OneBits
           S == {n \in 0 .. LastChunk : f[n] \in Seq(Value) /\ Len(f[n]) = ones[n]}
<1>b. LastChunk \in Nat  BY LastChunkIs
<1>o. \A n \in 0 .. LastChunk : ones[n] \in Nat  BY LastChunkIs, PopcntIs
<1>1. ASSUME NEW n \in 0 .. LastChunk, \A m \in 0 .. n - 1 : m \in S  PROVE n \in S
  <2>1. CASE n = 0
    <3>1. f[0] = <<>> /\ ones[0] = 0  BY CanonicalIs, PopcntIs
    <3> HIDE DEF f, ones
    <3>2. f[n] \in Seq(Value) /\ Len(f[n]) = ones[n]  BY <2>1, <3>1
    <3> QED  BY <3>2
  <2>2. CASE n # 0
    <3> DEFINE b == B3!LowBit(n)
               v == B3!Subtree(n - b, b)
    <3>1. n \in 1 .. LastChunk /\ n \in 0 .. Top - 1  BY <2>2, <1>b, LastChunkIs
    <3>2. n \in 1 .. Top - 1  BY <2>2, <3>1
    <3>3. b \in Nat \ {0} /\ b <= n /\ n - b \in 0 .. n - 1  BY <3>2, WithoutLow
    <3>4. ones[n] = 1 + ones[n - b]  BY <3>2, PopcntIs
    <3>5. f[n] = Append(f[n - b], v)  BY <3>1, CanonicalIs
    <3> HIDE DEF b
    <3>6. n - b \in 0 .. LastChunk /\ b \in 0 .. LastChunk  BY <1>b, <3>3
    <3>7. v \in Value  BY <3>6, ValueIs, Zenon
    <3>8. f[n - b] \in Seq(Value) /\ Len(f[n - b]) = ones[n - b] /\ ones[n - b] \in Nat
      <4>1. n - b \in S  BY <1>1, <3>3
      <4> HIDE DEF f, ones
      <4> QED  BY <1>o, <3>6, <4>1
    <3> DEFINE s == f[n - b]
               k == ones[n - b]
    <3> HIDE DEF v
    <3>9. f[n] = Append(s, v) /\ s \in Seq(Value) /\ Len(s) = k /\ k \in Nat /\ ones[n] = 1 + k
      BY <3>4, <3>5, <3>8
    <3> HIDE DEF s, k, f, ones
    <3>10. f[n] \in Seq(Value) /\ Len(f[n]) = ones[n]  BY <3>7, <3>9
    <3> QED  BY <3>10
  <2> QED  BY <2>1, <2>2
<1> HIDE DEF S
<1>2. \A n \in 0 .. LastChunk : n \in S  BY <1>b, <1>1, StrongInduction
<1> QED  BY <1>2, <1>o DEF S, f, ones

LEMMA PendingIs ==
    ASSUME NEW m \in Nat, NEW h \in Nat, m + h <= LastChunk
    PROVE  /\ B3!Subtree(m, h) \in Value
           /\ B3!Canonical[m] \in Seq(Value)
           /\ Pending(m, h) \in Seq(Value)
           /\ Len(Pending(m, h)) = Len(B3!Canonical[m]) + 1
           /\ Len(Pending(m, h)) = B3!OneBits[m] + 1
           /\ B3!OneBits[m] \in Nat
<1>1. m \in 0 .. LastChunk /\ h \in 0 .. LastChunk  BY LastChunkIs
<1> DEFINE v == B3!Subtree(m, h)
           s == B3!Canonical[m]
           k == B3!OneBits[m]
<1>2. v \in Value  BY <1>1, ValueIs, Zenon
<1>3. s \in Seq(Value) /\ Len(s) = k /\ k \in Nat  BY <1>1, CanonicalType
<1>4. Pending(m, h) = Append(s, v)  BY DEF Pending
<1> HIDE DEF v, s, k
<1>5. Append(s, v) \in Seq(Value) /\ Len(Append(s, v)) = Len(s) + 1  BY <1>2, <1>3
<1> QED  BY <1>2, <1>3, <1>4, <1>5 DEF v, s, k

LEMMA TopTwo ==
    ASSUME NEW S, NEW c \in Seq(S), NEW x \in S, NEW y \in S
    PROVE  LET s == Append(Append(c, x), y)
           IN  /\ s \in Seq(S) /\ Len(s) = Len(c) + 2 /\ SubSeq(s, 1, Len(s) - 2) = c
               /\ s[Len(s) - 1] = x /\ s[Len(s)] = y
<1> DEFINE a == Append(c, x)
           s == Append(a, y)
           r == SubSeq(s, 1, Len(s) - 2)
<1>1. a \in Seq(S) /\ Len(a) = Len(c) + 1 /\ Len(c) \in Nat  OBVIOUS
<1>2. a[Len(a)] = x /\ \A i \in 1 .. Len(c) : a[i] = c[i]  OBVIOUS
<1> HIDE DEF a
<1>3. s \in Seq(S) /\ Len(s) = Len(c) + 2  BY <1>1
<1>4. s[Len(s)] = y /\ \A i \in 1 .. Len(a) : s[i] = a[i]  BY <1>1
<1> HIDE DEF s
<1>5. s[Len(s) - 1] = x  BY <1>1, <1>2, <1>3, <1>4
<1>6. r \in Seq(S) /\ Len(r) = Len(c) /\ \A i \in 1 .. Len(c) : r[i] = s[i]
  <2>1. Len(s) - 2 = Len(c) /\ Len(c) \in 0 .. Len(s)  BY <1>1, <1>3
  <2> QED  BY <1>1, <1>3, <2>1
<1>7. \A i \in 1 .. Len(c) : s[i] = c[i]  BY <1>1, <1>2, <1>4
<1> HIDE DEF r
<1>8. r = c  BY <1>6, <1>7, SeqEqual
<1> QED  BY <1>3, <1>4, <1>5, <1>8 DEF r, s, a

\* With no merge outstanding nothing is merged.
LEMMA MergeDone ==
    ASSUME NEW n \in 0 .. LastChunk
    PROVE  B3!MergeTop(B3!Canonical[n], n) = B3!Canonical[n]
<1>1. Len(B3!Canonical[n]) = B3!OneBits[n] /\ B3!OneBits[n] \in Nat  BY CanonicalType
<1>2. Len(B3!Canonical[n]) <= B3!OneBits[n]  BY <1>1
<1> QED  BY <1>2, Zenon DEF B3!MergeTop, B3!popcnt

\* One merge: the two topmost subtrees are of the same size, and there are more
\* of them than one bits exactly when the one on top is not the lowest bit.
LEMMA MergeStep ==
    ASSUME NEW n \in 1 .. LastChunk, NEW s \in Stacks(n)
    PROVE  /\ s \in Seq(Value) /\ Len(s) \in Nat \ {0}
           /\ \/ s = B3!Canonical[n]
              \/ B3!MergeTop(s, n) \in Stacks(n) /\ Len(B3!MergeTop(s, n)) = Len(s) - 1
<1> DEFINE Sub(a, k) == B3!Subtree(a, k)
           Canon(k) == B3!Canonical[k]
           ones == B3!OneBits
           Join(x, y) == B3!output_chaining_value(B3!parent_output(<<x, y>>))
<1>n. n # 0 /\ n \in Nat /\ LastChunk \in Nat  BY LastChunkIs
<1>1. PICK h \in OnTop(n) : s = Pending(n - h, h)  BY <1>n DEF Stacks
<1>2. h \in Power /\ h <= n /\ Divides(h, n) /\ h \in Nat \ {0}  BY Powers DEF OnTop
<1> DEFINE m == n - h
<1>3. m \in Nat /\ m + h = n /\ m + h <= LastChunk  BY <1>2, <1>n
<1>s. s = Pending(m, h)  BY <1>1
<1> HIDE DEF m
<1>4. /\ Sub(m, h) \in Value /\ Canon(m) \in Seq(Value)
      /\ s \in Seq(Value) /\ Len(s) = Len(Canon(m)) + 1 /\ Len(s) = ones[m] + 1 /\ ones[m] \in Nat
  BY <1>s, <1>2, <1>3, PendingIs
<1>5. n \in 1 .. Top - 1 /\ n \in 0 .. Top - 1
  <2>1. n \in 0 .. LastChunk  BY <1>n
  <2>2. n \in 0 .. Top - 1  BY <2>1, LastChunkIs
  <2> QED  BY <2>2, <1>n
<1>6. CASE Divides(2 * h, m)
  <2>1. ~Divides(2 * h, n)
    <3> SUFFICES ASSUME Divides(2 * h, n) PROVE FALSE  OBVIOUS
    <3>1. m <= n /\ n - m = h /\ 2 * h \in Nat \ {0}  BY <1>2, <1>3
    <3>2. Divides(2 * h, h)  BY <1>3, <1>n, <1>6, <3>1, DividesDifference
    <3>3. 2 * h <= h  BY <1>2, <3>1, <3>2, DividesLess
    <3> QED  BY <1>2, <3>3
  <2>2. IsLow(h, n)  BY <1>2, <2>1 DEF IsLow
  <2>3. B3!LowBit(n) \in Power /\ IsLow(B3!LowBit(n), n)  BY <1>5, LowBitIs, Powers
  <2>4. B3!LowBit(n) = h  BY <1>2, <1>n, <2>2, <2>3, LowUnique
  <2>5. B3!Canonical[n] = Pending(n - h, h)  BY <2>4, LowOnTop
  <2> QED  BY <1>1, <1>4, <2>5
<1>7. CASE ~Divides(2 * h, m)
  <2>1. Divides(h, m)
    <3>1. h <= n /\ n - h = m  BY <1>2, <1>3, <1>n
    <3>2. Divides(h, h)  BY <1>2, DividesSelf
    <3> QED  BY <1>2, <1>n, <3>1, <3>2, DividesDifference
  <2> DEFINE l == m - h
             g == 2 * h
  <2>2. h <= m /\ l \in Nat /\ Divides(g, l) /\ Divides(g, m + h)
    BY <1>2, <1>3, <1>7, <2>1, DividesOdd
  <2>3. m \in 1 .. LastChunk /\ m \in 0 .. LastChunk  BY <1>2, <1>3, <1>n, <2>2
  <2>4. m \in 1 .. Top - 1
    <3>1. m \in 0 .. Top - 1  BY <2>3, LastChunkIs
    <3> QED  BY <2>3, <3>1
  <2>5. B3!LowBit(m) = h
    <3>1. IsLow(h, m)  BY <1>7, <2>1 DEF IsLow
    <3>2. B3!LowBit(m) \in Power /\ IsLow(B3!LowBit(m), m)  BY <2>4, LowBitIs, Powers
    <3> QED  BY <1>2, <1>3, <3>1, <3>2, LowUnique
  <2>6. Canon(m) = Append(Canon(l), Sub(l, h))
    <3>1. B3!Canonical[m] = Pending(m - h, h)  BY <2>3, <2>5, LowOnTop
    <3> QED  BY <3>1, Zenon DEF Pending
  <2>7. ones[m] = 1 + ones[l]  BY <2>4, <2>5, PopcntIs
  <2>8. g \in Power /\ g \in Nat /\ g <= n /\ l + g = n /\ l + h = m /\ l + h <= LastChunk
        /\ l + g <= LastChunk
    <3>1. h < n /\ n < Top /\ l + g = n /\ l + h = m /\ g <= n
      BY <1>2, <1>3, <1>5, <1>n, <2>2, Powers
    <3>2. h < Top /\ Top \in Power  BY <3>1, <1>2, <1>n, Powers
    <3>3. 2 * h \in Power  BY <1>2, <3>2, PowerLess
    <3> QED  BY <1>2, <1>3, <1>n, <2>2, <3>1, <3>3
  <2>9. ones[n] <= ones[m]
    <3>1. l \in 0 .. Top - 1 /\ l + g \in 0 .. Top - 1 /\ Divides(g, l)
      BY <1>5, <1>n, <2>2, <2>8, Powers
    <3>2. ones[l + g] <= ones[l] + 1
      <4> HIDE DEF g, l
      <4> QED  BY <2>8, <3>1, PopcntCarry
    <3>3. ones[l] \in Nat  BY <3>1, PopcntIs
    <3> QED  BY <2>7, <2>8, <3>2, <3>3
  <2>10. /\ Canon(l) \in Seq(Value) /\ Sub(l, h) \in Value
         /\ Pending(l, g) \in Seq(Value) /\ Len(Pending(l, g)) = Len(Canon(l)) + 1
    BY <1>2, <2>2, <2>8, PendingIs
  <2>11. Join(Sub(l, h), Sub(m, h)) = Sub(l, g)
    <3>1. Bytes(h) + Bytes(h) <= MaxTree
      <4>1. g <= LastChunk /\ g = h + h  BY <1>n, <1>2, <2>8
      <4>2. Bytes(g) <= MaxTree  BY <2>8, <4>1, LastChunkIs
      <4> QED  BY <1>2, <4>1, <4>2, BytesOf
    <3>2. B3!Subtree(l, 2 * h)
             = B3!output_chaining_value(B3!parent_output(
                 <<B3!Subtree(l, h), B3!Subtree(l + h, h)>>))
      BY <1>2, <2>2, <3>1, SubtreesJoin
    <3> QED  BY <2>8, <3>2
  <2> DEFINE c == Canon(l)
             x == Sub(l, h)
             y == Sub(m, h)
  <2>12. s = Append(Append(c, x), y)  BY <1>s, <2>6 DEF Pending
  <2>13. c \in Seq(Value) /\ x \in Value /\ y \in Value  BY <1>4, <2>10
  <2> HIDE DEF c, x, y
  <2>14. /\ Len(s) = Len(c) + 2 /\ SubSeq(s, 1, Len(s) - 2) = c
         /\ s[Len(s) - 1] = x /\ s[Len(s)] = y /\ Len(c) \in Nat
    BY <2>12, <2>13, TopTwo
  <2>15. ~ (Len(s) <= ones[n])
    <3>1. n \in 0 .. Top - 1  BY <1>5
    <3>2. ones[n] \in Nat  BY <3>1, PopcntIs
    <3> QED  BY <1>4, <2>9, <3>2
  <2>16. B3!MergeTop(s, n) = Append(c, Join(x, y))
    BY <2>14, <2>15, Zenon DEF B3!MergeTop, B3!popcnt
  <2>17. B3!MergeTop(s, n) = Pending(l, g)  BY <2>11, <2>16 DEF Pending, c, x, y
  <2>18. l = n - g  BY <1>2, <2>2, <2>8, <1>n
  <2>19. g \in OnTop(n)
    <3>1. Divides(g, n)  BY <2>2, <1>3
    <3> QED  BY <2>8, <3>1 DEF OnTop
  <2>20. Pending(l, g) \in Stacks(n)
    <3> HIDE DEF l, g
    <3> QED  BY <1>n, <2>18, <2>19 DEF Stacks
  <2>21. Len(Pending(l, g)) = Len(s) - 1  BY <2>10, <2>14 DEF c
  <2> HIDE DEF g, l
  <2> QED  BY <1>4, <2>17, <2>20, <2>21
<1> QED  BY <1>6, <1>7

LEMMA StacksType ==
    \A n \in 0 .. LastChunk : \A s \in Stacks(n) : s \in Seq(Value) /\ Len(s) \in Nat
<1> TAKE n \in 0 .. LastChunk
<1> TAKE s \in Stacks(n)
<1>1. CASE n = 0  BY <1>1 DEF Stacks
<1>2. CASE n # 0
  <2>1. n \in 1 .. LastChunk  BY <1>2, LastChunkIs
  <2> QED  BY <2>1, MergeStep
<1> QED  BY <1>1, <1>2

\* What hasher_merge_cv_stack leaves of the stacks that there can be.
LEMMA Merged ==
    ASSUME NEW n \in 0 .. LastChunk, NEW s \in Stacks(n)
    PROVE  B3!hasher_merge_cv_stack(s, n) = B3!Canonical[n]
<1> DEFINE merge(x) == B3!MergeTop(x, n)
           done == B3!Canonical[n]
           hi == Len(s)
           S == Stacks(n) \cup {done}
           T == [i \in 0 .. hi |-> {x \in S : x = done \/ (x \in Stacks(n) /\ Len(x) = hi - i)}]
           step == [i \in 0 + 1 .. hi |-> [x \in T[i - 1] |-> merge(x)]]
           Is(g) == g = [i \in 0 .. hi |-> IF i = 0 THEN s ELSE merge(g[i - 1])]
           merged == CHOOSE g : Is(g)
<1>m. B3!hasher_merge_cv_stack(s, n) = merged[hi]
  BY Zenon DEF B3!hasher_merge_cv_stack
<1>b. hi \in Nat /\ n \in Nat  BY StacksType, LastChunkIs
<1>z. n = 0 => s = <<>> /\ done = <<>> /\ hi = 0
  BY CanonicalIs DEF Stacks
<1>d. merge(done) = done  BY MergeDone
<1>p. \A x \in Stacks(n) : Len(x) = 0 => x = done
  <2> TAKE x \in Stacks(n)
  <2>1. CASE n = 0  BY <1>z, <2>1 DEF Stacks
  <2>2. CASE n # 0
    <3>1. n \in 1 .. LastChunk  BY <2>2, <1>b
    <3>2. Len(x) \in Nat \ {0}  BY <3>1, MergeStep
    <3> QED  BY <3>2
  <2> QED  BY <2>1, <2>2
<1>1. ASSUME NEW i \in 0 + 1 .. hi, NEW x \in T[i - 1]  PROVE merge(x) \in T[i]
  <2>i. i \in 0 .. hi /\ i - 1 \in 0 .. hi /\ i # 0 /\ i \in Nat /\ hi - (i - 1) = hi - i + 1  BY <1>b
  <2>1. x = done \/ (x \in Stacks(n) /\ Len(x) = hi - (i - 1))
    <3> HIDE DEF S, done
    <3> QED  BY <2>i
  <2>t. \A y : T[i] = {z \in S : z = done \/ (z \in Stacks(n) /\ Len(z) = hi - i)}
    <3> HIDE DEF S, done, hi
    <3> QED  BY <2>i
  <2>2. CASE x = done
    <3> HIDE DEF T, merge
    <3> QED  BY <1>d, <2>2, <2>t
  <2>3. CASE x # done
    <3>1. n # 0
      <4> SUFFICES ASSUME n = 0 PROVE FALSE  OBVIOUS
      <4> QED  BY <1>z, <2>i
    <3>2. n \in 1 .. LastChunk  BY <3>1, <1>b
    <3>3. x \in Stacks(n)  BY <2>1, <2>3
    <3>4. merge(x) \in Stacks(n) /\ Len(merge(x)) = Len(x) - 1 /\ Len(x) \in Nat
      BY <3>2, <3>3, <2>3, MergeStep
    <3>5. Len(merge(x)) = hi - i
      <4>1. Len(x) = hi - (i - 1)  BY <2>1, <2>3
      <4> HIDE DEF merge, hi
      <4> QED  BY <1>b, <2>i, <3>4, <4>1
    <3> HIDE DEF merge, T, hi, done
    <3> QED  BY <2>t, <3>4, <3>5
  <2> QED  BY <2>2, <2>3
<1>2. s \in T[0]
  <2>1. 0 \in 0 .. hi /\ hi - 0 = hi  BY <1>b
  <2>2. Len(s) = hi  OBVIOUS
  <2> HIDE DEF hi, done
  <2> QED  BY <2>1, <2>2
<1>3. PICK g : Iterates(g, 0, hi, S, T, s, step)
  <2>1. \A i \in 0 .. hi : T[i] \subseteq S
    <3> HIDE DEF S, done, hi
    <3> QED  OBVIOUS
  <2>2. \A i \in 0 + 1 .. hi : step[i] \in [T[i - 1] -> T[i]]
    <3> TAKE i \in 0 + 1 .. hi
    <3>1. step[i] = [x \in T[i - 1] |-> merge(x)]
      <4> HIDE DEF T, merge, hi
      <4> QED  OBVIOUS
    <3> HIDE DEF T, merge, hi, step
    <3> QED  BY <1>1, <3>1
  <2>3. 0 \in Int /\ hi \in Int  BY <1>b
  <2> HIDE DEF T, S, hi, step
  <2>4. Steps(0, hi, S, T, s, step)  BY <1>2, <2>1, <2>2, <2>3 DEF Steps
  <2> QED  BY <2>4, StepFunction
<1>4. Is(g)
  <2> HIDE DEF S, hi, T, merge
  <2>1. g \in [0 .. hi -> S]  BY <1>3 DEF Iterates
  <2>2. \A i \in 0 .. hi : g[i] = IF i = 0 THEN s ELSE step[i][g[i - 1]]  BY <1>3 DEF Iterates
  <2>3. \A i \in 0 .. hi : i # 0 => i \in 0 + 1 .. hi /\ i - 1 \in 0 .. hi  BY <1>b
  <2>4. \A i \in 0 .. hi : g[i] \in T[i]  BY <1>3 DEF Iterates
  <2>5. \A i \in 0 .. hi : i # 0 => step[i][g[i - 1]] = merge(g[i - 1])  BY <2>3, <2>4
  <2> HIDE DEF step
  <2>6. g = [i \in 0 .. hi |-> g[i]]  BY <2>1
  <2>7. \A i \in 0 .. hi : g[i] = IF i = 0 THEN s ELSE merge(g[i - 1])  BY <2>2, <2>5
  <2> QED  BY <2>6, <2>7
<1>5. Is(merged)
  <2> HIDE DEF Is
  <2> QED  BY <1>4, Zenon
<1>6. merged[hi] = done
  <2> HIDE DEF S, hi, merge, done, merged
  <2> DEFINE M == {i \in 0 .. hi : merged[i] \in T[i]}
  <2>1. 0 \in M
    <3>1. 0 \in 0 .. hi  BY <1>b
    <3>2. merged[0] = s  BY <1>5, <3>1
    <3> HIDE DEF T
    <3> QED  BY <1>2, <3>1, <3>2
  <2>2. ASSUME NEW i \in 0 .. hi - 1, i \in M  PROVE i + 1 \in M
    <3>1. i + 1 \in 0 + 1 .. hi /\ (i + 1) - 1 = i /\ i + 1 \in 0 .. hi /\ i + 1 # 0  BY <1>b
    <3>2. merged[i + 1] = merge(merged[i])  BY <1>5, <3>1
    <3> HIDE DEF T, Is
    <3>3. merged[i] \in T[(i + 1) - 1]  BY <2>2, <3>1
    <3>4. merge(merged[i]) \in T[i + 1]  BY <1>1, <3>1, <3>3
    <3> QED  BY <3>1, <3>2, <3>4
  <2>3. 0 \in Int /\ hi \in Int /\ hi \in 0 .. hi  BY <1>b
  <2>4. merged[hi] \in T[hi]
    <3> HIDE DEF M
    <3>1. \A i \in 0 .. hi : i \in M  BY <2>1, <2>2, <2>3, IntervalInduction
    <3> HIDE DEF T
    <3> QED  BY <2>3, <3>1 DEF M
  <2>5. hi - hi = 0  BY <1>b
  <2>6. merged[hi] = done \/ (merged[hi] \in Stacks(n) /\ Len(merged[hi]) = 0)
    BY <2>3, <2>4, <2>5
  <2> HIDE DEF Is
  <2> QED  BY <1>p, <2>6
<1> QED  BY <1>m, <1>6

\* A subtree that goes on the stack, after the merges of what is before it.
LEMMA Pushed ==
    ASSUME NEW n \in Nat, NEW h \in Power, Divides(h, n), n + h <= LastChunk,
           NEW s \in Stacks(n)
    PROVE  /\ B3!hasher_push_cv(s, B3!Subtree(n, h), n) = Pending(n, h)
           /\ Pending(n, h) \in Stacks(n + h)
<1>1. h \in Nat \ {0} /\ LastChunk \in Nat  BY Powers, LastChunkIs
<1>2. n \in 0 .. LastChunk /\ n + h # 0 /\ (n + h) - h = n /\ h <= n + h  BY <1>1
<1>3. B3!hasher_merge_cv_stack(s, n) = B3!Canonical[n]  BY <1>2, Merged
<1>4. B3!hasher_push_cv(s, B3!Subtree(n, h), n) = Pending(n, h)
  BY <1>3, Zenon DEF B3!hasher_push_cv, Pending
<1>5. Divides(h, n + h)
  <2>1. Divides(h, h)  BY <1>1, DividesSelf
  <2> QED  BY <1>1, <2>1, DividesSum
<1>6. h \in OnTop(n + h)  BY <1>2, <1>5 DEF OnTop
<1>7. Pending(n, h) \in Stacks(n + h)
  <2>1. Pending(n, h) = Pending((n + h) - h, h)  BY <1>2
  <2> QED  BY <1>2, <1>6, <2>1 DEF Stacks
<1> QED  BY <1>4, <1>7

\* The stack fits: one value per layer, and the one that waits.
LEMMA StackFits ==
    ASSUME NEW n \in 0 .. LastChunk, NEW s \in Stacks(n)
    PROVE  Len(s) <= MAX_DEPTH + 1
<1> DEFINE ones == B3!OneBits
<1>b. MAX_DEPTH \in Nat /\ MAX_DEPTH \in 0 .. Bits /\ LastChunk \in Nat  BY TreeConstants, LastChunkIs
<1>1. CASE n = 0
  <2>1. s = <<>>  BY <1>1 DEF Stacks
  <2>2. Len(s) = 0  BY <2>1
  <2> QED  BY <1>b, <2>2
<1>2. CASE n # 0
  <2>1. PICK h \in OnTop(n) : s = Pending(n - h, h)  BY <1>2 DEF Stacks
  <2>2. h \in Nat \ {0} /\ h <= n  BY Powers DEF OnTop
  <2> DEFINE m == n - h
  <2>3. m \in Nat /\ m + h <= LastChunk /\ m \in 0 .. LastChunk /\ s = Pending(m, h)
    BY <1>b, <2>1, <2>2
  <2> HIDE DEF m
  <2>4. Len(s) = ones[m] + 1  BY <2>2, <2>3, PendingIs
  <2>5. m < B3!TwoTo[MAX_DEPTH]
    <3> DEFINE t == B3!TwoTo[MAX_DEPTH]
    <3>1. t \in Nat \ {0} /\ CHUNK_LEN \in Nat \ {0}  BY <1>b, TwoToIs, ChunkLen
    <3>2. CHUNK_LEN * t = Top  BY TreeConstants
    <3>3. Bytes(m) < Top /\ Bytes(m) \in Nat  BY <2>3, LastChunkIs, ChunkLen, BytesOf
    <3> HIDE DEF t
    <3>4. Bytes(t) = Top  BY <3>1, <3>2 DEF Bytes
    <3>5. m < t
      <4> SUFFICES ASSUME ~ (m < t) PROVE FALSE  OBVIOUS
      <4>1. t < m \/ t = m  BY <2>3, <3>1
      <4>2. t < m => Bytes(t) + CHUNK_LEN <= Bytes(m)  BY <2>3, <3>1, BytesOf
      <4>3. t = m => Bytes(t) = Bytes(m)  OBVIOUS
      <4>4. Top \in Nat  BY ChunkLen
      <4> QED  BY <3>1, <3>3, <3>4, <4>1, <4>2, <4>3, <4>4
    <3> QED  BY <3>5 DEF t
  <2>6. m \in 0 .. Top - 1  BY <2>3, LastChunkIs
  <2>7. ones[m] <= MAX_DEPTH /\ ones[m] \in Nat  BY <1>b, <2>5, <2>6, PopcntBound, PopcntIs
  <2> QED  BY <1>b, <2>4, <2>7
<1> QED  BY <1>1, <1>2

-----------------------------------------------------------------------------
(* Pieces of the message *)

FedByte == {Data[i] : i \in Nat}

LEMMA PieceIs ==
    ASSUME NEW at \in Nat, NEW k \in Nat
    PROVE  /\ Piece(at, k) \in Seq(FedByte) /\ Len(Piece(at, k)) = k
           /\ \A i \in 1 .. k : Piece(at, k)[i] = Data[at + i]
           /\ Piece(at, k) = <<>> <=> k = 0
<1> DEFINE p == Piece(at, k)
<1>1. \A i \in 1 .. k : at + i \in Nat  OBVIOUS
<1>2. \A i \in 1 .. k : Data[at + i] \in FedByte  BY <1>1, Zenon DEF FedByte
<1>3. p \in [1 .. k -> FedByte]
  <2> HIDE DEF FedByte
  <2> QED  BY <1>2 DEF Piece
<1>4. \A i \in 1 .. k : p[i] = Data[at + i]  BY DEF Piece
<1> HIDE DEF p
<1>5. p \in Seq(FedByte) /\ Len(p) = k  BY <1>3
<1>6. p = <<>> <=> k = 0  BY <1>5, EmptySeq
<1> QED  BY <1>4, <1>5, <1>6 DEF p

\* A part of a piece is a piece.
LEMMA PieceWithin ==
    ASSUME NEW at \in Nat, NEW k \in Nat, NEW a \in 0 .. k, NEW b \in a .. k
    PROVE  SubSeq(Piece(at, k), a + 1, b) = Piece(at + a, b - a)
<1> DEFINE p == Piece(at, k)
           q == Piece(at + a, b - a)
           r == SubSeq(p, a + 1, b)
<1>0. at + a \in Nat /\ b - a \in Nat /\ a \in Nat /\ b \in Nat  OBVIOUS
<1>1. p \in Seq(FedByte) /\ Len(p) = k /\ \A i \in 1 .. k : p[i] = Data[at + i]  BY PieceIs
<1>2. q \in Seq(FedByte) /\ Len(q) = b - a /\ \A i \in 1 .. b - a : q[i] = Data[(at + a) + i]
  BY <1>0, PieceIs
<1> HIDE DEF p, q
<1>3. \A i \in a + 1 .. b : p[i] \in FedByte
  <2>1. \A i \in a + 1 .. b : i \in 1 .. k  BY <1>0
  <2> QED  BY <1>1, <2>1
<1>4. /\ r \in Seq(FedByte) /\ Len(r) = IF a + 1 <= b THEN b - (a + 1) + 1 ELSE 0
      /\ \A i \in 1 .. b - (a + 1) + 1 : r[i] = p[(a + 1) + i - 1]
  <2>1. a + 1 \in Int /\ b \in Int  BY <1>0
  <2> QED  BY <1>3, <2>1, SubSeqProperties
<1> HIDE DEF r
<1>5. Len(r) = b - a  BY <1>0, <1>4
<1>6. \A i \in 1 .. b - a : r[i] = q[i]
  <2> TAKE i \in 1 .. b - a
  <2>1. i \in 1 .. b - (a + 1) + 1 /\ (a + 1) + i - 1 = a + i /\ a + i \in 1 .. k
        /\ at + (a + i) = (at + a) + i
    BY <1>0
  <2>2. r[i] = p[a + i]  BY <1>4, <2>1
  <2>3. p[a + i] = Data[at + (a + i)]  BY <1>1, <2>1
  <2> QED  BY <1>2, <2>1, <2>2, <2>3
<1>7. r = q  BY <1>2, <1>4, <1>5, <1>6, SeqEqual
<1> QED  BY <1>7 DEF p, q, r

-----------------------------------------------------------------------------
(* Chains of compressions *)

Start(b) == IF b = 1 THEN {"CHUNK_START"} ELSE {}

\* The values of n compressions one after another, of the blocks blocks with the
\* flags flags.
Chain(f, n, blocks, c, flags) ==
    f = [b \in 0 .. n |->
           IF b = 0 THEN B3!Key ELSE B3!Compress(f[b - 1], blocks[b], BLOCK_LEN, c, flags[b])]

LEMMA ChainIs ==
    ASSUME NEW f, NEW n \in Nat, NEW blocks, NEW c, NEW flags, Chain(f, n, blocks, c, flags)
    PROVE  /\ f[0] = B3!Key
           /\ \A b \in 1 .. n : f[b] = B3!Compress(f[b - 1], blocks[b], BLOCK_LEN, c, flags[b])
<1> DEFINE K == B3!Key
           Cmp(x, b) == B3!Compress(x, blocks[b], BLOCK_LEN, c, flags[b])
<1>1. f = [b \in 0 .. n |-> IF b = 0 THEN K ELSE Cmp(f[b - 1], b)]  BY Zenon DEF Chain
<1> HIDE DEF K, Cmp
<1>2. 0 \in 0 .. n /\ \A b \in 1 .. n : b \in 0 .. n /\ b # 0  OBVIOUS
<1>3. f[0] = K /\ \A b \in 1 .. n : f[b] = Cmp(f[b - 1], b)  BY <1>1, <1>2
<1> QED  BY <1>3, Zenon DEF K, Cmp

LEMMA ChainExists ==
    ASSUME NEW n \in Nat, NEW blocks, NEW c, NEW flags
    PROVE  \E f : Chain(f, n, blocks, c, flags)
<1> DEFINE K == B3!Key
           Cmp(x, b) == B3!Compress(x, blocks[b], BLOCK_LEN, c, flags[b])
           Is(f, k) == f = [b \in 0 .. k |-> IF b = 0 THEN K ELSE Cmp(f[b - 1], b)]
           M == {k \in Nat : \E f : Is(f, k)}
<1>4. (\E f : Is(f, n)) => \E f : Chain(f, n, blocks, c, flags)  BY Zenon DEF Chain
<1> HIDE DEF K, Cmp
<1>1. 0 \in M
  <2>1. Is([b \in 0 .. 0 |-> K], 0)  OBVIOUS
  <2> HIDE DEF Is
  <2> QED  BY <2>1
<1>2. ASSUME NEW k \in Nat, k \in M  PROVE k + 1 \in M
  <2>1. PICK f : Is(f, k)  BY <1>2
  <2> DEFINE y == Cmp(f[k], k + 1)
             g == [b \in 0 .. k + 1 |-> IF b = k + 1 THEN y ELSE f[b]]
  <2>2. ASSUME NEW b \in 0 .. k  PROVE g[b] = f[b]
    <3> HIDE DEF y
    <3>1. b \in 0 .. k + 1 /\ b # k + 1  OBVIOUS
    <3> QED  BY <3>1
  <2>3. g[k + 1] = y
    <3> HIDE DEF y
    <3>1. k + 1 \in 0 .. k + 1  OBVIOUS
    <3> QED  BY <3>1
  <2>4. g = [b \in 0 .. k + 1 |-> g[b]]  OBVIOUS
  <2> HIDE DEF g
  <2>5. ASSUME NEW b \in 0 .. k + 1  PROVE g[b] = IF b = 0 THEN K ELSE Cmp(g[b - 1], b)
    <3>1. CASE b = k + 1
      <4>1. k \in 0 .. k /\ b # 0 /\ b - 1 = k  BY <3>1
      <4>2. g[k] = f[k]  BY <2>2, <4>1
      <4>3. Cmp(g[b - 1], b) = y  BY <3>1, <4>1, <4>2
      <4> HIDE DEF y
      <4> QED  BY <2>3, <3>1, <4>1, <4>3
    <3>2. CASE b # k + 1
      <4>1. b \in 0 .. k  BY <3>2
      <4>2. g[b] = f[b]  BY <2>2, <4>1
      <4>3. f[b] = IF b = 0 THEN K ELSE Cmp(f[b - 1], b)  BY <2>1, <4>1
      <4>4. CASE b = 0  BY <4>2, <4>3, <4>4
      <4>5. CASE b # 0
        <5>1. b - 1 \in 0 .. k  BY <4>1, <4>5
        <5>2. g[b - 1] = f[b - 1]  BY <2>2, <5>1
        <5> QED  BY <4>2, <4>3, <4>5, <5>2
      <4> QED  BY <4>4, <4>5
    <3> QED  BY <3>1, <3>2
  <2>6. Is(g, k + 1)  BY <2>4, <2>5
  <2> HIDE DEF Is
  <2> QED  BY <2>6
<1>3. \E f : Is(f, n)
  <2> HIDE DEF M
  <2>1. n \in M  BY <1>1, <1>2, SetInduction
  <2> HIDE DEF Is
  <2> QED  BY <2>1 DEF M
<1> QED  BY <1>3, <1>4

\* Chains of the same blocks with the same flags have the same values.
LEMMA ChainsAgree ==
    ASSUME NEW c, NEW m \in Nat,
           NEW n \in Nat, NEW f, NEW blocks, NEW flags, Chain(f, n, blocks, c, flags), m <= n,
           NEW k \in Nat, NEW g, NEW others, NEW marks, Chain(g, k, others, c, marks), m <= k,
           \A b \in 1 .. m : blocks[b] = others[b] /\ flags[b] = marks[b]
    PROVE  f[m] = g[m]
<1> DEFINE M == {b \in 0 .. m : f[b] = g[b]}
           Cmp(x, y, z) == B3!Compress(x, y, BLOCK_LEN, c, z)
<1>1. /\ f[0] = B3!Key
      /\ \A b \in 1 .. n : f[b] = Cmp(f[b - 1], blocks[b], flags[b])
  BY ChainIs
<1>2. /\ g[0] = B3!Key
      /\ \A b \in 1 .. k : g[b] = Cmp(g[b - 1], others[b], marks[b])
  BY ChainIs
<1> HIDE DEF Cmp
<1>3. 0 \in M  BY <1>1, <1>2
<1>4. ASSUME NEW b \in 0 .. m - 1, b \in M  PROVE b + 1 \in M
  <2>1. b + 1 \in 1 .. n /\ b + 1 \in 1 .. k /\ (b + 1) - 1 = b /\ b + 1 \in 1 .. m /\ b + 1 \in 0 .. m
    OBVIOUS
  <2>2. f[b + 1] = Cmp(f[b], blocks[b + 1], flags[b + 1]) /\ g[b + 1] = Cmp(g[b], others[b + 1], marks[b + 1])
    BY <1>1, <1>2, <2>1
  <2>3. f[b] = g[b] /\ blocks[b + 1] = others[b + 1] /\ flags[b + 1] = marks[b + 1]  BY <1>4, <2>1
  <2> QED  BY <2>1, <2>2, <2>3
<1>5. 0 \in Int /\ m \in Int /\ m \in 0 .. m  OBVIOUS
<1> HIDE DEF M
<1>6. \A b \in 0 .. m : b \in M  BY <1>3, <1>4, <1>5, IntervalInduction
<1> QED  BY <1>5, <1>6 DEF M

-----------------------------------------------------------------------------
(* The chunk state *)

BlockBytes(d) == d * BLOCK_LEN

LEMMA BlockBytesOf ==
    /\ BLOCK_LEN \in Nat \ {0}
    /\ \A n \in Nat : BlockBytes(n) \in Nat /\ n <= BlockBytes(n)
    /\ \A m, n \in Nat : BlockBytes(m + n) = BlockBytes(m) + BlockBytes(n)
    /\ \A m, n \in Nat : m < n <=> BlockBytes(m) + BLOCK_LEN <= BlockBytes(n)
    /\ BlockBytes(0) = 0 /\ BlockBytes(1) = BLOCK_LEN
<1>0. BLOCK_LEN \in Nat \ {0}  BY ChunkLen
<1>1. ASSUME NEW n \in Nat  PROVE BlockBytes(n) \in Nat /\ n <= BlockBytes(n)
  <2> DEFINE b == n * BLOCK_LEN
             d == BLOCK_LEN - 1
  <2>1. b \in Int /\ b = n + n * d /\ d \in Nat  BY <1>0
  <2>2. n * d \in Nat  BY <2>1
  <2> QED  BY <2>1, <2>2 DEF BlockBytes
<1>2. \A m, n \in Nat : BlockBytes(m + n) = BlockBytes(m) + BlockBytes(n)  BY <1>0 DEF BlockBytes
<1>3. ASSUME NEW m \in Nat, NEW n \in Nat
      PROVE  m < n <=> BlockBytes(m) + BLOCK_LEN <= BlockBytes(n)
  <2>2. BlockBytes(m) \in Nat /\ BlockBytes(n) \in Nat  BY <1>1
  <2>3. m < n => BlockBytes(n) >= BlockBytes(m) + BLOCK_LEN  BY <1>0, MultiplesApart DEF BlockBytes
  <2>4. n < m => BlockBytes(m) >= BlockBytes(n) + BLOCK_LEN  BY <1>0, MultiplesApart DEF BlockBytes
  <2>5. n = m \/ n < m \/ m < n  OBVIOUS
  <2>6. n = m => BlockBytes(m) = BlockBytes(n)  OBVIOUS
  <2> QED  BY <1>0, <2>2, <2>3, <2>4, <2>5, <2>6
<1>4. BlockBytes(0) = 0 /\ BlockBytes(1) = BLOCK_LEN  BY <1>0 DEF BlockBytes
<1> QED  BY <1>0, <1>1, <1>2, <1>3, <1>4

\* The chaining values of chunk n, after so many of its blocks.
Blocks(n) == [b \in Nat |-> Piece(Bytes(n) + BlockBytes(b - 1), BLOCK_LEN)]
StartFlags == [b \in Nat |-> Start(b)]
Cvs(n) == CHOOSE f : Chain(f, CHUNK_LEN, Blocks(n), n, StartFlags)

LEMMA CvsAre ==
    ASSUME NEW n \in Nat
    PROVE  /\ Chain(Cvs(n), CHUNK_LEN, Blocks(n), n, StartFlags)
           /\ Cvs(n)[0] = B3!Key
           /\ \A b \in 1 .. CHUNK_LEN :
                 Cvs(n)[b] = B3!Compress(Cvs(n)[b - 1], Piece(Bytes(n) + BlockBytes(b - 1), BLOCK_LEN),
                                         BLOCK_LEN, n, Start(b))
<1>0. CHUNK_LEN \in Nat  BY ChunkLen
<1>1. \E f : Chain(f, CHUNK_LEN, Blocks(n), n, StartFlags)  BY <1>0, ChainExists
<1>2. Chain(Cvs(n), CHUNK_LEN, Blocks(n), n, StartFlags)  BY <1>1, Zenon DEF Cvs
<1>3. /\ Cvs(n)[0] = B3!Key
      /\ \A b \in 1 .. CHUNK_LEN :
            Cvs(n)[b] = B3!Compress(Cvs(n)[b - 1], Blocks(n)[b], BLOCK_LEN, n, StartFlags[b])
  BY <1>0, <1>2, ChainIs
<1>4. \A b \in 1 .. CHUNK_LEN :
         b \in Nat /\ Blocks(n)[b] = Piece(Bytes(n) + BlockBytes(b - 1), BLOCK_LEN)
         /\ StartFlags[b] = Start(b)
  BY <1>0 DEF Blocks, StartFlags
<1> QED  BY <1>2, <1>3, <1>4

\* The chunk state of chunk n with d blocks compressed and w bytes waiting.
BufAt(n, d, w) ==
    [i \in 1 .. BLOCK_LEN |-> IF i <= w THEN Data[Bytes(n) + BlockBytes(d) + i] ELSE B3!Zero]
StateAt(n, d, w) ==
    [cv |-> Cvs(n)[d], chunk_counter |-> n, buf |-> BufAt(n, d, w),
     buf_len |-> w, blocks_compressed |-> d]

LEMMA BufIs ==
    ASSUME NEW n \in Nat, NEW d \in Nat
    PROVE  BufAt(n, d, 0) = B3!ZeroBlock /\ BufAt(n, d, BLOCK_LEN) = Piece(Bytes(n) + BlockBytes(d), BLOCK_LEN)
<1>0. BLOCK_LEN \in Nat  BY BlockBytesOf
<1>1. BufAt(n, d, 0) = B3!ZeroBlock
  <2> DEFINE z == B3!Zero
  <2>1. B3!ZeroBlock = [i \in 1 .. BLOCK_LEN |-> z]  BY DEF B3!ZeroBlock
  <2>2. BufAt(n, d, 0) = [i \in 1 .. BLOCK_LEN |-> IF i <= 0 THEN Data[Bytes(n) + BlockBytes(d) + i] ELSE z]
    BY Zenon DEF BufAt
  <2> HIDE DEF z
  <2> QED  BY <2>1, <2>2
<1>2. BufAt(n, d, BLOCK_LEN) = Piece(Bytes(n) + BlockBytes(d), BLOCK_LEN)
  <2> DEFINE z == B3!Zero
  <2>1. BufAt(n, d, BLOCK_LEN)
          = [i \in 1 .. BLOCK_LEN |-> IF i <= BLOCK_LEN THEN Data[Bytes(n) + BlockBytes(d) + i] ELSE z]
    BY Zenon DEF BufAt
  <2>2. Piece(Bytes(n) + BlockBytes(d), BLOCK_LEN)
          = [i \in 1 .. BLOCK_LEN |-> Data[Bytes(n) + BlockBytes(d) + i]]
    BY Zenon DEF Piece
  <2> HIDE DEF z
  <2> QED  BY <1>0, <2>1, <2>2
<1> QED  BY <1>1, <1>2

Least(a, b) == IF a > b THEN b ELSE a

LEMMA FillIs ==
    ASSUME NEW n \in Nat, NEW d \in Nat, NEW w \in 0 .. BLOCK_LEN, NEW k \in Nat
    PROVE  B3!chunk_state_fill_buf(StateAt(n, d, w), Piece(Bytes(n) + BlockBytes(d) + w, k))
             = StateAt(n, d, w + Least(BLOCK_LEN - w, k))
<1> DEFINE c == StateAt(n, d, w)
           at == Bytes(n) + BlockBytes(d)
           p == Piece(at + w, k)
           take == Least(BLOCK_LEN - w, k)
           z == B3!Zero
           buf == [i \in 1 .. BLOCK_LEN |-> IF w < i /\ i <= w + take THEN p[i - w] ELSE c.buf[i]]
           r == B3!chunk_state_fill_buf(c, p)
<1>0. BLOCK_LEN \in Nat /\ at \in Nat /\ w \in Nat
  <2>1. Bytes(n) \in Nat /\ BlockBytes(d) \in Nat /\ BLOCK_LEN \in Nat  BY BlockBytesOf, BytesOf
  <2> QED  BY <2>1
<1>1. Len(p) = k /\ \A i \in 1 .. k : p[i] = Data[(at + w) + i]
  <2>1. at + w \in Nat  BY <1>0
  <2> HIDE DEF at
  <2> QED  BY <2>1, PieceIs
<1>2. /\ c.buf_len = w /\ c.cv = Cvs(n)[d] /\ c.chunk_counter = n /\ c.blocks_compressed = d
      /\ c.buf = BufAt(n, d, w)
  BY DEF StateAt
<1>3. B3!Take(c, Len(p)) = take  BY <1>1, <1>2 DEF B3!Take, Least
<1>4. r = [c EXCEPT !.buf = buf, !.buf_len = w + take]
  <2> HIDE DEF p, take
  <2> QED  BY <1>2, <1>3, Zenon DEF B3!chunk_state_fill_buf, buf
<1>5. buf = BufAt(n, d, w + take)
  <2>1. take \in Nat /\ take <= k  BY <1>0 DEF Least
  <2>2. \A i \in 1 .. BLOCK_LEN : c.buf[i] = IF i <= w THEN Data[at + i] ELSE z
    <3>1. c.buf = [i \in 1 .. BLOCK_LEN |-> IF i <= w THEN Data[at + i] ELSE z]
      BY <1>2, Zenon DEF BufAt
    <3> HIDE DEF at, z, c
    <3> QED  BY <3>1
  <2>3. BufAt(n, d, w + take) = [i \in 1 .. BLOCK_LEN |-> IF i <= w + take THEN Data[at + i] ELSE z]
    BY Zenon DEF BufAt
  <2> HIDE DEF c, at, z, p, take
  <2>4. ASSUME NEW i \in 1 .. BLOCK_LEN
        PROVE  (IF w < i /\ i <= w + take THEN p[i - w] ELSE c.buf[i])
                 = IF i <= w + take THEN Data[at + i] ELSE z
    <3>1. CASE w < i /\ i <= w + take
      <4>1. i - w \in 1 .. k /\ (at + w) + (i - w) = at + i  BY <1>0, <2>1, <3>1
      <4>2. p[i - w] = Data[at + i]  BY <1>1, <4>1
      <4> QED  BY <3>1, <4>2
    <3>2. CASE i <= w
      <4>1. i <= w + take /\ ~ (w < i)  BY <1>0, <2>1, <3>2
      <4> QED  BY <2>2, <3>2, <4>1
    <3>3. CASE ~ (i <= w + take)
      <4>1. ~ (i <= w)  BY <1>0, <2>1, <3>3
      <4> QED  BY <2>2, <3>3, <4>1
    <3> QED  BY <1>0, <3>1, <3>2, <3>3
  <2> QED  BY <2>3, <2>4
<1> HIDE DEF buf, take, r
<1>6. r = [cv |-> Cvs(n)[d], chunk_counter |-> n, buf |-> buf,
           buf_len |-> w + take, blocks_compressed |-> d]
  <2>1. c = [cv |-> Cvs(n)[d], chunk_counter |-> n, buf |-> BufAt(n, d, w),
             buf_len |-> w, blocks_compressed |-> d]  BY DEF StateAt
  <2> HIDE DEF c
  <2> QED  BY <1>4, <2>1
<1>7. r = StateAt(n, d, w + take)  BY <1>5, <1>6, Zenon DEF StateAt
<1> QED  BY <1>7, Zenon DEF r, p, c, at, take

\* A block of chunk n is compressed.
LEMMA CompressIs ==
    ASSUME NEW n \in Nat, NEW d \in 0 .. CHUNK_LEN - 1
    PROVE  /\ B3!CompressBlock(StateAt(n, d, 0), Piece(Bytes(n) + BlockBytes(d), BLOCK_LEN))
                = StateAt(n, d + 1, 0)
           /\ B3!ClearBuf(B3!CompressBlock(StateAt(n, d, BLOCK_LEN), StateAt(n, d, BLOCK_LEN).buf))
                = StateAt(n, d + 1, 0)
<1> DEFINE block == Piece(Bytes(n) + BlockBytes(d), BLOCK_LEN)
           z == B3!ZeroBlock
<1>0. d + 1 \in 1 .. CHUNK_LEN /\ (d + 1) - 1 = d /\ d \in Nat  BY ChunkLen
<1>1. Cvs(n)[d + 1] = B3!Compress(Cvs(n)[d], block, BLOCK_LEN, n, Start(d + 1))
  BY <1>0, CvsAre
<1>2. ASSUME NEW w PROVE B3!chunk_state_maybe_start_flag(StateAt(n, d, w)) = Start(d + 1)
  BY <1>0 DEF B3!chunk_state_maybe_start_flag, StateAt, Start
<1>3. ASSUME NEW w
      PROVE  B3!CompressBlock(StateAt(n, d, w), block)
               = [cv |-> Cvs(n)[d + 1], chunk_counter |-> n, buf |-> BufAt(n, d, w),
                  buf_len |-> w, blocks_compressed |-> d + 1]
  <2> DEFINE c == StateAt(n, d, w)
             flag == B3!chunk_state_maybe_start_flag(c)
             cv == B3!Compress(Cvs(n)[d], block, BLOCK_LEN, n, flag)
  <2>1. c = [cv |-> Cvs(n)[d], chunk_counter |-> n, buf |-> BufAt(n, d, w),
             buf_len |-> w, blocks_compressed |-> d]  BY DEF StateAt
  <2>2. B3!CompressBlock(c, block)
          = [c EXCEPT !.cv = B3!Compress(c.cv, block, BLOCK_LEN, c.chunk_counter, flag),
                      !.blocks_compressed = c.blocks_compressed + 1]
    BY Zenon DEF B3!CompressBlock
  <2>3. flag = Start(d + 1)  BY <1>2
  <2>4. cv = Cvs(n)[d + 1]  BY <1>1, <2>3
  <2>5. c.cv = Cvs(n)[d] /\ c.chunk_counter = n /\ c.blocks_compressed = d  BY <2>1
  <2> HIDE DEF c, flag, block
  <2>6. B3!CompressBlock(c, block) = [c EXCEPT !.cv = cv, !.blocks_compressed = d + 1]
    BY <2>2, <2>5, Zenon DEF cv
  <2> HIDE DEF cv
  <2>7. B3!CompressBlock(c, block)
               = [cv |-> cv, chunk_counter |-> n, buf |-> BufAt(n, d, w),
                  buf_len |-> w, blocks_compressed |-> d + 1]
    BY <2>1, <2>6
  <2> QED  BY <2>4, <2>7, Zenon DEF c
<1>4. BufAt(n, d, BLOCK_LEN) = block /\ BufAt(n, d, 0) = z /\ BufAt(n, d + 1, 0) = z
  BY <1>0, BufIs
<1>5. StateAt(n, d, BLOCK_LEN).buf = block  BY <1>4 DEF StateAt
<1>6. StateAt(n, d + 1, 0) = [cv |-> Cvs(n)[d + 1], chunk_counter |-> n, buf |-> z,
                              buf_len |-> 0, blocks_compressed |-> d + 1]
  BY <1>4 DEF StateAt
<1> HIDE DEF block, z
<1>7. B3!CompressBlock(StateAt(n, d, 0), block) = StateAt(n, d + 1, 0)  BY <1>3, <1>4, <1>6
<1>8. B3!ClearBuf(B3!CompressBlock(StateAt(n, d, BLOCK_LEN), block)) = StateAt(n, d + 1, 0)
  <2> DEFINE c == B3!CompressBlock(StateAt(n, d, BLOCK_LEN), block)
  <2>1. c = [cv |-> Cvs(n)[d + 1], chunk_counter |-> n, buf |-> BufAt(n, d, BLOCK_LEN),
             buf_len |-> BLOCK_LEN, blocks_compressed |-> d + 1]  BY <1>3
  <2>2. B3!ClearBuf(c) = [c EXCEPT !.buf_len = 0, !.buf = z]  BY Zenon DEF B3!ClearBuf, z
  <2> HIDE DEF c
  <2>3. B3!ClearBuf(c) = [cv |-> Cvs(n)[d + 1], chunk_counter |-> n, buf |-> z,
                          buf_len |-> 0, blocks_compressed |-> d + 1]
    BY <2>1, <2>2
  <2> QED  BY <1>6, <2>3, Zenon DEF c
<1> QED  BY <1>5, <1>7, <1>8 DEF block

LEMMA DirectBlocksAre ==
    /\ \A l \in Nat : /\ B3!DirectBlocks(l) \in Nat
                      /\ l - BlockBytes(B3!DirectBlocks(l)) \in 0 .. BLOCK_LEN
                      /\ l > 0 => l - BlockBytes(B3!DirectBlocks(l)) > 0
    /\ \A d \in Nat : \A w \in 1 .. BLOCK_LEN : B3!DirectBlocks(BlockBytes(d) + w) = d
    /\ B3!DirectBlocks(0) = 0
<1>0. BLOCK_LEN \in Nat \ {0}  BY BlockBytesOf
<1>1. ASSUME NEW l \in Nat
      PROVE  /\ B3!DirectBlocks(l) \in Nat
             /\ l - BlockBytes(B3!DirectBlocks(l)) \in 0 .. BLOCK_LEN
             /\ l > 0 => l - BlockBytes(B3!DirectBlocks(l)) > 0
  <2>1. CASE l = 0
    <3>1. B3!DirectBlocks(l) = 0  BY <2>1 DEF B3!DirectBlocks
    <3>2. BlockBytes(0) = 0  BY BlockBytesOf
    <3>3. l - BlockBytes(B3!DirectBlocks(l)) = 0  BY <2>1, <3>1, <3>2
    <3> QED  BY <1>0, <2>1, <3>1, <3>3
  <2>2. CASE l # 0
    <3> DEFINE x == l - 1
               d == x \div BLOCK_LEN
               r == x % BLOCK_LEN
    <3>1. B3!DirectBlocks(l) = d  BY <2>2 DEF B3!DirectBlocks
    <3>2. x \in Nat  BY <2>2
    <3>3. d \in Int /\ r \in 0 .. BLOCK_LEN - 1 /\ x = d * BLOCK_LEN + r
      <4> HIDE DEF x
      <4> QED  BY <1>0, <3>2, DivMod
    <3> HIDE DEF d, r
    <3>4. ~ (0 > d)
      <4> SUFFICES ASSUME 0 > d PROVE FALSE  OBVIOUS
      <4>1. 0 * BLOCK_LEN >= d * BLOCK_LEN + BLOCK_LEN  BY <1>0, <3>3, MultiplesApart
      <4>2. 0 * BLOCK_LEN = 0 /\ d * BLOCK_LEN \in Int  BY <1>0, <3>3
      <4> HIDE DEF x
      <4> QED  BY <1>0, <3>2, <3>3, <4>1, <4>2
    <3>5. d \in Nat /\ BlockBytes(d) \in Nat /\ BlockBytes(d) = d * BLOCK_LEN
      BY <3>3, <3>4, BlockBytesOf DEF BlockBytes
    <3>6. l - BlockBytes(d) = r + 1  BY <3>3, <3>5
    <3> QED  BY <1>0, <3>1, <3>3, <3>5, <3>6
  <2> QED  BY <2>1, <2>2
<1>2. ASSUME NEW d \in Nat, NEW w \in 1 .. BLOCK_LEN
      PROVE  B3!DirectBlocks(BlockBytes(d) + w) = d
  <2> DEFINE l == BlockBytes(d) + w
             x == l - 1
  <2>1. BlockBytes(d) \in Nat  BY BlockBytesOf
  <2>2. l # 0 /\ x \in Int /\ w - 1 \in 0 .. BLOCK_LEN - 1 /\ x = BlockBytes(d) + (w - 1) /\ d \in Int
    BY <1>0, <2>1
  <2>3. B3!DirectBlocks(l) = x \div BLOCK_LEN
    <3> HIDE DEF l
    <3> QED  BY <2>2 DEF B3!DirectBlocks
  <2>4. x = d * BLOCK_LEN + (w - 1)  BY <2>2 DEF BlockBytes
  <2>5. x \div BLOCK_LEN = d
    <3> HIDE DEF x
    <3> QED  BY <1>0, <2>2, <2>4, ModUnique
  <2> QED  BY <2>3, <2>5
<1>3. B3!DirectBlocks(0) = 0  BY DEF B3!DirectBlocks
<1> QED  BY <1>1, <1>2, <1>3

\* The chunk state of chunk n with l of its bytes.
ChunkAt(n, l) == StateAt(n, B3!DirectBlocks(l), l - BlockBytes(B3!DirectBlocks(l)))

\* The two phases of an update: what completes the buffer, and the blocks that
\* are compressed where they are.
Ready(c, input) ==
    LET take == IF c.buf_len > 0 THEN B3!Take(c, Len(input)) ELSE 0
        filled == IF c.buf_len > 0 THEN B3!chunk_state_fill_buf(c, input) ELSE c
        rest == SubSeq(input, take + 1, Len(input))
    IN  IF c.buf_len > 0 /\ rest # <<>>
        THEN B3!ClearBuf(B3!CompressBlock(filled, filled.buf)) ELSE filled
RestOf(c, input) ==
    LET take == IF c.buf_len > 0 THEN B3!Take(c, Len(input)) ELSE 0
    IN  SubSeq(input, take + 1, Len(input))
Direct(ready, rest) ==
    LET n == B3!DirectBlocks(Len(rest))
        block(k) == SubSeq(rest, (k - 1) * BLOCK_LEN + 1, k * BLOCK_LEN)
        hashed[k \in 0 .. n] ==
          IF k = 0 THEN ready ELSE B3!CompressBlock(hashed[k - 1], block(k))
    IN  B3!chunk_state_fill_buf(hashed[n], SubSeq(rest, n * BLOCK_LEN + 1, Len(rest)))

LEMMA UpdateParts ==
    ASSUME NEW c, NEW input
    PROVE  B3!chunk_state_update(c, input) = Direct(Ready(c, input), RestOf(c, input))
BY Zenon DEF B3!chunk_state_update, Direct, Ready, RestOf

LEMMA DirectIs ==
    ASSUME NEW n \in Nat, NEW d \in Nat, NEW k \in Nat, BlockBytes(d) + k <= CHUNK_LEN
    PROVE  Direct(StateAt(n, d, 0), Piece(Bytes(n) + BlockBytes(d), k))
             = StateAt(n, d + B3!DirectBlocks(k), k - BlockBytes(B3!DirectBlocks(k)))
<1> DEFINE at == Bytes(n) + BlockBytes(d)
           rest == Piece(at, k)
           m == B3!DirectBlocks(k)
           block(j) == SubSeq(rest, (j - 1) * BLOCK_LEN + 1, j * BLOCK_LEN)
           step(x, j) == B3!CompressBlock(x, block(j))
           first == StateAt(n, d, 0)
           Is(f) == f = [j \in 0 .. m |-> IF j = 0 THEN first ELSE step(f[j - 1], j)]
           hashed == CHOOSE f : Is(f)
           w == k - BlockBytes(m)
<1>0. BLOCK_LEN \in Nat \ {0} /\ CHUNK_LEN \in Nat  BY BlockBytesOf, ChunkLen
<1>1. BlockBytes(d) \in Nat /\ Bytes(n) \in Nat  BY BlockBytesOf, BytesOf
<1>2. at \in Nat  BY <1>1
<1>3. m \in Nat /\ w \in 0 .. BLOCK_LEN /\ (k > 0 => w > 0)  BY DirectBlocksAre
<1>4. BlockBytes(m) \in Nat /\ BlockBytes(m) + w = k
  <2>1. BlockBytes(m) \in Nat  BY <1>3, BlockBytesOf
  <2> HIDE DEF m
  <2> QED  BY <2>1
<1>5. Len(rest) = k  BY <1>2, PieceIs
<1>6. \A j \in 1 .. m : block(j) = Piece(at + BlockBytes(j - 1), BLOCK_LEN)
  <2> TAKE j \in 1 .. m
  <2> DEFINE a == BlockBytes(j - 1)
             b == BlockBytes(j)
  <2>1. j - 1 \in Nat /\ j \in Nat /\ j = (j - 1) + 1 /\ 1 \in Nat  BY <1>3
  <2>2. a \in Nat /\ b \in Nat /\ b = a + BLOCK_LEN  BY <2>1, BlockBytesOf
  <2>3. b <= BlockBytes(m)
    <3>1. j < m \/ j = m  BY <1>3
    <3>2. j < m => BlockBytes(j) + BLOCK_LEN <= BlockBytes(m)  BY <1>3, <2>1, BlockBytesOf
    <3> QED  BY <1>0, <1>4, <2>2, <3>1, <3>2
  <2>4. block(j) = SubSeq(rest, a + 1, b)  BY DEF BlockBytes
  <2> HIDE DEF a, b, at, block
  <2>5. a \in 0 .. k /\ b \in a .. k /\ b - a = BLOCK_LEN  BY <1>0, <1>3, <1>4, <2>2, <2>3
  <2>6. SubSeq(Piece(at, k), a + 1, b) = Piece(at + a, b - a)  BY <1>2, <2>5, PieceWithin
  <2> QED  BY <2>4, <2>5, <2>6 DEF a
<1>7. \A j \in 1 .. m : step(StateAt(n, d + (j - 1), 0), j) = StateAt(n, d + j, 0)
  <2> TAKE j \in 1 .. m
  <2> HIDE DEF block
  <2> DEFINE e == d + (j - 1)
  <2>1. e \in Nat /\ e + 1 = d + j /\ j - 1 \in Nat /\ j \in Nat  BY <1>3
  <2>2. at + BlockBytes(j - 1) = Bytes(n) + BlockBytes(e)
    <3>1. BlockBytes(e) = BlockBytes(d) + BlockBytes(j - 1) /\ BlockBytes(j - 1) \in Nat  BY <2>1, BlockBytesOf
    <3> HIDE DEF e
    <3> QED  BY <1>1, <3>1
  <2>3. e \in 0 .. CHUNK_LEN - 1
    <3>1. e < d + m /\ d + m \in Nat  BY <1>3, <2>1
    <3>2. BlockBytes(d + m) = BlockBytes(d) + BlockBytes(m)  BY <1>3, BlockBytesOf
    <3>3. d + m <= BlockBytes(d + m)  BY <3>1, BlockBytesOf
    <3> HIDE DEF e, w
    <3> QED  BY <1>0, <1>1, <1>3, <1>4, <2>1, <3>1, <3>2, <3>3
  <2> HIDE DEF e, at
  <2>4. B3!CompressBlock(StateAt(n, e, 0), Piece(Bytes(n) + BlockBytes(e), BLOCK_LEN))
         = StateAt(n, e + 1, 0)
    BY <2>3, CompressIs
  <2>5. block(j) = Piece(Bytes(n) + BlockBytes(e), BLOCK_LEN)  BY <1>6, <2>2
  <2> QED  BY <2>1, <2>4, <2>5 DEF e
<1>8. Is([j \in 0 .. m |-> StateAt(n, d + j, 0)])
  <2> DEFINE g == [j \in 0 .. m |-> StateAt(n, d + j, 0)]
  <2>1. \A j \in 0 .. m : j # 0 => j \in 1 .. m /\ j - 1 \in 0 .. m  BY <1>3
  <2>2. 0 \in 0 .. m /\ d + 0 = d  BY <1>3
  <2> HIDE DEF step, m
  <2>3. \A j \in 0 .. m : g[j] = IF j = 0 THEN first ELSE step(g[j - 1], j)
    <3> TAKE j \in 0 .. m
    <3>1. CASE j = 0  BY <2>2, <3>1
    <3>2. CASE j # 0
      <4>1. j \in 1 .. m /\ j - 1 \in 0 .. m  BY <2>1, <3>2
      <4>2. g[j - 1] = StateAt(n, d + (j - 1), 0) /\ g[j] = StateAt(n, d + j, 0)  BY <4>1
      <4> HIDE DEF g
      <4> QED  BY <1>7, <3>2, <4>1, <4>2
    <3> QED  BY <3>1, <3>2
  <2>4. g = [j \in 0 .. m |-> g[j]]  OBVIOUS
  <2> HIDE DEF g
  <2>5. Is(g)  BY <2>3, <2>4
  <2> QED  BY <2>5 DEF g
<1>9. Is(hashed)
  <2> HIDE DEF Is
  <2> QED  BY <1>8, Zenon
<1>10. hashed[m] = StateAt(n, d + m, 0)
  <2> HIDE DEF hashed, step
  <2> DEFINE M == {j \in 0 .. m : hashed[j] = StateAt(n, d + j, 0)}
  <2> HIDE DEF m
  <2>1. 0 \in M
    <3>1. 0 \in 0 .. m /\ d + 0 = d  BY <1>3
    <3>2. hashed[0] = first  BY <1>9, <3>1
    <3> QED  BY <3>1, <3>2
  <2>2. ASSUME NEW j \in 0 .. m - 1, j \in M  PROVE j + 1 \in M
    <3>1. j + 1 \in 1 .. m /\ (j + 1) - 1 = j /\ j + 1 \in 0 .. m /\ j + 1 # 0  BY <1>3
    <3>2. hashed[j + 1] = step(hashed[j], j + 1)  BY <1>9, <3>1
    <3> HIDE DEF Is, first
    <3>3. hashed[j] = StateAt(n, d + ((j + 1) - 1), 0)  BY <2>2, <3>1
    <3>4. step(hashed[j], j + 1) = StateAt(n, d + (j + 1), 0)  BY <1>7, <3>1, <3>3
    <3> QED  BY <3>1, <3>2, <3>4
  <2>3. 0 \in Int /\ m \in Int /\ m \in 0 .. m  BY <1>3
  <2> HIDE DEF M
  <2>4. \A j \in 0 .. m : j \in M  BY <2>1, <2>2, <2>3, IntervalInduction
  <2> QED  BY <2>3, <2>4 DEF M
<1>11. Direct(first, rest)
         = B3!chunk_state_fill_buf(hashed[m], SubSeq(rest, m * BLOCK_LEN + 1, Len(rest)))
  <2>1. Direct(first, rest)
         = LET h == CHOOSE f : f = [j \in 0 .. B3!DirectBlocks(Len(rest)) |->
                       IF j = 0 THEN first ELSE B3!CompressBlock(f[j - 1], SubSeq(rest, (j - 1) * BLOCK_LEN + 1, j * BLOCK_LEN))]
           IN  B3!chunk_state_fill_buf(h[B3!DirectBlocks(Len(rest))],
                  SubSeq(rest, B3!DirectBlocks(Len(rest)) * BLOCK_LEN + 1, Len(rest)))
    <3> HIDE DEF first, rest
    <3> QED  BY Zenon DEF Direct
  <2>2. B3!DirectBlocks(Len(rest)) = m  BY <1>5
  <2> HIDE DEF first, rest, m
  <2> QED  BY <2>1, <2>2, Zenon DEF hashed, Is, step, block
<1> HIDE DEF hashed
<1>12. SubSeq(rest, m * BLOCK_LEN + 1, Len(rest)) = Piece(at + BlockBytes(m), w)
  <2> DEFINE a == BlockBytes(m)
  <2>1. a \in 0 .. k /\ k \in a .. k /\ k - a = w  BY <1>3, <1>4
  <2> HIDE DEF at, w, a
  <2>2. SubSeq(Piece(at, k), a + 1, k) = Piece(at + a, k - a)  BY <1>2, <2>1, PieceWithin
  <2>3. a = m * BLOCK_LEN  BY DEF a, BlockBytes
  <2> HIDE DEF m
  <2> QED  BY <1>5, <2>1, <2>2, <2>3 DEF a
<1> DEFINE e == d + m
<1>13. e \in Nat /\ at + BlockBytes(m) = Bytes(n) + BlockBytes(e) + 0
  <2>1. BlockBytes(e) = BlockBytes(d) + BlockBytes(m)  BY <1>3, BlockBytesOf
  <2>2. e \in Nat  BY <1>3
  <2> HIDE DEF m, e
  <2> QED  BY <1>1, <1>4, <2>1, <2>2
<1> HIDE DEF e
<1>14. B3!chunk_state_fill_buf(StateAt(n, e, 0), Piece(Bytes(n) + BlockBytes(e) + 0, w))
         = StateAt(n, e, 0 + Least(BLOCK_LEN - 0, w))
  <2>1. 0 \in 0 .. BLOCK_LEN /\ w \in Nat  BY <1>0, <1>3
  <2> HIDE DEF w
  <2> QED  BY <1>13, <2>1, FillIs
<1>15. 0 + Least(BLOCK_LEN - 0, w) = w
  <2> HIDE DEF w
  <2> QED  BY <1>0, <1>3 DEF Least
<1>16. Direct(first, rest) = StateAt(n, e, w)
  <2> HIDE DEF first, rest, m, w, at
  <2> QED  BY <1>10, <1>11, <1>12, <1>13, <1>14, <1>15 DEF e
<1> QED  BY <1>16 DEF e

\* An update of a chunk state with what follows in its chunk.
LEMMA UpdateIs ==
    ASSUME NEW n \in Nat, NEW l \in 0 .. CHUNK_LEN, NEW k \in 0 .. CHUNK_LEN - l
    PROVE  B3!chunk_state_update(ChunkAt(n, l), Piece(Bytes(n) + l, k)) = ChunkAt(n, l + k)
<1> DEFINE d == B3!DirectBlocks(l)
           w == l - BlockBytes(d)
           c == ChunkAt(n, l)
           at == Bytes(n) + l
           p == Piece(at, k)
<1>0. BLOCK_LEN \in Nat \ {0} /\ CHUNK_LEN \in Nat /\ l \in Nat /\ k \in Nat
  BY BlockBytesOf, ChunkLen
<1>1. d \in Nat /\ w \in 0 .. BLOCK_LEN /\ (l > 0 => w > 0)  BY <1>0, DirectBlocksAre
<1>2. c = StateAt(n, d, w)  BY DEF ChunkAt
<1>3. Bytes(n) \in Nat /\ at \in Nat
  <2>1. Bytes(n) \in Nat  BY BytesOf
  <2> QED  BY <1>0, <2>1
<1>4. BlockBytes(d) \in Nat /\ BlockBytes(d) + w = l
  <2>1. BlockBytes(d) \in Nat  BY <1>1, BlockBytesOf
  <2> HIDE DEF d
  <2> QED  BY <1>0, <2>1
<1>5. at = Bytes(n) + BlockBytes(d) + w  BY <1>3, <1>4
<1>6. Len(p) = k /\ (p = <<>> <=> k = 0)  BY <1>0, <1>3, PieceIs
<1>7. c.buf_len = w  BY <1>2 DEF StateAt
<1>8. B3!chunk_state_update(c, p) = Direct(Ready(c, p), RestOf(c, p))  BY UpdateParts
<1> DEFINE room == Least(BLOCK_LEN - w, k)
<1>9. CASE l = 0
  <2>1. d = 0 /\ BlockBytes(0) = 0  BY <1>9, DirectBlocksAre, BlockBytesOf
  <2>2. w = 0 /\ at = Bytes(n) + BlockBytes(0) /\ at = Bytes(n)  BY <1>3, <1>9, <2>1
  <2> HIDE DEF d, w, c, at, p
  <2>3. Ready(c, p) = c  BY <1>7, <2>2 DEF Ready
  <2>4. RestOf(c, p) = p
    <3>1. RestOf(c, p) = SubSeq(p, 0 + 1, Len(p))  BY <1>7, <2>2 DEF RestOf
    <3>a. 0 \in 0 .. k /\ k \in 0 .. k  BY <1>0
    <3>b. SubSeq(Piece(at, k), 0 + 1, k) = Piece(at + 0, k - 0)
      BY <1>0, <1>3, <3>a, PieceWithin
    <3>2. SubSeq(p, 0 + 1, k) = Piece(at + 0, k - 0)  BY <3>b DEF p
    <3>3. at + 0 = at /\ k - 0 = k  BY <1>0, <1>3
    <3> QED  BY <1>6, <3>1, <3>2, <3>3 DEF p
  <2>5. BlockBytes(0) + k <= CHUNK_LEN /\ 0 \in Nat  BY <1>0, <1>9, <2>1
  <2>6. Direct(StateAt(n, 0, 0), Piece(Bytes(n) + BlockBytes(0), k))
         = StateAt(n, 0 + B3!DirectBlocks(k), k - BlockBytes(B3!DirectBlocks(k)))
    BY <1>0, <2>5, DirectIs
  <2>7. 0 + B3!DirectBlocks(k) = B3!DirectBlocks(k) /\ l + k = k  BY <1>0, <1>9, DirectBlocksAre
  <2>8. Direct(c, p) = ChunkAt(n, k)
    <3>1. c = StateAt(n, 0, 0) /\ p = Piece(Bytes(n) + BlockBytes(0), k)  BY <1>2, <2>1, <2>2 DEF p
    <3> QED  BY <2>6, <2>7, <3>1 DEF ChunkAt
  <2> QED  BY <1>8, <2>3, <2>4, <2>7, <2>8 DEF c, p, at
<1>10. CASE l # 0
  <2>1. w > 0 /\ w \in 1 .. BLOCK_LEN  BY <1>0, <1>1, <1>10
  <2>2. B3!Take(c, Len(p)) = room
    <3> HIDE DEF w, c, p
    <3> QED  BY <1>6, <1>7 DEF B3!Take, Least
  <2>3. B3!chunk_state_fill_buf(c, p) = StateAt(n, d, w + room)
    <3> HIDE DEF d, w
    <3> QED  BY <1>0, <1>1, <1>2, <1>5, FillIs
  <2>4. RestOf(c, p) = SubSeq(p, room + 1, Len(p))
    <3> HIDE DEF w, c, p, room
    <3> QED  BY <1>7, <2>1, <2>2 DEF RestOf
  <2>r. room \in 0 .. k /\ room <= BLOCK_LEN - w
    <3> HIDE DEF w
    <3> QED  BY <1>0, <1>1 DEF Least
  <2>5. RestOf(c, p) = Piece(at + room, k - room)
    <3> HIDE DEF at, room, c
    <3>1. k \in room .. k  BY <1>0, <2>r
    <3>2. SubSeq(Piece(at, k), room + 1, k) = Piece(at + room, k - room)
      BY <1>0, <1>3, <2>r, <3>1, PieceWithin
    <3> QED  BY <1>6, <2>4, <3>2
  <2>6. RestOf(c, p) = <<>> <=> k - room = 0
    <3> HIDE DEF room, at, c, p
    <3>1. at + room \in Nat /\ k - room \in Nat  BY <1>0, <1>3, <2>r
    <3> QED  BY <2>5, <3>1, PieceIs
  <2>7. SubSeq(p, B3!Take(c, Len(p)) + 1, Len(p)) = RestOf(c, p)
    <3> HIDE DEF room, c, p
    <3> QED  BY <2>2, <2>4
  <2>8. CASE k <= BLOCK_LEN - w
    <3>1. room = k /\ w + k \in 1 .. BLOCK_LEN
      <4> HIDE DEF w
      <4> QED  BY <1>0, <2>1, <2>8 DEF Least
    <3>2. RestOf(c, p) = <<>>
      <4>1. k - room = 0  BY <1>0, <3>1
      <4> HIDE DEF c, p, room
      <4> QED  BY <2>6, <4>1
    <3> DEFINE r == StateAt(n, d, w + k)
    <3>3. Ready(c, p) = r
      <4> HIDE DEF c, p, w, room
      <4>1. c.buf_len > 0  BY <1>7, <2>1
      <4>2. Ready(c, p) = B3!chunk_state_fill_buf(c, p)
        BY <2>7, <3>2, <4>1, Zenon DEF Ready
      <4> QED  BY <2>3, <3>1, <4>2
    <3>4. Direct(r, <<>>) = r
      <4> DEFINE base == CHOOSE f : f = [j \in 0 .. 0 |-> IF j = 0 THEN r
                           ELSE B3!CompressBlock(f[j - 1], SubSeq(<<>>, (j - 1) * BLOCK_LEN + 1, j * BLOCK_LEN))]
      <4>1. Direct(r, <<>>) = B3!chunk_state_fill_buf(base[0], SubSeq(<<>>, 0 * BLOCK_LEN + 1, 0))
        <5>1. B3!DirectBlocks(Len(<<>>)) = 0 /\ Len(<<>>) = 0  BY DirectBlocksAre
        <5> HIDE DEF r
        <5> QED  BY <5>1, Zenon DEF Direct
      <4>2. base[0] = r
        <5> HIDE DEF r
        <5> DEFINE Is(f) == f = [j \in 0 .. 0 |-> IF j = 0 THEN r
                           ELSE B3!CompressBlock(f[j - 1], SubSeq(<<>>, (j - 1) * BLOCK_LEN + 1, j * BLOCK_LEN))]
        <5> DEFINE g == [j \in 0 .. 0 |-> r]
        <5>1. \A j \in 0 .. 0 : j = 0  OBVIOUS
        <5>2. Is(g)  BY <5>1
        <5>3. Is(base)
          <6> HIDE DEF g
          <6> QED  BY <5>2, Zenon
        <5>4. 0 \in 0 .. 0  OBVIOUS
        <5> HIDE DEF base
        <5> QED  BY <5>3, <5>4
      <4>3. SubSeq(<<>>, 0 * BLOCK_LEN + 1, 0) = Piece(at + k, 0)
        <5>1. 0 * BLOCK_LEN + 1 = 0 + 1 /\ at + k \in Nat  BY <1>0, <1>3
        <5>2. Piece(at + k, 0) = <<>>
          <6> HIDE DEF at
          <6> QED  BY <5>1, PieceIs
        <5>3. SubSeq(Piece(at + k, 0), 0 + 1, 0) = Piece((at + k) + 0, 0 - 0)
          <6> DEFINE u == at + k
          <6>1. u \in Nat /\ 0 \in Nat /\ 0 \in 0 .. 0  BY <5>1
          <6> HIDE DEF u
          <6>2. SubSeq(Piece(u, 0), 0 + 1, 0) = Piece(u + 0, 0 - 0)  BY <6>1, PieceWithin
          <6> QED  BY <6>2 DEF u
        <5>4. (at + k) + 0 = at + k /\ 0 - 0 = 0  BY <5>1
        <5> HIDE DEF at
        <5> QED  BY <5>1, <5>2, <5>3, <5>4
      <4>4. B3!chunk_state_fill_buf(StateAt(n, d, w + k), Piece(Bytes(n) + BlockBytes(d) + (w + k), 0))
              = StateAt(n, d, (w + k) + Least(BLOCK_LEN - (w + k), 0))
        <5> DEFINE v == w + k
        <5>1. v \in 0 .. BLOCK_LEN /\ 0 \in Nat  BY <3>1
        <5> HIDE DEF v, d
        <5>2. B3!chunk_state_fill_buf(StateAt(n, d, v), Piece(Bytes(n) + BlockBytes(d) + v, 0))
              = StateAt(n, d, v + Least(BLOCK_LEN - v, 0))
          BY <1>1, <5>1, FillIs
        <5> QED  BY <5>2 DEF v
      <4>5. (w + k) + Least(BLOCK_LEN - (w + k), 0) = w + k
        <5> HIDE DEF w
        <5> QED  BY <1>0, <3>1 DEF Least
      <4>6. at + k = Bytes(n) + BlockBytes(d) + (w + k)
        <5> HIDE DEF at, w, d
        <5> QED  BY <1>0, <1>1, <1>3, <1>4, <1>5
      <4> HIDE DEF base, at
      <4> QED  BY <4>1, <4>2, <4>3, <4>4, <4>5, <4>6 DEF r
    <3>5. r = ChunkAt(n, l + k)
      <4> DEFINE v == w + k
      <4>1. l + k = BlockBytes(d) + v /\ v \in 1 .. BLOCK_LEN
        <5> HIDE DEF w, d
        <5> QED  BY <1>0, <1>1, <1>4, <3>1
      <4> HIDE DEF v
      <4>2. B3!DirectBlocks(BlockBytes(d) + v) = d
        <5> HIDE DEF d
        <5> QED  BY <1>1, <4>1, DirectBlocksAre
      <4>3. v = (l + k) - BlockBytes(d)
        <5> HIDE DEF d, w
        <5> QED  BY <1>0, <1>4, <4>1
      <4> HIDE DEF d
      <4> QED  BY <4>1, <4>2, <4>3 DEF ChunkAt, v
    <3> QED  BY <1>8, <3>2, <3>3, <3>4, <3>5
  <2>9. CASE ~ (k <= BLOCK_LEN - w)
    <3>1. room = BLOCK_LEN - w /\ k - room \in Nat \ {0} /\ w + room = BLOCK_LEN
      <4> HIDE DEF w
      <4> QED  BY <1>0, <1>1, <2>1, <2>9 DEF Least
    <3> DEFINE j == k - room
    <3>2. BlockBytes(d + 1) = BlockBytes(d) + BLOCK_LEN /\ d + 1 \in Nat
      <4>1. 1 \in Nat  OBVIOUS
      <4> HIDE DEF d
      <4> QED  BY <1>1, <4>1, BlockBytesOf
    <3>3. l + k = BlockBytes(d + 1) + j /\ at + room = Bytes(n) + BlockBytes(d + 1)
      <4> HIDE DEF d, w, room, at
      <4> QED  BY <1>0, <1>1, <1>3, <1>4, <1>5, <3>1, <3>2
    <3>4. BlockBytes(d + 1) + j <= CHUNK_LEN  BY <1>0, <3>3
    <3>5. d \in 0 .. CHUNK_LEN - 1
      <4>1. d + 1 <= BlockBytes(d + 1)
        <5> HIDE DEF d
        <5> QED  BY <3>2, BlockBytesOf
      <4>2. BlockBytes(d + 1) \in Nat
        <5> HIDE DEF d
        <5> QED  BY <3>2, BlockBytesOf
      <4> HIDE DEF d, j
      <4>3. j \in Nat  BY <3>1 DEF j
      <4> QED  BY <1>0, <1>1, <3>4, <4>1, <4>2, <4>3
    <3>6. Ready(c, p) = StateAt(n, d + 1, 0)
      <4>1. RestOf(c, p) # <<>>  BY <2>6, <3>1
      <4>2. B3!chunk_state_fill_buf(c, p) = StateAt(n, d, BLOCK_LEN)  BY <2>3, <3>1
      <4>3. B3!ClearBuf(B3!CompressBlock(StateAt(n, d, BLOCK_LEN), StateAt(n, d, BLOCK_LEN).buf))
              = StateAt(n, d + 1, 0)
        <5> HIDE DEF d
        <5> QED  BY <3>5, CompressIs
      <4>4. c.buf_len > 0  BY <1>7, <2>1
      <4> DEFINE full == B3!chunk_state_fill_buf(c, p)
      <4>5. Ready(c, p) = B3!ClearBuf(B3!CompressBlock(full, full.buf))
        <5> HIDE DEF c, p, w, room
        <5> QED  BY <2>7, <4>1, <4>4, Zenon DEF Ready
      <4> HIDE DEF c, p, d
      <4> QED  BY <4>2, <4>3, <4>5
    <3>7. RestOf(c, p) = Piece(Bytes(n) + BlockBytes(d + 1), j)  BY <2>5, <3>3
    <3> DEFINE e == d + 1
               m == B3!DirectBlocks(j)
               v == j - BlockBytes(m)
    <3>8. Direct(StateAt(n, e, 0), Piece(Bytes(n) + BlockBytes(e), j)) = StateAt(n, e + m, v)
      <4>1. j \in Nat /\ e \in Nat  BY <3>1, <3>2
      <4> HIDE DEF j, e
      <4> QED  BY <3>4, <4>1, DirectIs DEF e
    <3>9. m \in Nat /\ v \in 1 .. BLOCK_LEN /\ BlockBytes(m) + v = j
      <4>1. j \in Nat /\ j > 0  BY <3>1
      <4> HIDE DEF j
      <4>2. m \in Nat /\ v \in 0 .. BLOCK_LEN /\ v > 0  BY <4>1, DirectBlocksAre
      <4>3. BlockBytes(m) \in Nat  BY <4>2, BlockBytesOf
      <4> HIDE DEF m
      <4> QED  BY <1>0, <4>1, <4>2, <4>3
    <3>10. l + k = BlockBytes(e + m) + v
      <4>1. BlockBytes(e + m) = BlockBytes(e) + BlockBytes(m) /\ BlockBytes(e) \in Nat /\ BlockBytes(m) \in Nat
        <5>1. e \in Nat  BY <3>2
        <5> HIDE DEF e, m
        <5> QED  BY <3>9, <5>1, BlockBytesOf
      <4>2. l + k = BlockBytes(e) + j  BY <3>3
      <4> HIDE DEF e, m, v, j
      <4> QED  BY <1>0, <3>9, <4>1, <4>2
    <3>11. B3!DirectBlocks(BlockBytes(e + m) + v) = e + m
      <4> DEFINE x == e + m
      <4>1. x \in Nat  BY <3>2, <3>9
      <4> HIDE DEF x, v
      <4>2. B3!DirectBlocks(BlockBytes(x) + v) = x  BY <3>9, <4>1, DirectBlocksAre
      <4> QED  BY <4>2 DEF x
    <3>12. v = (l + k) - BlockBytes(e + m)
      <4> DEFINE x == e + m
      <4>1. x \in Nat  BY <3>2, <3>9
      <4>2. BlockBytes(x) \in Nat
        <5> HIDE DEF x
        <5> QED  BY <4>1, BlockBytesOf
      <4>3. l + k = BlockBytes(x) + v  BY <3>10
      <4> HIDE DEF x, v
      <4>4. v = (l + k) - BlockBytes(x)  BY <1>0, <3>9, <4>2, <4>3
      <4> QED  BY <4>4 DEF x
    <3> HIDE DEF v
    <3>13. ChunkAt(n, l + k) = StateAt(n, e + m, v)
      <4> DEFINE x == e + m
                 y == l + k
      <4>1. B3!DirectBlocks(y) = x /\ v = y - BlockBytes(x)  BY <3>10, <3>11, <3>12
      <4> HIDE DEF x, y
      <4>2. ChunkAt(n, y) = StateAt(n, x, v)  BY <4>1 DEF ChunkAt
      <4> QED  BY <4>2 DEF x, y
    <3> HIDE DEF c, p, d, j, m
    <3> QED  BY <1>8, <3>6, <3>7, <3>8, <3>13 DEF e, c, p, at
  <2> QED  BY <2>8, <2>9
<1> QED  BY <1>9, <1>10

\* The output of a chunk state is the reference chunk of its bytes.
LEMMA OutputIs ==
    ASSUME NEW n \in Nat, NEW l \in 0 .. CHUNK_LEN
    PROVE  B3!chunk_state_output(ChunkAt(n, l)) = B3!Chunk(Bytes(n), l)
<1> DEFINE at == Bytes(n)
           d == B3!DirectBlocks(l)
           w == l - BlockBytes(d)
           z == B3!Zero
           num == IF l = 0 THEN 1 ELSE (l - 1) \div BLOCK_LEN + 1
           byte(i) == IF i <= l THEN Data[at + i] ELSE z
           block(b) == [i \in 1 .. BLOCK_LEN |-> byte((b - 1) * BLOCK_LEN + i)]
           ref == [b \in Nat |-> block(b)]
           K == B3!Key
           Cmp(x, y, f) == B3!Compress(x, y, BLOCK_LEN, at \div CHUNK_LEN, f)
           cv == CHOOSE f : f = [b \in 0 .. num - 1 |->
                                   IF b = 0 THEN K ELSE Cmp(f[b - 1], block(b), Start(b))]
<1>0. BLOCK_LEN \in Nat \ {0} /\ CHUNK_LEN \in Nat /\ l \in Nat  BY BlockBytesOf, ChunkLen
<1>1. d \in Nat /\ w \in 0 .. BLOCK_LEN /\ (l > 0 => w > 0)  BY <1>0, DirectBlocksAre
<1>2. BlockBytes(d) \in Nat /\ BlockBytes(d) + w = l
  <2>1. BlockBytes(d) \in Nat  BY <1>1, BlockBytesOf
  <2> HIDE DEF d
  <2> QED  BY <1>0, <2>1
<1>3. at \in Nat /\ at \div CHUNK_LEN = n  BY BytesOf
<1>4. num = d + 1 /\ num - 1 = d
  <2>1. num = d + 1
    <3>1. CASE l = 0  BY <3>1 DEF B3!DirectBlocks
    <3>2. CASE l # 0  BY <3>2 DEF B3!DirectBlocks
    <3> QED  BY <3>1, <3>2
  <2> HIDE DEF num, d
  <2> QED  BY <1>1, <2>1
<1>5. B3!Chunk(at, l)
        = B3!make_output(cv[num - 1], block(num), l - (num - 1) * BLOCK_LEN, at \div CHUNK_LEN,
                         Start(num) \cup {"CHUNK_END"})
  <2> HIDE DEF at
  <2> QED  BY Zenon DEF B3!Chunk, Start, byte, block, num, cv, K, Cmp, z
<1>6. \A b \in 1 .. d : block(b) = Piece(at + BlockBytes(b - 1), BLOCK_LEN)
  <2> TAKE b \in 1 .. d
  <2>1. b - 1 \in Nat /\ b \in Nat /\ (b - 1) + 1 = b /\ 1 \in Nat
    <3> HIDE DEF d
    <3> QED  BY <1>1
  <2> DEFINE a == BlockBytes(b - 1)
  <2>2. a \in Nat /\ BlockBytes(b) = a + BLOCK_LEN /\ BlockBytes(b) \in Nat  BY <2>1, BlockBytesOf
  <2>3. BlockBytes(b) <= l
    <3>1. b < d \/ b = d
      <4> HIDE DEF d
      <4> QED  BY <1>1
    <3>2. b < d => BlockBytes(b) + BLOCK_LEN <= BlockBytes(d)
      <4> HIDE DEF d
      <4> QED  BY <1>1, <2>1, BlockBytesOf
    <3>3. b = d => BlockBytes(b) = BlockBytes(d)  OBVIOUS
    <3> HIDE DEF d, w, a
    <3> QED  BY <1>0, <1>1, <1>2, <2>2, <3>1, <3>2, <3>3
  <2>4. \A i \in 1 .. BLOCK_LEN : (b - 1) * BLOCK_LEN + i = a + i /\ a + i <= l /\ at + (a + i) = (at + a) + i
    <3>1. a = (b - 1) * BLOCK_LEN  BY DEF a, BlockBytes
    <3> HIDE DEF a, at
    <3> QED  BY <1>0, <1>3, <2>2, <2>3, <3>1
  <2>5. \A i \in 1 .. BLOCK_LEN : byte((b - 1) * BLOCK_LEN + i) = Data[(at + a) + i]
    <3> TAKE i \in 1 .. BLOCK_LEN
    <3>1. (b - 1) * BLOCK_LEN + i = a + i /\ a + i <= l /\ at + (a + i) = (at + a) + i  BY <2>4
    <3> HIDE DEF a, at
    <3>2. byte(a + i) = Data[at + (a + i)]  BY <3>1
    <3> HIDE DEF byte
    <3> QED  BY <3>1, <3>2
  <2> HIDE DEF byte, a, at
  <2>6. block(b) = [i \in 1 .. BLOCK_LEN |-> Data[(at + a) + i]]  BY <2>5
  <2> QED  BY <2>6 DEF Piece, a
<1>7. block(num) = BufAt(n, d, w)
  <2> DEFINE a == BlockBytes(d)
  <2>1. (num - 1) * BLOCK_LEN = a  BY <1>4 DEF BlockBytes
  <2>2. \A i \in 1 .. BLOCK_LEN : (a + i <= l <=> i <= w) /\ at + (a + i) = at + a + i
    <3> HIDE DEF d, w, at
    <3> QED  BY <1>0, <1>1, <1>2, <1>3
  <2>3. BufAt(n, d, w) = [i \in 1 .. BLOCK_LEN |-> IF i <= w THEN Data[at + a + i] ELSE z]
    <3> HIDE DEF w, d
    <3> QED  BY Zenon DEF BufAt, at, z, a
  <2> HIDE DEF a, at, w, d, z, num
  <2>4. \A i \in 1 .. BLOCK_LEN : byte((num - 1) * BLOCK_LEN + i) = IF i <= w THEN Data[at + a + i] ELSE z
    BY <2>1, <2>2
  <2> HIDE DEF byte
  <2> QED  BY <2>3, <2>4
<1>8. cv[num - 1] = Cvs(n)[d]
  <2> DEFINE X == [b \in Nat |-> block(b)]
             F == StartFlags
             Is(f) == f = [b \in 0 .. num - 1 |-> IF b = 0 THEN K ELSE Cmp(f[b - 1], block(b), Start(b))]
  <2>1. \A b \in 1 .. d : b \in Nat /\ X[b] = block(b) /\ F[b] = Start(b)
    <3>1. \A b \in 1 .. d : b \in Nat
      <4> HIDE DEF d
      <4> QED  BY <1>1
    <3> HIDE DEF block, d
    <3> QED  BY <3>1 DEF StartFlags
  <2>2. PICK f : Chain(f, d, X, n, F)
    <3> HIDE DEF X, F, d
    <3> QED  BY <1>1, ChainExists
  <2>3. Is(f)
    <3> DEFINE Cm(x, y, g) == B3!Compress(x, y, BLOCK_LEN, n, g)
    <3>1. f = [b \in 0 .. d |-> IF b = 0 THEN K ELSE Cm(f[b - 1], X[b], F[b])]
      BY <2>2, Zenon DEF Chain, Cm, K
    <3>2. \A x, y, g : Cm(x, y, g) = Cmp(x, y, g)  BY <1>3
    <3>3. \A b \in 0 .. d : b # 0 => b \in 1 .. d
      <4> HIDE DEF d
      <4> QED  BY <1>1
    <3> HIDE DEF Cm, Cmp, X, F, K, block, d, num
    <3> QED  BY <1>4, <2>1, <3>1, <3>2, <3>3
  <2>4. Is(cv)
    <3> HIDE DEF Is
    <3>1. \E g : Is(g)  BY <2>3
    <3> QED  BY <3>1, Zenon DEF Is
  <2> HIDE DEF cv
  <2>5. Chain(cv, d, X, n, F)
    <3> DEFINE Cm(x, y, g) == B3!Compress(x, y, BLOCK_LEN, n, g)
    <3>2. \A x, y, g : Cm(x, y, g) = Cmp(x, y, g)  BY <1>3
    <3>3. \A b \in 0 .. d : b # 0 => b \in 1 .. d
      <4> HIDE DEF d
      <4> QED  BY <1>1
    <3>4. cv = [b \in 0 .. d |-> IF b = 0 THEN K ELSE Cm(cv[b - 1], X[b], F[b])]
      <4> HIDE DEF Cm, Cmp, X, F, K, block, d, num
      <4> QED  BY <1>4, <2>1, <2>4, <3>2, <3>3
    <3> HIDE DEF X, F, d
    <3> QED  BY <3>4, Zenon DEF Chain, Cm, K
  <2>6. d <= CHUNK_LEN
    <3>1. d <= BlockBytes(d)
      <4> HIDE DEF d
      <4> QED  BY <1>1, BlockBytesOf
    <3> HIDE DEF d, w
    <3> QED  BY <1>0, <1>1, <1>2, <3>1
  <2>7. Chain(Cvs(n), CHUNK_LEN, Blocks(n), n, StartFlags)  BY CvsAre
  <2>8. \A b \in 1 .. d : X[b] = Blocks(n)[b] /\ F[b] = StartFlags[b]
    <3>1. \A b \in 1 .. d : Blocks(n)[b] = Piece(at + BlockBytes(b - 1), BLOCK_LEN)
      <4> HIDE DEF d
      <4> QED  BY <2>1 DEF Blocks
    <3> HIDE DEF X, d, block
    <3> QED  BY <1>6, <2>1, <3>1
  <2> HIDE DEF X, F, d
  <2>9. d <= d  BY <1>1
  <2>10. cv[d] = Cvs(n)[d]  BY <1>0, <1>1, <2>5, <2>6, <2>7, <2>8, <2>9, ChainsAgree
  <2> HIDE DEF num
  <2> QED  BY <1>4, <2>10
<1>9. l - (num - 1) * BLOCK_LEN = w  BY <1>4 DEF BlockBytes
<1>10. B3!chunk_state_maybe_start_flag(StateAt(n, d, w)) = Start(num)
  <2>1. d = 0 <=> num = 1
    <3> HIDE DEF num, d
    <3> QED  BY <1>1, <1>4
  <2> HIDE DEF num, d, w
  <2> QED  BY <2>1 DEF B3!chunk_state_maybe_start_flag, StateAt, Start
<1>11. B3!chunk_state_output(StateAt(n, d, w))
         = B3!make_output(Cvs(n)[d], BufAt(n, d, w), w, n,
             B3!chunk_state_maybe_start_flag(StateAt(n, d, w)) \cup {"CHUNK_END"})
  <2> DEFINE c == StateAt(n, d, w)
  <2>1. c.cv = Cvs(n)[d] /\ c.buf = BufAt(n, d, w) /\ c.buf_len = w /\ c.chunk_counter = n
    <3> HIDE DEF d, w
    <3> QED  BY DEF StateAt
  <2> HIDE DEF c
  <2>2. B3!chunk_state_output(c)
          = B3!make_output(c.cv, c.buf, c.buf_len, c.chunk_counter,
                           B3!chunk_state_maybe_start_flag(c) \cup {"CHUNK_END"})
    BY Zenon DEF B3!chunk_state_output
  <2> HIDE DEF d, w
  <2> QED  BY <2>1, <2>2 DEF c
<1> HIDE DEF cv, block, num, w, d, at
<1>12. B3!chunk_state_output(StateAt(n, d, w)) = B3!Chunk(at, l)
  BY <1>3, <1>5, <1>7, <1>8, <1>9, <1>10, <1>11
<1> QED  BY <1>12 DEF ChunkAt, at, w, d

LEMMA ResetIs == \A n \in Nat : B3!chunk_state_reset(n) = ChunkAt(n, 0)
<1> TAKE n \in Nat
<1>0. 0 \in Nat /\ B3!DirectBlocks(0) = 0 /\ BlockBytes(0) = 0 /\ 0 - 0 = 0
  BY DirectBlocksAre, BlockBytesOf
<1>1. ChunkAt(n, 0) = StateAt(n, 0, 0)  BY <1>0 DEF ChunkAt
<1>2. Cvs(n)[0] = B3!Key /\ BufAt(n, 0, 0) = B3!ZeroBlock  BY <1>0, CvsAre, BufIs
<1> QED  BY <1>1, <1>2 DEF StateAt, B3!chunk_state_reset

\* The output of a chunk state is a tree of one chunk.
LEMMA OutputOfTree ==
    ASSUME NEW n \in Nat, NEW l \in 0 .. CHUNK_LEN, l <= MaxTree
    PROVE  B3!chunk_state_output(ChunkAt(n, l)) = B3!Tree[l][Bytes(n)]
<1>0. Bytes(n) \in Nat  BY BytesOf
<1>1. l \in 0 .. MaxTree /\ Bytes(n) \in Nat /\ l <= CHUNK_LEN  BY <1>0, ChunkLen
<1>2. B3!Tree[l][Bytes(n)] = B3!Chunk(Bytes(n), l)  BY <1>1, TreeIs
<1> QED  BY <1>2, OutputIs

LEMMA ChunkCvIs ==
    ASSUME NEW n \in Nat, NEW k \in 0 .. CHUNK_LEN, k <= MaxTree
    PROVE  B3!ChunkCv(Piece(Bytes(n), k), n) = B3!output_chaining_value(B3!Tree[k][Bytes(n)])
<1>1. 0 \in 0 .. CHUNK_LEN /\ k \in 0 .. CHUNK_LEN - 0 /\ 0 + k = k /\ Bytes(n) + 0 = Bytes(n)
  BY ChunkLen, BytesOf
<1>2. B3!chunk_state_update(ChunkAt(n, 0), Piece(Bytes(n) + 0, k)) = ChunkAt(n, 0 + k)
  BY <1>1, UpdateIs
<1>3. B3!chunk_state_update(B3!chunk_state_reset(n), Piece(Bytes(n), k)) = ChunkAt(n, k)
  BY <1>1, <1>2, ResetIs
<1>4. B3!chunk_state_output(ChunkAt(n, k)) = B3!Tree[k][Bytes(n)]  BY OutputOfTree
<1> QED  BY <1>3, <1>4, Zenon DEF B3!ChunkCv

LEMMA SubtreeIs ==
    \A a, n : B3!Subtree(a, n) = B3!output_chaining_value(B3!Tree[Bytes(n)][Bytes(a)])
BY Zenon DEF B3!Subtree, Bytes

\* A block divides a chunk.
LEMMA BlocksOfChunk ==
    \E m \in 1 .. CHUNK_LEN :
       /\ CHUNK_LEN = BlockBytes(m) /\ CHUNK_LEN \div BLOCK_LEN = m
       /\ B3!DirectBlocks(CHUNK_LEN) = m - 1
<1>0. BLOCK_LEN \in Nat \ {0} /\ CHUNK_LEN \in Nat \ {0} /\ BLOCK_LEN < CHUNK_LEN
      /\ BLOCK_LEN \in Power /\ CHUNK_LEN \in Power
  BY ChunkLen, TreeConstants, Powers
<1>1. Divides(BLOCK_LEN, CHUNK_LEN)  BY <1>0, PowerDivides
<1>2. PICK m \in Nat : CHUNK_LEN = m * BLOCK_LEN  BY <1>1 DEF Divides
<1>3. CHUNK_LEN = BlockBytes(m) /\ m <= CHUNK_LEN  BY <1>2, BlockBytesOf DEF BlockBytes
<1>4. m # 0
  <2> SUFFICES ASSUME m = 0 PROVE FALSE  OBVIOUS
  <2>1. BlockBytes(0) = 0  BY BlockBytesOf
  <2> QED  BY <1>0, <1>3, <2>1
<1>5. CHUNK_LEN \div BLOCK_LEN = m
  <2>1. CHUNK_LEN = m * BLOCK_LEN + 0 /\ 0 \in 0 .. BLOCK_LEN - 1 /\ m \in Int  BY <1>0, <1>2
  <2> QED  BY <1>0, <2>1, ModUnique
<1>6. B3!DirectBlocks(CHUNK_LEN) = m - 1
  <2> DEFINE d == m - 1
  <2>1. d \in Nat /\ d + 1 = m /\ 1 \in Nat /\ BLOCK_LEN \in 1 .. BLOCK_LEN  BY <1>0, <1>4
  <2> HIDE DEF d
  <2>2. BlockBytes(d + 1) = BlockBytes(d) + BLOCK_LEN  BY <2>1, BlockBytesOf
  <2>3. B3!DirectBlocks(BlockBytes(d) + BLOCK_LEN) = d  BY <2>1, DirectBlocksAre
  <2> QED  BY <1>3, <2>1, <2>2, <2>3 DEF d
<1>7. m \in 1 .. CHUNK_LEN  BY <1>0, <1>3, <1>4
<1> QED  BY <1>3, <1>5, <1>6, <1>7

\* A chunk hashed in one pass is a chunk.
LEMMA HashOneIs ==
    ASSUME NEW n \in Nat, CHUNK_LEN <= MaxTree
    PROVE  B3!hash_one(Piece(Bytes(n), CHUNK_LEN), n) = B3!Subtree(n, 1)
<1> DEFINE at == Bytes(n)
           input == Piece(at, CHUNK_LEN)
           K == B3!Key
           Cmp(x, y, f) == B3!Compress(x, y, BLOCK_LEN, n, f)
           block(k) == SubSeq(input, (k - 1) * BLOCK_LEN + 1, k * BLOCK_LEN)
<1>0. BLOCK_LEN \in Nat \ {0} /\ CHUNK_LEN \in Nat \ {0} /\ at \in Nat  BY BlockBytesOf, ChunkLen, BytesOf
<1>1. PICK m \in 1 .. CHUNK_LEN : /\ CHUNK_LEN = BlockBytes(m) /\ CHUNK_LEN \div BLOCK_LEN = m
                                  /\ B3!DirectBlocks(CHUNK_LEN) = m - 1
  BY BlocksOfChunk
<1>2. Len(input) \div BLOCK_LEN = m  BY <1>0, <1>1, PieceIs
<1> DEFINE flags(k) == (IF k = 1 THEN {"CHUNK_START"} ELSE {}) \cup (IF k = m THEN {"CHUNK_END"} ELSE {})
           Is(f) == f = [k \in 0 .. m |-> IF k = 0 THEN K ELSE Cmp(f[k - 1], block(k), flags(k))]
           cv == CHOOSE f : Is(f)
           X == [k \in Nat |-> block(k)]
           F == [k \in Nat |-> flags(k)]
<1>3. B3!hash_one(input, n) = cv[m]
  <2> DEFINE Hash(num) ==
               LET fl(k) == (IF k = 1 THEN {"CHUNK_START"} ELSE {})
                              \cup (IF k = num THEN {"CHUNK_END"} ELSE {})
                   v == CHOOSE f : f = [k \in 0 .. num |->
                          IF k = 0 THEN K ELSE Cmp(f[k - 1], block(k), fl(k))]
               IN  v[num]
             num == Len(input) \div BLOCK_LEN
  <2>1. B3!hash_one(input, n) = Hash(num)
    <3> HIDE DEF input
    <3> QED  BY Zenon DEF B3!hash_one, K, Cmp, block
  <2>2. Hash(m) = cv[m]
    <3> HIDE DEF input, K, Cmp, block
    <3> QED  BY Zenon DEF cv, Is, flags, Hash
  <2>3. num = m  BY <1>2
  <2> HIDE DEF Hash, num, cv
  <2> QED  BY <2>1, <2>2, <2>3
<1>4. Chain(cv, m, X, n, F)
  <2>1. \A b \in 0 .. m : b # 0 => b \in Nat /\ X[b] = block(b) /\ F[b] = flags(b)
    <3>1. \A b \in 0 .. m : b \in Nat  BY <1>1
    <3> HIDE DEF block, flags
    <3> QED  BY <3>1
  <2>2. PICK f : Chain(f, m, X, n, F)
    <3>1. m \in Nat  BY <1>1
    <3> HIDE DEF X, F
    <3> QED  BY <3>1, ChainExists
  <2>3. f = [b \in 0 .. m |-> IF b = 0 THEN K ELSE Cmp(f[b - 1], X[b], F[b])]
    <3> HIDE DEF X, F
    <3> QED  BY <2>2, Zenon DEF Chain, Cmp, K
  <2>4. Is(f)
    <3> HIDE DEF Cmp, X, F, K, block, flags
    <3> QED  BY <2>1, <2>3
  <2>5. Is(cv)
    <3> HIDE DEF Is
    <3>1. \E g : Is(g)  BY <2>4
    <3> QED  BY <3>1, Zenon DEF Is
  <2> HIDE DEF cv
  <2>6. cv = [b \in 0 .. m |-> IF b = 0 THEN K ELSE Cmp(cv[b - 1], X[b], F[b])]
    <3> HIDE DEF Cmp, X, F, K, block, flags
    <3> QED  BY <2>1, <2>5
  <2> HIDE DEF X, F
  <2> QED  BY <2>6, Zenon DEF Chain, Cmp, K
<1> HIDE DEF cv
<1>5. \A b \in 1 .. m : b \in Nat /\ X[b] = Piece(at + BlockBytes(b - 1), BLOCK_LEN)
  <2> TAKE b \in 1 .. m
  <2> DEFINE a == BlockBytes(b - 1)
             e == BlockBytes(b)
  <2>1. b - 1 \in Nat /\ b \in Nat /\ b = (b - 1) + 1 /\ 1 \in Nat /\ m \in Nat  BY <1>1
  <2>2. a \in Nat /\ e \in Nat /\ e = a + BLOCK_LEN  BY <2>1, BlockBytesOf
  <2>3. e <= CHUNK_LEN
    <3>1. b < m \/ b = m  BY <2>1
    <3>2. b < m => BlockBytes(b) + BLOCK_LEN <= BlockBytes(m)  BY <2>1, BlockBytesOf
    <3> QED  BY <1>0, <1>1, <2>2, <3>1, <3>2
  <2>4. X[b] = SubSeq(input, a + 1, e)
    <3>1. X[b] = block(b)
      <4> HIDE DEF block
      <4> QED  BY <2>1
    <3> HIDE DEF X
    <3> QED  BY <3>1 DEF BlockBytes
  <2> HIDE DEF a, e, at, X
  <2>5. a \in 0 .. CHUNK_LEN /\ e \in a .. CHUNK_LEN /\ e - a = BLOCK_LEN  BY <1>0, <2>2, <2>3
  <2>6. SubSeq(Piece(at, CHUNK_LEN), a + 1, e) = Piece(at + a, e - a)  BY <1>0, <2>5, PieceWithin
  <2> QED  BY <2>1, <2>4, <2>5, <2>6 DEF a
<1>6. \A b \in 1 .. m : F[b] = flags(b)
  <2>1. \A b \in 1 .. m : b \in Nat  BY <1>1
  <2> HIDE DEF flags
  <2> QED  BY <2>1
<1>7. cv[m - 1] = Cvs(n)[m - 1]
  <2> DEFINE k == m - 1
  <2>1. k \in Nat /\ k <= m /\ k <= CHUNK_LEN /\ m \in Nat  BY <1>0, <1>1
  <2>2. \A b \in 1 .. k : b \in Nat /\ b \in 1 .. m /\ b # m  BY <1>1
  <2>3. \A b \in 1 .. k : F[b] = StartFlags[b]
    <3>1. \A b \in 1 .. k : F[b] = flags(b) /\ flags(b) = Start(b)
      <4> HIDE DEF F, k
      <4> QED  BY <1>6, <2>2 DEF Start
    <3>2. \A b \in 1 .. k : StartFlags[b] = Start(b)
      <4> HIDE DEF k
      <4> QED  BY <2>2 DEF StartFlags
    <3> HIDE DEF F, flags, k
    <3> QED  BY <3>1, <3>2
  <2>4. \A b \in 1 .. k : X[b] = Blocks(n)[b]
    <3>1. \A b \in 1 .. k : Blocks(n)[b] = Piece(at + BlockBytes(b - 1), BLOCK_LEN)
      <4> HIDE DEF k
      <4> QED  BY <2>2 DEF Blocks
    <3> HIDE DEF k, X
    <3> QED  BY <1>5, <2>2, <3>1
  <2>5. Chain(Cvs(n), CHUNK_LEN, Blocks(n), n, StartFlags)  BY CvsAre
  <2> HIDE DEF X, F, k
  <2>6. cv[k] = Cvs(n)[k]
    <3>1. CHUNK_LEN \in Nat  BY <1>0
    <3> QED  BY <1>4, <2>1, <2>3, <2>4, <2>5, <3>1, ChainsAgree
  <2> QED  BY <2>6 DEF k
<1>8. cv[m] = Cmp(cv[m - 1], Piece(at + BlockBytes(m - 1), BLOCK_LEN), Start(m) \cup {"CHUNK_END"})
  <2>1. m \in Nat /\ m \in 1 .. m  BY <1>1
  <2>2. F[m] = Start(m) \cup {"CHUNK_END"}
    <3>1. flags(m) = Start(m) \cup {"CHUNK_END"}  BY Zenon DEF Start
    <3> HIDE DEF F, flags
    <3> QED  BY <1>6, <2>1, <3>1
  <2>3. cv[m] = B3!Compress(cv[m - 1], X[m], BLOCK_LEN, n, F[m])
    <3> HIDE DEF X, F
    <3> QED  BY <1>4, <2>1, ChainIs
  <2> HIDE DEF X, F
  <2> QED  BY <1>5, <2>1, <2>2, <2>3
<1> DEFINE d == m - 1
           c == ChunkAt(n, CHUNK_LEN)
<1>9. c = StateAt(n, d, BLOCK_LEN)
  <2>1. d \in Nat /\ d + 1 = m /\ 1 \in Nat  BY <1>1
  <2> HIDE DEF d
  <2>2. BlockBytes(d + 1) = BlockBytes(d) + BLOCK_LEN /\ BlockBytes(d) \in Nat  BY <2>1, BlockBytesOf
  <2>3. CHUNK_LEN - BlockBytes(d) = BLOCK_LEN  BY <1>0, <1>1, <2>1, <2>2
  <2>4. B3!DirectBlocks(CHUNK_LEN) = d  BY <1>1 DEF d
  <2> QED  BY <2>3, <2>4 DEF ChunkAt
<1>10. /\ c.cv = Cvs(n)[d] /\ c.buf = Piece(at + BlockBytes(d), BLOCK_LEN) /\ c.buf_len = BLOCK_LEN
       /\ c.chunk_counter = n /\ B3!chunk_state_maybe_start_flag(c) = Start(m)
  <2>1. d \in Nat /\ (d = 0 <=> m = 1)  BY <1>1
  <2>2. BufAt(n, d, BLOCK_LEN) = Piece(at + BlockBytes(d), BLOCK_LEN)
    <3> HIDE DEF d
    <3> QED  BY <2>1, BufIs
  <2> HIDE DEF c, d
  <2> QED  BY <1>9, <2>1, <2>2 DEF StateAt, B3!chunk_state_maybe_start_flag, Start
<1>11. B3!chunk_state_output(c)
         = B3!make_output(Cvs(n)[d], Piece(at + BlockBytes(d), BLOCK_LEN), BLOCK_LEN, n,
                          Start(m) \cup {"CHUNK_END"})
  <2> HIDE DEF c, d
  <2> QED  BY <1>10, Zenon DEF B3!chunk_state_output
<1>12. B3!output_chaining_value(B3!chunk_state_output(c)) = cv[m]
  <2> DEFINE e == Start(m) \cup {"CHUNK_END"}
             q == Piece(at + BlockBytes(d), BLOCK_LEN)
             o == B3!chunk_state_output(c)
  <2>1. o = B3!make_output(Cvs(n)[d], q, BLOCK_LEN, n, e)  BY <1>11
  <2> HIDE DEF e, q, d, o
  <2>2. o.cv = Cvs(n)[d] /\ o.block = q /\ o.block_len = BLOCK_LEN /\ o.counter = n /\ o.flags = e
    BY <2>1 DEF B3!make_output
  <2>3. B3!output_chaining_value(o) = Cmp(Cvs(n)[d], q, e)
    <3>1. B3!output_chaining_value(o) = B3!Compress(o.cv, o.block, o.block_len, o.counter, o.flags)
      BY Zenon DEF B3!output_chaining_value
    <3> QED  BY <2>2, <3>1
  <2>4. cv[m] = Cmp(Cvs(n)[d], q, e)  BY <1>7, <1>8 DEF d, q, e
  <2> QED  BY <2>3, <2>4 DEF o
<1>13. CHUNK_LEN \in 0 .. CHUNK_LEN /\ Bytes(1) = CHUNK_LEN  BY <1>0, BytesOf
<1>14. B3!chunk_state_output(c) = B3!Tree[CHUNK_LEN][Bytes(n)]  BY <1>13, OutputOfTree
<1>15. B3!Subtree(n, 1) = B3!output_chaining_value(B3!Tree[CHUNK_LEN][Bytes(n)])
  BY <1>13, SubtreeIs
<1> HIDE DEF c
<1> QED  BY <1>3, <1>12, <1>14, <1>15

-----------------------------------------------------------------------------
(* Subtrees of a single input *)

LEMMA LeftLen ==
    ASSUME NEW len \in 0 .. MaxTree, len > CHUNK_LEN
    PROVE  B3!left_subtree_len(len) \in 1 .. len - 1
<1> DEFINE x == (len - 1) \div CHUNK_LEN
           r == (len - 1) % CHUNK_LEN
           p == B3!round_down_to_power_of_2(x)
<1>0. CHUNK_LEN \in Nat \ {0} /\ MaxTree \in Nat /\ MaxTree < Top /\ Top \in Nat  BY ChunkLen
<1>1. x \in Int /\ r \in 0 .. CHUNK_LEN - 1 /\ len - 1 = x * CHUNK_LEN + r
  <2> DEFINE y == len - 1
  <2>1. y \in Int  OBVIOUS
  <2> HIDE DEF y
  <2>2. y \div CHUNK_LEN \in Int /\ y % CHUNK_LEN \in 0 .. CHUNK_LEN - 1
        /\ y = (y \div CHUNK_LEN) * CHUNK_LEN + (y % CHUNK_LEN)
    BY <1>0, <2>1, DivMod
  <2> QED  BY <2>2 DEF y
<1> HIDE DEF x, r
<1>2. ~ (1 > x)
  <2> SUFFICES ASSUME 1 > x PROVE FALSE  OBVIOUS
  <2>1. 1 * CHUNK_LEN >= x * CHUNK_LEN + CHUNK_LEN  BY <1>0, <1>1, MultiplesApart
  <2>2. 1 * CHUNK_LEN = CHUNK_LEN /\ x * CHUNK_LEN \in Int  BY <1>0, <1>1
  <2> QED  BY <1>0, <1>1, <2>1, <2>2
<1>3. x \in Nat /\ x >= 1 /\ Bytes(x) = x * CHUNK_LEN  BY <1>1, <1>2 DEF Bytes
<1>4. Bytes(x) \in Nat /\ x <= Bytes(x)  BY <1>3, BytesOf
<1>5. Bytes(x) <= len - 1  BY <1>1, <1>3, <1>4
<1>6. x \in 1 .. Top - 1  BY <1>0, <1>3, <1>4, <1>5
<1>7. p \in Nat \ {0} /\ p <= x  BY <1>6, RoundDown, Powers
<1>8. B3!left_subtree_len(len) = Bytes(p)  BY Zenon DEF B3!left_subtree_len, Bytes, p, x
<1> HIDE DEF p
<1>9. Bytes(p) \in Nat /\ p <= Bytes(p)  BY <1>7, BytesOf
<1>10. Bytes(p) <= Bytes(x)
  <2>1. p < x => Bytes(p) + CHUNK_LEN <= Bytes(x)  BY <1>3, <1>7, BytesOf
  <2>2. p = x => Bytes(p) = Bytes(x)  OBVIOUS
  <2> QED  BY <1>0, <1>3, <1>4, <1>7, <1>9, <2>1, <2>2
<1> QED  BY <1>4, <1>5, <1>7, <1>8, <1>9, <1>10

\* The left part of 2 * h chunks is h chunks.
LEMMA LeftHalf ==
    ASSUME NEW h \in B3!Pow2, 2 * h <= LastChunk
    PROVE  B3!left_subtree_len(Bytes(2 * h)) = Bytes(h)
<1>0. CHUNK_LEN \in Nat \ {0} /\ h \in Nat \ {0} /\ h \in Power /\ LastChunk \in Nat
  BY ChunkLen, Powers, LastChunkIs
<1> DEFINE x == 2 * h - 1
<1>1. x \in Nat /\ x + 1 = 2 * h /\ h <= x /\ x < 2 * h /\ 1 \in Nat  BY <1>0
<1>2. x \in 1 .. Top - 1
  <2>1. x \in 0 .. LastChunk  BY <1>0
  <2>2. x \in 0 .. Top - 1  BY <2>1, LastChunkIs
  <2> QED  BY <1>0, <1>1, <2>2
<1> HIDE DEF x
<1>3. B3!round_down_to_power_of_2(x) = h  BY <1>1, <1>2, RoundDownIs
<1>4. (Bytes(2 * h) - 1) \div CHUNK_LEN = x
  <2> DEFINE y == Bytes(2 * h) - 1
             r == CHUNK_LEN - 1
  <2>1. Bytes(x + 1) = Bytes(x) + CHUNK_LEN
    <3>1. Bytes(x + 1) = Bytes(x) + Bytes(1) /\ Bytes(1) = CHUNK_LEN  BY <1>1, BytesOf
    <3> QED  BY <3>1
  <2>2. Bytes(x) \in Nat /\ Bytes(x) = x * CHUNK_LEN  BY <1>1, BytesOf DEF Bytes
  <2>3. y \in Int /\ r \in 0 .. CHUNK_LEN - 1 /\ x \in Int /\ y = x * CHUNK_LEN + r
    BY <1>0, <1>1, <2>1, <2>2
  <2> HIDE DEF y, r
  <2>4. y \div CHUNK_LEN = x  BY <1>0, <2>3, ModUnique
  <2> QED  BY <2>4 DEF y
<1> QED  BY <1>3, <1>4, Zenon DEF B3!left_subtree_len, Bytes

\* w subtrees of g chunks each, side by side from chunk a on.
Row(a, g, w) == [j \in 1 .. w |-> B3!Subtree(a + (j - 1) * g, g)]

LEMMA RowIs ==
    ASSUME NEW a \in Nat, NEW g \in Nat, NEW w \in Nat, a + w * g <= LastChunk
    PROVE  /\ Row(a, g, w) \in Seq(Value) /\ Len(Row(a, g, w)) = w
           /\ \A j \in 1 .. w : Row(a, g, w)[j] = B3!Subtree(a + (j - 1) * g, g)
<1>0. LastChunk \in Nat  BY LastChunkIs
<1> DEFINE at(j) == a + (j - 1) * g
<1>1. \A j \in 1 .. w : at(j) \in 0 .. LastChunk /\ g \in 0 .. LastChunk
  <2> TAKE j \in 1 .. w
  <2> DEFINE u == (j - 1) * g
             v == w * g
  <2>1. u \in Nat /\ v \in Nat  OBVIOUS
  <2>2. u + g <= v
    <3>1. CASE g = 0  BY <3>1
    <3>2. CASE g # 0
      <4>1. g \in Nat \ {0} /\ w \in Int /\ j - 1 \in Int /\ w > j - 1  BY <3>2
      <4>2. w * g >= (j - 1) * g + g  BY <4>1, MultiplesApart
      <4> HIDE DEF u, v
      <4> QED  BY <2>1, <4>2 DEF u, v
    <3> QED  BY <3>1, <3>2
  <2> HIDE DEF u, v
  <2>3. a + u \in 0 .. LastChunk /\ g \in 0 .. LastChunk  BY <1>0, <2>1, <2>2 DEF v
  <2> QED  BY <2>3 DEF u
<1>2. \A j \in 1 .. w : B3!Subtree(at(j), g) \in Value
  <2> HIDE DEF at
  <2> QED  BY <1>1, ValueIs
<1>3. Row(a, g, w) = [j \in 1 .. w |-> B3!Subtree(at(j), g)]  BY Zenon DEF Row
<1> HIDE DEF at
<1>4. Row(a, g, w) \in Seq(Value) /\ Len(Row(a, g, w)) = w
  <2>1. Row(a, g, w) \in [1 .. w -> Value]  BY <1>2, <1>3
  <2> QED  BY <2>1
<1>5. \A j \in 1 .. w : Row(a, g, w)[j] = B3!Subtree(at(j), g)  BY <1>3
<1> QED  BY <1>4, <1>5 DEF at

LEMMA ConcatRight ==
    ASSUME NEW S, NEW s \in Seq(S), NEW t \in Seq(S), NEW j \in Len(s) + 1 .. Len(s) + Len(t)
    PROVE  (s \o t)[j] = t[j - Len(s)]
<1>1. j \in Nat /\ j <= Len(s) + Len(t) /\ ~ (j <= Len(s)) /\ j \in 1 .. Len(s) + Len(t)  OBVIOUS
<1>2. \A i \in 1 .. Len(s) + Len(t) : (s \o t)[i] = IF i <= Len(s) THEN s[i] ELSE t[i - Len(s)]
  BY Zenon, ConcatProperties
<1>3. (s \o t)[j] = IF j <= Len(s) THEN s[j] ELSE t[j - Len(s)]  BY Zenon, <1>1, <1>2
<1> QED  BY Zenon, <1>1, <1>3

LEMMA RowsJoin ==
    ASSUME NEW a \in Nat, NEW g \in Nat, NEW w \in Nat, a + (w + w) * g <= LastChunk
    PROVE  Row(a, g, w) \o Row(a + w * g, g, w) = Row(a, g, w + w)
<1> DEFINE v == w * g
           l == Row(a, g, w)
           r == Row(a + v, g, w)
           b == Row(a, g, w + w)
<1>0. LastChunk \in Nat  BY LastChunkIs
<1>1. v \in Nat /\ (w + w) * g = v + v /\ a + v \in Nat /\ w + w \in Nat  OBVIOUS
<1>2. a + v <= LastChunk /\ (a + v) + v <= LastChunk
  <2> HIDE DEF v
  <2> QED  BY <1>0, <1>1
<1>3. l \in Seq(Value) /\ Len(l) = w /\ \A j \in 1 .. w : l[j] = B3!Subtree(a + (j - 1) * g, g)
  BY <1>2, RowIs
<1>4. r \in Seq(Value) /\ Len(r) = w /\ \A j \in 1 .. w : r[j] = B3!Subtree((a + v) + (j - 1) * g, g)
  <2> DEFINE c == a + v
  <2>1. c \in Nat /\ c + w * g <= LastChunk  BY <1>1, <1>2
  <2> HIDE DEF c
  <2>2. /\ Row(c, g, w) \in Seq(Value) /\ Len(Row(c, g, w)) = w
        /\ \A j \in 1 .. w : Row(c, g, w)[j] = B3!Subtree(c + (j - 1) * g, g)
    BY <2>1, RowIs
  <2> QED  BY <2>2 DEF c
<1>5. b \in Seq(Value) /\ Len(b) = w + w
      /\ \A j \in 1 .. w + w : b[j] = B3!Subtree(a + (j - 1) * g, g)
  <2> DEFINE c == w + w
  <2>1. c \in Nat /\ a + c * g <= LastChunk  BY <1>1
  <2> HIDE DEF c
  <2>2. /\ Row(a, g, c) \in Seq(Value) /\ Len(Row(a, g, c)) = c
        /\ \A j \in 1 .. c : Row(a, g, c)[j] = B3!Subtree(a + (j - 1) * g, g)
    BY <2>1, RowIs
  <2> QED  BY <2>2 DEF c
<1> HIDE DEF l, r, b
<1>6. l \o r \in Seq(Value) /\ Len(l \o r) = w + w  BY <1>3, <1>4
<1>7. \A j \in 1 .. w + w : (l \o r)[j] = b[j]
  <2> TAKE j \in 1 .. w + w
  <2>1. CASE j <= w
    <3>1. j \in 1 .. w  BY <2>1
    <3>2. (l \o r)[j] = l[j]  BY <1>3, <1>4, <3>1
    <3> QED  BY <1>3, <1>5, <3>1, <3>2
  <2>2. CASE j > w
    <3>1. j - w \in 1 .. w  BY <2>2
    <3>2. (l \o r)[j] = r[j - w]
      <4>1. j \in Len(l) + 1 .. Len(l) + Len(r)  BY <1>3, <1>4, <2>2
      <4>2. (l \o r)[j] = r[j - Len(l)]
        <5> QED  BY <1>3, <1>4, <4>1, ConcatRight
      <4> QED  BY <1>3, <4>2
    <3>3. (a + v) + ((j - w) - 1) * g = a + (j - 1) * g  OBVIOUS
    <3>4. r[j - w] = B3!Subtree((a + v) + ((j - w) - 1) * g, g)  BY <1>4, <3>1
    <3>5. b[j] = B3!Subtree(a + (j - 1) * g, g)  BY <1>5
    <3> QED  BY <3>2, <3>3, <3>4, <3>5
  <2>3. j \in Nat /\ (j <= w \/ j > w)  OBVIOUS
  <2> HIDE DEF v
  <2> QED  BY <2>1, <2>2, <2>3
<1>8. l \o r = b  BY <1>5, <1>6, <1>7, SeqEqual
<1> QED  BY <1>8 DEF l, r, b, v

\* One layer of parents over an even number of subtrees.
LEMMA ParentsAre ==
    ASSUME NEW a \in Nat, NEW g \in Power, NEW v \in Nat, a + (2 * v) * g <= LastChunk
    PROVE  B3!compress_parents_parallel(Row(a, g, 2 * v)) = Row(a, 2 * g, v)
<1> DEFINE n == 2 * v
           cvs == Row(a, g, n)
           Join(x, y) == B3!output_chaining_value(B3!parent_output(<<x, y>>))
           parents == [k \in 1 .. v |-> Join(cvs[2 * k - 1], cvs[2 * k])]
<1>0. g \in Nat \ {0} /\ LastChunk \in Nat  BY Powers, LastChunkIs
<1>1. n \in Nat /\ n \div 2 = v /\ (2 * v) * g = v * (2 * g)  BY <1>0
<1>2. cvs \in Seq(Value) /\ Len(cvs) = n /\ \A j \in 1 .. n : cvs[j] = B3!Subtree(a + (j - 1) * g, g)
  <2>1. a + n * g <= LastChunk  OBVIOUS
  <2> HIDE DEF n
  <2> QED  BY <1>0, <1>1, <2>1, RowIs
<1>3. \A k \in 1 .. v : Join(cvs[2 * k - 1], cvs[2 * k]) = B3!Subtree(a + (k - 1) * (2 * g), 2 * g)
  <2> TAKE k \in 1 .. v
  <2> DEFINE c == a + (k - 1) * (2 * g)
  <2>1. c \in Nat
    <3>1. (k - 1) \in Nat /\ 2 * g \in Nat  BY <1>0
    <3> DEFINE x == k - 1
               y == 2 * g
    <3>2. x * y \in Nat
      <4> HIDE DEF x, y
      <4> QED  BY <3>1 DEF x, y
    <3> QED  BY <3>2
  <2>2. 2 * k - 1 \in 1 .. n /\ 2 * k \in 1 .. n
        /\ a + ((2 * k - 1) - 1) * g = c /\ a + (2 * k - 1) * g = c + g
    BY <1>0
  <2>3. cvs[2 * k - 1] = B3!Subtree(c, g) /\ cvs[2 * k] = B3!Subtree(c + g, g)
    <3> HIDE DEF cvs, n, c
    <3>1. cvs[2 * k - 1] = B3!Subtree(a + ((2 * k - 1) - 1) * g, g)  BY <1>2, <2>2
    <3>2. cvs[2 * k] = B3!Subtree(a + (2 * k - 1) * g, g)  BY <1>2, <2>2
    <3> QED  BY <2>2, <3>1, <3>2
  <2>4. Bytes(g) + Bytes(g) <= MaxTree
    <3>1. g + g <= LastChunk
      <4> DEFINE z == 2 * g
                 y == v * z
      <4>1. v > 0 /\ z \in Nat \ {0} /\ v \in Int  BY <1>0
      <4>2. v * z >= 0 * z + z  BY <4>1, MultiplesApart
      <4>3. y \in Int /\ a + y <= LastChunk /\ y >= z
        <5>1. 0 * z + z = z  BY <4>1
        <5>2. y \in Int  BY <4>1
        <5>3. (2 * v) * g = y  BY <1>1
        <5> HIDE DEF y, z
        <5>4. y >= z  BY <4>1, <4>2, <5>1, <5>2 DEF y
        <5> QED  BY <5>2, <5>3, <5>4
      <4>4. z = g + g /\ z \in Nat  BY <1>0
      <4> HIDE DEF y, z
      <4> QED  BY <1>0, <4>3, <4>4
    <3>2. g + g \in Nat  BY <1>0
    <3>3. Bytes(g + g) <= MaxTree /\ Bytes(g + g) = Bytes(g) + Bytes(g)
      BY <1>0, <3>1, <3>2, LastChunkIs, BytesOf
    <3> QED  BY <3>3
  <2> HIDE DEF c, cvs
  <2>5. B3!Subtree(c, 2 * g) = Join(B3!Subtree(c, g), B3!Subtree(c + g, g))
    BY <2>1, <2>4, SubtreesJoin
  <2>6. Join(cvs[2 * k - 1], cvs[2 * k]) = B3!Subtree(c, 2 * g)  BY <2>3, <2>5
  <2> QED  BY <2>6 DEF c
<1>4. Row(a, 2 * g, v) = [k \in 1 .. v |-> B3!Subtree(a + (k - 1) * (2 * g), 2 * g)]
  BY Zenon DEF Row
<1>5. parents = Row(a, 2 * g, v)
  <2> DEFINE s(k) == B3!Subtree(a + (k - 1) * (2 * g), 2 * g)
             t(k) == Join(cvs[2 * k - 1], cvs[2 * k])
  <2>1. \A k \in 1 .. v : t(k) = s(k)  BY <1>3
  <2>2. Row(a, 2 * g, v) = [k \in 1 .. v |-> s(k)]  BY <1>4
  <2>3. parents = [k \in 1 .. v |-> t(k)]  OBVIOUS
  <2> HIDE DEF s, t, parents
  <2> QED  BY <2>1, <2>2, <2>3
<1>6. B3!compress_parents_parallel(cvs) = parents \o SubSeq(cvs, 2 * v + 1, n)
  <2> DEFINE num == Len(cvs) \div 2
             Form(m) == [k \in 1 .. m |-> Join(cvs[2 * k - 1], cvs[2 * k])] \o SubSeq(cvs, 2 * m + 1, Len(cvs))
  <2>1. B3!compress_parents_parallel(cvs) = Form(num)
    <3> HIDE DEF cvs
    <3> QED  BY Zenon DEF B3!compress_parents_parallel, Join
  <2>2. num = v  BY <1>1, <1>2
  <2>3. Form(v) = parents \o SubSeq(cvs, 2 * v + 1, n)
    <3> HIDE DEF cvs, n, Join
    <3> QED  BY <1>2
  <2> HIDE DEF Form, num, parents, cvs, n
  <2> QED  BY <2>1, <2>2, <2>3
<1>7. parents \in Seq(Value)
  <2>1. a + v * (2 * g) <= LastChunk  BY <1>1
  <2> DEFINE z == 2 * g
  <2>2. z \in Nat /\ a + v * z <= LastChunk  BY <1>0, <2>1
  <2> HIDE DEF z
  <2>3. Row(a, z, v) \in Seq(Value)  BY <2>2, RowIs
  <2> HIDE DEF parents
  <2> QED  BY <1>5, <2>3 DEF z
<1>8. SubSeq(cvs, 2 * v + 1, n) = <<>>
  <2> HIDE DEF cvs
  <2>1. 2 * v = n /\ n \in Nat  BY <1>1
  <2> HIDE DEF n
  <2>2. SubSeq(cvs, n + 1, n) = <<>>
    <3> DEFINE q == SubSeq(cvs, n + 1, n)
    <3>1. q \in Seq(Value) /\ Len(q) = 0
      <4>1. n + 1 \in Int /\ n \in Int /\ ~ (n + 1 <= n) /\ \A i \in n + 1 .. n : cvs[i] \in Value
        BY <2>1
      <4>2. q \in Seq(Value) /\ Len(q) = IF n + 1 <= n THEN n - (n + 1) + 1 ELSE 0
        BY <4>1, SubSeqProperties
      <4> QED  BY <4>1, <4>2
    <3> HIDE DEF q
    <3>2. q = <<>>  BY <3>1, EmptySeq
    <3> QED  BY <3>2 DEF q
  <2> QED  BY <2>1, <2>2
<1>9. parents \o <<>> = parents
  <2> HIDE DEF parents
  <2> QED  BY <1>7, ConcatEmptySeq
<1> HIDE DEF parents
<1> QED  BY <1>5, <1>6, <1>8, <1>9 DEF cvs, n

\* Whole chunks side by side.
LEMMA ChunksAre ==
    ASSUME NEW m \in Nat, NEW k \in Nat, m + k <= LastChunk
    PROVE  B3!compress_chunks_parallel(Piece(Bytes(m), Bytes(k)), m) = Row(m, 1, k)
<1> DEFINE input == Piece(Bytes(m), Bytes(k))
           part(j) == SubSeq(input, (j - 1) * CHUNK_LEN + 1, j * CHUNK_LEN)
           Over(n) == SubSeq(input, n * CHUNK_LEN + 1, Len(input))
           Whole(n) == [j \in 1 .. n |-> B3!hash_one(part(j), m + j - 1)]
           Form(n) == IF Over(n) = <<>> THEN Whole(n)
                      ELSE Append(Whole(n), B3!ChunkCv(Over(n), m + n))
<1>0. Bytes(m) \in Nat /\ Bytes(k) \in Nat /\ CHUNK_LEN \in Nat /\ LastChunk \in Nat
  BY BytesOf, ChunkLen, LastChunkIs
<1>1. B3!compress_chunks_parallel(input, m) = Form(Len(input) \div CHUNK_LEN)
  <2> HIDE DEF input
  <2> QED  BY Zenon DEF B3!compress_chunks_parallel
<1>2. Len(input) = Bytes(k)  BY <1>0, PieceIs
<1>3. Len(input) \div CHUNK_LEN = k
  <2>1. Bytes(k) \div CHUNK_LEN = k  BY BytesOf
  <2> HIDE DEF input
  <2> QED  BY <1>2, <2>1
<1>4. Over(k) = <<>>
  <2>1. k * CHUNK_LEN = Bytes(k)  BY DEF Bytes
  <2>2. Bytes(k) \in 0 .. Bytes(k) /\ Bytes(k) \in Bytes(k) .. Bytes(k) /\ Bytes(k) - Bytes(k) = 0
    BY <1>0
  <2>3. SubSeq(input, Bytes(k) + 1, Bytes(k)) = Piece(Bytes(m) + Bytes(k), 0)
    BY <1>0, <2>2, PieceWithin
  <2>4. Bytes(m) + Bytes(k) \in Nat /\ 0 \in Nat  BY <1>0
  <2>5. Piece(Bytes(m) + Bytes(k), 0) = <<>>  BY <2>4, PieceIs
  <2> HIDE DEF input
  <2> QED  BY <1>2, <2>1, <2>3, <2>5
<1>5. \A j \in 1 .. k : B3!hash_one(part(j), m + j - 1) = B3!Subtree(m + (j - 1) * 1, 1)
  <2> TAKE j \in 1 .. k
  <2> DEFINE i == j - 1
             c == m + i
  <2>1. i \in Nat /\ j \in Nat /\ j = i + 1 /\ 1 \in Nat /\ c \in Nat /\ 1 <= LastChunk /\ i < k
    BY <1>0
  <2>2. (j - 1) * 1 = i /\ m + (j - 1) * 1 = c /\ m + j - 1 = c  BY <2>1
  <2>3. (j - 1) * CHUNK_LEN = Bytes(i) /\ j * CHUNK_LEN = Bytes(j)  BY DEF Bytes
  <2>4. Bytes(i) \in Nat /\ Bytes(j) = Bytes(i) + CHUNK_LEN /\ Bytes(c) = Bytes(m) + Bytes(i)
    <3> HIDE DEF i
    <3>1. Bytes(i + 1) = Bytes(i) + Bytes(1) /\ Bytes(1) = CHUNK_LEN /\ Bytes(i) \in Nat
      BY <2>1, BytesOf
    <3> QED  BY <2>1, <3>1, BytesOf
  <2>5. Bytes(j) <= Bytes(k)
    <3>1. Bytes(i) + CHUNK_LEN <= Bytes(k)
      <4> HIDE DEF i
      <4> QED  BY <2>1, BytesOf
    <3> QED  BY <2>4, <3>1
  <2>6. part(j) = SubSeq(input, Bytes(i) + 1, Bytes(j))
    <3> HIDE DEF input, i
    <3> QED  BY <2>3, Zenon
  <2> HIDE DEF i, c
  <2>7. Bytes(i) \in 0 .. Bytes(k) /\ Bytes(j) \in Bytes(i) .. Bytes(k)
        /\ Bytes(j) - Bytes(i) = CHUNK_LEN
    BY <1>0, <2>4, <2>5
  <2>8. SubSeq(input, Bytes(i) + 1, Bytes(j)) = Piece(Bytes(c), CHUNK_LEN)
    <3>1. SubSeq(input, Bytes(i) + 1, Bytes(j)) = Piece(Bytes(m) + Bytes(i), Bytes(j) - Bytes(i))
      BY <1>0, <2>7, PieceWithin
    <3> HIDE DEF input
    <3> QED  BY <2>4, <2>7, <3>1
  <2>9. CHUNK_LEN <= MaxTree
    <3>1. Bytes(1) <= MaxTree  BY <2>1, LastChunkIs
    <3> QED  BY <3>1, BytesOf
  <2>10. B3!hash_one(Piece(Bytes(c), CHUNK_LEN), c) = B3!Subtree(c, 1)  BY <2>1, <2>9, HashOneIs
  <2> HIDE DEF part
  <2> QED  BY <2>2, <2>6, <2>8, <2>10
<1>6. Whole(k) = Row(m, 1, k)
  <2> DEFINE s(j) == B3!Subtree(m + (j - 1) * 1, 1)
             t(j) == B3!hash_one(part(j), m + j - 1)
  <2>1. \A j \in 1 .. k : t(j) = s(j)  BY <1>5
  <2>2. Row(m, 1, k) = [j \in 1 .. k |-> s(j)]  BY Zenon DEF Row
  <2>3. Whole(k) = [j \in 1 .. k |-> t(j)]  OBVIOUS
  <2> HIDE DEF s, t, Whole
  <2> QED  BY <2>1, <2>2, <2>3
<1>7. Form(k) = Whole(k)
  <2> HIDE DEF Over, Whole
  <2> QED  BY <1>4
<1> HIDE DEF Form, Whole, input
<1>8. Form(Len(input) \div CHUNK_LEN) = Form(k)  BY <1>3
<1> QED  BY <1>1, <1>6, <1>7, <1>8 DEF input

\* What blake3_compress_subtree_wide does for len bytes from position `at' on
\* is the chunks side by side, or a layer over its two parts.
IsWide(t, x, c) ==
    /\ B3!blake3_compress_subtree_wide(x, c) = t[Len(x)][0]
    /\ \A len, at \in 0 .. Len(x) :
          /\ len <= Degree * CHUNK_LEN =>
               t[len][at] = B3!compress_chunks_parallel(
                              SubSeq(x, at + 1, at + len), c + at \div CHUNK_LEN)
          /\ len > Degree * CHUNK_LEN =>
               t[len][at] = B3!Layer(t[B3!left_subtree_len(len)][at],
                                     t[len - B3!left_subtree_len(len)]
                                      [at + B3!left_subtree_len(len)])

LEMMA WideIs ==
    ASSUME NEW x \in Seq(FedByte), Len(x) <= MaxTree, NEW c, Degree \in Nat \ {0}
    PROVE  \E t : IsWide(t, x, c)
<1> DEFINE Leaf(m, a) == B3!compress_chunks_parallel(SubSeq(x, a + 1, a + m), c + a \div CHUNK_LEN)
           Node(l, r) == B3!Layer(l, r)
           L(m) == B3!left_subtree_len(m)
           most == Degree * CHUNK_LEN
           hi == Len(x)
           Is(f, k) == f = [m \in 0 .. k |-> [a \in 0 .. hi |->
                              IF m <= most THEN Leaf(m, a)
                              ELSE Node(f[L(m)][a], f[m - L(m)][a + L(m)])]]
           M == {k \in 0 .. hi : \E f : Is(f, k)}
           t == CHOOSE f : Is(f, hi)
<1>t. B3!blake3_compress_subtree_wide(x, c) = t[hi][0]
  BY Zenon DEF B3!blake3_compress_subtree_wide
<1>b. hi \in Nat /\ most \in Nat /\ CHUNK_LEN <= most /\ hi <= MaxTree /\ CHUNK_LEN \in Nat
  <2>1. Degree \in Nat /\ CHUNK_LEN \in Nat \ {0} /\ Degree > 0  BY ChunkLen
  <2>2. Degree * CHUNK_LEN >= 0 * CHUNK_LEN + CHUNK_LEN  BY <2>1, MultiplesApart
  <2>3. most \in Nat /\ 0 * CHUNK_LEN = 0  BY <2>1
  <2> QED  BY <2>1, <2>2, <2>3
<1>l. ASSUME NEW m \in 0 .. hi, m > most
      PROVE  L(m) \in 1 .. m - 1 /\ m - L(m) \in 1 .. m - 1 /\ L(m) \in Nat
  <2> HIDE DEF most, hi
  <2>1. m \in 0 .. MaxTree /\ m > CHUNK_LEN  BY <1>b, <1>l, ChunkLen
  <2>2. L(m) \in 1 .. m - 1  BY <2>1, LeftLen
  <2> HIDE DEF L
  <2> QED  BY <1>b, <2>2
<1> HIDE DEF t, L, hi, Node, Leaf, most
<1>1. 0 \in M
  <2> DEFINE f == [m \in 0 .. 0 |-> [a \in 0 .. hi |-> Leaf(m, a)]]
  <2>1. \A m \in 0 .. 0 : m <= most  BY <1>b
  <2>2. f = [m \in 0 .. 0 |-> [a \in 0 .. hi |->
                              IF m <= most THEN Leaf(m, a)
                              ELSE Node(f[L(m)][a], f[m - L(m)][a + L(m)])]]
    BY <2>1
  <2>3. Is(f, 0)  BY <2>2
  <2> HIDE DEF Is, f
  <2> QED  BY <1>b, <2>3
<1>2. ASSUME NEW k \in 0 .. hi - 1, k \in M  PROVE k + 1 \in M
  <2>1. PICK f : Is(f, k)  BY <1>2
  <2> DEFINE Body(h, m, a) == IF m <= most THEN Leaf(m, a)
                              ELSE Node(h[L(m)][a], h[m - L(m)][a + L(m)])
             y == [a \in 0 .. hi |-> Body(f, k + 1, a)]
             g == [m \in 0 .. k + 1 |-> IF m = k + 1 THEN y ELSE f[m]]
  <2>2. k + 1 \in 0 .. hi  BY <1>b
  <2>3. f = [m \in 0 .. k |-> [a \in 0 .. hi |-> Body(f, m, a)]]  BY <2>1
  <2>e. ASSUME NEW m \in 0 .. k  PROVE g[m] = f[m]
    <3> HIDE DEF y
    <3>1. m \in 0 .. k + 1 /\ m # k + 1  BY <1>b
    <3> QED  BY <3>1
  <2>y. g[k + 1] = y
    <3> HIDE DEF y
    <3>1. k + 1 \in 0 .. k + 1  BY <1>b
    <3> QED  BY <3>1
  <2>d. g = [m \in 0 .. k + 1 |-> g[m]]  OBVIOUS
  <2> HIDE DEF g
  <2>4. ASSUME NEW m \in 0 .. k + 1, NEW a \in 0 .. hi  PROVE Body(f, m, a) = Body(g, m, a)
    <3>1. CASE m <= most  BY <3>1
    <3>2. CASE ~ (m <= most)
      <4>1. m \in 0 .. hi /\ m > most  BY <1>b, <3>2
      <4>2. L(m) \in 0 .. k /\ m - L(m) \in 0 .. k  BY <1>b, <1>l, <4>1
      <4>3. g[L(m)] = f[L(m)] /\ g[m - L(m)] = f[m - L(m)]  BY <2>e, <4>2
      <4> QED  BY <4>3
    <3> QED  BY <3>1, <3>2
  <2>5. ASSUME NEW m \in 0 .. k + 1  PROVE g[m] = [a \in 0 .. hi |-> Body(g, m, a)]
    <3>1. g[m] = [a \in 0 .. hi |-> Body(f, m, a)]
      <4>1. CASE m = k + 1  BY <2>y, <4>1
      <4>2. CASE m # k + 1
        <5>1. m \in 0 .. k  BY <1>b, <4>2
        <5> HIDE DEF Body
        <5> QED  BY <2>3, <2>e, <5>1
      <4> QED  BY <4>1, <4>2
    <3> HIDE DEF Body
    <3> QED  BY <2>4, <3>1
  <2>6. g = [m \in 0 .. k + 1 |-> [a \in 0 .. hi |-> Body(g, m, a)]]
    <3> HIDE DEF Body
    <3> QED  BY <2>5, <2>d
  <2>7. Is(g, k + 1)  BY <2>6
  <2> HIDE DEF Is
  <2> QED  BY <2>2, <2>7
<1>3. \E f : Is(f, hi)
  <2>1. 0 \in Int /\ hi \in Int /\ hi \in 0 .. hi  BY <1>b
  <2> HIDE DEF M
  <2>2. \A k \in 0 .. hi : k \in M  BY <1>1, <1>2, <2>1, IntervalInduction
  <2> HIDE DEF Is
  <2> QED  BY <2>1, <2>2 DEF M
<1>4. Is(t, hi)
  <2> HIDE DEF Is
  <2> QED  BY <1>3, Zenon DEF t
<1>5. ASSUME NEW n \in 0 .. hi, NEW at \in 0 .. hi
      PROVE  /\ n <= most => t[n][at] = Leaf(n, at)
             /\ n > most => t[n][at] = Node(t[L(n)][at], t[n - L(n)][at + L(n)])
  <2> DEFINE Body(h, m, a) == IF m <= most THEN Leaf(m, a)
                              ELSE Node(h[L(m)][a], h[m - L(m)][a + L(m)])
  <2>2. t = [m \in 0 .. hi |-> [a \in 0 .. hi |-> Body(t, m, a)]]  BY <1>4
  <2> HIDE DEF Body, Is
  <2>3. t[n] = [a \in 0 .. hi |-> Body(t, n, a)]
    <3> DEFINE r == [m \in 0 .. hi |-> [a \in 0 .. hi |-> Body(t, m, a)]]
    <3>1. r[n] = [a \in 0 .. hi |-> Body(t, n, a)]  OBVIOUS
    <3> HIDE DEF r
    <3> QED  BY <2>2, <3>1, Zenon DEF r
  <2>4. t[n][at] = Body(t, n, at)  BY <2>3
  <2>5. n \in Nat /\ (n <= most => ~ (n > most)) /\ (n > most => ~ (n <= most))  BY <1>b
  <2>6. n <= most => Body(t, n, at) = Leaf(n, at)  BY DEF Body
  <2>7. n > most => Body(t, n, at) = Node(t[L(n)][at], t[n - L(n)][at + L(n)])  BY <2>5 DEF Body
  <2> QED  BY <2>4, <2>6, <2>7
<1>6. IsWide(t, x, c)  BY <1>5, <1>t, Zenon DEF IsWide, Leaf, Node, L, hi, most
<1> QED  BY <1>6, Zenon

\* k chunks hashed as w subtrees of g chunks each.
Shape(k, g, w) ==
    /\ g \in Power /\ w \in Power /\ g * w = k
    /\ k # 1 => w # 1
    /\ w <= Degree \/ w <= 2

\* A layer over two rows is the row of the parents, or with one lane the two.
LEMMA LayerIs ==
    ASSUME NEW a \in Nat, NEW p \in B3!Pow2, NEW g, NEW w, Shape(p, g, w), a + 2 * p <= LastChunk
    PROVE  /\ w = 1 => /\ B3!Layer(Row(a, g, w), Row(a + p, g, w)) = Row(a, 1, 2)
                       /\ Shape(2 * p, 1, 2)
           /\ w # 1 => /\ B3!Layer(Row(a, g, w), Row(a + p, g, w)) = Row(a, 2 * g, w)
                       /\ Shape(2 * p, 2 * g, w)
<1> DEFINE l == Row(a, g, w)
           r == Row(a + p, g, w)
<1>0. /\ p \in Power /\ p \in Nat \ {0} /\ g \in Nat \ {0} /\ w \in Nat \ {0} /\ LastChunk \in Nat
      /\ g \in Power /\ w \in Power /\ w * g = p /\ g * w = p /\ (p # 1 => w # 1) /\ 1 \in Power
      /\ (w <= Degree \/ w <= 2)
  <2>1. p \in Power /\ g \in Power /\ w \in Power /\ g * w = p /\ (p # 1 => w # 1) /\ 1 \in Power
        /\ (w <= Degree \/ w <= 2)
    BY Powers DEF Shape
  <2>2. p \in Nat \ {0} /\ g \in Nat \ {0} /\ w \in Nat \ {0}  BY <2>1, Powers
  <2>3. w * g = g * w  BY <2>2
  <2> QED  BY <2>1, <2>2, <2>3, LastChunkIs
<1>1. (w + w) * g = 2 * p /\ a + p \in Nat
  <2>1. (w + w) * g = w * g + w * g  BY <1>0
  <2> DEFINE v == w * g
  <2> HIDE DEF v
  <2>2. (w + w) * g = v + v /\ v = p  BY <1>0, <2>1 DEF v
  <2> QED  BY <1>0, <2>2
<1>2. l \o r = Row(a, g, w + w)
  <2>1. a + (w + w) * g <= LastChunk  BY <1>1
  <2>2. Row(a, g, w) \o Row(a + w * g, g, w) = Row(a, g, w + w)  BY <1>0, <2>1, RowsJoin
  <2> QED  BY <1>0, <2>2
<1>3. Len(l) = w
  <2>1. a + w * g <= LastChunk
    <3> DEFINE v == w * g
    <3>1. v = p  BY <1>0
    <3> HIDE DEF v
    <3>2. a + v <= LastChunk  BY <1>0, <3>1
    <3> QED  BY <3>2 DEF v
  <2> QED  BY <1>0, <2>1, RowIs
<1>4. w = 1 => B3!Layer(l, r) = l \o r
  <2> HIDE DEF l, r
  <2> QED  BY <1>3 DEF B3!Layer
<1>5. w # 1 => B3!Layer(l, r) = B3!compress_parents_parallel(l \o r)
  <2> HIDE DEF l, r
  <2> QED  BY <1>3 DEF B3!Layer
<1>p. p < Top /\ Top \in Power /\ 2 * p \in Power
  <2>1. 2 * p \in 0 .. LastChunk  BY <1>0
  <2>2. 2 * p \in 0 .. Top - 1 /\ Top \in Nat  BY <2>1, LastChunkIs, ChunkLen
  <2>3. p < Top  BY <1>0, <2>2
  <2>4. Top \in Power  BY Powers
  <2> QED  BY <1>0, <2>3, <2>4, PowerLess
<1>6. CASE w = 1
  <2>1. p = 1 /\ g = 1 /\ w + w = 2  BY <1>0, <1>6
  <2>2. Shape(2 * p, 1, 2)
    <3>1. 2 \in Power /\ 1 * 2 = 2 * p /\ 2 # 1 /\ 2 <= 2  BY <1>p, <2>1
    <3> QED  BY <1>0, <3>1 DEF Shape
  <2> HIDE DEF l, r
  <2> QED  BY <1>2, <1>4, <1>6, <2>1, <2>2 DEF l, r
<1>7. CASE w # 1
  <2>1. g < p
    <3>1. w \in Int /\ w > 1  BY <1>0, <1>7
    <3>2. w * g >= 1 * g + g  BY <1>0, <3>1, MultiplesApart
    <3> DEFINE v == w * g
    <3>3. v = p /\ v >= g + g
      <4>1. 1 * g = g  BY <1>0
      <4> QED  BY <1>0, <3>2, <4>1
    <3> HIDE DEF v
    <3> QED  BY <1>0, <3>3
  <2>2. 2 * g \in Power  BY <1>0, <2>1, PowerLess
  <2>3. (2 * g) * w = 2 * p
    <3>1. (2 * g) * w = 2 * (g * w)  BY <1>0
    <3> QED  BY <1>0, <3>1
  <2>4. Shape(2 * p, 2 * g, w)  BY <1>0, <1>7, <2>2, <2>3 DEF Shape
  <2>5. B3!compress_parents_parallel(Row(a, g, 2 * w)) = Row(a, 2 * g, w)
    <3>1. w + w = 2 * w  BY <1>0
    <3>2. a + (2 * w) * g <= LastChunk  BY <1>1, <3>1
    <3> QED  BY <1>0, <3>2, ParentsAre
  <2>6. w + w = 2 * w  BY <1>0
  <2> HIDE DEF l, r
  <2> QED  BY <1>2, <1>5, <1>7, <2>4, <2>5, <2>6 DEF l, r
<1> QED  BY <1>6, <1>7

\* A power of two of chunks is hashed as a row of equal subtrees.
LEMMA WideRows ==
    ASSUME NEW n \in Nat, NEW h \in Power, n + h <= LastChunk, Degree \in Degrees
    PROVE  \E g, w \in Power :
              /\ Shape(h, g, w)
              /\ B3!blake3_compress_subtree_wide(Piece(Bytes(n), Bytes(h)), n) = Row(n, g, w)
<1> DEFINE x == Piece(Bytes(n), Bytes(h))
           most == Degree * CHUNK_LEN
<1>0. /\ h \in Nat \ {0} /\ LastChunk \in Nat /\ CHUNK_LEN \in Nat \ {0} /\ 1 \in Nat
      /\ Degree \in Nat \ {0} /\ Degree \in B3!Pow2 /\ Degree \in Power
  BY Powers, TreeConstants, LastChunkIs, ChunkLen
<1>1. Bytes(n) \in Nat /\ Bytes(h) \in Nat  BY <1>0, BytesOf
<1>2. x \in Seq(FedByte) /\ Len(x) = Bytes(h)  BY <1>1, PieceIs
<1>3. Bytes(h) <= MaxTree
  <2>1. h <= LastChunk  BY <1>0
  <2> QED  BY <1>0, <2>1, LastChunkIs
<1> DEFINE Left(len) == B3!left_subtree_len(len)
<1> HIDE DEF x, Left
<1>4. PICK t : /\ B3!blake3_compress_subtree_wide(x, n) = t[Len(x)][0]
               /\ \A len, at \in 0 .. Len(x) :
                     /\ len <= most =>
                          t[len][at] = B3!compress_chunks_parallel(
                                         SubSeq(x, at + 1, at + len), n + at \div CHUNK_LEN)
                     /\ len > most =>
                          t[len][at] = B3!Layer(t[Left(len)][at], t[len - Left(len)][at + Left(len)])
  <2>1. Len(x) <= MaxTree  BY <1>2, <1>3
  <2>2. PICK t : IsWide(t, x, n)  BY <1>0, <1>2, <2>1, Zenon, WideIs
  <2> QED  BY <2>2, Zenon DEF IsWide, Left, most
<1> DEFINE Rows(k, g, w) == \A i \in 0 .. h - k : t[Bytes(k)][Bytes(i)] = Row(n + i, g, w)
           S == {k \in Power : k <= h => \E g, w \in Power : Shape(k, g, w) /\ Rows(k, g, w)}
<1> HIDE DEF most
<1>d. most = Bytes(Degree)  BY DEF most, Bytes
\* few chunks: side by side
<1>5. ASSUME NEW k \in Power, k <= h, k <= Degree  PROVE \E g, w \in Power : Shape(k, g, w) /\ Rows(k, g, w)
  <2>0. k \in Nat \ {0} /\ 1 \in Power  BY Powers
  <2>1. Shape(k, 1, k)  BY <1>5, <2>0 DEF Shape
  <2>2. Rows(k, 1, k)
    <3> TAKE i \in 0 .. h - k
    <3> DEFINE a == Bytes(i)
               b == Bytes(k)
    <3>1. i \in Nat /\ k \in Nat /\ i + k <= h /\ i + k \in Nat /\ n + i \in Nat  BY <1>0, <2>0, <1>5
    <3>2. a \in Nat /\ b \in Nat /\ a \div CHUNK_LEN = i /\ Bytes(n + i) = Bytes(n) + a
          /\ Bytes(i + k) = a + b
      BY <3>1, BytesOf
    <3>3. b <= most
      <4>1. k < Degree => Bytes(k) + CHUNK_LEN <= Bytes(Degree)  BY <1>0, <3>1, BytesOf
      <4>2. k = Degree => Bytes(k) = Bytes(Degree)  OBVIOUS
      <4>3. Bytes(Degree) \in Nat  BY <1>0, BytesOf
      <4> QED  BY <1>0, <1>5, <1>d, <3>1, <3>2, <4>1, <4>2, <4>3
    <3>4. a + b <= Bytes(h)
      <4>1. i + k < h => Bytes(i + k) + CHUNK_LEN <= Bytes(h)  BY <1>0, <3>1, BytesOf
      <4>2. i + k = h => Bytes(i + k) = Bytes(h)  OBVIOUS
      <4> QED  BY <1>0, <1>1, <3>1, <3>2, <4>1, <4>2
    <3> HIDE DEF a, b
    <3>5. b \in 0 .. Len(x) /\ a \in 0 .. Len(x)  BY <1>1, <1>2, <3>2, <3>4
    <3>6. t[b][a] = B3!compress_chunks_parallel(SubSeq(x, a + 1, a + b), n + a \div CHUNK_LEN)
      BY <1>4, <3>3, <3>5
    <3>7. SubSeq(x, a + 1, a + b) = Piece(Bytes(n) + a, b)
      <4>1. a \in 0 .. Bytes(h) /\ a + b \in a .. Bytes(h) /\ (a + b) - a = b  BY <1>1, <3>2, <3>4
      <4> QED  BY <1>1, <4>1, PieceWithin DEF x
    <3>8. B3!compress_chunks_parallel(Piece(Bytes(n + i), Bytes(k)), n + i) = Row(n + i, 1, k)
      <4>1. (n + i) + k <= LastChunk  BY <1>0, <3>1
      <4> QED  BY <3>1, <4>1, ChunksAre
    <3>9. t[b][a] = Row(n + i, 1, k)  BY <3>2, <3>6, <3>7, <3>8 DEF b
    <3> QED  BY <3>9 DEF a, b
  <2> HIDE DEF Rows
  <2> QED  BY <2>0, <2>1, <2>2
\* many: two halves and a layer
<1>6. ASSUME NEW p \in B3!Pow2, p \in S, 2 * p <= h, 2 * p > Degree
      PROVE  \E g, w \in Power : Shape(2 * p, g, w) /\ Rows(2 * p, g, w)
  <2>0. p \in Power /\ p \in Nat \ {0} /\ 2 \in Power /\ 1 \in Power
    <3>1. p \in Power /\ p \in Nat \ {0} /\ 1 \in Power /\ Bits # 0 /\ 1 \in B3!Pow2  BY Powers
    <3>2. Bits \in Nat  BY TreeConstants
    <3>3. 1 \in 0 .. Bits /\ 1 \in 1 .. Bits  BY <3>1, <3>2
    <3>4. B3!TwoTo[1] = 2
      <4>1. B3!TwoTo[1] = 2 * B3!TwoTo[1 - 1] /\ B3!TwoTo[0] = 1  BY <3>3, TwoToIs
      <4> QED  BY <4>1
    <3>5. B3!TwoTo[1] \in Power  BY <3>3 DEF Power
    <3> QED  BY <3>1, <3>4, <3>5
  <2>1. p <= h  BY <1>0, <1>6, <2>0
  <2>2. PICK g \in Power, w \in Power : Shape(p, g, w) /\ Rows(p, g, w)
    <3> HIDE DEF Rows
    <3> QED  BY <1>6, <2>1
  <2> DEFINE k == 2 * p
             q == Bytes(p)
             v == IF w = 1 THEN 2 ELSE w
             f == IF w = 1 THEN 1 ELSE 2 * g
  <2>3. k \in Nat /\ k = p + p /\ k <= LastChunk  BY <1>0, <1>6, <2>0
  <2>4. q \in Nat /\ Bytes(k) = q + q /\ Bytes(k) - q = q /\ Bytes(k) \in Nat
    <3>1. Bytes(p + p) = Bytes(p) + Bytes(p) /\ Bytes(p) \in Nat /\ Bytes(p + p) \in Nat
      <4>1. p \in Nat /\ p + p \in Nat  BY <2>0
      <4> QED  BY <4>1, BytesOf
    <3> HIDE DEF k
    <3>2. Bytes(k) = Bytes(p) + Bytes(p) /\ Bytes(k) \in Nat  BY <2>3, <3>1
    <3> QED  BY <3>1, <3>2
  <2>5. Left(Bytes(k)) = q  BY <2>3, LeftHalf DEF Left
  <2>6. Bytes(k) > most
    <3>1. Bytes(Degree) + CHUNK_LEN <= Bytes(k)
      <4> HIDE DEF k
      <4>1. k > Degree /\ k \in Nat /\ Degree \in Nat  BY <1>0, <1>6, <2>3 DEF k
      <4> QED  BY <4>1, BytesOf
    <3>2. Bytes(Degree) \in Nat  BY <1>0, BytesOf
    <3> HIDE DEF k
    <3> QED  BY <1>0, <1>d, <2>4, <3>1, <3>2
  <2>7. Bytes(k) <= Bytes(h)
    <3> HIDE DEF k
    <3>0. k <= h /\ k \in Nat  BY <1>6, <2>3 DEF k
    <3>1. k < h => Bytes(k) + CHUNK_LEN <= Bytes(h)  BY <1>0, <3>0, BytesOf
    <3>2. k = h => Bytes(k) = Bytes(h)  OBVIOUS
    <3> QED  BY <1>0, <1>1, <2>4, <3>0, <3>1, <3>2
  <2>8. Shape(k, f, v) /\ f \in Power /\ v \in Power
    <3>1. n + 2 * p <= LastChunk  BY <1>0, <1>6, <2>0
    <3>2. (w = 1 => Shape(2 * p, 1, 2)) /\ (w # 1 => Shape(2 * p, 2 * g, w))
      BY <2>2, <3>1, LayerIs
    <3>3. Shape(k, f, v)  BY <3>2
    <3> QED  BY <3>3 DEF Shape
  <2>9. Rows(k, f, v)
    <3> TAKE i \in 0 .. h - k
    <3> DEFINE a == Bytes(i)
               c == n + i
               y == i + p
    <3>1. i \in Nat /\ c \in Nat /\ y \in Nat /\ i + k <= h /\ y \in 0 .. h - p /\ i \in 0 .. h - p
          /\ n + y = c + p /\ c + 2 * p <= LastChunk
      BY <1>0, <2>0, <2>3
    <3>2. a \in Nat /\ Bytes(y) = a + q
      <4>1. p \in Nat  BY <2>0
      <4> QED  BY <3>1, <4>1, BytesOf
    <3>3. a <= Bytes(h)
      <4>0. i <= h /\ i \in Nat  BY <1>0, <2>3, <3>1
      <4>1. i < h => Bytes(i) + CHUNK_LEN <= Bytes(h)  BY <1>0, <4>0, BytesOf
      <4>2. i = h => Bytes(i) = Bytes(h)  OBVIOUS
      <4> QED  BY <1>0, <1>1, <3>2, <4>0, <4>1, <4>2
    <3>4. t[q][a] = Row(c, g, w) /\ t[q][a + q] = Row(c + p, g, w)
      <4>1. \A z \in 0 .. h - p : t[Bytes(p)][Bytes(z)] = Row(n + z, g, w)  BY <2>2
      <4>2. t[Bytes(p)][Bytes(i)] = Row(n + i, g, w)  BY <3>1, <4>1
      <4>3. t[Bytes(p)][Bytes(y)] = Row(n + y, g, w)
        <5> HIDE DEF y
        <5> QED  BY <3>1, <4>1
      <4> HIDE DEF y
      <4> QED  BY <3>1, <3>2, <4>2, <4>3
    <3>5. t[Bytes(k)][a] = B3!Layer(t[q][a], t[q][a + q])
      <4> DEFINE b == Bytes(k)
      <4>1. b \in 0 .. Len(x) /\ a \in 0 .. Len(x) /\ b > most  BY <1>1, <1>2, <2>4, <2>6, <2>7, <3>2, <3>3
      <4> HIDE DEF b, a, q
      <4>2. t[b][a] = B3!Layer(t[Left(b)][a], t[b - Left(b)][a + Left(b)])  BY <1>4, <4>1
      <4> QED  BY <2>4, <2>5, <4>2 DEF b
    <3>6. B3!Layer(Row(c, g, w), Row(c + p, g, w)) = Row(c, f, v)
      <4> HIDE DEF c
      <4> QED  BY <2>2, <3>1, LayerIs
    <3> HIDE DEF a, q, f, v, k, c
    <3>7. t[Bytes(k)][a] = Row(c, f, v)  BY <3>4, <3>5, <3>6
    <3> QED  BY <3>7 DEF a, c
  <2> HIDE DEF Rows, f, v
  <2> QED  BY <2>8, <2>9
<1>7. 1 \in S
  <2>1. 1 \in Power /\ 1 <= h /\ 1 <= Degree  BY <1>0, Powers
  <2>2. \E g, w \in Power : Shape(1, g, w) /\ Rows(1, g, w)
    <3> HIDE DEF Rows
    <3> QED  BY <1>5, <2>1
  <2> HIDE DEF Rows
  <2> QED  BY <2>1, <2>2
<1>8. ASSUME NEW p \in B3!Pow2, p \in S  PROVE 2 * p \in S
  <2>0. p \in Power /\ Top \in Power /\ p \in Nat \ {0}  BY Powers
  <2>1. 2 * p \in Power
    <3>1. PICK k \in 0 .. Bits - 1 : p = B3!TwoTo[k]  BY DEF B3!Pow2
    <3>2. k + 1 \in 1 .. Bits /\ (k + 1) - 1 = k /\ k + 1 \in 0 .. Bits  BY TreeConstants
    <3>3. B3!TwoTo[k + 1] = 2 * p  BY <3>1, <3>2, TwoToIs
    <3> QED  BY <3>2, <3>3 DEF Power
  <2>2. ASSUME 2 * p <= h  PROVE \E g, w \in Power : Shape(2 * p, g, w) /\ Rows(2 * p, g, w)
    <3> HIDE DEF Rows
    <3>1. 2 * p <= Degree \/ 2 * p > Degree  BY <1>0, <2>0
    <3>2. CASE 2 * p > Degree
      <4> HIDE DEF S
      <4> QED  BY <1>6, <1>8, <2>2, <3>2
    <3>3. CASE 2 * p <= Degree
      <4> DEFINE k == 2 * p
      <4>1. k \in Power /\ k <= h /\ k <= Degree  BY <2>1, <2>2, <3>3
      <4> HIDE DEF k
      <4>2. \E g, w \in Power : Shape(k, g, w) /\ Rows(k, g, w)  BY <1>5, <4>1
      <4> QED  BY <4>2 DEF k
    <3> QED  BY <3>1, <3>2, <3>3
  <2> HIDE DEF Rows
  <2> QED  BY <2>1, <2>2
<1>9. \E g, w \in Power : Shape(h, g, w) /\ Rows(h, g, w)
  <2> HIDE DEF S
  <2>1. h \in S  BY <1>7, <1>8, PowerInduction
  <2> HIDE DEF Rows
  <2>2. h <= h  BY <1>0
  <2> QED  BY <2>1, <2>2 DEF S
<1>10. PICK g \in Power, w \in Power : Shape(h, g, w) /\ Rows(h, g, w)  BY <1>9
<1>11. t[Len(x)][0] = Row(n, g, w)
  <2>1. 0 \in 0 .. h - h /\ n + 0 = n  BY <1>0
  <2>2. t[Bytes(h)][Bytes(0)] = Row(n + 0, g, w)  BY <1>10, <2>1
  <2>3. Bytes(0) = 0  BY BytesOf
  <2> QED  BY <1>2, <2>1, <2>2, <2>3
<1> QED  BY <1>4, <1>10, <1>11 DEF x

\* A pass of `while (num_cvs > 2)' halves the row, and leaves a row of two.
LEMMA CondenseIs ==
    ASSUME NEW n \in Nat, NEW p \in B3!Pow2, n + 2 * p <= LastChunk, Degree \in Degrees,
           NEW g, NEW w, Shape(2 * p, g, w)
    PROVE  /\ w = 2 => g = p /\ B3!Condense(Row(n, g, w)) = Row(n, g, w)
           /\ w # 2 => \E v \in Power : /\ w = 2 * v
                                        /\ Shape(2 * p, 2 * g, v) /\ 2 * g \in Power
                                        /\ B3!Condense(Row(n, g, w)) = Row(n, 2 * g, v)
<1> DEFINE k == 2 * p
           l == Row(n, g, w)
<1>0. /\ p \in Nat \ {0} /\ g \in Power /\ w \in Power /\ g * w = k /\ w # 1
      /\ (w <= Degree \/ w <= 2) /\ LastChunk \in Nat /\ k \in Nat /\ k # 1
  <2>1. p \in Nat \ {0}  BY Powers
  <2>2. k \in Nat /\ k # 1  BY <2>1
  <2> QED  BY <2>1, <2>2, LastChunkIs DEF Shape
<1>1. g \in Nat \ {0} /\ w \in Nat \ {0}  BY <1>0, Powers
<1>2. w * g = k /\ n + k <= LastChunk
  <2>1. w * g = g * w  BY <1>1
  <2> QED  BY <1>0, <2>1
<1>3. Len(l) = w
  <2> HIDE DEF k
  <2>1. n + w * g <= LastChunk  BY <1>2
  <2> QED  BY <1>1, <2>1, RowIs
<1>4. CASE w = 2
  <2>1. g = p  BY <1>0, <1>1, <1>2, <1>4
  <2>2. B3!Condense(l) = l
    <3> HIDE DEF l
    <3> QED  BY <1>3, <1>4 DEF B3!Condense
  <2> QED  BY <1>4, <2>1, <2>2
<1>5. CASE w # 2
  <2>1. PICK v \in B3!Pow2 : w = 2 * v  BY <1>0, PowerHalf
  <2>2. v \in Power /\ v \in Nat \ {0}  BY Powers
  <2>3. v > 1 /\ w > 2 /\ v # 1 /\ v < w  BY <1>5, <2>1, <2>2
  <2>4. g < k /\ k < Top
    <3>1. w * g >= 1 * g + g
      <4>1. w \in Int /\ 1 \in Int /\ w > 1  BY <2>3, <1>1
      <4> QED  BY <1>1, <4>1, MultiplesApart
    <3>2. 1 * g = g /\ g \in Nat \ {0}  BY <1>1
    <3>3. k \in 0 .. LastChunk  BY <1>0, <1>2
    <3>4. k \in 0 .. Top - 1 /\ Top \in Nat  BY <3>3, LastChunkIs, ChunkLen
    <3> HIDE DEF k
    <3> QED  BY <1>0, <1>2, <3>1, <3>2, <3>4
  <2>5. 2 * g \in Power
    <3>1. Top \in Power /\ g < Top /\ Top \in Nat  BY <1>0, <1>1, <2>4, Powers, ChunkLen
    <3> QED  BY <1>0, <3>1, PowerLess
  <2>6. (2 * g) * v = k
    <3>1. (2 * g) * v = g * (2 * v)  BY <1>1, <2>2
    <3> QED  BY <1>0, <2>1, <3>1
  <2>7. Shape(k, 2 * g, v)
    <3>1. v <= Degree \/ v <= 2
      <4>1. CASE w <= 2  BY <2>3, <4>1, <1>1
      <4>2. CASE ~ (w <= 2)
        <5>1. w <= Degree  BY <1>0, <4>2
        <5>2. Degree \in Nat  BY TreeConstants, Powers
        <5> QED  BY <1>1, <2>2, <2>3, <5>1, <5>2
      <4> QED  BY <4>1, <4>2
    <3> HIDE DEF k
    <3> QED  BY <2>2, <2>3, <2>5, <2>6, <3>1 DEF Shape
  <2>8. B3!Condense(l) = B3!compress_parents_parallel(l)
    <3> HIDE DEF l
    <3> QED  BY <1>3, <2>3 DEF B3!Condense
  <2>9. B3!compress_parents_parallel(l) = Row(n, 2 * g, v)
    <3>1. n + (2 * v) * g <= LastChunk
      <4> HIDE DEF k
      <4> QED  BY <1>2, <2>1
    <3>2. B3!compress_parents_parallel(Row(n, g, 2 * v)) = Row(n, 2 * g, v)
      BY <1>0, <2>2, <3>1, ParentsAre
    <3> QED  BY <2>1, <3>2
  <2> HIDE DEF l
  <2> QED  BY <1>5, <2>1, <2>2, <2>5, <2>7, <2>8, <2>9 DEF l, k
<1> QED  BY <1>4, <1>5

\* The loop ends with the two halves, which are not yet joined.
LEMMA ParentNodeIs ==
    ASSUME NEW n \in Nat, NEW p \in B3!Pow2, n + 2 * p <= LastChunk, Degree \in Degrees
    PROVE  B3!compress_subtree_to_parent_node(Piece(Bytes(n), Bytes(2 * p)), n) = Row(n, p, 2)
<1> DEFINE input == Piece(Bytes(n), Bytes(2 * p))
           F(x) == B3!Condense(x)
           first == B3!blake3_compress_subtree_wide(input, n)
           hi == Degree
           Ok(i, x) == \E g, w \in Power : /\ Shape(2 * p, g, w) /\ x = Row(n, g, w)
                                           /\ w = 2 \/ w + i <= hi
           S == UNION {{Row(n, g, w) : g \in Power} : w \in Power}
           T == [i \in 0 .. hi |-> {x \in S : Ok(i, x)}]
           step == [i \in 0 + 1 .. hi |-> [x \in T[i - 1] |-> F(x)]]
           Is(f) == f = [i \in 0 .. hi |-> IF i = 0 THEN first ELSE F(f[i - 1])]
           condensed == CHOOSE f : Is(f)
<1>m. B3!compress_subtree_to_parent_node(input, n) = condensed[hi]
  <2> HIDE DEF input
  <2> QED  BY Zenon DEF B3!compress_subtree_to_parent_node
<1>b. hi \in Nat /\ hi \in Int /\ 2 * p \in Power /\ 2 * p # 1
  <2>1. hi \in Nat  BY TreeConstants, Powers
  <2>2. p \in Power /\ p \in Nat \ {0}  BY Powers
  <2>3. PICK k \in 0 .. Bits - 1 : p = B3!TwoTo[k]  BY DEF B3!Pow2
  <2>4. k + 1 \in 1 .. Bits /\ (k + 1) - 1 = k /\ k + 1 \in 0 .. Bits  BY TreeConstants
  <2>5. B3!TwoTo[k + 1] = 2 * p  BY <2>3, <2>4, TwoToIs
  <2>6. 2 * p \in Power  BY <2>4, <2>5 DEF Power
  <2> QED  BY <2>1, <2>2, <2>6
<1>s. \A i \in 0 .. hi : \A x : x \in T[i] <=> Ok(i, x)
  <2> TAKE i \in 0 .. hi
  <2> TAKE x
  <2>1. T[i] = {y \in S : Ok(i, y)}
    <3> HIDE DEF S, Ok
    <3> QED  OBVIOUS
  <2>2. Ok(i, x) => x \in S
    <3> SUFFICES ASSUME Ok(i, x) PROVE x \in S  OBVIOUS
    <3>1. PICK g \in Power, w \in Power : x = Row(n, g, w)  OBVIOUS
    <3> QED  BY <3>1
  <2> HIDE DEF S, Ok, T
  <2> QED  BY <2>1, <2>2
<1>1. ASSUME NEW i \in 0 + 1 .. hi, NEW x \in T[i - 1]  PROVE F(x) \in T[i]
  <2>i. i \in 0 .. hi /\ i - 1 \in 0 .. hi /\ i \in Nat /\ i # 0  BY <1>b
  <2>1. Ok(i - 1, x)
    <3> HIDE DEF T, Ok
    <3> QED  BY <1>1, <1>s, <2>i
  <2>2. PICK g \in Power, w \in Power : /\ Shape(2 * p, g, w) /\ x = Row(n, g, w)
                                        /\ w = 2 \/ w + (i - 1) <= hi
    BY <2>1
  <2>3. CASE w = 2
    <3>1. F(x) = Row(n, g, w)  BY <2>2, <2>3, CondenseIs
    <3>2. Ok(i, F(x))
      <4> HIDE DEF F
      <4> QED  BY <2>2, <2>3, <3>1
    <3> HIDE DEF T, Ok, F
    <3> QED  BY <1>s, <2>i, <3>2
  <2>4. CASE w # 2
    <3>1. PICK v \in Power : w = 2 * v /\ Shape(2 * p, 2 * g, v) /\ 2 * g \in Power
                             /\ F(x) = Row(n, 2 * g, v)
      BY <2>2, <2>4, CondenseIs
    <3>2. v \in Nat \ {0}  BY Powers
    <3>3. v + i <= hi
      <4>1. 2 * v + (i - 1) <= hi  BY <2>2, <2>4, <3>1
      <4> QED  BY <1>b, <2>i, <3>2, <4>1
    <3>4. Ok(i, F(x))
      <4> HIDE DEF F
      <4> QED  BY <3>1, <3>3
    <3> HIDE DEF T, Ok, F
    <3> QED  BY <1>s, <2>i, <3>4
  <2> QED  BY <2>3, <2>4
<1>2. first \in T[0]
  <2>1. n + 2 * p <= LastChunk  OBVIOUS
  <2> DEFINE h == 2 * p
  <2>2. h \in Power /\ n + h <= LastChunk /\ h # 1  BY <1>b, <2>1
  <2>3. PICK g \in Power, w \in Power :
           Shape(h, g, w) /\ B3!blake3_compress_subtree_wide(Piece(Bytes(n), Bytes(h)), n) = Row(n, g, w)
    <3> HIDE DEF h
    <3> QED  BY <2>2, WideRows
  <2>4. w \in Nat \ {0} /\ w # 1 /\ (w <= Degree \/ w <= 2)  BY <2>2, <2>3, Powers DEF Shape
  <2>5. w = 2 \/ w + 0 <= hi  BY <1>b, <2>4
  <2>6. Ok(0, first)
    <3>1. first = Row(n, g, w)  BY <2>3
    <3> HIDE DEF first, h
    <3> QED  BY <2>3, <2>5, <3>1 DEF h
  <2>7. 0 \in 0 .. hi  BY <1>b
  <2> HIDE DEF T, Ok, first
  <2> QED  BY <1>s, <2>6, <2>7
<1> HIDE DEF first
<1>3. PICK f : Iterates(f, 0, hi, S, T, first, step)
  <2>1. \A i \in 0 .. hi : T[i] \subseteq S
    <3> HIDE DEF S, Ok, hi
    <3> QED  OBVIOUS
  <2>2. \A i \in 0 + 1 .. hi : step[i] \in [T[i - 1] -> T[i]]
    <3> TAKE i \in 0 + 1 .. hi
    <3>1. step[i] = [x \in T[i - 1] |-> F(x)]
      <4> HIDE DEF T, F, hi
      <4> QED  OBVIOUS
    <3> HIDE DEF T, F, hi, step
    <3> QED  BY <1>1, <3>1
  <2>3. 0 \in Int /\ hi \in Int  BY <1>b
  <2> HIDE DEF T, S, hi, step
  <2>4. Steps(0, hi, S, T, first, step)  BY <1>2, <2>1, <2>2, <2>3 DEF Steps
  <2> QED  BY <2>4, StepFunction
<1>4. Is(f)
  <2> HIDE DEF S, hi, T, F
  <2>1. f \in [0 .. hi -> S]  BY <1>3 DEF Iterates
  <2>2. \A i \in 0 .. hi : f[i] = IF i = 0 THEN first ELSE step[i][f[i - 1]]  BY <1>3 DEF Iterates
  <2>3. \A i \in 0 .. hi : i # 0 => i \in 0 + 1 .. hi /\ i - 1 \in 0 .. hi  BY <1>b
  <2>4. \A i \in 0 .. hi : f[i] \in T[i]  BY <1>3 DEF Iterates
  <2>5. \A i \in 0 .. hi : i # 0 => step[i][f[i - 1]] = F(f[i - 1])  BY <2>3, <2>4
  <2> HIDE DEF step
  <2>6. f = [i \in 0 .. hi |-> f[i]]  BY <2>1
  <2>7. \A i \in 0 .. hi : f[i] = IF i = 0 THEN first ELSE F(f[i - 1])  BY <2>2, <2>5
  <2> QED  BY <2>6, <2>7
<1>5. Is(condensed)
  <2> HIDE DEF Is
  <2> QED  BY <1>4, Zenon
<1>6. Ok(hi, condensed[hi])
  <2> HIDE DEF S, hi, F, Ok, condensed
  <2> DEFINE M == {i \in 0 .. hi : condensed[i] \in T[i]}
  <2>1. 0 \in M
    <3>1. 0 \in 0 .. hi  BY <1>b
    <3>2. condensed[0] = first  BY <1>5, <3>1
    <3> HIDE DEF T
    <3> QED  BY <1>2, <3>1, <3>2
  <2>2. ASSUME NEW i \in 0 .. hi - 1, i \in M  PROVE i + 1 \in M
    <3>1. i + 1 \in 0 + 1 .. hi /\ (i + 1) - 1 = i /\ i + 1 \in 0 .. hi /\ i + 1 # 0  BY <1>b
    <3>2. condensed[i + 1] = F(condensed[i])  BY <1>5, <3>1
    <3> HIDE DEF T, Is
    <3>3. condensed[i] \in T[(i + 1) - 1]  BY <2>2, <3>1
    <3>4. F(condensed[i]) \in T[i + 1]  BY <1>1, <3>1, <3>3
    <3> QED  BY <3>1, <3>2, <3>4
  <2>3. 0 \in Int /\ hi \in Int /\ hi \in 0 .. hi  BY <1>b
  <2>4. condensed[hi] \in T[hi]
    <3> HIDE DEF M
    <3>1. \A i \in 0 .. hi : i \in M  BY <2>1, <2>2, <2>3, IntervalInduction
    <3> HIDE DEF T
    <3> QED  BY <2>3, <3>1 DEF M
  <2> HIDE DEF T, Is
  <2> QED  BY <1>s, <2>3, <2>4
<1> HIDE DEF condensed
<1>7. PICK g \in Power, w \in Power : /\ Shape(2 * p, g, w) /\ condensed[hi] = Row(n, g, w)
                                      /\ w = 2 \/ w + hi <= hi
  BY <1>6
<1>8. w = 2
  <2>1. w \in Nat \ {0}  BY Powers
  <2> QED  BY <1>b, <1>7, <2>1
<1>9. g = p  BY <1>7, <1>8, CondenseIs
<1> QED  BY <1>m, <1>7, <1>8, <1>9 DEF input

LEMMA PowerDouble == \A p \in B3!Pow2 : 2 * p \in Power
<1> SUFFICES ASSUME NEW p \in B3!Pow2 PROVE 2 * p \in Power  OBVIOUS
<1>1. PICK k \in 0 .. Bits - 1 : p = B3!TwoTo[k]  BY DEF B3!Pow2
<1>2. k + 1 \in 1 .. Bits /\ (k + 1) - 1 = k /\ k + 1 \in 0 .. Bits  BY TreeConstants
<1>3. B3!TwoTo[k + 1] = 2 * p  BY <1>1, <1>2, TwoToIs
<1> QED  BY <1>2, <1>3 DEF Power

\* The next subtree is a power of two of chunks that divides those before it.
LEMMA SubtreeLenIs ==
    ASSUME NEW n \in Nat, NEW len \in Nat, CHUNK_LEN <= len, len <= MaxTree
    PROVE  \E h \in B3!Pow2 : /\ B3!SubtreeLen(len, n) = Bytes(h)
                              /\ Divides(h, n) /\ Bytes(h) <= len
<1> DEFINE most == B3!round_down_to_power_of_2(len)
           Fits(m) == {p \in B3!Pow2 : p <= m /\ (n * CHUNK_LEN) % p = 0}
           fits == Fits(most)
           p == CHOOSE x \in fits : \A q \in fits : q <= x
<1>0. /\ CHUNK_LEN \in Nat \ {0} /\ MaxTree \in Nat /\ Top \in Nat /\ MaxTree < Top
      /\ CHUNK_LEN \in B3!Pow2 /\ CHUNK_LEN \in Power /\ B3!Pow2 \subseteq Nat \ {0}
  BY ChunkLen, TreeConstants, Powers
<1>1. B3!SubtreeLen(len, n) = p  BY Zenon DEF B3!SubtreeLen
<1>2. most \in B3!Pow2 /\ most <= len /\ len < 2 * most /\ most \in Nat \ {0} /\ most \in Power
  <2>1. len \in 1 .. Top - 1  BY <1>0
  <2> QED  BY <2>1, RoundDown, Powers
<1> HIDE DEF most
<1>3. CHUNK_LEN \in fits
  <2>1. CHUNK_LEN <= most
    <3> SUFFICES ASSUME most < CHUNK_LEN PROVE FALSE  BY <1>0, <1>2
    <3>1. 2 * most <= CHUNK_LEN  BY <1>0, <1>2, PowerLess
    <3> QED  BY <1>0, <1>2, <3>1
  <2>2. (n * CHUNK_LEN) % CHUNK_LEN = 0
    <3> DEFINE x == n * CHUNK_LEN
    <3>1. x \in Int /\ 0 \in 0 .. CHUNK_LEN - 1 /\ x = n * CHUNK_LEN + 0 /\ n \in Int  BY <1>0
    <3> HIDE DEF x
    <3>2. x % CHUNK_LEN = 0  BY <1>0, <3>1, ModUnique
    <3> QED  BY <3>2 DEF x
  <2> QED  BY <1>0, <2>1, <2>2
<1>4. p \in fits /\ \A q \in fits : q <= p
  <2>1. fits \subseteq 0 .. most
    <3>1. \A q \in fits : q \in B3!Pow2 /\ q <= most  BY Zenon
    <3> HIDE DEF fits
    <3>2. \A q \in fits : q \in Nat /\ q <= most  BY <1>0, <3>1
    <3> QED  BY <1>2, <3>2
  <2> HIDE DEF fits
  <2>2. \E x \in fits : \A q \in fits : q <= x
    <3>1. most \in Nat  BY <1>2
    <3> QED  BY <1>3, <2>1, <3>1, LargestExists
  <2> QED  BY <2>2, Zenon
<1> HIDE DEF p
<1>5. p \in B3!Pow2 /\ p <= most /\ (n * CHUNK_LEN) % p = 0 /\ CHUNK_LEN <= p /\ p \in Power
      /\ p \in Nat \ {0}
  BY <1>3, <1>4, Powers
<1>6. p < Top /\ p <= len  BY <1>0, <1>2, <1>5
<1>7. PICK h \in Power : p = Bytes(h)  BY <1>5, PowerOfChunks
<1>8. h \in B3!Pow2 /\ h \in Nat \ {0}  BY <1>6, <1>7, PowerOfChunks, Powers
<1>9. Divides(h, n)
  <2>1. Divides(p, Bytes(n))
    <3>1. Bytes(n) \in Nat /\ Bytes(n) % p = 0  BY <1>5, BytesOf DEF Bytes
    <3> QED  BY <1>5, <3>1, DividesMod
  <2>2. PICK k \in Nat : Bytes(n) = k * p  BY <2>1 DEF Divides
  <2>3. k * p = Bytes(k * h)
    <3>1. k * (h * CHUNK_LEN) = (k * h) * CHUNK_LEN  BY <1>0, <1>8
    <3> QED  BY <1>7, <3>1 DEF Bytes
  <2> DEFINE m == k * h
  <2>4. m \in Nat  BY <1>8
  <2>5. Bytes(n) = Bytes(m)  BY <2>2, <2>3
  <2> HIDE DEF m
  <2>6. n = m
    <3>1. Bytes(n) \in Nat /\ Bytes(m) \in Nat  BY <2>4, BytesOf
    <3>2. n < m => Bytes(n) + CHUNK_LEN <= Bytes(m)  BY <2>4, BytesOf
    <3>3. m < n => Bytes(m) + CHUNK_LEN <= Bytes(n)  BY <2>4, BytesOf
    <3> QED  BY <1>0, <2>4, <2>5, <3>1, <3>2, <3>3
  <2> QED  BY <2>6 DEF Divides, m
<1> QED  BY <1>1, <1>6, <1>7, <1>8, <1>9

-----------------------------------------------------------------------------
(* Updates *)

\* The stacks of n chunks with at least two subtrees.
Open(n) == {Pending(n - h, h) : h \in {x \in OnTop(n) : x < n}}

\* The hasher with n chunks done, of a message that ends at byte e.
Held(n, s, e) ==
    [c |-> B3!chunk_state_reset(n), s |-> s, input |-> Piece(Bytes(n), e - Bytes(n))]

LEMMA SkipChunks ==
    ASSUME NEW n \in Nat, NEW k \in Nat
    PROVE  [B3!chunk_state_reset(n) EXCEPT !.chunk_counter = @ + k] = B3!chunk_state_reset(n + k)
BY DEF B3!chunk_state_reset

\* A pass of the loop takes k chunks off the input.
LEMMA PushIs ==
    ASSUME NEW n \in Nat, NEW e \in 0 .. MaxTree, e - Bytes(n) > CHUNK_LEN,
           NEW s \in Stacks(n), Degree \in Degrees
    PROVE  \E k \in Nat \ {0} : \E u \in Stacks(n + k) :
              /\ Bytes(n + k) <= e
              /\ B3!PushSubtree(Held(n, s, e)) = Held(n + k, u, e)
              /\ Bytes(n + k) = e => u \in Open(n + k)
<1> DEFINE x == Held(n, s, e)
           r == e - Bytes(n)
           input == Piece(Bytes(n), r)
           Then(len) ==
             LET part == SubSeq(input, 1, len)
                 chunks == len \div CHUNK_LEN
                 pair == B3!compress_subtree_to_parent_node(part, n)
             IN  [c |-> [B3!chunk_state_reset(n) EXCEPT !.chunk_counter = @ + chunks],
                  s |-> IF len <= CHUNK_LEN
                        THEN B3!hasher_push_cv(s, B3!ChunkCv(part, n), n)
                        ELSE B3!hasher_push_cv(B3!hasher_push_cv(s, pair[1], n),
                                               pair[2], n + chunks \div 2),
                  input |-> SubSeq(input, len + 1, Len(input))]
<1>0. /\ CHUNK_LEN \in Nat \ {0} /\ MaxTree \in Nat /\ Bytes(n) \in Nat
      /\ r \in Nat /\ Bytes(n) + r = e /\ r <= MaxTree /\ e \in Nat /\ r > CHUNK_LEN
      /\ LastChunk \in Nat
  <2>1. CHUNK_LEN \in Nat \ {0} /\ MaxTree \in Nat /\ Bytes(n) \in Nat /\ LastChunk \in Nat
    BY ChunkLen, BytesOf, LastChunkIs
  <2> QED  BY <2>1
<1> HIDE DEF r
<1>1. Len(input) = r /\ input = Piece(Bytes(n), r)  BY <1>0, PieceIs
<1>2. x.c = B3!chunk_state_reset(n) /\ x.s = s /\ x.input = input
  <2>1. x = [c |-> B3!chunk_state_reset(n), s |-> s, input |-> input]  BY Zenon DEF Held, r
  <2> HIDE DEF x, input
  <2> QED  BY <2>1
<1>3. x.c.chunk_counter = n  BY <1>2 DEF B3!chunk_state_reset
<1>4. B3!PushSubtree(x) = Then(B3!SubtreeLen(r, n))
  <2> HIDE DEF x, input
  <2>1. ~ (Len(x.input) <= CHUNK_LEN)  BY <1>0, <1>1, <1>2
  <2>2. B3!PushSubtree(x) =
             LET len == B3!SubtreeLen(Len(x.input), x.c.chunk_counter)
                 part == SubSeq(x.input, 1, len)
                 counter == x.c.chunk_counter
                 chunks == len \div CHUNK_LEN
                 pair == B3!compress_subtree_to_parent_node(part, counter)
             IN  [c |-> [x.c EXCEPT !.chunk_counter = @ + chunks],
                  s |-> IF len <= CHUNK_LEN
                        THEN B3!hasher_push_cv(x.s, B3!ChunkCv(part, counter), counter)
                        ELSE B3!hasher_push_cv(B3!hasher_push_cv(x.s, pair[1], counter),
                                               pair[2], counter + chunks \div 2),
                  input |-> SubSeq(x.input, len + 1, Len(x.input))]
    BY <2>1, Zenon DEF B3!PushSubtree
  <2> QED  BY <1>1, <1>2, <1>3, <2>2, Zenon
<1>5. PICK h \in B3!Pow2 : B3!SubtreeLen(r, n) = Bytes(h) /\ Divides(h, n) /\ Bytes(h) <= r
  BY <1>0, SubtreeLenIs
<1>6. h \in Nat \ {0} /\ h \in Power /\ 1 \in Power  BY Powers
<1> DEFINE len == Bytes(h)
<1>7. len \in Nat /\ len \div CHUNK_LEN = h /\ Bytes(n + h) = Bytes(n) + len
  <2>1. h \in Nat  BY <1>6
  <2> QED  BY <2>1, BytesOf
<1>8. n + h \in Nat /\ n + h <= LastChunk /\ Bytes(n + h) <= e
  <2>1. n + h \in Nat  BY <1>6
  <2>2. Bytes(n + h) <= e
    <3> HIDE DEF len
    <3> QED  BY <1>0, <1>5, <1>7 DEF len
  <2>3. Bytes(n + h) \in Nat  BY <2>1, BytesOf
  <2>4. Bytes(n + h) <= MaxTree  BY <1>0, <2>2, <2>3
  <2> QED  BY <2>1, <2>2, <2>4, LastChunkIs
<1> DEFINE part == SubSeq(input, 1, len)
           pair == B3!compress_subtree_to_parent_node(part, n)
           u == IF len <= CHUNK_LEN
                THEN B3!hasher_push_cv(s, B3!ChunkCv(part, n), n)
                ELSE B3!hasher_push_cv(B3!hasher_push_cv(s, pair[1], n), pair[2], n + h \div 2)
<1>9. part = Piece(Bytes(n), len) /\ SubSeq(input, len + 1, Len(input)) = Piece(Bytes(n + h), e - Bytes(n + h))
  <2> HIDE DEF len, input
  <2>1. 0 \in 0 .. r /\ len \in 0 .. r /\ len \in 0 .. r /\ r \in len .. r
    BY <1>0, <1>5, <1>7 DEF len
  <2>2. SubSeq(Piece(Bytes(n), r), 0 + 1, len) = Piece(Bytes(n) + 0, len - 0)
    BY <1>0, <2>1, PieceWithin
  <2>3. SubSeq(Piece(Bytes(n), r), len + 1, r) = Piece(Bytes(n) + len, r - len)
    BY <1>0, <2>1, PieceWithin
  <2>4. 0 + 1 = 1 /\ Bytes(n) + 0 = Bytes(n) /\ len - 0 = len /\ e - Bytes(n + h) = r - len
    <3> DEFINE y == Bytes(n)
               z == Bytes(n + h)
    <3>1. z = y + len /\ y + r = e /\ y \in Nat /\ r \in Nat /\ len \in Nat  BY <1>0, <1>7
    <3> HIDE DEF y, z
    <3>2. e - z = r - len /\ y + 0 = y /\ len - 0 = len  BY <3>1
    <3> QED  BY <3>2 DEF y, z
  <2>5. SubSeq(input, 1, len) = Piece(Bytes(n), len)  BY <1>1, <2>2, <2>4
  <2>6. SubSeq(input, len + 1, Len(input)) = Piece(Bytes(n + h), e - Bytes(n + h))
    BY <1>1, <1>7, <2>3, <2>4
  <2> QED  BY <2>5, <2>6
<1>10. B3!PushSubtree(x) = Held(n + h, u, e)
  <2> DEFINE c0 == B3!chunk_state_reset(n)
             v(k) == IF len <= CHUNK_LEN
                     THEN B3!hasher_push_cv(s, B3!ChunkCv(part, n), n)
                     ELSE B3!hasher_push_cv(B3!hasher_push_cv(s, pair[1], n), pair[2], n + k \div 2)
             q == SubSeq(input, len + 1, Len(input))
             Form(k) == [c |-> [c0 EXCEPT !.chunk_counter = @ + k], s |-> v(k), input |-> q]
  <2>1. Then(len) = Form(len \div CHUNK_LEN)
    <3> HIDE DEF len, input
    <3> QED  BY Zenon
  <2>2. Form(len \div CHUNK_LEN) = Form(h)
    <3> HIDE DEF Form, len
    <3> QED  BY <1>7
  <2>3. B3!PushSubtree(x) = Then(len)
    <3> HIDE DEF Then, len
    <3> QED  BY <1>4, <1>5 DEF len
  <2>4. [c0 EXCEPT !.chunk_counter = @ + h] = B3!chunk_state_reset(n + h)
    <3>1. h \in Nat  BY <1>6
    <3> QED  BY <3>1, SkipChunks
  <2>5. v(h) = u  OBVIOUS
  <2>6. q = Piece(Bytes(n + h), e - Bytes(n + h))  BY <1>9
  <2>7. Form(h) = [c |-> [c0 EXCEPT !.chunk_counter = @ + h], s |-> v(h), input |-> q]  OBVIOUS
  <2>8. Held(n + h, u, e) = [c |-> B3!chunk_state_reset(n + h), s |-> u,
                             input |-> Piece(Bytes(n + h), e - Bytes(n + h))]
    BY Zenon DEF Held
  <2> HIDE DEF c0, v, q, Form, Then, x, u
  <2> QED  BY <2>1, <2>2, <2>3, <2>4, <2>5, <2>6, <2>7, <2>8
<1>11. ASSUME h = 1  PROVE u \in Stacks(n + h) /\ Bytes(n + h) # e
  <2>1. len = CHUNK_LEN  BY <1>11, BytesOf
  <2>2. B3!ChunkCv(part, n) = B3!Subtree(n, 1)
    <3>1. CHUNK_LEN \in 0 .. CHUNK_LEN /\ CHUNK_LEN <= MaxTree  BY <1>0
    <3>2. B3!ChunkCv(Piece(Bytes(n), CHUNK_LEN), n) = B3!output_chaining_value(B3!Tree[CHUNK_LEN][Bytes(n)])
      BY <3>1, ChunkCvIs
    <3>3. B3!Subtree(n, 1) = B3!output_chaining_value(B3!Tree[CHUNK_LEN][Bytes(n)])
      BY SubtreeIs, BytesOf
    <3>4. part = Piece(Bytes(n), CHUNK_LEN)  BY <1>9, <2>1
    <3> HIDE DEF part
    <3> QED  BY <3>2, <3>3, <3>4
  <2>3. u = B3!hasher_push_cv(s, B3!Subtree(n, 1), n)
    <3>1. len <= CHUNK_LEN  BY <1>0, <2>1
    <3> HIDE DEF len, part, pair
    <3> QED  BY <2>2, <3>1
  <2>4. Divides(1, n)  BY DividesSelf
  <2>5. B3!hasher_push_cv(s, B3!Subtree(n, 1), n) = Pending(n, 1) /\ Pending(n, 1) \in Stacks(n + 1)
    BY <1>6, <1>8, <1>11, <2>4, Pushed
  <2>6. Bytes(n + h) # e
    <3> HIDE DEF len
    <3> QED  BY <1>0, <1>7, <2>1
  <2> HIDE DEF u
  <2> QED  BY <1>11, <2>3, <2>5, <2>6
<1>12. ASSUME h # 1  PROVE u \in Stacks(n + h) /\ u \in Open(n + h)
  <2>1. PICK p \in B3!Pow2 : h = 2 * p  BY <1>6, <1>12, PowerHalf
  <2>2. p \in Nat \ {0} /\ p \in Power /\ n + p \in Nat /\ n + p <= LastChunk /\ h \div 2 = p
        /\ (n + p) + p = n + h /\ n + 2 * p <= LastChunk
    <3>1. p \in Nat \ {0} /\ p \in Power  BY Powers
    <3> QED  BY <1>0, <1>8, <2>1, <3>1
  <2>3. ~ (len <= CHUNK_LEN)
    <3>1. 1 < h  BY <1>6, <1>12
    <3>2. Bytes(1) + CHUNK_LEN <= Bytes(h) /\ Bytes(1) = CHUNK_LEN
      <4>1. 1 \in Nat /\ h \in Nat  BY <1>6
      <4> QED  BY <3>1, <4>1, BytesOf
    <3> HIDE DEF len
    <3> QED  BY <1>0, <1>7, <3>2 DEF len
  <2>4. pair[1] = B3!Subtree(n, p) /\ pair[2] = B3!Subtree(n + p, p)
    <3>1. B3!compress_subtree_to_parent_node(Piece(Bytes(n), Bytes(2 * p)), n) = Row(n, p, 2)
      BY <2>2, ParentNodeIs
    <3>2. pair = Row(n, p, 2)
      <4> HIDE DEF part
      <4> QED  BY <1>9, <2>1, <3>1
    <3> HIDE DEF pair
    <3>3. \A j \in 1 .. 2 : Row(n, p, 2)[j] = B3!Subtree(n + (j - 1) * p, p)
      <4>1. n + 2 * p <= LastChunk /\ p \in Nat  BY <2>2
      <4> QED  BY <4>1, RowIs
    <3>4. Row(n, p, 2)[1] = B3!Subtree(n + (1 - 1) * p, p) /\ Row(n, p, 2)[2] = B3!Subtree(n + (2 - 1) * p, p)
      BY <3>3
    <3>5. n + (1 - 1) * p = n /\ n + (2 - 1) * p = n + p  BY <2>2
    <3> QED  BY <3>2, <3>4, <3>5
  <2>5. Divides(p, h) /\ Divides(p, n) /\ Divides(p, n + p)
    <3>1. Divides(p, h)
      <4>1. h = 2 * p /\ 2 \in Nat  BY <2>1
      <4> QED  BY <4>1 DEF Divides
    <3>2. Divides(p, n)
      <4>1. p \in Nat /\ h \in Nat  BY <1>6, <2>2
      <4> QED  BY <1>5, <3>1, <4>1, DividesTransitive
    <3>3. Divides(p, p)  BY <2>2, DividesSelf
    <3> QED  BY <2>2, <3>1, <3>2, <3>3, DividesSum
  <2>6. B3!hasher_push_cv(s, B3!Subtree(n, p), n) = Pending(n, p) /\ Pending(n, p) \in Stacks(n + p)
    BY <2>2, <2>5, Pushed
  <2>7. B3!hasher_push_cv(Pending(n, p), B3!Subtree(n + p, p), n + p) = Pending(n + p, p)
        /\ Pending(n + p, p) \in Stacks((n + p) + p)
    <3> DEFINE m == n + p
               w == Pending(n, p)
    <3>1. m \in Nat /\ m + p <= LastChunk /\ Divides(p, m) /\ w \in Stacks(m)
      BY <1>8, <2>2, <2>5, <2>6
    <3> HIDE DEF m, w
    <3>2. B3!hasher_push_cv(w, B3!Subtree(m, p), m) = Pending(m, p) /\ Pending(m, p) \in Stacks(m + p)
      BY <2>2, <3>1, Pushed
    <3> QED  BY <3>2 DEF m, w
  <2>8. u = Pending(n + p, p)
    <3> HIDE DEF len, pair, part
    <3> QED  BY <2>2, <2>3, <2>4, <2>6, <2>7
  <2>9. Pending(n + p, p) \in Open(n + h)
    <3> DEFINE m == n + h
    <3>1. m - p = n + p /\ p < m /\ p <= m /\ m \in Nat  BY <1>8, <2>1, <2>2
    <3>2. Divides(p, m)
      <4>1. Divides(p, (n + p) + p)
        <5>1. Divides(p, p)  BY <2>2, DividesSelf
        <5> QED  BY <2>2, <2>5, <5>1, DividesSum
      <4> QED  BY <2>2, <4>1
    <3> HIDE DEF m
    <3>3. p \in OnTop(m)  BY <2>2, <3>1, <3>2 DEF OnTop
    <3>4. Pending(m - p, p) \in Open(m)  BY <3>1, <3>3 DEF Open
    <3>5. Pending(n + p, p) \in Open(m)  BY <3>1, <3>4
    <3> QED  BY <3>5 DEF m
  <2> HIDE DEF u
  <2> QED  BY <2>2, <2>7, <2>8, <2>9
<1> HIDE DEF u, x
<1> QED  BY <1>6, <1>8, <1>10, <1>11, <1>12 DEF x

LEMMA HeldInput ==
    ASSUME NEW n \in Nat, NEW e \in Nat, Bytes(n) <= e, NEW s
    PROVE  /\ Held(n, s, e).input = Piece(Bytes(n), e - Bytes(n)) /\ Held(n, s, e).s = s
           /\ Held(n, s, e).c = B3!chunk_state_reset(n)
           /\ Len(Held(n, s, e).input) = e - Bytes(n)
           /\ Held(n, s, e).input = <<>> <=> e = Bytes(n)
<1> DEFINE r == e - Bytes(n)
<1>1. Bytes(n) \in Nat /\ r \in Nat /\ (r = 0 <=> e = Bytes(n))
  <2>1. Bytes(n) \in Nat  BY BytesOf
  <2> QED  BY <2>1
<1> HIDE DEF r
<1>2. Len(Piece(Bytes(n), r)) = r /\ (Piece(Bytes(n), r) = <<>> <=> r = 0)  BY <1>1, PieceIs
<1>3. Held(n, s, e) = [c |-> B3!chunk_state_reset(n), s |-> s, input |-> Piece(Bytes(n), r)]
  BY Zenon DEF Held, r
<1>4. Held(n, s, e).input = Piece(Bytes(n), r) /\ Held(n, s, e).s = s
      /\ Held(n, s, e).c = B3!chunk_state_reset(n)
  BY <1>3
<1> QED  BY <1>1, <1>2, <1>4 DEF r

\* The loop ends with at most a chunk of input, and with two subtrees on the
\* stack when nothing is left of it.
LEMMA PushesAre ==
    ASSUME NEW n \in Nat, NEW e \in 0 .. MaxTree, Bytes(n) <= e,
           NEW s \in Stacks(n), e = Bytes(n) => s \in Open(n), Degree \in Degrees
    PROVE  \E m \in Nat : \E u \in Stacks(m) :
              /\ B3!PushSubtrees(Held(n, s, e)) = Held(m, u, e)
              /\ Bytes(m) <= e /\ e - Bytes(m) <= CHUNK_LEN
              /\ e = Bytes(m) => u \in Open(m)
<1> DEFINE first == Held(n, s, e)
           F(x) == B3!PushSubtree(x)
           hi == (e - Bytes(n)) \div CHUNK_LEN
           Sound(m, u) == /\ u \in Stacks(m) /\ Bytes(m) <= e
                          /\ e = Bytes(m) => u \in Open(m)
           Ok(i, x) == \E m \in Nat : \E u \in Stacks(m) :
                          /\ x = Held(m, u, e) /\ Sound(m, u)
                          /\ e - Bytes(m) <= CHUNK_LEN \/ n + i <= m
           S == UNION {{Held(m, u, e) : u \in Stacks(m)} : m \in Nat}
           T == [i \in 0 .. hi |-> {x \in S : Ok(i, x)}]
           step == [i \in 0 + 1 .. hi |-> [x \in T[i - 1] |-> F(x)]]
           Is(f, k) == f = [i \in 0 .. k |-> IF i = 0 THEN first ELSE F(f[i - 1])]
           pushed == CHOOSE f : Is(f, hi)
<1>0. /\ CHUNK_LEN \in Nat \ {0} /\ Bytes(n) \in Nat /\ e \in Nat /\ e - Bytes(n) \in Nat
      /\ MaxTree \in Nat
  <2>1. Bytes(n) \in Nat /\ CHUNK_LEN \in Nat \ {0} /\ MaxTree \in Nat  BY BytesOf, ChunkLen
  <2> QED  BY <2>1
<1>b. hi \in Nat /\ hi \in Int /\ e - Bytes(n) < Bytes(hi) + CHUNK_LEN
  <2> DEFINE y == e - Bytes(n)
             r == y % CHUNK_LEN
  <2>1. y \in Nat  BY <1>0
  <2> HIDE DEF y
  <2>2. hi = y \div CHUNK_LEN  BY DEF y
  <2>3. hi \in Int /\ r \in 0 .. CHUNK_LEN - 1 /\ y = hi * CHUNK_LEN + r
    <3>1. y \in Int  BY <2>1
    <3>2. y \div CHUNK_LEN \in Int /\ y % CHUNK_LEN \in 0 .. CHUNK_LEN - 1
          /\ y = (y \div CHUNK_LEN) * CHUNK_LEN + (y % CHUNK_LEN)
      BY <1>0, <3>1, DivMod
    <3> QED  BY <2>2, <3>2
  <2>4. hi \in Nat  BY <1>0, <2>1, <2>2
  <2> HIDE DEF hi, r
  <2>5. Bytes(hi) = hi * CHUNK_LEN /\ Bytes(hi) \in Nat  BY <2>4, BytesOf DEF Bytes
  <2>6. y = Bytes(hi) + r  BY <2>3, <2>5
  <2> QED  BY <1>0, <2>3, <2>4, <2>5, <2>6 DEF y
<1>m. B3!PushSubtrees(first) = pushed[hi]
  <2> DEFINE k == Len(first.input) \div CHUNK_LEN
             End(j) == (CHOOSE f : Is(f, j))[j]
  <2>1. B3!PushSubtrees(first) = End(k)
    <3> HIDE DEF first
    <3> QED  BY Zenon DEF B3!PushSubtrees
  <2>2. k = hi
    <3>1. Len(first.input) = e - Bytes(n)  BY <1>0, HeldInput
    <3> HIDE DEF first
    <3> QED  BY <3>1
  <2>3. End(hi) = pushed[hi]  OBVIOUS
  <2> HIDE DEF End, k, hi, first, pushed
  <2> QED  BY <2>1, <2>2, <2>3
<1> HIDE DEF hi
<1>s. \A i \in 0 .. hi : \A x : x \in T[i] <=> Ok(i, x)
  <2> TAKE i \in 0 .. hi
  <2> TAKE x
  <2>1. T[i] = {y \in S : Ok(i, y)}
    <3> HIDE DEF S, Ok
    <3> QED  OBVIOUS
  <2>2. Ok(i, x) => x \in S
    <3> SUFFICES ASSUME Ok(i, x) PROVE x \in S  OBVIOUS
    <3>1. PICK m \in Nat : \E u \in Stacks(m) : x = Held(m, u, e)  OBVIOUS
    <3>2. PICK u \in Stacks(m) : x = Held(m, u, e)  BY <3>1
    <3> QED  BY <3>2
  <2> HIDE DEF S, Ok, T
  <2> QED  BY <2>1, <2>2
<1>1. ASSUME NEW i \in 0 + 1 .. hi, NEW x \in T[i - 1]  PROVE F(x) \in T[i]
  <2>i. i \in 0 .. hi /\ i - 1 \in 0 .. hi /\ i \in Nat /\ i # 0  BY <1>b
  <2>1. Ok(i - 1, x)
    <3> HIDE DEF T, Ok
    <3> QED  BY <1>1, <1>s, <2>i
  <2>2. PICK m \in Nat : \E u \in Stacks(m) :
                          /\ x = Held(m, u, e) /\ Sound(m, u)
                          /\ e - Bytes(m) <= CHUNK_LEN \/ n + (i - 1) <= m
    BY <2>1
  <2>3. PICK u \in Stacks(m) : /\ x = Held(m, u, e) /\ Sound(m, u)
                               /\ e - Bytes(m) <= CHUNK_LEN \/ n + (i - 1) <= m
    BY <2>2
  <2>4. Bytes(m) \in Nat /\ Bytes(m) <= e  BY <2>3, BytesOf
  <2>5. CASE e - Bytes(m) <= CHUNK_LEN
    <3>1. F(x) = x
      <4>1. Len(Held(m, u, e).input) = e - Bytes(m)  BY <1>0, <2>4, HeldInput
      <4>2. Len(x.input) <= CHUNK_LEN  BY <2>3, <2>5, <4>1
      <4> QED  BY <4>2 DEF B3!PushSubtree
    <3>2. Ok(i, F(x))
      <4> HIDE DEF F, Sound
      <4> QED  BY <2>3, <2>5, <3>1
    <3> HIDE DEF T, Ok, F
    <3> QED  BY <1>s, <2>i, <3>2
  <2>6. CASE ~ (e - Bytes(m) <= CHUNK_LEN)
    <3>0. e - Bytes(m) > CHUNK_LEN  BY <1>0, <2>4, <2>6
    <3>1. PICK k \in Nat \ {0} : \E w \in Stacks(m + k) :
              /\ Bytes(m + k) <= e
              /\ B3!PushSubtree(Held(m, u, e)) = Held(m + k, w, e)
              /\ Bytes(m + k) = e => w \in Open(m + k)
      BY <3>0, PushIs
    <3>2. PICK w \in Stacks(m + k) :
              /\ Bytes(m + k) <= e
              /\ B3!PushSubtree(Held(m, u, e)) = Held(m + k, w, e)
              /\ Bytes(m + k) = e => w \in Open(m + k)
      BY <3>1
    <3> DEFINE q == m + k
    <3>3. q \in Nat /\ n + i <= q
      <4>1. n + (i - 1) <= m  BY <2>3, <2>6
      <4> QED  BY <2>i, <4>1
    <3>4. w \in Stacks(q) /\ F(x) = Held(q, w, e) /\ Sound(q, w)
      <4>1. w \in Stacks(q)  OBVIOUS
      <4>2. F(x) = Held(q, w, e)  BY <2>3, <3>2
      <4>3. Bytes(q) <= e /\ (e = Bytes(q) => w \in Open(q))  BY <3>2
      <4> HIDE DEF q, F
      <4> QED  BY <4>1, <4>2, <4>3
    <3>5. Ok(i, F(x))
      <4> HIDE DEF F, Sound, q
      <4> QED  BY <3>3, <3>4
    <3> HIDE DEF T, Ok, F
    <3> QED  BY <1>s, <2>i, <3>5
  <2> QED  BY <2>5, <2>6
<1>2. first \in T[0]
  <2>1. Sound(n, s) /\ n + 0 <= n  BY <1>0
  <2>2. Ok(0, first)
    <3> HIDE DEF Sound
    <3> QED  BY <2>1
  <2>3. 0 \in 0 .. hi  BY <1>b
  <2> HIDE DEF T, Ok, first
  <2> QED  BY <1>s, <2>2, <2>3
<1> HIDE DEF first
<1>3. PICK f : Iterates(f, 0, hi, S, T, first, step)
  <2>1. \A i \in 0 .. hi : T[i] \subseteq S
    <3> HIDE DEF S, Ok
    <3> QED  OBVIOUS
  <2>2. \A i \in 0 + 1 .. hi : step[i] \in [T[i - 1] -> T[i]]
    <3> TAKE i \in 0 + 1 .. hi
    <3>1. step[i] = [x \in T[i - 1] |-> F(x)]
      <4> HIDE DEF T, F
      <4> QED  OBVIOUS
    <3> HIDE DEF T, F, step
    <3> QED  BY <1>1, <3>1
  <2>3. 0 \in Int /\ hi \in Int  BY <1>b
  <2> HIDE DEF T, S, step
  <2>4. Steps(0, hi, S, T, first, step)  BY <1>2, <2>1, <2>2, <2>3 DEF Steps
  <2> QED  BY <2>4, StepFunction
<1>4. Is(f, hi)
  <2> HIDE DEF S, T, F
  <2>1. f \in [0 .. hi -> S]  BY <1>3 DEF Iterates
  <2>2. \A i \in 0 .. hi : f[i] = IF i = 0 THEN first ELSE step[i][f[i - 1]]  BY <1>3 DEF Iterates
  <2>3. \A i \in 0 .. hi : i # 0 => i \in 0 + 1 .. hi /\ i - 1 \in 0 .. hi  BY <1>b
  <2>4. \A i \in 0 .. hi : f[i] \in T[i]  BY <1>3 DEF Iterates
  <2>5. \A i \in 0 .. hi : i # 0 => step[i][f[i - 1]] = F(f[i - 1])  BY <2>3, <2>4
  <2> HIDE DEF step
  <2>6. f = [i \in 0 .. hi |-> f[i]]  BY <2>1
  <2>7. \A i \in 0 .. hi : f[i] = IF i = 0 THEN first ELSE F(f[i - 1])  BY <2>2, <2>5
  <2> QED  BY <2>6, <2>7
<1>5. Is(pushed, hi)
  <2> HIDE DEF Is
  <2> QED  BY <1>4, Zenon
<1>6. Ok(hi, pushed[hi])
  <2> HIDE DEF S, F, Ok, pushed
  <2> DEFINE M == {i \in 0 .. hi : pushed[i] \in T[i]}
  <2>1. 0 \in M
    <3>1. 0 \in 0 .. hi  BY <1>b
    <3>2. pushed[0] = first  BY <1>5, <3>1
    <3> HIDE DEF T
    <3> QED  BY <1>2, <3>1, <3>2
  <2>2. ASSUME NEW i \in 0 .. hi - 1, i \in M  PROVE i + 1 \in M
    <3>1. i + 1 \in 0 + 1 .. hi /\ (i + 1) - 1 = i /\ i + 1 \in 0 .. hi /\ i + 1 # 0  BY <1>b
    <3>2. pushed[i + 1] = F(pushed[i])  BY <1>5, <3>1
    <3> HIDE DEF T, Is
    <3>3. pushed[i] \in T[(i + 1) - 1]  BY <2>2, <3>1
    <3>4. F(pushed[i]) \in T[i + 1]  BY <1>1, <3>1, <3>3
    <3> QED  BY <3>1, <3>2, <3>4
  <2>3. 0 \in Int /\ hi \in Int /\ hi \in 0 .. hi  BY <1>b
  <2>4. pushed[hi] \in T[hi]
    <3> HIDE DEF M
    <3>1. \A i \in 0 .. hi : i \in M  BY <2>1, <2>2, <2>3, IntervalInduction
    <3> HIDE DEF T
    <3> QED  BY <2>3, <3>1 DEF M
  <2> HIDE DEF T, Is
  <2> QED  BY <1>s, <2>3, <2>4
<1> HIDE DEF pushed
<1>7. PICK m \in Nat : \E u \in Stacks(m) :
                          /\ pushed[hi] = Held(m, u, e) /\ Sound(m, u)
                          /\ e - Bytes(m) <= CHUNK_LEN \/ n + hi <= m
  BY <1>6
<1>8. PICK u \in Stacks(m) : /\ pushed[hi] = Held(m, u, e) /\ Sound(m, u)
                             /\ e - Bytes(m) <= CHUNK_LEN \/ n + hi <= m
  BY <1>7
<1>9. e - Bytes(m) <= CHUNK_LEN
  <2> SUFFICES ASSUME n + hi <= m PROVE e - Bytes(m) <= CHUNK_LEN  BY <1>8
  <2> DEFINE q == n + hi
  <2>1. q \in Nat  BY <1>b
  <2>2. Bytes(q) = Bytes(n) + Bytes(hi) /\ Bytes(hi) \in Nat /\ Bytes(m) \in Nat
    <3>1. Bytes(n + hi) = Bytes(n) + Bytes(hi)  BY <1>b, BytesOf
    <3>2. Bytes(hi) \in Nat /\ Bytes(m) \in Nat  BY <1>b, BytesOf
    <3> QED  BY <3>1, <3>2
  <2>3. Bytes(q) <= Bytes(m)
    <3> HIDE DEF q
    <3>0. q <= m /\ Bytes(q) \in Nat /\ Bytes(m) \in Nat  BY <2>1, BytesOf DEF q
    <3>1. q < m => Bytes(q) + CHUNK_LEN <= Bytes(m)  BY <2>1, BytesOf
    <3>2. q = m => Bytes(q) = Bytes(m)  OBVIOUS
    <3> QED  BY <1>0, <2>1, <3>0, <3>1, <3>2
  <2> HIDE DEF q
  <2> QED  BY <1>0, <1>b, <2>2, <2>3
<1> QED  BY <1>m, <1>8, <1>9 DEF first

\* n chunks are done, with what follows them in the chunk state; two subtrees
\* are on the stack when nothing does, and all the merges are done when
\* something does.
Good(n, s, b) ==
    /\ s \in Stacks(n) /\ Bytes(n) <= b /\ b - Bytes(n) <= CHUNK_LEN
    /\ b = Bytes(n) => n = 0 \/ s \in Open(n)
    /\ b # Bytes(n) => s = B3!Canonical[n]

Settled(c, s, b) == \E n \in Nat : c = ChunkAt(n, b - Bytes(n)) /\ Good(n, s, b)

LEMMA ChunkLenIs ==
    ASSUME NEW n \in Nat, NEW l \in Nat
    PROVE  B3!chunk_state_len(ChunkAt(n, l)) = l /\ ChunkAt(n, l).chunk_counter = n
<1> DEFINE d == B3!DirectBlocks(l)
           c == ChunkAt(n, l)
<1>1. d \in Nat  BY DirectBlocksAre
<1> HIDE DEF d
<1>2. c = StateAt(n, d, l - BlockBytes(d))  BY Zenon DEF ChunkAt, d
<1>3. BlockBytes(d) \in Nat  BY <1>1, BlockBytesOf
<1>4. BLOCK_LEN * d = BlockBytes(d)
  <2>1. BLOCK_LEN \in Nat  BY BlockBytesOf
  <2> QED  BY <1>1, <2>1 DEF BlockBytes
<1> HIDE DEF c
<1>5. c.blocks_compressed = d /\ c.buf_len = l - BlockBytes(d) /\ c.chunk_counter = n
  <2> DEFINE w == l - BlockBytes(d)
  <2> HIDE DEF w
  <2>1. c = StateAt(n, d, w)  BY <1>2 DEF w
  <2>2. c.blocks_compressed = d /\ c.buf_len = w /\ c.chunk_counter = n  BY <2>1 DEF StateAt
  <2> QED  BY <2>2 DEF w
<1>6. B3!chunk_state_len(c) = BLOCK_LEN * d + (l - BlockBytes(d))
  <2>1. B3!chunk_state_len(c) = BLOCK_LEN * c.blocks_compressed + c.buf_len
    BY Zenon DEF B3!chunk_state_len
  <2> QED  BY <1>5, <2>1
<1>7. B3!chunk_state_len(c) = l
  <2> DEFINE y == BlockBytes(d)
             z == BLOCK_LEN * d
  <2>1. y \in Nat /\ z = y  BY <1>3, <1>4
  <2>2. B3!chunk_state_len(c) = z + (l - y)  BY <1>6
  <2> HIDE DEF y, z
  <2> QED  BY <2>1, <2>2
<1> QED  BY <1>5, <1>7 DEF c

LEMMA InChunks == ASSUME NEW n \in Nat, NEW e \in 0 .. MaxTree, Bytes(n) <= e PROVE n \in 0 .. LastChunk
<1>1. Bytes(n) \in Nat /\ MaxTree \in Nat /\ LastChunk \in Nat  BY BytesOf, ChunkLen, LastChunkIs
<1>2. Bytes(n) <= MaxTree  BY <1>1
<1>3. n <= LastChunk  BY <1>2, LastChunkIs
<1> QED  BY <1>1, <1>3

\* What is left of the input goes into the chunk state, and the stack is merged.
LEMMA KeepIs ==
    ASSUME NEW m \in Nat, NEW u \in Stacks(m), NEW e \in 0 .. MaxTree,
           Bytes(m) <= e, e - Bytes(m) <= CHUNK_LEN, e = Bytes(m) => u \in Open(m)
    PROVE  Settled(B3!KeepRest(Held(m, u, e)).c, B3!KeepRest(Held(m, u, e)).s, e)
<1> DEFINE x == Held(m, u, e)
           r == e - Bytes(m)
           y == B3!KeepRest(x)
<1>0. /\ Bytes(m) \in Nat /\ r \in Nat /\ r <= CHUNK_LEN /\ CHUNK_LEN \in Nat /\ (r = 0 <=> e = Bytes(m))
      /\ m \in 0 .. LastChunk
  <2>1. Bytes(m) \in Nat /\ CHUNK_LEN \in Nat  BY BytesOf, ChunkLen
  <2>2. m \in 0 .. LastChunk  BY InChunks
  <2> QED  BY <2>1, <2>2
<1>1. x.input = Piece(Bytes(m), r) /\ x.s = u /\ x.c = ChunkAt(m, 0) /\ (x.input = <<>> <=> r = 0)
  <2>1. e \in Nat  OBVIOUS
  <2>2. B3!chunk_state_reset(m) = ChunkAt(m, 0)  BY ResetIs
  <2>3. x.input = Piece(Bytes(m), e - Bytes(m)) /\ x.s = u /\ x.c = B3!chunk_state_reset(m)
        /\ (x.input = <<>> <=> e = Bytes(m))
    BY <2>1, HeldInput
  <2> HIDE DEF x
  <2> QED  BY <1>0, <2>2, <2>3
<1>2. x.c.chunk_counter = m
  <2>1. 0 \in Nat  OBVIOUS
  <2>2. ChunkAt(m, 0).chunk_counter = m  BY <2>1, ChunkLenIs
  <2> HIDE DEF x
  <2> QED  BY <1>1, <2>2
<1>3. CASE r = 0
  <2>1. y = x
    <3> HIDE DEF x, r
    <3> QED  BY <1>1, <1>3, Zenon DEF B3!KeepRest
  <2>2. Good(m, u, e)
    <3>1. e = Bytes(m)  BY <1>0, <1>3
    <3> HIDE DEF r
    <3> QED  BY <1>0, <3>1 DEF Good
  <2>3. x.c = ChunkAt(m, e - Bytes(m))  BY <1>1, <1>3
  <2> HIDE DEF x, y, r
  <2>4. y.c = ChunkAt(m, e - Bytes(m)) /\ y.s = u  BY <1>1, <2>1, <2>3
  <2>5. Settled(y.c, y.s, e)  BY <2>2, <2>4 DEF Settled
  <2> QED  BY <2>5 DEF y, x
<1>4. CASE r # 0
  <2>1. y = [x EXCEPT !.c = B3!chunk_state_update(@, x.input),
                      !.s = B3!hasher_merge_cv_stack(@, x.c.chunk_counter)]
    <3> HIDE DEF x, r
    <3> QED  BY <1>1, <1>4, Zenon DEF B3!KeepRest
  <2>2. x = [c |-> x.c, s |-> x.s, input |-> x.input]
    <3>1. x = [c |-> B3!chunk_state_reset(m), s |-> u, input |-> Piece(Bytes(m), e - Bytes(m))]
      BY Zenon DEF Held
    <3> DEFINE c0 == B3!chunk_state_reset(m)
               i0 == Piece(Bytes(m), e - Bytes(m))
    <3>2. x = [c |-> c0, s |-> u, input |-> i0]  BY <3>1
    <3> HIDE DEF c0, i0, x
    <3>3. x.c = c0 /\ x.s = u /\ x.input = i0  BY <3>2
    <3> QED  BY <3>2, <3>3
  <2> HIDE DEF x
  <2>3. y.c = B3!chunk_state_update(x.c, x.input)
        /\ y.s = B3!hasher_merge_cv_stack(x.s, x.c.chunk_counter)
    <3> DEFINE c1 == B3!chunk_state_update(x.c, x.input)
               s1 == B3!hasher_merge_cv_stack(x.s, x.c.chunk_counter)
    <3>1. y = [x EXCEPT !.c = c1, !.s = s1]  BY <2>1
    <3> HIDE DEF c1, s1, y
    <3>2. y.c = c1 /\ y.s = s1  BY <2>2, <3>1
    <3> QED  BY <3>2 DEF c1, s1
  <2>4. y.c = ChunkAt(m, r)
    <3> HIDE DEF r, y
    <3>1. 0 \in 0 .. CHUNK_LEN /\ r \in 0 .. CHUNK_LEN - 0 /\ Bytes(m) + 0 = Bytes(m) /\ 0 + r = r
      BY <1>0
    <3>2. B3!chunk_state_update(ChunkAt(m, 0), Piece(Bytes(m) + 0, r)) = ChunkAt(m, 0 + r)
      BY <3>1, UpdateIs
    <3> QED  BY <1>1, <2>3, <3>1, <3>2
  <2>5. y.s = B3!Canonical[m]
    <3>1. B3!hasher_merge_cv_stack(u, m) = B3!Canonical[m]  BY <1>0, Merged
    <3> HIDE DEF y
    <3> QED  BY <1>1, <1>2, <2>3, <3>1
  <2>6. B3!Canonical[m] \in Stacks(m)
    <3>1. CASE m = 0  BY <3>1, CanonicalIs DEF Stacks
    <3>2. CASE m # 0
      <4>1. m \in 1 .. LastChunk  BY <1>0, <3>2
      <4>2. B3!LowBit(m) \in OnTop(m) /\ B3!Canonical[m] = Pending(m - B3!LowBit(m), B3!LowBit(m))
        BY <4>1, LowOnTop
      <4> QED  BY <3>2, <4>2 DEF Stacks
    <3> QED  BY <3>1, <3>2
  <2>7. Good(m, B3!Canonical[m], e)
    <3>1. e # Bytes(m)  BY <1>0, <1>4
    <3> HIDE DEF r
    <3> QED  BY <2>6, <3>1 DEF Good
  <2> HIDE DEF y
  <2>8. Settled(y.c, y.s, e)  BY <2>4, <2>5, <2>7 DEF Settled
  <2> QED  BY <2>8 DEF y, x
<1> QED  BY <1>3, <1>4

LEMMA HasherWith ==
    ASSUME NEW c, NEW s, NEW input, NEW d, NEW j,
           NEW h, h = [c |-> c, s |-> s, input |-> input],
           NEW g, g = [h EXCEPT !.c = d, !.input = j]
    PROVE  g = [c |-> d, s |-> s, input |-> j]
OBVIOUS

\* A chunk that is under way: all the input goes into it, or it is finished
\* and pushed and the rest of the input remains.
LEMMA FinishIs ==
    ASSUME NEW n \in Nat, NEW l \in 1 .. CHUNK_LEN, NEW k \in Nat, Bytes(n) + l + k <= MaxTree
    PROVE  LET h == [c |-> ChunkAt(n, l), s |-> B3!Canonical[n], input |-> Piece(Bytes(n) + l, k)]
               e == Bytes(n) + l + k
           IN  /\ k <= CHUNK_LEN - l =>
                    B3!FinishChunk(h) = [c |-> ChunkAt(n, l + k), s |-> B3!Canonical[n], input |-> <<>>]
               /\ k > CHUNK_LEN - l =>
                    /\ B3!FinishChunk(h) = Held(n + 1, Pending(n, 1), e)
                    /\ Pending(n, 1) \in Stacks(n + 1) /\ Bytes(n + 1) < e
<1> DEFINE c == ChunkAt(n, l)
           s == B3!Canonical[n]
           b == Bytes(n) + l
           input == Piece(b, k)
           h == [c |-> c, s |-> s, input |-> input]
           e == b + k
           room == CHUNK_LEN - l
           take == IF room > k THEN k ELSE room
           Form(j) ==
             LET rest == SubSeq(h.input, j + 1, Len(h.input))
                 full == B3!chunk_state_update(h.c, SubSeq(h.input, 1, j))
             IN  IF rest = <<>> THEN [h EXCEPT !.c = full, !.input = rest]
                 ELSE [c |-> B3!chunk_state_reset(full.chunk_counter + 1),
                       s |-> B3!hasher_push_cv(h.s, B3!output_chaining_value(B3!chunk_state_output(full)),
                                               full.chunk_counter),
                       input |-> rest]
<1>0. /\ CHUNK_LEN \in Nat \ {0} /\ MaxTree \in Nat /\ Bytes(n) \in Nat /\ LastChunk \in Nat
      /\ l \in Nat /\ b \in Nat /\ e \in 0 .. MaxTree /\ room \in Nat /\ take \in Nat
      /\ take <= k /\ take <= room /\ (k <= room => take = k) /\ (k > room => take = room /\ take < k)
  <2>1. CHUNK_LEN \in Nat \ {0} /\ MaxTree \in Nat /\ Bytes(n) \in Nat /\ LastChunk \in Nat
    BY ChunkLen, BytesOf, LastChunkIs
  <2>2. b \in Nat /\ e \in 0 .. MaxTree /\ room \in Nat  BY <2>1
  <2> HIDE DEF room, b, e
  <2> QED  BY <2>1, <2>2
<1>c. h.c = c /\ h.s = s /\ h.input = input
  <2> HIDE DEF c, s, input
  <2> QED  OBVIOUS
<1>l. B3!chunk_state_len(h.c) = l
  <2>1. B3!chunk_state_len(c) = l  BY <1>0, ChunkLenIs
  <2> HIDE DEF c, h
  <2> QED  BY <1>c, <2>1
<1>i. Len(h.input) = k
  <2>1. Len(input) = k  BY <1>0, PieceIs
  <2> HIDE DEF input, h
  <2> QED  BY <1>c, <2>1
<1>1. B3!FinishChunk(h) = Form(take)
  <2> DEFINE r0 == CHUNK_LEN - B3!chunk_state_len(h.c)
             t0 == IF r0 > Len(h.input) THEN Len(h.input) ELSE r0
  <2>1. B3!FinishChunk(h) = Form(t0)
    <3> HIDE DEF h
    <3> QED  BY Zenon DEF B3!FinishChunk
  <2>2. t0 = take
    <3> HIDE DEF h
    <3> QED  BY <1>l, <1>i
  <2> HIDE DEF Form, t0, take
  <2> QED  BY <2>1, <2>2
<1> DEFINE rest == SubSeq(h.input, take + 1, Len(h.input))
           full == B3!chunk_state_update(h.c, SubSeq(h.input, 1, take))
<1> HIDE DEF take, room
<1>2. rest = Piece(b + take, k - take) /\ SubSeq(h.input, 1, take) = Piece(b, take)
  <2>1. 0 \in 0 .. k /\ take \in 0 .. k /\ k \in take .. k /\ 0 + 1 = 1 /\ b + 0 = b /\ take - 0 = take
    BY <1>0
  <2>2. SubSeq(Piece(b, k), 0 + 1, take) = Piece(b + 0, take - 0)  BY <1>0, <2>1, PieceWithin
  <2>3. SubSeq(Piece(b, k), take + 1, k) = Piece(b + take, k - take)  BY <1>0, <2>1, PieceWithin
  <2> HIDE DEF h, b
  <2> QED  BY <1>c, <1>i, <2>1, <2>2, <2>3
<1>3. full = ChunkAt(n, l + take)
  <2>1. l \in 0 .. CHUNK_LEN /\ take \in 0 .. CHUNK_LEN - l  BY <1>0 DEF room
  <2>2. B3!chunk_state_update(ChunkAt(n, l), Piece(Bytes(n) + l, take)) = ChunkAt(n, l + take)
    BY <2>1, UpdateIs
  <2> HIDE DEF h
  <2> QED  BY <1>c, <1>2, <2>2
<1>4. ASSUME k <= room
      PROVE  B3!FinishChunk(h) = [c |-> ChunkAt(n, l + k), s |-> s, input |-> <<>>]
  <2>1. take = k /\ k - take = 0  BY <1>0, <1>4
  <2>2. rest = <<>>
    <3>1. b + take \in Nat /\ 0 \in Nat  BY <1>0
    <3>2. Piece(b + take, 0) = <<>>  BY <3>1, PieceIs
    <3> HIDE DEF rest
    <3> QED  BY <1>2, <2>1, <3>2
  <2>3. Form(take) = [h EXCEPT !.c = full, !.input = rest]
    <3>1. Form(take) = IF rest = <<>> THEN [h EXCEPT !.c = full, !.input = rest]
                       ELSE [c |-> B3!chunk_state_reset(full.chunk_counter + 1),
                             s |-> B3!hasher_push_cv(h.s, B3!output_chaining_value(B3!chunk_state_output(full)),
                                                     full.chunk_counter),
                             input |-> rest]
      <4> HIDE DEF h
      <4> QED  BY Zenon
    <3> HIDE DEF rest, full, h, Form
    <3> QED  BY <2>2, <3>1
  <2>4. [h EXCEPT !.c = full, !.input = rest] = [c |-> full, s |-> s, input |-> rest]
    <3> DEFINE g == [h EXCEPT !.c = full, !.input = rest]
    <3>1. h = [c |-> c, s |-> s, input |-> input] /\ g = [h EXCEPT !.c = full, !.input = rest]
      BY Zenon
    <3> HIDE DEF full, rest, c, s, input, Form, h, g
    <3>2. g = [c |-> full, s |-> s, input |-> rest]  BY <3>1, HasherWith
    <3> QED  BY <3>2, Zenon DEF g
  <2> HIDE DEF Form, h, full, rest, s
  <2> QED  BY <1>1, <1>3, <2>1, <2>2, <2>3, <2>4
<1>5. ASSUME k > room
      PROVE  /\ B3!FinishChunk(h) = Held(n + 1, Pending(n, 1), e)
             /\ Pending(n, 1) \in Stacks(n + 1) /\ Bytes(n + 1) < e
  <2>1. take = room /\ l + take = CHUNK_LEN /\ k - take > 0 /\ k - take \in Nat /\ b + take \in Nat
    BY <1>0, <1>5 DEF room
  <2>2. rest # <<>>
    <3>1. Piece(b + take, k - take) # <<>>  BY <2>1, PieceIs
    <3> HIDE DEF rest
    <3> QED  BY <1>2, <3>1
  <2>3. Bytes(n + 1) = b + take /\ e - Bytes(n + 1) = k - take /\ n + 1 \in Nat
    <3>0. 1 \in Nat /\ n + 1 \in Nat  OBVIOUS
    <3>1. Bytes(n + 1) = Bytes(n) + CHUNK_LEN
      <4>1. Bytes(n + 1) = Bytes(n) + Bytes(1) /\ Bytes(1) = CHUNK_LEN  BY <3>0, BytesOf
      <4> QED  BY <4>1
    <3> DEFINE y == Bytes(n + 1)
               z == Bytes(n)
    <3>2. z \in Nat /\ y = z + CHUNK_LEN /\ l + take = CHUNK_LEN  BY <1>0, <2>1, <3>1
    <3> HIDE DEF y, z
    <3>3. y = (z + l) + take /\ ((z + l) + k) - y = k - take  BY <1>0, <3>2
    <3> QED  BY <3>0, <3>3 DEF y, z
  <2>4. Bytes(n + 1) < e /\ n + 1 \in 0 .. LastChunk
    <3>1. Bytes(n + 1) \in Nat  BY <1>0, <2>1, <2>3
    <3>2. Bytes(n + 1) < e
      <4> HIDE DEF b, e
      <4>1. e \in Nat  BY <1>0
      <4> QED  BY <1>0, <2>1, <2>3, <3>1, <4>1
    <3>3. Bytes(n + 1) <= e
      <4> HIDE DEF e
      <4>1. e \in Nat  BY <1>0
      <4> QED  BY <3>1, <3>2, <4>1
    <3> HIDE DEF e
    <3> QED  BY <1>0, <2>3, <3>2, <3>3, InChunks
  <2>5. full.chunk_counter = n /\ full = ChunkAt(n, CHUNK_LEN)
    <3>1. ChunkAt(n, CHUNK_LEN).chunk_counter = n
      <4>1. CHUNK_LEN \in Nat  BY <1>0
      <4> QED  BY <4>1, ChunkLenIs
    <3> HIDE DEF full
    <3> QED  BY <1>3, <2>1, <3>1
  <2>6. B3!output_chaining_value(B3!chunk_state_output(full)) = B3!Subtree(n, 1)
    <3>0. 1 \in Nat  OBVIOUS
    <3>1. CHUNK_LEN \in 0 .. CHUNK_LEN /\ CHUNK_LEN <= MaxTree
      <4>1. 1 <= LastChunk  BY <1>0, <2>4
      <4>2. Bytes(1) <= MaxTree /\ Bytes(1) = CHUNK_LEN  BY <3>0, <4>1, LastChunkIs, BytesOf
      <4> QED  BY <1>0, <4>2
    <3>2. B3!chunk_state_output(ChunkAt(n, CHUNK_LEN)) = B3!Tree[CHUNK_LEN][Bytes(n)]  BY <3>1, OutputOfTree
    <3>3. B3!Subtree(n, 1) = B3!output_chaining_value(B3!Tree[CHUNK_LEN][Bytes(n)])  BY SubtreeIs, BytesOf
    <3> HIDE DEF full
    <3> QED  BY <2>5, <3>2, <3>3
  <2>7. B3!hasher_push_cv(s, B3!Subtree(n, 1), n) = Pending(n, 1) /\ Pending(n, 1) \in Stacks(n + 1)
    <3>1. s \in Stacks(n)
      <4>1. CASE n = 0  BY <4>1, CanonicalIs DEF Stacks
      <4>2. CASE n # 0
        <5>1. n \in 1 .. LastChunk  BY <1>0, <2>4, <4>2
        <5>2. B3!LowBit(n) \in OnTop(n) /\ B3!Canonical[n] = Pending(n - B3!LowBit(n), B3!LowBit(n))
          BY <5>1, LowOnTop
        <5> QED  BY <4>2, <5>2 DEF Stacks
      <4> QED  BY <4>1, <4>2
    <3>2. 1 \in Power /\ Divides(1, n) /\ n + 1 <= LastChunk  BY <1>0, <2>4, Powers, DividesSelf
    <3> HIDE DEF s
    <3> QED  BY <3>1, <3>2, Pushed
  <2>8. Form(take) = [c |-> B3!chunk_state_reset(n + 1), s |-> Pending(n, 1), input |-> rest]
    <3>1. Form(take) = IF rest = <<>> THEN [h EXCEPT !.c = full, !.input = rest]
                       ELSE [c |-> B3!chunk_state_reset(full.chunk_counter + 1),
                             s |-> B3!hasher_push_cv(h.s, B3!output_chaining_value(B3!chunk_state_output(full)),
                                                     full.chunk_counter),
                             input |-> rest]
      <4> HIDE DEF h
      <4> QED  BY Zenon
    <3> HIDE DEF rest, full, h, Form, s
    <3> QED  BY <1>c, <2>2, <2>5, <2>6, <2>7, <3>1
  <2>9. rest = Piece(Bytes(n + 1), e - Bytes(n + 1))
    <3> HIDE DEF rest, b, e
    <3> QED  BY <1>2, <2>3
  <2>10. Held(n + 1, Pending(n, 1), e)
           = [c |-> B3!chunk_state_reset(n + 1), s |-> Pending(n, 1),
              input |-> Piece(Bytes(n + 1), e - Bytes(n + 1))]
    BY Zenon DEF Held
  <2> HIDE DEF Form, h, full, rest, e
  <2> QED  BY <1>1, <2>4, <2>7, <2>8, <2>9, <2>10
<1>6. e = Bytes(n) + l + k  OBVIOUS
<1> HIDE DEF h, e
<1>7. /\ k <= CHUNK_LEN - l =>
            B3!FinishChunk(h) = [c |-> ChunkAt(n, l + k), s |-> B3!Canonical[n], input |-> <<>>]
      /\ k > CHUNK_LEN - l =>
            /\ B3!FinishChunk(h) = Held(n + 1, Pending(n, 1), e)
            /\ Pending(n, 1) \in Stacks(n + 1) /\ Bytes(n + 1) < e
  BY <1>4, <1>5 DEF room
<1> QED  BY <1>7, Zenon DEF h, e, c, s, input, b

\* What update makes of the hasher, wherever the message is cut.
LEMMA HasherUpdateIs ==
    ASSUME NEW n \in Nat, NEW s, NEW b \in Nat, NEW k \in Nat, b + k <= MaxTree,
           Good(n, s, b), Degree \in Degrees
    PROVE  LET h == B3!blake3_hasher_update(ChunkAt(n, b - Bytes(n)), s, Piece(b, k))
           IN  Settled(h.c, h.s, b + k)
<1> DEFINE l == b - Bytes(n)
           c == ChunkAt(n, l)
           input == Piece(b, k)
           h == [c |-> c, s |-> s, input |-> input]
           begun == IF B3!chunk_state_len(c) > 0 THEN B3!FinishChunk(h) ELSE h
           u == B3!blake3_hasher_update(c, s, input)
           e == b + k
<1>0. /\ CHUNK_LEN \in Nat \ {0} /\ MaxTree \in Nat /\ Bytes(n) \in Nat /\ LastChunk \in Nat
      /\ l \in 0 .. CHUNK_LEN /\ l \in Nat /\ b = Bytes(n) + l /\ e \in 0 .. MaxTree /\ e \in Nat
  <2>1. CHUNK_LEN \in Nat \ {0} /\ MaxTree \in Nat /\ Bytes(n) \in Nat /\ LastChunk \in Nat
    BY ChunkLen, BytesOf, LastChunkIs
  <2>2. Bytes(n) <= b /\ b - Bytes(n) <= CHUNK_LEN  BY DEF Good
  <2> QED  BY <2>1, <2>2
<1>g. /\ s \in Stacks(n)
      /\ l = 0 => n = 0 \/ s \in Open(n)
      /\ l # 0 => s = B3!Canonical[n]
  <2>1. (b = Bytes(n) <=> l = 0)  BY <1>0
  <2> HIDE DEF l
  <2> QED  BY <2>1 DEF Good
<1>1. u = IF begun.input = <<>> THEN begun ELSE B3!KeepRest(B3!PushSubtrees(begun))
  <2> HIDE DEF c, input
  <2> QED  BY Zenon DEF B3!blake3_hasher_update
<1>2. B3!chunk_state_len(c) = l
  <2> HIDE DEF l
  <2> QED  BY <1>0, ChunkLenIs
<1>3. ASSUME NEW m \in Nat, NEW v \in Stacks(m), begun = Held(m, v, e), Bytes(m) < e
      PROVE  Settled(u.c, u.s, e)
  <2> HIDE DEF begun, u, e
  <2>0. Bytes(m) <= e /\ e # Bytes(m)
    <3>1. Bytes(m) \in Nat  BY BytesOf
    <3> QED  BY <1>0, <1>3, <3>1
  <2>1. begun.input # <<>>
    <3>1. Held(m, v, e).input = <<>> <=> e = Bytes(m)  BY <1>0, <2>0, HeldInput
    <3> QED  BY <1>3, <2>0, <3>1
  <2>2. u = B3!KeepRest(B3!PushSubtrees(begun))  BY <1>1, <2>1
  <2>3. PICK q \in Nat : \E w \in Stacks(q) :
              /\ B3!PushSubtrees(Held(m, v, e)) = Held(q, w, e)
              /\ Bytes(q) <= e /\ e - Bytes(q) <= CHUNK_LEN
              /\ e = Bytes(q) => w \in Open(q)
    BY <1>0, <2>0, PushesAre
  <2>4. PICK w \in Stacks(q) :
              /\ B3!PushSubtrees(Held(m, v, e)) = Held(q, w, e)
              /\ Bytes(q) <= e /\ e - Bytes(q) <= CHUNK_LEN
              /\ e = Bytes(q) => w \in Open(q)
    BY <2>3
  <2>5. u = B3!KeepRest(Held(q, w, e))  BY <1>3, <2>2, <2>4
  <2>6. Settled(B3!KeepRest(Held(q, w, e)).c, B3!KeepRest(Held(q, w, e)).s, e)
    BY <1>0, <2>4, KeepIs
  <2> QED  BY <2>5, <2>6
<1>e. e \in Nat /\ e \in 0 .. MaxTree  BY <1>0
<1>z. l = 0 => /\ b = Bytes(n) /\ e - Bytes(n) = k
               /\ Bytes(n) < e \/ (e = Bytes(n) /\ b = e /\ Bytes(n) <= e)
  <2> DEFINE y == Bytes(n)
  <2>1. y \in Nat /\ b = y + l  BY <1>0
  <2> HIDE DEF y, l
  <2>2. l = 0 => b = y /\ e - y = k /\ (y < e \/ (e = y /\ b = e /\ y <= e))  BY <2>1
  <2> QED  BY <2>2 DEF y
<1>4. ASSUME l = 0  PROVE Settled(u.c, u.s, e)
  <2>1. begun = h
    <3> HIDE DEF c, h
    <3> QED  BY <1>2, <1>4
  <2>2. h = Held(n, s, e)
    <3>1. b = Bytes(n) /\ e - Bytes(n) = k
      <4> HIDE DEF l, e
      <4> QED  BY <1>z, <1>4
    <3>2. c = B3!chunk_state_reset(n)
      <4>1. B3!chunk_state_reset(n) = ChunkAt(n, 0)  BY ResetIs
      <4> HIDE DEF l
      <4> QED  BY <1>4, <4>1
    <3>3. Held(n, s, e) = [c |-> B3!chunk_state_reset(n), s |-> s, input |-> Piece(Bytes(n), e - Bytes(n))]
      BY Zenon DEF Held
    <3>4. input = Piece(Bytes(n), e - Bytes(n))  BY <3>1
    <3> HIDE DEF c, input, e
    <3> QED  BY <3>2, <3>3, <3>4
  <2>3. CASE Bytes(n) < e
    <3> HIDE DEF begun, u, e, h
    <3> QED  BY <1>3, <1>g, <2>1, <2>2, <2>3
  <2>4. CASE ~ (Bytes(n) < e)
    <3>1. e = Bytes(n) /\ b = e /\ Bytes(n) <= e
      <4> HIDE DEF l, e
      <4> QED  BY <1>z, <1>4, <2>4
    <3>2. Held(n, s, e).input = <<>> /\ Held(n, s, e).c = B3!chunk_state_reset(n) /\ Held(n, s, e).s = s
      <4> HIDE DEF e, l
      <4> QED  BY <1>e, <3>1, HeldInput
    <3>3. u = Held(n, s, e)
      <4> HIDE DEF h, begun, u, e
      <4> QED  BY <1>1, <2>1, <2>2, <3>2
    <3>4. u.c = ChunkAt(n, e - Bytes(n)) /\ u.s = s
      <4>1. e - Bytes(n) = 0  BY <1>0, <3>1
      <4> HIDE DEF u, e
      <4> QED  BY <3>2, <3>3, <4>1, ResetIs
    <3>5. Good(n, s, e)
      <4> HIDE DEF e
      <4> QED  BY <3>1
    <3> HIDE DEF u, e
    <3> QED  BY <3>4, <3>5 DEF Settled
  <2> QED  BY <2>3, <2>4
<1>5. ASSUME l # 0  PROVE Settled(u.c, u.s, e)
  <2>0. l \in 1 .. CHUNK_LEN /\ Bytes(n) + l + k = e /\ Bytes(n) + l = b /\ Bytes(n) + l + k <= MaxTree
    BY <1>0, <1>5
  <2>1. begun = B3!FinishChunk(h)
    <3>1. B3!chunk_state_len(c) > 0  BY <1>0, <1>2, <1>5
    <3> HIDE DEF c, h
    <3> QED  BY <3>1
  <2>2. h = [c |-> ChunkAt(n, l), s |-> B3!Canonical[n], input |-> Piece(Bytes(n) + l, k)]
    <3>1. s = B3!Canonical[n]  BY <1>g, <1>5
    <3>2. input = Piece(Bytes(n) + l, k)
      <4> HIDE DEF l
      <4> QED  BY <2>0
    <3> HIDE DEF input, l
    <3> QED  BY <3>1, <3>2, Zenon
  <2> HIDE DEF l, h
  <2>3. /\ k <= CHUNK_LEN - l =>
               B3!FinishChunk(h) = [c |-> ChunkAt(n, l + k), s |-> B3!Canonical[n], input |-> <<>>]
        /\ k > CHUNK_LEN - l =>
               /\ B3!FinishChunk(h) = Held(n + 1, Pending(n, 1), Bytes(n) + l + k)
               /\ Pending(n, 1) \in Stacks(n + 1) /\ Bytes(n + 1) < Bytes(n) + l + k
    BY <2>0, <2>2, Zenon, FinishIs
  <2>4. CASE k <= CHUNK_LEN - l
    <3>1. begun = [c |-> ChunkAt(n, l + k), s |-> B3!Canonical[n], input |-> <<>>]
      BY <2>1, <2>3, <2>4
    <3> HIDE DEF begun, u
    <3>2. begun.input = <<>> /\ begun.c = ChunkAt(n, l + k) /\ begun.s = B3!Canonical[n]  BY <3>1
    <3>3. u.c = ChunkAt(n, l + k) /\ u.s = B3!Canonical[n]  BY <1>1, <3>2
    <3>4. l + k = e - Bytes(n) /\ Bytes(n) <= e /\ e - Bytes(n) <= CHUNK_LEN /\ e # Bytes(n)
      BY <1>0, <2>0, <2>4
    <3>5. B3!Canonical[n] \in Stacks(n)  BY <1>g, <1>5
    <3> HIDE DEF e
    <3>6. Good(n, B3!Canonical[n], e)  BY <3>4, <3>5 DEF Good
    <3> QED  BY <3>3, <3>4, <3>6 DEF Settled
  <2>5. CASE k > CHUNK_LEN - l
    <3> DEFINE m == n + 1
               v == Pending(n, 1)
    <3>1. m \in Nat  OBVIOUS
    <3>2. begun = Held(m, v, e) /\ v \in Stacks(m) /\ Bytes(m) < e  BY <2>0, <2>1, <2>3, <2>5
    <3> HIDE DEF m, v, begun, u, e
    <3> QED  BY <1>3, <3>1, <3>2
  <2>6. k <= CHUNK_LEN - l \/ k > CHUNK_LEN - l  BY <1>0
  <2> QED  BY <2>4, <2>5, <2>6
<1>6. Settled(u.c, u.s, e)  BY <1>4, <1>5
<1> QED  BY <1>6, Zenon DEF u, e, c, l, input

-----------------------------------------------------------------------------
(* Finalize *)

\* The first values of s are the subtrees of p chunks.
Prefix(s, p) == \A j \in 1 .. Len(B3!Canonical[p]) : s[j] = B3!Canonical[p][j]

\* x is the tree of what follows the p chunks: no more than their last subtree.
Rolled(x, p, b) ==
    /\ Bytes(p) < b
    /\ p # 0 => b - Bytes(p) <= Bytes(B3!LowBit(p))
    /\ x = B3!Tree[b - Bytes(p)][Bytes(p)]

\* One subtree of the stack joins the tree.
LEMMA RollStep ==
    ASSUME NEW p \in 1 .. LastChunk, NEW b \in 0 .. MaxTree, NEW s, NEW x,
           Prefix(s, p), Rolled(x, p, b)
    PROVE  LET q == p - B3!LowBit(p)
           IN  /\ q \in 0 .. LastChunk /\ Prefix(s, q) /\ B3!OneBits[p] = B3!OneBits[q] + 1
               /\ Rolled(B3!parent_output(<<s[B3!OneBits[p]], B3!output_chaining_value(x)>>), q, b)
<1> DEFINE g == B3!LowBit(p)
           q == p - g
           r == b - Bytes(p)
           cp == B3!Canonical[p]
           cq == B3!Canonical[q]
           y == B3!parent_output(<<s[B3!OneBits[p]], B3!output_chaining_value(x)>>)
<1>0. /\ p \in 1 .. Top - 1 /\ p \in 0 .. LastChunk /\ LastChunk \in Nat /\ b \in Nat /\ MaxTree \in Nat
      /\ p \in Nat
  <2>1. LastChunk \in Nat /\ MaxTree \in Nat /\ Top \in Nat  BY LastChunkIs, ChunkLen
  <2>2. p \in 0 .. LastChunk  BY <2>1
  <2>3. p \in 0 .. Top - 1  BY <2>2, LastChunkIs
  <2> QED  BY <2>1, <2>2, <2>3
<1>1. /\ g \in Nat \ {0} /\ g <= p /\ q \in 0 .. p - 1 /\ Divides(2 * g, q) /\ g \in B3!Pow2
      /\ g \in Power /\ 2 * g \in Power
  <2>1. g \in Nat \ {0} /\ g <= p /\ q \in 0 .. p - 1 /\ Divides(2 * g, q)  BY <1>0, WithoutLow
  <2>2. g \in B3!Pow2  BY <1>0, LowBitIs
  <2> HIDE DEF g, q
  <2> QED  BY <2>1, <2>2, Powers, PowerDouble
<1> HIDE DEF g
<1>2. q \in 0 .. LastChunk /\ q \in Nat /\ q + g = p /\ q + g <= LastChunk  BY <1>0, <1>1
<1>3. cp = Append(cq, B3!Subtree(q, g))
  <2> HIDE DEF q
  <2> QED  BY CanonicalIs DEF q, g
<1>4. /\ cq \in Seq(Value) /\ Len(cq) = B3!OneBits[q] /\ B3!OneBits[q] \in Nat
      /\ cp \in Seq(Value) /\ Len(cp) = B3!OneBits[p] /\ B3!OneBits[p] \in Nat
      /\ B3!Subtree(q, g) \in Value
  <2>1. \A m \in 0 .. LastChunk :
           B3!Canonical[m] \in Seq(Value) /\ Len(B3!Canonical[m]) = B3!OneBits[m] /\ B3!OneBits[m] \in Nat
    BY CanonicalType
  <2>2. B3!Subtree(q, g) \in Value
    <3>1. g \in 0 .. LastChunk  BY <1>0, <1>1
    <3> HIDE DEF q
    <3> QED  BY <1>2, <3>1, ValueIs
  <2> HIDE DEF q
  <2> QED  BY <1>0, <1>2, <2>1, <2>2
<1> HIDE DEF cp, cq
<1>5. /\ Len(cp) = Len(cq) + 1 /\ cp[Len(cq) + 1] = B3!Subtree(q, g)
      /\ \A j \in 1 .. Len(cq) : cp[j] = cq[j]
  <2> DEFINE v == B3!Subtree(q, g)
  <2> HIDE DEF v, q
  <2>1. cp = Append(cq, v) /\ v \in Value  BY <1>3, <1>4 DEF v
  <2>2. /\ Len(cp) = Len(cq) + 1 /\ cp[Len(cq) + 1] = v
        /\ \A j \in 1 .. Len(cq) : cp[j] = cq[j]
    BY <1>4, <2>1
  <2> QED  BY <2>2 DEF v
<1>6. Prefix(s, q) /\ s[B3!OneBits[p]] = B3!Subtree(q, g) /\ B3!OneBits[p] = B3!OneBits[q] + 1
  <2> HIDE DEF q
  <2>0. B3!OneBits[p] = Len(cq) + 1 /\ B3!OneBits[p] = B3!OneBits[q] + 1  BY <1>4, <1>5
  <2>1. \A j \in 1 .. Len(cp) : s[j] = cp[j]  BY DEF Prefix, cp
  <2>2. \A j \in 1 .. Len(cq) : j \in 1 .. Len(cp)
    <3>1. Len(cq) \in Nat /\ Len(cp) = Len(cq) + 1  BY <1>4, <1>5
    <3> QED  BY <3>1
  <2>3. \A j \in 1 .. Len(cq) : s[j] = cq[j]  BY <1>5, <2>1, <2>2
  <2>4. Prefix(s, q)  BY <2>3 DEF Prefix, cq
  <2>5. Len(cq) + 1 \in 1 .. Len(cp)
    <3>1. Len(cq) \in Nat /\ Len(cp) = Len(cq) + 1  BY <1>4, <1>5
    <3> QED  BY <3>1
  <2>6. s[Len(cq) + 1] = B3!Subtree(q, g)  BY <1>5, <2>1, <2>5
  <2> QED  BY <2>0, <2>4, <2>6
<1>7. /\ Bytes(p) \in Nat /\ Bytes(q) \in Nat /\ Bytes(g) \in Nat /\ Bytes(q) + Bytes(g) = Bytes(p)
      /\ r \in Nat /\ r > 0 /\ r <= Bytes(g) /\ Bytes(g) + r = b - Bytes(q) /\ Bytes(q) < b
      /\ Bytes(g) + r <= MaxTree
  <2>1. Bytes(p) \in Nat /\ Bytes(q) \in Nat /\ Bytes(g) \in Nat  BY <1>0, <1>1, <1>2, BytesOf
  <2>2. Bytes(q) + Bytes(g) = Bytes(p)
    <3>1. Bytes(q + g) = Bytes(q) + Bytes(g)  BY <1>1, <1>2, BytesOf
    <3> QED  BY <1>2, <3>1
  <2>3. Bytes(p) < b /\ b - Bytes(p) <= Bytes(g)  BY <1>0 DEF Rolled, g
  <2> DEFINE bp == Bytes(p)
             bq == Bytes(q)
             bg == Bytes(g)
  <2>4. bp \in Nat /\ bq \in Nat /\ bg \in Nat /\ bq + bg = bp /\ bp < b /\ b - bp <= bg /\ b <= MaxTree
    BY <1>0, <2>1, <2>2, <2>3
  <2> HIDE DEF bp, bq, bg
  <2>5. b - bp \in Nat /\ b - bp > 0 /\ bg + (b - bp) = b - bq /\ bq < b /\ bg + (b - bp) <= MaxTree
    BY <1>0, <2>4
  <2> QED  BY <2>4, <2>5 DEF bp, bq, bg
<1>8. x = B3!Tree[r][Bytes(p)]  BY DEF Rolled
<1> HIDE DEF r
<1>9. y = B3!Tree[b - Bytes(q)][Bytes(q)]
  <2>1. r \in 1 .. Bytes(g)  BY <1>7
  <2>2. B3!Tree[Bytes(g) + r][Bytes(q)]
          = B3!parent_output(<<B3!output_chaining_value(B3!Tree[Bytes(g)][Bytes(q)]),
                               B3!output_chaining_value(B3!Tree[r][Bytes(q) + Bytes(g)])>>)
    BY <1>1, <1>7, <2>1, TreeSplits
  <2>3. B3!Subtree(q, g) = B3!output_chaining_value(B3!Tree[Bytes(g)][Bytes(q)])  BY SubtreeIs
  <2> HIDE DEF q
  <2> QED  BY <1>6, <1>7, <1>8, <2>2, <2>3, Zenon
<1>10. q # 0 => b - Bytes(q) <= Bytes(B3!LowBit(q))
  <2>0. SUFFICES ASSUME q # 0 PROVE b - Bytes(q) <= Bytes(B3!LowBit(q))  OBVIOUS
  <2> DEFINE h == B3!LowBit(q)
  <2>1. q \in 1 .. Top - 1
    <3>1. Top \in Nat  BY ChunkLen
    <3>2. q # 0 /\ q \in 0 .. p - 1 /\ p \in 1 .. Top - 1  BY <1>0, <1>1, <2>0
    <3> HIDE DEF q
    <3> QED  BY <3>1, <3>2
  <2>2. 2 * g <= h  BY <1>1, <2>1, DividesBelowLow
  <2>3. h \in Nat \ {0}  BY <2>1, WithoutLow
  <2> HIDE DEF h, q
  <2>4. Bytes(g) + Bytes(g) <= Bytes(h)
    <3> DEFINE k == g + g
    <3>1. k \in Nat /\ k <= h /\ h \in Nat  BY <1>1, <2>2, <2>3
    <3>2. Bytes(k) = Bytes(g) + Bytes(g)  BY <1>1, BytesOf
    <3> HIDE DEF k
    <3>3. Bytes(k) \in Nat /\ Bytes(h) \in Nat /\ CHUNK_LEN \in Nat  BY <3>1, BytesOf, ChunkLen
    <3>4. k < h => Bytes(k) + CHUNK_LEN <= Bytes(h)  BY <3>1, BytesOf
    <3>5. k = h => Bytes(k) = Bytes(h)  OBVIOUS
    <3> QED  BY <3>1, <3>2, <3>3, <3>4, <3>5
  <2>5. Bytes(h) \in Nat  BY <2>3, BytesOf
  <2>6. Bytes(g) + r <= Bytes(h)  BY <1>7, <2>4, <2>5
  <2> QED  BY <1>7, <2>6 DEF h
<1>11. Rolled(y, q, b)
  <2> HIDE DEF q, y
  <2> QED  BY <1>7, <1>9, <1>10 DEF Rolled
<1> HIDE DEF y
<1> QED  BY <1>2, <1>6, <1>11 DEF q, y, g

\* The loop of finalize: it rolls the n topmost subtrees up, with what follows
\* them.
Roll(s, n, start) ==
    LET up[i \in 0 .. n] ==
          IF i = 0 THEN start
          ELSE B3!parent_output(<<s[n - i + 1], B3!output_chaining_value(up[i - 1])>>)
    IN  up[n]

LEMMA RollUp ==
    ASSUME NEW p0 \in 0 .. LastChunk, NEW n, n = B3!OneBits[p0], NEW b \in 0 .. MaxTree,
           NEW s, NEW start, Prefix(s, p0), Rolled(start, p0, b)
    PROVE  Roll(s, n, start) = B3!Tree[b][0]
<1> DEFINE F(i, x) == B3!parent_output(<<s[n - i + 1], B3!output_chaining_value(x)>>)
           Ok(i, x) == \E p \in 0 .. LastChunk : B3!OneBits[p] = n - i /\ Prefix(s, p) /\ Rolled(x, p, b)
           S == {B3!Tree[b - Bytes(p)][Bytes(p)] : p \in 0 .. LastChunk}
           T == [i \in 0 .. n |-> {x \in S : Ok(i, x)}]
           step == [i \in 0 + 1 .. n |-> [x \in T[i - 1] |-> F(i, x)]]
           Is(f) == f = [i \in 0 .. n |-> IF i = 0 THEN start ELSE F(i, f[i - 1])]
           up == CHOOSE f : Is(f)
<1>m. Roll(s, n, start) = up[n]  BY Zenon DEF Roll
<1>b. n \in Nat /\ n \in Int /\ LastChunk \in Nat /\ CHUNK_LEN \in Nat /\ b \in Nat /\ MaxTree \in Nat
  <2>1. B3!OneBits[p0] \in Nat  BY CanonicalType
  <2>2. LastChunk \in Nat /\ CHUNK_LEN \in Nat /\ MaxTree \in Nat  BY LastChunkIs, ChunkLen
  <2> QED  BY <2>1, <2>2
<1>s. \A i \in 0 .. n : \A x : x \in T[i] <=> Ok(i, x)
  <2> TAKE i \in 0 .. n
  <2> TAKE x
  <2>1. T[i] = {y \in S : Ok(i, y)}
    <3> HIDE DEF S, Ok
    <3> QED  OBVIOUS
  <2>2. Ok(i, x) => x \in S
    <3> SUFFICES ASSUME Ok(i, x) PROVE x \in S  OBVIOUS
    <3>1. PICK p \in 0 .. LastChunk : x = B3!Tree[b - Bytes(p)][Bytes(p)]  BY DEF Rolled
    <3> QED  BY <3>1
  <2> HIDE DEF S, Ok, T
  <2> QED  BY <2>1, <2>2
<1>1. ASSUME NEW i \in 0 + 1 .. n, NEW x \in T[i - 1]  PROVE F(i, x) \in T[i]
  <2>i. i \in 0 .. n /\ i - 1 \in 0 .. n /\ i \in Nat /\ i # 0  BY <1>b
  <2>1. Ok(i - 1, x)
    <3> HIDE DEF T, Ok
    <3> QED  BY <1>1, <1>s, <2>i
  <2>2. PICK p \in 0 .. LastChunk : B3!OneBits[p] = n - (i - 1) /\ Prefix(s, p) /\ Rolled(x, p, b)
    BY <2>1
  <2>3. p \in 1 .. LastChunk
    <3>1. p # 0
      <4>1. B3!OneBits[0] = 0  BY PopcntIs
      <4>2. n - (i - 1) # 0  BY <1>b, <2>i
      <4> QED  BY <2>2, <4>1, <4>2
    <3> QED  BY <1>b, <3>1
  <2> DEFINE q == p - B3!LowBit(p)
             y == B3!parent_output(<<s[B3!OneBits[p]], B3!output_chaining_value(x)>>)
  <2>4. q \in 0 .. LastChunk /\ Prefix(s, q) /\ B3!OneBits[p] = B3!OneBits[q] + 1 /\ Rolled(y, q, b)
    BY <2>2, <2>3, RollStep
  <2>5. F(i, x) = y
    <3>1. B3!OneBits[p] = n - i + 1
      <4>1. n - (i - 1) = n - i + 1  BY <1>b, <2>i
      <4> QED  BY <2>2, <4>1
    <3> QED  BY <3>1, Zenon
  <2> HIDE DEF q, y
  <2>6. B3!OneBits[q] = n - i
    <3>1. B3!OneBits[q] \in Nat  BY <2>4, CanonicalType
    <3> QED  BY <1>b, <2>i, <2>2, <2>4, <3>1
  <2>7. Ok(i, F(i, x))
    <3> HIDE DEF F
    <3> QED  BY <2>4, <2>5, <2>6
  <2> HIDE DEF T, Ok, F
  <2> QED  BY <1>s, <2>i, <2>7
<1>2. start \in T[0]
  <2>1. B3!OneBits[p0] = n - 0  BY <1>b
  <2>2. Ok(0, start)  BY <2>1
  <2>3. 0 \in 0 .. n  BY <1>b
  <2> HIDE DEF T, Ok
  <2> QED  BY <1>s, <2>2, <2>3
<1>3. PICK f : Iterates(f, 0, n, S, T, start, step)
  <2>1. \A i \in 0 .. n : T[i] \subseteq S
    <3> HIDE DEF S, Ok
    <3> QED  OBVIOUS
  <2>2. \A i \in 0 + 1 .. n : step[i] \in [T[i - 1] -> T[i]]
    <3> TAKE i \in 0 + 1 .. n
    <3>1. step[i] = [x \in T[i - 1] |-> F(i, x)]
      <4> HIDE DEF T, F
      <4> QED  OBVIOUS
    <3> HIDE DEF T, F, step
    <3> QED  BY <1>1, <3>1
  <2>3. 0 \in Int /\ n \in Int  BY <1>b
  <2> HIDE DEF T, S, step
  <2>4. Steps(0, n, S, T, start, step)  BY <1>2, <2>1, <2>2, <2>3 DEF Steps
  <2> QED  BY <2>4, StepFunction
<1>4. Is(f)
  <2> HIDE DEF S, T, F
  <2>1. f \in [0 .. n -> S]  BY <1>3 DEF Iterates
  <2>2. \A i \in 0 .. n : f[i] = IF i = 0 THEN start ELSE step[i][f[i - 1]]  BY <1>3 DEF Iterates
  <2>3. \A i \in 0 .. n : i # 0 => i \in 0 + 1 .. n /\ i - 1 \in 0 .. n  BY <1>b
  <2>4. \A i \in 0 .. n : f[i] \in T[i]  BY <1>3 DEF Iterates
  <2>5. \A i \in 0 .. n : i # 0 => step[i][f[i - 1]] = F(i, f[i - 1])  BY <2>3, <2>4
  <2> HIDE DEF step
  <2>6. f = [i \in 0 .. n |-> f[i]]  BY <2>1
  <2>7. \A i \in 0 .. n : f[i] = IF i = 0 THEN start ELSE F(i, f[i - 1])  BY <2>2, <2>5
  <2> QED  BY <2>6, <2>7
<1>5. Is(up)
  <2> HIDE DEF Is
  <2> QED  BY <1>4, Zenon
<1>6. Ok(n, up[n])
  <2> HIDE DEF S, F, Ok, up
  <2> DEFINE M == {i \in 0 .. n : up[i] \in T[i]}
  <2>1. 0 \in M
    <3>1. 0 \in 0 .. n  BY <1>b
    <3>2. up[0] = start  BY <1>5, <3>1
    <3> HIDE DEF T
    <3> QED  BY <1>2, <3>1, <3>2
  <2>2. ASSUME NEW i \in 0 .. n - 1, i \in M  PROVE i + 1 \in M
    <3>1. i + 1 \in 0 + 1 .. n /\ (i + 1) - 1 = i /\ i + 1 \in 0 .. n /\ i + 1 # 0  BY <1>b
    <3>2. up[i + 1] = F(i + 1, up[i])  BY <1>5, <3>1
    <3> HIDE DEF T, Is
    <3>3. up[i] \in T[(i + 1) - 1]  BY <2>2, <3>1
    <3>4. F(i + 1, up[i]) \in T[i + 1]  BY <1>1, <3>1, <3>3
    <3> QED  BY <3>1, <3>2, <3>4
  <2>3. 0 \in Int /\ n \in Int /\ n \in 0 .. n  BY <1>b
  <2>4. up[n] \in T[n]
    <3> HIDE DEF M
    <3>1. \A i \in 0 .. n : i \in M  BY <2>1, <2>2, <2>3, IntervalInduction
    <3> HIDE DEF T
    <3> QED  BY <2>3, <3>1 DEF M
  <2> HIDE DEF T, Is
  <2> QED  BY <1>s, <2>3, <2>4
<1>7. PICK p \in 0 .. LastChunk : B3!OneBits[p] = n - n /\ Prefix(s, p) /\ Rolled(up[n], p, b)
  <2> HIDE DEF up
  <2> QED  BY <1>6
<1>8. p = 0
  <2>0. SUFFICES ASSUME p # 0 PROVE FALSE  OBVIOUS
  <2>1. p \in 1 .. LastChunk  BY <1>b, <2>0
  <2>2. B3!OneBits[p] = B3!OneBits[p - B3!LowBit(p)] + 1 /\ p - B3!LowBit(p) \in 0 .. LastChunk
    <3> HIDE DEF up
    <3> QED  BY <1>7, <2>1, RollStep
  <2>3. B3!OneBits[p - B3!LowBit(p)] \in Nat  BY <2>2, CanonicalType
  <2>4. B3!OneBits[p] = 0  BY <1>7, <1>b
  <2> QED  BY <2>2, <2>3, <2>4
<1>9. up[n] = B3!Tree[b][0]
  <2>1. Bytes(0) = 0 /\ b - 0 = b  BY <1>b, BytesOf
  <2> HIDE DEF up
  <2> QED  BY <1>7, <1>8, <2>1 DEF Rolled
<1> QED  BY <1>m, <1>9

\* finalize is that loop and the root flag.
LEMMA FinalizeParts ==
    ASSUME NEW c, NEW s
    PROVE  B3!blake3_hasher_finalize(c, s)
             = B3!output_root_bytes(
                 IF s = <<>> THEN B3!chunk_state_output(c)
                 ELSE Roll(s, IF B3!chunk_state_len(c) > 0 THEN Len(s) ELSE Len(s) - 2,
                           IF B3!chunk_state_len(c) > 0 THEN B3!chunk_state_output(c)
                           ELSE B3!parent_output(<<s[Len(s) - 1], s[Len(s)]>>)))
BY Zenon DEF B3!blake3_hasher_finalize, Roll

\* The digest of the bytes given so far.
LEMMA FinalizeIs ==
    ASSUME NEW n \in Nat, NEW s, NEW b \in 0 .. MaxTree, Good(n, s, b)
    PROVE  B3!blake3_hasher_finalize(ChunkAt(n, b - Bytes(n)), s) = B3!output_root_bytes(B3!Tree[b][0])
<1> DEFINE y == Bytes(n)
           l == b - y
           c == ChunkAt(n, l)
           final == B3!blake3_hasher_finalize(c, s)
           root == B3!Tree[b][0]
<1>0. /\ CHUNK_LEN \in Nat \ {0} /\ MaxTree \in Nat /\ y \in Nat /\ LastChunk \in Nat
      /\ b \in Nat /\ y <= b /\ l \in 0 .. CHUNK_LEN /\ l \in Nat /\ l <= MaxTree
      /\ n \in 0 .. LastChunk
  <2>1. CHUNK_LEN \in Nat \ {0} /\ MaxTree \in Nat /\ y \in Nat /\ LastChunk \in Nat
    BY ChunkLen, BytesOf, LastChunkIs
  <2>2. y <= b /\ b - y <= CHUNK_LEN  BY DEF Good
  <2>3. n \in 0 .. LastChunk  BY <2>2, InChunks
  <2> HIDE DEF y
  <2> QED  BY <2>1, <2>2, <2>3
<1>g. s \in Stacks(n) /\ (b = y => n = 0 \/ s \in Open(n)) /\ (b # y => s = B3!Canonical[n])
  BY DEF Good
<1>1. B3!chunk_state_len(c) = l
  <2> HIDE DEF l
  <2> QED  BY <1>0, ChunkLenIs
<1>2. B3!chunk_state_output(c) = B3!Tree[l][Bytes(n)]
  <2> HIDE DEF l
  <2> QED  BY <1>0, OutputOfTree
<1>3. final = B3!output_root_bytes(
                 IF s = <<>> THEN B3!chunk_state_output(c)
                 ELSE Roll(s, IF B3!chunk_state_len(c) > 0 THEN Len(s) ELSE Len(s) - 2,
                           IF B3!chunk_state_len(c) > 0 THEN B3!chunk_state_output(c)
                           ELSE B3!parent_output(<<s[Len(s) - 1], s[Len(s)]>>)))
  <2> HIDE DEF c
  <2> QED  BY FinalizeParts
<1>4. ASSUME n = 0  PROVE final = B3!output_root_bytes(root)
  <2>1. s = <<>>  BY <1>g, <1>4 DEF Stacks
  <2>2. y = 0  BY <1>4, BytesOf
  <2>3. l = b /\ Bytes(n) = 0
    <3>1. Bytes(n) = 0  BY <2>2
    <3> HIDE DEF y
    <3> QED  BY <1>0, <2>2, <3>1
  <2> HIDE DEF c, l, y, final
  <2> QED  BY <1>2, <1>3, <2>1, <2>3
<1>5. ASSUME n # 0  PROVE final = B3!output_root_bytes(root)
  <2>1. n \in 1 .. LastChunk  BY <1>0, <1>5
  <2>2. s # <<>> /\ Len(s) \in Nat \ {0}
    <3>1. Len(s) \in Nat \ {0}  BY <1>g, <2>1, MergeStep
    <3> QED  BY <3>1
  <2>3. ASSUME l # 0  PROVE final = B3!output_root_bytes(root)
    <3>1. y < b /\ b # y /\ l > 0 /\ b - Bytes(n) = l
      <4>1. b - Bytes(n) = l  OBVIOUS
      <4> HIDE DEF y
      <4> QED  BY <1>0, <2>3, <4>1
    <3>2. s = B3!Canonical[n]  BY <1>g, <3>1
    <3>3. Prefix(s, n) /\ Len(s) = B3!OneBits[n]  BY <1>0, <3>2, CanonicalType DEF Prefix
    <3>4. CHUNK_LEN <= Bytes(B3!LowBit(n))
      <4>1. Top \in Nat /\ n \in 0 .. Top - 1  BY <1>0, LastChunkIs, ChunkLen
      <4>2. n \in 1 .. Top - 1
        <5> HIDE DEF y, l
        <5> QED  BY <2>1, <4>1
      <4>3. B3!LowBit(n) \in Nat \ {0}  BY <4>2, WithoutLow
      <4> DEFINE g == B3!LowBit(n)
      <4> HIDE DEF g
      <4>4. g \in Nat \ {0}  BY <4>3 DEF g
      <4>5. g = 1 \/ 1 < g  BY <4>4
      <4>6. Bytes(1) = CHUNK_LEN /\ Bytes(g) \in Nat /\ (1 < g => Bytes(1) + CHUNK_LEN <= Bytes(g))
        BY <4>4, BytesOf
      <4>7. CHUNK_LEN <= Bytes(g)
        <5>1. g = 1 => Bytes(g) = CHUNK_LEN  BY <4>6
        <5> QED  BY <1>0, <4>5, <4>6, <5>1
      <4> QED  BY <4>7 DEF g
    <3>5. b - Bytes(n) <= Bytes(B3!LowBit(n))
      <4>1. n \in Nat /\ B3!LowBit(n) \in Nat
        <5>1. Top \in Nat /\ n \in 0 .. Top - 1  BY <1>0, LastChunkIs, ChunkLen
        <5>2. n \in 1 .. Top - 1
          <6> HIDE DEF y, l
          <6> QED  BY <2>1, <5>1
        <5> QED  BY <5>2, WithoutLow
      <4>2. Bytes(B3!LowBit(n)) \in Nat  BY <4>1, BytesOf
      <4> HIDE DEF l, y
      <4> QED  BY <1>0, <3>1, <3>4, <4>2
    <3>6. Rolled(B3!Tree[l][Bytes(n)], n, b)
      <4>1. Bytes(n) < b  BY <3>1
      <4> HIDE DEF l, y
      <4> QED  BY <3>1, <3>5, <4>1 DEF Rolled
    <3>7. Roll(s, Len(s), B3!Tree[l][Bytes(n)]) = root
      <4> HIDE DEF l, y
      <4> QED  BY <1>0, <3>3, <3>6, RollUp
    <3> HIDE DEF c, l, y, final, root
    <3> QED  BY <1>1, <1>2, <1>3, <2>2, <3>1, <3>7
  <2>4. ASSUME l = 0  PROVE final = B3!output_root_bytes(root)
    <3>1. b = y /\ ~(l > 0)
      <4> HIDE DEF y
      <4> QED  BY <1>0, <2>4
    <3>2. s \in Open(n)  BY <1>5, <1>g, <3>1
    <3>3. PICK h \in OnTop(n) : h < n /\ s = Pending(n - h, h)  BY <3>2 DEF Open
    <3> DEFINE m == n - h
    <3>4. h \in Power /\ h \in Nat \ {0} /\ h <= n /\ Divides(h, n) /\ Divides(h, h)
      BY Powers, DividesSelf DEF OnTop
    <3>5. m \in 1 .. LastChunk /\ m + h = n /\ m \in Nat /\ m + h <= LastChunk
      <4> HIDE DEF l, y
      <4> QED  BY <1>0, <3>3, <3>4
    <3>6. Divides(h, m)  BY <3>4, DividesDifference
    <3>7. Top \in Nat /\ LastChunk \in 0 .. Top - 1
      <4>1. LastChunk \in 0 .. LastChunk  BY <1>0
      <4> QED  BY <4>1, LastChunkIs, ChunkLen
    <3> HIDE DEF m
    <3>8. m \in 1 .. Top - 1
      <4> HIDE DEF l, y
      <4> QED  BY <3>5, <3>7
    <3>9. h <= B3!LowBit(m) /\ B3!LowBit(m) \in Nat  BY <3>4, <3>6, <3>8, DividesBelowLow, WithoutLow
    <3> DEFINE g == B3!LowBit(m)
               x == B3!Tree[Bytes(h)][Bytes(m)]
    <3>10. s = Append(B3!Canonical[m], B3!Subtree(m, h))  BY <3>3 DEF m, Pending
    <3>11. /\ B3!Subtree(m, h) \in Value /\ B3!Canonical[m] \in Seq(Value)
           /\ Len(s) = B3!OneBits[m] + 1 /\ Len(s) = Len(B3!Canonical[m]) + 1 /\ B3!OneBits[m] \in Nat
      <4>1. s = Pending(m, h)  BY <3>3 DEF m
      <4>2. h \in Nat  BY <3>4
      <4> QED  BY <3>5, <4>1, <4>2, PendingIs
    <3>12. Prefix(s, m) /\ s[Len(s)] = B3!Subtree(m, h)
      <4> DEFINE cm == B3!Canonical[m]
                 v == B3!Subtree(m, h)
      <4> HIDE DEF cm, v, l, y
      <4>1. s = Append(cm, v) /\ cm \in Seq(Value) /\ v \in Value  BY <3>10, <3>11 DEF cm, v
      <4>2. s[Len(s)] = v /\ \A j \in 1 .. Len(cm) : s[j] = cm[j]  BY <4>1
      <4> QED  BY <4>2 DEF cm, v, Prefix
    <3>13. Rolled(x, m, b)
      <4> DEFINE bm == Bytes(m)
                 bh == Bytes(h)
                 bg == Bytes(g)
      <4>1. bm \in Nat /\ bh \in Nat /\ bg \in Nat /\ bm + bh = y /\ h <= bh
        <5>1. Bytes(m + h) = Bytes(m) + Bytes(h)  BY <3>4, <3>5, BytesOf
        <5> QED  BY <3>4, <3>5, <3>9, <5>1, BytesOf
      <4>2. bh <= bg
        <5> HIDE DEF g
        <5>0. h \in Nat /\ g \in Nat /\ h <= g  BY <3>4, <3>9 DEF g
        <5>1. h < g => Bytes(h) + CHUNK_LEN <= Bytes(g)  BY <5>0, BytesOf
        <5>2. h = g => Bytes(h) = Bytes(g)  OBVIOUS
        <5>3. Bytes(h) <= Bytes(g)
          <6>1. Bytes(h) \in Nat /\ Bytes(g) \in Nat  BY <5>0, BytesOf
          <6> HIDE DEF l, y
          <6> QED  BY <1>0, <5>0, <5>1, <5>2, <6>1
        <5> QED  BY <5>3
      <4> HIDE DEF bm, bh, bg, y
      <4>3. bm < b /\ b - bm = bh  BY <1>0, <3>1, <3>4, <4>1
      <4>4. Bytes(m) < b /\ b - Bytes(m) = Bytes(h) /\ b - Bytes(m) <= Bytes(B3!LowBit(m))
        BY <4>2, <4>3 DEF bm, bh, bg
      <4> QED  BY <4>4 DEF Rolled
    <3> DEFINE q == m - g
               start == B3!parent_output(<<s[Len(s) - 1], s[Len(s)]>>)
    <3>14. start = B3!parent_output(<<s[B3!OneBits[m]], B3!output_chaining_value(x)>>)
      <4>1. Len(s) - 1 = B3!OneBits[m]  BY <3>11
      <4>2. s[Len(s)] = B3!output_chaining_value(x)  BY <3>12, SubtreeIs
      <4> HIDE DEF x
      <4> QED  BY <4>1, <4>2
    <3>15. /\ q \in 0 .. LastChunk /\ Prefix(s, q) /\ B3!OneBits[m] = B3!OneBits[q] + 1
           /\ Rolled(start, q, b)
      <4> HIDE DEF l, y, start, x
      <4>1. b \in 0 .. MaxTree  OBVIOUS
      <4> QED  BY <3>5, <3>12, <3>13, <3>14, <4>1, RollStep
    <3>16. Len(s) - 2 = B3!OneBits[q]
      <4>1. B3!OneBits[q] \in Nat  BY <3>15, CanonicalType
      <4> HIDE DEF l, y, q
      <4> QED  BY <3>11, <3>15, <4>1
    <3>17. Roll(s, Len(s) - 2, start) = root
      <4> HIDE DEF l, y, q, start
      <4> QED  BY <3>15, <3>16, RollUp
    <3> HIDE DEF c, l, y, final, root
    <3> QED  BY <1>1, <1>3, <2>2, <3>1, <3>17
  <2> QED  BY <2>3, <2>4
<1> QED  BY <1>4, <1>5

-----------------------------------------------------------------------------
(* The invariant of BLAKE3 *)

Blake3Inv ==
    /\ Degree \in Degrees /\ bfed \in 0 .. MaxTree
    /\ Settled(chunk, stack, bfed)
    /\ B3!DigestOfTree

LEMMA SettledStart == Settled(B3!chunk_state_reset(0), <<>>, 0)
<1>1. Bytes(0) = 0 /\ 0 - Bytes(0) = 0 /\ CHUNK_LEN \in Nat  BY BytesOf, ChunkLen
<1>2. <<>> \in Stacks(0)  BY DEF Stacks
<1>3. Good(0, <<>>, 0)  BY <1>1, <1>2 DEF Good
<1>4. B3!chunk_state_reset(0) = ChunkAt(0, 0 - Bytes(0))  BY <1>1, ResetIs
<1>5. 0 \in Nat  OBVIOUS
<1> QED  BY <1>3, <1>4, <1>5, Zenon DEF Settled

LEMMA Blake3Start == B3!Init => Blake3Inv
<1> SUFFICES ASSUME B3!Init PROVE Blake3Inv  OBVIOUS
<1>1. /\ Degree \in Degrees /\ chunk = B3!chunk_state_reset(0) /\ stack = <<>>
      /\ bfed = 0 /\ bdigest = B3!NoDigest
  BY DEF B3!Init
<1>2. MaxTree \in Nat  BY ChunkLen
<1>3. B3!DigestOfTree  BY <1>1 DEF B3!DigestOfTree
<1> QED  BY <1>1, <1>2, <1>3, SettledStart DEF Blake3Inv

LEMMA Blake3UpdateNext ==
    ASSUME Blake3Inv, NEW k \in 0 .. MaxTree, B3!Update(k)
    PROVE  Blake3Inv'
<1> DEFINE input == [i \in 1 .. k |-> Data[bfed + i]]
           h == B3!blake3_hasher_update(chunk, stack, input)
<1>1. /\ bdigest = B3!NoDigest /\ bfed + k <= MaxTree
      /\ chunk' = h.c /\ stack' = h.s /\ bfed' = bfed + k /\ Degree' = Degree /\ bdigest' = bdigest
  BY Zenon DEF B3!Update
<1>2. input = Piece(bfed, k)  BY DEF Piece
<1>3. bfed \in Nat /\ k \in Nat /\ MaxTree \in Nat /\ bfed \in 0 .. MaxTree /\ Degree \in Degrees
  BY ChunkLen DEF Blake3Inv
<1>4. PICK n \in Nat : chunk = ChunkAt(n, bfed - Bytes(n)) /\ Good(n, stack, bfed)
  BY DEF Blake3Inv, Settled
<1>5. LET g == B3!blake3_hasher_update(ChunkAt(n, bfed - Bytes(n)), stack, Piece(bfed, k))
      IN  Settled(g.c, g.s, bfed + k)
  BY <1>1, <1>3, <1>4, HasherUpdateIs
<1>6. Settled(h.c, h.s, bfed + k)
  <2> HIDE DEF input
  <2> QED  BY <1>2, <1>4, <1>5, Zenon
<1> HIDE DEF h
<1>7. Settled(chunk, stack, bfed)'  BY <1>1, <1>6
<1>8. bfed' \in 0 .. MaxTree  BY <1>1, <1>3
<1>9. B3!DigestOfTree'  BY <1>1 DEF B3!DigestOfTree
<1> QED  BY <1>1, <1>3, <1>7, <1>8, <1>9 DEF Blake3Inv

LEMMA Blake3InvNext == Blake3Inv /\ [B3!Next]_(B3!vars) => Blake3Inv'
<1> SUFFICES ASSUME Blake3Inv, [B3!Next]_(B3!vars) PROVE Blake3Inv'  OBVIOUS
<1>0. /\ Degree \in Degrees /\ bfed \in 0 .. MaxTree /\ Settled(chunk, stack, bfed)
      /\ MaxTree \in Nat
  BY ChunkLen DEF Blake3Inv
<1>1. CASE B3!Starts
  <2>1. /\ chunk' = B3!chunk_state_reset(0) /\ stack' = <<>> /\ bfed' = 0
        /\ bdigest' = B3!NoDigest /\ Degree' = Degree
    BY <1>1 DEF B3!Starts
  <2>2. Settled(chunk, stack, bfed)'  BY <2>1, SettledStart
  <2>3. B3!DigestOfTree'  BY <2>1 DEF B3!DigestOfTree
  <2> QED  BY <1>0, <2>1, <2>2, <2>3 DEF Blake3Inv
<1>2. CASE B3!Finish
  <2>1. /\ bdigest' = B3!blake3_hasher_finalize(chunk, stack)
        /\ Degree' = Degree /\ chunk' = chunk /\ stack' = stack /\ bfed' = bfed
    BY <1>2 DEF B3!Finish
  <2>2. PICK n \in Nat : chunk = ChunkAt(n, bfed - Bytes(n)) /\ Good(n, stack, bfed)
    BY <1>0 DEF Settled
  <2>3. B3!blake3_hasher_finalize(chunk, stack) = B3!output_root_bytes(B3!Tree[bfed][0])
    BY <1>0, <2>2, FinalizeIs
  <2>4. B3!DigestOfTree'  BY <2>1, <2>3 DEF B3!DigestOfTree
  <2>5. Settled(chunk, stack, bfed)'  BY <1>0, <2>1
  <2> QED  BY <1>0, <2>1, <2>4, <2>5 DEF Blake3Inv
<1>3. ASSUME NEW k \in 0 .. MaxTree, B3!Update(k)  PROVE Blake3Inv'
  BY <1>3, Blake3UpdateNext
<1>4. CASE UNCHANGED B3!vars
  <2>1. /\ Degree' = Degree /\ chunk' = chunk /\ stack' = stack /\ bfed' = bfed
        /\ bdigest' = bdigest
    BY <1>4 DEF B3!vars
  <2>2. Settled(chunk, stack, bfed)'  BY <1>0, <2>1
  <2>3. B3!DigestOfTree  BY DEF Blake3Inv
  <2>4. B3!DigestOfTree'  BY <2>1, <2>3 DEF B3!DigestOfTree
  <2> QED  BY <1>0, <2>1, <2>2, <2>4 DEF Blake3Inv
<1> QED  BY <1>1, <1>2, <1>3, <1>4 DEF B3!Next

LEMMA Blake3InvAlways == B3!Spec => []Blake3Inv
<1> QED  BY Blake3Start, Blake3InvNext, PTL DEF B3!Spec

LEMMA Blake3Alone == AnySpec => [](machine # "blake3") \/ B3!Spec
<1>1. machine # "blake3" /\ [AnyNext]_allVars => (machine # "blake3")'
  BY DEF AnyNext, allVars
<1>2. machine = "blake3" /\ [AnyNext]_allVars
         => (machine = "blake3")' /\ [B3!Next]_(B3!vars)
  BY DEF AnyNext, allVars, blake3Vars, B3!vars
<1>3. AnyInit => machine # "blake3" \/ (machine = "blake3" /\ B3!Init)
  BY DEF AnyInit
<1> QED  BY <1>1, <1>2, <1>3, PTL DEF AnySpec, B3!Spec

-----------------------------------------------------------------------------
(* What follows from it *)

\* The chunk state counts what it holds, in a chunk and in a block.
LEMMA ChunkFields ==
    ASSUME NEW n \in Nat, NEW l \in 0 .. CHUNK_LEN
    PROVE  /\ ChunkAt(n, l).buf_len \in 0 .. BLOCK_LEN
           /\ DOMAIN ChunkAt(n, l).buf = 1 .. BLOCK_LEN
           /\ ChunkAt(n, l).chunk_counter = n
           /\ B3!chunk_state_len(ChunkAt(n, l)) = l
<1>1. l \in Nat /\ BLOCK_LEN \in Nat  BY ChunkLen, BlockBytesOf
<1>2. B3!DirectBlocks(l) \in Nat /\ l - BlockBytes(B3!DirectBlocks(l)) \in 0 .. BLOCK_LEN
  BY <1>1, DirectBlocksAre
<1>3. B3!chunk_state_len(ChunkAt(n, l)) = l /\ ChunkAt(n, l).chunk_counter = n  BY <1>1, ChunkLenIs
<1> DEFINE d == B3!DirectBlocks(l)
           w == l - BlockBytes(d)
<1>4. w \in 0 .. BLOCK_LEN  BY <1>2
<1>5. ChunkAt(n, l) = StateAt(n, d, w)  BY DEF ChunkAt
<1> HIDE DEF d, w
<1>6. StateAt(n, d, w).buf_len = w /\ StateAt(n, d, w).buf = BufAt(n, d, w)  BY DEF StateAt
<1>7. DOMAIN BufAt(n, d, w) = 1 .. BLOCK_LEN  BY DEF BufAt
<1> QED  BY <1>3, <1>4, <1>5, <1>6, <1>7

LEMMA Blake3Consequences == Blake3Inv => B3!TypeOK /\ B3!StackIsCanonical /\ B3!RootIsOpen
<1> SUFFICES ASSUME Blake3Inv PROVE B3!TypeOK /\ B3!StackIsCanonical /\ B3!RootIsOpen  OBVIOUS
<1>1. bfed \in 0 .. MaxTree /\ MaxTree \in Nat /\ CHUNK_LEN \in Nat /\ LastChunk \in Nat
  BY ChunkLen, LastChunkIs DEF Blake3Inv
<1>2. PICK n \in Nat : chunk = ChunkAt(n, bfed - Bytes(n)) /\ Good(n, stack, bfed)
  BY DEF Blake3Inv, Settled
<1> DEFINE y == Bytes(n)
           l == bfed - y
<1>3. /\ stack \in Stacks(n) /\ y <= bfed /\ bfed - y <= CHUNK_LEN
      /\ bfed = y => n = 0 \/ stack \in Open(n)
      /\ bfed # y => stack = B3!Canonical[n]
  BY <1>2 DEF Good
<1>4. y \in Nat /\ n \in 0 .. LastChunk  BY <1>1, <1>3, BytesOf, InChunks
<1> HIDE DEF y
<1>5. l \in 0 .. CHUNK_LEN /\ l + y = bfed /\ (l = 0 <=> bfed = y)  BY <1>1, <1>3, <1>4
<1>6. chunk = ChunkAt(n, l)  BY <1>2 DEF y
<1> HIDE DEF l
<1>7. /\ chunk.buf_len \in 0 .. BLOCK_LEN /\ DOMAIN chunk.buf = 1 .. BLOCK_LEN
      /\ chunk.chunk_counter = n /\ B3!chunk_state_len(chunk) = l
  BY <1>5, <1>6, ChunkFields
<1>8. B3!TypeOK
  <2>1. Len(stack) <= MAX_DEPTH + 1  BY <1>3, <1>4, StackFits
  <2>2. l + n * CHUNK_LEN = bfed  BY <1>5 DEF y, Bytes
  <2> QED  BY <1>5, <1>7, <2>1, <2>2 DEF B3!TypeOK
<1>9. B3!StackIsCanonical  BY <1>3, <1>4, <1>7, Merged DEF B3!StackIsCanonical
<1>10. B3!RootIsOpen
  <2>1. ASSUME l = 0, bfed > 0  PROVE Len(stack) >= 2
    <3>1. n # 0
      <4>1. Bytes(0) = 0  BY BytesOf
      <4> QED  BY <1>5, <2>1, <4>1 DEF y
    <3>2. PICK h \in OnTop(n) : h < n /\ stack = Pending(n - h, h)
      BY <1>3, <1>5, <2>1, <3>1 DEF Open
    <3>3. h \in Nat \ {0}  BY Powers DEF OnTop
    <3> DEFINE m == n - h
    <3>4. m \in 1 .. LastChunk /\ m + h <= LastChunk /\ m \in Nat /\ h \in Nat  BY <1>1, <1>4, <3>2, <3>3
    <3>5. stack = Pending(m, h)  BY <3>2
    <3> HIDE DEF m
    <3>6. Len(stack) = B3!OneBits[m] + 1 /\ Len(stack) = Len(B3!Canonical[m]) + 1
      BY <3>4, <3>5, PendingIs
    <3>7. B3!Canonical[m] \in Stacks(m)
      <4>1. B3!LowBit(m) \in OnTop(m) /\ B3!Canonical[m] = Pending(m - B3!LowBit(m), B3!LowBit(m))
        BY <3>4, LowOnTop
      <4>2. m # 0  BY <3>4
      <4> QED  BY <4>1, <4>2 DEF Stacks
    <3>8. Len(B3!Canonical[m]) \in Nat \ {0}  BY <3>4, <3>7, MergeStep
    <3> QED  BY <3>6, <3>8
  <2>2. ASSUME l # 0  PROVE Len(stack) = B3!OneBits[n]
    BY <1>3, <1>4, <1>5, <2>2, CanonicalType
  <2> QED  BY <1>7, <2>1, <2>2 DEF B3!RootIsOpen, B3!popcnt
<1> QED  BY <1>8, <1>9, <1>10

\* The chunk state counts what it holds, and the stack fits in cv_stack.
THEOREM Blake3TypeCorrect == AnySpec => [](machine = "blake3" => B3!TypeOK)
<1>1. Blake3Inv => (machine = "blake3" => B3!TypeOK)  BY Blake3Consequences
<1>2. machine # "blake3" => (machine = "blake3" => B3!TypeOK)  OBVIOUS
<1> QED  BY <1>1, <1>2, Blake3InvAlways, Blake3Alone, PTL

\* Both hashers keep their counters within their buffers.
THEOREM AllTypeCorrect == ASSUME SkipsAreNumbers PROVE AnySpec => []Typed
<1>1. (machine = "blake3" => B3!TypeOK) /\ (machine = "spookyhash" => Sp!TypeOK) => Typed  BY DEF Typed
<1> QED  BY <1>1, Blake3TypeCorrect, SpookyTypeCorrect, PTL

\* However the message is cut, the subtrees on the stack are those of the
\* chunks hashed so far, once the merges that were put off are done.
THEOREM StackCanonical == AnySpec => []StackIsCanonical
<1>1. Blake3Inv => StackIsCanonical  BY Blake3Consequences DEF StackIsCanonical
<1>2. machine # "blake3" => StackIsCanonical  BY DEF StackIsCanonical
<1> QED  BY <1>1, <1>2, Blake3InvAlways, Blake3Alone, PTL

\* What may turn out to be the root stays two values until finalize.
THEOREM RootOpen == AnySpec => []RootIsOpen
<1>1. Blake3Inv => RootIsOpen  BY Blake3Consequences DEF RootIsOpen
<1>2. machine # "blake3" => RootIsOpen  BY DEF RootIsOpen
<1> QED  BY <1>1, <1>2, Blake3InvAlways, Blake3Alone, PTL

\* The digest is the root of the tree of the whole message, however it was cut
\* into updates and however many lanes the processor has.
THEOREM Blake3Digest == AnySpec => []DigestOfTree
<1>1. Blake3Inv => DigestOfTree  BY DEF Blake3Inv, DigestOfTree
<1>2. machine # "blake3" => DigestOfTree  BY DEF DigestOfTree
<1> QED  BY <1>1, <1>2, Blake3InvAlways, Blake3Alone, PTL
=============================================================================
