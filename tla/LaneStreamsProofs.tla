-------------------------- MODULE LaneStreamsProofs --------------------------
(***************************************************************************)
(* Proofs about the machines of LaneStreams: XXH3, XXH64, MurmurHash3,     *)
(* Fletcher-32 and the CRCs. Those about XXH32 are in XxhProofs, and       *)
(* XXH64's follow from the same theorems, read with its constants.         *)
(***************************************************************************)
EXTENDS LaneStreams, Foundations, SequenceTheorems, FiniteSetTheorems

\* A part of a sequence, from behind its m-th element on.
LEMMA Part ==
    ASSUME NEW Elem, NEW s \in Seq(Elem), NEW m \in 0 .. Len(s), NEW n \in m .. Len(s)
    PROVE  /\ SubSeq(s, m + 1, n) \in Seq(Elem)
           /\ Len(SubSeq(s, m + 1, n)) = n - m
           /\ \A i \in 1 .. n - m : SubSeq(s, m + 1, n)[i] = s[m + i]
<1>1. \A i \in m + 1 .. n : s[i] \in Elem  OBVIOUS
<1>2. m \in Int /\ n \in Int /\ m + 1 \in Int /\ m <= n /\ m >= 0  OBVIOUS
<1>3. n - (m + 1) + 1 = n - m /\ \A i \in 1 .. n - m : (m + 1) + i - 1 = m + i
  BY <1>2
<1>4. /\ SubSeq(s, m + 1, n) \in Seq(Elem)
      /\ Len(SubSeq(s, m + 1, n)) = IF m + 1 <= n THEN n - (m + 1) + 1 ELSE 0
      /\ \A i \in 1 .. n - (m + 1) + 1 : SubSeq(s, m + 1, n)[i] = s[(m + 1) + i - 1]
  BY <1>1, <1>2, SubSeqProperties
<1> QED  BY <1>2, <1>3, <1>4

\* A function on the first n positions is a sequence.
LEMMA FunctionSeq ==
    ASSUME NEW Elem, NEW n \in Nat, NEW f \in [1 .. n -> Elem]
    PROVE  f \in Seq(Elem) /\ Len(f) = n
<1>1. f \in Seq(Elem)  BY SeqDef
<1> QED  BY <1>1

-----------------------------------------------------------------------------
(* XXH3: the buffer *)

Xxh3Byte == {Data[i] : i \in 1 .. Longest.xxh3} \cup {Garbage}

\* The bytes of the message that stripes have been made of.
Xxh3Base == given - context.size

\* The buffer begins with the rest of the message, never an empty one, and
\* once stripes have been consumed it ends with the last of the bytes before,
\* as many as the rest lacks for a stripe.
Xxh3Holds ==
    /\ context.size <= given /\ (given > 0 => context.size > 0)
    /\ Xxh3Base > 0 => given > Buffer
    /\ \A i \in 1 .. context.size : context.buffer[i] = Data[Xxh3Base + i]
    /\ Xxh3Base > 0 => \A j \in 1 .. Stripe :
          j > context.size => context.buffer[(Buffer - Stripe) + j] = Data[(Xxh3Base - Stripe) + j]

LEMMA Xxh3Constants ==
    ASSUME X3!ConstantsFit
    PROVE  /\ Stripe \in Nat \ {0} /\ Block \in Nat \ {0} /\ Buffer \in Nat
           /\ Buffer >= Stripe + Stripe
           /\ MidSize \in Nat /\ MidSize < Buffer
           /\ Longest.xxh3 \in Nat /\ Piece.xxh3 \in Nat
<1>1. PICK k \in 2 .. Buffer : Buffer = k * Stripe  BY DEF X3!ConstantsFit
<1>2. Stripe \in Nat \ {0} /\ Block \in Nat \ {0} /\ Longest.xxh3 \in Nat /\ Piece.xxh3 \in Nat
  BY DEF X3!ConstantsFit
<1>3. k \in Nat /\ k > 1  BY <1>1
<1>4. k * Stripe >= 1 * Stripe + Stripe  BY <1>2, <1>3, MultiplesApart
<1>5. Buffer \in Nat  BY <1>1, <1>2, <1>3
<1>6. MidSize \in Nat /\ MidSize < Buffer  BY <1>2, <1>5 DEF X3!ConstantsFit
<1> QED  BY <1>1, <1>2, <1>4, <1>5, <1>6

\* XXH_memcpy into the buffer writes the bytes from at+1 on and no other.
LEMMA Xxh3CopyProperties ==
    ASSUME X3!ConstantsFit,
           NEW buffer \in [1 .. Buffer -> Xxh3Byte], NEW s \in Seq(Xxh3Byte), NEW at \in Nat
    PROVE  /\ X3!Copy(buffer, at, s) \in [1 .. Buffer -> Xxh3Byte]
           /\ \A i \in 1 .. Buffer : X3!Copy(buffer, at, s)[i] =
                 IF at < i /\ i <= at + Len(s) THEN s[i - at] ELSE buffer[i]
<1>0. Len(s) \in Nat /\ Buffer \in Nat  BY Xxh3Constants
<1>1. \A i \in 1 .. Buffer : (at < i /\ i <= at + Len(s)) => i - at \in 1 .. Len(s)
  BY <1>0
<1>2. \A i \in 1 .. Len(s) : s[i] \in Xxh3Byte  OBVIOUS
<1> QED  BY <1>0, <1>1, <1>2 DEF X3!Copy

\* A part of a sequence of bytes, from its byte m + 1 on.
LEMMA Xxh3Part ==
    ASSUME NEW s \in Seq(Xxh3Byte), NEW m \in 0 .. Len(s), NEW n \in m .. Len(s)
    PROVE  /\ SubSeq(s, m + 1, n) \in Seq(Xxh3Byte)
           /\ Len(SubSeq(s, m + 1, n)) = n - m
           /\ \A i \in 1 .. n - m : SubSeq(s, m + 1, n)[i] = s[m + i]
BY Part

LEMMA Xxh3InputType ==
    ASSUME X3!ConstantsFit, NEW n \in Nat, NEW k \in Nat, n + k <= Longest.xxh3
    PROVE  /\ [i \in 1 .. k |-> Data[n + i]] \in Seq(Xxh3Byte)
           /\ Len([i \in 1 .. k |-> Data[n + i]]) = k
<1>1. \A i \in 1 .. k : n + i \in 1 .. Longest.xxh3  BY Xxh3Constants
<1>2. \A i \in 1 .. k : Data[n + i] \in Xxh3Byte  BY <1>1 DEF Xxh3Byte
<1> QED  BY <1>2

-----------------------------------------------------------------------------
(* The stripes of the open block *)

LEMMA Xxh3SoFarType ==
    ASSUME X3!ConstantsFit, NEW acc, NEW soFar \in 0 .. Block - 1, NEW input, NEW n \in Nat
    PROVE  X3!XXH3_consumeStripes(acc, soFar, input, n).soFar \in 0 .. Block - 1
<1> DEFINE first == Block - soFar
           q     == (n - first) \div Block
           done  == first + ((1 + q) - 1) * Block
<1>b. Block \in Nat \ {0}  BY Xxh3Constants
<1>1. CASE X3!EndsBlock(n, soFar)
  <2>1. X3!XXH3_consumeStripes(acc, soFar, input, n).soFar = n - done
    BY <1>1 DEF X3!XXH3_consumeStripes
  <2>2. first \in Int /\ n - first \in Int  BY <1>b
  <2>3. /\ q \in Int /\ (n - first) % Block \in 0 .. Block - 1
        /\ n - first = q * Block + ((n - first) % Block)
    <3> DEFINE x == n - first
    <3>1. x \in Int  BY <2>2
    <3> HIDE DEF x
    <3>2. /\ x \div Block \in Int /\ x % Block \in 0 .. Block - 1
          /\ x = (x \div Block) * Block + (x % Block)
      BY <3>1, <1>b, DivMod
    <3> QED  BY <3>2 DEF x
  <2> DEFINE r == (n - first) % Block
             p == q * Block
  <2>4. (1 + q) - 1 = q /\ p \in Int /\ r \in 0 .. Block - 1 /\ n - first = p + r
    BY <2>3, <1>b
  <2>5. done = first + p  BY <2>4
  <2> HIDE DEF q, r, p, done, first
  <2>6. n - done = r  BY <2>2, <2>4, <2>5, <1>b
  <2> QED  BY <2>1, <2>4, <2>6
<1>2. CASE ~X3!EndsBlock(n, soFar)
  <2>1. X3!XXH3_consumeStripes(acc, soFar, input, n).soFar = soFar + n
    BY <1>2 DEF X3!XXH3_consumeStripes
  <2> QED  BY <2>1, <1>2, <1>b DEF X3!EndsBlock
<1> QED  BY <1>1, <1>2

\* How many bytes update takes from the input before the rest: those that fill
\* the buffer, and the stripes taken directly.
Xxh3Load(size) == IF size > 0 THEN Buffer - size ELSE 0
Xxh3Direct(size, len) ==
    IF len - Xxh3Load(size) > Buffer THEN X3!DirectStripes(len - Xxh3Load(size)) ELSE 0
Xxh3Upto(size, len) == Xxh3Load(size) + Xxh3Direct(size, len) * Stripe

\* Something always remains, at most a buffer; a stripe after direct stripes.
LEMMA Xxh3Cut ==
    ASSUME X3!ConstantsFit, NEW size \in 0 .. Buffer, NEW len \in Nat,
           ~X3!StaysBuffered(size, len)
    PROVE  /\ Xxh3Load(size) \in 0 .. len /\ Xxh3Direct(size, len) \in Nat
           /\ Xxh3Upto(size, len) \in Xxh3Load(size) .. len /\ Xxh3Upto(size, len) < len
           /\ len - Xxh3Upto(size, len) <= Buffer
           /\ Xxh3Direct(size, len) = 0 => /\ size > 0 /\ Xxh3Load(size) = Buffer - size
                                       /\ Xxh3Upto(size, len) = Xxh3Load(size)
           /\ Xxh3Direct(size, len) > 0 => Xxh3Upto(size, len) >= Stripe
<1> DEFINE load   == Xxh3Load(size)
           direct == Xxh3Direct(size, len)
           x      == len - load
           q      == (x - 1) \div Stripe
           p      == q * Stripe
<1>1. /\ load \in 0 .. len /\ x \in Nat /\ x > 0
      /\ size > 0 => load = Buffer - size
      /\ size = 0 => load = 0 /\ x > Buffer
  BY Xxh3Constants DEF X3!StaysBuffered, Xxh3Load
<1>b. /\ Stripe \in Nat \ {0} /\ Buffer \in Nat /\ Buffer >= Stripe + Stripe
  BY Xxh3Constants
<1>2. CASE x > Buffer
  <2>1. direct = q  BY <1>2 DEF Xxh3Direct, X3!DirectStripes
  <2> DEFINE y == x - 1
             r == y % Stripe
  <2>2. y \in Int  BY <1>1
  <2>3. /\ y \div Stripe \in Int /\ y % Stripe \in 0 .. Stripe - 1
        /\ y = (y \div Stripe) * Stripe + (y % Stripe)
    <3> HIDE DEF y
    <3> QED  BY <2>2, <1>b, DivMod
  <2>4. q \in Int /\ r \in 0 .. Stripe - 1 /\ x - 1 = p + r /\ p \in Int
    BY <2>3, <1>b
  <2>5. Xxh3Upto(size, len) = load + p  BY <2>1 DEF Xxh3Upto
  <2> HIDE DEF r, y
  <2>6. q > 0 /\ p >= Stripe
    <3> HIDE DEF q, x
    <3>1. p = q * Stripe  OBVIOUS
    <3>2. 0 \in Int /\ 0 * Stripe = 0  BY <1>b
    <3>3. 0 > q => 0 * Stripe >= q * Stripe + Stripe  BY <2>4, <1>b, <3>2, MultiplesApart
    <3> HIDE DEF p
    <3>5. p >= Stripe
      <4>1. x - 1 >= Stripe + Stripe  BY <1>2, <1>1, <1>b
      <4> QED  BY <4>1, <2>4, <1>b, <1>1
    <3>6. q = 0 => p = 0  BY <3>1, <3>2
    <3> QED  BY <3>1, <3>2, <3>3, <3>5, <3>6, <2>4, <1>b
  <2> HIDE DEF q, p
  <2>7. load + p \in load .. len /\ load + p < len /\ len - (load + p) <= Buffer
        /\ load + p >= Stripe
    BY <2>4, <2>6, <1>1, <1>b
  <2> HIDE DEF direct, load
  <2>8. direct \in Nat /\ direct > 0  BY <2>1, <2>4, <2>6
  <2> QED  BY <1>1, <2>5, <2>7, <2>8 DEF direct, load
<1>3. CASE ~ (x > Buffer)
  <2>1. direct = 0  BY <1>3 DEF Xxh3Direct
  <2>2. 0 * Stripe = 0  BY <1>b
  <2>3. Xxh3Upto(size, len) = load  BY <2>1, <2>2, <1>1 DEF Xxh3Upto
  <2>4. size > 0  BY <1>1, <1>3
  <2> HIDE DEF direct, load
  <2> QED  BY <1>1, <1>3, <1>b, <2>1, <2>3, <2>4 DEF direct, load
<1> QED  BY <1>2, <1>3

-----------------------------------------------------------------------------
(* The update *)

\* What an update with k bytes starts from.
LEMMA Xxh3Before ==
    ASSUME X3!ConstantsFit, X3!TypeOK, Xxh3Holds, NEW k \in 0 .. Piece.xxh3, X3!Update(k)
    PROVE  LET input == [i \in 1 .. k |-> Data[given + i]]
           IN  /\ k \in Nat /\ given \in Nat /\ given + k \in 0 .. Longest.xxh3 /\ given' = given + k
               /\ input \in Seq(Xxh3Byte) /\ Len(input) = k
               /\ \A i \in 1 .. k : input[i] = Data[given + i]
               /\ context' = X3!XXH3_update(context, input)
               /\ context.size \in 0 .. Buffer /\ context.size \in Nat
               /\ Xxh3Base \in Nat /\ given = Xxh3Base + context.size
               /\ context.buffer \in [1 .. Buffer -> Xxh3Byte]
               /\ context.soFar \in 0 .. Block - 1
<1> DEFINE input == [i \in 1 .. k |-> Data[given + i]]
<1>1. /\ k \in Nat /\ given \in Nat /\ given + k \in 0 .. Longest.xxh3 /\ given' = given + k
      /\ given + k <= Longest.xxh3
  BY Xxh3Constants DEF X3!TypeOK, X3!Update
<1>2. input \in Seq(Xxh3Byte) /\ Len(input) = k  BY <1>1, Xxh3InputType
<1>3. \A i \in 1 .. k : input[i] = Data[given + i]  OBVIOUS
<1>4. context' = X3!XXH3_update(context, input)  BY DEF X3!Update
<1> HIDE DEF input
<1>5. /\ context.size \in 0 .. Buffer /\ context.size \in Nat
      /\ Xxh3Base \in Nat /\ given = Xxh3Base + context.size
  BY <1>1, Xxh3Constants DEF X3!TypeOK, Xxh3Holds, Xxh3Base
<1>6. context.buffer \in [1 .. Buffer -> Xxh3Byte] /\ context.soFar \in 0 .. Block - 1
  BY DEF X3!TypeOK, Xxh3Byte
<1> QED  BY <1>1, <1>2, <1>3, <1>4, <1>5, <1>6 DEF input

\* The input fits in the buffer.
LEMMA Xxh3Buffered ==
    ASSUME X3!ConstantsFit, X3!TypeOK, Xxh3Holds, NEW k \in 0 .. Piece.xxh3, X3!Update(k),
           X3!StaysBuffered(context.size, k)
    PROVE  X3!TypeOK' /\ Xxh3Holds'
<1> DEFINE input == [i \in 1 .. k |-> Data[given + i]]
           size  == context.size
           m     == X3!Copy(context.buffer, size, input)
<1>1. /\ k \in Nat /\ given \in Nat /\ given + k \in 0 .. Longest.xxh3 /\ given' = given + k
      /\ input \in Seq(Xxh3Byte) /\ Len(input) = k
      /\ \A i \in 1 .. k : input[i] = Data[given + i]
      /\ context' = X3!XXH3_update(context, input)
      /\ size \in 0 .. Buffer /\ size \in Nat
      /\ Xxh3Base \in Nat /\ given = Xxh3Base + size
      /\ context.buffer \in [1 .. Buffer -> Xxh3Byte]
      /\ context.soFar \in 0 .. Block - 1
  BY Xxh3Before
<1>b. /\ Stripe \in Nat \ {0} /\ Buffer \in Nat /\ Buffer >= Stripe + Stripe
  BY Xxh3Constants
<1> HIDE DEF input, size
<1>2. /\ context'.size = size + k /\ context'.buffer = m /\ context'.soFar = context.soFar
      /\ context'.total = context.total + k
  <2>0. X3!StaysBuffered(context.size, Len(input)) /\ Len(input) = k  BY <1>1
  <2>1. context' = [context EXCEPT !.total = @ + k, !.buffer = X3!Copy(@, size, input),
                                   !.size = @ + k]
    BY <1>1, <2>0 DEF X3!XXH3_update, size
  <2> QED  BY <2>1 DEF size
<1>3. /\ m \in [1 .. Buffer -> Xxh3Byte]
      /\ \A i \in 1 .. Buffer : m[i] =
            IF size < i /\ i <= size + k THEN input[i - size] ELSE context.buffer[i]
  <2>1. /\ m \in [1 .. Buffer -> Xxh3Byte]
        /\ \A i \in 1 .. Buffer : m[i] = IF size < i /\ i <= size + Len(input)
                                         THEN input[i - size] ELSE context.buffer[i]
    BY <1>1, Xxh3CopyProperties
  <2> HIDE DEF m
  <2> QED  BY <2>1, <1>1
<1>4. size + k <= Buffer  BY <1>1, <1>b DEF X3!StaysBuffered, size
<1>5. X3!TypeOK'
  <2>1. context'.size \in 0 .. Buffer  BY <1>1, <1>2, <1>4, <1>b
  <2>2. context'.total = given'  BY <1>1, <1>2 DEF X3!TypeOK
  <2> QED  BY <1>1, <1>2, <1>3, <2>1, <2>2 DEF X3!TypeOK, Xxh3Byte
<1> HIDE DEF m
<1>6. Xxh3Base' = Xxh3Base
  <2>1. Xxh3Base' = given' - context'.size  BY DEF Xxh3Base
  <2> QED  BY <2>1, <1>1, <1>2
<1>7. \A i \in 1 .. size + k : m[i] = Data[Xxh3Base + i]
  <2> SUFFICES ASSUME NEW i \in 1 .. size + k PROVE m[i] = Data[Xxh3Base + i]
    OBVIOUS
  <2>0. i \in 1 .. Buffer /\ i \in Nat  BY <1>1, <1>4, <1>b
  <2>1. CASE i <= size
    <3>1. i \in 1 .. size  BY <2>0, <2>1, <1>1
    <3>2. context.buffer[i] = Data[Xxh3Base + i]  BY <3>1 DEF Xxh3Holds, size
    <3>3. ~ (size < i)  BY <2>0, <2>1, <1>1
    <3> QED  BY <2>0, <3>2, <3>3, <1>3
  <2>2. CASE ~ (i <= size)
    <3>1. /\ size < i /\ i <= size + k /\ i - size \in 1 .. k /\ given + (i - size) = Xxh3Base + i
      BY <2>0, <2>2, <1>1
    <3>2. input[i - size] = Data[Xxh3Base + i]  BY <3>1, <1>1
    <3> QED  BY <2>0, <3>1, <3>2, <1>3
  <2> QED  BY <2>1, <2>2
<1>8. ASSUME Xxh3Base > 0, NEW j \in 1 .. Stripe, j > size + k
      PROVE  m[(Buffer - Stripe) + j] = Data[(Xxh3Base - Stripe) + j]
  <2>1. /\ j > size /\ (Buffer - Stripe) + j \in 1 .. Buffer
        /\ ~ ((Buffer - Stripe) + j <= size + k)
    BY <1>8, <1>1, <1>b, SMTT(40), ZenonT(60)
  <2>2. context.buffer[(Buffer - Stripe) + j] = Data[(Xxh3Base - Stripe) + j]
    BY <1>8, <2>1 DEF Xxh3Holds, size
  <2> QED  BY <2>1, <2>2, <1>3
<1>9. /\ context'.size <= given' /\ (given' > 0 => context'.size > 0)
      /\ Xxh3Base' > 0 => given' > Buffer
  <2>1. (given > 0 => size > 0) /\ (Xxh3Base > 0 => given > Buffer)  BY DEF Xxh3Holds, size
  <2>2. size + k <= given + k /\ (given + k > 0 => size + k > 0)  BY <2>1, <1>1
  <2>3. Xxh3Base > 0 => given + k > Buffer  BY <2>1, <1>1, <1>b
  <2> QED  BY <2>2, <2>3, <1>1, <1>2, <1>6
<1>10. \A i \in 1 .. context'.size : context'.buffer[i] = Data[Xxh3Base' + i]
  BY <1>2, <1>6, <1>7
<1>11. Xxh3Base' > 0 => \A j \in 1 .. Stripe : j > context'.size =>
          context'.buffer[(Buffer - Stripe) + j] = Data[(Xxh3Base' - Stripe) + j]
  BY <1>2, <1>6, <1>8
<1> QED  BY <1>5, <1>9, <1>10, <1>11 DEF Xxh3Holds

\* The buffer is filled and consumed, and stripes are taken from the input.
LEMMA Xxh3Consumed ==
    ASSUME X3!ConstantsFit, X3!TypeOK, Xxh3Holds, NEW k \in 0 .. Piece.xxh3, X3!Update(k),
           ~X3!StaysBuffered(context.size, k)
    PROVE  X3!TypeOK' /\ Xxh3Holds' /\ Xxh3Base' = given + Xxh3Upto(context.size, k)
<1> DEFINE input  == [i \in 1 .. k |-> Data[given + i]]
           size   == context.size
           load   == Xxh3Load(size)
           direct == Xxh3Direct(size, k)
           upto   == Xxh3Upto(size, k)
           first  == SubSeq(input, 1, load)
           full   == X3!Copy(context.buffer, size, first)
           part   == SubSeq(input, upto - Stripe + 1, upto)
           kept   == IF direct > 0 THEN X3!KeepLast(full, input, upto) ELSE full
           last   == SubSeq(input, upto + 1, k)
           m      == X3!Copy(kept, 0, last)
           rest   == k - upto
<1>1. /\ k \in Nat /\ given \in Nat /\ given + k \in 0 .. Longest.xxh3 /\ given' = given + k
      /\ input \in Seq(Xxh3Byte) /\ Len(input) = k
      /\ \A i \in 1 .. k : input[i] = Data[given + i]
      /\ context' = X3!XXH3_update(context, input)
      /\ size \in 0 .. Buffer /\ size \in Nat
      /\ Xxh3Base \in Nat /\ given = Xxh3Base + size
      /\ context.buffer \in [1 .. Buffer -> Xxh3Byte]
      /\ context.soFar \in 0 .. Block - 1
  BY Xxh3Before
<1>b. /\ Stripe \in Nat \ {0} /\ Buffer \in Nat /\ Buffer >= Stripe + Stripe
  BY Xxh3Constants
<1> HIDE DEF input, size
<1>2. /\ load \in 0 .. k /\ direct \in Nat
      /\ upto \in load .. k /\ upto < k /\ rest <= Buffer
      /\ direct = 0 => size > 0 /\ load = Buffer - size /\ upto = load
      /\ direct > 0 => upto >= Stripe
  BY <1>1, Xxh3Cut DEF size
<1>3. /\ context'.size = rest /\ context'.buffer = m
      /\ context'.total = context.total + k
      /\ context'.soFar \in 0 .. Block - 1
  <2> DEFINE one == IF size > 0
                    THEN X3!XXH3_consumeStripes(context.acc, context.soFar, full, Buffer \div Stripe)
                    ELSE [acc |-> context.acc, soFar |-> context.soFar]
             two == IF direct > 0
                    THEN X3!XXH3_consumeStripes(one.acc, one.soFar,
                                             SubSeq(input, load + 1, k), direct)
                    ELSE one
  <2>1. context' = [seed |-> context.seed, acc |-> two.acc, soFar |-> two.soFar,
                  total |-> context.total + k, buffer |-> m, size |-> rest]
    BY <1>1 DEF X3!XXH3_update, Xxh3Upto, Xxh3Direct, Xxh3Load, size
  <2>2. Buffer \div Stripe \in Nat
    <3>1. PICK j \in 2 .. Buffer : Buffer = j * Stripe  BY DEF X3!ConstantsFit
    <3>2. j \in Int /\ 0 \in 0 .. Stripe - 1 /\ j * Stripe = j * Stripe + 0 /\ j * Stripe \in Int
      BY <3>1, <1>b
    <3>3. (j * Stripe) \div Stripe = j
      <4> DEFINE x == j * Stripe
      <4>1. x \in Int /\ x = j * Stripe + 0  BY <3>2
      <4> HIDE DEF x
      <4>2. x \div Stripe = j  BY <4>1, <3>2, <1>b, ModUnique
      <4> QED  BY <4>2 DEF x
    <3> QED  BY <3>1, <3>3
  <2> HIDE DEF full, m, rest, load, upto, direct
  <2>3. one.soFar \in 0 .. Block - 1
    <3>1. CASE size > 0
      <4>1. X3!XXH3_consumeStripes(context.acc, context.soFar, full, Buffer \div Stripe).soFar
               \in 0 .. Block - 1
        BY <1>1, <2>2, Xxh3SoFarType
      <4> QED  BY <3>1, <4>1
    <3>2. CASE ~ (size > 0)  BY <3>2, <1>1
    <3> QED  BY <3>1, <3>2
  <2> HIDE DEF one
  <2>4. two.soFar \in 0 .. Block - 1
    <3>1. CASE direct > 0
      <4>1. X3!XXH3_consumeStripes(one.acc, one.soFar, SubSeq(input, load + 1, k), direct).soFar
               \in 0 .. Block - 1
        BY <1>2, <2>3, Xxh3SoFarType
      <4> QED  BY <3>1, <4>1
    <3>2. CASE ~ (direct > 0)  BY <3>2, <2>3
    <3> QED  BY <3>1, <3>2
  <2> HIDE DEF two
  <2> QED  BY <2>1, <2>4
<1> HIDE DEF load, direct, upto
<1>4. /\ first \in Seq(Xxh3Byte) /\ Len(first) = load
      /\ \A i \in 1 .. load : first[i] = input[i]
  <2>1. /\ 0 \in 0 .. Len(input) /\ load \in 0 .. Len(input)
        /\ load - 0 = load /\ 0 + 1 = 1 /\ \A i \in 1 .. load : 0 + i = i
    BY <1>1, <1>2
  <2> QED  BY <1>1, <2>1, Xxh3Part
<1>5. /\ last \in Seq(Xxh3Byte) /\ Len(last) = rest
      /\ \A i \in 1 .. rest : last[i] = input[upto + i]
  <2>1. upto \in 0 .. Len(input) /\ k \in upto .. Len(input)
    BY <1>1, <1>2
  <2> QED  BY <1>1, <2>1, Xxh3Part
<1>6. /\ full \in [1 .. Buffer -> Xxh3Byte]
      /\ \A i \in 1 .. Buffer : full[i] = IF size < i /\ i <= size + load
                                          THEN first[i - size] ELSE context.buffer[i]
  <2> HIDE DEF first
  <2>1. /\ full \in [1 .. Buffer -> Xxh3Byte]
        /\ \A i \in 1 .. Buffer : full[i] = IF size < i /\ i <= size + Len(first)
                                            THEN first[i - size] ELSE context.buffer[i]
    BY <1>1, <1>4, Xxh3CopyProperties
  <2> HIDE DEF full
  <2> QED  BY <2>1, <1>4
\* A full buffer holds the bytes from Base + 1 on.
<1>7. ASSUME direct = 0 PROVE \A i \in 1 .. Buffer : full[i] = Data[Xxh3Base + i]
  <2> SUFFICES ASSUME NEW i \in 1 .. Buffer PROVE full[i] = Data[Xxh3Base + i]
    OBVIOUS
  <2> HIDE DEF full, first
  <2>0. i \in Nat /\ 1 <= i /\ i <= size + load  BY <1>7, <1>1, <1>2, <1>b
  <2>1. CASE i <= size
    <3>1. i \in 1 .. size /\ ~ (size < i)  BY <2>0, <2>1, <1>1
    <3>2. context.buffer[i] = Data[Xxh3Base + i]  BY <3>1 DEF Xxh3Holds, size
    <3> QED  BY <3>1, <3>2, <1>6
  <2>2. CASE ~ (i <= size)
    <3>1. /\ size < i /\ i - size \in 1 .. load /\ i - size \in 1 .. k
          /\ given + (i - size) = Xxh3Base + i
      BY <2>0, <2>2, <1>1, <1>2
    <3>2. first[i - size] = Data[Xxh3Base + i]  BY <3>1, <1>1, <1>4
    <3> QED  BY <2>0, <3>1, <3>2, <1>6
  <2> QED  BY <2>1, <2>2
\* The end of the buffer holds the bytes before the rest of the input.
<1>8. /\ kept \in [1 .. Buffer -> Xxh3Byte]
      /\ \A j \in 1 .. Stripe :
            kept[(Buffer - Stripe) + j] = Data[((given + upto) - Stripe) + j]
  <2>1. CASE direct > 0
    <3>0. kept = X3!Copy(full, Buffer - Stripe, part)  BY <2>1 DEF X3!KeepLast
    <3> HIDE DEF full, kept
    <3>1. /\ part \in Seq(Xxh3Byte) /\ Len(part) = Stripe
          /\ \A j \in 1 .. Stripe : part[j] = input[(upto - Stripe) + j]
      <4>1. /\ upto - Stripe \in 0 .. Len(input) /\ upto \in upto - Stripe .. Len(input)
            /\ upto - (upto - Stripe) = Stripe
        BY <2>1, <1>1, <1>2, <1>b
      <4> QED  BY <1>1, <4>1, Xxh3Part
    <3> HIDE DEF part
    <3>2. Buffer - Stripe \in Nat  BY <1>b
    <3>3. /\ kept \in [1 .. Buffer -> Xxh3Byte]
          /\ \A i \in 1 .. Buffer : kept[i] =
                IF Buffer - Stripe < i /\ i <= (Buffer - Stripe) + Len(part)
                THEN part[i - (Buffer - Stripe)] ELSE full[i]
      BY <3>0, <3>1, <3>2, <1>6, Xxh3CopyProperties
    <3>4. ASSUME NEW j \in 1 .. Stripe
          PROVE  kept[(Buffer - Stripe) + j] = Data[((given + upto) - Stripe) + j]
      <4>1. /\ (Buffer - Stripe) + j \in 1 .. Buffer
            /\ Buffer - Stripe < (Buffer - Stripe) + j
            /\ (Buffer - Stripe) + j <= (Buffer - Stripe) + Stripe
            /\ ((Buffer - Stripe) + j) - (Buffer - Stripe) = j
            /\ (upto - Stripe) + j \in 1 .. k
            /\ given + ((upto - Stripe) + j) = ((given + upto) - Stripe) + j
        BY <2>1, <1>1, <1>2, <1>b
      <4>2. kept[(Buffer - Stripe) + j] = part[j]  BY <4>1, <3>1, <3>3
      <4>3. part[j] = Data[given + ((upto - Stripe) + j)]  BY <4>1, <3>1, <1>1
      <4> QED  BY <4>1, <4>2, <4>3
    <3> QED  BY <3>3, <3>4
  <2>2. CASE direct = 0
    <3>0. kept = full  BY <2>2
    <3> HIDE DEF full, kept
    <3>1. ASSUME NEW j \in 1 .. Stripe
          PROVE  kept[(Buffer - Stripe) + j] = Data[((given + upto) - Stripe) + j]
      <4>1. /\ (Buffer - Stripe) + j \in 1 .. Buffer
            /\ Xxh3Base + ((Buffer - Stripe) + j) = ((given + upto) - Stripe) + j
        BY <2>2, <1>1, <1>2, <1>b
      <4> QED  BY <2>2, <3>0, <4>1, <1>7
    <3> QED  BY <3>0, <3>1, <1>6
  <2> QED  BY <2>1, <2>2, <1>2
<1> HIDE DEF first, full, part, kept, last
<1>9. /\ m \in [1 .. Buffer -> Xxh3Byte]
      /\ \A i \in 1 .. Buffer : m[i] =
            IF 0 < i /\ i <= 0 + Len(last) THEN last[i - 0] ELSE kept[i]
  <2>1. 0 \in Nat  OBVIOUS
  <2> QED  BY <2>1, <1>5, <1>8, Xxh3CopyProperties
<1> HIDE DEF m
<1>10. rest \in Nat /\ rest > 0 /\ rest <= k  BY <1>1, <1>2
<1>11. Xxh3Base' = given + upto /\ Xxh3Base' > 0 /\ given' > Buffer
  <2>1. Xxh3Base' = given' - context'.size  BY DEF Xxh3Base
  <2>2. size + k > Buffer  BY <1>1, <1>b DEF X3!StaysBuffered, size
  <2>3. given + k > Buffer  BY <2>2, <1>1, <1>b
  <2>4. given + upto > 0
    <3>0. upto \in Nat  BY <1>1, <1>2
    <3>1. CASE direct > 0
      <4>1. upto >= Stripe  BY <3>1, <1>2
      <4> QED  BY <4>1, <3>0, <1>1, <1>b
    <3>2. CASE direct = 0
      <4>1. size > 0  BY <3>2, <1>2
      <4> QED  BY <4>1, <3>0, <1>1
    <3> QED  BY <3>1, <3>2, <1>2
  <2> QED  BY <2>1, <2>3, <2>4, <1>1, <1>2, <1>3
<1>12. \A i \in 1 .. rest : m[i] = Data[(given + upto) + i]
  <2> SUFFICES ASSUME NEW i \in 1 .. rest PROVE m[i] = Data[(given + upto) + i]
    OBVIOUS
  <2>1. /\ i \in 1 .. Buffer /\ 0 < i /\ i <= 0 + Len(last) /\ i - 0 = i
        /\ upto + i \in 1 .. k /\ given + (upto + i) = (given + upto) + i
    <3>1. upto \in Nat /\ upto + rest = k /\ Len(last) = rest /\ rest <= Buffer
      BY <1>1, <1>2, <1>5
    <3> HIDE DEF rest
    <3> QED  BY <3>1, <1>1, <1>10, <1>b
  <2>2. m[i] = last[i]  BY <2>1, <1>9
  <2>3. last[i] = input[upto + i]
    <3> HIDE DEF rest
    <3> QED  BY <1>5
  <2>4. input[upto + i] = Data[given + (upto + i)]  BY <2>1, <1>1
  <2> QED  BY <2>1, <2>2, <2>3, <2>4
<1>13. ASSUME NEW j \in 1 .. Stripe, j > rest
       PROVE  m[(Buffer - Stripe) + j] = Data[((given + upto) - Stripe) + j]
  <2>1. /\ (Buffer - Stripe) + j \in 1 .. Buffer
        /\ ~ ((Buffer - Stripe) + j <= 0 + Len(last))
    BY <1>13, <1>5, <1>10, <1>b
  <2> QED  BY <2>1, <1>8, <1>9
<1>14. X3!TypeOK'
  <2>1. context'.size \in 0 .. Buffer  BY <1>2, <1>3, <1>10, <1>b
  <2>2. context'.total = given'  BY <1>1, <1>3 DEF X3!TypeOK
  <2> QED  BY <1>1, <1>3, <1>9, <2>1, <2>2 DEF X3!TypeOK, Xxh3Byte
<1>15. context'.size <= given' /\ (given' > 0 => context'.size > 0) /\ (Xxh3Base' > 0 => given' > Buffer)
  BY <1>1, <1>3, <1>10, <1>11
<1>16. \A i \in 1 .. context'.size : context'.buffer[i] = Data[Xxh3Base' + i]
  BY <1>3, <1>11, <1>12
<1>17. Xxh3Base' > 0 => \A j \in 1 .. Stripe : j > context'.size =>
          context'.buffer[(Buffer - Stripe) + j] = Data[(Xxh3Base' - Stripe) + j]
  BY <1>3, <1>11, <1>13
<1> QED  BY <1>11, <1>14, <1>15, <1>16, <1>17 DEF Xxh3Holds, upto, size

-----------------------------------------------------------------------------
(* Between two calls *)

LEMMA Xxh3ResetHolds ==
    ASSUME X3!ConstantsFit, NEW buffer \in [1 .. Buffer -> Xxh3Byte],
           context = X3!XXH3_reset(buffer), given = 0
    PROVE  X3!TypeOK /\ Xxh3Holds
<1>1. /\ Block \in Nat \ {0} /\ Buffer \in Nat /\ Longest.xxh3 \in Nat /\ Stripe \in Nat
  BY Xxh3Constants
<1>2. /\ context.size = 0 /\ context.soFar = 0 /\ context.total = 0 /\ context.buffer = buffer
  BY DEF X3!XXH3_reset
<1>3. Xxh3Base = 0  BY <1>2 DEF Xxh3Base
<1>4. X3!TypeOK  BY <1>1, <1>2 DEF X3!TypeOK, Xxh3Byte
<1> QED  BY <1>1, <1>2, <1>3, <1>4 DEF Xxh3Holds

LEMMA Xxh3HoldsInit == X3!ConstantsFit /\ X3!Init => X3!TypeOK /\ Xxh3Holds
<1> SUFFICES ASSUME X3!ConstantsFit, X3!Init PROVE X3!TypeOK /\ Xxh3Holds  OBVIOUS
<1>1. [i \in 1 .. Buffer |-> Garbage] \in [1 .. Buffer -> Xxh3Byte]  BY DEF Xxh3Byte
<1> QED  BY <1>1, Xxh3ResetHolds DEF X3!Init

LEMMA Xxh3HoldsNext ==
    X3!ConstantsFit /\ X3!TypeOK /\ Xxh3Holds /\ [X3!Next]_(X3!vars) => X3!TypeOK' /\ Xxh3Holds'
<1> SUFFICES ASSUME X3!ConstantsFit, X3!TypeOK, Xxh3Holds, [X3!Next]_(X3!vars) PROVE X3!TypeOK' /\ Xxh3Holds'
  OBVIOUS
<1>1. CASE X3!Starts
  <2>1. context.buffer \in [1 .. Buffer -> Xxh3Byte]  BY DEF X3!TypeOK, Xxh3Byte
  <2>2. /\ Block \in Nat \ {0} /\ Buffer \in Nat /\ Longest.xxh3 \in Nat /\ Stripe \in Nat
    BY Xxh3Constants
  <2>3. /\ context'.size = 0 /\ context'.soFar = 0 /\ context'.total = 0 /\ given' = 0
        /\ context'.buffer = context.buffer
    BY <1>1 DEF X3!Starts, X3!XXH3_reset
  <2>4. Xxh3Base' = 0  BY <2>3 DEF Xxh3Base
  <2>5. X3!TypeOK'  BY <2>1, <2>2, <2>3 DEF X3!TypeOK, Xxh3Byte
  <2> QED  BY <2>2, <2>3, <2>4, <2>5 DEF Xxh3Holds
<1>2. CASE X3!Finish  BY <1>2 DEF X3!Finish, X3!TypeOK, Xxh3Holds, Xxh3Base
<1>3. ASSUME NEW k \in 0 .. Piece.xxh3, X3!Update(k) PROVE X3!TypeOK' /\ Xxh3Holds'
  BY <1>3, Xxh3Buffered, Xxh3Consumed
<1>4. CASE UNCHANGED X3!vars  BY <1>4 DEF X3!vars, X3!TypeOK, Xxh3Holds, Xxh3Base
<1> QED  BY <1>1, <1>2, <1>3, <1>4 DEF X3!Next

LEMMA Xxh3LastStripe ==
    ASSUME X3!ConstantsFit, X3!TypeOK, Xxh3Holds, given >= Stripe
    PROVE  X3!LastStripe(context) = [i \in 1 .. Stripe |-> Data[(given - Stripe) + i]]
<1> DEFINE size == context.size
           want == [i \in 1 .. Stripe |-> Data[(given - Stripe) + i]]
<1>b. /\ Stripe \in Nat \ {0} /\ Buffer \in Nat /\ Buffer >= Stripe + Stripe
  BY Xxh3Constants
<1>1. /\ size \in 0 .. Buffer /\ size \in Nat /\ given \in Nat /\ size <= given
      /\ Xxh3Base \in Nat /\ given = Xxh3Base + size
      /\ context.buffer \in [1 .. Buffer -> Xxh3Byte]
  <2>1. size \in 0 .. Buffer /\ given \in 0 .. Longest.xxh3 /\ size <= given
    BY DEF X3!TypeOK, Xxh3Holds
  <2>2. size \in Nat /\ given \in Nat  BY <2>1, Xxh3Constants
  <2>3. Xxh3Base = given - size  BY DEF Xxh3Base
  <2>4. context.buffer \in [1 .. Buffer -> Xxh3Byte]  BY DEF X3!TypeOK, Xxh3Byte
  <2> HIDE DEF size
  <2> QED  BY <2>1, <2>2, <2>3, <2>4
<1>2. /\ \A i \in 1 .. size : context.buffer[i] = Data[Xxh3Base + i]
      /\ Xxh3Base > 0 => \A j \in 1 .. Stripe :
            j > size => context.buffer[(Buffer - Stripe) + j] = Data[(Xxh3Base - Stripe) + j]
      /\ given > 0 => size > 0
  BY DEF Xxh3Holds
<1>m. context.buffer \in Seq(Xxh3Byte) /\ Len(context.buffer) = Buffer  BY <1>1, <1>b
<1> HIDE DEF size
<1>3. X3!LastStripe(context) = want
  <2>2. /\ want \in Seq(Xxh3Byte) /\ Len(want) = Stripe
        /\ \A i \in 1 .. Stripe : want[i] = Data[(given - Stripe) + i]
    <3>1. given - Stripe \in Nat /\ Stripe \in Nat /\ (given - Stripe) + Stripe <= Longest.xxh3
      BY <1>b, Xxh3Constants DEF X3!TypeOK
    <3>2. want \in Seq(Xxh3Byte) /\ Len(want) = Stripe
      <4> DEFINE from == given - Stripe
      <4>1. want = [i \in 1 .. Stripe |-> Data[from + i]]  OBVIOUS
      <4> HIDE DEF from, want
      <4>2. from \in Nat /\ from + Stripe <= Longest.xxh3  BY <3>1 DEF from
      <4> QED  BY <3>1, <4>1, <4>2, Xxh3InputType
    <3> QED  BY <3>2
  <2> HIDE DEF want
  <2>3. CASE size >= Stripe
    <3> DEFINE s == SubSeq(context.buffer, (size - Stripe) + 1, size)
    <3>1. /\ size - Stripe \in 0 .. Len(context.buffer)
          /\ size \in size - Stripe .. Len(context.buffer)
          /\ size - (size - Stripe) = Stripe
      BY <2>3, <1>1, <1>b, <1>m
    <3>2. /\ s \in Seq(Xxh3Byte) /\ Len(s) = Stripe
          /\ \A i \in 1 .. Stripe : s[i] = context.buffer[(size - Stripe) + i]
      BY <3>1, <1>m, Xxh3Part
    <3>3. X3!LastStripe(context) = s  BY <2>3 DEF X3!LastStripe, size
    <3> HIDE DEF s
    <3>4. ASSUME NEW i \in 1 .. Stripe PROVE s[i] = want[i]
      <4>1. /\ (size - Stripe) + i \in 1 .. size
            /\ Xxh3Base + ((size - Stripe) + i) = (given - Stripe) + i
        BY <2>3, <1>1, <1>b
      <4> QED  BY <4>1, <3>2, <1>2, <2>2
    <3>5. s = want  BY <3>2, <3>4, <2>2, SeqEqual
    <3> QED  BY <3>3, <3>5
  <2>4. CASE ~ (size >= Stripe)
    <3> DEFINE lack == Stripe - size
               s == SubSeq(context.buffer, (Buffer - lack) + 1, Buffer)
               r == SubSeq(context.buffer, 1, size)
    <3>1. lack \in 1 .. Stripe /\ lack \in Nat /\ lack + size = Stripe /\ Xxh3Base > 0
      BY <2>4, <1>1, <1>b
    <3>2. X3!LastStripe(context) = s \o r  BY <2>4 DEF X3!LastStripe, size
    <3>3. /\ Buffer - lack \in 0 .. Len(context.buffer)
          /\ Buffer \in Buffer - lack .. Len(context.buffer)
          /\ Buffer - (Buffer - lack) = lack
      BY <3>1, <1>b, <1>m
    <3>4. /\ 0 \in 0 .. Len(context.buffer) /\ size \in 0 .. Len(context.buffer)
          /\ 0 + 1 = 1 /\ size - 0 = size /\ \A i \in 1 .. size : 0 + i = i
      BY <1>1, <1>b, <1>m
    <3> HIDE DEF lack
    <3>5. /\ s \in Seq(Xxh3Byte) /\ Len(s) = lack
          /\ \A i \in 1 .. lack : s[i] = context.buffer[(Buffer - lack) + i]
      BY <3>3, <1>m, Xxh3Part
    <3>6. /\ r \in Seq(Xxh3Byte) /\ Len(r) = size
          /\ \A i \in 1 .. size : r[i] = context.buffer[i]
      BY <3>4, <1>m, Xxh3Part
    <3> DEFINE w == s \o r
    <3> HIDE DEF s, r
    <3>7. /\ w \in Seq(Xxh3Byte) /\ Len(w) = Len(s) + Len(r)
          /\ \A i \in 1 .. Len(s) + Len(r) : w[i] =
                IF i <= Len(s) THEN s[i] ELSE r[i - Len(s)]
      BY <3>5, <3>6, ConcatProperties
    <3> HIDE DEF w
    <3>8. /\ Len(w) = Stripe
          /\ \A i \in 1 .. Stripe : w[i] = IF i <= lack THEN s[i] ELSE r[i - lack]
      BY <3>1, <3>5, <3>6, <3>7
    <3>9. ASSUME NEW i \in 1 .. Stripe PROVE w[i] = want[i]
      <4>1. CASE i <= lack
        <5>1. /\ i \in 1 .. lack /\ size + i \in 1 .. Stripe /\ size + i > size
              /\ (Buffer - lack) + i = (Buffer - Stripe) + (size + i)
              /\ (Xxh3Base - Stripe) + (size + i) = (given - Stripe) + i
          BY <4>1, <3>1, <1>1, <1>b
        <5>2. w[i] = context.buffer[(Buffer - Stripe) + (size + i)]
          BY <4>1, <5>1, <3>5, <3>8
        <5>3. context.buffer[(Buffer - Stripe) + (size + i)] = Data[(Xxh3Base - Stripe) + (size + i)]
          BY <5>1, <3>1, <1>2
        <5> QED  BY <5>1, <5>2, <5>3, <2>2
      <4>2. CASE ~ (i <= lack)
        <5>1. i - lack \in 1 .. size /\ Xxh3Base + (i - lack) = (given - Stripe) + i
          BY <4>2, <3>1, <1>1, <1>b
        <5>2. w[i] = context.buffer[i - lack]  BY <4>2, <5>1, <3>6, <3>8
        <5>3. context.buffer[i - lack] = Data[Xxh3Base + (i - lack)]  BY <5>1, <1>2
        <5> QED  BY <5>1, <5>2, <5>3, <2>2
      <4> QED  BY <4>1, <4>2
    <3>10. w = want
      <4>1. Len(w) = Len(want) /\ \A i \in 1 .. Len(w) : w[i] = want[i]
        BY <3>8, <3>9, <2>2
      <4> QED  BY <4>1, <3>7, <2>2, SeqEqual
    <3> QED  BY <3>2, <3>10 DEF w
  <2> QED  BY <2>3, <2>4
<1> QED  BY <1>3 DEF want

LEMMA Xxh3HoldsLastStripe == X3!ConstantsFit /\ X3!TypeOK /\ Xxh3Holds => X3!LastStripeAtHand
<1> SUFFICES ASSUME X3!ConstantsFit, X3!TypeOK, Xxh3Holds PROVE X3!LastStripeAtHand  OBVIOUS
<1>1. given \in Nat /\ (given > 0 => context.size > 0)
  BY Xxh3Constants DEF X3!TypeOK, Xxh3Holds
<1>2. given > Buffer => given >= Stripe  BY <1>1, Xxh3Constants
<1> QED  BY <1>1, <1>2, Xxh3LastStripe DEF X3!LastStripeAtHand

-----------------------------------------------------------------------------
(* What the accumulators have taken in *)

DataStripe(i) == [j \in 1 .. Stripe |-> Data[i * Stripe + j]]

\* What is done to the accumulators: a stripe under a part of the secret, or a
\* scramble.
Item == {<<key, DataStripe(i)>> : key \in Nat, i \in Nat} \cup {<<"scramble">>}

\* All that has been done after i stripes of the message.
Closed(acc, i) == IF i % Block = 0 THEN X3!Scramble(acc) ELSE acc
Taken[i \in 0 .. Longest.xxh3] ==
    IF i = 0 THEN <<>>
    ELSE Closed(Append(Taken[i - 1], <<(i - 1) % Block, DataStripe(i - 1)>>), i)

LEMMA TakenSteps ==
    ASSUME X3!ConstantsFit
    PROVE  /\ Taken[0] = <<>>
           /\ \A i \in 1 .. Longest.xxh3 : Taken[i] =
                 Closed(Append(Taken[i - 1], <<(i - 1) % Block, DataStripe(i - 1)>>), i)
           /\ \A i \in 0 .. Longest.xxh3 : Taken[i] \in Seq(Item)
<1> DEFINE n == Longest.xxh3
           next(acc, i) == Closed(Append(acc, <<(i - 1) % Block, DataStripe(i - 1)>>), i)
           T == [i \in 0 .. n |-> Seq(Item)]
           step == [i \in 0 + 1 .. n |-> [acc \in Seq(Item) |-> next(acc, i)]]
<1>1. n \in Nat /\ Block \in Nat \ {0}  BY Xxh3Constants
<1>2. ASSUME NEW i \in 1 .. n, NEW acc \in Seq(Item)  PROVE next(acc, i) \in Seq(Item)
  <2>1. i \in Nat /\ i - 1 \in Nat /\ i - 1 \in Int  BY <1>1
  <2>2. (i - 1) % Block \in Nat
    <3>1. (i - 1) % Block \in 0 .. Block - 1  BY <2>1, <1>1, ModRange
    <3> QED  BY <3>1, <1>1
  <2> DEFINE a == <<(i - 1) % Block, DataStripe(i - 1)>>
             b == <<"scramble">>
  <2>3. a \in Item /\ b \in Item  BY <2>1, <2>2 DEF Item
  <2> HIDE DEF a, b
  <2>4. Append(acc, a) \in Seq(Item)  BY <2>3
  <2> DEFINE s == Append(acc, a)
  <2> HIDE DEF s
  <2>5. s \in Seq(Item) /\ Append(s, b) \in Seq(Item)  BY <2>3, <2>4 DEF s
  <2> QED  BY <2>5 DEF Closed, X3!Scramble, s, a, b
<1>3. PICK g : Iterates(g, 0, n, Seq(Item), T, <<>>, step)
  <2>1. 0 \in Int /\ n \in Int  BY <1>1
  <2>2. <<>> \in Seq(Item)  OBVIOUS
  <2>3. 0 <= n => <<>> \in T[0]  BY <1>1, <2>2
  <2>4. \A i \in 0 .. n : T[i] \subseteq Seq(Item)  OBVIOUS
  <2>5. \A i \in 0 + 1 .. n : step[i] \in [T[i - 1] -> T[i]]
    <3>1. \A i \in 0 + 1 .. n : i \in 1 .. n /\ T[i - 1] = Seq(Item) /\ T[i] = Seq(Item)
      BY <1>1
    <3> HIDE DEF T, next
    <3>2. \A i \in 0 + 1 .. n : step[i] \in [Seq(Item) -> Seq(Item)]  BY <1>2, <3>1
    <3> HIDE DEF step
    <3> QED  BY <3>1, <3>2
  <2> HIDE DEF T, step, n
  <2>6. Steps(0, n, Seq(Item), T, <<>>, step)  BY <2>1, <2>3, <2>4, <2>5 DEF Steps
  <2> QED  BY <2>6, StepFunction
<1>4. \A i \in 0 .. n : g[i] = IF i = 0 THEN <<>> ELSE next(g[i - 1], i)
  <2>1. g \in [0 .. n -> Seq(Item)]  BY <1>3 DEF Iterates
  <2>2. \A i \in 0 .. n : g[i] = IF i = 0 THEN <<>> ELSE step[i][g[i - 1]]
    BY <1>3 DEF Iterates
  <2>3. \A i \in 0 .. n : i # 0 => i \in 0 + 1 .. n /\ g[i - 1] \in Seq(Item)
    <3> HIDE DEF next, n
    <3> QED  BY <1>1, <2>1
  <2> HIDE DEF next, n
  <2>4. \A i \in 0 .. n : i # 0 => step[i][g[i - 1]] = next(g[i - 1], i)  BY <2>3
  <2> HIDE DEF step
  <2> QED  BY <2>2, <2>4
<1>5. g = [i \in 0 .. n |-> IF i = 0 THEN <<>> ELSE next(g[i - 1], i)]
  <2> HIDE DEF next, n
  <2> QED  BY <1>3, <1>4 DEF Iterates
<1>6. Taken = [i \in 0 .. n |-> IF i = 0 THEN <<>> ELSE next(Taken[i - 1], i)]
  BY Zenon, <1>5 DEF Taken
<1> HIDE DEF n, step, T
<1>7. Taken[0] = <<>> /\ \A i \in 1 .. n : Taken[i] = next(Taken[i - 1], i)
  <2> HIDE DEF next
  <2>1. 0 \in 0 .. n /\ \A i \in 1 .. n : i \in 0 .. n /\ i # 0  BY <1>1
  <2> QED  BY <1>6, <2>1
<1>8. \A i \in 0 .. n : Taken[i] \in Seq(Item)
  <2> DEFINE M == {i \in Int : Taken[i] \in Seq(Item)}
  <2>1. 0 \in M
    <3>1. <<>> \in Seq(Item) /\ 0 \in Int  OBVIOUS
    <3> QED  BY <1>7, <3>1
  <2>2. ASSUME NEW i \in 0 .. n - 1, i \in M  PROVE i + 1 \in M
    <3> HIDE DEF next
    <3>1. i + 1 \in 1 .. n /\ (i + 1) - 1 = i /\ i + 1 \in Int  BY <1>1
    <3>2. Taken[i + 1] = next(Taken[i], i + 1)  BY <1>7, <3>1
    <3>3. next(Taken[i], i + 1) \in Seq(Item)  BY <1>2, <2>2, <3>1
    <3> QED  BY <3>1, <3>2, <3>3
  <2> HIDE DEF M
  <2>3. 0 \in Int /\ n \in Int  BY <1>1
  <2>4. \A i \in 0 .. n : i \in M  BY <2>1, <2>2, <2>3, IntervalInduction
  <2> QED  BY <2>4 DEF M
<1> QED  BY <1>7, <1>8 DEF n

\* n stripes more, all of the open block.
More(t, n) == [i \in 1 .. n |-> <<(t % Block) + i - 1, DataStripe(t + i - 1)>>]
WithMore(acc, t, n) == acc \o More(t, n)

LEMMA MoreType ==
    ASSUME X3!ConstantsFit, NEW t \in Nat, NEW n \in Nat
    PROVE  /\ More(t, n) \in Seq(Item) /\ Len(More(t, n)) = n
           /\ More(t, n + 1) = Append(More(t, n), <<(t % Block) + n, DataStripe(t + n)>>)
<1>1. Block \in Nat \ {0} /\ t % Block \in Nat
  <2>1. Block \in Nat \ {0} /\ t \in Int  BY Xxh3Constants
  <2>2. t % Block \in 0 .. Block - 1  BY <2>1, ModRange
  <2> QED  BY <2>1, <2>2
<1> DEFINE key == t % Block
           item(i) == <<key + i - 1, DataStripe(t + i - 1)>>
           a == More(t, n)
           b == More(t, n + 1)
<1>2. \A i \in 1 .. n + 1 : item(i) \in Item
  <2> HIDE DEF key
  <2>1. \A i \in 1 .. n + 1 : key + i - 1 \in Nat /\ t + i - 1 \in Nat  BY <1>1 DEF key
  <2> QED  BY <2>1 DEF Item
<1>3. a = [i \in 1 .. n |-> item(i)] /\ b = [i \in 1 .. n + 1 |-> item(i)]
  BY DEF More
<1>4. item(n + 1) = <<key + n, DataStripe(t + n)>>
  <2> HIDE DEF key
  <2>1. key + (n + 1) - 1 = key + n /\ t + (n + 1) - 1 = t + n  BY <1>1 DEF key
  <2> QED  BY <2>1
<1> HIDE DEF item, a, b
<1>5. a \in Seq(Item) /\ Len(a) = n /\ b \in Seq(Item) /\ Len(b) = n + 1
  <2>1. \A i \in 1 .. n : item(i) \in Item  BY <1>2
  <2> QED  BY <1>2, <1>3, <2>1
<1>6. b = Append(a, item(n + 1))
  <2> DEFINE c == Append(a, item(n + 1))
  <2>1. item(n + 1) \in Item  BY <1>2
  <2>2. /\ c \in Seq(Item) /\ Len(c) = n + 1
        /\ \A i \in 1 .. n + 1 : c[i] = IF i <= n THEN a[i] ELSE item(n + 1)
    BY <1>5, <2>1
  <2>3. ASSUME NEW i \in 1 .. n + 1  PROVE c[i] = b[i]
    <3> HIDE DEF c
    <3>1. CASE i <= n  BY <3>1, <2>2, <1>3
    <3>2. CASE ~ (i <= n)
      <4>1. i = n + 1  BY <3>2
      <4> QED  BY <4>1, <2>2, <1>3
    <3> QED  BY <3>1, <3>2
  <2> HIDE DEF c
  <2> QED  BY <1>5, <2>2, <2>3, SeqEqual DEF c
<1> QED  BY <1>4, <1>5, <1>6 DEF a, b, key

\* Appending and joining.
LEMMA JoinAppend ==
    ASSUME NEW Elem, NEW s \in Seq(Elem), NEW u \in Seq(Elem), NEW e \in Elem
    PROVE  s \o Append(u, e) = Append(s \o u, e)
<1> DEFINE v == Append(u, e)
           w == s \o u
           x == s \o v
           y == Append(w, e)
<1>1. /\ v \in Seq(Elem) /\ Len(v) = Len(u) + 1
      /\ \A i \in 1 .. Len(u) + 1 : v[i] = IF i <= Len(u) THEN u[i] ELSE e
  OBVIOUS
<1>2. /\ w \in Seq(Elem) /\ Len(w) = Len(s) + Len(u)
      /\ \A i \in 1 .. Len(s) + Len(u) : w[i] = IF i <= Len(s) THEN s[i] ELSE u[i - Len(s)]
  BY ConcatProperties
<1> HIDE DEF v, w
<1>3. /\ x \in Seq(Elem) /\ Len(x) = Len(s) + Len(v)
      /\ \A i \in 1 .. Len(s) + Len(v) : x[i] = IF i <= Len(s) THEN s[i] ELSE v[i - Len(s)]
  BY <1>1, ConcatProperties
<1>4. /\ y \in Seq(Elem) /\ Len(y) = Len(w) + 1
      /\ \A i \in 1 .. Len(w) + 1 : y[i] = IF i <= Len(w) THEN w[i] ELSE e
  BY <1>2
<1> HIDE DEF x, y
<1>5. Len(s) \in Nat /\ Len(u) \in Nat  OBVIOUS
<1>6. ASSUME NEW i \in 1 .. Len(x)  PROVE x[i] = y[i]
  <2>1. i \in 1 .. Len(s) + Len(u) + 1 /\ Len(x) = Len(y)  BY <1>1, <1>2, <1>3, <1>4, <1>5
  <2>2. CASE i <= Len(s)
    <3>1. i \in 1 .. Len(s) + Len(u) /\ i <= Len(w)  BY <2>1, <2>2, <1>2, <1>5
    <3> QED  BY <2>1, <2>2, <3>1, <1>1, <1>2, <1>3, <1>4
  <2>3. CASE Len(s) < i /\ i <= Len(s) + Len(u)
    <3>1. i - Len(s) \in 1 .. Len(u) /\ ~ (i <= Len(s)) /\ i <= Len(w)
          /\ i \in 1 .. Len(s) + Len(u) /\ i - Len(s) \in 1 .. Len(u) + 1
          /\ i - Len(s) <= Len(u)
      BY <2>1, <2>3, <1>2, <1>5
    <3>2. x[i] = u[i - Len(s)]  BY <3>1, <2>1, <1>1, <1>3
    <3>3. y[i] = u[i - Len(s)]  BY <3>1, <2>1, <1>2, <1>4
    <3> QED  BY <3>2, <3>3
  <2>4. CASE i = Len(s) + Len(u) + 1
    <3>1. i - Len(s) = Len(u) + 1 /\ ~ (i <= Len(s)) /\ ~ (i <= Len(w))
          /\ ~ (Len(u) + 1 <= Len(u)) /\ Len(u) + 1 \in 1 .. Len(u) + 1
      BY <2>4, <1>2, <1>5
    <3>2. x[i] = e  BY <3>1, <2>1, <1>1, <1>3
    <3>3. y[i] = e  BY <3>1, <2>1, <1>2, <1>4
    <3> QED  BY <3>2, <3>3
  <2> QED  BY <2>1, <2>2, <2>3, <2>4, <1>5
<1>7. Len(x) = Len(y)  BY <1>1, <1>2, <1>3, <1>4, <1>5
<1>8. x = y  BY <1>3, <1>4, <1>6, <1>7, SeqEqual
<1> QED  BY <1>8 DEF x, y, v, w

\* In the open block the accumulators take stripe after stripe, and the last
\* of the block is followed by a scramble.
LEMMA InBlock ==
    ASSUME X3!ConstantsFit, NEW t \in 0 .. Longest.xxh3,
           NEW n \in 0 .. Block - (t % Block), t + n <= Longest.xxh3
    PROVE  /\ n < Block - (t % Block) => Taken[t + n] = WithMore(Taken[t], t, n)
           /\ n = Block - (t % Block) => Taken[t + n] = X3!Scramble(WithMore(Taken[t], t, n))
<1> DEFINE key == t % Block
           L == Longest.xxh3
<1>1. /\ Block \in Nat \ {0} /\ L \in Nat /\ t \in Nat /\ t \in Int
  BY Xxh3Constants
<1>2. key \in 0 .. Block - 1  BY <1>1, ModRange
<1>3. Taken[t] \in Seq(Item)  BY TakenSteps
\* One stripe more.
<1>4. ASSUME NEW i \in 0 .. Block - key - 1, t + i + 1 <= L,
             Taken[t + i] = Taken[t] \o More(t, i)
      PROVE  Taken[t + (i + 1)] =
               IF i + 1 = Block - key THEN X3!Scramble(Taken[t] \o More(t, i + 1))
               ELSE Taken[t] \o More(t, i + 1)
  <2> DEFINE e == <<key + i, DataStripe(t + i)>>
             x == t + i
  <2>1. /\ i \in Nat /\ key + i \in 0 .. Block - 1 /\ x \in Int /\ x \in Nat
        /\ t + (i + 1) = x + 1 /\ x + 1 \in 1 .. L /\ (x + 1) - 1 = x /\ x + 1 \in Int
    <3> HIDE DEF key
    <3> QED  BY <1>1, <1>2, <1>4
  <2> DEFINE q == t \div Block
  <2>2. q \in Int /\ t = q * Block + key  BY <1>1, DivMod
  <2> HIDE DEF key, q
  <2>3. x % Block = key + i
    <3> DEFINE r == key + i
    <3>1. r \in 0 .. Block - 1 /\ x = q * Block + r  BY <2>1, <2>2, <1>1, <1>2
    <3> HIDE DEF x, r
    <3>2. x % Block = r  BY <2>1, <2>2, <3>1, <1>1, ModUnique, ZenonT(60)
    <3> QED  BY <3>2 DEF r
  <2>4. (x + 1) % Block = 0 <=> i + 1 = Block - key
    <3>1. CASE i + 1 = Block - key
      <4>1. x + 1 = (q + 1) * Block + 0 /\ q + 1 \in Int  BY <3>1, <2>1, <2>2, <1>1, <1>2
      <4> DEFINE y == x + 1
                 r == q + 1
      <4>2. y \in Int /\ r \in Int /\ y = r * Block + 0 /\ 0 \in 0 .. Block - 1
        BY <4>1, <2>1, <1>1
      <4> HIDE DEF y, r
      <4>3. y % Block = 0  BY <4>2, <1>1, ModUnique
      <4> QED  BY <3>1, <4>3 DEF y
    <3>2. CASE i + 1 # Block - key
      <4> DEFINE y == x + 1
                 r == key + i + 1
      <4>1. r \in 0 .. Block - 1 /\ r # 0 /\ y \in Int /\ y = q * Block + r
        BY <3>2, <2>1, <2>2, <1>1, <1>2
      <4> HIDE DEF y, r
      <4>2. y % Block = r  BY <4>1, <2>2, <1>1, ModUnique
      <4> QED  BY <3>2, <4>1, <4>2 DEF y
    <3> QED  BY <3>1, <3>2
  <2>5. Taken[x + 1] = Closed(Append(Taken[x], e), x + 1)
    <3>1. Taken[x + 1] =
            Closed(Append(Taken[(x + 1) - 1],
                          <<((x + 1) - 1) % Block, DataStripe((x + 1) - 1)>>), x + 1)
      BY <2>1, TakenSteps
    <3> HIDE DEF x
    <3>2. e = <<x % Block, DataStripe(x)>>  BY <2>3 DEF x
    <3> HIDE DEF e
    <3> QED  BY <3>1, <3>2, <2>1
  <2>6. Append(Taken[x], e) = Taken[t] \o More(t, i + 1)
    <3>1. t \in Nat /\ i \in Nat  BY <1>1, <2>1
    <3>2. More(t, i) \in Seq(Item) /\ More(t, i + 1) = Append(More(t, i), e)
      BY <3>1, MoreType DEF key
    <3>3. e \in Item
      <4>1. key + i \in Nat /\ t + i \in Nat  BY <2>1, <1>1
      <4> QED  BY <4>1 DEF Item
    <3> DEFINE a == Taken[t]
               b == More(t, i)
    <3>4. a \in Seq(Item) /\ b \in Seq(Item)  BY <1>3, <3>2
    <3> HIDE DEF a, b, e
    <3>5. a \o Append(b, e) = Append(a \o b, e)  BY <3>3, <3>4, JoinAppend
    <3> QED  BY <3>2, <3>5, <1>4 DEF x, a, b
  <2> HIDE DEF x, e
  <2> QED  BY <2>1, <2>4, <2>5, <2>6 DEF Closed
<1> DEFINE M == {i \in Int : /\ i < Block - key => Taken[t + i] = Taken[t] \o More(t, i)
                             /\ i = Block - key =>
                                   Taken[t + i] = X3!Scramble(Taken[t] \o More(t, i))}
<1>5. 0 \in M
  <2>1. More(t, 0) = <<>>  BY DEF More
  <2>2. Taken[t] \o <<>> = Taken[t]  BY <1>3, ConcatEmptySeq
  <2>3. t + 0 = t /\ 0 \in Int /\ 0 # Block - key
    <3> HIDE DEF key
    <3> QED  BY <1>1, <1>2
  <2> QED  BY <2>1, <2>2, <2>3
<1> HIDE DEF key
<1>6. ASSUME NEW i \in 0 .. n - 1, i \in M  PROVE i + 1 \in M
  <2>1. /\ i \in 0 .. Block - key - 1 /\ t + i + 1 <= L /\ i < Block - key /\ i + 1 \in Int
        /\ n \in Nat
    BY <1>1, <1>2 DEF key
  <2>2. Taken[t + i] = Taken[t] \o More(t, i)  BY <1>6, <2>1
  <2>3. Taken[t + (i + 1)] =
          IF i + 1 = Block - key THEN X3!Scramble(Taken[t] \o More(t, i + 1))
          ELSE Taken[t] \o More(t, i + 1)
    BY <1>4, <2>1, <2>2
  <2>4. i + 1 < Block - key => i + 1 # Block - key  BY <2>1, <1>1, <1>2
  <2> QED  BY <2>1, <2>3, <2>4
<1> HIDE DEF M
<1>7. n \in M
  <2>1. n \in Nat /\ 0 \in Int /\ n \in Int /\ n \in 0 .. n  BY <1>1, <1>2 DEF key
  <2>2. \A i \in 0 .. n : i \in M  BY <1>5, <1>6, <2>1, IntervalInduction
  <2> QED  BY <2>1, <2>2
<1> QED  BY <1>7 DEF M, key, WithMore

\* The first n stripes of an input are the message's from its stripe s on.
Reads(input, s, n) ==
    \A i \in 1 .. n : SubSeq(input, (i - 1) * Stripe + 1, i * Stripe) = DataStripe(s + i - 1)

LEMMA ReadsData ==
    ASSUME X3!ConstantsFit, NEW input \in Seq(Xxh3Byte), NEW s \in Nat, NEW n \in Nat,
           n * Stripe <= Len(input),
           \A j \in 1 .. n * Stripe : input[j] = Data[s * Stripe + j]
    PROVE  Reads(input, s, n)
<1>b. Stripe \in Nat \ {0}  BY Xxh3Constants
<1> SUFFICES ASSUME NEW i \in 1 .. n
             PROVE  SubSeq(input, (i - 1) * Stripe + 1, i * Stripe) = DataStripe(s + i - 1)
  BY DEF Reads
<1> DEFINE a == (i - 1) * Stripe
           b == i * Stripe
           u == SubSeq(input, a + 1, b)
           v == DataStripe(s + i - 1)
<1>1. /\ a \in Nat /\ b = a + Stripe /\ b <= n * Stripe /\ b \in Nat /\ n * Stripe \in Nat
  <2>1. i - 1 \in Nat /\ i \in Nat  OBVIOUS
  <2>2. a \in Nat /\ b \in Nat /\ n * Stripe \in Nat /\ b = a + Stripe  BY <2>1, <1>b
  <2>3. n > i => n * Stripe >= i * Stripe + Stripe  BY <2>1, <1>b, MultiplesApart
  <2> QED  BY <2>1, <2>2, <2>3, <1>b
<1>2. (s + i - 1) * Stripe = s * Stripe + a /\ s * Stripe \in Nat  BY <1>b
<1> HIDE DEF a, b
<1>3. a \in 0 .. Len(input) /\ b \in a .. Len(input) /\ b - a = Stripe  BY <1>1, <1>b
<1>4. /\ u \in Seq(Xxh3Byte) /\ Len(u) = Stripe
      /\ \A j \in 1 .. Stripe : u[j] = input[a + j]
  BY <1>3, Xxh3Part
<1>5. ASSUME NEW j \in 1 .. Stripe  PROVE u[j] = v[j]
  <2>1. a + j \in 1 .. n * Stripe /\ s * Stripe + (a + j) = (s * Stripe + a) + j
    BY <1>1, <1>2, <1>b
  <2>2. u[j] = Data[s * Stripe + (a + j)]  BY <1>4, <2>1
  <2>3. v[j] = Data[(s + i - 1) * Stripe + j]  BY DEF DataStripe
  <2> QED  BY <2>1, <2>2, <2>3, <1>2
<1>6. v \in Seq({v[j] : j \in 1 .. Stripe}) /\ Len(v) = Stripe
  <2>1. v = [j \in 1 .. Stripe |-> v[j]]  BY DEF DataStripe
  <2> HIDE DEF v
  <2> QED  BY <2>1, <1>b
<1> HIDE DEF u, v
<1>7. u = v  BY <1>4, <1>5, <1>6, SeqEqual
<1> QED  BY <1>7 DEF u, v, a, b

\* Accumulating n stripes, from the stripe m of the input on, under the parts of
\* the secret that their positions give.
At(m) == m * Stripe

LEMMA AccumulateMore ==
    ASSUME X3!ConstantsFit, NEW input, NEW acc \in Seq(Item),
           NEW s \in Nat, NEW k \in Nat, Reads(input, s, k),
           NEW m \in Nat, NEW n \in Nat, m + n <= k,
           NEW t \in Nat, t = s + m, NEW key \in Nat, key = t % Block
    PROVE  X3!Accumulate(acc, input, At(m), n, key) = WithMore(acc, t, n)
<1>b. Stripe \in Nat \ {0}  BY Xxh3Constants
<1>1. ASSUME NEW i \in 1 .. n
      PROVE  SubSeq(input, m * Stripe + (i - 1) * Stripe + 1, m * Stripe + i * Stripe)
                = DataStripe((s + m) + i - 1)
  <2>1. /\ m + i \in 1 .. k
        /\ ((m + i) - 1) * Stripe + 1 = m * Stripe + (i - 1) * Stripe + 1
        /\ (m + i) * Stripe = m * Stripe + i * Stripe
        /\ s + (m + i) - 1 = (s + m) + i - 1
    BY <1>b
  <2>2. SubSeq(input, ((m + i) - 1) * Stripe + 1, (m + i) * Stripe)
           = DataStripe(s + (m + i) - 1)
    BY <2>1 DEF Reads
  <2> QED  BY <2>1, <2>2
<1>2. [i \in 1 .. n |-> <<key + i - 1, SubSeq(input, m * Stripe + (i - 1) * Stripe + 1,
                                                     m * Stripe + i * Stripe)>>]
         = [i \in 1 .. n |-> <<key + i - 1, DataStripe((s + m) + i - 1)>>]
  BY Zenon, <1>1
<1> QED  BY Zenon, <1>2 DEF X3!Accumulate, WithMore, More, At

\* The stripes of an input, through as many blocks as they end.
LEMMA ConsumeTakes ==
    ASSUME X3!ConstantsFit, NEW s \in Nat, NEW n \in Nat, s + n <= Longest.xxh3,
           NEW input, Reads(input, s, n)
    PROVE  X3!XXH3_consumeStripes(Taken[s], s % Block, input, n)
              = [acc |-> Taken[s + n], soFar |-> (s + n) % Block]
<1> DEFINE L == Longest.xxh3
           soFar == s % Block
           first == Block - soFar
<1>1. /\ Block \in Nat \ {0} /\ L \in Nat /\ s \in Int /\ s \in 0 .. L
      /\ Stripe \in Nat \ {0}
  BY Xxh3Constants
<1>2. soFar \in 0 .. Block - 1 /\ s \div Block \in Int
      /\ s = (s \div Block) * Block + soFar
  BY <1>1, DivMod
<1> DEFINE d == s \div Block
<1>3. d \in Int /\ s = d * Block + soFar /\ first \in 1 .. Block
  <2> HIDE DEF soFar
  <2>1. Block - soFar \in 1 .. Block  BY <1>1, <1>2
  <2> QED  BY <2>1, <1>2
<1>4. CASE ~X3!EndsBlock(n, soFar)
  <2>1. X3!XXH3_consumeStripes(Taken[s], soFar, input, n)
          = [acc |-> X3!Accumulate(Taken[s], input, 0, n, soFar), soFar |-> soFar + n]
    BY <1>4 DEF X3!XXH3_consumeStripes
  <2>2. n < first  BY <1>3, <1>4, <1>2, <1>1 DEF X3!EndsBlock
  <2>3. X3!Accumulate(Taken[s], input, 0, n, soFar) = WithMore(Taken[s], s, n)
    <3> DEFINE z == 0
    <3>0. At(z) = 0  BY <1>1 DEF At
    <3> DEFINE t == s
               acc == Taken[t]
    <3>1. z \in Nat /\ t \in Nat /\ t = s + z /\ z + n <= n  OBVIOUS
    <3>2. soFar \in Nat /\ soFar = t % Block  BY <1>1, <1>2
    <3>3. acc \in Seq(Item)  BY <1>1, TakenSteps
    <3> HIDE DEF soFar, z, t, acc
    <3>4. X3!Accumulate(acc, input, At(z), n, soFar) = WithMore(acc, t, n)
      BY <3>1, <3>2, <3>3, AccumulateMore
    <3> QED  BY <3>0, <3>4 DEF acc, t
  <2>4. Taken[s + n] = WithMore(Taken[s], s, n)
    <3>1. n \in 0 .. Block - (s % Block)
      <4> HIDE DEF first
      <4>1. n \in 0 .. first  BY <2>2, <1>3, <1>1
      <4> QED  BY <4>1 DEF first, soFar
    <3> QED  BY <3>1, <2>2, <1>1, InBlock
  <2>5. (s + n) % Block = soFar + n
    <3> DEFINE x == s + n
               r == soFar + n
    <3> HIDE DEF soFar, d
    <3>1. x \in Int /\ x = d * Block + r /\ r \in 0 .. Block - 1
      BY <2>2, <1>1, <1>2, <1>3
    <3> HIDE DEF x, r
    <3>2. x % Block = r  BY <3>1, <1>1, <1>3, ModUnique
    <3> QED  BY <3>2 DEF x, r
  <2> HIDE DEF soFar
  <2> QED  BY <2>1, <2>3, <2>4, <2>5 DEF soFar
<1>5. CASE X3!EndsBlock(n, soFar)
  <2> DEFINE q == (n - first) \div Block
             r == (n - first) % Block
             blocks == 1 + q
             Till(b) == first + (b - 1) * Block
             next(b, a) ==
               IF b = 1 THEN X3!Scramble(X3!Accumulate(Taken[s], input, 0, first, soFar))
               ELSE X3!Scramble(X3!Accumulate(a, input, (first + (b - 2) * Block) * Stripe,
                                              Block, X3!KeyAfterBlock(soFar)))
             after[b \in 0 .. blocks] ==
               IF b = 0 THEN Taken[s]
               ELSE IF b = 1 THEN X3!Scramble(X3!Accumulate(Taken[s], input, 0, first, soFar))
               ELSE X3!Scramble(X3!Accumulate(after[b - 1], input,
                                              (first + (b - 2) * Block) * Stripe,
                                              Block, X3!KeyAfterBlock(soFar)))
             done == first + (blocks - 1) * Block
  <2>1. X3!XXH3_consumeStripes(Taken[s], soFar, input, n)
          = [acc |-> X3!Accumulate(after[blocks], input, done * Stripe, n - done,
                                   X3!KeyAfterBlock(soFar)),
             soFar |-> n - done]
    BY Zenon, <1>5 DEF X3!XXH3_consumeStripes
  <2>2. n - first \in Nat /\ first \in Nat
    <3> HIDE DEF first, soFar
    <3>1. n >= first  BY <1>5 DEF X3!EndsBlock, first
    <3> QED  BY <3>1, <1>3, <1>1
  <2>3. q \in Int /\ r \in 0 .. Block - 1 /\ n - first = q * Block + r
    <3> DEFINE x == n - first
    <3>1. x \in Int  BY <2>2
    <3> HIDE DEF x
    <3>2. x \div Block \in Int /\ x % Block \in 0 .. Block - 1
          /\ x = (x \div Block) * Block + (x % Block)
      BY <3>1, <1>1, DivMod
    <3> QED  BY <3>2 DEF x
  <2>4. X3!KeyAfterBlock(soFar) = 0  BY DEF X3!KeyAfterBlock
  <2> HIDE DEF q, r, first, soFar, d
  <2>5. q \in Nat
    <3>1. 0 > q => 0 * Block >= q * Block + Block  BY <2>3, <1>1, MultiplesApart
    <3>2. q * Block \in Int  BY <2>3, <1>1
    <3> QED  BY <3>1, <3>2, <2>2, <2>3, <1>1
  \* Where the b-th block ends.
  <2>6. ASSUME NEW b \in 1 .. blocks
        PROVE  /\ Till(b) \in Nat /\ Till(b) <= n /\ (s + Till(b)) % Block = 0
               /\ s + Till(b) \in 0 .. L
    <3>1. (b - 1) * Block \in Nat  BY <1>1
    <3>2. (b - 1) * Block <= q * Block
      <4>1. b - 1 \in Int /\ (q > b - 1 \/ q = b - 1)  BY <2>5
      <4>2. q > b - 1 => q * Block >= (b - 1) * Block + Block
        BY <4>1, <2>5, <1>1, MultiplesApart
      <4> QED  BY <4>1, <4>2, <3>1, <2>5, <1>1
    <3>3. Till(b) \in Nat /\ Till(b) <= n
      <4>1. q * Block \in Int  BY <2>5, <1>1
      <4> QED  BY <4>1, <3>1, <3>2, <2>2, <2>3, <1>1
    <3>4. s + Till(b) = (d + b) * Block + 0
      <4>1. soFar + first = Block  BY <1>2, <1>1 DEF first
      <4>2. soFar \in Int /\ first \in Int  BY <1>2, <2>2, <1>1
      <4>3. (d + b) * Block = d * Block + ((b - 1) * Block + Block) /\ d * Block \in Int
        BY <1>1, <1>3
      <4> QED  BY <4>1, <4>2, <4>3, <1>3, <3>1
    <3> DEFINE x == s + Till(b)
               e == d + b
    <3>5. x \in Int /\ e \in Int /\ x = e * Block + 0 /\ 0 \in 0 .. Block - 1
      BY <3>3, <3>4, <1>3, <1>1
    <3>6. x \in 0 .. L
      <4> HIDE DEF Till
      <4> QED  BY <3>3, <1>1
    <3> HIDE DEF x, e
    <3>7. x % Block = 0  BY <3>5, <1>1, ModUnique
    <3> QED  BY <3>3, <3>6, <3>7 DEF x
  <2>7. X3!Scramble(X3!Accumulate(Taken[s], input, 0, first, soFar)) = Taken[s + Till(1)]
    <3> DEFINE z == 0
    <3>5. At(z) = 0  BY <1>1 DEF At
    <3> DEFINE t == s
               acc == Taken[t]
    <3>1. z \in Nat /\ t \in Nat /\ t = s + z /\ z + first <= n /\ first \in Nat  BY <2>2
    <3>2. soFar \in Nat /\ soFar = t % Block
      <4>1. soFar \in Nat  BY <1>1, <1>2
      <4> QED  BY <4>1 DEF soFar
    <3>0. acc \in Seq(Item)  BY <1>1, TakenSteps
    <3> HIDE DEF z, t, acc
    <3>3. X3!Accumulate(acc, input, At(z), first, soFar) = WithMore(acc, t, first)
      BY <3>0, <3>1, <3>2, AccumulateMore
    <3>4. Taken[s + first] = X3!Scramble(WithMore(Taken[s], s, first))
      <4>1. first \in 0 .. Block - (s % Block) /\ first = Block - (s % Block)
        BY <2>2 DEF first, soFar
      <4>2. s + first <= L  BY <2>2, <1>1
      <4> QED  BY <4>1, <4>2, <1>1, InBlock
    <3>6. Till(1) = first  BY <2>2, <1>1
    <3> HIDE DEF Till
    <3> QED  BY <3>3, <3>4, <3>5, <3>6 DEF acc, t
  <2>8. ASSUME NEW b \in 2 .. blocks
        PROVE  X3!Scramble(X3!Accumulate(Taken[s + Till(b - 1)], input,
                             (first + (b - 2) * Block) * Stripe, Block, 0))
                  = Taken[s + Till(b)]
    <3> DEFINE m == Till(b - 1)
    <3>1. b \in 1 .. blocks /\ b - 1 \in 1 .. blocks /\ (b - 1) - 1 = b - 2  BY <2>5
    <3>2. Till(b) = m + Block /\ m = first + (b - 2) * Block
      <4>1. (b - 1) * Block = (b - 2) * Block + Block  BY <1>1
      <4> QED  BY <3>1, <4>1, <2>2, <1>1
    <3>3. m \in Nat /\ (s + m) % Block = 0 /\ s + m \in 0 .. L  BY <2>6, <3>1
    <3>4. m + Block <= n /\ s + (m + Block) <= L  BY <2>6, <3>1, <3>2
    <3> HIDE DEF m, Till
    <3>6. X3!Accumulate(Taken[s + m], input, m * Stripe, Block, 0)
             = WithMore(Taken[s + m], s + m, Block)
      <4> DEFINE t == s + m
                 acc == Taken[t]
      <4>1. /\ Block \in Nat /\ 0 \in Nat /\ 0 = t % Block /\ t \in Nat
            /\ acc \in Seq(Item)
        BY <3>3, <1>1, TakenSteps
      <4> HIDE DEF t, acc
      <4>2. t = s + m  BY DEF t
      <4>3. X3!Accumulate(acc, input, At(m), Block, 0) = WithMore(acc, t, Block)
        BY <3>3, <3>4, <4>1, <4>2, AccumulateMore
      <4> QED  BY <4>3 DEF t, acc, At
    <3> DEFINE t == s + m
    <3>7. t \in 0 .. L /\ t % Block = 0 /\ t + Block <= L /\ s + (m + Block) = t + Block
      BY <3>3, <3>4, <1>1
    <3> HIDE DEF t
    <3>8. Taken[t + Block] = X3!Scramble(WithMore(Taken[t], t, Block))
      <4>1. Block \in 0 .. Block - (t % Block) /\ Block = Block - (t % Block)
        BY <3>7, <1>1
      <4> QED  BY <4>1, <3>7, InBlock
    <3> QED  BY <3>2, <3>3, <3>6, <3>7, <3>8 DEF t, m
  \* The blocks are defined, and the b-th leaves what has been taken till then.
  <2>9. after = [b \in 0 .. blocks |-> IF b = 0 THEN Taken[s] ELSE next(b, after[b - 1])]
    <3> DEFINE g == [b \in 0 .. blocks |-> IF b = 0 THEN Taken[s] ELSE Taken[s + Till(b)]]
    <3>1. ASSUME NEW b \in 0 .. blocks
          PROVE  g[b] = IF b = 0 THEN Taken[s]
                        ELSE IF b = 1 THEN X3!Scramble(X3!Accumulate(Taken[s], input, 0, first, soFar))
                        ELSE X3!Scramble(X3!Accumulate(g[b - 1], input,
                                                  (first + (b - 2) * Block) * Stripe,
                                                  Block, X3!KeyAfterBlock(soFar)))
      <4> HIDE DEF Till
      <4>1. CASE b = 0  BY <4>1
      <4>2. CASE b = 1  BY <4>2, <2>7
      <4>3. CASE b # 0 /\ b # 1
        <5>1. b \in 2 .. blocks /\ b - 1 \in 0 .. blocks /\ b - 1 # 0  BY <4>3, <2>5
        <5>2. g[b] = Taken[s + Till(b)] /\ g[b - 1] = Taken[s + Till(b - 1)]
          BY <5>1, <4>3
        <5> HIDE DEF g
        <5> QED  BY <5>1, <5>2, <4>3, <2>8, <2>4
      <4> QED  BY <4>1, <4>2, <4>3
    <3>2. g = [b \in 0 .. blocks |->
                IF b = 0 THEN Taken[s]
                ELSE IF b = 1 THEN X3!Scramble(X3!Accumulate(Taken[s], input, 0, first, soFar))
                ELSE X3!Scramble(X3!Accumulate(g[b - 1], input,
                                               (first + (b - 2) * Block) * Stripe,
                                               Block, X3!KeyAfterBlock(soFar)))]
      <4>1. g = [b \in 0 .. blocks |-> g[b]]  OBVIOUS
      <4> HIDE DEF g
      <4> QED  BY Zenon, <3>1, <4>1
    <3> QED  BY Zenon, <3>2
  <2> HIDE DEF after, Till
  <2>10. \A b \in 1 .. blocks : after[b] = Taken[s + Till(b)]
    <3> DEFINE M == {b \in Int : after[b] = Taken[s + Till(b)]}
    <3>1. 1 \in M
      <4>1. 1 \in 0 .. blocks  BY <2>5
      <4> QED  BY <4>1, <2>7, <2>9
    <3>2. ASSUME NEW b \in 1 .. blocks - 1, b \in M  PROVE b + 1 \in M
      <4>1. /\ b + 1 \in 2 .. blocks /\ b + 1 \in 0 .. blocks /\ (b + 1) - 1 = b
            /\ b + 1 # 0 /\ b + 1 # 1 /\ b + 1 \in Int
        BY <2>5
      <4>2. after[b + 1] = next(b + 1, after[b])
        <5> HIDE DEF next
        <5> QED  BY <4>1, <2>9
      <4>3. after[b] = Taken[s + Till(b)]  BY <3>2
      <4>4. next(b + 1, after[b])
              = X3!Scramble(X3!Accumulate(Taken[s + Till(b)], input,
                              (first + ((b + 1) - 2) * Block) * Stripe, Block, 0))
        BY <4>1, <4>3, <2>4
      <4> HIDE DEF next
      <4>5. after[b + 1] = Taken[s + Till(b + 1)]  BY <4>1, <4>2, <4>4, <2>8
      <4> QED  BY <4>1, <4>5
    <3> HIDE DEF M
    <3>3. 1 \in Int /\ blocks \in Int  BY <2>5
    <3>4. \A b \in 1 .. blocks : b \in M  BY <3>1, <3>2, <3>3, IntervalInduction
    <3> QED  BY <3>4 DEF M
  <2> HIDE DEF next
  <2>11. blocks \in 1 .. blocks /\ done = Till(blocks)  BY <2>5 DEF Till
  <2>12. n - done = r /\ s + n = (s + done) + r /\ done \in Nat /\ r \in Nat
    <3>1. blocks - 1 = q  BY <2>5
    <3>2. done = first + q * Block  BY <3>1
    <3>3. q * Block \in Nat  BY <2>5, <1>1
    <3> HIDE DEF done
    <3> QED  BY <3>2, <3>3, <2>2, <2>3, <1>1
  <2>13. (s + done) % Block = 0 /\ s + done \in 0 .. L  BY <2>6, <2>11
  <2> HIDE DEF done, blocks
  <2>14. after[blocks] = Taken[s + done]  BY <2>10, <2>11
  <2>15. X3!Accumulate(Taken[s + done], input, done * Stripe, r, 0)
           = WithMore(Taken[s + done], s + done, r)
    <3>1. done + r <= n  BY <2>12
    <3> DEFINE t == s + done
               acc == Taken[t]
    <3>2. /\ 0 \in Nat /\ 0 = t % Block /\ t \in Nat /\ acc \in Seq(Item)
      BY <2>12, <2>13, <1>1, TakenSteps
    <3> HIDE DEF t, acc
    <3>3. t = s + done  BY DEF t
    <3>4. X3!Accumulate(acc, input, At(done), r, 0) = WithMore(acc, t, r)
      BY <3>1, <3>2, <3>3, <2>12, AccumulateMore
    <3> QED  BY <3>4 DEF t, acc, At
  <2> DEFINE t == s + done
  <2>16. t \in 0 .. L /\ t % Block = 0 /\ s + n = t + r /\ t \in Int /\ t + r <= L
    BY <2>12, <2>13, <1>1
  <2> HIDE DEF t
  <2>17. Taken[t + r] = WithMore(Taken[t], t, r)
    <3>1. r \in 0 .. Block - (t % Block) /\ r < Block - (t % Block)
      BY <2>16, <2>3, <1>1
    <3> QED  BY <3>1, <2>16, InBlock
  <2>18. (t + r) % Block = r
    <3>1. (t + r) % Block = ((t % Block) + r) % Block
      <4>1. t \in Int /\ r \in Int /\ Block \in Nat \ {0}  BY <2>16, <2>12, <1>1
      <4> QED  BY <4>1, ModSum
    <3>2. (t % Block) + r = r  BY <2>16, <2>12
    <3>3. r % Block = r  BY <2>3, <1>1, ModSmall
    <3> QED  BY <3>1, <3>2, <3>3
  <2>19. X3!XXH3_consumeStripes(Taken[s], soFar, input, n)
           = [acc |-> X3!Accumulate(Taken[s + done], input, done * Stripe, r, 0),
              soFar |-> r]
    BY <2>1, <2>4, <2>12, <2>14
  <2> QED  BY <2>13, <2>15, <2>16, <2>17, <2>18, <2>19 DEF t, soFar
<1> QED  BY <1>4, <1>5 DEF soFar

-----------------------------------------------------------------------------
(* The accumulators between two calls *)

\* The stripes made so far, whole ones, are all that was accumulated.
Took ==
    \E s \in 0 .. Longest.xxh3 :
        Xxh3Base = At(s) /\ context.acc = Taken[s] /\ context.soFar = s % Block

LEMMA AtLeast ==
    ASSUME X3!ConstantsFit, NEW s \in Nat
    PROVE  At(s) \in Nat /\ At(s) >= s
<1>1. Stripe \in Nat \ {0}  BY Xxh3Constants
<1>2. s * Stripe \in Nat /\ s * Stripe >= s  BY <1>1
<1> QED  BY <1>2 DEF At

LEMMA AtProperties ==
    ASSUME X3!ConstantsFit, NEW s \in Nat, NEW n \in Nat
    PROVE  At(s) \in Nat /\ At(s) >= s /\ At(s + n) = At(s) + At(n)
<1>1. Stripe \in Nat \ {0}  BY Xxh3Constants
<1>2. (s + n) * Stripe = s * Stripe + n * Stripe  BY <1>1
<1>3. At(s + n) = At(s) + At(n)  BY <1>2 DEF At
<1> QED  BY <1>3, AtLeast

\* The buffer, filled from the input, holds the bytes behind those consumed.
LEMMA Xxh3Full ==
    ASSUME X3!ConstantsFit, X3!TypeOK, Xxh3Holds, NEW k \in 0 .. Piece.xxh3, X3!Update(k),
           ~X3!StaysBuffered(context.size, k), context.size > 0
    PROVE  LET input == [i \in 1 .. k |-> Data[given + i]]
               full  == X3!Copy(context.buffer, context.size,
                                SubSeq(input, 1, Buffer - context.size))
           IN  /\ full \in [1 .. Buffer -> Xxh3Byte]
               /\ \A i \in 1 .. Buffer : full[i] = Data[Xxh3Base + i]
<1> DEFINE input == [i \in 1 .. k |-> Data[given + i]]
           size  == context.size
           load  == Buffer - size
           first == SubSeq(input, 1, load)
           full  == X3!Copy(context.buffer, size, first)
<1>1. /\ k \in Nat /\ given \in Nat
      /\ input \in Seq(Xxh3Byte) /\ Len(input) = k
      /\ \A i \in 1 .. k : input[i] = Data[given + i]
      /\ size \in 0 .. Buffer /\ size \in Nat
      /\ Xxh3Base \in Nat /\ given = Xxh3Base + size
      /\ context.buffer \in [1 .. Buffer -> Xxh3Byte]
  BY Xxh3Before
<1>b. Buffer \in Nat  BY Xxh3Constants
<1>2. load \in 0 .. k  BY <1>1, <1>b DEF X3!StaysBuffered
<1> HIDE DEF input, size
<1>3. /\ first \in Seq(Xxh3Byte) /\ Len(first) = load
      /\ \A i \in 1 .. load : first[i] = input[i]
  <2>1. /\ 0 \in 0 .. Len(input) /\ load \in 0 .. Len(input)
        /\ load - 0 = load /\ 0 + 1 = 1 /\ \A i \in 1 .. load : 0 + i = i
    BY <1>1, <1>2
  <2> QED  BY <1>1, <2>1, Xxh3Part
<1> HIDE DEF first
<1>4. /\ full \in [1 .. Buffer -> Xxh3Byte]
      /\ \A i \in 1 .. Buffer : full[i] = IF size < i /\ i <= size + Len(first)
                                          THEN first[i - size] ELSE context.buffer[i]
  BY <1>1, <1>3, Xxh3CopyProperties
<1> HIDE DEF full
<1>5. ASSUME NEW i \in 1 .. Buffer  PROVE full[i] = Data[Xxh3Base + i]
  <2>0. i \in Nat /\ 1 <= i /\ i <= size + Len(first)  BY <1>1, <1>3, <1>b
  <2>1. CASE i <= size
    <3>1. i \in 1 .. size /\ ~ (size < i)  BY <2>0, <2>1, <1>1
    <3>2. context.buffer[i] = Data[Xxh3Base + i]  BY <3>1 DEF Xxh3Holds, size
    <3> QED  BY <3>1, <3>2, <1>4
  <2>2. CASE ~ (i <= size)
    <3>1. /\ size < i /\ i - size \in 1 .. load /\ i - size \in 1 .. k
          /\ given + (i - size) = Xxh3Base + i
      BY <2>0, <2>2, <1>1, <1>2, <1>3
    <3>2. first[i - size] = Data[Xxh3Base + i]  BY <3>1, <1>1, <1>3
    <3> QED  BY <2>0, <3>1, <3>2, <1>4
  <2> QED  BY <2>1, <2>2
<1> QED  BY <1>4, <1>5 DEF full, first, size, input

\* An update that consumes takes the buffer's stripes, then the input's.
LEMMA TookConsumed ==
    ASSUME X3!ConstantsFit, X3!TypeOK, Xxh3Holds, Took, NEW k \in 0 .. Piece.xxh3, X3!Update(k),
           ~X3!StaysBuffered(context.size, k)
    PROVE  Took'
<1> DEFINE input  == [i \in 1 .. k |-> Data[given + i]]
           size   == context.size
           load   == Xxh3Load(size)
           direct == Xxh3Direct(size, k)
           upto   == Xxh3Upto(size, k)
           full   == X3!Copy(context.buffer, size, SubSeq(input, 1, load))
           part   == SubSeq(input, load + 1, k)
           w      == Buffer \div Stripe
           one    == IF size > 0
                     THEN X3!XXH3_consumeStripes(context.acc, context.soFar, full, w)
                     ELSE [acc |-> context.acc, soFar |-> context.soFar]
           two    == IF direct > 0
                     THEN X3!XXH3_consumeStripes(one.acc, one.soFar, part, direct)
                     ELSE one
<1>1. /\ k \in Nat /\ given \in Nat /\ given + k \in 0 .. Longest.xxh3 /\ given' = given + k
      /\ input \in Seq(Xxh3Byte) /\ Len(input) = k
      /\ \A i \in 1 .. k : input[i] = Data[given + i]
      /\ context' = X3!XXH3_update(context, input)
      /\ size \in 0 .. Buffer /\ size \in Nat
      /\ Xxh3Base \in Nat /\ given = Xxh3Base + size
  BY Xxh3Before
<1>b. /\ Stripe \in Nat \ {0} /\ Buffer \in Nat /\ Longest.xxh3 \in Nat /\ Block \in Nat \ {0}
  BY Xxh3Constants
<1>2. /\ load \in 0 .. k /\ direct \in Nat /\ upto < k /\ upto \in Nat
  BY <1>1, Xxh3Cut
<1>3. Xxh3Base' = given + upto  BY Xxh3Consumed
<1>4. size > 0 => load = Buffer - size  BY DEF Xxh3Load
<1>5. size = 0 => load = 0  BY DEF Xxh3Load
<1>6. size > 0 => /\ full \in [1 .. Buffer -> Xxh3Byte]
                  /\ \A i \in 1 .. Buffer : full[i] = Data[Xxh3Base + i]
  <2> SUFFICES ASSUME size > 0
               PROVE  /\ full \in [1 .. Buffer -> Xxh3Byte]
                      /\ \A i \in 1 .. Buffer : full[i] = Data[Xxh3Base + i]
    OBVIOUS
  <2>1. full = X3!Copy(context.buffer, context.size, SubSeq(input, 1, Buffer - context.size))
    BY <1>4
  <2> QED  BY <2>1, Xxh3Full
<1>7. context'.acc = two.acc /\ context'.soFar = two.soFar
  <2>1. ~X3!StaysBuffered(context.size, Len(input))  BY <1>1
  <2>2. context' = [seed |-> context.seed, acc |-> two.acc, soFar |-> two.soFar,
                  total |-> context.total + k,
                  buffer |-> X3!Copy(IF direct > 0 THEN X3!KeepLast(full, input, upto) ELSE full,
                                     0, SubSeq(input, upto + 1, k)),
                  size |-> k - upto]
    BY <1>1, <2>1 DEF X3!XXH3_update, Xxh3Upto, Xxh3Direct, Xxh3Load
  <2> HIDE DEF two
  <2> QED  BY <2>2
<1>8. upto = load + At(direct)  BY DEF Xxh3Upto, At
<1>9. w \in Nat /\ At(w) = Buffer
  <2>1. PICK j \in 2 .. Buffer : Buffer = j * Stripe  BY DEF X3!ConstantsFit
  <2>2. j \in Int /\ 0 \in 0 .. Stripe - 1 /\ Buffer = j * Stripe + 0
    BY <2>1, <1>b
  <2>3. w = j  BY <2>2, <1>b, ModUnique
  <2> QED  BY <2>1, <2>3, <1>b DEF At
<1>10. /\ part \in Seq(Xxh3Byte) /\ Len(part) = k - load
       /\ \A i \in 1 .. k - load : part[i] = input[load + i]
  <2>1. load \in 0 .. Len(input) /\ k \in load .. Len(input)  BY <1>1, <1>2
  <2> QED  BY <1>1, <2>1, Xxh3Part
<1>11. PICK s \in 0 .. Longest.xxh3 :
          Xxh3Base = At(s) /\ context.acc = Taken[s] /\ context.soFar = s % Block
  BY DEF Took
<1> HIDE DEF input, size, load, direct, upto, full, part, w
<1> DEFINE a == IF size > 0 THEN s + w ELSE s
<1>12. a \in Nat /\ At(a) = given + load /\ a <= Longest.xxh3
  <2>1. s \in Nat  BY <1>b
  <2>2. /\ At(s + w) = At(s) + At(w) /\ At(s + w) >= s + w /\ At(s) >= s /\ At(s) \in Nat
        /\ s + w \in Nat
    <3>1. s + w \in Nat  BY <2>1, <1>9
    <3>2. At(s + w) = At(s) + At(w) /\ At(s) >= s /\ At(s) \in Nat
      BY <2>1, <1>9, AtProperties
    <3>3. At(s + w) >= s + w  BY <3>1, AtLeast
    <3> QED  BY <3>1, <3>2, <3>3
  <2>3. CASE size > 0
    <3>1. At(s + w) = given + load  BY <2>2, <2>3, <1>1, <1>4, <1>9, <1>11, <1>b
    <3>2. given + load <= Longest.xxh3 /\ given + load \in Nat  BY <1>1, <1>2, <1>b
    <3> QED  BY <2>2, <2>3, <3>1, <3>2, <1>b
  <2>4. CASE ~ (size > 0)
    <3>1. size = 0 /\ load = 0  BY <2>4, <1>1, <1>5
    <3>2. At(s) = given + load  BY <3>1, <1>1, <1>11
    <3> QED  BY <2>1, <2>4, <3>2
  <2> QED  BY <2>3, <2>4
<1>13. one = [acc |-> Taken[a], soFar |-> a % Block]
  <2>1. CASE size > 0
    <3>1. full \in Seq(Xxh3Byte) /\ Len(full) = Buffer  BY <2>1, <1>6, <1>b
    <3>2. w * Stripe = Buffer /\ s * Stripe = Xxh3Base  BY <1>9, <1>11 DEF At
    <3>3. \A i \in 1 .. w * Stripe : full[i] = Data[s * Stripe + i]  BY <2>1, <3>2, <1>6
    <3>4. w * Stripe <= Len(full)  BY <3>1, <3>2, <1>b
    <3>5. Reads(full, s, w)
      <4>1. s \in Nat  OBVIOUS
      <4> HIDE DEF At
      <4> QED  BY <3>1, <3>3, <3>4, <4>1, <1>9, ReadsData
    <3>6. s + w <= Longest.xxh3 /\ s \in Nat  BY <2>1, <1>12
    <3>7. X3!XXH3_consumeStripes(Taken[s], s % Block, full, w)
            = [acc |-> Taken[s + w], soFar |-> (s + w) % Block]
      BY <3>5, <3>6, <1>9, ConsumeTakes
    <3> QED  BY <2>1, <3>7, <1>11
  <2>2. CASE ~ (size > 0)  BY <2>2, <1>11
  <2> QED  BY <2>1, <2>2
<1> HIDE DEF one, a
<1>14. two = [acc |-> Taken[a + direct], soFar |-> (a + direct) % Block] /\ a + direct <= Longest.xxh3
       /\ At(a + direct) = given + upto
  <2>1. /\ At(a + direct) = At(a) + At(direct) /\ At(a + direct) >= a + direct
        /\ At(direct) \in Nat /\ a + direct \in Nat
    <3>1. a + direct \in Nat  BY <1>2, <1>12
    <3>2. At(a + direct) = At(a) + At(direct)  BY <1>2, <1>12, AtProperties
    <3>3. At(direct) \in Nat  BY <1>2, AtLeast
    <3>4. At(a + direct) >= a + direct  BY <3>1, AtLeast
    <3> QED  BY <3>1, <3>2, <3>3, <3>4
  <2>2. At(a + direct) = given + upto  BY <2>1, <1>1, <1>2, <1>8, <1>12
  <2>3. given + upto <= Longest.xxh3  BY <1>1, <1>2, <1>b
  <2>4. a + direct <= Longest.xxh3  BY <2>1, <2>2, <2>3, <1>1, <1>2, <1>b
  <2>5. CASE direct > 0
    <3>1. direct * Stripe <= Len(part) /\ direct * Stripe \in Nat
      <4>1. At(direct) <= k - load  BY <2>1, <1>1, <1>2, <1>8
      <4> QED  BY <2>1, <4>1, <1>10 DEF At
    <3>2. ASSUME NEW j \in 1 .. direct * Stripe  PROVE part[j] = Data[a * Stripe + j]
      <4>1. j \in 1 .. k - load /\ load + j \in 1 .. k /\ given + (load + j) = (given + load) + j
        BY <3>1, <1>1, <1>2, <1>10
      <4>2. part[j] = Data[(given + load) + j]  BY <4>1, <1>1, <1>10
      <4> QED  BY <4>2, <1>12 DEF At
    <3>3. Reads(part, a, direct)
      BY <3>1, <3>2, <1>2, <1>10, <1>12, ReadsData
    <3>4. X3!XXH3_consumeStripes(Taken[a], a % Block, part, direct)
            = [acc |-> Taken[a + direct], soFar |-> (a + direct) % Block]
      BY <3>3, <2>4, <1>2, <1>12, ConsumeTakes
    <3> QED  BY <2>2, <2>4, <2>5, <3>4, <1>13
  <2>6. CASE ~ (direct > 0)
    <3>1. direct = 0 /\ a + direct = a  BY <2>6, <1>2, <1>12
    <3> QED  BY <2>2, <2>4, <2>6, <3>1, <1>13
  <2> QED  BY <2>5, <2>6
<1> HIDE DEF two
<1> DEFINE n == a + direct
<1>15. n \in 0 .. Longest.xxh3  BY <1>2, <1>12, <1>14, <1>b
<1>16. Xxh3Base' = At(n) /\ context'.acc = Taken[n] /\ context'.soFar = n % Block
  BY <1>3, <1>7, <1>14
<1> HIDE DEF n
<1> QED  BY <1>15, <1>16 DEF Took, At

LEMMA TookNext ==
    X3!ConstantsFit /\ X3!TypeOK /\ Xxh3Holds /\ Took /\ [X3!Next]_(X3!vars) => Took'
<1> SUFFICES ASSUME X3!ConstantsFit, X3!TypeOK, Xxh3Holds, Took, [X3!Next]_(X3!vars) PROVE Took'
  OBVIOUS
<1>1. CASE X3!Starts
  <2>1. /\ context'.size = 0 /\ context'.soFar = 0 /\ context'.acc = <<>> /\ given' = 0
    BY <1>1 DEF X3!Starts, X3!XXH3_reset
  <2>2. Xxh3Base' = 0  BY <2>1 DEF Xxh3Base
  <2>3. /\ 0 \in 0 .. Longest.xxh3 /\ At(0) = 0 /\ Taken[0] = <<>> /\ 0 % Block = 0
    BY Xxh3Constants, TakenSteps DEF At
  <2> QED  BY <2>1, <2>2, <2>3 DEF Took, At
<1>2. CASE X3!Finish  BY <1>2 DEF X3!Finish, Took, Xxh3Base, At
<1>3. ASSUME NEW k \in 0 .. Piece.xxh3, X3!Update(k) PROVE Took'
  <2>1. CASE X3!StaysBuffered(context.size, k)
    <3>1. /\ context'.acc = context.acc /\ context'.soFar = context.soFar
          /\ context'.size = context.size + k /\ given' = given + k
      <4>1. /\ k \in Nat /\ Len([i \in 1 .. k |-> Data[given + i]]) = k
            /\ given' = given + k
            /\ context' = X3!XXH3_update(context, [i \in 1 .. k |-> Data[given + i]])
        BY <1>3, Xxh3Before
      <4> QED  BY <2>1, <4>1 DEF X3!XXH3_update
    <3>2. Xxh3Base' = Xxh3Base
      <4>1. given \in Nat /\ context.size \in Nat /\ k \in Nat  BY <1>3, Xxh3Before
      <4> QED  BY <3>1, <4>1 DEF Xxh3Base
    <3> QED  BY <3>1, <3>2 DEF Took, At
  <2>2. CASE ~X3!StaysBuffered(context.size, k)  BY <2>2, <1>3, TookConsumed
  <2> QED  BY <2>1, <2>2
<1>4. CASE UNCHANGED X3!vars  BY <1>4 DEF X3!vars, Took, Xxh3Base, At
<1> QED  BY <1>1, <1>2, <1>3, <1>4 DEF X3!Next

LEMMA MessageType ==
    ASSUME X3!ConstantsFit, NEW n \in 0 .. Longest.xxh3
    PROVE  /\ X3!Message(n) \in Seq(Xxh3Byte) /\ Len(X3!Message(n)) = n
           /\ \A i \in 1 .. n : X3!Message(n)[i] = Data[i]
<1>1. n \in Nat /\ Longest.xxh3 \in Nat  BY Xxh3Constants
<1>2. \A i \in 1 .. n : i \in 1 .. Longest.xxh3  BY <1>1
<1>3. \A i \in 1 .. n : Data[i] \in Xxh3Byte  BY <1>2 DEF Xxh3Byte
<1> QED  BY <1>1, <1>3 DEF X3!Message

LEMMA MessageReads ==
    ASSUME X3!ConstantsFit, NEW n \in 0 .. Longest.xxh3, NEW m \in Nat, At(m) <= n
    PROVE  Reads(X3!Message(n), 0, m)
<1> DEFINE msg == X3!Message(n)
           z == 0
<1>1. msg \in Seq(Xxh3Byte) /\ Len(msg) = n /\ \A i \in 1 .. n : msg[i] = Data[i]
  BY MessageType
<1>2. n \in Nat /\ Stripe \in Nat \ {0}  BY Xxh3Constants
<1>3. m * Stripe <= n /\ m * Stripe \in Nat  BY <1>2 DEF At
<1>4. z \in Nat /\ z * Stripe = 0  BY <1>2
<1>5. \A i \in 1 .. m * Stripe : msg[i] = Data[z * Stripe + i]
  <2>1. \A i \in 1 .. m * Stripe : i \in 1 .. n /\ 0 + i = i  BY <1>2, <1>3
  <2> QED  BY <2>1, <1>1, <1>4
<1>6. m * Stripe <= Len(msg)  BY <1>1, <1>3
<1> HIDE DEF msg, z
<1>7. Reads(msg, z, m)  BY <1>1, <1>4, <1>5, <1>6, ReadsData
<1> QED  BY <1>7 DEF msg, z

LEMMA TookStripes == X3!ConstantsFit /\ X3!TypeOK /\ Xxh3Holds /\ Took => X3!StripesInPlace
<1> SUFFICES ASSUME X3!ConstantsFit, X3!TypeOK, Xxh3Holds, Took PROVE X3!StripesInPlace
  OBVIOUS
<1> DEFINE n == (given - context.size) \div Stripe
           stripe(i) ==
             <<i % Block, SubSeq(X3!Message(given), i * Stripe + 1, (i + 1) * Stripe)>>
           done[i \in 0 .. n] ==
             IF i = 0 THEN <<>>
             ELSE IF i % Block = 0 THEN X3!Scramble(Append(done[i - 1], stripe(i - 1)))
             ELSE Append(done[i - 1], stripe(i - 1))
<1>1. X3!StripesInPlace <=>
        /\ (given - context.size) % Stripe = 0 /\ context.soFar = n % Block
        /\ context.acc = done[n]
        /\ \A i \in 1 .. context.size : context.buffer[i] = Data[given - context.size + i]
  BY Zenon DEF X3!StripesInPlace
<1>2. PICK s \in 0 .. Longest.xxh3 :
         Xxh3Base = At(s) /\ context.acc = Taken[s] /\ context.soFar = s % Block
  BY DEF Took
<1>b. /\ Stripe \in Nat \ {0} /\ Block \in Nat \ {0} /\ Longest.xxh3 \in Nat
      /\ given \in 0 .. Longest.xxh3 /\ given \in Nat /\ context.size \in Nat
      /\ s \in Nat /\ Buffer \in Nat
  BY Xxh3Constants DEF X3!TypeOK
<1>3. Xxh3Base % Stripe = 0 /\ Xxh3Base \div Stripe = s
  <2> DEFINE x == Xxh3Base
  <2>1. x \in Int  BY <1>b DEF Xxh3Base
  <2>2. s \in Int /\ 0 \in 0 .. Stripe - 1 /\ x = s * Stripe + 0
    <3>1. x = s * Stripe /\ s * Stripe \in Int  BY <1>2, <1>b DEF At
    <3> HIDE DEF x
    <3> QED  BY <3>1, <1>b
  <2> HIDE DEF x
  <2>3. x % Stripe = 0 /\ x \div Stripe = s  BY <2>1, <2>2, <1>b, ModUnique
  <2> QED  BY <2>3 DEF x
<1>4. n = s  BY <1>3 DEF Xxh3Base
<1>5. ASSUME NEW i \in 1 .. s
      PROVE  stripe(i - 1) = <<(i - 1) % Block, DataStripe(i - 1)>>
  <2>1. At(s) <= given
    <3>1. context.size <= given /\ Xxh3Base = given - context.size  BY DEF Xxh3Holds, Xxh3Base
    <3> QED  BY <3>1, <1>2, <1>b
  <2>2. Reads(X3!Message(given), 0, s)  BY <2>1, <1>b, MessageReads
  <2>3. (i - 1) + 1 = i /\ 0 + i - 1 = i - 1  BY <1>b
  <2>4. SubSeq(X3!Message(given), (i - 1) * Stripe + 1, i * Stripe) = DataStripe(0 + i - 1)
    BY <2>2 DEF Reads
  <2> QED  BY <2>3, <2>4
<1>6. done = [i \in 0 .. n |->
                IF i = 0 THEN <<>>
                ELSE IF i % Block = 0 THEN X3!Scramble(Append(done[i - 1], stripe(i - 1)))
                ELSE Append(done[i - 1], stripe(i - 1))]
  <2> DEFINE g == [i \in 0 .. n |-> Taken[i]]
  <2>1. ASSUME NEW i \in 0 .. n
        PROVE  g[i] = IF i = 0 THEN <<>>
                      ELSE IF i % Block = 0 THEN X3!Scramble(Append(g[i - 1], stripe(i - 1)))
                      ELSE Append(g[i - 1], stripe(i - 1))
    <3> HIDE DEF stripe, n
    <3>1. CASE i = 0  BY <3>1, <1>4, <1>b, TakenSteps
    <3>2. CASE i # 0
      <4>1. i \in 1 .. s /\ i - 1 \in 0 .. n /\ i \in 1 .. Longest.xxh3
        BY <3>2, <1>4, <1>b
      <4>2. Taken[i] = Closed(Append(Taken[i - 1], <<(i - 1) % Block, DataStripe(i - 1)>>), i)
        BY <4>1, TakenSteps
      <4>3. Taken[i] = Closed(Append(Taken[i - 1], stripe(i - 1)), i)
        BY <4>1, <4>2, <1>5
      <4>4. g[i] = Taken[i] /\ g[i - 1] = Taken[i - 1]  BY <4>1
      <4> HIDE DEF g
      <4> QED  BY <3>2, <4>3, <4>4 DEF Closed
    <3> QED  BY <3>1, <3>2
  <2>2. g = [i \in 0 .. n |->
                IF i = 0 THEN <<>>
                ELSE IF i % Block = 0 THEN X3!Scramble(Append(g[i - 1], stripe(i - 1)))
                ELSE Append(g[i - 1], stripe(i - 1))]
    <3>1. g = [i \in 0 .. n |-> g[i]]  OBVIOUS
    <3> HIDE DEF g, stripe, n
    <3> QED  BY Zenon, <2>1, <3>1
  <2> QED  BY Zenon, <2>2
<1> HIDE DEF n, stripe, done
<1>7. done[s] = Taken[s]
  <2> DEFINE M == {i \in Int : done[i] = Taken[i]}
  <2>1. 0 \in M
    <3>1. 0 \in 0 .. n /\ 0 \in Int  BY <1>4, <1>b
    <3> QED  BY <3>1, <1>6, TakenSteps
  <2>2. ASSUME NEW i \in 0 .. s - 1, i \in M  PROVE i + 1 \in M
    <3>1. /\ i + 1 \in 0 .. n /\ (i + 1) - 1 = i /\ i + 1 # 0 /\ i + 1 \in Int
          /\ i + 1 \in 1 .. s /\ i + 1 \in 1 .. Longest.xxh3
      BY <1>4, <1>b
    <3>2. done[i + 1] = Closed(Append(done[i], stripe(i)), i + 1)
      BY <3>1, <1>6 DEF Closed
    <3>3. Taken[i + 1] = Closed(Append(Taken[i], <<i % Block, DataStripe(i)>>), i + 1)
      BY <3>1, TakenSteps
    <3>4. stripe(i) = <<i % Block, DataStripe(i)>>  BY <3>1, <1>5
    <3> QED  BY <2>2, <3>1, <3>2, <3>3, <3>4
  <2> HIDE DEF M
  <2>3. 0 \in Int /\ s \in Int /\ s \in 0 .. s  BY <1>b
  <2>4. \A i \in 0 .. s : i \in M  BY <2>1, <2>2, <2>3, IntervalInduction
  <2> QED  BY <2>3, <2>4 DEF M
<1>8. \A i \in 1 .. context.size : context.buffer[i] = Data[given - context.size + i]
  BY DEF Xxh3Holds, Xxh3Base
<1>9. (given - context.size) % Stripe = 0  BY <1>3 DEF Xxh3Base
<1> QED  BY <1>1, <1>2, <1>4, <1>7, <1>8, <1>9

-----------------------------------------------------------------------------
(* Long messages *)

\* What is left for the digest: the stripes that end before the last byte.
LEMMA LongDigest ==
    ASSUME X3!ConstantsFit, X3!TypeOK, Xxh3Holds, Took, given >= Stripe,
           NEW q \in Nat, q = X3!RestStripes(given)
    PROVE  X3!XXH3_digest_long(context)
              = Append(Taken[q], <<"last", [i \in 1 .. Stripe |-> Data[(given - Stripe) + i]]>>)
<1> DEFINE size == context.size
           e == (size - 1) \div Stripe
           r == (size - 1) % Stripe
<1>1. /\ Stripe \in Nat \ {0} /\ Buffer \in Nat /\ Longest.xxh3 \in Nat
      /\ given \in 0 .. Longest.xxh3 /\ given \in Nat /\ size \in 0 .. Buffer /\ size \in Nat
      /\ context.buffer \in [1 .. Buffer -> Xxh3Byte]
  BY Xxh3Constants DEF X3!TypeOK, Xxh3Byte
<1>2. PICK s \in 0 .. Longest.xxh3 :
         Xxh3Base = At(s) /\ context.acc = Taken[s] /\ context.soFar = s % Block
  BY DEF Took
<1>3. /\ size > 0 /\ s \in Nat /\ given = At(s) + size
      /\ \A i \in 1 .. size : context.buffer[i] = Data[At(s) + i]
  <2>1. /\ size > 0 /\ Xxh3Base = given - size
        /\ \A i \in 1 .. size : context.buffer[i] = Data[Xxh3Base + i]
    BY <1>1 DEF Xxh3Holds, Xxh3Base
  <2>2. s \in Nat  BY <1>1
  <2>3. At(s) \in Nat  BY <2>2, AtLeast
  <2> HIDE DEF size, e, r
  <2>4. Xxh3Base = At(s)  BY <1>2
  <2>5. given = At(s) + size  BY <2>1, <2>3, <2>4, <1>1
  <2>6. \A i \in 1 .. size : context.buffer[i] = Data[At(s) + i]  BY <2>1, <2>4
  <2> QED  BY <2>1, <2>2, <2>5, <2>6
<1> HIDE DEF size
<1>4. e \in Int /\ r \in 0 .. Stripe - 1 /\ size - 1 = e * Stripe + r
  <2> DEFINE x == size - 1
  <2>1. x \in Int  BY <1>1
  <2> HIDE DEF x
  <2>2. x \div Stripe \in Int /\ x % Stripe \in 0 .. Stripe - 1
        /\ x = (x \div Stripe) * Stripe + (x % Stripe)
    BY <2>1, <1>1, DivMod
  <2> QED  BY <2>2 DEF x
<1> HIDE DEF e, r
<1>5. e \in Nat
  <2>0. e \in Int /\ 0 \in Int /\ Stripe \in Nat \ {0}  BY <1>4, <1>1
  <2>1. 0 > e => 0 * Stripe >= e * Stripe + Stripe  BY <2>0, MultiplesApart
  <2>2. e * Stripe \in Int /\ 0 * Stripe = 0  BY <1>4, <1>1
  <2> QED  BY <2>1, <2>2, <1>1, <1>3, <1>4, SMTT(30)
<1>6. q = s + e
  <2> DEFINE x == given - 1
             v == s + e
  <2>1. x \in Int /\ v \in Int /\ x = v * Stripe + r
    <3>1. At(s) = s * Stripe /\ (s + e) * Stripe = s * Stripe + e * Stripe /\ s * Stripe \in Nat
      BY <1>1, <1>3, <1>5 DEF At
    <3> DEFINE y == s * Stripe
               z == e * Stripe
    <3>2. y \in Nat /\ z \in Nat /\ given = y + size /\ size - 1 = z + r /\ v * Stripe = y + z
      BY <3>1, <1>1, <1>3, <1>4, <1>5
    <3> HIDE DEF y, z, v
    <3>3. x = v * Stripe + r  BY <3>2, <1>1, <1>4
    <3> QED  BY <3>3, <1>1, <1>3, <1>5 DEF v
  <2> HIDE DEF x, v
  <2>2. x \div Stripe = v  BY <2>1, <1>1, <1>4, ModUnique
  <2> QED  BY <2>2 DEF x, v, X3!RestStripes
<1>7. /\ s + e <= Longest.xxh3 /\ e * Stripe <= size - 1 /\ e * Stripe \in Nat
  <2>1. e * Stripe \in Nat /\ e * Stripe >= e  BY <1>1, <1>5
  <2>2. At(s) \in Nat /\ At(s) >= s  BY <1>3, AtLeast
  <2> QED  BY <2>1, <2>2, <1>1, <1>3, <1>4, <1>5, SMTT(30)
<1> DEFINE acc == IF size >= Stripe
                  THEN X3!XXH3_consumeStripes(context.acc, context.soFar, context.buffer,
                                              X3!RestStripes(size)).acc
                  ELSE context.acc
<1>8. acc = Taken[q]
  <2>1. CASE size >= Stripe
    <3>1. context.buffer \in Seq(Xxh3Byte) /\ Len(context.buffer) = Buffer  BY <1>1
    <3>2. \A j \in 1 .. e * Stripe : context.buffer[j] = Data[s * Stripe + j]
      <4>1. \A j \in 1 .. e * Stripe : j \in 1 .. size  BY <1>1, <1>7
      <4> QED  BY <4>1, <1>3 DEF At
    <3>3. e * Stripe <= Len(context.buffer)  BY <3>1, <1>1, <1>7
    <3> DEFINE buf == context.buffer
    <3> HIDE DEF buf
    <3>4. Reads(buf, s, e)  BY <3>1, <3>2, <3>3, <1>3, <1>5, ReadsData DEF buf
    <3>5. X3!XXH3_consumeStripes(Taken[s], s % Block, buf, e)
            = [acc |-> Taken[s + e], soFar |-> (s + e) % Block]
      BY <3>4, <1>3, <1>5, <1>7, ConsumeTakes
    <3>6. X3!RestStripes(size) = e  BY DEF X3!RestStripes, e
    <3> QED  BY <2>1, <3>5, <3>6, <1>2, <1>6 DEF buf
  <2>2. CASE ~ (size >= Stripe)
    <3>1. e = 0
      <4>1. e > 0 => e * Stripe >= 0 * Stripe + Stripe  BY <1>1, <1>5, MultiplesApart
      <4>2. 0 * Stripe = 0  BY <1>1
      <4> QED  BY <2>2, <4>1, <4>2, <1>1, <1>5, <1>7
    <3> QED  BY <2>2, <3>1, <1>2, <1>3, <1>6
  <2> QED  BY <2>1, <2>2
<1>9. X3!XXH3_digest_long(context) = Append(acc, <<"last", X3!LastStripe(context)>>)
  BY Zenon DEF X3!XXH3_digest_long, size
<1> HIDE DEF acc
<1> QED  BY <1>8, <1>9, Xxh3LastStripe

\* The same stripes in memory, block after block.
LEMMA LongMessage ==
    ASSUME X3!ConstantsFit, NEW len \in 0 .. Longest.xxh3, len >= Stripe,
           NEW q \in Nat, q = X3!RestStripes(len)
    PROVE  X3!XXH3_hashLong(X3!Message(len))
              = Append(Taken[q], <<"last", [i \in 1 .. Stripe |-> Data[(len - Stripe) + i]]>>)
<1> DEFINE msg == X3!Message(len)
           length == Len(msg)
           block_len == Stripe * Block
           nb == (length - 1) \div block_len
           rest == (length - 1) - block_len * nb
           v == rest \div Stripe
           r == rest % Stripe
           next(b, a) == X3!Scramble(X3!Accumulate(a, msg, (b - 1) * block_len, Block, 0))
           after[b \in 0 .. nb] ==
              IF b = 0 THEN <<>>
              ELSE X3!Scramble(X3!Accumulate(after[b - 1], msg, (b - 1) * block_len, Block, 0))
           last == SubSeq(msg, length - Stripe + 1, length)
<1>1. X3!XXH3_hashLong(msg)
        = Append(X3!Accumulate(after[nb], msg, nb * block_len, v, 0), <<"last", last>>)
  BY Zenon DEF X3!XXH3_hashLong
<1>2. /\ Stripe \in Nat \ {0} /\ Block \in Nat \ {0} /\ Longest.xxh3 \in Nat /\ len \in Nat
      /\ block_len \in Nat \ {0}
  BY Xxh3Constants
<1>3. msg \in Seq(Xxh3Byte) /\ length = len /\ \A i \in 1 .. len : msg[i] = Data[i]
  BY MessageType
<1> HIDE DEF msg, length, after
<1>4. last = [i \in 1 .. Stripe |-> Data[(len - Stripe) + i]]
  <2> HIDE DEF nb, rest, v, r, block_len
  <2> DEFINE want == [i \in 1 .. Stripe |-> Data[(len - Stripe) + i]]
             from == len - Stripe
  <2>1. from \in 0 .. Len(msg) /\ len \in from .. Len(msg) /\ len - from = Stripe /\ from \in Nat
        /\ from + Stripe <= Longest.xxh3
    <3> HIDE DEF next, want, last, from
    <3>1. Len(msg) = len  BY <1>3 DEF length
    <3>2. from = len - Stripe  BY DEF from
    <3>3. from \in Nat /\ len - from = Stripe /\ from <= len /\ from + Stripe = len
      BY <1>2, <3>2
    <3> QED  BY <1>2, <3>1, <3>3
  <2>2. want = [i \in 1 .. Stripe |-> Data[from + i]]  OBVIOUS
  <2>3. last = SubSeq(msg, from + 1, len)  BY <1>3
  <2> HIDE DEF want, from, last
  <2>4. /\ last \in Seq(Xxh3Byte) /\ Len(last) = Stripe
        /\ \A i \in 1 .. Stripe : last[i] = msg[from + i]
    BY <1>3, <2>1, <2>3, Xxh3Part
  <2>5. want \in Seq(Xxh3Byte) /\ Len(want) = Stripe
    BY <1>2, <2>1, <2>2, Xxh3InputType
  <2>6. \A i \in 1 .. Stripe : last[i] = want[i]
    <3>1. \A i \in 1 .. Stripe : from + i \in 1 .. len  BY <1>2, <2>1
    <3> QED  BY <3>1, <2>2, <2>4, <1>3
  <2>7. last = want  BY <2>4, <2>5, <2>6, SeqEqual
  <2> QED  BY <2>7 DEF want
<1> HIDE DEF last
<1>5. /\ nb \in Nat /\ rest \in 0 .. block_len - 1 /\ len - 1 = nb * block_len + rest
  <2> DEFINE x == length - 1
  <2>1. x \in Nat  BY <1>2, <1>3
  <2> HIDE DEF x, block_len
  <2>2. x \div block_len \in Int /\ x % block_len \in 0 .. block_len - 1
        /\ x = (x \div block_len) * block_len + (x % block_len)
    BY <2>1, <1>2, DivMod, SMTT(30)
  <2>3. nb = x \div block_len  BY DEF x
  <2> HIDE DEF nb
  <2>4. nb \in Nat
    <3>0. nb \in Int /\ 0 \in Int  BY <2>2, <2>3
    <3>1. 0 > nb => 0 * block_len >= nb * block_len + block_len
      BY <3>0, <1>2, MultiplesApart
    <3>2. nb * block_len \in Int /\ 0 * block_len = 0  BY <2>2, <2>3, <1>2
    <3> QED  BY <3>1, <3>2, <2>1, <2>2, <2>3, <1>2
  <2>5. block_len * nb = nb * block_len /\ nb * block_len \in Nat  BY <2>4, <1>2
  <2>6. rest = x % block_len
    <3>1. rest = x - nb * block_len  BY <2>5 DEF x
    <3> QED  BY <3>1, <2>1, <2>2, <2>3, <2>5, <1>2
  <2> HIDE DEF rest
  <2>7. len - 1 = x  BY <1>3 DEF x
  <2> QED  BY <2>2, <2>3, <2>4, <2>6, <2>7
<1> HIDE DEF nb, rest
<1>6. /\ v \in 0 .. Block - 1 /\ r \in 0 .. Stripe - 1 /\ rest = v * Stripe + r
  <2>1. v \in Int /\ r \in 0 .. Stripe - 1 /\ rest = v * Stripe + r
    <3>1. rest \in Int  BY <1>5, <1>2
    <3> HIDE DEF block_len
    <3> QED  BY <3>1, <1>2, DivMod
  <2> HIDE DEF v, r
  <2>2. 0 > v => 0 * Stripe >= v * Stripe + Stripe  BY <2>1, <1>2, MultiplesApart
  <2>3. v > Block - 1 => v * Stripe >= (Block - 1) * Stripe + Stripe
    BY <2>1, <1>2, MultiplesApart
  <2>4. (Block - 1) * Stripe + Stripe = block_len /\ 0 * Stripe = 0 /\ v * Stripe \in Int
    BY <2>1, <1>2
  <2> HIDE DEF block_len
  <2>5. v >= 0  BY <2>1, <2>2, <2>4, <1>2, <1>5
  <2>6. v <= Block - 1  BY <2>1, <2>3, <2>4, <1>2, <1>5
  <2> QED  BY <2>1, <2>5, <2>6, <1>2
<1> HIDE DEF v, r
<1> DEFINE End(b) == b * Block
<1>7. q = End(nb) + v /\ End(nb) \in Nat
  <2> DEFINE x == len - 1
             y == End(nb) + v
  <2>1. x \in Int  BY <1>2
  <2>2. End(nb) \in Nat /\ y \in Int  BY <1>2, <1>5, <1>6
  <2>3. y * Stripe = nb * block_len + v * Stripe /\ nb * block_len \in Nat /\ v * Stripe \in Nat
    BY <1>2, <1>5, <1>6
  <2>4. x = y * Stripe + r
    <3> HIDE DEF block_len, y
    <3> QED  BY <2>3, <1>2, <1>5, <1>6
  <2> HIDE DEF x, y
  <2>5. x \div Stripe = y  BY <2>1, <2>2, <2>4, <1>2, <1>6, ModUnique
  <2> QED  BY <2>2, <2>5 DEF x, y, X3!RestStripes
<1>8. q <= Longest.xxh3 /\ Reads(msg, 0, q)
  <2>1. At(q) \in Nat /\ At(q) >= q  BY AtLeast
  <2>2. At(q) <= len
    <3> DEFINE x == len - 1
    <3>1. x \in Int  BY <1>2
    <3>2. q = x \div Stripe  BY DEF X3!RestStripes
    <3> HIDE DEF x
    <3>3. x % Stripe \in 0 .. Stripe - 1 /\ x = (x \div Stripe) * Stripe + (x % Stripe)
      BY <3>1, <1>2, DivMod
    <3>4. x = At(q) + (x % Stripe)  BY <3>2, <3>3 DEF At
    <3>5. x % Stripe >= 0 /\ x % Stripe \in Int  BY <3>3, <1>2
    <3>6. x <= len  BY <1>2 DEF x
    <3> QED  BY <3>1, <3>4, <3>5, <3>6, <2>1, <1>2
  <2>3. Reads(msg, 0, q)  BY <2>2, MessageReads DEF msg
  <2> QED  BY <2>1, <2>2, <2>3, <1>2
\* One block more.
<1>9. ASSUME NEW b \in 1 .. nb
      PROVE  /\ End(b) = End(b - 1) + Block /\ End(b - 1) \in Nat /\ End(b) <= q
             /\ End(b - 1) % Block = 0 /\ (b - 1) * block_len = At(End(b - 1))
  <2>1. b \in Nat /\ b - 1 \in Nat /\ nb \in Nat  BY <1>5
  <2>2. End(b) = End(b - 1) + Block /\ End(b - 1) \in Nat /\ End(b) \in Nat
    BY <2>1, <1>2
  <2>3. End(b) <= End(nb)
    <3>1. nb > b => nb * Block >= b * Block + Block  BY <2>1, <1>2, MultiplesApart
    <3>2. nb = b \/ nb > b  BY <2>1
    <3> QED  BY <3>1, <3>2, <2>2, <1>2, <1>7
  <2>4. End(b - 1) % Block = 0
    <3> DEFINE x == End(b - 1)
               d == b - 1
    <3>1. x \in Int /\ d \in Int /\ x = d * Block + 0 /\ 0 \in 0 .. Block - 1
      BY <2>1, <2>2, <1>2
    <3> HIDE DEF x, d
    <3>2. x % Block = 0  BY <3>1, <1>2, ModUnique
    <3> QED  BY <3>2 DEF x
  <2>5. (b - 1) * block_len = At(End(b - 1))
    <3> DEFINE d == b - 1
    <3>1. d \in Nat  BY <2>1
    <3> HIDE DEF d
    <3>2. d * (Stripe * Block) = (d * Block) * Stripe  BY <3>1, <1>2
    <3> QED  BY <3>2 DEF d, At
  <2> HIDE DEF End, block_len
  <2> QED  BY <2>2, <2>3, <2>4, <2>5, <1>2, <1>6, <1>7
<1>10. ASSUME NEW b \in 1 .. nb  PROVE next(b, Taken[End(b - 1)]) = Taken[End(b)]
  <2> DEFINE t == End(b - 1)
             acc == Taken[t]
  <2>1. /\ End(b) = t + Block /\ t \in Nat /\ t + Block <= q /\ 0 = t % Block
        /\ (b - 1) * block_len = At(t)
    BY <1>9
  <2> HIDE DEF t, End, block_len
  <2>2. t \in 0 .. Longest.xxh3 /\ t + Block <= Longest.xxh3  BY <2>1, <1>2, <1>8
  <2>3. acc \in Seq(Item)  BY <2>2, TakenSteps
  <2> HIDE DEF acc
  <2>5. X3!Accumulate(acc, msg, At(t), Block, 0) = WithMore(acc, t, Block)
    <3> DEFINE z == 0
               n == Block
    <3> HIDE DEF next
    <3>1. /\ z \in Nat /\ t = z + t /\ n \in Nat /\ t + n <= q /\ z = t % Block
          /\ Reads(msg, z, q) /\ t \in Nat
      BY <2>1, <1>2, <1>8
    <3> HIDE DEF z, n
    <3>2. X3!Accumulate(acc, msg, At(t), n, z) = WithMore(acc, t, n)
      BY <2>3, <3>1, AccumulateMore
    <3> QED  BY <3>2 DEF z, n
  <2>6. Taken[t + Block] = X3!Scramble(WithMore(Taken[t], t, Block))
    <3>1. Block \in 0 .. Block - (t % Block) /\ Block = Block - (t % Block)
      BY <2>1, <1>2
    <3> QED  BY <3>1, <2>2, InBlock
  <2> QED  BY <2>1, <2>5, <2>6 DEF acc, t
<1> HIDE DEF block_len
<1>11. after = [b \in 0 .. nb |-> IF b = 0 THEN <<>> ELSE next(b, after[b - 1])]
  <2> DEFINE g == [b \in 0 .. nb |-> Taken[End(b)]]
  <2>1. ASSUME NEW b \in 0 .. nb
        PROVE  g[b] = IF b = 0 THEN <<>>
                      ELSE X3!Scramble(X3!Accumulate(g[b - 1], msg, (b - 1) * block_len, Block, 0))
    <3>1. CASE b = 0
      <4>1. End(0) = 0  BY <1>2
      <4> QED  BY <3>1, <4>1, TakenSteps
    <3>2. CASE b # 0
      <4>1. b \in 1 .. nb /\ b - 1 \in 0 .. nb  BY <3>2, <1>5
      <4>2. g[b - 1] = Taken[End(b - 1)] /\ g[b] = Taken[End(b)]
        <5> HIDE DEF End
        <5> QED  BY <4>1
      <4> HIDE DEF g, End
      <4> QED  BY <3>2, <4>1, <4>2, <1>10
    <3> QED  BY <3>1, <3>2
  <2>2. g = [b \in 0 .. nb |->
               IF b = 0 THEN <<>>
               ELSE X3!Scramble(X3!Accumulate(g[b - 1], msg, (b - 1) * block_len, Block, 0))]
    <3>1. g = [b \in 0 .. nb |-> g[b]]  OBVIOUS
    <3> HIDE DEF g
    <3> QED  BY Zenon, <2>1, <3>1
  <2> QED  BY Zenon, <2>2 DEF after
<1> HIDE DEF next
<1>12. after[nb] = Taken[End(nb)]
  <2> DEFINE M == {b \in Int : after[b] = Taken[End(b)]}
  <2>1. 0 \in M
    <3>1. 0 \in 0 .. nb /\ 0 \in Int /\ End(0) = 0  BY <1>2, <1>5
    <3> QED  BY <3>1, <1>11, TakenSteps
  <2>2. ASSUME NEW b \in 0 .. nb - 1, b \in M  PROVE b + 1 \in M
    <3>1. b + 1 \in 1 .. nb /\ b + 1 \in 0 .. nb /\ (b + 1) - 1 = b /\ b + 1 # 0 /\ b + 1 \in Int
      BY <1>5
    <3> HIDE DEF End
    <3>2. after[b + 1] = next(b + 1, after[b])  BY <3>1, <1>11
    <3>3. after[b] = Taken[End(b)]  BY <2>2
    <3>4. next(b + 1, Taken[End(b)]) = Taken[End(b + 1)]  BY <3>1, <1>10
    <3> QED  BY <3>1, <3>2, <3>3, <3>4
  <2> HIDE DEF M
  <2>3. 0 \in Int /\ nb \in Int /\ nb \in 0 .. nb  BY <1>5
  <2>4. \A b \in 0 .. nb : b \in M  BY <2>1, <2>2, <2>3, IntervalInduction
  <2> QED  BY <2>3, <2>4 DEF M
<1>13. nb * block_len = At(End(nb)) /\ End(nb) % Block = 0
  <2>1. nb * (Stripe * Block) = (nb * Block) * Stripe  BY <1>2, <1>5
  <2> DEFINE x == End(nb)
  <2>2. x \in Int /\ nb \in Int /\ x = nb * Block + 0 /\ 0 \in 0 .. Block - 1
    BY <1>2, <1>5, <1>7
  <2> HIDE DEF x
  <2>3. x % Block = 0  BY <2>2, <1>2, ModUnique
  <2> QED  BY <2>1, <2>3 DEF x, At, block_len
<1> DEFINE t == End(nb)
           acc == Taken[t]
<1>14. /\ t \in Nat /\ t + v = q /\ v \in Nat /\ 0 = t % Block /\ t \in 0 .. Longest.xxh3
       /\ v \in 0 .. Block - (t % Block) /\ v < Block - (t % Block)
  <2> HIDE DEF End
  <2>1. t \in Nat /\ t + v = q /\ v \in Nat /\ 0 = t % Block  BY <1>2, <1>6, <1>7, <1>13
  <2> HIDE DEF t
  <2> QED  BY <2>1, <1>2, <1>6, <1>8
<1>15. nb * block_len = At(t)  BY <1>13
<1>16. after[nb] = acc  BY <1>12
<1> HIDE DEF t, End
<1>17. Taken[q] = WithMore(Taken[t], t, v)
  <2>1. t + v <= Longest.xxh3  BY <1>8, <1>14
  <2>2. Taken[t + v] = WithMore(Taken[t], t, v)  BY <2>1, <1>14, InBlock
  <2> QED  BY <2>2, <1>14
<1>18. X3!Accumulate(acc, msg, At(t), v, 0) = WithMore(acc, t, v)
  <2>1. acc \in Seq(Item)  BY <1>14, TakenSteps
  <2> HIDE DEF acc
  <2> DEFINE z == 0
  <2>2. /\ z \in Nat /\ t = z + t /\ t + v <= q /\ t \in Nat /\ v \in Nat /\ z = t % Block
        /\ Reads(msg, z, q)
    BY <1>8, <1>14
  <2> HIDE DEF z
  <2>3. X3!Accumulate(acc, msg, At(t), v, z) = WithMore(acc, t, v)
    BY <2>1, <2>2, AccumulateMore
  <2> QED  BY <2>3 DEF z
<1> QED  BY <1>1, <1>4, <1>15, <1>16, <1>17, <1>18 DEF acc, msg

-----------------------------------------------------------------------------
(* Short messages *)

\* The files' cases have reset with seed 0.
Seedless == context.seed = 0

\* A message that other functions hash is in the buffer from its first byte on.
LEMMA ShortDigest ==
    ASSUME X3!ConstantsFit, X3!TypeOK, Xxh3Holds, Seedless, given <= MidSize
    PROVE  X3!XXH3_digest(context) = X3!XXH3_64bits_withSeed(X3!Message(given), 0)
<1> DEFINE s == SubSeq(context.buffer, 1, given)
           msg == X3!Message(given)
<1>1. /\ MidSize \in Nat /\ Buffer \in Nat /\ MidSize < Buffer /\ given \in Nat
      /\ given \in 0 .. Longest.xxh3
      /\ context.buffer \in [1 .. Buffer -> Xxh3Byte] /\ context.total = given
      /\ context.size \in Nat
  BY Xxh3Constants, SMTT(30) DEF X3!TypeOK, Xxh3Byte
<1>2. Xxh3Base = 0 /\ context.size = given
  <2>1. context.size <= given /\ (Xxh3Base > 0 => given > Buffer)  BY DEF Xxh3Holds
  <2>2. Xxh3Base = given - context.size  BY DEF Xxh3Base
  <2>3. Xxh3Base \in Nat  BY <2>1, <2>2, <1>1
  <2>4. ~ (Xxh3Base > 0)  BY <2>1, <1>1
  <2> QED  BY <2>2, <2>3, <2>4, <1>1
<1>3. \A i \in 1 .. given : context.buffer[i] = Data[i]
  <2>1. \A i \in 1 .. context.size : context.buffer[i] = Data[Xxh3Base + i]  BY DEF Xxh3Holds
  <2>2. \A i \in 1 .. given : Xxh3Base + i = i  BY <1>1, <1>2
  <2> QED  BY <2>1, <2>2, <1>2
<1>4. msg \in Seq({Data[i] : i \in 1 .. given}) /\ Len(msg) = given
      /\ \A i \in 1 .. given : msg[i] = Data[i]
  BY <1>1 DEF X3!Message
<1>5. s = msg
  <2>1. /\ context.buffer \in Seq(Xxh3Byte) /\ Len(context.buffer) = Buffer
        /\ 0 \in 0 .. Len(context.buffer) /\ given \in 0 .. Len(context.buffer)
        /\ 0 + 1 = 1 /\ given - 0 = given /\ \A i \in 1 .. given : 0 + i = i
    BY <1>1
  <2>2. s \in Seq(Xxh3Byte) /\ Len(s) = given /\ \A i \in 1 .. given : s[i] = context.buffer[i]
    BY <2>1, Xxh3Part
  <2> HIDE DEF s, msg
  <2>3. \A i \in 1 .. given : s[i] = msg[i]  BY <2>2, <1>3, <1>4
  <2> QED  BY <2>2, <2>3, <1>4, SeqEqual
<1> HIDE DEF msg
<1>6. X3!XXH3_digest(context) = <<0, given, s>>
  BY <1>1 DEF X3!XXH3_digest, Seedless
<1>7. X3!XXH3_64bits_withSeed(msg, 0) = <<0, given, msg>>
  BY <1>1, <1>4 DEF X3!XXH3_64bits_withSeed
<1> QED  BY <1>5, <1>6, <1>7 DEF msg

-----------------------------------------------------------------------------
(* XXH3 *)

LEMMA DigestOfFile ==
    ASSUME X3!ConstantsFit, X3!TypeOK, Xxh3Holds, Took, Seedless
    PROVE  X3!XXH3_digest(context) = X3!XXH3_64bits_withSeed(X3!Message(given), 0)
<1>1. /\ Stripe \in Nat \ {0} /\ MidSize \in Nat /\ MidSize >= Stripe
      /\ given \in 0 .. Longest.xxh3 /\ given \in Nat /\ context.total = given
  BY Xxh3Constants DEF X3!TypeOK, X3!ConstantsFit
<1>2. CASE given > MidSize
  <2> DEFINE q == X3!RestStripes(given)
             msg == X3!Message(given)
  <2>1. given >= Stripe  BY <1>1, <1>2
  <2>2. q \in Nat
    <3> DEFINE x == given - 1
    <3>1. x \in Nat  BY <1>1, <2>1
    <3> HIDE DEF x
    <3>2. x \div Stripe \in Nat  BY <3>1, <1>1
    <3> QED  BY <3>2 DEF x, X3!RestStripes
  <2>3. Len(msg) = given  BY <1>1, MessageType
  <2> HIDE DEF q, msg
  <2>4. q = X3!RestStripes(given)  BY DEF q
  <2>5. X3!XXH3_digest_long(context) = X3!XXH3_hashLong(msg)
    BY <1>1, <2>1, <2>2, <2>4, LongDigest, LongMessage DEF msg
  <2>6. X3!XXH3_digest(context) = <<0, given, X3!XXH3_digest_long(context)>>
    BY <1>1, <1>2 DEF X3!XXH3_digest, Seedless
  <2>7. X3!XXH3_64bits_withSeed(msg, 0) = <<0, given, X3!XXH3_hashLong(msg)>>
    BY <1>1, <1>2, <2>3 DEF X3!XXH3_64bits_withSeed
  <2> QED  BY <2>5, <2>6, <2>7 DEF msg
<1>3. CASE given <= MidSize  BY <1>3, ShortDigest
<1> QED  BY <1>1, <1>2, <1>3

Xxh3Inv == X3!TypeOK /\ Xxh3Holds /\ Took /\ Seedless /\ X3!FileIsMemory

LEMMA Xxh3Always == ASSUME X3!ConstantsFit PROVE X3!Spec => []Xxh3Inv
<1>1. X3!Init => Xxh3Inv
  <2> SUFFICES ASSUME X3!Init PROVE Xxh3Inv  OBVIOUS
  <2>1. /\ context.size = 0 /\ context.soFar = 0 /\ context.acc = <<>> /\ given = 0
        /\ context.seed = 0 /\ answer = X3!NoDigest
    BY DEF X3!Init, X3!XXH3_reset
  <2>2. Xxh3Base = 0  BY <2>1 DEF Xxh3Base
  <2>3. /\ 0 \in 0 .. Longest.xxh3 /\ At(0) = 0 /\ Taken[0] = <<>> /\ 0 % Block = 0
    BY Xxh3Constants, TakenSteps DEF At
  <2>4. Took  BY <2>1, <2>2, <2>3 DEF Took
  <2> QED  BY <2>1, <2>4, Xxh3HoldsInit DEF Xxh3Inv, Seedless, X3!FileIsMemory
<1>2. Xxh3Inv /\ [X3!Next]_(X3!vars) => Xxh3Inv'
  <2> SUFFICES ASSUME Xxh3Inv, [X3!Next]_(X3!vars) PROVE Xxh3Inv'  OBVIOUS
  <2>1. X3!TypeOK /\ Xxh3Holds /\ Took /\ Seedless /\ X3!FileIsMemory  BY DEF Xxh3Inv
  <2>2. X3!TypeOK' /\ Xxh3Holds' /\ Took'  BY <2>1, Xxh3HoldsNext, TookNext
  <2>3. Seedless' /\ X3!FileIsMemory'
    <3>1. CASE X3!Starts
      BY <3>1 DEF X3!Starts, Seedless, X3!FileIsMemory, X3!XXH3_reset
    <3>2. CASE X3!Finish
      <4>1. context' = context /\ given' = given /\ seed' = seed /\ answer' = X3!XXH3_digest(context)
        BY <3>2 DEF X3!Finish
      <4>2. X3!XXH3_digest(context) = X3!XXH3_64bits_withSeed(X3!Message(given), 0)
        BY <2>1, DigestOfFile
      <4> QED  BY <2>1, <4>1, <4>2 DEF Seedless, X3!FileIsMemory
    <3>3. ASSUME NEW k \in 0 .. Piece.xxh3, X3!Update(k)  PROVE Seedless' /\ X3!FileIsMemory'
      <4>1. answer' = X3!NoDigest  BY <3>3 DEF X3!Update
      <4>2. context'.seed = context.seed  BY <3>3 DEF X3!Update, X3!XXH3_update
      <4> QED  BY <2>1, <4>1, <4>2 DEF Seedless, X3!FileIsMemory
    <3>4. CASE UNCHANGED X3!vars  BY <2>1, <3>4 DEF X3!vars, Seedless, X3!FileIsMemory
    <3> QED  BY <3>1, <3>2, <3>3, <3>4 DEF X3!Next
  <2> QED  BY <2>2, <2>3 DEF Xxh3Inv
<1> QED  BY <1>1, <1>2, PTL DEF X3!Spec

\* One machine runs from the beginning to the end.
LEMMA Xxh3Alone == AnySpec => [](machine # "xxh3") \/ X3!Spec
<1>1. AnyInit => machine # "xxh3" \/ (machine = "xxh3" /\ X3!Init)  BY DEF AnyInit
<1>2. machine # "xxh3" /\ [AnyNext]_allVars => (machine # "xxh3")'
  BY DEF AnyNext, allVars
<1>3. machine = "xxh3" /\ [AnyNext]_allVars => (machine = "xxh3")' /\ [X3!Next]_(X3!vars)
  BY DEF AnyNext, allVars, otherVars, X3!vars
<1> QED  BY <1>1, <1>2, <1>3, PTL DEF AnySpec, X3!Spec

LEMMA Xxh3Runs == AnySpec => [](machine = "xxh3" => Xxh3Inv)
<1>1. X3!Spec => []Xxh3Inv  BY InstancesFit, Xxh3Always
<1>2. machine # "xxh3" => (machine = "xxh3" => Xxh3Inv)  OBVIOUS
<1> QED  BY <1>1, <1>2, Xxh3Alone, PTL

\* The buffer is never overfull and the open block never whole: the secret has
\* a part for every stripe.
THEOREM Xxh3TypeCorrect == AnySpec => [](machine = "xxh3" => X3!TypeOK)
<1>1. Xxh3Inv => X3!TypeOK  BY DEF Xxh3Inv
<1> QED  BY <1>1, Xxh3Runs, PTL

\* Whenever the digest is asked for, the last stripe of a long message can be
\* put together, from the buffer's front alone or from its end and its front.
THEOREM LastStripeKept == AnySpec => []LastStripeAtHand
<1>1. Xxh3Inv => X3!LastStripeAtHand  BY InstancesFit, Xxh3HoldsLastStripe DEF Xxh3Inv
<1>2. (machine = "xxh3" => X3!LastStripeAtHand) => LastStripeAtHand  BY DEF LastStripeAtHand
<1> QED  BY <1>1, <1>2, Xxh3Runs, PTL

\* Whatever the updates, every stripe that was consumed was consumed once, in
\* order, under the secret's part for its place in its block, and a scramble
\* follows the last stripe of each block.
THEOREM StripesKeepPlace == AnySpec => []StripesInPlace
<1>1. Xxh3Inv => X3!StripesInPlace  BY InstancesFit, TookStripes DEF Xxh3Inv
<1>2. (machine = "xxh3" => X3!StripesInPlace) => StripesInPlace  BY DEF StripesInPlace
<1> QED  BY <1>1, <1>2, Xxh3Runs, PTL

\* The digest of a file, as many updates as it takes, is the digest of the
\* same bytes in memory: short or long, to the last stripe and scramble.
THEOREM Xxh3FileEqualsMemory == AnySpec => []Xxh3FileIsMemory
<1>1. Xxh3Inv => X3!FileIsMemory  BY DEF Xxh3Inv
<1>2. (machine = "xxh3" => X3!FileIsMemory) => Xxh3FileIsMemory  BY DEF Xxh3FileIsMemory
<1> QED  BY <1>1, <1>2, Xxh3Runs, PTL
-----------------------------------------------------------------------------
(* XXH64 *)

P64 == INSTANCE XxhProofs WITH
    Wide <- TRUE, S <- S64, MaxFed <- Longest.xxh64, MaxUpdate <- Piece.xxh64,
    ctx <- context, fed <- given, digest <- answer

LEMMA StripeFits == P64!StripeAssumption
BY InstancesFit, StripeAssumption DEF P64!StripeAssumption

\* The module of the proofs and the machine's module define the same.
LEMMA SameUpdate == \A c, s : P64!XXH32_update(c, s) = Xxh64!XXH32_update(c, s)
BY ZenonT(60) DEF P64!Copy, Xxh64!Copy, P64!XXH32_update, Xxh64!XXH32_update,
             P64!Fill, Xxh64!Fill, P64!AddTotal, Xxh64!AddTotal,
             P64!SetLarge, Xxh64!SetLarge, P64!Left, Xxh64!Left,
             P64!StaysBuffered, Xxh64!StaysBuffered
LEMMA SameDigest == \A c : P64!XXH32_digest(c) = Xxh64!XXH32_digest(c)
BY Zenon DEF P64!XXH32_digest, Xxh64!XXH32_digest, P64!Large, Xxh64!Large,
             P64!TailLength, Xxh64!TailLength
LEMMA SameStart == P64!Reset = Xxh64!Reset /\ P64!NoDigest = Xxh64!NoDigest
BY DEF P64!Reset, Xxh64!Reset, P64!NoDigest, Xxh64!NoDigest
LEMMA SameInit == P64!Init <=> Xxh64!Init
BY SameStart DEF P64!Init, Xxh64!Init
LEMMA SameNext == P64!Next <=> Xxh64!Next
BY Zenon, SameUpdate, SameDigest, SameStart
   DEF P64!Next, Xxh64!Next, P64!Starts, Xxh64!Starts, P64!Finish, Xxh64!Finish,
       P64!Update, Xxh64!Update
LEMMA SameType == P64!TypeOK <=> Xxh64!TypeOK
BY DEF P64!TypeOK, Xxh64!TypeOK, P64!Byte, Xxh64!Byte
LEMMA SameLossless == P64!Lossless <=> Xxh64!Lossless
BY DEF P64!Lossless, Xxh64!Lossless
LEMMA SameLanes == P64!LanesWhenLong <=> Xxh64!LanesWhenLong
BY DEF P64!LanesWhenLong, Xxh64!LanesWhenLong, P64!Large, Xxh64!Large
LEMMA SameMemory == P64!FileIsMemory <=> Xxh64!FileIsMemory
<1>1. P64!XXH32(P64!Message(given)) = Xxh64!XXH32(Xxh64!Message(given))
  BY Zenon DEF P64!XXH32, Xxh64!XXH32, P64!Message, Xxh64!Message
<1> QED  BY <1>1, SameStart DEF P64!FileIsMemory, Xxh64!FileIsMemory

LEMMA Xxh64Alone == AnySpec => [](machine # "xxhash64") \/ P64!Spec
<1>1. AnyInit => machine # "xxhash64" \/ (machine = "xxhash64" /\ P64!Init)
  BY SameInit DEF AnyInit
<1>2. machine # "xxhash64" /\ [AnyNext]_allVars => (machine # "xxhash64")'
  BY DEF AnyNext, allVars
<1>3. machine = "xxhash64" /\ [AnyNext]_allVars
         => (machine = "xxhash64")' /\ [P64!Next]_(P64!vars)
  BY SameNext DEF AnyNext, allVars, otherVars, P64!vars
<1> QED  BY <1>1, <1>2, <1>3, PTL DEF AnySpec, P64!Spec

\* The counter, the buffer and the lanes hold what they should.
THEOREM Xxh64TypeCorrect == AnySpec => [](machine = "xxhash64" => Xxh64!TypeOK)
<1>1. P64!Spec => []P64!TypeOK  BY StripeFits, P64!TypeCorrect, PTL
<1>2. P64!TypeOK => (machine = "xxhash64" => Xxh64!TypeOK)  BY SameType
<1>3. machine # "xxhash64" => (machine = "xxhash64" => Xxh64!TypeOK)  OBVIOUS
<1> QED  BY <1>1, <1>2, <1>3, Xxh64Alone, PTL

\* XXH64 loses no byte, starts its digest from the lanes exactly when the
\* message has a stripe, and hashes a file as the same bytes in memory.
THEOREM Xxh64Correct == AnySpec => []Xxh64Stream
<1>1. P64!Spec => [](P64!Lossless /\ P64!LanesWhenLong /\ P64!FileIsMemory)
  BY StripeFits, P64!NoByteLost, P64!LanesByLength, P64!FileEqualsMemory, PTL
<1>2. P64!Lossless /\ P64!LanesWhenLong /\ P64!FileIsMemory => Xxh64Stream
  BY SameLossless, SameLanes, SameMemory DEF Xxh64Stream
<1>3. machine # "xxhash64" => Xxh64Stream  BY DEF Xxh64Stream
<1> QED  BY <1>1, <1>2, <1>3, Xxh64Alone, PTL

\* XXH32, whose variables are those of Xxh, runs as if alone, and what
\* XxhProofs shows of it holds of this composition.
THEOREM Xxh32Alone == AnySpec => Spec
<1>1. AnyInit => Init  BY DEF AnyInit
<1>2. [AnyNext]_allVars => [Next]_vars
  BY DEF AnyNext, allVars, vars
<1> QED  BY <1>1, <1>2, PTL DEF AnySpec, Spec

-----------------------------------------------------------------------------
(* MurmurHash3 *)

MuByte == {Data[i] : i \in 1 .. Longest.murmur32}
\* What a byte of the carry may be: the lowest may hold the count.
Cell == MuByte \cup {Zero} \cup {Mu!Count(n) : n \in 0 .. 3}

\* The w-th word of the message.
DataWord(w) == [i \in 1 .. 4 |-> Data[4 * w - 4 + i]]

\* After p bytes of the message: its words, and on top of the carry the n bytes
\* that have made no word.
Covers(st, p) ==
    /\ st.h1 \in Seq(Seq(MuByte)) /\ st.c \in [1 .. 4 -> Cell] /\ st.n \in 0 .. 3
    /\ 4 * Len(st.h1) + st.n = p
    /\ \A w \in 1 .. Len(st.h1) : st.h1[w] = DataWord(w)
    /\ \A i \in 1 .. st.n : st.c[(4 - st.n) + i] = Data[4 * Len(st.h1) + i]

MuState == [h1 : Seq(Seq(MuByte)), c : [1 .. 4 -> Cell], n : 0 .. 3]

LEMMA MuConstants == Longest.murmur32 \in Nat /\ Piece.murmur32 \in Nat
BY InstancesFit DEF Mu!ConstantsFit

LEMMA DataWordType ==
    ASSUME NEW w \in Nat \ {0}, 4 * w <= Longest.murmur32
    PROVE  DataWord(w) \in Seq(MuByte) /\ Len(DataWord(w)) = 4
<1>1. \A i \in 1 .. 4 : 4 * w - 4 + i \in 1 .. Longest.murmur32  BY MuConstants
<1>2. \A i \in 1 .. 4 : Data[4 * w - 4 + i] \in MuByte  BY <1>1 DEF MuByte
<1> QED  BY <1>2 DEF DataWord

\* Four bytes in their order are a word.
LEMMA FourBytes ==
    ASSUME NEW w \in Nat \ {0}, NEW c,
           c = <<Data[4 * w - 3], Data[4 * w - 2], Data[4 * w - 1], Data[4 * w]>>
    PROVE  c = DataWord(w)
<1> DEFINE d == DataWord(w)
<1>1. d = [i \in 1 .. 4 |-> Data[4 * w - 4 + i]]  BY DEF DataWord
<1>2. /\ 4 * w - 4 + 1 = 4 * w - 3 /\ 4 * w - 4 + 2 = 4 * w - 2
      /\ 4 * w - 4 + 3 = 4 * w - 1 /\ 4 * w - 4 + 4 = 4 * w
  OBVIOUS
<1>3. /\ d[1] = Data[4 * w - 3] /\ d[2] = Data[4 * w - 2]
      /\ d[3] = Data[4 * w - 1] /\ d[4] = Data[4 * w]
  BY <1>1, <1>2
<1>4. d = <<d[1], d[2], d[3], d[4]>>  BY <1>1
<1> HIDE DEF d
<1> QED  BY <1>3, <1>4 DEF d

\* A word more.
LEMMA CoversWord ==
    ASSUME NEW st \in MuState, NEW p \in Nat, Covers(st, p), p + 4 <= Longest.murmur32 + st.n,
           NEW c \in [1 .. 4 -> Cell], NEW k, k = DataWord(Len(st.h1) + 1),
           NEW n \in 0 .. 3,
           \A i \in 1 .. n : c[(4 - n) + i] = Data[4 * (Len(st.h1) + 1) + i]
    PROVE  Covers([h1 |-> Mu!DOBLOCK(st.h1, k), c |-> c, n |-> n], 4 * (Len(st.h1) + 1) + n)
<1> DEFINE h1 == st.h1
           h2 == Append(h1, k)
           len == Len(h1)
<1>1. /\ h1 \in Seq(Seq(MuByte)) /\ len \in Nat /\ 4 * len + st.n = p /\ st.n \in 0 .. 3
      /\ \A w \in 1 .. len : h1[w] = DataWord(w)
  BY DEF Covers
<1>2. k \in Seq(MuByte)
  <2> DEFINE m == st.n
  <2> HIDE DEF len, h1
  <2>0. len \in Nat /\ 4 * len + m = p /\ m \in 0 .. 3 /\ p + 4 <= Longest.murmur32 + m
    BY <1>1
  <2> HIDE DEF m
  <2>1. len + 1 \in Nat \ {0} /\ 4 * (len + 1) <= Longest.murmur32  BY <2>0, MuConstants
  <2>2. DataWord(len + 1) \in Seq(MuByte)  BY <2>1, DataWordType
  <2> QED  BY <2>2 DEF len, h1
<1>3. /\ h2 \in Seq(Seq(MuByte)) /\ Len(h2) = len + 1
      /\ \A w \in 1 .. len + 1 : h2[w] = IF w <= len THEN h1[w] ELSE k
  BY <1>1, <1>2
<1> HIDE DEF h2, len
<1>4. ASSUME NEW w \in 1 .. len + 1  PROVE h2[w] = DataWord(w)
  <2>1. CASE w <= len
    <3>1. w \in 1 .. len  BY <2>1, <1>1
    <3> QED  BY <2>1, <3>1, <1>1, <1>3
  <2>2. CASE ~ (w <= len)
    <3>1. w = len + 1  BY <2>2, <1>1
    <3> QED  BY <2>2, <3>1, <1>3 DEF len
  <2> QED  BY <2>1, <2>2
<1> DEFINE r == [h1 |-> h2, c |-> c, n |-> n]
<1>5. r.h1 = h2 /\ r.c = c /\ r.n = n  OBVIOUS
<1>6. \A i \in 1 .. n : c[(4 - n) + i] = Data[4 * (len + 1) + i]  BY DEF len
<1> HIDE DEF r
<1>7. Covers(r, 4 * (len + 1) + n)  BY <1>3, <1>4, <1>5, <1>6 DEF Covers
<1> QED  BY <1>7 DEF r, h2, len, Mu!DOBLOCK

\* A byte more, by DOBYTES.
ByteStep(st, b) ==
    LET c == <<st.c[2], st.c[3], st.c[4], b>>
    IN  IF st.n + 1 = 4 THEN [h1 |-> Mu!DOBLOCK(st.h1, c), c |-> c, n |-> 0]
        ELSE [h1 |-> st.h1, c |-> c, n |-> st.n + 1]

LEMMA CoversByte ==
    ASSUME NEW st \in MuState, NEW p \in Nat, Covers(st, p), p + 1 <= Longest.murmur32
    PROVE  Covers(ByteStep(st, Data[p + 1]), p + 1)
<1> DEFINE b == Data[p + 1]
           c == <<st.c[2], st.c[3], st.c[4], b>>
           len == Len(st.h1)
           n == st.n
<1>1. /\ st.h1 \in Seq(Seq(MuByte)) /\ len \in Nat /\ 4 * len + n = p /\ n \in 0 .. 3
      /\ \A w \in 1 .. len : st.h1[w] = DataWord(w)
      /\ st.c \in [1 .. 4 -> Cell]
      /\ \A i \in 1 .. n : st.c[(4 - n) + i] = Data[4 * len + i]
  BY DEF Covers
<1>2. c \in [1 .. 4 -> Cell] /\ c[1] = st.c[2] /\ c[2] = st.c[3] /\ c[3] = st.c[4] /\ c[4] = b
  <2>1. b \in Cell
    <3>1. p + 1 \in 1 .. Longest.murmur32  BY MuConstants
    <3> QED  BY <3>1 DEF MuByte, Cell
  <2>2. st.c[2] \in Cell /\ st.c[3] \in Cell /\ st.c[4] \in Cell  BY <1>1
  <2> HIDE DEF b
  <2> QED  BY <2>1, <2>2
<1> HIDE DEF len, n
<1>3. CASE n = 3
  <2>1. p + 1 = 4 * (len + 1) /\ len + 1 \in Nat \ {0}  BY <1>1, <1>3
  <2>2. c = DataWord(len + 1)
    <3> DEFINE w == len + 1
    <3>1. /\ 4 * w - 3 = 4 * len + 1 /\ 4 * w - 2 = 4 * len + 2 /\ 4 * w - 1 = 4 * len + 3
          /\ 4 * w = p + 1 /\ w \in Nat \ {0}
      BY <1>1, <1>3
    <3>2. 1 \in 1 .. n /\ 2 \in 1 .. n /\ 3 \in 1 .. n
          /\ (4 - n) + 1 = 2 /\ (4 - n) + 2 = 3 /\ (4 - n) + 3 = 4
      BY <1>3
    <3>3. st.c[2] = Data[4 * len + 1] /\ st.c[3] = Data[4 * len + 2] /\ st.c[4] = Data[4 * len + 3]
      BY <3>2, <1>1
    <3>4. c = <<Data[4 * w - 3], Data[4 * w - 2], Data[4 * w - 1], Data[4 * w]>>
      BY <3>1, <3>3
    <3> HIDE DEF w, c
    <3>5. c = DataWord(w)  BY <3>1, <3>4, FourBytes
    <3> QED  BY <3>5 DEF w
  <2>3. ByteStep(st, b) = [h1 |-> Mu!DOBLOCK(st.h1, c), c |-> c, n |-> 0]
    BY <1>3 DEF ByteStep, n
  <2> DEFINE z == 0
  <2>4. z \in 0 .. 3 /\ \A i \in 1 .. z : c[(4 - z) + i] = Data[4 * (len + 1) + i]  OBVIOUS
  <2>5. p + 4 <= Longest.murmur32 + st.n  BY <1>1, <1>3, MuConstants DEF n
  <2> HIDE DEF z, c, b
  <2>6. Covers([h1 |-> Mu!DOBLOCK(st.h1, c), c |-> c, n |-> z], 4 * (len + 1) + z)
    BY <2>2, <2>4, <2>5, <1>2, CoversWord DEF len
  <2>7. 4 * (len + 1) + 0 = p + 1  BY <2>1
  <2> QED  BY <2>3, <2>6, <2>7 DEF z, b
<1>4. CASE n # 3
  <2>1. ByteStep(st, b) = [h1 |-> st.h1, c |-> c, n |-> n + 1]
    BY <1>1, <1>4 DEF ByteStep, n
  <2>2. n + 1 \in 0 .. 3 /\ 4 * len + (n + 1) = p + 1  BY <1>1, <1>4
  <2>3. ASSUME NEW i \in 1 .. n + 1  PROVE c[(4 - (n + 1)) + i] = Data[4 * len + i]
    <3>1. CASE i = n + 1
      <4>1. (4 - (n + 1)) + i = 4 /\ 4 * len + i = p + 1  BY <3>1, <1>1
      <4> QED  BY <4>1, <1>2
    <3>2. CASE i # n + 1
      <4> DEFINE j == (4 - (n + 1)) + i
      <4>1. i \in 1 .. n /\ j \in 1 .. 3 /\ (4 - n) + i = j + 1  BY <3>2, <1>1, <1>4
      <4>2. st.c[(4 - n) + i] = Data[4 * len + i]  BY <4>1, <1>1
      <4> HIDE DEF c, j
      <4>3. c[j] = st.c[j + 1]
        <5>1. j = 1 \/ j = 2 \/ j = 3  BY <4>1
        <5>2. 1 + 1 = 2 /\ 2 + 1 = 3 /\ 3 + 1 = 4  OBVIOUS
        <5> QED  BY <5>1, <5>2, <1>2
      <4> QED  BY <4>1, <4>2, <4>3 DEF j
    <3> QED  BY <3>1, <3>2
  <2> DEFINE r == [h1 |-> st.h1, c |-> c, n |-> n + 1]
  <2>4. r.h1 = st.h1 /\ r.c = c /\ r.n = n + 1  OBVIOUS
  <2> HIDE DEF r, c, b
  <2>5. Covers(r, p + 1)  BY <2>2, <2>3, <2>4, <1>1, <1>2 DEF Covers, len
  <2> QED  BY <2>1, <2>5 DEF r, b
<1> QED  BY <1>3, <1>4

LEMMA CoversState == ASSUME NEW st, NEW p, Covers(st, p),
                            st = [h1 |-> st.h1, c |-> st.c, n |-> st.n]
                     PROVE  st \in MuState
BY DEF Covers, MuState

\* The states that hold p bytes of the message.
Covered(p) == {st \in MuState : Covers(st, p)}

LEMMA CoveredByte ==
    ASSUME NEW p \in Nat, p + 1 <= Longest.murmur32, NEW st \in Covered(p)
    PROVE  ByteStep(st, Data[p + 1]) \in Covered(p + 1)
<1> DEFINE r == ByteStep(st, Data[p + 1])
<1>1. Covers(r, p + 1)  BY CoversByte DEF Covered
<1>2. r = [h1 |-> r.h1, c |-> r.c, n |-> r.n]
  <2> DEFINE c == <<st.c[2], st.c[3], st.c[4], Data[p + 1]>>
             y == [h1 |-> Mu!DOBLOCK(st.h1, c), c |-> c, n |-> 0]
             z == [h1 |-> st.h1, c |-> c, n |-> st.n + 1]
  <2>1. r = y \/ r = z  BY DEF ByteStep
  <2> HIDE DEF c, r
  <2> QED  BY <2>1
<1> HIDE DEF r
<1>3. r \in MuState  BY <1>1, <1>2, CoversState
<1>4. r \in Covered(p + 1)  BY <1>1, <1>3 DEF Covered
<1> QED  BY <1>4 DEF r

\* DOBYTES takes as many bytes as it is given.
LEMMA CoveredBytes ==
    ASSUME NEW p \in Nat, NEW st \in Covered(p), NEW s, Len(s) \in Nat,
           p + Len(s) <= Longest.murmur32, \A i \in 1 .. Len(s) : s[i] = Data[p + i]
    PROVE  Mu!DOBYTES(st, s) \in Covered(p + Len(s))
<1> DEFINE len == Len(s)
           T == [i \in 0 .. len |-> Covered(p + i)]
           go == [i \in 0 + 1 .. len |-> [x \in Covered(p + (i - 1)) |-> ByteStep(x, s[i])]]
           step[i \in 0 .. len] ==
             IF i = 0 THEN st
             ELSE LET q == step[i - 1]
                      c == <<q.c[2], q.c[3], q.c[4], s[i]>>
                  IN  IF q.n + 1 = 4 THEN [h1 |-> Mu!DOBLOCK(q.h1, c), c |-> c, n |-> 0]
                      ELSE [h1 |-> q.h1, c |-> c, n |-> q.n + 1]
<1>1. Mu!DOBYTES(st, s) = step[len]  BY Zenon DEF Mu!DOBYTES
<1>2. ASSUME NEW i \in 1 .. len, NEW x \in Covered(p + (i - 1))
      PROVE  ByteStep(x, s[i]) \in Covered(p + i)
  <2> DEFINE m == p + (i - 1)
  <2>1. m \in Nat /\ m + 1 = p + i /\ m + 1 <= Longest.murmur32 /\ s[i] = Data[m + 1]
    BY MuConstants
  <2> HIDE DEF m, len
  <2>2. x \in Covered(m)  BY DEF m
  <2>3. ByteStep(x, Data[m + 1]) \in Covered(m + 1)  BY <2>1, <2>2, CoveredByte
  <2> QED  BY <2>1, <2>3
<1>3. Steps(0, len, MuState, T, st, go)
  <2>1. 0 \in Int /\ len \in Int /\ p + 0 = p  OBVIOUS
  <2>2. \A i \in 0 .. len : T[i] \subseteq MuState  BY DEF Covered
  <2>3. 0 <= len => st \in T[0]  BY <2>1
  <2>4. \A i \in 0 + 1 .. len : go[i] \in [T[i - 1] -> T[i]]
    <3>1. \A i \in 0 + 1 .. len : /\ i \in 1 .. len /\ T[i - 1] = Covered(p + (i - 1))
                                  /\ T[i] = Covered(p + i)
      OBVIOUS
    <3> HIDE DEF T
    <3>2. \A i \in 0 + 1 .. len : go[i] \in [Covered(p + (i - 1)) -> Covered(p + i)]
      <4> HIDE DEF len
      <4> QED  BY <1>2, <3>1
    <3> HIDE DEF go
    <3> QED  BY <3>1, <3>2
  <2> HIDE DEF T, go, len
  <2> QED  BY <2>1, <2>2, <2>3, <2>4 DEF Steps
<1> HIDE DEF len
<1>4. PICK g : Iterates(g, 0, len, MuState, T, st, go)
  <2> HIDE DEF T, go
  <2> QED  BY <1>3, StepFunction
<1>5. \A i \in 0 .. len : g[i] = IF i = 0 THEN st ELSE ByteStep(g[i - 1], s[i])
  <2>1. \A i \in 0 .. len : g[i] \in T[i] /\ g[i] = IF i = 0 THEN st ELSE go[i][g[i - 1]]
    <3> HIDE DEF T, go
    <3> QED  BY <1>4 DEF Iterates
  <2>2. len \in Nat  BY DEF len
  <2>3. \A i \in 0 .. len : i # 0 => /\ i - 1 \in 0 .. len /\ i \in 0 + 1 .. len
                                     /\ T[i - 1] = Covered(p + (i - 1))
    BY <2>2
  <2>4. \A i \in 0 .. len : i # 0 => i \in 0 + 1 .. len /\ g[i - 1] \in Covered(p + (i - 1))
    <3> HIDE DEF T, go
    <3> QED  BY <2>1, <2>3
  <2>5. \A i \in 0 .. len : i # 0 => go[i][g[i - 1]] = ByteStep(g[i - 1], s[i])  BY <2>4
  <2> HIDE DEF go, T
  <2> QED  BY <2>1, <2>5
<1>6. g = [i \in 0 .. len |->
             IF i = 0 THEN st
             ELSE LET q == g[i - 1]
                      c == <<q.c[2], q.c[3], q.c[4], s[i]>>
                  IN  IF q.n + 1 = 4 THEN [h1 |-> Mu!DOBLOCK(q.h1, c), c |-> c, n |-> 0]
                      ELSE [h1 |-> q.h1, c |-> c, n |-> q.n + 1]]
  <2>1. g \in [0 .. len -> MuState]  BY <1>4 DEF Iterates
  <2>2. g = [i \in 0 .. len |-> IF i = 0 THEN st ELSE ByteStep(g[i - 1], s[i])]
    BY <1>5, <2>1
  <2> QED  BY Zenon, <2>2 DEF ByteStep
<1>7. step = [i \in 0 .. len |->
                IF i = 0 THEN st
                ELSE LET q == step[i - 1]
                         c == <<q.c[2], q.c[3], q.c[4], s[i]>>
                     IN  IF q.n + 1 = 4 THEN [h1 |-> Mu!DOBLOCK(q.h1, c), c |-> c, n |-> 0]
                         ELSE [h1 |-> q.h1, c |-> c, n |-> q.n + 1]]
  BY Zenon, <1>6
<1>8. \A i \in 0 .. len : step[i] = IF i = 0 THEN st ELSE ByteStep(step[i - 1], s[i])
  <2> HIDE DEF step
  <2> QED  BY Zenon, <1>7 DEF ByteStep
<1> HIDE DEF step
<1>9. \A i \in 0 .. len : i \in {j \in Int : step[j] \in Covered(p + j)}
  <2> DEFINE M == {j \in Int : step[j] \in Covered(p + j)}
  <2>0. len \in Nat /\ 0 \in Int /\ len \in Int /\ p + 0 = p  BY DEF len
  <2>1. 0 \in M
    <3>1. 0 \in 0 .. len  BY <2>0
    <3> QED  BY <1>8, <2>0, <3>1
  <2>2. ASSUME NEW i \in 0 .. len - 1, i \in M  PROVE i + 1 \in M
    <3>1. i + 1 \in 1 .. len /\ i + 1 \in 0 .. len /\ i + 1 # 0 /\ (i + 1) - 1 = i /\ i + 1 \in Int
      BY <2>0
    <3>2. step[i + 1] = ByteStep(step[i], s[i + 1])  BY <1>8, <3>1
    <3>3. step[i] \in Covered(p + ((i + 1) - 1))  BY <2>2, <3>1
    <3> QED  BY <1>2, <3>1, <3>2, <3>3
  <2> HIDE DEF M
  <2>3. \A i \in 0 .. len : i \in M  BY <2>0, <2>1, <2>2, IntervalInduction
  <2> QED  BY <2>3 DEF M
<1>10. len \in 0 .. len  BY DEF len
<1>11. step[len] \in Covered(p + len)  BY <1>9, <1>10
<1> QED  BY <1>1, <1>11 DEF len

\* A word more, by the loop over whole words: it is made of the carried bytes
\* and the first of the word read, whose others are the new carry.
WordStep(st, w) ==
    [h1 |-> Mu!DOBLOCK(st.h1, Mu!Merge(st.n, st.c, w)),
     c |-> IF st.n = 0 THEN st.c ELSE w, n |-> st.n]

LEMMA MergedWord ==
    ASSUME NEW p \in Nat, NEW st \in Covered(p), NEW w,
           w[1] = Data[p + 1], w[2] = Data[p + 2], w[3] = Data[p + 3], w[4] = Data[p + 4],
           w = <<w[1], w[2], w[3], w[4]>>
    PROVE  Mu!Merge(st.n, st.c, w) = DataWord(Len(st.h1) + 1)
<1> DEFINE len == Len(st.h1)
           n == st.n
           v == len + 1
           m == Mu!Merge(st.n, st.c, w)
<1>1. /\ len \in Nat /\ 4 * len + n = p /\ n \in 0 .. 3
      /\ \A i \in 1 .. n : st.c[(4 - n) + i] = Data[4 * len + i]
  BY DEF Covered, Covers
<1> HIDE DEF len
<1>2. /\ v \in Nat \ {0} /\ 4 * v - 3 = 4 * len + 1 /\ 4 * v - 2 = 4 * len + 2
      /\ 4 * v - 1 = 4 * len + 3 /\ 4 * v = 4 * len + 4
  BY <1>1
<1>3. m = <<Data[4 * v - 3], Data[4 * v - 2], Data[4 * v - 1], Data[4 * v]>>
  <2>1. CASE n = 0
    <3>1. m = w  BY <2>1 DEF Mu!Merge
    <3>2. p = 4 * len  BY <2>1, <1>1
    <3> HIDE DEF m, v
    <3> QED  BY <3>1, <3>2, <1>2
  <2>2. CASE n = 1
    <3>1. m = <<st.c[4], w[1], w[2], w[3]>>  BY <2>2 DEF Mu!Merge
    <3>2. p = 4 * len + 1 /\ 1 \in 1 .. n /\ (4 - n) + 1 = 4  BY <2>2, <1>1
    <3>3. st.c[4] = Data[4 * len + 1]  BY <3>2, <1>1
    <3>4. p + 1 = 4 * len + 2 /\ p + 2 = 4 * len + 3 /\ p + 3 = 4 * len + 4  BY <3>2, <1>1
    <3> HIDE DEF m, v
    <3> QED  BY <3>1, <3>3, <3>4, <1>2
  <2>3. CASE n = 2
    <3>1. m = <<st.c[3], st.c[4], w[1], w[2]>>  BY <2>3 DEF Mu!Merge
    <3>2. p = 4 * len + 2 /\ 1 \in 1 .. n /\ 2 \in 1 .. n /\ (4 - n) + 1 = 3 /\ (4 - n) + 2 = 4
      BY <2>3, <1>1
    <3>3. st.c[3] = Data[4 * len + 1] /\ st.c[4] = Data[4 * len + 2]  BY <3>2, <1>1
    <3>4. p + 1 = 4 * len + 3 /\ p + 2 = 4 * len + 4  BY <3>2, <1>1
    <3> HIDE DEF m, v
    <3> QED  BY <3>1, <3>3, <3>4, <1>2
  <2>4. CASE n = 3
    <3>1. m = <<st.c[2], st.c[3], st.c[4], w[1]>>  BY <2>4 DEF Mu!Merge
    <3>2. /\ p = 4 * len + 3 /\ 1 \in 1 .. n /\ 2 \in 1 .. n /\ 3 \in 1 .. n
          /\ (4 - n) + 1 = 2 /\ (4 - n) + 2 = 3 /\ (4 - n) + 3 = 4
      BY <2>4, <1>1
    <3>3. st.c[2] = Data[4 * len + 1] /\ st.c[3] = Data[4 * len + 2] /\ st.c[4] = Data[4 * len + 3]
      BY <3>2, <1>1
    <3>4. p + 1 = 4 * len + 4  BY <3>2, <1>1
    <3> HIDE DEF m, v
    <3> QED  BY <3>1, <3>3, <3>4, <1>2
  <2> QED  BY <1>1, <2>1, <2>2, <2>3, <2>4
<1> HIDE DEF m, v
<1>4. m = DataWord(v)  BY <1>2, <1>3, FourBytes
<1> QED  BY <1>4 DEF m, v, len

LEMMA CoveredWord ==
    ASSUME NEW p \in Nat, p + 4 <= Longest.murmur32, NEW st \in Covered(p), NEW w,
           w[1] = Data[p + 1], w[2] = Data[p + 2], w[3] = Data[p + 3], w[4] = Data[p + 4],
           w = <<w[1], w[2], w[3], w[4]>>
    PROVE  WordStep(st, w) \in Covered(p + 4)
<1> DEFINE len == Len(st.h1)
           n == st.n
           c == IF n = 0 THEN st.c ELSE w
           k == Mu!Merge(st.n, st.c, w)
           r == WordStep(st, w)
<1>1. /\ len \in Nat /\ 4 * len + n = p /\ n \in 0 .. 3 /\ st.c \in [1 .. 4 -> Cell]
      /\ st \in MuState /\ Covers(st, p)
  BY DEF Covered, Covers
<1>2. k = DataWord(len + 1)  BY MergedWord
<1>3. w \in [1 .. 4 -> Cell]
  <2>1. p + 1 \in 1 .. Longest.murmur32 /\ p + 2 \in 1 .. Longest.murmur32
        /\ p + 3 \in 1 .. Longest.murmur32 /\ p + 4 \in 1 .. Longest.murmur32
    BY MuConstants
  <2>2. w[1] \in Cell /\ w[2] \in Cell /\ w[3] \in Cell /\ w[4] \in Cell
    BY <2>1 DEF Cell, MuByte
  <2> QED  BY <2>2
<1>4. c \in [1 .. 4 -> Cell]  BY <1>1, <1>3
<1>5. ASSUME NEW i \in 1 .. n  PROVE c[(4 - n) + i] = Data[4 * (len + 1) + i]
  <2> DEFINE j == (4 - n) + i
  <2> HIDE DEF len, n
  <2>1. n # 0 /\ j \in 1 .. 4 /\ p + j = 4 * (len + 1) + i  BY <1>1
  <2>2. c = w  BY <2>1
  <2> HIDE DEF j, c
  <2>3. w[j] = Data[p + j]
    <3>1. j = 1 \/ j = 2 \/ j = 3 \/ j = 4  BY <2>1
    <3> QED  BY <3>1
  <2> QED  BY <2>1, <2>2, <2>3 DEF j
<1>6. p + 4 <= Longest.murmur32 + st.n  BY <1>1, MuConstants, SMTT(40), ZenonT(60)
<1>7. r = [h1 |-> Mu!DOBLOCK(st.h1, k), c |-> c, n |-> n]  BY Zenon DEF WordStep
<1>8. 4 * (len + 1) + n = p + 4  BY <1>1
<1> HIDE DEF k, c, r, n, len
<1>9. Covers([h1 |-> Mu!DOBLOCK(st.h1, k), c |-> c, n |-> n], 4 * (len + 1) + n)
  BY <1>1, <1>2, <1>4, <1>5, <1>6, CoversWord DEF len
<1>10. Covers(r, p + 4)  BY <1>7, <1>8, <1>9
<1>11. r = [h1 |-> r.h1, c |-> r.c, n |-> r.n]  BY <1>7
<1>12. r \in Covered(p + 4)  BY <1>10, <1>11, CoversState DEF Covered
<1> QED  BY <1>12 DEF r

\* The loop over the whole words of s leaves what makes none.
LEMMA CoveredWords ==
    ASSUME NEW p \in Nat, NEW st \in Covered(p), NEW s, NEW q \in Nat, Len(s) \div 4 = q,
           p + 4 * q <= Longest.murmur32, \A i \in 1 .. 4 * q : s[i] = Data[p + i]
    PROVE  Mu!Words(st, s) \in Covered(p + 4 * q)
<1> DEFINE Read(i) == Mu!READ_UINT32(s, 4 * (i - 1) + 1)
           T == [i \in 0 .. q |-> Covered(p + 4 * i)]
           go == [i \in 0 + 1 .. q |-> [x \in Covered(p + 4 * (i - 1)) |-> WordStep(x, Read(i))]]
           len == Len(s) \div 4
           step[i \in 0 .. len] ==
             IF i = 0 THEN st
             ELSE LET x == step[i - 1]
                      w == Mu!READ_UINT32(s, 4 * (i - 1) + 1)
                  IN  [h1 |-> Mu!DOBLOCK(x.h1, Mu!Merge(x.n, x.c, w)),
                       c |-> IF x.n = 0 THEN x.c ELSE w, n |-> x.n]
<1>1. Mu!Words(st, s) = step[len]  BY Zenon DEF Mu!Words
<1>0. len = q  OBVIOUS
<1> HIDE DEF len
<1>2. ASSUME NEW i \in 1 .. q, NEW x \in Covered(p + 4 * (i - 1))
      PROVE  WordStep(x, Read(i)) \in Covered(p + 4 * i)
  <2> DEFINE m == p + 4 * (i - 1)
             j == 4 * (i - 1)
             w == Read(i)
  <2>1. /\ m \in Nat /\ m + 4 = p + 4 * i /\ m + 4 <= Longest.murmur32 /\ j \in Nat
        /\ j + 1 \in 1 .. 4 * q /\ j + 2 \in 1 .. 4 * q
        /\ j + 3 \in 1 .. 4 * q /\ j + 4 \in 1 .. 4 * q
        /\ p + (j + 1) = m + 1 /\ p + (j + 2) = m + 2
        /\ p + (j + 3) = m + 3 /\ p + (j + 4) = m + 4
    BY MuConstants
  <2>2. w = <<s[j + 1], s[j + 2], s[j + 3], s[j + 4]>>
    <3>1. (j + 1) + 1 = j + 2 /\ (j + 1) + 2 = j + 3 /\ (j + 1) + 3 = j + 4  BY <2>1
    <3> HIDE DEF j
    <3>2. Mu!READ_UINT32(s, j + 1) = <<s[j + 1], s[j + 2], s[j + 3], s[j + 4]>>
      BY <3>1 DEF Mu!READ_UINT32
    <3> QED  BY <3>2 DEF j
  <2> HIDE DEF m, j, w
  <2>3. /\ w[1] = s[j + 1] /\ w[2] = s[j + 2] /\ w[3] = s[j + 3] /\ w[4] = s[j + 4]
        /\ w = <<w[1], w[2], w[3], w[4]>>
    BY <2>2
  <2>4. s[j + 1] = Data[m + 1] /\ s[j + 2] = Data[m + 2] /\ s[j + 3] = Data[m + 3]
        /\ s[j + 4] = Data[m + 4]
    <3>1. s[j + 1] = Data[p + (j + 1)] /\ s[j + 2] = Data[p + (j + 2)]
          /\ s[j + 3] = Data[p + (j + 3)] /\ s[j + 4] = Data[p + (j + 4)]
      BY ONLY <2>1, \A h \in 1 .. 4 * q : s[h] = Data[p + h]
    <3> QED  BY ONLY <2>1, <3>1
  <2>5. x \in Covered(m)  BY DEF m
  <2>6. WordStep(x, w) \in Covered(m + 4)  BY <2>1, <2>3, <2>4, <2>5, CoveredWord
  <2> QED  BY <2>1, <2>6 DEF w
<1> HIDE DEF Read
<1>3. Steps(0, q, MuState, T, st, go)
  <2>1. 0 \in Int /\ q \in Int /\ p + 4 * 0 = p  OBVIOUS
  <2>2. \A i \in 0 .. q : T[i] \subseteq MuState  BY DEF Covered
  <2>3. 0 <= q => st \in T[0]  BY <2>1
  <2>4. \A i \in 0 + 1 .. q : go[i] \in [T[i - 1] -> T[i]]
    <3>1. \A i \in 0 + 1 .. q : /\ i \in 1 .. q /\ T[i - 1] = Covered(p + 4 * (i - 1))
                                /\ T[i] = Covered(p + 4 * i)
      OBVIOUS
    <3> HIDE DEF T
    <3>2. \A i \in 0 + 1 .. q : go[i] \in [Covered(p + 4 * (i - 1)) -> Covered(p + 4 * i)]
      BY <1>2, <3>1
    <3> HIDE DEF go
    <3> QED  BY <3>1, <3>2
  <2> HIDE DEF T, go
  <2> QED  BY <2>1, <2>2, <2>3, <2>4 DEF Steps
<1>4. PICK g : Iterates(g, 0, q, MuState, T, st, go)
  <2> HIDE DEF T, go
  <2> QED  BY <1>3, StepFunction
<1>5. \A i \in 0 .. q : g[i] = IF i = 0 THEN st ELSE WordStep(g[i - 1], Read(i))
  <2>1. \A i \in 0 .. q : g[i] \in T[i] /\ g[i] = IF i = 0 THEN st ELSE go[i][g[i - 1]]
    <3> HIDE DEF T, go
    <3> QED  BY <1>4 DEF Iterates
  <2>2. \A i \in 0 .. q : i # 0 => /\ i - 1 \in 0 .. q /\ i \in 0 + 1 .. q
                                   /\ T[i - 1] = Covered(p + 4 * (i - 1))
    OBVIOUS
  <2>3. \A i \in 0 .. q : i # 0 => i \in 0 + 1 .. q /\ g[i - 1] \in Covered(p + 4 * (i - 1))
    <3> HIDE DEF T, go
    <3> QED  BY <2>1, <2>2
  <2>4. \A i \in 0 .. q : i # 0 => go[i][g[i - 1]] = WordStep(g[i - 1], Read(i))  BY <2>3
  <2> HIDE DEF go, T
  <2> QED  BY <2>1, <2>4
<1>6. g = [i \in 0 .. len |->
             IF i = 0 THEN st
             ELSE LET x == g[i - 1]
                      w == Mu!READ_UINT32(s, 4 * (i - 1) + 1)
                  IN  [h1 |-> Mu!DOBLOCK(x.h1, Mu!Merge(x.n, x.c, w)),
                       c |-> IF x.n = 0 THEN x.c ELSE w, n |-> x.n]]
  <2>1. g \in [0 .. len -> MuState]  BY <1>0, <1>4 DEF Iterates
  <2>2. g = [i \in 0 .. len |-> IF i = 0 THEN st ELSE WordStep(g[i - 1], Read(i))]
    BY <1>0, <1>5, <2>1
  <2> QED  BY Zenon, <2>2 DEF WordStep, Read
<1>7. step = [i \in 0 .. len |->
                IF i = 0 THEN st
                ELSE LET x == step[i - 1]
                         w == Mu!READ_UINT32(s, 4 * (i - 1) + 1)
                     IN  [h1 |-> Mu!DOBLOCK(x.h1, Mu!Merge(x.n, x.c, w)),
                          c |-> IF x.n = 0 THEN x.c ELSE w, n |-> x.n]]
  BY Zenon, <1>6
<1>8. \A i \in 0 .. len : step[i] = IF i = 0 THEN st ELSE WordStep(step[i - 1], Read(i))
  <2> HIDE DEF step
  <2> QED  BY Zenon, <1>7 DEF WordStep, Read
<1> HIDE DEF step
<1>9. \A i \in 0 .. q : i \in {j \in Int : step[j] \in Covered(p + 4 * j)}
  <2> DEFINE M == {j \in Int : step[j] \in Covered(p + 4 * j)}
  <2>0. 0 \in Int /\ q \in Int /\ p + 4 * 0 = p  OBVIOUS
  <2>1. 0 \in M
    <3>1. 0 \in 0 .. q  OBVIOUS
    <3> QED  BY <1>0, <1>8, <2>0, <3>1
  <2>2. ASSUME NEW i \in 0 .. q - 1, i \in M  PROVE i + 1 \in M
    <3>1. i + 1 \in 1 .. q /\ i + 1 \in 0 .. q /\ i + 1 # 0 /\ (i + 1) - 1 = i /\ i + 1 \in Int
      OBVIOUS
    <3>2. step[i + 1] = WordStep(step[i], Read(i + 1))  BY <1>0, <1>8, <3>1
    <3>3. step[i] \in Covered(p + 4 * ((i + 1) - 1))  BY <2>2, <3>1
    <3> QED  BY <1>2, <3>1, <3>2, <3>3
  <2> HIDE DEF M
  <2>3. \A i \in 0 .. q : i \in M  BY <2>0, <2>1, <2>2, IntervalInduction
  <2> QED  BY <2>3 DEF M
<1>10. q \in 0 .. q  OBVIOUS
<1>11. step[q] \in Covered(p + 4 * q)  BY <1>9, <1>10
<1> QED  BY <1>0, <1>1, <1>11

\* The context between two calls: what it has taken of the message, with the
\* count of the carried bytes in the carry's low byte.
Context(x) == [h1 |-> x.h1, c |-> x.carry, n |-> Mu!CarryCount(x.carry)]
MuHolds(x, p) ==
    /\ x = [h1 |-> x.h1, carry |-> x.carry]
    /\ Context(x) \in Covered(p)
    /\ x.carry[1] = Mu!Count(Mu!CarryCount(x.carry))

LEMMA MuStarts == MuHolds(Mu!Starts0, 0)
<1> DEFINE x == Mu!Starts0
           c == <<Mu!Count(0), Zero, Zero, Zero>>
           y == Context(x)
<1>1. x.h1 = <<>> /\ x.carry = c /\ x = [h1 |-> x.h1, carry |-> x.carry]  BY DEF Mu!Starts0
<1>2. c[1] = Mu!Count(0) /\ c \in [1 .. 4 -> Cell]
  <2>1. Mu!Count(0) \in Cell /\ Zero \in Cell  BY DEF Cell
  <2> DEFINE k == Mu!Count(0)
  <2> HIDE DEF k
  <2> QED  BY <2>1
<1>3. Mu!CarryCount(c) = 0  BY <1>2 DEF Mu!CarryCount, Mu!Count
<1> HIDE DEF x, c
<1>4. y = [h1 |-> <<>>, c |-> c, n |-> 0]  BY <1>1, <1>3 DEF Context
<1>5. y.h1 = <<>> /\ y.c = c /\ y.n = 0 /\ y = [h1 |-> y.h1, c |-> y.c, n |-> y.n]  BY <1>4
<1> HIDE DEF y
<1>6. <<>> \in Seq(Seq(MuByte)) /\ Len(<<>>) = 0  OBVIOUS
<1>7. Covers(y, 0)  BY <1>2, <1>5, <1>6 DEF Covers
<1>8. y \in Covered(0)  BY <1>5, <1>7, CoversState DEF Covered
<1> QED  BY <1>1, <1>2, <1>3, <1>8 DEF MuHolds, x, y

\* Copying a state out hides nothing: the count takes the place of a byte that
\* is not carried.
LEMMA CopiedOut ==
    ASSUME NEW p \in Nat, NEW st \in Covered(p)
    PROVE  MuHolds(Mu!CopyOut(st), p)
<1> DEFINE x == Mu!CopyOut(st)
           n == st.n
           b == Mu!Count(st.n)
           c == <<b, st.c[2], st.c[3], st.c[4]>>
           y == Context(x)
<1>1. /\ st.h1 \in Seq(Seq(MuByte)) /\ st.c \in [1 .. 4 -> Cell] /\ n \in 0 .. 3
      /\ 4 * Len(st.h1) + n = p
      /\ \A w \in 1 .. Len(st.h1) : st.h1[w] = DataWord(w)
      /\ \A i \in 1 .. n : st.c[(4 - n) + i] = Data[4 * Len(st.h1) + i]
  BY DEF Covered, Covers
<1>2. x.h1 = st.h1 /\ x.carry = c /\ x = [h1 |-> x.h1, carry |-> x.carry]
  <2>1. x = [h1 |-> st.h1, carry |-> c]  BY Zenon DEF Mu!CopyOut
  <2> HIDE DEF x, c
  <2> QED  BY <2>1
<1>3. b \in Cell /\ b[2] = n  BY <1>1 DEF Cell, Mu!Count
<1> HIDE DEF b
<1>4. /\ c \in [1 .. 4 -> Cell] /\ c[1] = b
      /\ c[2] = st.c[2] /\ c[3] = st.c[3] /\ c[4] = st.c[4]
  <2>1. st.c[2] \in Cell /\ st.c[3] \in Cell /\ st.c[4] \in Cell  BY <1>1
  <2> QED  BY <1>3, <2>1
<1>5. Mu!CarryCount(c) = n  BY <1>3, <1>4 DEF Mu!CarryCount
<1> HIDE DEF x, c, n
<1>6. y = [h1 |-> st.h1, c |-> c, n |-> n]  BY <1>2, <1>5 DEF Context
<1>7. y.h1 = st.h1 /\ y.c = c /\ y.n = n /\ y = [h1 |-> y.h1, c |-> y.c, n |-> y.n]  BY <1>6
<1> HIDE DEF y
<1>8. \A i \in 1 .. n : c[(4 - n) + i] = Data[4 * Len(st.h1) + i]
  <2> TAKE i \in 1 .. n
  <2> DEFINE j == (4 - n) + i
  <2>1. j = 2 \/ j = 3 \/ j = 4  BY <1>1
  <2>2. st.c[j] = Data[4 * Len(st.h1) + i]  BY <1>1
  <2> HIDE DEF j
  <2>3. c[j] = st.c[j]  BY <2>1, <1>4
  <2> QED  BY <2>2, <2>3 DEF j
<1>9. Covers(y, p)  BY <1>1, <1>4, <1>7, <1>8 DEF Covers
<1>10. y \in Covered(p)  BY <1>7, <1>9, CoversState DEF Covered
<1>11. c[1] = Mu!Count(n)  BY <1>4 DEF b, n
<1> QED  BY <1>2, <1>5, <1>10, <1>11 DEF MuHolds, x, y

\* A call takes the bytes it is given, whatever the address of the first.
LEMMA MuProcess ==
    ASSUME NEW p \in Nat, NEW x, MuHolds(x, p), NEW ptr \in 0 .. 3, NEW k \in Nat,
           p + k <= Longest.murmur32
    PROVE  MuHolds(Mu!PMurHash32_Process(x, ptr, [i \in 1 .. k |-> Data[p + i]]), p + k)
<1> DEFINE key == [i \in 1 .. k |-> Data[p + i]]
           n == Mu!CarryCount(x.carry)
           first == Mu!Prologue(n, ptr, Len(key))
           head == SubSeq(key, 1, first)
           st == Mu!DOBYTES([h1 |-> x.h1, c |-> x.carry, n |-> n], head)
           body == SubSeq(key, first + 1, Len(key))
           q == Len(body) \div 4
           mid == Mu!Words(st, body)
           tail == SubSeq(body, 4 * q + 1, Len(body))
           end == Mu!DOBYTES(mid, tail)
<1>1. Mu!PMurHash32_Process(x, ptr, key) = Mu!CopyOut(end)
  BY Zenon DEF Mu!PMurHash32_Process
<1>2. /\ key \in Seq(MuByte) /\ Len(key) = k /\ \A i \in 1 .. k : key[i] = Data[p + i]
  <2>1. \A i \in 1 .. k : Data[p + i] \in MuByte
    <3>1. \A i \in 1 .. k : p + i \in 1 .. Longest.murmur32  BY MuConstants
    <3> QED  BY <3>1 DEF MuByte
  <2> QED  BY <2>1
<1>3. n \in 0 .. 3 /\ Context(x) \in Covered(p) /\ Context(x) = [h1 |-> x.h1, c |-> x.carry, n |-> n]
  <2>1. Context(x) \in Covered(p)  BY DEF MuHolds
  <2>2. Context(x).n \in 0 .. 3  BY <2>1 DEF Covered, MuState
  <2>3. Context(x) = [h1 |-> x.h1, c |-> x.carry, n |-> n]  BY Zenon DEF Context
  <2> HIDE DEF n
  <2> QED  BY <2>1, <2>2, <2>3
<1> HIDE DEF key, n
<1>4. first \in 0 .. k
  <2> DEFINE a == 4 - (IF build THEN n ELSE ptr)
             i == a % 4
  <2>1. a \in Int  BY <1>3
  <2> HIDE DEF a
  <2>2. i \in 0 .. 3  BY <2>1
  <2>3. first = IF i <= k THEN i ELSE 0  BY <1>2 DEF Mu!Prologue, a
  <2> HIDE DEF i, first
  <2> QED  BY <2>2, <2>3
<1> HIDE DEF first
<1>5. Len(head) = first /\ \A i \in 1 .. first : head[i] = Data[p + i]
  <2> DEFINE z == 0
  <2>1. z \in 0 .. Len(key) /\ first \in z .. Len(key)  BY <1>2, <1>4
  <2> HIDE DEF z
  <2>2. Len(SubSeq(key, z + 1, first)) = first - z
        /\ \A i \in 1 .. first - z : SubSeq(key, z + 1, first)[i] = key[z + i]
    BY <1>2, <2>1, Part, SMTT(40), ZenonT(60)
  <2>3. Len(head) = first /\ \A i \in 1 .. first : head[i] = key[0 + i]
    <3>1. first - z = first /\ z + 1 = 1  BY <1>4 DEF z
    <3> QED  BY <2>2, <3>1 DEF z
  <2>4. \A i \in 1 .. first : 0 + i = i /\ i \in 1 .. k  BY <1>4
  <2> HIDE DEF head
  <2> QED  BY <2>3, <2>4, <1>2
<1>6. st \in Covered(p + first)
  <2> DEFINE y == [h1 |-> x.h1, c |-> x.carry, n |-> n]
             h == head
  <2>1. /\ y \in Covered(p) /\ Len(h) \in Nat /\ p + Len(h) <= Longest.murmur32
        /\ \A i \in 1 .. Len(h) : h[i] = Data[p + i]
    BY <1>3, <1>4, <1>5, MuConstants
  <2> HIDE DEF y, h
  <2>2. Mu!DOBYTES(y, h) \in Covered(p + Len(h))  BY <2>1, CoveredBytes
  <2> QED  BY <2>2, <1>5 DEF y, h
<1> HIDE DEF head, st
<1> DEFINE p1 == p + first
           k1 == k - first
<1>7. /\ body \in Seq(MuByte) /\ Len(body) = k1 /\ \A i \in 1 .. k1 : body[i] = Data[p1 + i]
      /\ p1 \in Nat /\ k1 \in Nat /\ p1 + k1 = p + k
  <2>1. first \in 0 .. Len(key) /\ k \in first .. Len(key)  BY <1>2, <1>4
  <2>2. /\ SubSeq(key, first + 1, k) \in Seq(MuByte) /\ Len(SubSeq(key, first + 1, k)) = k - first
        /\ \A i \in 1 .. k - first : SubSeq(key, first + 1, k)[i] = key[first + i]
    BY <1>2, <2>1, Part, ZenonT(60)
  <2>3. body = SubSeq(key, first + 1, k)  BY <1>2
  <2>4. \A i \in 1 .. k - first : first + i \in 1 .. k /\ p + (first + i) = (p + first) + i
    BY <1>4
  <2>5. \A i \in 1 .. k - first : body[i] = Data[(p + first) + i]
    <3> HIDE DEF body
    <3> QED  BY <2>2, <2>3, <2>4, <1>2
  <2>6. p + first \in Nat /\ k - first \in Nat /\ (p + first) + (k - first) = p + k  BY <1>4
  <2> HIDE DEF body
  <2> QED  BY <2>2, <2>3, <2>5, <2>6
<1> HIDE DEF body, p1, k1
<1>8. q \in Nat /\ 4 * q <= k1 /\ Len(body) \div 4 = q
  <2>1. k1 \div 4 \in Nat /\ 4 * (k1 \div 4) <= k1  BY <1>7
  <2> QED  BY <2>1, <1>7
<1> HIDE DEF q
<1>9. mid \in Covered(p1 + 4 * q)
  <2>1. st \in Covered(p1)  BY <1>6 DEF p1
  <2>2. /\ p1 + 4 * q <= Longest.murmur32 /\ \A i \in 1 .. 4 * q : body[i] = Data[p1 + i]
    <3>1. p1 + 4 * q <= p + k  BY <1>7, <1>8
    <3>2. \A i \in 1 .. 4 * q : i \in 1 .. k1  BY <1>7, <1>8
    <3> QED  BY <3>1, <3>2, <1>7, <1>8, MuConstants
  <2> QED  BY <2>1, <2>2, <1>7, <1>8, CoveredWords
<1> HIDE DEF mid
<1> DEFINE p2 == p1 + 4 * q
           k2 == k1 - 4 * q
           m == 4 * q
<1>10. /\ Len(tail) = k2 /\ \A i \in 1 .. k2 : tail[i] = Data[p2 + i]
       /\ p2 \in Nat /\ k2 \in Nat /\ p2 + k2 = p + k
  <2>1. m \in 0 .. Len(body) /\ k1 \in m .. Len(body)  BY <1>7, <1>8
  <2>2. p2 = p1 + m /\ k2 = k1 - m  OBVIOUS
  <2>3. tail = SubSeq(body, m + 1, k1)  BY <1>7
  <2> HIDE DEF m, p2, k2, tail
  <2>4. /\ Len(SubSeq(body, m + 1, k1)) = k1 - m
        /\ \A i \in 1 .. k1 - m : SubSeq(body, m + 1, k1)[i] = body[m + i]
    BY <1>7, <2>1, Part
  <2>5. \A i \in 1 .. k1 - m : m + i \in 1 .. k1 /\ p1 + (m + i) = p2 + i
    BY <1>7, <2>1, <2>2
  <2>6. \A i \in 1 .. k1 - m : tail[i] = Data[p2 + i]  BY <2>3, <2>4, <2>5, <1>7
  <2>7. p2 \in Nat /\ k2 \in Nat /\ p2 + k2 = p + k  BY <1>7, <2>1, <2>2
  <2> QED  BY <2>2, <2>3, <2>4, <2>6, <2>7
<1> HIDE DEF tail, m
<1>11. end \in Covered(p + k)
  <2>1. mid \in Covered(p2)  BY <1>9
  <2> HIDE DEF p2, k2
  <2>2. Mu!DOBYTES(mid, tail) \in Covered(p2 + Len(tail))  BY <2>1, <1>10, CoveredBytes
  <2> QED  BY <2>2, <1>10
<1> HIDE DEF end
<1>12. MuHolds(Mu!CopyOut(end), p + k)
  <2> DEFINE e == p + k
  <2>1. e \in Nat /\ end \in Covered(e)  BY <1>11
  <2> HIDE DEF e
  <2>2. MuHolds(Mu!CopyOut(end), e)  BY <2>1, CopiedOut
  <2> QED  BY <2>2 DEF e
<1> QED  BY <1>1, <1>12 DEF key

\* The words and the rest of the first p bytes, by Murmur3A's own division.
LEMMA MuResult ==
    ASSUME NEW p \in 0 .. Longest.murmur32, NEW x, MuHolds(x, p)
    PROVE  Mu!PMurHash32_Result(x, p) = Mu!Murmur3A([i \in 1 .. p |-> Data[i]])
<1> DEFINE msg == [i \in 1 .. p |-> Data[i]]
           len == Len(x.h1)
           n == Mu!CarryCount(x.carry)
           words == Len(msg) \div 4
           h == [w \in 1 .. words |-> SubSeq(msg, 4 * w - 3, 4 * w)]
           carried == Mu!Carried(x.carry, n)
           rest == SubSeq(msg, 4 * words + 1, Len(msg))
           Any == Cell \cup MuByte
<1>1. /\ x.h1 \in Seq(Seq(MuByte)) /\ x.carry \in [1 .. 4 -> Cell] /\ n \in 0 .. 3
      /\ 4 * len + n = p /\ len \in Nat
      /\ \A w \in 1 .. len : x.h1[w] = DataWord(w)
      /\ \A i \in 1 .. n : x.carry[(4 - n) + i] = Data[4 * len + i]
  <2>1. Context(x) \in Covered(p)  BY DEF MuHolds
  <2>2. Covers(Context(x), p)  BY <2>1 DEF Covered
  <2>3. Context(x).h1 = x.h1 /\ Context(x).c = x.carry /\ Context(x).n = n  BY DEF Context
  <2> HIDE DEF n
  <2> QED  BY <2>2, <2>3 DEF Covers
<1>2. /\ msg \in Seq(MuByte) /\ Len(msg) = p /\ \A i \in 1 .. p : msg[i] = Data[i]
      /\ p \in Nat
  <2>1. p \in Nat  BY MuConstants
  <2>2. \A i \in 1 .. p : Data[i] \in MuByte  BY <2>1, MuConstants DEF MuByte
  <2> QED  BY <2>1, <2>2
<1> HIDE DEF msg, n, len
<1>3. words = len  BY <1>1, <1>2
<1> HIDE DEF words
<1>4. ASSUME NEW w \in 1 .. len  PROVE SubSeq(msg, 4 * w - 3, 4 * w) = x.h1[w]
  <2> DEFINE m == 4 * w - 4
             e == 4 * w
             s == SubSeq(msg, m + 1, e)
             d == DataWord(w)
  <2>1. m \in 0 .. Len(msg) /\ e \in m .. Len(msg) /\ m + 1 = 4 * w - 3 /\ e - m = 4
        /\ w \in Nat \ {0} /\ 4 * w <= Longest.murmur32
    BY <1>1, <1>2, MuConstants
  <2>2. d \in Seq(MuByte) /\ Len(d) = 4  BY <2>1, DataWordType
  <2>3. \A i \in 1 .. 4 : d[i] = Data[m + i]  BY DEF DataWord
  <2>4. \A i \in 1 .. 4 : m + i \in 1 .. p  BY <2>1, <1>2
  <2> HIDE DEF m, e, d
  <2>5. s \in Seq(MuByte) /\ Len(s) = e - m /\ \A i \in 1 .. e - m : s[i] = msg[m + i]
    BY <1>2, <2>1, Part
  <2> HIDE DEF s
  <2>6. \A i \in 1 .. 4 : s[i] = d[i]  BY <2>1, <2>3, <2>4, <2>5, <1>2, SMTT(40), ZenonT(60)
  <2>7. Len(s) = 4  BY <2>1, <2>5
  <2>8. s = d  BY <2>2, <2>5, <2>6, <2>7, SeqEqual
  <2>9. x.h1[w] = d  BY <1>1 DEF d
  <2> QED  BY <2>1, <2>8, <2>9 DEF s, e
<1>5. h = x.h1
  <2>1. x.h1 = [w \in 1 .. len |-> x.h1[w]]  BY <1>1 DEF len
  <2>2. \A w \in 1 .. len : SubSeq(msg, 4 * w - 3, 4 * w) = x.h1[w]  BY <1>4
  <2> QED  BY <1>3, <2>1, <2>2
<1> HIDE DEF h
<1>6. carried = rest
  <2> DEFINE m == 4 - n
             four == 4
             c == x.carry
             s == SubSeq(c, m + 1, four)
  <2>1. m \in 0 .. 4 /\ four \in m .. 4 /\ four - m = n  BY <1>1
  <2>2. c \in Seq(Any) /\ Len(c) = 4
    <3>1. c \in [1 .. 4 -> Cell]  BY <1>1
    <3> HIDE DEF c
    <3>2. c \in [1 .. 4 -> Any]  BY <3>1
    <3> HIDE DEF Any, m, four, s, carried, rest
    <3>3. 4 \in Nat  OBVIOUS
    <3> QED  BY <3>2, <3>3, FunctionSeq, SMTT(40), ZenonT(60)
  <2>3. carried = s  BY Zenon DEF Mu!Carried
  <2> HIDE DEF m, four, c, carried, rest, Any
  <2>4. s \in Seq(Any) /\ Len(s) = four - m /\ \A i \in 1 .. four - m : s[i] = c[m + i]
    <3>1. m \in 0 .. Len(c) /\ four \in m .. Len(c)  BY <2>1, <2>2
    <3> QED  BY <3>1, <2>2, Part
  <2> DEFINE b == 4 * words
             r == SubSeq(msg, b + 1, p)
  <2>5. b \in 0 .. Len(msg) /\ p \in b .. Len(msg) /\ p - b = n /\ b = 4 * len
    BY <1>1, <1>2, <1>3
  <2>6. rest = r  BY <1>2 DEF rest
  <2>7. msg \in Seq(Any)  BY <1>2 DEF Any
  <2>8. \A i \in 1 .. n : b + i \in 1 .. p  BY <2>5, <1>2, <1>1
  <2> HIDE DEF b
  <2>9. r \in Seq(Any) /\ Len(r) = p - b /\ \A i \in 1 .. p - b : r[i] = msg[b + i]
    BY <2>5, <2>7, Part
  <2> HIDE DEF s, r
  <2>10. \A i \in 1 .. n : c[m + i] = Data[4 * len + i]  BY <1>1 DEF c, m
  <2>11. \A i \in 1 .. n : s[i] = r[i]
    <3> TAKE i \in 1 .. n
    <3>1. s[i] = c[m + i] /\ c[m + i] = Data[4 * len + i]  BY <2>1, <2>4, <2>10
    <3>2. r[i] = msg[b + i] /\ msg[b + i] = Data[b + i]  BY <2>5, <2>8, <2>9, <1>2
    <3> QED  BY <3>1, <3>2, <2>5
  <2>12. Len(s) = n /\ Len(r) = n  BY <2>1, <2>4, <2>5, <2>9
  <2>13. s = r  BY <2>4, <2>9, <2>11, <2>12, SeqEqual
  <2> QED  BY <2>3, <2>6, <2>13
<1>7. Mu!PMurHash32_Result(x, p) = <<x.h1, carried, p>>  BY Zenon DEF Mu!PMurHash32_Result, n
<1>8. Mu!Murmur3A(msg) = <<h, rest, Len(msg)>>  BY Zenon DEF Mu!Murmur3A, h, words
<1> HIDE DEF carried, rest
<1> QED  BY <1>2, <1>5, <1>6, <1>7, <1>8 DEF msg

MuInv ==
    /\ given \in 0 .. Longest.murmur32 /\ build \in BOOLEAN
    /\ MuHolds(context, given)
    /\ Mu!DigestOfWhole

LEMMA MuAlways == Mu!Spec => []MuInv
<1>1. Mu!Init => MuInv
  BY MuStarts, MuConstants DEF Mu!Init, MuInv, Mu!DigestOfWhole
<1>2. MuInv /\ [Mu!Next]_(Mu!vars) => MuInv'
  <2> SUFFICES ASSUME MuInv, [Mu!Next]_(Mu!vars) PROVE MuInv'  OBVIOUS
  <2>0. /\ given \in 0 .. Longest.murmur32 /\ build \in BOOLEAN
        /\ MuHolds(context, given) /\ Mu!DigestOfWhole
        /\ Longest.murmur32 \in Nat /\ Piece.murmur32 \in Nat
    BY MuConstants DEF MuInv
  <2>1. CASE Mu!Starts
    <3>1. context' = Mu!Starts0 /\ given' = 0 /\ answer' = Mu!NoDigest /\ build' = build
      BY <2>1 DEF Mu!Starts
    <3>2. MuHolds(context', given')  BY <3>1, MuStarts
    <3> QED  BY <2>0, <3>1, <3>2 DEF MuInv, Mu!DigestOfWhole, MuHolds, Context
  <2>2. CASE Mu!Finish
    <3>1. /\ context' = context /\ given' = given /\ build' = build
          /\ answer' = Mu!PMurHash32_Result(context, given)
      BY <2>2 DEF Mu!Finish
    <3>2. answer' = Mu!Murmur3A([i \in 1 .. given |-> Data[i]])  BY <2>0, <3>1, MuResult
    <3> QED  BY <2>0, <3>1, <3>2 DEF MuInv, Mu!DigestOfWhole, MuHolds, Context
  <2>3. ASSUME NEW k \in 0 .. Piece.murmur32, NEW ptr \in 0 .. 3, Mu!Process(k, ptr)
        PROVE  MuInv'
    <3>1. /\ context' = Mu!PMurHash32_Process(context, ptr, [i \in 1 .. k |-> Data[given + i]])
          /\ given' = given + k /\ given + k <= Longest.murmur32 /\ build' = build
          /\ answer' = Mu!NoDigest
      BY <2>3 DEF Mu!Process
    <3>2. k \in Nat /\ given \in Nat /\ given + k \in 0 .. Longest.murmur32  BY <2>0, <3>1
    <3>3. MuHolds(context', given')  BY <2>0, <3>1, <3>2, MuProcess
    <3> QED  BY <2>0, <3>1, <3>2, <3>3 DEF MuInv, Mu!DigestOfWhole, MuHolds, Context
  <2>4. CASE UNCHANGED Mu!vars
    BY <2>0, <2>4 DEF Mu!vars, MuInv, Mu!DigestOfWhole, MuHolds, Context
  <2> QED  BY <2>1, <2>2, <2>3, <2>4 DEF Mu!Next
<1> QED  BY <1>1, <1>2, PTL DEF Mu!Spec

LEMMA MuAlone == AnySpec => [](machine # "murmur32") \/ Mu!Spec
<1>1. AnyInit => machine # "murmur32" \/ (machine = "murmur32" /\ Mu!Init)  BY DEF AnyInit
<1>2. machine # "murmur32" /\ [AnyNext]_allVars => (machine # "murmur32")'
  BY DEF AnyNext, allVars
<1>3. machine = "murmur32" /\ [AnyNext]_allVars => (machine = "murmur32")' /\ [Mu!Next]_(Mu!vars)
  BY DEF AnyNext, allVars, otherVars, Mu!vars
<1> QED  BY <1>1, <1>2, <1>3, PTL DEF AnySpec, Mu!Spec

LEMMA MuRuns == AnySpec => [](machine = "murmur32" => MuInv)
<1>1. machine # "murmur32" => (machine = "murmur32" => MuInv)  OBVIOUS
<1> QED  BY <1>1, MuAlways, MuAlone, PTL

\* The carry is always a word whose low byte is a count below four.
THEOREM MurmurTypeCorrect == AnySpec => [](machine = "murmur32" => Mu!TypeOK)
<1>1. MuInv => Mu!TypeOK
  <2> SUFFICES ASSUME MuInv PROVE Mu!TypeOK  OBVIOUS
  <2> DEFINE n == Mu!CarryCount(context.carry)
             y == Context(context)
  <2>1. given \in 0 .. Longest.murmur32 /\ build \in BOOLEAN /\ MuHolds(context, given)
    BY DEF MuInv
  <2>2. y \in MuState /\ context.carry[1] = Mu!Count(n)  BY <2>1 DEF MuHolds, Covered
  <2>3. y.h1 = context.h1 /\ y.c = context.carry /\ y.n = n  BY DEF Context
  <2> HIDE DEF n, y
  <2>4. n \in 0 .. 3 /\ context.carry \in [1 .. 4 -> Cell] /\ context.h1 \in Seq(Seq(MuByte))
    BY <2>2, <2>3 DEF MuState
  <2>5. context.carry[1] \in {Mu!Count(i) : i \in 0 .. 3} /\ DOMAIN context.carry = 1 .. 4
    BY <2>2, <2>4
  <2> QED  BY <2>1, <2>4, <2>5 DEF Mu!TypeOK, MuByte
<1> QED  BY <1>1, MuRuns, PTL

\* After every call the carry holds, on top of its count, exactly the bytes of
\* the message that made no word, in order, and the words before them have been
\* churned, each once: for every cut of the message and every address.
THEOREM CarryIsTail == AnySpec => []CarryHoldsTail
<1>1. MuInv => Mu!CarryHoldsTail
  <2> SUFFICES ASSUME MuInv PROVE Mu!CarryHoldsTail  OBVIOUS
  <2> DEFINE n == Mu!CarryCount(context.carry)
             y == Context(context)
             len == Len(context.h1)
  <2>1. MuHolds(context, given)  BY DEF MuInv
  <2>2. Covers(y, given)  BY <2>1 DEF MuHolds, Covered
  <2>3. y.h1 = context.h1 /\ y.c = context.carry /\ y.n = n  BY DEF Context
  <2> HIDE DEF n, y
  <2>4. /\ n \in 0 .. 3 /\ len \in Nat /\ 4 * len + n = given
        /\ \A w \in 1 .. len : context.h1[w] = DataWord(w)
        /\ \A i \in 1 .. n : context.carry[(4 - n) + i] = Data[4 * len + i]
    BY <2>2, <2>3 DEF Covers
  <2> HIDE DEF len
  <2>5. \A w \in 1 .. len : context.h1[w] = [i \in 1 .. 4 |-> Data[4 * w - 4 + i]]
    BY <2>4 DEF DataWord
  <2> QED  BY Zenon, <2>4, <2>5 DEF Mu!CarryHoldsTail, n, len
<1>2. (machine = "murmur32" => Mu!CarryHoldsTail) => CarryHoldsTail  BY DEF CarryHoldsTail
<1> QED  BY <1>1, <1>2, MuRuns, PTL

\* Hashing in pieces of any sizes, at any addresses and in either build, gives
\* what Murmur3A gives for the whole message.
THEOREM MurmurInPieces == AnySpec => []MurmurOfWhole
<1>1. MuInv => Mu!DigestOfWhole  BY DEF MuInv
<1>2. (machine = "murmur32" => Mu!DigestOfWhole) => MurmurOfWhole  BY DEF MurmurOfWhole
<1> QED  BY <1>1, <1>2, MuRuns, PTL

-----------------------------------------------------------------------------
(* Fletcher-32 *)

Ctx == [s1 : 0 .. Fl!M - 1, s2 : 0 .. Fl!M - 1, have_low : BOOLEAN, low : Fl!Byte]

\* The i-th word of a message.
WordAt(msg, i) == Fl!Word16(msg[2 * i - 1], msg[2 * i])

\* The sums of the words of a message, and the sums of those, up to the m-th;
\* c holds the last of both.
IsSums(U, V, msg, m) ==
    /\ U[0] = 0 /\ V[0] = 0
    /\ \A i \in 1 .. m : U[i] = U[i - 1] + WordAt(msg, i) /\ V[i] = V[i - 1] + U[i]
Summed(c, msg, m) ==
    \E U, V \in [0 .. m -> Nat] :
        IsSums(U, V, msg, m) /\ c.s1 = U[m] % Fl!M /\ c.s2 = V[m] % Fl!M

LEMMA FlConstants ==
    /\ ByteValues \in Nat /\ ByteValues > 1 /\ Fl!M \in Nat \ {0} /\ 0 \in Fl!Byte
    /\ Longest.fletcher \in Nat /\ Piece.fletcher \in Nat
<1>1. /\ ByteValues \in Nat /\ ByteValues > 1
      /\ Longest.fletcher \in Nat /\ Piece.fletcher \in Nat
  BY InstancesFit DEF Fl!ConstantsFit
<1>2. ByteValues * ByteValues >= 1 * ByteValues + ByteValues
  BY <1>1, MultiplesApart
<1>3. ByteValues * ByteValues \in Int  BY <1>1
<1>4. Fl!M \in Nat \ {0}  BY <1>1, <1>2, <1>3 DEF Fl!M
<1> QED  BY <1>1, <1>4 DEF Fl!Byte

LEMMA WordType ==
    ASSUME NEW low \in Fl!Byte, NEW high \in Fl!Byte
    PROVE  Fl!Word16(low, high) \in Nat
<1>1. low \in Nat /\ high \in Nat /\ ByteValues \in Nat  BY FlConstants DEF Fl!Byte
<1>2. ByteValues * high \in Nat  BY <1>1
<1> QED  BY <1>1, <1>2 DEF Fl!Word16

\* Only the words that have been added count.
LEMMA SummedSame ==
    ASSUME NEW msg, NEW more, NEW m \in Nat, NEW c, NEW d, Summed(c, msg, m),
           \A i \in 1 .. 2 * m : more[i] = msg[i], d.s1 = c.s1, d.s2 = c.s2
    PROVE  Summed(d, more, m)
<1>1. PICK U, V \in [0 .. m -> Nat] :
        IsSums(U, V, msg, m) /\ c.s1 = U[m] % Fl!M /\ c.s2 = V[m] % Fl!M
  BY DEF Summed
<1>2. \A i \in 1 .. m : WordAt(more, i) = WordAt(msg, i)
  <2>1. \A i \in 1 .. m : 2 * i - 1 \in 1 .. 2 * m /\ 2 * i \in 1 .. 2 * m  OBVIOUS
  <2> QED  BY <2>1 DEF WordAt
<1>3. IsSums(U, V, more, m)  BY <1>1, <1>2 DEF IsSums
<1> QED  BY <1>1, <1>3 DEF Summed

\* AddWord: the sums reduced at every word are the sums reduced once.
LEMMA SummedWord ==
    ASSUME NEW msg, NEW m \in Nat, NEW c \in Ctx, Summed(c, msg, m),
           NEW w \in Nat, w = WordAt(msg, m + 1)
    PROVE  /\ Fl!AddWord(c, w) \in Ctx
           /\ Summed(Fl!AddWord(c, w), msg, m + 1)
           /\ Fl!AddWord(c, w).have_low = c.have_low /\ Fl!AddWord(c, w).low = c.low
<1> DEFINE r == Fl!AddWord(c, w)
           s1 == (c.s1 + w) % Fl!M
           s2 == (c.s2 + s1) % Fl!M
           N == Fl!M
<1>1. N \in Nat \ {0}  BY FlConstants
<1>2. r = [s1 |-> s1, s2 |-> s2, have_low |-> c.have_low, low |-> c.low]
  BY Zenon DEF Fl!AddWord
<1>3. c.s1 \in 0 .. N - 1 /\ c.s2 \in 0 .. N - 1 /\ c.have_low \in BOOLEAN /\ c.low \in Fl!Byte
  BY DEF Ctx
<1>4. PICK U, V \in [0 .. m -> Nat] :
        IsSums(U, V, msg, m) /\ c.s1 = U[m] % N /\ c.s2 = V[m] % N
  BY DEF Summed
<1>5. U[m] \in Nat /\ V[m] \in Nat  BY <1>4
<1> DEFINE u == U[m] + w
           v == V[m] + u
<1>6. u \in Nat /\ v \in Nat  BY <1>5
<1> HIDE DEF N
<1>7. s1 = u % N
  <2> DEFINE a == U[m]
             b == c.s1
  <2>1. b = a % N /\ a \in Int /\ w \in Int /\ s1 = (b + w) % N  BY <1>4, <1>5 DEF N
  <2> HIDE DEF a, b, s1
  <2>2. (a + w) % N = ((a % N) + w) % N  BY <1>1, <2>1, ModSum
  <2>3. s1 = (a + w) % N  BY <2>1, <2>2
  <2> QED  BY <2>3 DEF a
<1>8. s2 = v % N
  <2> DEFINE a == V[m]
             b == c.s2
  <2>1. b = a % N /\ a \in Int /\ u \in Int /\ s2 = (b + s1) % N /\ v = a + u
    BY <1>4, <1>5, <1>6 DEF N
  <2>2. s1 \in Int
    <3> HIDE DEF s1, u
    <3>1. u % N \in 0 .. N - 1  BY <1>1, <2>1, ModRange
    <3> QED  BY <3>1, <1>1, <1>7
  <2> HIDE DEF a, b, s1, s2, u, v
  <2>3. (a + u) % N = ((a % N) + u) % N  BY <1>1, <2>1, ModSum
  <2>4. b \in Int
    <3>1. a % N \in 0 .. N - 1  BY <1>1, <2>1, ModRange
    <3> QED  BY <3>1, <2>1, <1>1
  <2>5. (u + b) % N = ((u % N) + b) % N  BY <1>1, <2>1, <2>4, ModSum
  <2>6. u + b = b + u /\ s1 + b = b + s1  BY <2>1, <2>2, <2>4
  <2> QED  BY <2>1, <2>3, <2>5, <2>6, <1>7
<1> DEFINE U2 == [i \in 0 .. m + 1 |-> IF i <= m THEN U[i] ELSE u]
           V2 == [i \in 0 .. m + 1 |-> IF i <= m THEN V[i] ELSE v]
<1> HIDE DEF s1, s2
<1>9. /\ U2 \in [0 .. m + 1 -> Nat] /\ V2 \in [0 .. m + 1 -> Nat]
      /\ U2[m + 1] = u /\ V2[m + 1] = v
      /\ \A i \in 0 .. m : U2[i] = U[i] /\ V2[i] = V[i]
  <2>1. \A i \in 0 .. m : U[i] \in Nat /\ V[i] \in Nat /\ i \in 0 .. m + 1 /\ i <= m  BY <1>4
  <2>2. m + 1 \in 0 .. m + 1 /\ ~ (m + 1 <= m)  OBVIOUS
  <2>3. \A i \in 0 .. m + 1 : i <= m => i \in 0 .. m  OBVIOUS
  <2> HIDE DEF u, v
  <2> QED  BY <1>6, <2>1, <2>2, <2>3
<1>10. IsSums(U2, V2, msg, m + 1)
  <2>1. U[0] = 0 /\ V[0] = 0 /\ 0 \in 0 .. m  BY <1>4 DEF IsSums
  <2>2. ASSUME NEW i \in 1 .. m + 1
        PROVE  U2[i] = U2[i - 1] + WordAt(msg, i) /\ V2[i] = V2[i - 1] + U2[i]
    <3> HIDE DEF U2, V2
    <3>1. CASE i = m + 1
      <4>1. i - 1 = m /\ m \in 0 .. m  BY <3>1
      <4>2. U2[i] = u /\ V2[i] = v /\ U2[i - 1] = U[m] /\ V2[i - 1] = V[m]
        BY <3>1, <4>1, <1>9
      <4> QED  BY <4>2, <3>1
    <3>2. CASE i # m + 1
      <4>1. i \in 1 .. m /\ i \in 0 .. m /\ i - 1 \in 0 .. m  BY <3>2
      <4>2. U[i] = U[i - 1] + WordAt(msg, i) /\ V[i] = V[i - 1] + U[i]
        BY <1>4, <4>1 DEF IsSums
      <4> QED  BY <4>1, <4>2, <1>9
    <3> QED  BY <3>1, <3>2
  <2> HIDE DEF U2, V2
  <2> QED  BY <2>1, <2>2, <1>9 DEF IsSums
<1> HIDE DEF U2, V2, u, v, r
<1>11. r.s1 = U2[m + 1] % N /\ r.s2 = V2[m + 1] % N
  BY <1>2, <1>7, <1>8, <1>9
<1>12. Summed(r, msg, m + 1)  BY <1>9, <1>10, <1>11 DEF Summed, N
<1>13. s1 \in 0 .. N - 1 /\ s2 \in 0 .. N - 1
  <2>1. u \in Int /\ v \in Int  BY <1>6
  <2>2. u % N \in 0 .. N - 1  BY <1>1, <2>1, ModRange
  <2>3. v % N \in 0 .. N - 1  BY <1>1, <2>1, ModRange
  <2> QED  BY <2>2, <2>3, <1>7, <1>8
<1>14. r \in Ctx  BY <1>2, <1>3, <1>13 DEF Ctx, N
<1>15. r.have_low = c.have_low /\ r.low = c.low  BY <1>2
<1> QED  BY <1>12, <1>14, <1>15 DEF r

\* How many words d has from position i on, and what its last byte does.
WordsLeft(d, i) == (Len(d) - i + 1) \div 2
WithLast(x, d, i) ==
    IF (Len(d) - i + 1) % 2 = 0 THEN x
    ELSE [s1 |-> x.s1, s2 |-> x.s2, have_low |-> TRUE, low |-> d[Len(d)]]

\* Pairs from c has summed the first k words of msg.
Ends(c, d, i, msg, k) ==
    \E x \in Ctx : /\ Summed(x, msg, k) /\ x.have_low = c.have_low /\ x.low = c.low
                  /\ Fl!Pairs(c, d, i) = WithLast(x, d, i)

LEMMA Halves ==
    ASSUME NEW x \in Nat
    PROVE  /\ x \div 2 \in Nat
           /\ x % 2 = 0 => x = 2 * (x \div 2)
           /\ x % 2 # 0 => x = 2 * (x \div 2) + 1
           /\ (2 * x) \div 2 = x
OBVIOUS

\* The whole words of d from position i on, which continue the message.
LEMMA PairSums ==
    ASSUME NEW msg, NEW d \in Seq(Fl!Byte), NEW i \in 1 .. 2, NEW c \in Ctx,
           NEW m \in Nat, Summed(c, msg, m), i - 1 <= Len(d),
           NEW n \in Nat, n = WordsLeft(d, i),
           \A j \in i .. Len(d) : d[j] = msg[2 * m + (j - i + 1)]
    PROVE  Ends(c, d, i, msg, m + n)
<1> DEFINE Good(k) == {x \in Ctx : Summed(x, msg, m + k) /\ x.have_low = c.have_low /\ x.low = c.low}
           w(k) == Fl!Word16(d[i + 2 * (k - 1)], d[i + 2 * (k - 1) + 1])
           T == [k \in 0 .. n |-> Good(k)]
           go == [k \in 0 + 1 .. n |-> [x \in Good(k - 1) |-> Fl!AddWord(x, w(k))]]
           len == (Len(d) - i + 1) \div 2
           after[k \in 0 .. len] ==
             IF k = 0 THEN c
             ELSE Fl!AddWord(after[k - 1], Fl!Word16(d[i + 2 * (k - 1)], d[i + 2 * (k - 1) + 1]))
<1>0. len = n  BY DEF WordsLeft
<1>1. Fl!Pairs(c, d, i) = WithLast(after[len], d, i)
  BY Zenon DEF Fl!Pairs, WithLast
<1>a. 2 * n <= Len(d) - i + 1
  BY DEF WordsLeft
<1> HIDE DEF len
<1>2. ASSUME NEW k \in 1 .. n, NEW x \in Good(k - 1)
      PROVE  Fl!AddWord(x, w(k)) \in Good(k)
  <2> DEFINE j == i + 2 * (k - 1)
             q == m + (k - 1)
             z == w(k)
  <2>1. /\ q \in Nat /\ q + 1 = m + k /\ j \in i .. Len(d) /\ j + 1 \in i .. Len(d)
        /\ 2 * m + (j - i + 1) = 2 * (q + 1) - 1 /\ 2 * m + ((j + 1) - i + 1) = 2 * (q + 1)
        /\ j \in 1 .. Len(d) /\ j + 1 \in 1 .. Len(d)
    BY <1>a
  <2>2. x \in Ctx /\ Summed(x, msg, q) /\ x.have_low = c.have_low /\ x.low = c.low  OBVIOUS
  <2>3. z = Fl!Word16(d[j], d[j + 1])  OBVIOUS
  <2> HIDE DEF j, q, z
  <2>4. d[j] = msg[2 * m + (j - i + 1)] /\ d[j + 1] = msg[2 * m + ((j + 1) - i + 1)]
    BY <2>1
  <2>5. z = WordAt(msg, q + 1)  BY <2>1, <2>3, <2>4 DEF WordAt
  <2>6. z \in Nat
    <3>1. d[j] \in Fl!Byte /\ d[j + 1] \in Fl!Byte  BY <2>1, SMTT(30)
    <3> QED  BY <2>3, <3>1, WordType
  <2> DEFINE y == Fl!AddWord(x, z)
  <2>7. y \in Ctx /\ Summed(y, msg, q + 1) /\ y.have_low = x.have_low /\ y.low = x.low
    BY <2>1, <2>2, <2>5, <2>6, SummedWord, SMTT(40), ZenonT(60)
  <2> HIDE DEF y
  <2>8. y \in Good(k)  BY <2>1, <2>2, <2>7
  <2> QED  BY <2>8 DEF y, z
<1>3. c \in Good(0)
  <2>1. m + 0 = m  OBVIOUS
  <2> QED  BY <2>1
<1> HIDE DEF Good, w
<1>4. Steps(0, n, Ctx, T, c, go)
  <2>1. 0 \in Int /\ n \in Int  OBVIOUS
  <2>2. \A k \in 0 .. n : T[k] \subseteq Ctx  BY DEF Good
  <2>3. 0 <= n => c \in T[0]  BY <1>3
  <2>4. \A k \in 0 + 1 .. n : go[k] \in [T[k - 1] -> T[k]]
    <3>1. \A k \in 0 + 1 .. n : k \in 1 .. n /\ T[k - 1] = Good(k - 1) /\ T[k] = Good(k)
      OBVIOUS
    <3> HIDE DEF T
    <3>2. \A k \in 0 + 1 .. n : go[k] \in [Good(k - 1) -> Good(k)]  BY <1>2, <3>1
    <3> HIDE DEF go
    <3> QED  BY <3>1, <3>2
  <2> HIDE DEF T, go
  <2> QED  BY <2>1, <2>2, <2>3, <2>4 DEF Steps
<1>5. PICK g : Iterates(g, 0, n, Ctx, T, c, go)
  <2> HIDE DEF T, go
  <2> QED  BY <1>4, StepFunction
<1>6. \A k \in 0 .. n : g[k] = IF k = 0 THEN c ELSE Fl!AddWord(g[k - 1], w(k))
  <2>1. \A k \in 0 .. n : g[k] \in T[k] /\ g[k] = IF k = 0 THEN c ELSE go[k][g[k - 1]]
    <3> HIDE DEF T, go
    <3> QED  BY <1>5 DEF Iterates
  <2>2. \A k \in 0 .. n : k # 0 => k - 1 \in 0 .. n /\ k \in 0 + 1 .. n /\ T[k - 1] = Good(k - 1)
    OBVIOUS
  <2>3. \A k \in 0 .. n : k # 0 => k \in 0 + 1 .. n /\ g[k - 1] \in Good(k - 1)
    <3> HIDE DEF T, go
    <3> QED  BY <2>1, <2>2
  <2>4. \A k \in 0 .. n : k # 0 => go[k][g[k - 1]] = Fl!AddWord(g[k - 1], w(k))  BY <2>3
  <2> HIDE DEF go, T
  <2> QED  BY <2>1, <2>4
<1>7. g = [k \in 0 .. len |->
             IF k = 0 THEN c
             ELSE Fl!AddWord(g[k - 1], Fl!Word16(d[i + 2 * (k - 1)], d[i + 2 * (k - 1) + 1]))]
  <2>1. g \in [0 .. len -> Ctx]  BY <1>0, <1>5 DEF Iterates
  <2>2. g = [k \in 0 .. len |-> IF k = 0 THEN c ELSE Fl!AddWord(g[k - 1], w(k))]
    BY <1>0, <1>6, <2>1
  <2> QED  BY Zenon, <2>2 DEF w
<1>8. after = [k \in 0 .. len |->
                 IF k = 0 THEN c
                 ELSE Fl!AddWord(after[k - 1],
                                 Fl!Word16(d[i + 2 * (k - 1)], d[i + 2 * (k - 1) + 1]))]
  BY Zenon, <1>7
<1>9. \A k \in 0 .. len : after[k] = IF k = 0 THEN c ELSE Fl!AddWord(after[k - 1], w(k))
  <2> HIDE DEF after
  <2> QED  BY Zenon, <1>8 DEF w
<1> HIDE DEF after, T, go
<1>10. after[n] \in Good(n)
  <2> DEFINE M == {k \in Int : after[k] \in Good(k)}
  <2>0. 0 \in Int /\ n \in Int /\ 0 \in 0 .. n  OBVIOUS
  <2>1. 0 \in M  BY <1>0, <1>3, <1>9, <2>0
  <2>2. ASSUME NEW k \in 0 .. n - 1, k \in M  PROVE k + 1 \in M
    <3>1. k + 1 \in 1 .. n /\ k + 1 \in 0 .. n /\ k + 1 # 0 /\ (k + 1) - 1 = k /\ k + 1 \in Int
      OBVIOUS
    <3>2. after[k + 1] = Fl!AddWord(after[k], w(k + 1))  BY <1>0, <1>9, <3>1
    <3>3. after[k] \in Good((k + 1) - 1)  BY <2>2, <3>1
    <3> QED  BY <1>2, <3>1, <3>2, <3>3
  <2> HIDE DEF M
  <2>3. \A k \in 0 .. n : k \in M  BY <2>0, <2>1, <2>2, IntervalInduction
  <2>4. n \in M  BY <2>3
  <2> QED  BY <2>4 DEF M
<1>11. after[n] \in Ctx /\ Summed(after[n], msg, m + n)
       /\ after[n].have_low = c.have_low /\ after[n].low = c.low
  BY <1>10 DEF Good
<1> DEFINE x == after[n]
<1>12. Fl!Pairs(c, d, i) = WithLast(x, d, i)
  BY Zenon, <1>0, <1>1
<1>13. x \in Ctx /\ Summed(x, msg, m + n) /\ x.have_low = c.have_low /\ x.low = c.low
  BY Zenon, <1>11
<1> HIDE DEF x
<1> QED  BY Zenon, <1>12, <1>13 DEF Ends

\* A context after the bytes of msg: the sums of its whole words, and the byte
\* that waits for its pair.
Held(c, msg) ==
    /\ c \in Ctx
    /\ \E m \in Nat : Summed(c, msg, m) /\ Len(msg) = 2 * m + (IF c.have_low THEN 1 ELSE 0)
    /\ c.have_low => c.low = msg[Len(msg)]

LEMMA HeldPairs ==
    ASSUME NEW msg, Len(msg) \in Nat, NEW d \in Seq(Fl!Byte), NEW i \in 1 .. 2, NEW c \in Ctx,
           ~c.have_low, NEW m \in Nat, Summed(c, msg, m), i - 1 <= Len(d),
           Len(msg) = 2 * m + (Len(d) - i + 1),
           \A j \in i .. Len(d) : d[j] = msg[2 * m + (j - i + 1)]
    PROVE  Held(Fl!Pairs(c, d, i), msg)
<1> DEFINE left == Len(d) - i + 1
           n == WordsLeft(d, i)
           r == Fl!Pairs(c, d, i)
<1>0. left \in Nat /\ Len(d) \in Nat  OBVIOUS
<1>1. /\ n \in Nat
      /\ left % 2 = 0 => left = 2 * n
      /\ left % 2 # 0 => left = 2 * n + 1
  <2>1. n = left \div 2  BY Zenon DEF WordsLeft
  <2> HIDE DEF left, n
  <2> QED  BY <1>0, <2>1, Halves
<1>2. PICK x \in Ctx :
        /\ Summed(x, msg, m + n) /\ x.have_low = c.have_low /\ x.low = c.low
        /\ Fl!Pairs(c, d, i) = WithLast(x, d, i)
  <2>1. n = WordsLeft(d, i) /\ n \in Nat  BY <1>1
  <2> HIDE DEF n, left, r
  <2>2. Ends(c, d, i, msg, m + n)  BY <2>1, PairSums
  <2> QED  BY Zenon, <2>2 DEF Ends
<1>a. r = IF left % 2 = 0 THEN x
          ELSE [s1 |-> x.s1, s2 |-> x.s2, have_low |-> TRUE, low |-> d[Len(d)]]
  BY Zenon, <1>2 DEF WithLast
<1>b. left = Len(d) - i + 1  OBVIOUS
<1> HIDE DEF n, r, left
<1>3. CASE left % 2 = 0
  <2>1. r = x /\ ~r.have_low  BY <1>2, <1>a, <1>3
  <2>3. m + n \in Nat /\ Len(msg) = 2 * (m + n) + 0
    <3>1. left = 2 * n /\ n \in Nat  BY <1>1, <1>3
    <3>2. Len(msg) = 2 * m + left  BY <1>b
    <3> QED  BY <3>1, <3>2
  <2>2. Held(r, msg)  BY <1>2, <2>1, <2>3 DEF Held
  <2> QED  BY <2>2 DEF r
<1>4. CASE left % 2 # 0
  <2>1. /\ m + n \in Nat /\ Len(msg) = 2 * (m + n) + 1
        /\ Len(d) \in i .. Len(d) /\ Len(d) \in 1 .. Len(d)
        /\ 2 * m + (Len(d) - i + 1) = Len(msg)
    <3>1. left = 2 * n + 1 /\ n \in Nat  BY <1>1, <1>4
    <3>2. Len(msg) = 2 * m + left  BY <1>b
    <3> QED  BY <3>1, <3>2, <1>0, <1>b
  <2>2. d[Len(d)] = msg[Len(msg)] /\ d[Len(d)] \in Fl!Byte  BY <2>1
  <2>3. r = [s1 |-> x.s1, s2 |-> x.s2, have_low |-> TRUE, low |-> d[Len(d)]]
    BY <1>a, <1>4
  <2>4. r \in Ctx /\ r.have_low /\ r.low = msg[Len(msg)] /\ r.s1 = x.s1 /\ r.s2 = x.s2
    BY <1>2, <2>2, <2>3 DEF Ctx
  <2> DEFINE q == m + n
  <2>5. q \in Nat /\ Summed(x, msg, q)  BY <1>2, <2>1
  <2> HIDE DEF q
  <2>6. Summed(r, msg, q)  BY <2>4, <2>5, SummedSame
  <2>7. Len(msg) = 2 * q + 1  BY <2>1 DEF q
  <2>8. Held(r, msg)  BY <2>4, <2>5, <2>6, <2>7 DEF Held
  <2> QED  BY <2>8 DEF r
<1> QED  BY <1>3, <1>4

\* An update of any length takes its bytes, after one that waited.
LEMMA HeldUpdate ==
    ASSUME NEW msg \in Seq(Fl!Byte), NEW d \in Seq(Fl!Byte), NEW c, Held(c, msg)
    PROVE  Held(Fl!fletcher32_update(c, d), msg \o d)
<1> DEFINE more == msg \o d
<1>1. /\ more \in Seq(Fl!Byte) /\ Len(more) = Len(msg) + Len(d)
      /\ \A i \in 1 .. Len(msg) : more[i] = msg[i]
      /\ \A i \in 1 .. Len(d) : more[Len(msg) + i] = d[i]
      /\ Len(msg) \in Nat /\ Len(d) \in Nat
  OBVIOUS
<1>2. c \in Ctx /\ (c.have_low => c.low = msg[Len(msg)])  BY DEF Held
<1>3. PICK m \in Nat : Summed(c, msg, m) /\ Len(msg) = 2 * m + (IF c.have_low THEN 1 ELSE 0)
  BY DEF Held
<1> HIDE DEF more
<1>4. Summed(c, more, m)
  <2>1. \A i \in 1 .. 2 * m : i \in 1 .. Len(msg)  BY <1>1, <1>3
  <2>2. \A i \in 1 .. 2 * m : more[i] = msg[i]  BY <1>1, <2>1
  <2> QED  BY <1>3, <2>2, SummedSame
<1>5. CASE c.have_low /\ Len(d) > 0
  <2> DEFINE w == Fl!Word16(c.low, d[1])
             a == Fl!AddWord(c, w)
             b == Fl!Complete(c, d[1])
             two == 2
  <2>1. Len(msg) = 2 * m + 1 /\ 2 * (m + 1) - 1 = Len(msg) /\ 2 * (m + 1) = Len(msg) + 1
        /\ Len(msg) \in 1 .. Len(msg) /\ 1 \in 1 .. Len(d)
    BY <1>1, <1>3, <1>5
  <2>2. w = WordAt(more, m + 1)
    <3>1. more[Len(msg)] = c.low /\ more[Len(msg) + 1] = d[1]  BY <1>1, <1>2, <1>5, <2>1
    <3> QED  BY <2>1, <3>1 DEF WordAt
  <2>3. w \in Nat
    <3>1. c.low \in Fl!Byte /\ d[1] \in Fl!Byte  BY <1>2, <2>1 DEF Ctx
    <3> QED  BY <3>1, WordType
  <2>4. b = [a EXCEPT !.have_low = FALSE]  BY Zenon DEF Fl!Complete
  <2> HIDE DEF w
  <2>5. a \in Ctx /\ Summed(a, more, m + 1)  BY <1>2, <1>4, <2>2, <2>3, SummedWord
  <2> HIDE DEF a, b
  <2>6. b \in Ctx /\ ~b.have_low /\ b.s1 = a.s1 /\ b.s2 = a.s2
    BY <2>4, <2>5 DEF Ctx
  <2> DEFINE q == m + 1
  <2>7. q \in Nat /\ Summed(b, more, q)
    <3>1. q \in Nat /\ Summed(a, more, q)  BY <2>5
    <3> HIDE DEF q
    <3> QED  BY <2>6, <3>1, SummedSame
  <2>8. /\ two \in 1 .. 2 /\ two - 1 <= Len(d)
        /\ Len(more) \in Nat /\ Len(more) = 2 * q + (Len(d) - two + 1)
        /\ \A j \in two .. Len(d) : j \in 1 .. Len(d) /\ 2 * q + (j - two + 1) = Len(msg) + j
    BY <1>1, <1>5, <2>1
  <2>9. \A j \in two .. Len(d) : d[j] = more[2 * q + (j - two + 1)]  BY <1>1, <2>8
  <2> HIDE DEF q, two
  <2>10. Held(Fl!Pairs(b, d, two), more)  BY <2>6, <2>7, <2>8, <2>9, HeldPairs
  <2>11. Fl!fletcher32_update(c, d) = Fl!Pairs(b, d, two)
    BY Zenon, <1>5 DEF Fl!fletcher32_update, b, two
  <2> QED  BY <2>10, <2>11 DEF more
<1>6. CASE ~c.have_low
  <2> DEFINE one == 1
  <2>1. /\ one \in 1 .. 2 /\ one - 1 <= Len(d)
        /\ Len(more) \in Nat /\ Len(more) = 2 * m + (Len(d) - one + 1)
        /\ \A j \in one .. Len(d) : j \in 1 .. Len(d) /\ 2 * m + (j - one + 1) = Len(msg) + j
    BY <1>1, <1>3, <1>6
  <2>2. \A j \in one .. Len(d) : d[j] = more[2 * m + (j - one + 1)]  BY <1>1, <2>1
  <2>3. Fl!fletcher32_update(c, d) = Fl!Pairs(c, d, one)
    BY Zenon, <1>6 DEF Fl!fletcher32_update, one
  <2> HIDE DEF one
  <2>4. Held(Fl!Pairs(c, d, one), more)  BY <1>2, <1>4, <1>6, <2>1, <2>2, HeldPairs
  <2> QED  BY <2>3, <2>4 DEF more
\* Nothing to add: what waits goes on waiting.
<1>7. CASE c.have_low /\ ~(Len(d) > 0)
  <2> DEFINE one == 1
             zero == 0
  <2>0. Len(d) = 0  BY <1>1, <1>7
  <2>1. /\ one \in 1 .. 2 /\ one - 1 <= Len(d) /\ zero \in Nat
        /\ Len(d) - one + 1 = 0 /\ Len(more) = Len(msg) /\ m + zero = m
    BY <1>1, <2>0
  <2>2. \A j \in one .. Len(d) : d[j] = more[2 * m + (j - one + 1)]  BY <2>0
  <2>a. 0 \div 2 = 0 /\ 0 % 2 = 0  OBVIOUS
  <2>b. zero = WordsLeft(d, one) /\ \A x : WithLast(x, d, one) = x
    <3>1. Len(d) - one + 1 = 0  BY <2>1
    <3> HIDE DEF one
    <3> QED  BY <3>1, <2>a DEF WordsLeft, WithLast
  <2>3. Fl!fletcher32_update(c, d) = Fl!Pairs(c, d, one)
    BY Zenon, <1>7 DEF Fl!fletcher32_update, one
  <2> HIDE DEF one, zero
  <2>4. PICK x \in Ctx :
          /\ Summed(x, more, m + zero) /\ x.have_low = c.have_low /\ x.low = c.low
          /\ Fl!Pairs(c, d, one) = WithLast(x, d, one)
    <3>1. Ends(c, d, one, more, m + zero)  BY <1>2, <1>4, <2>1, <2>2, <2>b, PairSums
    <3> QED  BY Zenon, <3>1 DEF Ends
  <2>5. Fl!Pairs(c, d, one) = x /\ Summed(x, more, m)  BY <2>1, <2>4, <2>b
  <2>6. Len(msg) \in 1 .. Len(msg) /\ Len(more) = 2 * m + 1  BY <1>1, <1>3, <1>7, <2>1
  <2>7. x.low = more[Len(more)]
    <3>1. more[Len(msg)] = msg[Len(msg)]  BY <1>1, <2>6
    <3> QED  BY <3>1, <2>1, <2>4, <1>2, <1>7
  <2>8. Held(x, more)  BY <2>4, <2>5, <2>6, <2>7, <1>7 DEF Held
  <2> QED  BY <2>3, <2>5, <2>8 DEF more
<1> QED  BY <1>5, <1>6, <1>7

LEMMA Distributes ==
    ASSUME NEW a \in Int, NEW b \in Int, NEW w \in Int
    PROVE  /\ a * (b + w) = a * b + a * w
           /\ (a - 1) * (b + w) = a * (b + w) - (b + w)
OBVIOUS

\* The sums of the sums weigh every word by the number of sums it is in.
LEMMA Totals ==
    ASSUME NEW msg \in Seq(Fl!Byte), NEW padded, NEW m \in Nat, NEW c, Summed(c, padded, m),
           padded = IF Len(msg) % 2 = 0 THEN msg ELSE Append(msg, 0),
           Len(padded) = 2 * m
    PROVE  Fl!Fletcher32(msg) = <<c.s2, c.s1>>
<1>1. PICK U, V \in [0 .. m -> Nat] :
        IsSums(U, V, padded, m) /\ c.s1 = U[m] % Fl!M /\ c.s2 = V[m] % Fl!M
  BY DEF Summed
<1> DEFINE w == Fl!Words(msg)
           n == Len(w)
           total[i \in 0 .. n] == IF i = 0 THEN 0 ELSE total[i - 1] + w[i]
           weighted[i \in 0 .. n] ==
             IF i = 0 THEN 0 ELSE weighted[i - 1] + (n - i + 1) * w[i]
           half == Len(padded) \div 2
<1>2. Fl!Fletcher32(msg) = <<weighted[n] % Fl!M, total[n] % Fl!M>>
  BY Zenon DEF Fl!Fletcher32
<1>3. w = [i \in 1 .. half |-> Fl!Word16(padded[2 * i - 1], padded[2 * i])]
  BY Zenon DEF Fl!Words
<1>4. half = m  BY Halves
<1> HIDE DEF w, half
<1>5. n = m /\ \A i \in 1 .. m : w[i] = WordAt(padded, i)  BY <1>3, <1>4, SMTT(40), ZenonT(60) DEF WordAt
<1>6. /\ U[0] = 0 /\ V[0] = 0
      /\ \A i \in 1 .. m : U[i] = U[i - 1] + w[i] /\ V[i] = V[i - 1] + U[i]
  BY <1>1, <1>5 DEF IsSums
<1> HIDE DEF n
<1>7. total = [i \in 0 .. n |-> IF i = 0 THEN 0 ELSE total[i - 1] + w[i]]
  <2>1. U = [i \in 0 .. n |-> IF i = 0 THEN 0 ELSE U[i - 1] + w[i]]
    <3>1. \A i \in 0 .. m : i # 0 => i \in 1 .. m  OBVIOUS
    <3>2. \A i \in 0 .. m : U[i] = IF i = 0 THEN 0 ELSE U[i - 1] + w[i]  BY <1>6, <3>1
    <3>3. U = [i \in 0 .. m |-> U[i]]  BY <1>1
    <3> QED  BY <1>5, <3>2, <3>3
  <2> QED  BY Zenon, <2>1
<1> DEFINE g == [i \in 0 .. m |-> V[i] + (m - i) * U[i]]
<1>8. /\ g[0] = 0 /\ g[m] = V[m]
      /\ \A i \in 1 .. m : g[i] = g[i - 1] + (m - i + 1) * w[i]
  <2>1. \A i \in 0 .. m : U[i] \in Nat /\ V[i] \in Nat  BY <1>1
  <2>2. g[0] = 0
    <3>1. g[0] = V[0] + (m - 0) * U[0] /\ (m - 0) * 0 = 0  OBVIOUS
    <3> QED  BY <3>1, <1>6
  <2>3. g[m] = V[m]
    <3>1. g[m] = V[m] + (m - m) * U[m] /\ m - m = 0 /\ 0 * U[m] = 0 /\ V[m] \in Nat  BY <2>1
    <3> QED  BY <3>1
  <2>4. ASSUME NEW i \in 1 .. m  PROVE g[i] = g[i - 1] + (m - i + 1) * w[i]
    <3> DEFINE a == m - i + 1
               b == U[i - 1]
               x == w[i]
               v == V[i - 1]
    <3>1. i \in 0 .. m /\ i - 1 \in 0 .. m /\ a \in Int /\ m - i = a - 1 /\ m - (i - 1) = a
      OBVIOUS
    <3>2. g[i] = V[i] + (m - i) * U[i] /\ g[i - 1] = V[i - 1] + (m - (i - 1)) * U[i - 1]
      BY <3>1
    <3>3. b \in Nat /\ v \in Nat /\ U[i] \in Nat /\ U[i] = b + x /\ V[i] = v + U[i]
      BY <2>1, <3>1, <1>6
    <3>4. x \in Int
      <4>1. padded \in Seq(Fl!Byte)  BY FlConstants
      <4>2. 2 * i - 1 \in 1 .. Len(padded) /\ 2 * i \in 1 .. Len(padded)  BY SMTT(40), ZenonT(60)
      <4>3. padded[2 * i - 1] \in Fl!Byte /\ padded[2 * i] \in Fl!Byte  BY <4>1, <4>2, SMTT(40), ZenonT(60)
      <4>4. WordAt(padded, i) \in Nat  BY <4>3, WordType DEF WordAt
      <4> QED  BY <4>4, <1>5, SMTT(40), ZenonT(60)
    <3> HIDE DEF g, a, b, x, v
    <3>5. g[i] = (v + (b + x)) + (a - 1) * (b + x) /\ g[i - 1] = v + a * b
      BY <3>1, <3>2, <3>3 DEF b, v
    <3>6. a * (b + x) = a * b + a * x /\ (a - 1) * (b + x) = a * (b + x) - (b + x)
      BY <3>1, <3>3, <3>4, Distributes
    <3>7. a * b \in Int /\ a * x \in Int /\ a * (b + x) \in Int  BY <3>1, <3>3, <3>4
    <3>8. g[i] = g[i - 1] + a * x
      <4> DEFINE ab == a * b
                 ax == a * x
                 at == a * (b + x)
      <4>1. /\ ab \in Int /\ ax \in Int /\ at \in Int /\ at = ab + ax
            /\ g[i] = (v + (b + x)) + (at - (b + x)) /\ g[i - 1] = v + ab
        BY <3>5, <3>6, <3>7
      <4> HIDE DEF ab, ax, at
      <4>2. g[i] = g[i - 1] + ax  BY <4>1, <3>3, <3>4
      <4> QED  BY <4>2 DEF ax
    <3> QED  BY <3>8 DEF a, x
  <2> HIDE DEF g
  <2> QED  BY <2>2, <2>3, <2>4
<1>9. weighted = [i \in 0 .. n |-> IF i = 0 THEN 0 ELSE weighted[i - 1] + (n - i + 1) * w[i]]
  <2>1. g = [i \in 0 .. n |-> IF i = 0 THEN 0 ELSE g[i - 1] + (n - i + 1) * w[i]]
    <3>1. \A i \in 0 .. m : i # 0 => i \in 1 .. m  OBVIOUS
    <3>3. g = [i \in 0 .. m |-> g[i]]  OBVIOUS
    <3> HIDE DEF g
    <3>2. \A i \in 0 .. m : g[i] = IF i = 0 THEN 0 ELSE g[i - 1] + (m - i + 1) * w[i]
      BY <1>8, <3>1
    <3> QED  BY <1>5, <3>2, <3>3
  <2> QED  BY Zenon, <2>1
<1> HIDE DEF total, weighted, g
<1>10. total[m] = U[m] /\ weighted[m] = g[m]
  <2> DEFINE M == {i \in Int : total[i] = U[i] /\ weighted[i] = g[i]}
  <2>0. 0 \in Int /\ m \in Int /\ 0 \in 0 .. m  OBVIOUS
  <2>1. 0 \in M  BY <2>0, <1>5, <1>6, <1>7, <1>8, <1>9
  <2>2. ASSUME NEW i \in 0 .. m - 1, i \in M  PROVE i + 1 \in M
    <3>1. i + 1 \in 1 .. m /\ i + 1 \in 0 .. m /\ i + 1 # 0 /\ (i + 1) - 1 = i /\ i + 1 \in Int
      OBVIOUS
    <3>2. total[i + 1] = total[i] + w[i + 1]  BY <1>5, <1>7, <3>1
    <3>3. weighted[i + 1] = weighted[i] + (m - (i + 1) + 1) * w[i + 1]  BY <1>5, <1>9, <3>1
    <3>4. U[i + 1] = U[i] + w[i + 1] /\ g[i + 1] = g[i] + (m - (i + 1) + 1) * w[i + 1]
      BY <1>6, <1>8, <3>1
    <3> QED  BY <2>2, <3>1, <3>2, <3>3, <3>4
  <2> HIDE DEF M
  <2>3. \A i \in 0 .. m : i \in M  BY <2>0, <2>1, <2>2, IntervalInduction
  <2>4. m \in M  BY <2>3
  <2> QED  BY <2>4 DEF M
<1> QED  BY <1>1, <1>2, <1>5, <1>8, <1>10

\* A byte that waited to the end is the last word's low one.
LEMMA FlFinal ==
    ASSUME NEW msg \in Seq(Fl!Byte), NEW c, Held(c, msg)
    PROVE  Fl!fletcher32_final(c) = Fl!Fletcher32(msg)
<1> DEFINE padded == IF Len(msg) % 2 = 0 THEN msg ELSE Append(msg, 0)
<1>1. c \in Ctx /\ (c.have_low => c.low = msg[Len(msg)]) /\ Len(msg) \in Nat  BY DEF Held
<1>2. PICK m \in Nat : Summed(c, msg, m) /\ Len(msg) = 2 * m + (IF c.have_low THEN 1 ELSE 0)
  BY DEF Held
<1>3. CASE ~c.have_low
  <2>1. Fl!fletcher32_final(c) = <<c.s2, c.s1>>  BY Zenon, <1>3 DEF Fl!fletcher32_final
  <2>2. Len(msg) = 2 * m  BY <1>2, <1>3
  <2>3. padded = msg /\ Len(padded) = 2 * m  BY <2>2
  <2>4. padded = IF Len(msg) % 2 = 0 THEN msg ELSE Append(msg, 0)  OBVIOUS
  <2> HIDE DEF padded
  <2>5. Fl!Fletcher32(msg) = <<c.s2, c.s1>>  BY <1>2, <2>3, <2>4, Totals
  <2> QED  BY <2>1, <2>5
<1>4. CASE c.have_low
  <2> DEFINE a == Fl!AddWord(c, c.low)
             b == [a EXCEPT !.have_low = FALSE]
             q == m + 1
             x == c.low
  <2>1. Len(msg) = 2 * m + 1 /\ Len(msg) \in 1 .. Len(msg) /\ q \in Nat
        /\ 2 * q - 1 = Len(msg) /\ 2 * q = Len(msg) + 1
    BY <1>2, <1>4
  <2>2. padded = Append(msg, 0) /\ Len(padded) = 2 * q
    <3>1. Len(msg) % 2 # 0  BY <2>1
    <3> QED  BY <2>1, <3>1
  <2>3. padded = IF Len(msg) % 2 = 0 THEN msg ELSE Append(msg, 0)  OBVIOUS
  <2> HIDE DEF padded
  <2>4. /\ \A i \in 1 .. Len(msg) : padded[i] = msg[i]
        /\ padded[Len(msg) + 1] = 0
    BY <2>2
  <2>5. Summed(c, padded, m)
    <3>1. \A i \in 1 .. 2 * m : i \in 1 .. Len(msg)  BY <2>1
    <3>2. \A i \in 1 .. 2 * m : padded[i] = msg[i]  BY <2>4, <3>1
    <3> QED  BY <1>2, <3>2, SummedSame
  <2>6. x \in Nat /\ x = WordAt(padded, q)
    <3>1. x \in Fl!Byte  BY <1>1 DEF Ctx
    <3>2. x \in Nat  BY <3>1, FlConstants DEF Fl!Byte
    <3>3. padded[2 * q - 1] = x /\ padded[2 * q] = 0  BY <2>1, <2>4, <1>1, <1>4
    <3> HIDE DEF x
    <3>4. Fl!Word16(x, 0) = x
      <4>1. ByteValues * 0 = 0  BY FlConstants
      <4> QED  BY <3>2, <4>1 DEF Fl!Word16
    <3> QED  BY <3>2, <3>3, <3>4 DEF WordAt
  <2> HIDE DEF x
  <2>7. Fl!AddWord(c, x) \in Ctx /\ Summed(Fl!AddWord(c, x), padded, m + 1)
    <3>1. x = WordAt(padded, m + 1)  BY <2>6
    <3> QED  BY <1>1, <2>5, <2>6, <3>1, SummedWord
  <2>8. a \in Ctx /\ Summed(a, padded, q)  BY <2>7 DEF x
  <2> HIDE DEF a, q
  <2>9. b.s1 = a.s1 /\ b.s2 = a.s2  BY <2>8 DEF Ctx
  <2>10. Fl!fletcher32_final(c) = <<b.s2, b.s1>>  BY Zenon, <1>4 DEF Fl!fletcher32_final, a
  <2> HIDE DEF b
  <2>11. Fl!Fletcher32(msg) = <<a.s2, a.s1>>  BY <2>1, <2>2, <2>3, <2>8, Totals
  <2> QED  BY <2>9, <2>10, <2>11
<1> QED  BY <1>3, <1>4

FlInv ==
    /\ given \in Seq(Fl!Byte) /\ Len(given) <= Longest.fletcher
    /\ Held(context, given)
    /\ Fl!ChecksumOfWhole

LEMMA HeldNothing == Held(Fl!Fresh, <<>>)
<1> DEFINE c == Fl!Fresh
           zero == 0
           Z == [i \in 0 .. zero |-> 0]
<1>1. c.s1 = 0 /\ c.s2 = 0 /\ c.have_low = FALSE /\ c.low = 0 /\ c \in Ctx
  <2>1. 0 \in 0 .. Fl!M - 1 /\ 0 \in Fl!Byte  BY FlConstants
  <2> QED  BY <2>1 DEF Fl!Fresh, Ctx
<1>2. Z \in [0 .. zero -> Nat] /\ Z[0] = 0 /\ 1 .. zero = {} /\ zero \in Nat /\ Z[zero] = 0
  OBVIOUS
<1>3. 0 % Fl!M = 0
  <2>1. 0 \in 0 .. Fl!M - 1  BY FlConstants
  <2> QED  BY <2>1, FlConstants, ModSmall
<1> HIDE DEF c, zero, Z
<1>4. IsSums(Z, Z, <<>>, zero)  BY <1>2 DEF IsSums
<1>5. Summed(c, <<>>, zero)
  <2>1. c.s1 = Z[zero] % Fl!M /\ c.s2 = Z[zero] % Fl!M  BY <1>1, <1>2, <1>3
  <2> QED  BY <1>2, <1>4, <2>1 DEF Summed
<1>6. Len(<<>>) = 2 * zero + 0  BY DEF zero
<1> QED  BY <1>1, <1>2, <1>5, <1>6 DEF Held, c

LEMMA FlAlways == Fl!Spec => []FlInv
<1>1. Fl!Init => FlInv
  <2> SUFFICES ASSUME Fl!Init PROVE FlInv  OBVIOUS
  <2>1. context = Fl!Fresh /\ given = <<>> /\ answer = Fl!NoDigest  BY DEF Fl!Init
  <2>2. given \in Seq(Fl!Byte) /\ Len(given) <= Longest.fletcher  BY <2>1, FlConstants
  <2> QED  BY <2>1, <2>2, HeldNothing DEF FlInv, Fl!ChecksumOfWhole
<1>2. FlInv /\ [Fl!Next]_(Fl!vars) => FlInv'
  <2> SUFFICES ASSUME FlInv, [Fl!Next]_(Fl!vars) PROVE FlInv'  OBVIOUS
  <2>0. /\ given \in Seq(Fl!Byte) /\ Len(given) <= Longest.fletcher
        /\ Held(context, given) /\ Fl!ChecksumOfWhole
    BY DEF FlInv
  <2>1. CASE Fl!Finish
    <3>1. context' = context /\ given' = given /\ answer' = Fl!fletcher32_final(context)
      BY <2>1 DEF Fl!Finish
    <3>2. answer' = Fl!Fletcher32(given)  BY <2>0, <3>1, FlFinal
    <3> QED  BY <2>0, <3>1, <3>2 DEF FlInv, Fl!ChecksumOfWhole, Held
  <2>2. CASE Fl!Starts
    <3>1. context' = Fl!Fresh /\ given' = <<>> /\ answer' = Fl!NoDigest  BY <2>2 DEF Fl!Starts
    <3>2. given' \in Seq(Fl!Byte) /\ Len(given') <= Longest.fletcher  BY <3>1, FlConstants
    <3>3. Held(context', given')  BY <3>1, HeldNothing
    <3> QED  BY <3>1, <3>2, <3>3 DEF FlInv, Fl!ChecksumOfWhole, Held
  <2>3. ASSUME NEW k \in 0 .. Piece.fletcher, NEW d \in [1 .. k -> Fl!Byte], Fl!Update(d)
        PROVE  FlInv'
    <3>1. /\ Len(given) + Len(d) <= Longest.fletcher /\ answer' = Fl!NoDigest
          /\ context' = Fl!fletcher32_update(context, d) /\ given' = given \o d
      BY <2>3 DEF Fl!Update
    <3>2. d \in Seq(Fl!Byte)
      <4>1. k \in Nat  BY FlConstants
      <4> QED  BY <4>1, FunctionSeq
    <3>3. given' \in Seq(Fl!Byte) /\ Len(given') <= Longest.fletcher
      BY <2>0, <3>1, <3>2
    <3>4. Held(context', given')  BY <2>0, <3>1, <3>2, HeldUpdate
    <3> QED  BY <3>1, <3>3, <3>4 DEF FlInv, Fl!ChecksumOfWhole, Held
  <2>4. CASE UNCHANGED Fl!vars
    BY <2>0, <2>4 DEF Fl!vars, FlInv, Fl!ChecksumOfWhole, Held
  <2> QED  BY <2>1, <2>2, <2>3, <2>4 DEF Fl!Next
<1> QED  BY <1>1, <1>2, PTL DEF Fl!Spec

LEMMA FlAlone == AnySpec => [](machine # "fletcher") \/ Fl!Spec
<1>1. AnyInit => machine # "fletcher" \/ (machine = "fletcher" /\ Fl!Init)  BY DEF AnyInit
<1>2. machine # "fletcher" /\ [AnyNext]_allVars => (machine # "fletcher")'
  BY DEF AnyNext, allVars
<1>3. machine = "fletcher" /\ [AnyNext]_allVars => (machine = "fletcher")' /\ [Fl!Next]_(Fl!vars)
  BY DEF AnyNext, allVars, otherVars, Fl!vars
<1> QED  BY <1>1, <1>2, <1>3, PTL DEF AnySpec, Fl!Spec

LEMMA FlRuns == AnySpec => [](machine = "fletcher" => FlInv)
<1>1. machine # "fletcher" => (machine = "fletcher" => FlInv)  OBVIOUS
<1> QED  BY <1>1, FlAlways, FlAlone, PTL

LEMMA FlTyped == FlInv => Fl!TypeOK
<1> SUFFICES ASSUME FlInv PROVE Fl!TypeOK  OBVIOUS
<1>1. context \in Ctx /\ given \in Seq(Fl!Byte) /\ Len(given) <= Longest.fletcher
  BY DEF FlInv, Held
<1> QED  BY <1>1 DEF Ctx, Fl!TypeOK

\* A byte waits for its pair exactly when an odd number has been taken, across
\* updates of any lengths, and the two sums, reduced at every word, are those of
\* the whole message as a formula: the sum of the words, and the sum of the
\* words each weighted by its distance from the end.
THEOREM FletcherSums == AnySpec => []FletcherOfWhole
<1>1. FlInv => Fl!LowWaits /\ Fl!ChecksumOfWhole
  <2> SUFFICES ASSUME FlInv PROVE Fl!LowWaits /\ Fl!ChecksumOfWhole  OBVIOUS
  <2>1. Held(context, given) /\ Fl!ChecksumOfWhole  BY DEF FlInv
  <2>2. context.have_low \in BOOLEAN  BY <2>1 DEF Held, Ctx
  <2>3. PICK m \in Nat : Len(given) = 2 * m + (IF context.have_low THEN 1 ELSE 0)
    BY <2>1 DEF Held
  <2>4. context.have_low => Len(given) % 2 = 1
    <3> SUFFICES ASSUME context.have_low PROVE Len(given) % 2 = 1  OBVIOUS
    <3>1. Len(given) = 2 * m + 1  BY <2>3
    <3>2. (2 * m + 1) % 2 = 1  OBVIOUS
    <3> QED  BY <3>1, <3>2
  <2>5. ~context.have_low => Len(given) % 2 # 1
    <3> SUFFICES ASSUME ~context.have_low PROVE Len(given) % 2 # 1  OBVIOUS
    <3>1. Len(given) = 2 * m  BY <2>3
    <3>2. (2 * m) % 2 = 0  OBVIOUS
    <3> QED  BY <3>1, <3>2
  <2>6. context.have_low => context.low = given[Len(given)]  BY <2>1 DEF Held
  <2> QED  BY Zenon, <2>1, <2>2, <2>4, <2>5, <2>6 DEF Fl!LowWaits
<1>2. (machine = "fletcher" => Fl!LowWaits /\ Fl!ChecksumOfWhole) => FletcherOfWhole
  BY DEF FletcherOfWhole
<1> QED  BY <1>1, <1>2, FlRuns, PTL

-----------------------------------------------------------------------------
(* CRC: registers are a vector space *)

Register == Cr!Register
Xor(a, b) == Cr!Xor(a, b)
ZeroWord == Cr!ZeroWord

LEMMA BitXor ==
    \A a, b \in 0 .. 1 : (a + b) % 2 \in 0 .. 1 /\ (a + b) % 2 = IF a = b THEN 0 ELSE 1
OBVIOUS

LEMMA RegisterIs ==
    /\ \A b1, b2, b3, b4 \in 0 .. 1 : <<b1, b2, b3, b4>> \in Register
    /\ \A r \in Register : \E b1, b2, b3, b4 \in 0 .. 1 : r = <<b1, b2, b3, b4>>
BY DEF Register, Cr!Register, Cr!Bit

LEMMA XorIs ==
    ASSUME NEW a1, NEW a2, NEW a3, NEW a4, NEW b1, NEW b2, NEW b3, NEW b4
    PROVE  Xor(<<a1, a2, a3, a4>>, <<b1, b2, b3, b4>>)
             = <<(a1 + b1) % 2, (a2 + b2) % 2, (a3 + b3) % 2, (a4 + b4) % 2>>
BY DEF Xor, Cr!Xor

\* A register is its bits.
LEMMA ByBits ==
    ASSUME NEW r \in Register
    PROVE  /\ r[1] \in 0 .. 1 /\ r[2] \in 0 .. 1 /\ r[3] \in 0 .. 1 /\ r[4] \in 0 .. 1
           /\ r = <<r[1], r[2], r[3], r[4]>>
<1>1. PICK b1, b2, b3, b4 \in 0 .. 1 : r = <<b1, b2, b3, b4>>  BY RegisterIs
<1> QED  BY <1>1

LEMMA XorType == \A a, b \in Register : Xor(a, b) \in Register
<1> TAKE a, b \in Register
<1>1. Xor(a, b) = <<(a[1] + b[1]) % 2, (a[2] + b[2]) % 2, (a[3] + b[3]) % 2, (a[4] + b[4]) % 2>>
  BY DEF Xor, Cr!Xor
<1> QED  BY <1>1, ByBits, BitXor, RegisterIs

\* Two registers with the same bits.
LEMMA SameBits ==
    ASSUME NEW a \in Register, NEW b \in Register,
           a[1] = b[1], a[2] = b[2], a[3] = b[3], a[4] = b[4]
    PROVE  a = b
<1>1. a = <<a[1], a[2], a[3], a[4]>>  BY ByBits
<1>2. b = <<b[1], b[2], b[3], b[4]>>  BY ByBits
<1> QED  BY <1>1, <1>2

LEMMA XorBits ==
    ASSUME NEW a \in Register, NEW b \in Register
    PROVE  /\ Xor(a, b)[1] = (IF a[1] = b[1] THEN 0 ELSE 1)
           /\ Xor(a, b)[2] = (IF a[2] = b[2] THEN 0 ELSE 1)
           /\ Xor(a, b)[3] = (IF a[3] = b[3] THEN 0 ELSE 1)
           /\ Xor(a, b)[4] = (IF a[4] = b[4] THEN 0 ELSE 1)
<1>1. Xor(a, b) = <<(a[1] + b[1]) % 2, (a[2] + b[2]) % 2, (a[3] + b[3]) % 2, (a[4] + b[4]) % 2>>
  BY DEF Xor, Cr!Xor
<1>2. /\ a[1] \in 0 .. 1 /\ a[2] \in 0 .. 1 /\ a[3] \in 0 .. 1 /\ a[4] \in 0 .. 1
      /\ b[1] \in 0 .. 1 /\ b[2] \in 0 .. 1 /\ b[3] \in 0 .. 1 /\ b[4] \in 0 .. 1
  BY ByBits
<1> QED  BY <1>1, <1>2, BitXor

\* Exclusive or is commutative and associative, and each register its own
\* inverse.
LEMMA XorRules ==
    /\ ZeroWord \in Register
    /\ \A a \in Register : Xor(a, ZeroWord) = a /\ Xor(ZeroWord, a) = a /\ Xor(a, a) = ZeroWord
    /\ \A a, b \in Register : Xor(a, b) = Xor(b, a)
    /\ \A a, b, c \in Register : Xor(Xor(a, b), c) = Xor(a, Xor(b, c))
<1>1. ZeroWord \in Register /\ ZeroWord = <<0, 0, 0, 0>>  BY RegisterIs DEF ZeroWord, Cr!ZeroWord
<1>2. ASSUME NEW a \in Register
      PROVE  Xor(a, ZeroWord) = a /\ Xor(ZeroWord, a) = a /\ Xor(a, a) = ZeroWord
  <2>1. /\ a[1] \in 0 .. 1 /\ a[2] \in 0 .. 1 /\ a[3] \in 0 .. 1 /\ a[4] \in 0 .. 1
    BY ByBits
  <2>2. /\ Xor(a, ZeroWord) \in Register /\ Xor(ZeroWord, a) \in Register /\ Xor(a, a) \in Register
    BY <1>1, XorType
  <2>3. /\ ZeroWord[1] = 0 /\ ZeroWord[2] = 0 /\ ZeroWord[3] = 0 /\ ZeroWord[4] = 0  BY <1>1
  <2>4. Xor(a, ZeroWord) = a  BY <2>1, <2>2, <2>3, <1>1, XorBits, SameBits
  <2>5. Xor(ZeroWord, a) = a  BY <2>1, <2>2, <2>3, <1>1, XorBits, SameBits
  <2>6. Xor(a, a) = ZeroWord  BY <2>2, <2>3, <1>1, XorBits, SameBits
  <2> QED  BY <2>4, <2>5, <2>6
<1>3. ASSUME NEW a \in Register, NEW b \in Register PROVE Xor(a, b) = Xor(b, a)
  <2>1. Xor(a, b) \in Register /\ Xor(b, a) \in Register  BY XorType
  <2> QED  BY <2>1, XorBits, SameBits
<1>4. ASSUME NEW a \in Register, NEW b \in Register, NEW c \in Register
      PROVE  Xor(Xor(a, b), c) = Xor(a, Xor(b, c))
  <2> DEFINE l == Xor(Xor(a, b), c)
             r == Xor(a, Xor(b, c))
  <2>1. /\ Xor(a, b) \in Register /\ Xor(b, c) \in Register /\ l \in Register /\ r \in Register
    BY XorType
  <2>2. /\ a[1] \in 0 .. 1 /\ a[2] \in 0 .. 1 /\ a[3] \in 0 .. 1 /\ a[4] \in 0 .. 1
        /\ b[1] \in 0 .. 1 /\ b[2] \in 0 .. 1 /\ b[3] \in 0 .. 1 /\ b[4] \in 0 .. 1
        /\ c[1] \in 0 .. 1 /\ c[2] \in 0 .. 1 /\ c[3] \in 0 .. 1 /\ c[4] \in 0 .. 1
    BY ByBits
  <2>3. \A x, y, z \in 0 .. 1 :
          (IF (IF x = y THEN 0 ELSE 1) = z THEN 0 ELSE 1) = (IF x = (IF y = z THEN 0 ELSE 1) THEN 0 ELSE 1)
    OBVIOUS
  <2>4. l[1] = r[1]  BY <2>1, <2>2, <2>3, XorBits
  <2>5. l[2] = r[2]  BY <2>1, <2>2, <2>3, XorBits
  <2>6. l[3] = r[3]  BY <2>1, <2>2, <2>3, XorBits
  <2>7. l[4] = r[4]  BY <2>1, <2>2, <2>3, XorBits
  <2> HIDE DEF l, r
  <2>8. l = r  BY <2>1, <2>4, <2>5, <2>6, <2>7, SameBits
  <2> QED  BY <2>8 DEF l, r
<1> QED  BY <1>1, <1>2, <1>3, <1>4

\* The two sums that occur: pairs exchanged, and what occurs twice gone.
LEMMA XorSwap ==
    ASSUME NEW a \in Register, NEW b \in Register, NEW c \in Register, NEW d \in Register
    PROVE  Xor(Xor(a, b), Xor(c, d)) = Xor(Xor(a, c), Xor(b, d))
<1>1. Xor(b, c) \in Register /\ Xor(c, d) \in Register /\ Xor(b, d) \in Register  BY XorType
<1>2. Xor(Xor(a, b), Xor(c, d)) = Xor(a, Xor(b, Xor(c, d)))  BY <1>1, XorRules
<1>3. Xor(b, Xor(c, d)) = Xor(Xor(b, c), d) /\ Xor(b, c) = Xor(c, b)  BY XorRules
<1>4. Xor(Xor(c, b), d) = Xor(c, Xor(b, d))  BY XorRules
<1>5. Xor(a, Xor(c, Xor(b, d))) = Xor(Xor(a, c), Xor(b, d))  BY <1>1, XorRules
<1> QED  BY <1>2, <1>3, <1>4, <1>5

-----------------------------------------------------------------------------
(* CRC: a byte is a linear map *)

\* The register after a zero byte, and a byte at the front of the register.
ZeroByte(c) == Cr!DO1(c, 0)
Front(b) == <<b, 0, 0, 0>>

LEMMA Table0Is ==
    ASSUME Cr!ConstantsFit
    PROVE  /\ Poly \in Register /\ Cr!Table0(0) = ZeroWord /\ Cr!Table0(1) = Poly
           /\ \A x \in 0 .. 1 : Cr!Table0(x) \in Register
<1>1. Poly \in Register
  <2>1. Poly \in [1 .. 4 -> 0 .. 1]  BY DEF Cr!ConstantsFit
  <2>2. /\ Poly[1] \in 0 .. 1 /\ Poly[2] \in 0 .. 1 /\ Poly[3] \in 0 .. 1 /\ Poly[4] \in 0 .. 1
    BY <2>1
  <2>3. Poly = <<Poly[1], Poly[2], Poly[3], Poly[4]>>  BY <2>1
  <2> QED  BY <2>2, <2>3, RegisterIs
<1>2. Cr!Table0(0) = ZeroWord /\ Cr!Table0(1) = Poly  BY DEF Cr!Table0, ZeroWord
<1> QED  BY <1>1, <1>2, XorRules

LEMMA ShiftRightIs ==
    ASSUME NEW c \in Register
    PROVE  /\ Cr!ShiftRight(c) \in Register
           /\ Cr!ShiftRight(c)[1] = c[2] /\ Cr!ShiftRight(c)[2] = c[3]
           /\ Cr!ShiftRight(c)[3] = c[4] /\ Cr!ShiftRight(c)[4] = 0
<1>1. Cr!ShiftRight(c) = <<c[2], c[3], c[4], 0>>  BY DEF Cr!ShiftRight
<1> QED  BY <1>1, ByBits, RegisterIs

LEMMA DO1Is ==
    ASSUME Cr!ConstantsFit, NEW c \in Register, NEW b \in 0 .. 1
    PROVE  /\ Cr!DO1(c, b) = Xor(Cr!Table0((c[1] + b) % 2), Cr!ShiftRight(c))
           /\ Cr!DO1(c, b) \in Register /\ ZeroByte(c) \in Register
<1>1. ASSUME NEW x \in 0 .. 1
      PROVE  /\ Cr!DO1(c, x) = Xor(Cr!Table0((c[1] + x) % 2), Cr!ShiftRight(c))
             /\ Cr!DO1(c, x) \in Register
  <2>1. Cr!DO1(c, x) = Xor(Cr!Table0((c[1] + x) % 2), Cr!ShiftRight(c))
    BY DEF Cr!DO1, Xor
  <2>2. (c[1] + x) % 2 \in 0 .. 1  BY ByBits, BitXor
  <2> QED  BY <2>1, <2>2, Table0Is, ShiftRightIs, XorType
<1> QED  BY <1>1 DEF ZeroByte

LEMMA AddByteIs ==
    ASSUME NEW c \in Register, NEW b \in 0 .. 1
    PROVE  Cr!AddByte[c][b] = Cr!DO1(c, b)
<1>1. c \in Cr!Register /\ b \in Cr!Bit  BY DEF Register, Cr!Bit
<1> QED  BY <1>1 DEF Cr!AddByte

LEMMA FrontIs ==
    /\ \A b \in 0 .. 1 : Front(b) \in Register /\ Front(b)[1] = b
    /\ Front(0) = ZeroWord
BY RegisterIs DEF Front, ZeroWord, Cr!ZeroWord

\* A byte goes into the front of the register, and then it is as if a zero came.
LEMMA Feed ==
    ASSUME Cr!ConstantsFit, NEW c \in Register, NEW b \in 0 .. 1
    PROVE  Cr!DO1(c, b) = ZeroByte(Xor(c, Front(b)))
<1> DEFINE x == Xor(c, Front(b))
<1>1. x \in Register /\ Front(b) \in Register  BY FrontIs, XorType
<1>2. Front(b)[1] = b /\ Front(b)[2] = 0 /\ Front(b)[3] = 0 /\ Front(b)[4] = 0  BY DEF Front
<1>3. /\ c[1] \in 0 .. 1 /\ c[2] \in 0 .. 1 /\ c[3] \in 0 .. 1 /\ c[4] \in 0 .. 1
  BY ByBits
<1>4. x[1] = (IF c[1] = b THEN 0 ELSE 1) /\ x[2] = c[2] /\ x[3] = c[3] /\ x[4] = c[4]
  BY <1>1, <1>2, <1>3, XorBits
<1> HIDE DEF x
<1>5. Cr!ShiftRight(x) = Cr!ShiftRight(c)  BY <1>4 DEF Cr!ShiftRight
<1>6. (x[1] + 0) % 2 = (c[1] + b) % 2  BY <1>3, <1>4, BitXor
<1>7. ZeroByte(x) = Xor(Cr!Table0((x[1] + 0) % 2), Cr!ShiftRight(x))
  <2>1. 0 \in 0 .. 1  OBVIOUS
  <2> QED  BY <1>1, <2>1, DO1Is, Zenon DEF ZeroByte
<1>8. Cr!DO1(c, b) = Xor(Cr!Table0((c[1] + b) % 2), Cr!ShiftRight(c))  BY DO1Is
<1> QED  BY <1>5, <1>6, <1>7, <1>8 DEF x

LEMMA ZeroByteLinear ==
    ASSUME Cr!ConstantsFit
    PROVE  /\ ZeroByte(ZeroWord) = ZeroWord
           /\ \A a, b \in Register : ZeroByte(Xor(a, b)) = Xor(ZeroByte(a), ZeroByte(b))
<1>z. 0 \in 0 .. 1  OBVIOUS
<1>0. \A c \in Register : /\ ZeroByte(c) = Xor(Cr!Table0(c[1]), Cr!ShiftRight(c))
                          /\ c[1] \in 0 .. 1 /\ Cr!ShiftRight(c) \in Register
                          /\ Cr!Table0(c[1]) \in Register
  <2> TAKE c \in Register
  <2>1. c[1] \in 0 .. 1 /\ (c[1] + 0) % 2 = c[1]  BY ByBits
  <2> QED  BY <1>z, <2>1, DO1Is, ShiftRightIs, Table0Is DEF ZeroByte
<1>1. ZeroByte(ZeroWord) = ZeroWord
  <2>1. ZeroWord[1] = 0 /\ Cr!ShiftRight(ZeroWord) = ZeroWord
    BY DEF Cr!ShiftRight, ZeroWord, Cr!ZeroWord
  <2> QED  BY <2>1, <1>0, Table0Is, XorRules
<1>2. ASSUME NEW a \in Register, NEW b \in Register
      PROVE  ZeroByte(Xor(a, b)) = Xor(ZeroByte(a), ZeroByte(b))
  <2> DEFINE c == Xor(a, b)
  <2>1. c \in Register  BY XorType
  <2>2. Cr!ShiftRight(c) = Xor(Cr!ShiftRight(a), Cr!ShiftRight(b))
    <3> DEFINE l == Cr!ShiftRight(c)
               r == Xor(Cr!ShiftRight(a), Cr!ShiftRight(b))
    <3>1. l \in Register /\ r \in Register  BY <2>1, ShiftRightIs, XorType
    <3>2. /\ l[1] = c[2] /\ l[2] = c[3] /\ l[3] = c[4] /\ l[4] = 0
      BY <2>1, ShiftRightIs
    <3>3. /\ Cr!ShiftRight(a) \in Register /\ Cr!ShiftRight(b) \in Register
          /\ Cr!ShiftRight(a)[1] = a[2] /\ Cr!ShiftRight(a)[2] = a[3]
          /\ Cr!ShiftRight(a)[3] = a[4] /\ Cr!ShiftRight(a)[4] = 0
          /\ Cr!ShiftRight(b)[1] = b[2] /\ Cr!ShiftRight(b)[2] = b[3]
          /\ Cr!ShiftRight(b)[3] = b[4] /\ Cr!ShiftRight(b)[4] = 0
      BY ShiftRightIs
    <3>4. r[1] = c[2] /\ r[2] = c[3] /\ r[3] = c[4] /\ r[4] = 0  BY <3>3, XorBits
    <3> HIDE DEF l, r
    <3>5. l = r  BY <3>1, <3>2, <3>4, SameBits
    <3> QED  BY <3>5 DEF l, r
  <2>3. Cr!Table0(c[1]) = Xor(Cr!Table0(a[1]), Cr!Table0(b[1]))
    <3>1. c[1] = IF a[1] = b[1] THEN 0 ELSE 1  BY XorBits
    <3>2. a[1] \in 0 .. 1 /\ b[1] \in 0 .. 1  BY <1>0
    <3> HIDE DEF c
    <3> QED  BY <3>1, <3>2, Table0Is, XorRules
  <2> HIDE DEF c
  <2>4. ZeroByte(c) = Xor(Xor(Cr!Table0(a[1]), Cr!Table0(b[1])), Xor(Cr!ShiftRight(a), Cr!ShiftRight(b)))
    BY <2>1, <2>2, <2>3, <1>0
  <2> QED  BY <2>4, <1>0, XorSwap DEF c
<1> QED  BY <1>1, <1>2

-----------------------------------------------------------------------------
(* CRC: the register byte by byte *)

Bit == 0 .. 1

\* g holds the registers before and after each byte of s.
Trace(g, c, s) ==
    /\ g \in [0 .. Len(s) -> Register]
    /\ g[0] = c
    /\ \A i \in 1 .. Len(s) : g[i] = Cr!DO1(g[i - 1], s[i])

\* Two loops that start alike and step alike.
LEMMA SameValues ==
    ASSUME NEW n \in Nat, NEW f, NEW h, f[0] = h[0],
           \A i \in 0 .. n - 1 : f[i] = h[i] => f[i + 1] = h[i + 1]
    PROVE  \A i \in 0 .. n : f[i] = h[i]
<1> DEFINE M == {i \in Int : f[i] = h[i]}
<1>1. 0 \in Int /\ n \in Int /\ (0 <= n => 0 \in M)  OBVIOUS
<1>2. \A i \in 0 .. n - 1 : i \in M => i + 1 \in M  OBVIOUS
<1>3. \A i \in 0 .. n : i \in M
  <2> HIDE DEF M
  <2> QED  BY <1>1, <1>2, IntervalInduction
<1> QED  BY <1>3

LEMMA TraceExists ==
    ASSUME Cr!ConstantsFit, NEW c \in Register, NEW s \in Seq(Bit)
    PROVE  \E g : Trace(g, c, s)
<1> DEFINE n == Len(s)
           T == [i \in 0 .. n |-> Register]
           step == [i \in 0 + 1 .. n |-> [x \in Register |-> Cr!DO1(x, s[i])]]
<1>1. n \in Nat /\ \A i \in 1 .. n : s[i] \in 0 .. 1  BY DEF Bit
<1> HIDE DEF n
<1>2. \A i \in 0 + 1 .. n : \A x \in Register : Cr!DO1(x, s[i]) \in Register
  <2> TAKE i \in 0 + 1 .. n
  <2> TAKE x \in Register
  <2>1. s[i] \in 0 .. 1  BY <1>1
  <2> QED  BY <2>1, DO1Is
<1>3. Steps(0, n, Register, T, c, step)
  <2>1. 0 \in Int /\ n \in Int /\ \A i \in 0 .. n : T[i] \subseteq Register  BY <1>1
  <2>2. 0 <= n => c \in T[0]  BY <1>1
  <2>3. \A i \in 0 + 1 .. n : step[i] \in [T[i - 1] -> T[i]]
    <3>1. \A i \in 0 + 1 .. n : i - 1 \in 0 .. n /\ i \in 0 .. n  BY <1>1
    <3>2. \A i \in 0 + 1 .. n : step[i] \in [Register -> Register]  BY <1>2
    <3> HIDE DEF step
    <3> QED  BY <3>1, <3>2
  <2> HIDE DEF T, step
  <2> QED  BY <2>1, <2>2, <2>3 DEF Steps
<1>4. PICK g : Iterates(g, 0, n, Register, T, c, step)
  <2> HIDE DEF T, step
  <2> QED  BY <1>3, StepFunction
<1>5. g \in [0 .. n -> Register] /\ \A i \in 0 .. n : g[i] = IF i = 0 THEN c ELSE step[i][g[i - 1]]
  BY <1>4 DEF Iterates
<1>6. g[0] = c
  <2>1. 0 \in 0 .. n  BY <1>1
  <2> HIDE DEF step
  <2> QED  BY <2>1, <1>5
<1>7. \A i \in 1 .. n : g[i] = Cr!DO1(g[i - 1], s[i])
  <2> TAKE i \in 1 .. n
  <2>1. i \in 0 .. n /\ i # 0 /\ i \in 0 + 1 .. n /\ i - 1 \in 0 .. n  BY <1>1
  <2>2. g[i - 1] \in Register /\ g[i] = step[i][g[i - 1]]  BY <2>1, <1>5
  <2> QED  BY <2>1, <2>2
<1> QED  BY <1>5, <1>6, <1>7 DEF Trace, n

\* The bytes behind the a-th one, up to the b-th.
LEMMA BytesIs ==
    ASSUME NEW s \in Seq(Bit), NEW c, NEW g, Trace(g, c, s),
           NEW a \in 0 .. Len(s), NEW b \in a .. Len(s)
    PROVE  Cr!Bytes(g[a], SubSeq(s, a + 1, b)) = g[b]
<1> DEFINE t == SubSeq(s, a + 1, b)
           n == b - a
           h == [i \in 0 .. n |-> g[a + i]]
<1>1. /\ t \in Seq(Bit) /\ Len(t) = n /\ \A i \in 1 .. n : t[i] = s[a + i]
      /\ n \in Nat /\ a \in Nat /\ a + n = b /\ b <= Len(s) /\ Len(s) \in Nat
  BY Part
<1>2. \A i \in 1 .. Len(s) : g[i] = Cr!DO1(g[i - 1], s[i])  BY DEF Trace
<1> HIDE DEF t, n
<1>3. ASSUME NEW i \in 1 .. n  PROVE g[a + i] = Cr!AddByte[g[a + (i - 1)]][t[i]]
  <2>1. a + i \in 1 .. Len(s) /\ (a + i) - 1 = a + (i - 1)  BY <1>1
  <2>2. g[a + i] = Cr!DO1(g[a + (i - 1)], s[a + i])  BY <2>1, <1>2
  <2>3. g[a + (i - 1)] \in Register /\ s[a + i] \in 0 .. 1
    <3>1. a + (i - 1) \in 0 .. Len(s)  BY <1>1
    <3>2. g[a + (i - 1)] \in Register  BY <3>1, Zenon DEF Trace
    <3>3. s[a + i] \in Bit  BY <2>1
    <3> QED  BY <3>2, <3>3 DEF Bit
  <2>4. t[i] = s[a + i]  BY <1>1
  <2> QED  BY <2>2, <2>3, <2>4, AddByteIs
<1>4. h = [i \in 0 .. Len(t) |-> IF i = 0 THEN g[a] ELSE Cr!AddByte[h[i - 1]][t[i]]]
  <2>1. ASSUME NEW i \in 0 .. n
        PROVE  g[a + i] = IF i = 0 THEN g[a] ELSE Cr!AddByte[h[i - 1]][t[i]]
    <3>1. CASE i = 0
      <4>1. a + i = a  BY <1>1, <3>1
      <4> QED  BY <3>1, <4>1
    <3>2. CASE i # 0
      <4>1. i \in 1 .. n /\ i - 1 \in 0 .. n  BY <1>1, <3>2
      <4> QED  BY <3>2, <4>1, <1>3
    <3> QED  BY <3>1, <3>2
  <2> QED  BY <2>1, <1>1
<1> DEFINE after[i \in 0 .. Len(t)] == IF i = 0 THEN g[a] ELSE Cr!AddByte[after[i - 1]][t[i]]
<1>5. after = [i \in 0 .. Len(t) |-> IF i = 0 THEN g[a] ELSE Cr!AddByte[after[i - 1]][t[i]]]
  <2> HIDE DEF h
  <2> QED  BY <1>4, Zenon DEF after
<1>6. Cr!Bytes(g[a], t) = after[Len(t)]  BY Zenon DEF Cr!Bytes
<1> HIDE DEF after
<1>7. after[0] = h[0]
  <2>1. 0 \in 0 .. Len(t) /\ 0 \in 0 .. n /\ a + 0 = a  BY <1>1
  <2>2. after[0] = g[a]  BY <2>1, <1>5
  <2> QED  BY <2>1, <2>2
<1>8. \A i \in 0 .. n - 1 : after[i] = h[i] => after[i + 1] = h[i + 1]
  <2> SUFFICES ASSUME NEW i \in 0 .. n - 1, after[i] = h[i] PROVE after[i + 1] = h[i + 1]
    OBVIOUS
  <2>1. i + 1 \in 0 .. Len(t) /\ i + 1 \in 1 .. n /\ i + 1 \in 0 .. n /\ i \in 0 .. n
        /\ i + 1 # 0 /\ (i + 1) - 1 = i
    BY <1>1
  <2>2. after[i + 1] = Cr!AddByte[h[i]][t[i + 1]]  BY <2>1, <1>5
  <2>3. h[i] = g[a + i] /\ h[i + 1] = g[a + (i + 1)]  BY <2>1
  <2> QED  BY <2>1, <2>2, <2>3, <1>3
<1> HIDE DEF h
<1>9. after[n] = h[n]
  <2>1. n \in Nat /\ n \in 0 .. n  BY <1>1
  <2>2. \A i \in 0 .. n : after[i] = h[i]  BY <2>1, <1>7, <1>8, SameValues, Zenon
  <2> QED  BY <2>1, <2>2
<1>10. h[n] = g[b]  BY <1>1 DEF h
<1> QED  BY <1>1, <1>6, <1>9, <1>10 DEF t

LEMMA BytesAll ==
    ASSUME NEW s \in Seq(Bit), NEW c, NEW g, Trace(g, c, s)
    PROVE  Cr!Bytes(c, s) = g[Len(s)]
<1>1. SubSeq(s, 0 + 1, Len(s)) = s /\ Len(s) \in Nat  OBVIOUS
<1>2. 0 \in 0 .. Len(s) /\ Len(s) \in 0 .. Len(s) /\ g[0] = c  BY <1>1 DEF Trace
<1> QED  BY <1>1, <1>2, BytesIs

-----------------------------------------------------------------------------
(* CRC: zero bytes *)

NoBits(n) == [i \in 1 .. n |-> 0]

\* The register after n zero bytes.
Zeros(n, c) == Cr!Bytes(c, NoBits(n))

LEMMA ZerosSteps ==
    ASSUME Cr!ConstantsFit, NEW c \in Register
    PROVE  /\ Zeros(0, c) = c
           /\ \A n \in Nat : Zeros(n, c) \in Register /\ Zeros(n + 1, c) = ZeroByte(Zeros(n, c))
<1>1. \A n \in Nat : NoBits(n) \in Seq(Bit) /\ Len(NoBits(n)) = n /\ \A i \in 1 .. n : NoBits(n)[i] = 0
  BY DEF NoBits, Bit
<1>2. Zeros(0, c) = c
  <2>1. NoBits(0) \in Seq(Bit) /\ Len(NoBits(0)) = 0  BY <1>1
  <2>2. PICK g : Trace(g, c, NoBits(0))  BY <2>1, TraceExists
  <2> QED  BY <2>1, <2>2, BytesAll DEF Trace, Zeros
<1>3. ASSUME NEW n \in Nat
      PROVE  Zeros(n, c) \in Register /\ Zeros(n + 1, c) = ZeroByte(Zeros(n, c))
  <2> DEFINE s == NoBits(n + 1)
  <2>1. n + 1 \in Nat /\ n \in 0 .. n + 1 /\ n + 1 \in 1 .. n + 1 /\ (n + 1) - 1 = n
        /\ 0 \in 0 .. n + 1 /\ n \in 0 .. n + 1
    OBVIOUS
  <2>2. s \in Seq(Bit) /\ Len(s) = n + 1 /\ \A i \in 1 .. n + 1 : s[i] = 0  BY <1>1, <2>1
  <2>3. NoBits(n) \in Seq(Bit) /\ Len(NoBits(n)) = n /\ \A i \in 1 .. n : NoBits(n)[i] = 0
    BY <1>1
  <2> HIDE DEF s
  <2>4. PICK g : Trace(g, c, s)  BY <2>2, TraceExists
  <2>5. Cr!Bytes(c, s) = g[n + 1]  BY <2>2, <2>4, BytesAll
  <2>6. /\ g[0] = c /\ g[n] \in Register /\ g[n + 1] = Cr!DO1(g[n], s[n + 1])
    BY <2>1, <2>2, <2>4 DEF Trace
  <2>7. s[n + 1] = 0  BY <2>1, <2>2
  <2>8. SubSeq(s, 0 + 1, n) = NoBits(n)
    <3>1. 0 \in 0 .. Len(s) /\ n \in 0 .. Len(s)  BY <2>1, <2>2
    <3>2. /\ SubSeq(s, 0 + 1, n) \in Seq(Bit) /\ Len(SubSeq(s, 0 + 1, n)) = n - 0
          /\ \A i \in 1 .. n - 0 : SubSeq(s, 0 + 1, n)[i] = s[0 + i]
      BY <2>2, <3>1, Part
    <3> DEFINE t == SubSeq(s, 0 + 1, n)
    <3>3. t \in Seq(Bit) /\ Len(t) = n /\ \A i \in 1 .. n : t[i] = 0
      <4> HIDE DEF t
      <4>1. t \in Seq(Bit) /\ Len(t) = n - 0 /\ \A i \in 1 .. n - 0 : t[i] = s[0 + i]
        BY <3>2 DEF t
      <4>2. n - 0 = n /\ \A i \in 1 .. n : 0 + i = i /\ i \in 1 .. n + 1  OBVIOUS
      <4> QED  BY <4>1, <4>2, <2>2
    <3> HIDE DEF t
    <3>4. t = NoBits(n)  BY <3>3, <2>3, SeqEqual
    <3> QED  BY <3>4 DEF t
  <2>9. Cr!Bytes(g[0], SubSeq(s, 0 + 1, n)) = g[n]
    <3>1. 0 \in 0 .. Len(s) /\ n \in 0 .. Len(s)  BY <2>1, <2>2
    <3> QED  BY <2>2, <2>4, <3>1, BytesIs
  <2>10. Zeros(n, c) = g[n]  BY <2>6, <2>8, <2>9 DEF Zeros
  <2>11. Zeros(n + 1, c) = ZeroByte(g[n])  BY <2>5, <2>6, <2>7 DEF Zeros, ZeroByte, s
  <2> QED  BY <2>6, <2>10, <2>11
<1> QED  BY <1>2, <1>3

LEMMA ZerosLinear ==
    ASSUME Cr!ConstantsFit
    PROVE  \A n \in Nat : /\ Zeros(n, ZeroWord) = ZeroWord
                          /\ \A a, b \in Register : Zeros(n, Xor(a, b)) = Xor(Zeros(n, a), Zeros(n, b))
<1> DEFINE Linear(n) == /\ Zeros(n, ZeroWord) = ZeroWord
                        /\ \A a, b \in Register : Zeros(n, Xor(a, b)) = Xor(Zeros(n, a), Zeros(n, b))
           M == {n \in Nat : Linear(n)}
<1>1. Linear(0)  BY ZerosSteps, XorType, XorRules
<1>2. ASSUME NEW n \in Nat, Linear(n)  PROVE Linear(n + 1)
  <2>1. Zeros(n + 1, ZeroWord) = ZeroWord
    <3>1. Zeros(n + 1, ZeroWord) = ZeroByte(Zeros(n, ZeroWord))  BY XorRules, ZerosSteps
    <3> QED  BY <1>2, <3>1, ZeroByteLinear
  <2>2. ASSUME NEW a \in Register, NEW b \in Register
        PROVE  Zeros(n + 1, Xor(a, b)) = Xor(Zeros(n + 1, a), Zeros(n + 1, b))
    <3>1. Xor(a, b) \in Register  BY XorType
    <3>2. Zeros(n + 1, Xor(a, b)) = ZeroByte(Zeros(n, Xor(a, b)))  BY <3>1, ZerosSteps
    <3>3. /\ Zeros(n + 1, a) = ZeroByte(Zeros(n, a)) /\ Zeros(n + 1, b) = ZeroByte(Zeros(n, b))
          /\ Zeros(n, a) \in Register /\ Zeros(n, b) \in Register
      BY ZerosSteps
    <3>4. Zeros(n, Xor(a, b)) = Xor(Zeros(n, a), Zeros(n, b))  BY <1>2
    <3> QED  BY <3>2, <3>3, <3>4, ZeroByteLinear
  <2> QED  BY <2>1, <2>2
<1>3. 0 \in M /\ \A n \in Nat : n \in M => n + 1 \in M
  <2> HIDE DEF Linear
  <2> QED  BY <1>1, <1>2
<1>4. \A n \in Nat : n \in M
  <2> HIDE DEF M
  <2> QED  BY <1>3, SetInduction
<1> QED  BY <1>4

LEMMA ZerosSum ==
    ASSUME Cr!ConstantsFit, NEW c \in Register, NEW n \in Nat
    PROVE  \A m \in Nat : Zeros(m, Zeros(n, c)) = Zeros(n + m, c)
<1> DEFINE M == {m \in Nat : Zeros(m, Zeros(n, c)) = Zeros(n + m, c)}
<1>0. Zeros(n, c) \in Register  BY ZerosSteps
<1>1. 0 \in M
  <2>1. n + 0 = n /\ 0 \in Nat  OBVIOUS
  <2>2. Zeros(0, Zeros(n, c)) = Zeros(n, c)  BY <1>0, ZerosSteps
  <2> QED  BY <2>1, <2>2
<1>2. ASSUME NEW m \in Nat, m \in M  PROVE m + 1 \in M
  <2>1. n + m \in Nat /\ n + (m + 1) = (n + m) + 1 /\ m + 1 \in Nat  OBVIOUS
  <2>2. Zeros(m, Zeros(n, c)) = Zeros(n + m, c)  BY <1>2
  <2>3. Zeros(m + 1, Zeros(n, c)) = ZeroByte(Zeros(m, Zeros(n, c)))  BY <1>0, ZerosSteps
  <2>4. Zeros((n + m) + 1, c) = ZeroByte(Zeros(n + m, c))  BY <2>1, ZerosSteps
  <2> QED  BY <2>1, <2>2, <2>3, <2>4
<1>3. \A m \in Nat : m \in M
  <2> HIDE DEF M
  <2> QED  BY <1>1, <1>2, SetInduction
<1> QED  BY <1>3

-----------------------------------------------------------------------------
(* CRC: the tables *)

LEMMA FirstTable ==
    ASSUME Cr!ConstantsFit, NEW b \in 0 .. 1
    PROVE  Zeros(1, Front(b)) = Cr!Table0(b)
<1>0. Front(b) \in Register  BY FrontIs
<1>1. Zeros(0, Front(b)) = Front(b) /\ Zeros(0 + 1, Front(b)) = ZeroByte(Zeros(0, Front(b)))
  BY <1>0, ZerosSteps
<1>2. ZeroByte(Front(b)) = Xor(Cr!Table0((Front(b)[1] + 0) % 2), Cr!ShiftRight(Front(b)))
  <2>1. 0 \in 0 .. 1  OBVIOUS
  <2> QED  BY <1>0, <2>1, DO1Is DEF ZeroByte
<1>3. Front(b)[1] = b /\ (b + 0) % 2 = b  BY FrontIs, BitXor
<1>4. Cr!ShiftRight(Front(b)) = ZeroWord  BY DEF Front, Cr!ShiftRight, ZeroWord, Cr!ZeroWord
<1>5. Cr!Table0(b) \in Register  BY Table0Is
<1>6. 0 + 1 = 1  OBVIOUS
<1> QED  BY <1>1, <1>2, <1>3, <1>4, <1>5, <1>6, XorRules

LEMMA TableIs ==
    ASSUME Cr!ConstantsFit, NEW k \in Nat, NEW b \in 0 .. 1
    PROVE  Cr!Table(k, b) = Zeros(k + 1, Front(b)) /\ Cr!Table(k, b) \in Register
<1> DEFINE h == [i \in 0 .. k |-> Zeros(i + 1, Front(b))]
           after[i \in 0 .. k] == IF i = 0 THEN Cr!Table0(b) ELSE Cr!AddByte[after[i - 1]][0]
<1>0. Front(b) \in Register  BY FrontIs
<1>1. Zeros(1, Front(b)) = Cr!Table0(b)  BY FirstTable
<1>2. \A i \in 1 .. k : Zeros(i + 1, Front(b)) = Cr!AddByte[Zeros((i - 1) + 1, Front(b))][0]
  <2> TAKE i \in 1 .. k
  <2>1. i \in Nat /\ (i - 1) + 1 = i  OBVIOUS
  <2>2. /\ Zeros(i + 1, Front(b)) = Cr!DO1(Zeros((i - 1) + 1, Front(b)), 0)
        /\ Zeros((i - 1) + 1, Front(b)) \in Register /\ 0 \in 0 .. 1
    BY <1>0, <2>1, ZerosSteps DEF ZeroByte
  <2> QED  BY <2>2, AddByteIs
<1>3. h = [i \in 0 .. k |-> IF i = 0 THEN Cr!Table0(b) ELSE Cr!AddByte[h[i - 1]][0]]
  <2>1. ASSUME NEW i \in 0 .. k
        PROVE  h[i] = IF i = 0 THEN Cr!Table0(b) ELSE Cr!AddByte[h[i - 1]][0]
    <3>1. CASE i = 0
      <4>1. h[0] = Zeros(1, Front(b))  OBVIOUS
      <4> QED  BY <1>1, <3>1, <4>1
    <3>2. CASE i # 0
      <4>1. i \in 1 .. k /\ i - 1 \in 0 .. k  BY <3>2
      <4>2. h[i] = Zeros(i + 1, Front(b)) /\ h[i - 1] = Zeros((i - 1) + 1, Front(b))  BY <4>1
      <4> QED  BY <1>2, <3>2, <4>1, <4>2
    <3> QED  BY <3>1, <3>2
  <2>2. h = [i \in 0 .. k |-> h[i]]  OBVIOUS
  <2> HIDE DEF h
  <2> QED  BY <2>1, <2>2
<1>4. after = [i \in 0 .. k |-> IF i = 0 THEN Cr!Table0(b) ELSE Cr!AddByte[after[i - 1]][0]]
  <2> HIDE DEF h
  <2> QED  BY <1>3, Zenon DEF after
<1>5. Cr!Table(k, b) = after[k]  BY Zenon DEF Cr!Table
<1> HIDE DEF after, h
<1>6. after[0] = h[0] /\ \A i \in 0 .. k - 1 : after[i] = h[i] => after[i + 1] = h[i + 1]
  <2>1. 0 \in 0 .. k /\ \A i \in 0 .. k - 1 : i + 1 \in 0 .. k /\ i + 1 # 0 /\ (i + 1) - 1 = i
    OBVIOUS
  <2>2. /\ h[0] = Cr!Table0(b) /\ after[0] = Cr!Table0(b)
        /\ \A i \in 0 .. k - 1 : h[i + 1] = Cr!AddByte[h[i]][0] /\ after[i + 1] = Cr!AddByte[after[i]][0]
    BY <2>1, <1>3, <1>4
  <2> QED  BY <2>2
<1>7. after[k] = h[k]
  <2>1. \A i \in 0 .. k : after[i] = h[i]  BY <1>6, SameValues, Zenon
  <2> QED  BY <2>1
<1>8. h[k] = Zeros(k + 1, Front(b))  BY DEF h
<1>9. Zeros(k + 1, Front(b)) \in Register  BY <1>0, ZerosSteps
<1> QED  BY <1>5, <1>7, <1>8, <1>9

\* A register as the four bytes in it, each where it is.
Second(b) == <<0, b, 0, 0>>
Third(b) == <<0, 0, b, 0>>
Fourth(b) == <<0, 0, 0, b>>

LEMMA PlaceIs ==
    ASSUME Cr!ConstantsFit, NEW b \in 0 .. 1
    PROVE  /\ Second(b) \in Register /\ Third(b) \in Register /\ Fourth(b) \in Register
           /\ ZeroByte(Second(b)) = Front(b)
           /\ ZeroByte(Third(b)) = Second(b)
           /\ ZeroByte(Fourth(b)) = Third(b)
<1>1. /\ Second(b) \in Register /\ Third(b) \in Register /\ Fourth(b) \in Register
      /\ Front(b) \in Register
  BY RegisterIs DEF Second, Third, Fourth, Front
<1>2. ASSUME NEW c \in Register, c[1] = 0  PROVE ZeroByte(c) = Cr!ShiftRight(c)
  <2>1. 0 \in 0 .. 1 /\ (0 + 0) % 2 = 0  OBVIOUS
  <2>2. ZeroByte(c) = Xor(Cr!Table0((c[1] + 0) % 2), Cr!ShiftRight(c))
    BY <2>1, DO1Is, Zenon DEF ZeroByte
  <2> QED  BY <1>2, <2>1, <2>2, Table0Is, ShiftRightIs, XorRules
<1>3. /\ Second(b)[1] = 0 /\ Third(b)[1] = 0 /\ Fourth(b)[1] = 0
      /\ Cr!ShiftRight(Second(b)) = Front(b)
      /\ Cr!ShiftRight(Third(b)) = Second(b)
      /\ Cr!ShiftRight(Fourth(b)) = Third(b)
  BY DEF Second, Third, Fourth, Front, Cr!ShiftRight
<1> QED  BY <1>1, <1>2, <1>3

LEMMA Places ==
    ASSUME NEW c \in Register
    PROVE  c = Xor(Xor(Xor(Front(c[1]), Second(c[2])), Third(c[3])), Fourth(c[4]))
<1>1. /\ c[1] \in 0 .. 1 /\ c[2] \in 0 .. 1 /\ c[3] \in 0 .. 1 /\ c[4] \in 0 .. 1
      /\ c = <<c[1], c[2], c[3], c[4]>>
  BY ByBits
<1> DEFINE b1 == c[1]
           b2 == c[2]
           b3 == c[3]
           b4 == c[4]
<1> HIDE DEF b1, b2, b3, b4
<1>2. /\ b1 \in 0 .. 1 /\ b2 \in 0 .. 1 /\ b3 \in 0 .. 1 /\ b4 \in 0 .. 1
      /\ c = <<b1, b2, b3, b4>>
  BY <1>1 DEF b1, b2, b3, b4
<1>3. \A b \in 0 .. 1 : (b + 0) % 2 = b /\ (0 + b) % 2 = b /\ (0 + 0) % 2 = 0  OBVIOUS
<1>4. Xor(Front(b1), Second(b2)) = <<b1, b2, 0, 0>>
  BY <1>2, <1>3, XorIs DEF Front, Second
<1>5. Xor(<<b1, b2, 0, 0>>, Third(b3)) = <<b1, b2, b3, 0>>
  BY <1>2, <1>3, XorIs DEF Third
<1>6. Xor(<<b1, b2, b3, 0>>, Fourth(b4)) = <<b1, b2, b3, b4>>
  BY <1>2, <1>3, XorIs DEF Fourth
<1> QED  BY <1>2, <1>4, <1>5, <1>6 DEF b1, b2, b3, b4

LEMMA ZerosFirst ==
    ASSUME Cr!ConstantsFit, NEW c \in Register
    PROVE  \A n \in Nat : Zeros(n, ZeroByte(c)) = Zeros(n + 1, c)
<1> TAKE n \in Nat
<1>1. 0 + 1 = 1 /\ 1 + n = n + 1 /\ 0 \in Nat /\ 1 \in Nat  OBVIOUS
<1>2. Zeros(1, c) = ZeroByte(c)
  <2>1. Zeros(0 + 1, c) = ZeroByte(Zeros(0, c)) /\ Zeros(0, c) = c  BY <1>1, ZerosSteps
  <2> QED  BY <2>1, <1>1
<1>3. Zeros(n, Zeros(1, c)) = Zeros(1 + n, c)  BY <1>1, ZerosSum
<1> QED  BY <1>1, <1>2, <1>3

\* Four tables that follow each other take a register over m bytes and its own
\* four.
LEMMA FourTables ==
    ASSUME Cr!ConstantsFit, NEW c \in Register, NEW m \in Nat
    PROVE  Cr!Xor4(Cr!Table(m + 3, c[1]), Cr!Table(m + 2, c[2]), Cr!Table(m + 1, c[3]), Cr!Table(m, c[4]))
             = Zeros(m + 4, c)
<1>1. /\ c[1] \in 0 .. 1 /\ c[2] \in 0 .. 1 /\ c[3] \in 0 .. 1 /\ c[4] \in 0 .. 1
  BY ByBits
<1>2. /\ m + 1 \in Nat /\ m + 2 \in Nat /\ m + 3 \in Nat /\ m + 4 \in Nat
      /\ (m + 1) + 1 = m + 2 /\ (m + 2) + 1 = m + 3 /\ (m + 3) + 1 = m + 4
  OBVIOUS
<1>3. /\ Front(c[1]) \in Register /\ Front(c[2]) \in Register
      /\ Front(c[3]) \in Register /\ Front(c[4]) \in Register
      /\ Second(c[2]) \in Register /\ Third(c[3]) \in Register /\ Fourth(c[4]) \in Register
      /\ Second(c[3]) \in Register /\ Second(c[4]) \in Register /\ Third(c[4]) \in Register
  BY <1>1, FrontIs, PlaceIs
<1>4. Cr!Table(m + 3, c[1]) = Zeros(m + 4, Front(c[1]))  BY <1>1, <1>2, TableIs
<1>5. Cr!Table(m + 2, c[2]) = Zeros(m + 4, Second(c[2]))
  <2>1. Cr!Table(m + 2, c[2]) = Zeros(m + 3, Front(c[2]))  BY <1>1, <1>2, TableIs
  <2>2. ZeroByte(Second(c[2])) = Front(c[2])  BY <1>1, PlaceIs
  <2> QED  BY <2>1, <2>2, <1>2, <1>3, ZerosFirst
<1>6. Cr!Table(m + 1, c[3]) = Zeros(m + 4, Third(c[3]))
  <2>1. Cr!Table(m + 1, c[3]) = Zeros(m + 2, Front(c[3]))  BY <1>1, <1>2, TableIs
  <2>2. ZeroByte(Second(c[3])) = Front(c[3]) /\ ZeroByte(Third(c[3])) = Second(c[3])  BY <1>1, PlaceIs
  <2>3. Zeros(m + 2, Front(c[3])) = Zeros(m + 3, Second(c[3]))  BY <2>2, <1>2, <1>3, ZerosFirst
  <2>4. Zeros(m + 3, Second(c[3])) = Zeros(m + 4, Third(c[3]))  BY <2>2, <1>2, <1>3, ZerosFirst
  <2> QED  BY <2>1, <2>3, <2>4
<1>7. Cr!Table(m, c[4]) = Zeros(m + 4, Fourth(c[4]))
  <2>1. Cr!Table(m, c[4]) = Zeros(m + 1, Front(c[4]))  BY <1>1, <1>2, TableIs
  <2>2. /\ ZeroByte(Second(c[4])) = Front(c[4]) /\ ZeroByte(Third(c[4])) = Second(c[4])
        /\ ZeroByte(Fourth(c[4])) = Third(c[4])
    BY <1>1, PlaceIs
  <2>3. Zeros(m + 1, Front(c[4])) = Zeros(m + 2, Second(c[4]))  BY <2>2, <1>2, <1>3, ZerosFirst
  <2>4. Zeros(m + 2, Second(c[4])) = Zeros(m + 3, Third(c[4]))  BY <2>2, <1>2, <1>3, ZerosFirst
  <2>5. Zeros(m + 3, Third(c[4])) = Zeros(m + 4, Fourth(c[4]))  BY <2>2, <1>2, <1>3, ZerosFirst
  <2> QED  BY <2>1, <2>3, <2>4, <2>5
<1> DEFINE two == Xor(Front(c[1]), Second(c[2]))
           three == Xor(two, Third(c[3]))
<1>8. two \in Register /\ three \in Register  BY <1>3, XorType
<1>9. c = Xor(three, Fourth(c[4]))  BY Places
<1>10. Zeros(m + 4, two) = Xor(Zeros(m + 4, Front(c[1])), Zeros(m + 4, Second(c[2])))
  BY <1>2, <1>3, ZerosLinear
<1> HIDE DEF two
<1>11. Zeros(m + 4, three) = Xor(Zeros(m + 4, two), Zeros(m + 4, Third(c[3])))
  BY <1>2, <1>3, <1>8, ZerosLinear
<1> HIDE DEF three
<1>12. Zeros(m + 4, Xor(three, Fourth(c[4]))) = Xor(Zeros(m + 4, three), Zeros(m + 4, Fourth(c[4])))
  BY <1>2, <1>3, <1>8, ZerosLinear
<1> DEFINE z1 == Zeros(m + 4, Front(c[1]))
           z2 == Zeros(m + 4, Second(c[2]))
           z3 == Zeros(m + 4, Third(c[3]))
           z4 == Zeros(m + 4, Fourth(c[4]))
<1>13. Zeros(m + 4, c) = Xor(Xor(Xor(z1, z2), z3), z4)  BY <1>9, <1>10, <1>11, <1>12
<1>14. /\ z1 \in Register /\ z2 \in Register /\ z3 \in Register /\ z4 \in Register
  BY <1>2, <1>3, ZerosSteps
<1> HIDE DEF z1, z2, z3, z4
<1>15. Xor(Xor(Xor(z1, z2), z3), z4) = Xor(Xor(z1, z2), Xor(z3, z4))
  <2>1. Xor(z1, z2) \in Register  BY <1>14, XorType
  <2> QED  BY <2>1, <1>14, XorRules
<1>16. Cr!Xor4(z1, z2, z3, z4) = Xor(Xor(z1, z2), Xor(z3, z4))  BY Zenon DEF Cr!Xor4, Xor
<1> QED  BY <1>4, <1>5, <1>6, <1>7, <1>13, <1>15, <1>16 DEF z1, z2, z3, z4

\* A word is taken by four tables at once.
LEMMA DOLIT4Is ==
    ASSUME Cr!ConstantsFit, NEW c \in Register, NEW w \in Register
    PROVE  Cr!DOLIT4(c, w) = Zeros(4, Xor(c, w)) /\ Cr!DOLIT4(c, w) \in Register
<1> DEFINE x == Xor(c, w)
<1>1. x \in Register  BY XorType
<1>2. Cr!DOLIT4(c, w) = Cr!Xor4(Cr!Table(3, x[1]), Cr!Table(2, x[2]), Cr!Table(1, x[3]), Cr!Table(0, x[4]))
  BY Zenon DEF Cr!DOLIT4, Xor
<1> HIDE DEF x
<1>3. 0 \in Nat /\ 0 + 3 = 3 /\ 0 + 2 = 2 /\ 0 + 1 = 1 /\ 0 + 4 = 4 /\ 4 \in Nat  OBVIOUS
<1>4. Cr!Xor4(Cr!Table(0 + 3, x[1]), Cr!Table(0 + 2, x[2]), Cr!Table(0 + 1, x[3]), Cr!Table(0, x[4]))
        = Zeros(0 + 4, x)
  BY <1>1, <1>3, FourTables
<1>5. Zeros(4, x) \in Register  BY <1>1, <1>3, ZerosSteps
<1> QED  BY <1>2, <1>3, <1>4, <1>5 DEF x

\* A stride takes the register over sixteen bytes to its next word.
LEMMA STEP4Is ==
    ASSUME Cr!ConstantsFit, NEW c \in Register, NEW w \in Register
    PROVE  Cr!STEP4(c, w) = Xor(w, Zeros(16, c)) /\ Cr!STEP4(c, w) \in Register
<1>1. 12 + 3 = 15 /\ 12 + 2 = 14 /\ 12 + 1 = 13 /\ 12 + 0 = 12 /\ 12 + 4 = 16 /\ 12 \in Nat /\ 16 \in Nat
  OBVIOUS
<1>2. Cr!Xor4(Cr!Table(12 + 3, c[1]), Cr!Table(12 + 2, c[2]), Cr!Table(12 + 1, c[3]), Cr!Table(12, c[4]))
        = Zeros(12 + 4, c)
  BY <1>1, FourTables
<1>3. /\ Cr!Stride(3, c[1]) = Cr!Table(12 + 3, c[1]) /\ Cr!Stride(2, c[2]) = Cr!Table(12 + 2, c[2])
      /\ Cr!Stride(1, c[3]) = Cr!Table(12 + 1, c[3]) /\ Cr!Stride(0, c[4]) = Cr!Table(12, c[4])
  BY <1>1 DEF Cr!Stride
<1>4. Cr!STEP4(c, w) = Cr!Xor(w, Cr!Xor4(Cr!Stride(3, c[1]), Cr!Stride(2, c[2]), Cr!Stride(1, c[3]), Cr!Stride(0, c[4])))
  BY Zenon DEF Cr!STEP4
<1>5. Zeros(16, c) \in Register  BY <1>1, ZerosSteps
<1>6. Xor(w, Zeros(16, c)) \in Register  BY <1>5, XorType
<1> QED  BY <1>1, <1>2, <1>3, <1>4, <1>6 DEF Xor

\* Four bytes one by one are as good as a word.
LEMMA FourDO1 ==
    ASSUME Cr!ConstantsFit, NEW c \in Register, NEW w \in Register
    PROVE  Cr!DO1(Cr!DO1(Cr!DO1(Cr!DO1(c, w[1]), w[2]), w[3]), w[4]) = Zeros(4, Xor(c, w))
<1>1. /\ w[1] \in 0 .. 1 /\ w[2] \in 0 .. 1 /\ w[3] \in 0 .. 1 /\ w[4] \in 0 .. 1
  BY ByBits
<1> DEFINE f == Front(w[1])
           s == Second(w[2])
           t == Third(w[3])
           u == Fourth(w[4])
           x1 == Xor(c, f)
           x2 == Xor(x1, s)
           x3 == Xor(x2, t)
           x4 == Xor(x3, u)
<1>2. f \in Register /\ s \in Register /\ t \in Register /\ u \in Register  BY <1>1, FrontIs, PlaceIs
<1>3. /\ Front(w[2]) = ZeroByte(s)
      /\ Front(w[3]) = ZeroByte(ZeroByte(t)) /\ ZeroByte(t) \in Register
      /\ Front(w[4]) = ZeroByte(ZeroByte(ZeroByte(u))) /\ ZeroByte(u) \in Register
      /\ ZeroByte(ZeroByte(u)) \in Register
  BY <1>1, PlaceIs
<1>4. x1 \in Register /\ x2 \in Register /\ x3 \in Register /\ x4 \in Register  BY <1>2, XorType
<1>5. x4 = Xor(c, w)
  <2>1. w = Xor(Xor(Xor(f, s), t), u)  BY Places
  <2> HIDE DEF f, s, t, u
  <2>2. Xor(f, s) \in Register /\ Xor(Xor(f, s), t) \in Register  BY <1>2, XorType
  <2>3. x2 = Xor(c, Xor(f, s))  BY <1>2, XorRules
  <2> HIDE DEF x2
  <2>4. x3 = Xor(c, Xor(Xor(f, s), t))  BY <2>2, <2>3, <1>2, XorRules
  <2> HIDE DEF x3
  <2>5. x4 = Xor(c, Xor(Xor(Xor(f, s), t), u))  BY <2>2, <2>4, <1>2, XorRules
  <2> QED  BY <2>1, <2>5
<1> DEFINE Z(y) == ZeroByte(y)
<1>6. \A y \in Register : Z(y) \in Register
  <2>1. 0 \in 0 .. 1  OBVIOUS
  <2> QED  BY <2>1, DO1Is
<1>7. \A y, z \in Register : Z(Xor(y, z)) = Xor(Z(y), Z(z))  BY ZeroByteLinear
<1>8. Cr!DO1(c, w[1]) = Z(x1)  BY <1>1, Feed
<1> HIDE DEF f, s, t, u, x1
<1>9. Cr!DO1(Z(x1), w[2]) = Z(Z(x2))
  <2>1. Cr!DO1(Z(x1), w[2]) = Z(Xor(Z(x1), Front(w[2])))  BY <1>1, <1>4, <1>6, Feed
  <2> QED  BY <2>1, <1>2, <1>3, <1>4, <1>7
<1> HIDE DEF x2
<1>10. Cr!DO1(Z(Z(x2)), w[3]) = Z(Z(Z(x3)))
  <2>1. Cr!DO1(Z(Z(x2)), w[3]) = Z(Xor(Z(Z(x2)), Front(w[3])))  BY <1>1, <1>4, <1>6, Feed
  <2>2. Xor(Z(Z(x2)), Z(Z(t))) = Z(Xor(Z(x2), Z(t)))
    <3>1. Z(x2) \in Register /\ Z(t) \in Register  BY <1>2, <1>4, <1>6
    <3> HIDE DEF Z
    <3> QED  BY <3>1, <1>7
  <2>3. Xor(Z(x2), Z(t)) = Z(x3)
    <3> HIDE DEF Z
    <3> QED  BY <1>2, <1>4, <1>7
  <2> QED  BY <2>1, <2>2, <2>3, <1>3
<1> HIDE DEF x3
<1>11. Cr!DO1(Z(Z(Z(x3))), w[4]) = Z(Z(Z(Z(x4))))
  <2>0. /\ Z(x3) \in Register /\ Z(Z(x3)) \in Register /\ Z(Z(Z(x3))) \in Register
        /\ Z(u) \in Register /\ Z(Z(u)) \in Register
    <3> HIDE DEF Z
    <3> QED  BY <1>2, <1>4, <1>6
  <2>1. Cr!DO1(Z(Z(Z(x3))), w[4]) = Z(Xor(Z(Z(Z(x3))), Front(w[4])))  BY <1>1, <2>0, Feed
  <2>2. Xor(Z(Z(Z(x3))), Z(Z(Z(u)))) = Z(Z(Z(x4)))
    <3> HIDE DEF Z
    <3>1. Xor(Z(x3), Z(u)) = Z(x4)  BY <1>2, <1>4, <1>7
    <3>2. Xor(Z(Z(x3)), Z(Z(u))) = Z(Xor(Z(x3), Z(u)))  BY <2>0, <1>7
    <3>3. Xor(Z(Z(Z(x3))), Z(Z(Z(u)))) = Z(Xor(Z(Z(x3)), Z(Z(u))))  BY <2>0, <1>7
    <3> QED  BY <3>1, <3>2, <3>3
  <2> QED  BY <2>1, <2>2, <1>3
<1> HIDE DEF x4
<1>12. Zeros(4, x4) = Z(Z(Z(Z(x4))))
  <2>1. 0 + 1 = 1 /\ 1 + 1 = 2 /\ 2 + 1 = 3 /\ 3 + 1 = 4
        /\ 0 \in Nat /\ 1 \in Nat /\ 2 \in Nat /\ 3 \in Nat
    OBVIOUS
  <2>2. /\ Zeros(0, x4) = x4 /\ Zeros(0 + 1, x4) = Z(Zeros(0, x4)) /\ Zeros(1 + 1, x4) = Z(Zeros(1, x4))
        /\ Zeros(2 + 1, x4) = Z(Zeros(2, x4)) /\ Zeros(3 + 1, x4) = Z(Zeros(3, x4))
    BY <1>4, <2>1, ZerosSteps
  <2> QED  BY <2>1, <2>2
<1> QED  BY <1>5, <1>8, <1>9, <1>10, <1>11, <1>12

-----------------------------------------------------------------------------
(* CRC: the loops over words *)

LEMMA NotIs ==
    ASSUME NEW w \in Register
    PROVE  Cr!Not(w) \in Register /\ Cr!Not(Cr!Not(w)) = w
<1> DEFINE o == <<1, 1, 1, 1>>
<1>1. o \in Register  BY RegisterIs
<1>2. Cr!Not(w) = Xor(w, o) /\ Cr!Not(Xor(w, o)) = Xor(Xor(w, o), o)  BY Zenon DEF Cr!Not, Xor
<1> HIDE DEF o
<1>3. Xor(w, o) \in Register /\ Xor(Xor(w, o), o) = w
  <2>1. Xor(Xor(w, o), o) = Xor(w, Xor(o, o)) /\ Xor(o, o) = ZeroWord /\ Xor(w, ZeroWord) = w
    BY <1>1, XorRules
  <2> QED  BY <2>1, <1>1, XorType
<1> QED  BY <1>2, <1>3

LEMMA ReadWordIs ==
    ASSUME NEW s \in Seq(Bit), NEW a \in Nat, a + 4 <= Len(s)
    PROVE  /\ Cr!ReadWord(s, a + 1) \in Register
           /\ Cr!ReadWord(s, a + 1) = <<s[a + 1], s[a + 2], s[a + 3], s[a + 4]>>
<1> DEFINE w == SubSeq(s, a + 1, a + 4)
           t == <<s[a + 1], s[a + 2], s[a + 3], s[a + 4]>>
<1>1. Len(s) \in Nat /\ \A i \in 1 .. Len(s) : s[i] \in 0 .. 1  BY DEF Bit
<1>2. /\ a \in 0 .. Len(s) /\ a + 4 \in a .. Len(s) /\ (a + 4) - a = 4
      /\ a + 1 \in 1 .. Len(s) /\ a + 2 \in 1 .. Len(s) /\ a + 3 \in 1 .. Len(s) /\ a + 4 \in 1 .. Len(s)
  BY <1>1
<1>3. /\ w \in Seq(Bit) /\ Len(w) = (a + 4) - a
      /\ \A i \in 1 .. (a + 4) - a : w[i] = s[a + i]
  BY <1>2, Part
<1>4. Cr!ReadWord(s, a + 1) = w
  <2>1. (a + 1) + 3 = a + 4  OBVIOUS
  <2> QED  BY <2>1 DEF Cr!ReadWord
<1>5. t \in Register  BY <1>1, <1>2, RegisterIs
<1>6. t \in Seq(Bit) /\ Len(t) = 4 /\ t[1] = s[a + 1] /\ t[2] = s[a + 2] /\ t[3] = s[a + 3] /\ t[4] = s[a + 4]
  BY <1>1, <1>2 DEF Bit
<1> HIDE DEF w, t
<1>7. \A i \in 1 .. 4 : w[i] = t[i]
  <2> TAKE i \in 1 .. 4
  <2>1. i = 1 \/ i = 2 \/ i = 3 \/ i = 4  OBVIOUS
  <2>2. w[i] = s[a + i]  BY <1>2, <1>3
  <2> QED  BY <2>1, <2>2, <1>6
<1>8. w = t
  <2>1. Len(w) = 4  BY <1>2, <1>3
  <2> QED  BY <2>1, <1>3, <1>6, <1>7, SeqEqual
<1> QED  BY <1>4, <1>5, <1>8 DEF t

LEMMA TraceRegister ==
    ASSUME NEW s \in Seq(Bit), NEW c, NEW g, Trace(g, c, s), NEW a \in 0 .. Len(s)
    PROVE  g[a] \in Register
BY DEF Trace

\* A word further.
LEMMA TraceWord ==
    ASSUME Cr!ConstantsFit, NEW s \in Seq(Bit), NEW c, NEW g, Trace(g, c, s),
           NEW a \in Nat, a + 4 <= Len(s)
    PROVE  g[a + 4] = Zeros(4, Xor(g[a], Cr!ReadWord(s, a + 1)))
<1> DEFINE w == Cr!ReadWord(s, a + 1)
<1>1. Len(s) \in Nat  OBVIOUS
<1>2. /\ a \in 0 .. Len(s) /\ a + 1 \in 1 .. Len(s) /\ a + 2 \in 1 .. Len(s)
      /\ a + 3 \in 1 .. Len(s) /\ a + 4 \in 1 .. Len(s)
      /\ (a + 1) - 1 = a /\ (a + 2) - 1 = a + 1 /\ (a + 3) - 1 = a + 2 /\ (a + 4) - 1 = a + 3
  BY <1>1
<1>3. w \in Register /\ w = <<s[a + 1], s[a + 2], s[a + 3], s[a + 4]>>  BY ReadWordIs
<1> HIDE DEF w
<1>4. w[1] = s[a + 1] /\ w[2] = s[a + 2] /\ w[3] = s[a + 3] /\ w[4] = s[a + 4]  BY <1>3
<1>5. /\ g[a + 1] = Cr!DO1(g[a], w[1]) /\ g[a + 2] = Cr!DO1(g[a + 1], w[2])
      /\ g[a + 3] = Cr!DO1(g[a + 2], w[3]) /\ g[a + 4] = Cr!DO1(g[a + 3], w[4])
  BY <1>2, <1>4 DEF Trace
<1>6. g[a] \in Register  BY <1>2, TraceRegister
<1> QED  BY <1>3, <1>5, <1>6, FourDO1 DEF w

\* The loop over words of the little-endian machine.
LEMMA LittleWords ==
    ASSUME Cr!ConstantsFit, NEW s \in Seq(Bit), NEW c, NEW g, Trace(g, c, s),
           NEW a \in Nat, NEW n \in Nat, a + 4 * n <= Len(s)
    PROVE  Cr!WordSteps(Cr!DOLIT4, g[a], s, a, n) = g[a + 4 * n]
<1> DEFINE h == [i \in 0 .. n |-> g[a + 4 * i]]
           word(i) == Cr!ReadWord(s, a + 4 * i - 3)
           after[i \in 0 .. n] == IF i = 0 THEN g[a] ELSE Cr!DOLIT4(after[i - 1], word(i))
<1>0. Len(s) \in Nat  OBVIOUS
<1>1. ASSUME NEW i \in 1 .. n  PROVE g[a + 4 * i] = Cr!DOLIT4(g[a + 4 * (i - 1)], word(i))
  <2>1. /\ a + 4 * (i - 1) \in Nat /\ (a + 4 * (i - 1)) + 4 <= Len(s)
        /\ (a + 4 * (i - 1)) + 4 = a + 4 * i /\ (a + 4 * (i - 1)) + 1 = a + 4 * i - 3
        /\ a + 4 * (i - 1) \in 0 .. Len(s)
    BY <1>0
  <2>2. word(i) \in Register /\ g[a + 4 * (i - 1)] \in Register  BY <2>1, ReadWordIs, TraceRegister
  <2>3. g[a + 4 * i] = Zeros(4, Xor(g[a + 4 * (i - 1)], word(i)))  BY <2>1, TraceWord
  <2> QED  BY <2>2, <2>3, DOLIT4Is
<1>2. h = [i \in 0 .. n |-> IF i = 0 THEN g[a] ELSE Cr!DOLIT4(h[i - 1], word(i))]
  <2>1. ASSUME NEW i \in 0 .. n
        PROVE  h[i] = IF i = 0 THEN g[a] ELSE Cr!DOLIT4(h[i - 1], word(i))
    <3> HIDE DEF word
    <3>1. CASE i = 0
      <4>1. a + 4 * 0 = a /\ 0 \in 0 .. n  OBVIOUS
      <4> QED  BY <3>1, <4>1
    <3>2. CASE i # 0
      <4>1. i \in 1 .. n /\ i - 1 \in 0 .. n  BY <3>2
      <4>2. h[i] = g[a + 4 * i] /\ h[i - 1] = g[a + 4 * (i - 1)]  BY <4>1
      <4> QED  BY <1>1, <3>2, <4>1, <4>2
    <3> QED  BY <3>1, <3>2
  <2>2. h = [i \in 0 .. n |-> h[i]]  OBVIOUS
  <2> HIDE DEF h, word
  <2> QED  BY <2>1, <2>2
<1>3. after = [i \in 0 .. n |-> IF i = 0 THEN g[a] ELSE Cr!DOLIT4(after[i - 1], word(i))]
  <2> HIDE DEF h, word
  <2> QED  BY <1>2, Zenon DEF after
<1>4. Cr!WordSteps(Cr!DOLIT4, g[a], s, a, n) = after[n]  BY Zenon DEF Cr!WordSteps
<1> HIDE DEF after, h, word
<1>5. after[0] = h[0] /\ \A i \in 0 .. n - 1 : after[i] = h[i] => after[i + 1] = h[i + 1]
  <2>1. 0 \in 0 .. n /\ \A i \in 0 .. n - 1 : i + 1 \in 0 .. n /\ i + 1 # 0 /\ (i + 1) - 1 = i
    OBVIOUS
  <2>2. /\ h[0] = g[a] /\ after[0] = g[a]
        /\ \A i \in 0 .. n - 1 : /\ h[i + 1] = Cr!DOLIT4(h[i], word(i + 1))
                                 /\ after[i + 1] = Cr!DOLIT4(after[i], word(i + 1))
    BY <2>1, <1>2, <1>3
  <2> QED  BY <2>2
<1>6. after[n] = h[n]
  <2>1. \A i \in 0 .. n : after[i] = h[i]  BY <1>5, SameValues, Zenon
  <2> QED  BY <2>1
<1>7. h[n] = g[a + 4 * n]  BY DEF h
<1> QED  BY <1>4, <1>6, <1>7

-----------------------------------------------------------------------------
(* CRC: the registers of a big-endian machine, with their bytes reversed *)

LEMMA REVIs ==
    /\ \A c \in Register : /\ Cr!REV(c) \in Register /\ Cr!REV(Cr!REV(c)) = c
                           /\ Cr!REV(c)[1] = c[4] /\ Cr!REV(c)[2] = c[3]
                           /\ Cr!REV(c)[3] = c[2] /\ Cr!REV(c)[4] = c[1]
                           /\ Cr!REV(Cr!Not(c)) = Cr!Not(Cr!REV(c))
    /\ \A a, b \in Register : Cr!REV(Xor(a, b)) = Xor(Cr!REV(a), Cr!REV(b))
<1>1. ASSUME NEW c \in Register
      PROVE  /\ Cr!REV(c) \in Register /\ Cr!REV(Cr!REV(c)) = c
             /\ Cr!REV(c)[1] = c[4] /\ Cr!REV(c)[2] = c[3]
             /\ Cr!REV(c)[3] = c[2] /\ Cr!REV(c)[4] = c[1]
  <2>1. /\ c[1] \in 0 .. 1 /\ c[2] \in 0 .. 1 /\ c[3] \in 0 .. 1 /\ c[4] \in 0 .. 1
        /\ c = <<c[1], c[2], c[3], c[4]>>
    BY ByBits
  <2>2. Cr!REV(c) = <<c[4], c[3], c[2], c[1]>>  BY DEF Cr!REV
  <2>3. Cr!REV(c) \in Register  BY <2>1, <2>2, RegisterIs
  <2>4. Cr!REV(<<c[4], c[3], c[2], c[1]>>) = <<c[1], c[2], c[3], c[4]>>  BY DEF Cr!REV
  <2> QED  BY <2>1, <2>2, <2>3, <2>4
<1>2. ASSUME NEW a \in Register, NEW b \in Register
      PROVE  Cr!REV(Xor(a, b)) = Xor(Cr!REV(a), Cr!REV(b))
  <2> DEFINE l == Cr!REV(Xor(a, b))
             r == Xor(Cr!REV(a), Cr!REV(b))
  <2>1. /\ Xor(a, b) \in Register /\ Cr!REV(a) \in Register /\ Cr!REV(b) \in Register
        /\ l \in Register /\ r \in Register
    BY <1>1, XorType
  <2>2. /\ l[1] = Xor(a, b)[4] /\ l[2] = Xor(a, b)[3] /\ l[3] = Xor(a, b)[2] /\ l[4] = Xor(a, b)[1]
    BY <1>1, <2>1
  <2>3. /\ r[1] = Xor(a, b)[4] /\ r[2] = Xor(a, b)[3] /\ r[3] = Xor(a, b)[2] /\ r[4] = Xor(a, b)[1]
    BY <1>1, <2>1, XorBits
  <2> HIDE DEF l, r
  <2>4. l = r  BY <2>1, <2>2, <2>3, SameBits
  <2> QED  BY <2>4 DEF l, r
<1>3. ASSUME NEW c \in Register  PROVE Cr!REV(Cr!Not(c)) = Cr!Not(Cr!REV(c))
  <2> DEFINE o == <<1, 1, 1, 1>>
  <2>1. o \in Register /\ Cr!REV(o) = o  BY RegisterIs DEF Cr!REV
  <2>2. Cr!Not(c) = Xor(c, o) /\ Cr!Not(Cr!REV(c)) = Xor(Cr!REV(c), o)  BY Zenon DEF Cr!Not, Xor
  <2> HIDE DEF o
  <2> QED  BY <2>1, <2>2, <1>2
<1> QED  BY <1>1, <1>2, <1>3

LEMMA DO1BigIs ==
    ASSUME Cr!ConstantsFit, NEW c \in Register, NEW b \in 0 .. 1
    PROVE  Cr!DO1Big(Cr!REV(c), b) = Cr!REV(Cr!DO1(c, b))
<1> DEFINE x == (c[1] + b) % 2
<1>1. /\ c[1] \in 0 .. 1 /\ c[2] \in 0 .. 1 /\ c[3] \in 0 .. 1 /\ c[4] \in 0 .. 1
  BY ByBits
<1>2. x \in 0 .. 1  BY <1>1, BitXor
<1>3. Cr!Table(0, x) = Cr!Table0(x)
  <2>1. 0 \in Nat /\ 0 + 1 = 1  OBVIOUS
  <2> HIDE DEF x
  <2>2. Cr!Table(0, x) = Zeros(0 + 1, Front(x))  BY <1>2, <2>1, TableIs
  <2> QED  BY <1>2, <2>1, <2>2, FirstTable
<1>4. Cr!ShiftLeft(Cr!REV(c)) = Cr!REV(Cr!ShiftRight(c))
  <2>1. Cr!REV(c) = <<c[4], c[3], c[2], c[1]>> /\ Cr!ShiftRight(c) = <<c[2], c[3], c[4], 0>>
    BY DEF Cr!REV, Cr!ShiftRight
  <2>2. Cr!ShiftLeft(<<c[4], c[3], c[2], c[1]>>) = <<0, c[4], c[3], c[2]>>  BY DEF Cr!ShiftLeft
  <2>3. Cr!REV(<<c[2], c[3], c[4], 0>>) = <<0, c[4], c[3], c[2]>>  BY DEF Cr!REV
  <2> QED  BY <2>1, <2>2, <2>3
<1>5. Cr!DO1Big(Cr!REV(c), b) = Xor(Cr!REV(Cr!Table(0, x)), Cr!ShiftLeft(Cr!REV(c)))
  <2>1. Cr!REV(c)[4] = c[1]  BY REVIs
  <2> QED  BY <2>1, Zenon DEF Cr!DO1Big, Xor
<1>6. Cr!DO1(c, b) = Xor(Cr!Table0(x), Cr!ShiftRight(c))  BY DO1Is
<1> HIDE DEF x
<1>7. Cr!Table0(x) \in Register /\ Cr!ShiftRight(c) \in Register  BY <1>2, Table0Is, ShiftRightIs
<1> QED  BY <1>3, <1>4, <1>5, <1>6, <1>7, REVIs

LEMMA DOBIG4Is ==
    ASSUME Cr!ConstantsFit, NEW c \in Register, NEW w \in Register
    PROVE  Cr!DOBIG4(Cr!REV(c), w) = Cr!REV(Cr!DOLIT4(c, w))
<1> DEFINE y == Xor(c, w)
           x == Xor(Cr!REV(c), Cr!REV(w))
<1>1. y \in Register /\ x = Cr!REV(y)  BY XorType, REVIs
<1>2. Cr!DOBIG4(Cr!REV(c), w) = Cr!Xor4(Cr!REV(Cr!Table(0, x[1])), Cr!REV(Cr!Table(1, x[2])),
                                        Cr!REV(Cr!Table(2, x[3])), Cr!REV(Cr!Table(3, x[4])))
  BY Zenon DEF Cr!DOBIG4, Xor
<1>3. Cr!DOLIT4(c, w) = Cr!Xor4(Cr!Table(3, y[1]), Cr!Table(2, y[2]), Cr!Table(1, y[3]), Cr!Table(0, y[4]))
  BY Zenon DEF Cr!DOLIT4, Xor
<1> HIDE DEF x, y
<1>4. x[1] = y[4] /\ x[2] = y[3] /\ x[3] = y[2] /\ x[4] = y[1]  BY <1>1, REVIs
<1> DEFINE t3 == Cr!Table(3, y[1])
           t2 == Cr!Table(2, y[2])
           t1 == Cr!Table(1, y[3])
           t0 == Cr!Table(0, y[4])
<1>5. t0 \in Register /\ t1 \in Register /\ t2 \in Register /\ t3 \in Register
  <2>1. /\ y[1] \in 0 .. 1 /\ y[2] \in 0 .. 1 /\ y[3] \in 0 .. 1 /\ y[4] \in 0 .. 1
    BY <1>1, ByBits
  <2>2. 0 \in Nat /\ 1 \in Nat /\ 2 \in Nat /\ 3 \in Nat  OBVIOUS
  <2> QED  BY <2>1, <2>2, TableIs
<1> HIDE DEF t0, t1, t2, t3
<1>6. Cr!DOBIG4(Cr!REV(c), w) = Xor(Xor(Cr!REV(t0), Cr!REV(t1)), Xor(Cr!REV(t2), Cr!REV(t3)))
  BY <1>2, <1>4, Zenon DEF Cr!Xor4, Xor, t0, t1, t2, t3
<1>7. Cr!DOLIT4(c, w) = Xor(Xor(t3, t2), Xor(t1, t0))  BY <1>3, Zenon DEF Cr!Xor4, Xor, t0, t1, t2, t3
<1>8. Xor(Xor(t3, t2), Xor(t1, t0)) = Xor(Xor(t0, t1), Xor(t2, t3))
  <2>1. /\ Xor(t3, t2) = Xor(t2, t3) /\ Xor(t1, t0) = Xor(t0, t1)
        /\ Xor(t2, t3) \in Register /\ Xor(t0, t1) \in Register
    BY <1>5, XorRules, XorType
  <2> QED  BY <2>1, XorRules
<1>9. Cr!REV(Xor(Xor(t0, t1), Xor(t2, t3))) = Xor(Xor(Cr!REV(t0), Cr!REV(t1)), Xor(Cr!REV(t2), Cr!REV(t3)))
  <2>1. Xor(t2, t3) \in Register /\ Xor(t0, t1) \in Register  BY <1>5, XorType
  <2>2. Cr!REV(Xor(Xor(t0, t1), Xor(t2, t3))) = Xor(Cr!REV(Xor(t0, t1)), Cr!REV(Xor(t2, t3)))
    BY <2>1, REVIs
  <2> QED  BY <2>2, <1>5, REVIs
<1> QED  BY <1>6, <1>7, <1>8, <1>9

\* Its loop over words.
LEMMA BigWords ==
    ASSUME Cr!ConstantsFit, NEW s \in Seq(Bit), NEW c, NEW g, Trace(g, c, s),
           NEW a \in Nat, NEW n \in Nat, a + 4 * n <= Len(s)
    PROVE  Cr!WordSteps(Cr!DOBIG4, Cr!REV(g[a]), s, a, n) = Cr!REV(g[a + 4 * n])
<1> DEFINE h == [i \in 0 .. n |-> Cr!REV(g[a + 4 * i])]
           word(i) == Cr!ReadWord(s, a + 4 * i - 3)
           after[i \in 0 .. n] == IF i = 0 THEN Cr!REV(g[a]) ELSE Cr!DOBIG4(after[i - 1], word(i))
<1>0. Len(s) \in Nat  OBVIOUS
<1>1. ASSUME NEW i \in 1 .. n
      PROVE  Cr!REV(g[a + 4 * i]) = Cr!DOBIG4(Cr!REV(g[a + 4 * (i - 1)]), word(i))
  <2>1. /\ a + 4 * (i - 1) \in Nat /\ (a + 4 * (i - 1)) + 4 <= Len(s)
        /\ (a + 4 * (i - 1)) + 4 = a + 4 * i /\ (a + 4 * (i - 1)) + 1 = a + 4 * i - 3
        /\ a + 4 * (i - 1) \in 0 .. Len(s)
    BY <1>0
  <2>2. word(i) \in Register /\ g[a + 4 * (i - 1)] \in Register  BY <2>1, ReadWordIs, TraceRegister
  <2>3. g[a + 4 * i] = Zeros(4, Xor(g[a + 4 * (i - 1)], word(i)))  BY <2>1, TraceWord
  <2>4. Cr!DOLIT4(g[a + 4 * (i - 1)], word(i)) = g[a + 4 * i]  BY <2>2, <2>3, DOLIT4Is
  <2> QED  BY <2>2, <2>4, DOBIG4Is
<1>2. h = [i \in 0 .. n |-> IF i = 0 THEN Cr!REV(g[a]) ELSE Cr!DOBIG4(h[i - 1], word(i))]
  <2>1. ASSUME NEW i \in 0 .. n
        PROVE  h[i] = IF i = 0 THEN Cr!REV(g[a]) ELSE Cr!DOBIG4(h[i - 1], word(i))
    <3> HIDE DEF word
    <3>1. CASE i = 0
      <4>1. a + 4 * 0 = a /\ 0 \in 0 .. n  OBVIOUS
      <4> QED  BY <3>1, <4>1
    <3>2. CASE i # 0
      <4>1. i \in 1 .. n /\ i - 1 \in 0 .. n  BY <3>2
      <4>2. h[i] = Cr!REV(g[a + 4 * i]) /\ h[i - 1] = Cr!REV(g[a + 4 * (i - 1)])  BY <4>1
      <4> QED  BY <1>1, <3>2, <4>1, <4>2
    <3> QED  BY <3>1, <3>2
  <2>2. h = [i \in 0 .. n |-> h[i]]  OBVIOUS
  <2> HIDE DEF h, word
  <2> QED  BY <2>1, <2>2
<1>3. after = [i \in 0 .. n |-> IF i = 0 THEN Cr!REV(g[a]) ELSE Cr!DOBIG4(after[i - 1], word(i))]
  <2> HIDE DEF h, word
  <2> QED  BY <1>2, Zenon DEF after
<1>4. Cr!WordSteps(Cr!DOBIG4, Cr!REV(g[a]), s, a, n) = after[n]  BY Zenon DEF Cr!WordSteps
<1> HIDE DEF after, h, word
<1>5. after[0] = h[0] /\ \A i \in 0 .. n - 1 : after[i] = h[i] => after[i + 1] = h[i + 1]
  <2>1. 0 \in 0 .. n /\ \A i \in 0 .. n - 1 : i + 1 \in 0 .. n /\ i + 1 # 0 /\ (i + 1) - 1 = i
    OBVIOUS
  <2>2. /\ h[0] = Cr!REV(g[a]) /\ after[0] = Cr!REV(g[a])
        /\ \A i \in 0 .. n - 1 : /\ h[i + 1] = Cr!DOBIG4(h[i], word(i + 1))
                                 /\ after[i + 1] = Cr!DOBIG4(after[i], word(i + 1))
    BY <2>1, <1>2, <1>3
  <2> QED  BY <2>2
<1>6. after[n] = h[n]
  <2>1. \A i \in 0 .. n : after[i] = h[i]  BY <1>5, SameValues, Zenon
  <2> QED  BY <2>1
<1>7. h[n] = Cr!REV(g[a + 4 * n])  BY DEF h
<1> QED  BY <1>4, <1>6, <1>7

BigBytes(c, s) ==
    LET after[i \in 0 .. Len(s)] == IF i = 0 THEN c ELSE Cr!DO1Big(after[i - 1], s[i])
    IN  after[Len(s)]

\* Its loops over bytes.
LEMMA BigBytesIs ==
    ASSUME Cr!ConstantsFit, NEW s \in Seq(Bit), NEW c, NEW g, Trace(g, c, s),
           NEW a \in 0 .. Len(s), NEW b \in a .. Len(s)
    PROVE  BigBytes(Cr!REV(g[a]), SubSeq(s, a + 1, b)) = Cr!REV(g[b])
<1> DEFINE t == SubSeq(s, a + 1, b)
           n == b - a
           h == [i \in 0 .. n |-> Cr!REV(g[a + i])]
           after[i \in 0 .. Len(t)] == IF i = 0 THEN Cr!REV(g[a]) ELSE Cr!DO1Big(after[i - 1], t[i])
<1>1. /\ t \in Seq(Bit) /\ Len(t) = n /\ \A i \in 1 .. n : t[i] = s[a + i]
      /\ n \in Nat /\ a \in Nat /\ a + n = b /\ b <= Len(s) /\ Len(s) \in Nat
  BY Part
<1>2. \A i \in 1 .. Len(s) : g[i] = Cr!DO1(g[i - 1], s[i]) /\ g[i - 1] \in Register
  BY <1>1 DEF Trace
<1>b. \A i \in 1 .. Len(s) : s[i] \in 0 .. 1  BY DEF Bit
<1>e. BigBytes(Cr!REV(g[a]), t) = after[Len(t)]  BY Zenon DEF BigBytes
<1> HIDE DEF t, n
<1>3. ASSUME NEW i \in 1 .. n
      PROVE  Cr!REV(g[a + i]) = Cr!DO1Big(Cr!REV(g[a + (i - 1)]), t[i])
  <2>1. a + i \in 1 .. Len(s) /\ (a + i) - 1 = a + (i - 1)  BY <1>1
  <2>2. g[a + i] = Cr!DO1(g[a + (i - 1)], t[i]) /\ g[a + (i - 1)] \in Register /\ t[i] \in 0 .. 1
    BY <2>1, <1>1, <1>2, <1>b
  <2> QED  BY <2>2, DO1BigIs
<1>4. h = [i \in 0 .. Len(t) |-> IF i = 0 THEN Cr!REV(g[a]) ELSE Cr!DO1Big(h[i - 1], t[i])]
  <2>1. ASSUME NEW i \in 0 .. n
        PROVE  h[i] = IF i = 0 THEN Cr!REV(g[a]) ELSE Cr!DO1Big(h[i - 1], t[i])
    <3>1. CASE i = 0
      <4>1. a + 0 = a /\ 0 \in 0 .. n  BY <1>1
      <4> QED  BY <3>1, <4>1
    <3>2. CASE i # 0
      <4>1. i \in 1 .. n /\ i - 1 \in 0 .. n  BY <1>1, <3>2
      <4>2. h[i] = Cr!REV(g[a + i]) /\ h[i - 1] = Cr!REV(g[a + (i - 1)])  BY <4>1
      <4> QED  BY <3>2, <4>1, <4>2, <1>3
    <3> QED  BY <3>1, <3>2
  <2>2. h = [i \in 0 .. n |-> h[i]]  OBVIOUS
  <2> HIDE DEF h
  <2> QED  BY <2>1, <2>2, <1>1
<1>5. after = [i \in 0 .. Len(t) |-> IF i = 0 THEN Cr!REV(g[a]) ELSE Cr!DO1Big(after[i - 1], t[i])]
  <2> HIDE DEF h
  <2> QED  BY <1>4, Zenon DEF after
<1> HIDE DEF after, h
<1>6. after[0] = h[0] /\ \A i \in 0 .. n - 1 : after[i] = h[i] => after[i + 1] = h[i + 1]
  <2>1. /\ 0 \in 0 .. Len(t)
        /\ \A i \in 0 .. n - 1 : i + 1 \in 0 .. Len(t) /\ i + 1 # 0 /\ (i + 1) - 1 = i
    BY <1>1
  <2>2. /\ h[0] = Cr!REV(g[a]) /\ after[0] = Cr!REV(g[a])
        /\ \A i \in 0 .. n - 1 : /\ h[i + 1] = Cr!DO1Big(h[i], t[i + 1])
                                 /\ after[i + 1] = Cr!DO1Big(after[i], t[i + 1])
    BY <2>1, <1>4, <1>5
  <2> QED  BY <2>2
<1>7. after[n] = h[n]
  <2>1. n \in Nat /\ n \in 0 .. n  BY <1>1
  <2>2. \A i \in 0 .. n : after[i] = h[i]  BY <2>1, <1>6, SameValues, Zenon
  <2> QED  BY <2>1, <2>2
<1>8. h[n] = Cr!REV(g[b])  BY <1>1 DEF h
<1> QED  BY <1>1, <1>7, <1>8, <1>e DEF t

-----------------------------------------------------------------------------
(* CRC-32: every build computes the register byte by byte *)

\* The loops cut a buffer into bytes, words and bytes.
LEMMA CutIntoWords ==
    ASSUME Cr!ConstantsFit, NEW ptr \in 0 .. 3, NEW len \in Nat
    PROVE  LET p == Cr!Prologue(ptr, len)
               n == Cr!Rounds(len - p)
               k == Cr!Singles(len - p)
           IN  /\ p \in 0 .. len /\ n \in Nat /\ k \in Nat
               /\ p + 4 * n <= len /\ (p + 4 * n) + 4 * k <= len
               /\ p + 4 * (n + k) = (p + 4 * n) + 4 * k
<1> DEFINE p == Cr!Prologue(ptr, len)
           rest == len - p
           u == 4 * Unroll
           q == rest \div u
           r == rest % u
           n == Cr!Rounds(rest)
           k == Cr!Singles(rest)
<1>1. p \in 0 .. len
  <2>1. (4 - ptr) % 4 \in Nat
    <3>1. ptr = 0 \/ ptr = 1 \/ ptr = 2 \/ ptr = 3  OBVIOUS
    <3> QED  BY <3>1
  <2> QED  BY <2>1 DEF Cr!Prologue
<1>2. Unroll \in Nat \ {0} /\ u \in Nat \ {0}  BY DEF Cr!ConstantsFit
<1>3. n = Unroll * q /\ k = r \div 4  BY DEF Cr!Rounds, Cr!Singles
<1> HIDE DEF p, n, k
<1>4. rest \in Nat  BY <1>1
<1> HIDE DEF rest, u
<1>5. q \in Int /\ r \in 0 .. u - 1 /\ rest = q * u + r  BY <1>2, <1>4, DivMod
<1> HIDE DEF q, r
<1>6. q \in Nat
  <2>1. 0 \in Int /\ 0 * u = 0  BY <1>2
  <2>2. 0 > q => 0 * u >= q * u + u  BY <1>2, <1>5, <2>1, MultiplesApart
  <2>3. q * u \in Int  BY <1>2, <1>5
  <2> DEFINE m == q * u
  <2> HIDE DEF m
  <2>4. ~ (0 > q)
    <3>1. m \in Int /\ rest = m + r /\ (0 > q => 0 >= m + u)  BY <2>1, <2>2, <2>3, <1>5 DEF m
    <3> QED  BY <3>1, <1>2, <1>4, <1>5
  <2> QED  BY <2>4, <1>5
<1>7. n \in Nat /\ 4 * n = q * u
  <2>1. Unroll * q \in Nat /\ 4 * (Unroll * q) = q * (4 * Unroll)  BY <1>2, <1>6
  <2> QED  BY <2>1, <1>3 DEF u
<1>8. k \in Nat /\ 4 * k <= r
  <2>1. r \in Nat  BY <1>2, <1>5
  <2> QED  BY <2>1, <1>3
<1>9. rest = len - p  BY DEF rest
<1>10. n \in Nat /\ 4 * n + r = rest /\ r \in Nat
  <2>1. r \in Nat  BY <1>2, <1>5
  <2> QED  BY <2>1, <1>5, <1>7
<1>11. p + 4 * n <= len /\ (p + 4 * n) + 4 * k <= len /\ p + 4 * (n + k) = (p + 4 * n) + 4 * k
  BY <1>1, <1>8, <1>9, <1>10
<1> QED  BY <1>1, <1>7, <1>8, <1>11 DEF p, n, k, rest

LEMMA LittleIs ==
    ASSUME Cr!ConstantsFit, NEW val \in Register, NEW buf \in Seq(Bit), NEW ptr \in 0 .. 3,
           NEW g, Trace(g, Cr!Not(val), buf)
    PROVE  Cr!digest_crc32_little(val, buf, ptr) = Cr!Not(g[Len(buf)])
<1> DEFINE len == Len(buf)
           p == Cr!Prologue(ptr, len)
           n == Cr!Rounds(len - p)
           k == Cr!Singles(len - p)
           c == Cr!Bytes(Cr!Not(val), SubSeq(buf, 1, p))
           round == Cr!WordSteps(Cr!DOLIT4, c, buf, p, n)
           word == Cr!WordSteps(Cr!DOLIT4, round, buf, p + 4 * n, k)
<1>1. Cr!digest_crc32_little(val, buf, ptr) = Cr!Not(Cr!Bytes(word, SubSeq(buf, p + 4 * (n + k) + 1, len)))
  BY Zenon DEF Cr!digest_crc32_little
<1>2. len \in Nat  OBVIOUS
<1>3. /\ p \in 0 .. len /\ n \in Nat /\ k \in Nat
      /\ p + 4 * n <= len /\ (p + 4 * n) + 4 * k <= len
      /\ p + 4 * (n + k) = (p + 4 * n) + 4 * k
  <2> HIDE DEF len
  <2> QED  BY <1>2, CutIntoWords
<1> HIDE DEF p, n, k
<1>4. c = g[p]
  <2>1. 0 \in 0 .. Len(buf) /\ p \in 0 .. Len(buf) /\ 0 + 1 = 1 /\ g[0] = Cr!Not(val)
    BY <1>2, <1>3 DEF Trace
  <2>2. Cr!Bytes(g[0], SubSeq(buf, 0 + 1, p)) = g[p]  BY <2>1, BytesIs
  <2> QED  BY <2>1, <2>2
<1> HIDE DEF c
<1>5. round = g[p + 4 * n]
  <2>1. p \in Nat /\ p + 4 * n <= Len(buf)  BY <1>3
  <2>2. Cr!WordSteps(Cr!DOLIT4, g[p], buf, p, n) = g[p + 4 * n]  BY <2>1, <1>3, LittleWords
  <2> QED  BY <2>2, <1>4
<1> HIDE DEF round
<1> DEFINE m == p + 4 * n
<1>6. word = g[m + 4 * k]
  <2>1. m \in Nat /\ m + 4 * k <= Len(buf)  BY <1>3
  <2> HIDE DEF m
  <2>2. Cr!WordSteps(Cr!DOLIT4, g[m], buf, m, k) = g[m + 4 * k]  BY <2>1, <1>3, LittleWords
  <2> QED  BY <2>2, <1>5 DEF m
<1> HIDE DEF word
<1>7. Cr!Bytes(g[m + 4 * k], SubSeq(buf, (m + 4 * k) + 1, len)) = g[len]
  <2> DEFINE a == m + 4 * k
  <2>1. a \in 0 .. Len(buf) /\ len \in a .. Len(buf)  BY <1>2, <1>3
  <2> HIDE DEF a, len
  <2>2. Cr!Bytes(g[a], SubSeq(buf, a + 1, len)) = g[len]  BY <2>1, BytesIs
  <2> QED  BY <2>2 DEF a
<1>8. p + 4 * (n + k) + 1 = (m + 4 * k) + 1  BY <1>3
<1> QED  BY <1>1, <1>6, <1>7, <1>8

LEMMA BigIs ==
    ASSUME Cr!ConstantsFit, NEW val \in Register, NEW buf \in Seq(Bit), NEW ptr \in 0 .. 3,
           NEW g, Trace(g, Cr!Not(val), buf)
    PROVE  Cr!digest_crc32_big(val, buf, ptr) = Cr!Not(g[Len(buf)])
<1> DEFINE len == Len(buf)
           p == Cr!Prologue(ptr, len)
           n == Cr!Rounds(len - p)
           k == Cr!Singles(len - p)
           c == BigBytes(Cr!Not(Cr!REV(val)), SubSeq(buf, 1, p))
           round == Cr!WordSteps(Cr!DOBIG4, c, buf, p, n)
           word == Cr!WordSteps(Cr!DOBIG4, round, buf, p + 4 * n, k)
<1>1. Cr!digest_crc32_big(val, buf, ptr)
        = Cr!REV(Cr!Not(BigBytes(word, SubSeq(buf, p + 4 * (n + k) + 1, len))))
  BY Zenon DEF Cr!digest_crc32_big, BigBytes
<1>2. len \in Nat  OBVIOUS
<1>3. /\ p \in 0 .. len /\ n \in Nat /\ k \in Nat
      /\ p + 4 * n <= len /\ (p + 4 * n) + 4 * k <= len
      /\ p + 4 * (n + k) = (p + 4 * n) + 4 * k
  <2> HIDE DEF len
  <2> QED  BY <1>2, CutIntoWords
<1> HIDE DEF p, n, k
<1>4. c = Cr!REV(g[p])
  <2>1. /\ 0 \in 0 .. Len(buf) /\ p \in 0 .. Len(buf) /\ 0 + 1 = 1 /\ g[0] = Cr!Not(val)
        /\ Cr!Not(Cr!REV(val)) = Cr!REV(Cr!Not(val))
    BY <1>2, <1>3, REVIs DEF Trace
  <2>2. BigBytes(Cr!REV(g[0]), SubSeq(buf, 0 + 1, p)) = Cr!REV(g[p])  BY <2>1, BigBytesIs
  <2> QED  BY <2>1, <2>2
<1> HIDE DEF c
<1>5. round = Cr!REV(g[p + 4 * n])
  <2>1. p \in Nat /\ p + 4 * n <= Len(buf)  BY <1>3
  <2>2. Cr!WordSteps(Cr!DOBIG4, Cr!REV(g[p]), buf, p, n) = Cr!REV(g[p + 4 * n])  BY <2>1, <1>3, BigWords
  <2> QED  BY <2>2, <1>4
<1> HIDE DEF round
<1> DEFINE m == p + 4 * n
<1>6. word = Cr!REV(g[m + 4 * k])
  <2>1. m \in Nat /\ m + 4 * k <= Len(buf)  BY <1>3
  <2> HIDE DEF m
  <2>2. Cr!WordSteps(Cr!DOBIG4, Cr!REV(g[m]), buf, m, k) = Cr!REV(g[m + 4 * k])  BY <2>1, <1>3, BigWords
  <2> QED  BY <2>2, <1>5 DEF m
<1> HIDE DEF word
<1>7. BigBytes(Cr!REV(g[m + 4 * k]), SubSeq(buf, (m + 4 * k) + 1, len)) = Cr!REV(g[len])
  <2> DEFINE a == m + 4 * k
  <2>1. a \in 0 .. Len(buf) /\ len \in a .. Len(buf)  BY <1>2, <1>3
  <2> HIDE DEF a, len
  <2>2. BigBytes(Cr!REV(g[a]), SubSeq(buf, a + 1, len)) = Cr!REV(g[len])  BY <2>1, BigBytesIs
  <2> QED  BY <2>2 DEF a
<1>8. p + 4 * (n + k) + 1 = (m + 4 * k) + 1  BY <1>3
<1>9. g[len] \in Register
  <2>1. len \in 0 .. Len(buf)  BY <1>2
  <2> HIDE DEF len
  <2> QED  BY <2>1, TraceRegister
<1>10. Cr!REV(Cr!Not(Cr!REV(g[len]))) = Cr!Not(g[len])
  <2> HIDE DEF len
  <2>1. Cr!REV(g[len]) \in Register /\ Cr!REV(Cr!REV(g[len])) = g[len]  BY <1>9, REVIs
  <2> QED  BY <2>1, REVIs
<1> QED  BY <1>1, <1>6, <1>7, <1>8, <1>10

-----------------------------------------------------------------------------
(* CRC-32C: four registers, a word of each stride apart *)

\* The four registers as one, taken over their four words.
Joined(x1, x2, x3, x4) == Zeros(4, Xor(x4, Zeros(4, Xor(x3, Zeros(4, Xor(x2, Zeros(4, x1)))))))

LEMMA JoinedType ==
    ASSUME Cr!ConstantsFit,
           NEW x1 \in Register, NEW x2 \in Register, NEW x3 \in Register, NEW x4 \in Register
    PROVE  Joined(x1, x2, x3, x4) \in Register
<1>1. \A c \in Register : Zeros(4, c) \in Register  BY ZerosSteps
<1>2. Zeros(4, x1) \in Register  BY <1>1
<1>3. Zeros(4, Xor(x2, Zeros(4, x1))) \in Register  BY <1>1, <1>2, XorType
<1>4. Zeros(4, Xor(x3, Zeros(4, Xor(x2, Zeros(4, x1))))) \in Register  BY <1>1, <1>3, XorType
<1> QED  BY <1>1, <1>4, XorType DEF Joined

JoinedSum(x1, x2, x3, x4, y1, y2, y3, y4) ==
    Joined(Xor(x1, y1), Xor(x2, y2), Xor(x3, y3), Xor(x4, y4))
        = Xor(Joined(x1, x2, x3, x4), Joined(y1, y2, y3, y4))

LEMMA JoinedLinear ==
    ASSUME Cr!ConstantsFit,
           NEW x1 \in Register, NEW x2 \in Register, NEW x3 \in Register, NEW x4 \in Register,
           NEW y1 \in Register, NEW y2 \in Register, NEW y3 \in Register, NEW y4 \in Register
    PROVE  JoinedSum(x1, x2, x3, x4, y1, y2, y3, y4)
<1> DEFINE Z(c) == Zeros(4, c)
<1>1. \A c \in Register : Z(c) \in Register  BY ZerosSteps
<1>2. \A c, d \in Register : Z(Xor(c, d)) = Xor(Z(c), Z(d))
  <2>1. 4 \in Nat  OBVIOUS
  <2> QED  BY <2>1, ZerosLinear
<1> DEFINE Swap(c, d, e, f) ==
              /\ Z(Xor(Xor(c, d), Xor(e, f))) = Xor(Z(Xor(c, e)), Z(Xor(d, f)))
              /\ Z(Xor(c, e)) \in Register /\ Z(Xor(d, f)) \in Register
<1>3. ASSUME NEW c \in Register, NEW d \in Register, NEW e \in Register, NEW f \in Register
      PROVE  Swap(c, d, e, f)
  <2>1. Xor(Xor(c, d), Xor(e, f)) = Xor(Xor(c, e), Xor(d, f))  BY XorSwap
  <2>2. Xor(c, e) \in Register /\ Xor(d, f) \in Register  BY XorType
  <2> HIDE DEF Z
  <2> QED  BY <2>1, <2>2, <1>1, <1>2
<1> DEFINE u1 == Z(x1)
           v1 == Z(y1)
           u2 == Z(Xor(x2, u1))
           v2 == Z(Xor(y2, v1))
           u3 == Z(Xor(x3, u2))
           v3 == Z(Xor(y3, v2))
<1>4. Z(Xor(x1, y1)) = Xor(u1, v1) /\ u1 \in Register /\ v1 \in Register  BY <1>1, <1>2
<1>5. Joined(x1, x2, x3, x4) = Z(Xor(x4, u3)) /\ Joined(y1, y2, y3, y4) = Z(Xor(y4, v3))
  BY Zenon DEF Joined
<1>6. Joined(Xor(x1, y1), Xor(x2, y2), Xor(x3, y3), Xor(x4, y4))
        = Z(Xor(Xor(x4, y4), Z(Xor(Xor(x3, y3), Z(Xor(Xor(x2, y2), Z(Xor(x1, y1))))))))
  BY Zenon DEF Joined
<1> HIDE DEF Z, Swap, u1, v1
<1>7. Z(Xor(Xor(x2, y2), Xor(u1, v1))) = Xor(u2, v2) /\ u2 \in Register /\ v2 \in Register
  <2>1. Swap(x2, y2, u1, v1)  BY <1>3, <1>4
  <2> QED  BY <2>1 DEF Swap
<1> HIDE DEF u2, v2
<1>8. Z(Xor(Xor(x3, y3), Xor(u2, v2))) = Xor(u3, v3) /\ u3 \in Register /\ v3 \in Register
  <2>1. Swap(x3, y3, u2, v2)  BY <1>3, <1>7
  <2> QED  BY <2>1 DEF Swap
<1> HIDE DEF u3, v3
<1>9. Z(Xor(Xor(x4, y4), Xor(u3, v3))) = Xor(Z(Xor(x4, u3)), Z(Xor(y4, v3)))
  <2>1. Swap(x4, y4, u3, v3)  BY <1>3, <1>8
  <2> QED  BY <2>1 DEF Swap
<1> QED  BY <1>4, <1>5, <1>6, <1>7, <1>8, <1>9 DEF JoinedSum

\* Sixteen zero bytes, before or after.
LEMMA JoinedZeros ==
    ASSUME Cr!ConstantsFit,
           NEW x1 \in Register, NEW x2 \in Register, NEW x3 \in Register, NEW x4 \in Register
    PROVE  Joined(Zeros(16, x1), Zeros(16, x2), Zeros(16, x3), Zeros(16, x4))
             = Zeros(16, Joined(x1, x2, x3, x4))
<1> DEFINE Z(c) == Zeros(4, c)
           Y(c) == Zeros(16, c)
<1>1. \A c \in Register : Z(c) \in Register /\ Y(c) \in Register  BY ZerosSteps
<1>2. \A c \in Register : Z(Y(c)) = Y(Z(c))
  <2> TAKE c \in Register
  <2>1. 4 \in Nat /\ 16 \in Nat /\ 4 + 16 = 20 /\ 16 + 4 = 20  OBVIOUS
  <2> QED  BY <2>1, ZerosSum
<1>3. \A c, d \in Register : Z(Xor(Y(c), Y(d))) = Y(Z(Xor(c, d)))
  <2> TAKE c, d \in Register
  <2>1. 16 \in Nat  OBVIOUS
  <2>2. Xor(Y(c), Y(d)) = Y(Xor(c, d))  BY <2>1, ZerosLinear
  <2>3. Xor(c, d) \in Register  BY XorType
  <2> HIDE DEF Z, Y
  <2> QED  BY <2>2, <2>3, <1>2
<1> DEFINE u1 == Z(x1)
           u2 == Z(Xor(x2, u1))
           u3 == Z(Xor(x3, u2))
<1>4. u1 \in Register /\ Z(Y(x1)) = Y(u1)  BY <1>1, <1>2
<1>5. Joined(x1, x2, x3, x4) = Z(Xor(x4, u3))  BY Zenon DEF Joined
<1>6. Joined(Y(x1), Y(x2), Y(x3), Y(x4)) = Z(Xor(Y(x4), Z(Xor(Y(x3), Z(Xor(Y(x2), Z(Y(x1))))))))
  BY Zenon DEF Joined
<1> HIDE DEF Z, Y, u1
<1>7. u2 \in Register /\ Z(Xor(Y(x2), Y(u1))) = Y(u2)  BY <1>1, <1>3, <1>4, XorType
<1> HIDE DEF u2
<1>8. u3 \in Register /\ Z(Xor(Y(x3), Y(u2))) = Y(u3)  BY <1>1, <1>3, <1>7, XorType
<1> HIDE DEF u3
<1>9. Z(Xor(Y(x4), Y(u3))) = Y(Z(Xor(x4, u3)))  BY <1>3, <1>8
<1>10. Joined(Y(x1), Y(x2), Y(x3), Y(x4)) = Y(Joined(x1, x2, x3, x4))
  BY <1>4, <1>5, <1>6, <1>7, <1>8, <1>9
<1> QED  BY <1>10 DEF Y

\* One register before the others, and the others without it.
LEMMA JoinedFirst ==
    ASSUME Cr!ConstantsFit,
           NEW x1 \in Register, NEW x2 \in Register, NEW x3 \in Register, NEW x4 \in Register
    PROVE  /\ Joined(x1, ZeroWord, ZeroWord, ZeroWord) = Zeros(16, x1)
           /\ Joined(x1, x2, x3, x4)
                = Xor(Zeros(16, x1), Zeros(4, Xor(x4, Zeros(4, Xor(x3, Zeros(4, x2))))))
<1> DEFINE Z(c) == Zeros(4, c)
<1>1. \A c \in Register : Z(c) \in Register  BY ZerosSteps
<1>2. Z(ZeroWord) = ZeroWord
  <2>1. 4 \in Nat  OBVIOUS
  <2> QED  BY <2>1, ZerosLinear
<1>3. \A c \in Register : Xor(ZeroWord, c) = c /\ Xor(c, ZeroWord) = c  BY XorRules
<1>4. Joined(x1, ZeroWord, ZeroWord, ZeroWord) = Z(Z(Z(Z(x1))))
  <2>1. Joined(x1, ZeroWord, ZeroWord, ZeroWord)
          = Z(Xor(ZeroWord, Z(Xor(ZeroWord, Z(Xor(ZeroWord, Z(x1)))))))
    BY Zenon DEF Joined
  <2>2. Z(x1) \in Register /\ Z(Z(x1)) \in Register /\ Z(Z(Z(x1))) \in Register
    <3> HIDE DEF Z
    <3> QED  BY <1>1
  <2> HIDE DEF Z
  <2> QED  BY <2>1, <2>2, <1>3
<1>5. Z(Z(Z(Z(x1)))) = Zeros(16, x1)
  <2>1. 4 \in Nat /\ 8 \in Nat /\ 12 \in Nat /\ 4 + 4 = 8 /\ 8 + 4 = 12 /\ 12 + 4 = 16  OBVIOUS
  <2>2. Z(Zeros(4, x1)) = Zeros(8, x1) /\ Z(Zeros(8, x1)) = Zeros(12, x1) /\ Z(Zeros(12, x1)) = Zeros(16, x1)
    BY <2>1, ZerosSum
  <2> QED  BY <2>2
<1>6. Joined(ZeroWord, x2, x3, x4) = Z(Xor(x4, Z(Xor(x3, Z(x2)))))
  <2>1. Joined(ZeroWord, x2, x3, x4) = Z(Xor(x4, Z(Xor(x3, Z(Xor(x2, Z(ZeroWord)))))))
    BY Zenon DEF Joined
  <2> HIDE DEF Z
  <2> QED  BY <2>1, <1>2, <1>3
<1>7. Joined(Xor(x1, ZeroWord), Xor(ZeroWord, x2), Xor(ZeroWord, x3), Xor(ZeroWord, x4))
        = Xor(Joined(x1, ZeroWord, ZeroWord, ZeroWord), Joined(ZeroWord, x2, x3, x4))
  <2>1. ZeroWord \in Register  BY XorRules
  <2>2. JoinedSum(x1, ZeroWord, ZeroWord, ZeroWord, ZeroWord, x2, x3, x4)
    BY <2>1, JoinedLinear
  <2> QED  BY <2>2 DEF JoinedSum
<1> QED  BY <1>3, <1>4, <1>5, <1>6, <1>7

\* The bytes of sixteen are four words.
LEMMA TraceStride ==
    ASSUME Cr!ConstantsFit, NEW s \in Seq(Bit), NEW c, NEW g, Trace(g, c, s),
           NEW a \in Nat, a + 16 <= Len(s)
    PROVE  /\ Cr!ReadWord(s, a + 1) \in Register /\ Cr!ReadWord(s, a + 5) \in Register
           /\ Cr!ReadWord(s, a + 9) \in Register /\ Cr!ReadWord(s, a + 13) \in Register
           /\ g[a + 16] = Joined(Xor(Cr!ReadWord(s, a + 1), g[a]), Cr!ReadWord(s, a + 5),
                                 Cr!ReadWord(s, a + 9), Cr!ReadWord(s, a + 13))
<1> DEFINE w1 == Cr!ReadWord(s, a + 1)
           w2 == Cr!ReadWord(s, a + 5)
           w3 == Cr!ReadWord(s, a + 9)
           w4 == Cr!ReadWord(s, a + 13)
<1>0. Len(s) \in Nat  OBVIOUS
<1>1. /\ a + 4 \in Nat /\ a + 8 \in Nat /\ a + 12 \in Nat
      /\ a + 4 <= Len(s) /\ (a + 4) + 4 <= Len(s) /\ (a + 8) + 4 <= Len(s) /\ (a + 12) + 4 <= Len(s)
      /\ (a + 4) + 1 = a + 5 /\ (a + 8) + 1 = a + 9 /\ (a + 12) + 1 = a + 13
      /\ (a + 4) + 4 = a + 8 /\ (a + 8) + 4 = a + 12 /\ (a + 12) + 4 = a + 16
      /\ a \in 0 .. Len(s) /\ a + 4 \in 0 .. Len(s) /\ a + 8 \in 0 .. Len(s) /\ a + 12 \in 0 .. Len(s)
  BY <1>0
<1>2. /\ w1 \in Register /\ Cr!ReadWord(s, (a + 4) + 1) \in Register
      /\ Cr!ReadWord(s, (a + 8) + 1) \in Register /\ Cr!ReadWord(s, (a + 12) + 1) \in Register
  BY <1>1, ReadWordIs
<1>3. w1 \in Register /\ w2 \in Register /\ w3 \in Register /\ w4 \in Register  BY <1>1, <1>2
<1>4. g[a] \in Register /\ g[a + 4] \in Register /\ g[a + 8] \in Register /\ g[a + 12] \in Register
  BY <1>1, TraceRegister
<1>5. /\ g[a + 4] = Zeros(4, Xor(g[a], w1))
      /\ g[(a + 4) + 4] = Zeros(4, Xor(g[a + 4], Cr!ReadWord(s, (a + 4) + 1)))
      /\ g[(a + 8) + 4] = Zeros(4, Xor(g[a + 8], Cr!ReadWord(s, (a + 8) + 1)))
      /\ g[(a + 12) + 4] = Zeros(4, Xor(g[a + 12], Cr!ReadWord(s, (a + 12) + 1)))
  BY <1>1, TraceWord
<1>6. /\ g[a + 4] = Zeros(4, Xor(g[a], w1)) /\ g[a + 8] = Zeros(4, Xor(g[a + 4], w2))
      /\ g[a + 12] = Zeros(4, Xor(g[a + 8], w3)) /\ g[a + 16] = Zeros(4, Xor(g[a + 12], w4))
  BY <1>1, <1>5
<1> HIDE DEF w1, w2, w3, w4
<1>7. /\ g[a + 4] = Zeros(4, Xor(w1, g[a])) /\ g[a + 8] = Zeros(4, Xor(w2, g[a + 4]))
      /\ g[a + 12] = Zeros(4, Xor(w3, g[a + 8])) /\ g[a + 16] = Zeros(4, Xor(w4, g[a + 12]))
  BY <1>3, <1>4, <1>6, XorRules
<1>8. g[a + 16] = Joined(Xor(w1, g[a]), w2, w3, w4)  BY <1>7, Zenon DEF Joined
<1> QED  BY <1>3, <1>8 DEF w1, w2, w3, w4

Quad == {<<x1, x2, x3, x4>> : x1 \in Register, x2 \in Register, x3 \in Register, x4 \in Register}
JoinedQuad(x) == Joined(x[1], x[2], x[3], x[4])

LEMMA QuadIs ==
    /\ \A x1, x2, x3, x4 \in Register : <<x1, x2, x3, x4>> \in Quad
    /\ \A x \in Quad : x[1] \in Register /\ x[2] \in Register /\ x[3] \in Register /\ x[4] \in Register
    /\ \A x1, x2, x3, x4 : JoinedQuad(<<x1, x2, x3, x4>>) = Joined(x1, x2, x3, x4)
<1>1. \A x1, x2, x3, x4 \in Register : <<x1, x2, x3, x4>> \in Quad  BY DEF Quad
<1>2. ASSUME NEW x \in Quad
      PROVE  x[1] \in Register /\ x[2] \in Register /\ x[3] \in Register /\ x[4] \in Register
  <2>1. PICK x1, x2, x3, x4 \in Register : x = <<x1, x2, x3, x4>>  BY DEF Quad
  <2> QED  BY <2>1
<1>3. \A x1, x2, x3, x4 : JoinedQuad(<<x1, x2, x3, x4>>) = Joined(x1, x2, x3, x4)  BY DEF JoinedQuad
<1> QED  BY <1>1, <1>2, <1>3

\* A stride further.
LEMMA StrideStep ==
    ASSUME Cr!ConstantsFit, NEW s \in Seq(Bit), NEW c, NEW g, Trace(g, c, s),
           NEW a \in Nat, a + 16 <= Len(s), NEW x \in Quad, JoinedQuad(x) = g[a]
    PROVE  LET y == << Cr!STEP4(x[1], Cr!ReadWord(s, a + 1)), Cr!STEP4(x[2], Cr!ReadWord(s, a + 5)),
                       Cr!STEP4(x[3], Cr!ReadWord(s, a + 9)), Cr!STEP4(x[4], Cr!ReadWord(s, a + 13)) >>
           IN  y \in Quad /\ JoinedQuad(y) = g[a + 16]
<1> DEFINE w1 == Cr!ReadWord(s, a + 1)
           w2 == Cr!ReadWord(s, a + 5)
           w3 == Cr!ReadWord(s, a + 9)
           w4 == Cr!ReadWord(s, a + 13)
           Y(r) == Zeros(16, r)
           y == <<Cr!STEP4(x[1], w1), Cr!STEP4(x[2], w2), Cr!STEP4(x[3], w3), Cr!STEP4(x[4], w4)>>
<1>1. /\ w1 \in Register /\ w2 \in Register /\ w3 \in Register /\ w4 \in Register
      /\ g[a + 16] = Joined(Xor(w1, g[a]), w2, w3, w4)
  BY TraceStride
<1>2. x[1] \in Register /\ x[2] \in Register /\ x[3] \in Register /\ x[4] \in Register  BY QuadIs
<1>3. g[a] \in Register /\ g[a] = Joined(x[1], x[2], x[3], x[4])
  <2>1. Len(s) \in Nat /\ a \in 0 .. Len(s)  OBVIOUS
  <2> QED  BY <2>1, TraceRegister DEF JoinedQuad
<1>4. ZeroWord \in Register  BY XorRules
<1>5. /\ Y(x[1]) \in Register /\ Y(x[2]) \in Register /\ Y(x[3]) \in Register /\ Y(x[4]) \in Register
  BY <1>2, ZerosSteps
<1> HIDE DEF w1, w2, w3, w4
<1>6. /\ Cr!STEP4(x[1], w1) = Xor(w1, Y(x[1])) /\ Cr!STEP4(x[1], w1) \in Register
      /\ Cr!STEP4(x[2], w2) = Xor(w2, Y(x[2])) /\ Cr!STEP4(x[2], w2) \in Register
      /\ Cr!STEP4(x[3], w3) = Xor(w3, Y(x[3])) /\ Cr!STEP4(x[3], w3) \in Register
      /\ Cr!STEP4(x[4], w4) = Xor(w4, Y(x[4])) /\ Cr!STEP4(x[4], w4) \in Register
  BY <1>1, <1>2, STEP4Is
<1>7. y \in Quad  BY <1>6, QuadIs
<1>8. JoinedQuad(y) = Joined(Xor(w1, Y(x[1])), Xor(w2, Y(x[2])), Xor(w3, Y(x[3])), Xor(w4, Y(x[4])))
  <2>1. JoinedQuad(y) = Joined(Cr!STEP4(x[1], w1), Cr!STEP4(x[2], w2), Cr!STEP4(x[3], w3), Cr!STEP4(x[4], w4))
    BY QuadIs
  <2> HIDE DEF Y, y
  <2> QED  BY <2>1, <1>6
<1>9. JoinedQuad(y) = Xor(Joined(w1, w2, w3, w4), Joined(Y(x[1]), Y(x[2]), Y(x[3]), Y(x[4])))
  <2>1. JoinedSum(w1, w2, w3, w4, Y(x[1]), Y(x[2]), Y(x[3]), Y(x[4]))
    <3> HIDE DEF Y, y
    <3> QED  BY <1>1, <1>5, JoinedLinear
  <2> HIDE DEF Y, y
  <2> QED  BY <2>1, <1>8 DEF JoinedSum
<1>10. Joined(Y(x[1]), Y(x[2]), Y(x[3]), Y(x[4])) = Y(g[a])
  <2>1. Joined(Zeros(16, x[1]), Zeros(16, x[2]), Zeros(16, x[3]), Zeros(16, x[4]))
          = Zeros(16, Joined(x[1], x[2], x[3], x[4]))
    BY <1>2, JoinedZeros
  <2> QED  BY <2>1, <1>3
<1> HIDE DEF y
<1>11. Joined(Xor(w1, g[a]), w2, w3, w4) = Xor(Joined(w1, w2, w3, w4), Y(g[a]))
  <2>1. JoinedSum(w1, w2, w3, w4, g[a], ZeroWord, ZeroWord, ZeroWord)  BY <1>1, <1>3, <1>4, JoinedLinear
  <2>2. Xor(w2, ZeroWord) = w2 /\ Xor(w3, ZeroWord) = w3 /\ Xor(w4, ZeroWord) = w4  BY <1>1, XorRules
  <2>3. Joined(g[a], ZeroWord, ZeroWord, ZeroWord) = Y(g[a])  BY <1>3, <1>4, JoinedFirst
  <2> HIDE DEF Y
  <2> QED  BY <2>1, <2>2, <2>3 DEF JoinedSum
<1>12. JoinedQuad(y) = g[a + 16]
  <2> HIDE DEF Y
  <2> QED  BY <1>1, <1>9, <1>10, <1>11
<1> QED  BY <1>7, <1>12 DEF y, w1, w2, w3, w4

\* A word further, with the registers rotated.
LEMMA RotateStep ==
    ASSUME Cr!ConstantsFit, NEW s \in Seq(Bit), NEW c, NEW g, Trace(g, c, s),
           NEW a \in Nat, a + 4 <= Len(s), NEW x \in Quad, JoinedQuad(x) = g[a]
    PROVE  /\ Cr!Rotate(x, Cr!ReadWord(s, a + 1)) \in Quad
           /\ JoinedQuad(Cr!Rotate(x, Cr!ReadWord(s, a + 1))) = g[a + 4]
<1> DEFINE w == Cr!ReadWord(s, a + 1)
           y == Zeros(16, x[1])
           u == Zeros(4, Xor(x[4], Zeros(4, Xor(x[3], Zeros(4, x[2])))))
<1>1. w \in Register  BY ReadWordIs
<1>2. x[1] \in Register /\ x[2] \in Register /\ x[3] \in Register /\ x[4] \in Register  BY QuadIs
<1>3. g[a] \in Register
  <2>1. Len(s) \in Nat /\ a \in 0 .. Len(s)  OBVIOUS
  <2> QED  BY <2>1, TraceRegister
<1>4. y \in Register /\ u \in Register
  <2>1. \A r \in Register : Zeros(16, r) \in Register /\ Zeros(4, r) \in Register  BY ZerosSteps
  <2>2. Zeros(4, x[2]) \in Register  BY <1>2, <2>1
  <2>3. Zeros(4, Xor(x[3], Zeros(4, x[2]))) \in Register  BY <1>2, <2>1, <2>2, XorType
  <2> QED  BY <1>2, <2>1, <2>3, XorType
<1>5. g[a] = Xor(y, u)
  <2>1. Joined(x[1], x[2], x[3], x[4]) = Xor(y, u)  BY <1>2, JoinedFirst
  <2> QED  BY <2>1 DEF JoinedQuad
<1>6. g[a + 4] = Zeros(4, Xor(g[a], w))  BY TraceWord
<1> HIDE DEF w
<1>7. Cr!STEP4(x[1], w) = Xor(w, y) /\ Cr!STEP4(x[1], w) \in Register  BY <1>1, <1>2, STEP4Is
<1>8. Cr!Rotate(x, w) = <<x[2], x[3], x[4], Cr!STEP4(x[1], w)>>  BY DEF Cr!Rotate
<1>9. Cr!Rotate(x, w) \in Quad  BY <1>2, <1>7, <1>8, QuadIs
<1>10. JoinedQuad(Cr!Rotate(x, w)) = Zeros(4, Xor(Xor(w, y), u))
  <2>1. JoinedQuad(Cr!Rotate(x, w)) = Joined(x[2], x[3], x[4], Xor(w, y))
    <3> HIDE DEF y
    <3> QED  BY <1>7, <1>8, QuadIs
  <2> HIDE DEF y
  <2> QED  BY <2>1, Zenon DEF Joined
<1> HIDE DEF y, u
<1>11. Xor(Xor(w, y), u) = Xor(g[a], w)
  <2>1. Xor(Xor(w, y), u) = Xor(w, Xor(y, u))  BY <1>1, <1>4, XorRules
  <2>2. Xor(w, g[a]) = Xor(g[a], w)  BY <1>1, <1>3, XorRules
  <2> QED  BY <2>1, <2>2, <1>5
<1> QED  BY <1>6, <1>9, <1>10, <1>11 DEF w

\* STEP4W four times: the four registers as one.
LEMMA CombineIs ==
    ASSUME Cr!ConstantsFit, NEW x \in Quad
    PROVE  Cr!Combine(x) = JoinedQuad(x)
<1>1. x[1] \in Register /\ x[2] \in Register /\ x[3] \in Register /\ x[4] \in Register  BY QuadIs
<1>2. Cr!ZeroWord = NoBits(4)
  <2> DEFINE z == NoBits(4)
             o == Cr!ZeroWord
  <2>1. z \in Seq(Nat) /\ Len(z) = 4 /\ \A i \in 1 .. 4 : z[i] = 0  BY DEF NoBits
  <2>2. o \in Seq(Nat) /\ Len(o) = 4 /\ \A i \in 1 .. 4 : o[i] = 0
    <3>1. o = <<0, 0, 0, 0>>  BY DEF Cr!ZeroWord
    <3>2. \A i \in 1 .. 4 : i = 1 \/ i = 2 \/ i = 3 \/ i = 4  OBVIOUS
    <3> QED  BY <3>1, <3>2
  <2> HIDE DEF z, o
  <2>3. o = z  BY <2>1, <2>2, SeqEqual
  <2> QED  BY <2>3 DEF o, z
<1> DEFINE step4w(w, l) == Cr!Bytes(Cr!Xor(w, l), Cr!ZeroWord)
<1>3. \A w, l : step4w(w, l) = Zeros(4, Xor(w, l))  BY <1>2 DEF Zeros, Xor
<1>4. Cr!Combine(x) = step4w(x[4], step4w(x[3], step4w(x[2], step4w(x[1], Cr!ZeroWord))))
  BY Zenon DEF Cr!Combine
<1> HIDE DEF step4w
<1>5. Xor(x[1], Cr!ZeroWord) = x[1]  BY <1>1, XorRules DEF ZeroWord
<1>6. Cr!Combine(x) = Zeros(4, Xor(x[4], Zeros(4, Xor(x[3], Zeros(4, Xor(x[2], Zeros(4, x[1])))))))
  BY <1>3, <1>4, <1>5
<1> QED  BY <1>6, Zenon DEF JoinedQuad, Joined

-----------------------------------------------------------------------------
(* CRC-32C: the loops over strides and the words after them *)

\* One round of STEP16, from behind byte a.
FourSteps(y, s, a) ==
    << Cr!STEP4(y[1], Cr!ReadWord(s, a + 1)), Cr!STEP4(y[2], Cr!ReadWord(s, a + 5)),
       Cr!STEP4(y[3], Cr!ReadWord(s, a + 9)), Cr!STEP4(y[4], Cr!ReadWord(s, a + 13)) >>

LEMMA StrideLoop ==
    ASSUME Cr!ConstantsFit, NEW s \in Seq(Bit), NEW c, NEW g, Trace(g, c, s),
           NEW a \in Nat, NEW n \in Nat, a + 16 * n <= Len(s), NEW x \in Quad, JoinedQuad(x) = g[a]
    PROVE  Cr!STEP16(x, s, a, n) \in Quad /\ JoinedQuad(Cr!STEP16(x, s, a, n)) = g[a + 16 * n]
<1> DEFINE word(i, j) == Cr!ReadWord(s, a + 16 * (i - 1) + 4 * j - 3)
           four(y, i) == << Cr!STEP4(y[1], word(i, 1)), Cr!STEP4(y[2], word(i, 2)),
                            Cr!STEP4(y[3], word(i, 3)), Cr!STEP4(y[4], word(i, 4)) >>
           after[i \in 0 .. n] == IF i = 0 THEN x ELSE four(after[i - 1], i)
           T == [i \in 0 .. n |-> {y \in Quad : JoinedQuad(y) = g[a + 16 * i]}]
           step == [i \in 1 .. n |-> [y \in T[i - 1] |-> four(y, i)]]
<1>0. Len(s) \in Nat  OBVIOUS
<1>1. ASSUME NEW i \in 1 .. n, NEW y \in T[i - 1]  PROVE four(y, i) \in T[i]
  <2> DEFINE b == a + 16 * (i - 1)
  <2>1. /\ b \in Nat /\ b + 16 <= Len(s) /\ b + 16 = a + 16 * i
        /\ i - 1 \in 0 .. n /\ i \in 0 .. n
        /\ b + 4 * 1 - 3 = b + 1 /\ b + 4 * 2 - 3 = b + 5
        /\ b + 4 * 3 - 3 = b + 9 /\ b + 4 * 4 - 3 = b + 13
    BY <1>0
  <2>2. y \in Quad /\ JoinedQuad(y) = g[b]  BY <2>1
  <2>3. four(y, i) = FourSteps(y, s, b)
    <3>1. /\ word(i, 1) = Cr!ReadWord(s, b + 1) /\ word(i, 2) = Cr!ReadWord(s, b + 5)
          /\ word(i, 3) = Cr!ReadWord(s, b + 9) /\ word(i, 4) = Cr!ReadWord(s, b + 13)
      BY <2>1
    <3> HIDE DEF b, word
    <3> QED  BY <3>1 DEF FourSteps
  <2> HIDE DEF b, four
  <2>4. FourSteps(y, s, b) \in Quad /\ JoinedQuad(FourSteps(y, s, b)) = g[b + 16]
    BY <2>1, <2>2, StrideStep DEF FourSteps
  <2> QED  BY <2>1, <2>3, <2>4
<1> HIDE DEF four
<1>2. Steps(0, n, Quad, T, x, step)
  <2>1. \A i \in 0 .. n : T[i] \subseteq Quad  OBVIOUS
  <2>2. x \in T[0]
    <3>1. 0 \in 0 .. n /\ a + 16 * 0 = a  OBVIOUS
    <3> QED  BY <3>1
  <2>3. \A i \in 0 + 1 .. n : step[i] \in [T[i - 1] -> T[i]]
    <3>1. ASSUME NEW i \in 1 .. n  PROVE step[i] \in [T[i - 1] -> T[i]]
      <4>1. step[i] = [y \in T[i - 1] |-> four(y, i)]  OBVIOUS
      <4> HIDE DEF T, step
      <4> QED  BY <4>1, <1>1
    <3>2. 0 + 1 .. n = 1 .. n  OBVIOUS
    <3> HIDE DEF T, step
    <3> QED  BY <3>1, <3>2
  <2> HIDE DEF T, step
  <2> QED  BY <2>1, <2>2, <2>3 DEF Steps
<1>3. PICK h : Iterates(h, 0, n, Quad, T, x, step)
  <2> HIDE DEF T, step
  <2> QED  BY <1>2, StepFunction
<1>4. h = [i \in 0 .. n |-> IF i = 0 THEN x ELSE four(h[i - 1], i)]
  <2>1. ASSUME NEW i \in 0 .. n  PROVE h[i] = IF i = 0 THEN x ELSE four(h[i - 1], i)
    <3>1. h[i] = IF i = 0 THEN x ELSE step[i][h[i - 1]]
      <4> HIDE DEF T, step
      <4> QED  BY <1>3 DEF Iterates
    <3>2. CASE i # 0
      <4>1. i \in 1 .. n /\ i - 1 \in 0 .. n  BY <3>2
      <4>2. h[i - 1] \in T[i - 1]
        <5> HIDE DEF T, step
        <5> QED  BY <4>1, <1>3 DEF Iterates
      <4>3. step[i] = [y \in T[i - 1] |-> four(y, i)]  BY <4>1
      <4> HIDE DEF T, step
      <4> QED  BY <3>1, <3>2, <4>2, <4>3
    <3> QED  BY <3>1, <3>2
  <2>2. h = [i \in 0 .. n |-> h[i]]
    <3> HIDE DEF T, step
    <3> QED  BY <1>3 DEF Iterates
  <2> QED  BY <2>1, <2>2
<1>5. after = [i \in 0 .. n |-> IF i = 0 THEN x ELSE four(after[i - 1], i)]
  <2> HIDE DEF T, step
  <2> QED  BY <1>4, Zenon DEF after
<1>6. Cr!STEP16(x, s, a, n) = after[n]  BY Zenon DEF Cr!STEP16, four
<1> HIDE DEF after, T, step, word
<1>7. after[0] = h[0] /\ \A i \in 0 .. n - 1 : after[i] = h[i] => after[i + 1] = h[i + 1]
  <2>1. 0 \in 0 .. n /\ \A i \in 0 .. n - 1 : i + 1 \in 0 .. n /\ i + 1 # 0 /\ (i + 1) - 1 = i
    OBVIOUS
  <2>2. /\ h[0] = x /\ after[0] = x
        /\ \A i \in 0 .. n - 1 : h[i + 1] = four(h[i], i + 1) /\ after[i + 1] = four(after[i], i + 1)
    BY <2>1, <1>4, <1>5
  <2> QED  BY <2>2
<1>8. after[n] = h[n]
  <2>1. n \in 0 .. n  OBVIOUS
  <2> QED  BY <1>7, <2>1, SameValues
<1>9. h[n] \in T[n]
  <2>1. n \in 0 .. n  OBVIOUS
  <2> QED  BY <2>1, <1>3 DEF Iterates
<1> QED  BY <1>6, <1>8, <1>9 DEF T

\* The words behind the last stride, each for the register whose turn it is.
WordsOn(x, s, a, n) ==
    LET rot[i \in 0 .. n] == IF i = 0 THEN x ELSE Cr!Rotate(rot[i - 1], Cr!ReadWord(s, a + 4 * i - 3))
    IN  rot[n]

LEMMA WordsOnIs ==
    ASSUME Cr!ConstantsFit, NEW s \in Seq(Bit), NEW c, NEW g, Trace(g, c, s),
           NEW a \in Nat, NEW n \in Nat, a + 4 * n <= Len(s), NEW x \in Quad, JoinedQuad(x) = g[a]
    PROVE  WordsOn(x, s, a, n) \in Quad /\ JoinedQuad(WordsOn(x, s, a, n)) = g[a + 4 * n]
<1> DEFINE turn(y, i) == Cr!Rotate(y, Cr!ReadWord(s, a + 4 * i - 3))
           rot[i \in 0 .. n] == IF i = 0 THEN x ELSE turn(rot[i - 1], i)
           T == [i \in 0 .. n |-> {y \in Quad : JoinedQuad(y) = g[a + 4 * i]}]
           step == [i \in 1 .. n |-> [y \in T[i - 1] |-> turn(y, i)]]
<1>0. Len(s) \in Nat  OBVIOUS
<1>1. ASSUME NEW i \in 1 .. n, NEW y \in T[i - 1]  PROVE turn(y, i) \in T[i]
  <2> DEFINE b == a + 4 * (i - 1)
  <2>1. /\ b \in Nat /\ b + 4 <= Len(s) /\ b + 4 = a + 4 * i
        /\ i - 1 \in 0 .. n /\ i \in 0 .. n
        /\ a + 4 * i - 3 = b + 1
    BY <1>0
  <2>2. y \in Quad /\ JoinedQuad(y) = g[b]  BY <2>1
  <2>3. turn(y, i) = Cr!Rotate(y, Cr!ReadWord(s, b + 1))  BY <2>1
  <2> HIDE DEF b, turn
  <2>4. turn(y, i) \in Quad /\ JoinedQuad(turn(y, i)) = g[b + 4]
    BY <2>1, <2>2, <2>3, RotateStep
  <2> QED  BY <2>1, <2>4
<1> HIDE DEF turn
<1>2. Steps(0, n, Quad, T, x, step)
  <2>1. \A i \in 0 .. n : T[i] \subseteq Quad  OBVIOUS
  <2>2. x \in T[0]
    <3>1. 0 \in 0 .. n /\ a + 4 * 0 = a  OBVIOUS
    <3> QED  BY <3>1
  <2>3. \A i \in 0 + 1 .. n : step[i] \in [T[i - 1] -> T[i]]
    <3>1. ASSUME NEW i \in 1 .. n  PROVE step[i] \in [T[i - 1] -> T[i]]
      <4>1. step[i] = [y \in T[i - 1] |-> turn(y, i)]  OBVIOUS
      <4> HIDE DEF T, step
      <4> QED  BY <4>1, <1>1
    <3>2. 0 + 1 .. n = 1 .. n  OBVIOUS
    <3> HIDE DEF T, step
    <3> QED  BY <3>1, <3>2
  <2> HIDE DEF T, step
  <2> QED  BY <2>1, <2>2, <2>3 DEF Steps
<1>3. PICK h : Iterates(h, 0, n, Quad, T, x, step)
  <2> HIDE DEF T, step
  <2> QED  BY <1>2, StepFunction
<1>4. h = [i \in 0 .. n |-> IF i = 0 THEN x ELSE turn(h[i - 1], i)]
  <2>1. ASSUME NEW i \in 0 .. n  PROVE h[i] = IF i = 0 THEN x ELSE turn(h[i - 1], i)
    <3>1. h[i] = IF i = 0 THEN x ELSE step[i][h[i - 1]]
      <4> HIDE DEF T, step
      <4> QED  BY <1>3 DEF Iterates
    <3>2. CASE i # 0
      <4>1. i \in 1 .. n /\ i - 1 \in 0 .. n  BY <3>2
      <4>2. h[i - 1] \in T[i - 1]
        <5> HIDE DEF T, step
        <5> QED  BY <4>1, <1>3 DEF Iterates
      <4>3. step[i] = [y \in T[i - 1] |-> turn(y, i)]  BY <4>1
      <4> HIDE DEF T, step
      <4> QED  BY <3>1, <3>2, <4>2, <4>3
    <3> QED  BY <3>1, <3>2
  <2>2. h = [i \in 0 .. n |-> h[i]]
    <3> HIDE DEF T, step
    <3> QED  BY <1>3 DEF Iterates
  <2> QED  BY <2>1, <2>2
<1>5. rot = [i \in 0 .. n |-> IF i = 0 THEN x ELSE turn(rot[i - 1], i)]
  <2> HIDE DEF T, step
  <2> QED  BY <1>4, Zenon DEF rot
<1>6. WordsOn(x, s, a, n) = rot[n]  BY Zenon DEF WordsOn, turn
<1> HIDE DEF rot, T, step
<1>7. rot[0] = h[0] /\ \A i \in 0 .. n - 1 : rot[i] = h[i] => rot[i + 1] = h[i + 1]
  <2>1. 0 \in 0 .. n /\ \A i \in 0 .. n - 1 : i + 1 \in 0 .. n /\ i + 1 # 0 /\ (i + 1) - 1 = i
    OBVIOUS
  <2>2. /\ h[0] = x /\ rot[0] = x
        /\ \A i \in 0 .. n - 1 : h[i + 1] = turn(h[i], i + 1) /\ rot[i + 1] = turn(rot[i], i + 1)
    BY <2>1, <1>4, <1>5
  <2> QED  BY <2>2
<1>8. rot[n] = h[n]
  <2>1. n \in 0 .. n  OBVIOUS
  <2> QED  BY <1>7, <2>1, SameValues
<1>9. h[n] \in T[n]
  <2>1. n \in 0 .. n  OBVIOUS
  <2> QED  BY <2>1, <1>3 DEF Iterates
<1> QED  BY <1>6, <1>8, <1>9 DEF T

-----------------------------------------------------------------------------
(* CRC-32C: every way through ExtendPortable computes the register *)

LEMMA AheadIs ==
    ASSUME Cr!ConstantsFit, NEW left \in Nat
    PROVE  Cr!Ahead(left) \in Nat /\ 16 * Cr!Ahead(left) <= left
<1> DEFINE m == 16 * Group
           e == left - Horizon + 16 * Group - 1
           q == e \div m
<1>1. Group \in Nat \ {0} /\ Horizon \in Nat /\ Horizon >= m - 1 /\ m \in Nat \ {0}
  BY DEF Cr!ConstantsFit
<1>2. CASE left <= Horizon  BY <1>2 DEF Cr!Ahead
<1>3. CASE ~ (left <= Horizon)
  <2>1. Cr!Ahead(left) = Group * q  BY <1>3 DEF Cr!Ahead
  <2>2. e \in Nat /\ e <= left  BY <1>1, <1>3
  <2> HIDE DEF m, e
  <2>3. q \in Int /\ e % m \in 0 .. m - 1 /\ e = q * m + (e % m)  BY <1>1, <2>2, DivMod
  <2>4. q >= 0
    <3> DEFINE r == e % m
    <3> HIDE DEF q, r
    <3>1. 0 > q => 0 * m >= q * m + m  BY <1>1, <2>3, MultiplesApart
    <3>2. 0 * m = 0 /\ q * m \in Int  BY <1>1, <2>3
    <3>3. e = q * m + r /\ r \in 0 .. m - 1  BY <2>3 DEF r
    <3> DEFINE w == q * m
    <3>4. w \in Int /\ e = w + r /\ (0 > q => 0 >= w + m)  BY <3>1, <3>2, <3>3
    <3> HIDE DEF w
    <3> QED  BY <3>3, <3>4, <2>2, <2>3, <1>1
  <2> HIDE DEF q
  <2>5. q * m <= left
    <3> DEFINE w == q * m
               r == e % m
    <3>1. w \in Int /\ e = w + r /\ r \in Nat  BY <2>3, <1>1
    <3> HIDE DEF w, r
    <3>2. w <= left  BY <3>1, <2>2
    <3> QED  BY <3>2 DEF w
  <2>6. Group * q \in Nat /\ 16 * (Group * q) = q * (16 * Group)  BY <1>1, <2>3, <2>4
  <2> QED  BY <2>1, <2>5, <2>6 DEF m
<1> QED  BY <1>2, <1>3

LEMMA UpToAlignedIs ==
    ASSUME NEW ptr \in 0 .. 3, NEW len \in Nat
    PROVE  Cr!UpToAligned(ptr, len) \in 0 .. len
<1>1. (4 - ptr) % 4 \in Nat
  <2>1. ptr = 0 \/ ptr = 1 \/ ptr = 2 \/ ptr = 3  OBVIOUS
  <2> QED  BY <2>1
<1> QED  BY <1>1 DEF Cr!UpToAligned

\* The stride loaded first, the loops over strides and the words cut a buffer.
LEMMA CutIntoStrides ==
    ASSUME Cr!ConstantsFit, NEW size \in Nat, NEW p \in 0 .. size, size - p >= 16
    PROVE  LET left == size - p - 16
               n == Cr!Ahead(left)
               k == (left - 16 * n) \div 16
               from == p + 16 * (n + k + 1)
               words == (size - from) \div 4
           IN  /\ n \in Nat /\ k \in Nat /\ words \in Nat
               /\ from \in Nat /\ from = (p + 16 * (n + 1)) + 16 * k
               /\ p + 16 * (n + 1) = (p + 16) + 16 * n /\ p + 16 * (n + 1) \in Nat
               /\ (p + 16) + 16 * n <= size
               /\ from <= size /\ from + 4 * words <= size
<1> DEFINE left == size - p - 16
           n == Cr!Ahead(left)
           k == (left - 16 * n) \div 16
           from == p + 16 * (n + k + 1)
           words == (size - from) \div 4
<1>1. left \in Nat  OBVIOUS
<1>2. n \in Nat /\ 16 * n <= left
  <2> HIDE DEF left
  <2> QED  BY <1>1, AheadIs
<1>3. size = p + 16 + left  OBVIOUS
<1> HIDE DEF left, n
<1>4. k \in Nat /\ 16 * k <= left - 16 * n
  <2>1. left - 16 * n \in Nat  BY <1>1, <1>2
  <2> QED  BY <2>1
<1> HIDE DEF k
<1>5. /\ from \in Nat /\ from <= size /\ from = (p + 16 * (n + 1)) + 16 * k
      /\ p + 16 * (n + 1) = (p + 16) + 16 * n /\ p + 16 * (n + 1) \in Nat
      /\ (p + 16) + 16 * n <= size
  BY <1>1, <1>2, <1>3, <1>4
<1> HIDE DEF from
<1>6. words \in Nat /\ from + 4 * words <= size
  <2>1. size - from \in Nat  BY <1>5
  <2> QED  BY <2>1, <1>5
<1> QED  BY <1>2, <1>4, <1>5, <1>6 DEF words, from, k, n, left

LEMMA ExtendPortableIs ==
    ASSUME Cr!ConstantsFit, NEW val \in Register, NEW buf \in Seq(Bit), NEW ptr \in 0 .. 3,
           NEW g, Trace(g, Cr!Not(val), buf)
    PROVE  Cr!ExtendPortable(val, buf, ptr) = Cr!Not(g[Len(buf)])
<1> DEFINE size == Len(buf)
           p == Cr!UpToAligned(ptr, size)
           l == Cr!Bytes(Cr!Not(val), SubSeq(buf, 1, p))
           left == size - p - 16
           load == <<Xor(Cr!ReadWord(buf, p + 1), l), Cr!ReadWord(buf, p + 5),
                     Cr!ReadWord(buf, p + 9), Cr!ReadWord(buf, p + 13)>>
           n == Cr!Ahead(left)
           k == (left - 16 * n) \div 16
           once == Cr!STEP16(load, buf, p + 16, n)
           both == Cr!STEP16(once, buf, p + 16 * (n + 1), k)
           from == p + 16 * (n + k + 1)
           words == (size - from) \div 4
           end == WordsOn(both, buf, from, words)
<1>1. Cr!ExtendPortable(val, buf, ptr) =
        IF size - p < 16 THEN Cr!Not(Cr!Bytes(l, SubSeq(buf, p + 1, size)))
        ELSE Cr!Not(Cr!Bytes(Cr!Combine(end), SubSeq(buf, from + 4 * words + 1, size)))
  BY Zenon DEF Cr!ExtendPortable, WordsOn, Xor
<1>2. size \in Nat  OBVIOUS
<1>3. p \in 0 .. size
  <2> HIDE DEF size
  <2> QED  BY <1>2, UpToAlignedIs
<1> HIDE DEF p
<1>4. l = g[p] /\ g[p] \in Register
  <2>1. 0 \in 0 .. Len(buf) /\ p \in 0 .. Len(buf) /\ 0 + 1 = 1 /\ g[0] = Cr!Not(val)
    BY <1>2, <1>3 DEF Trace
  <2>2. Cr!Bytes(g[0], SubSeq(buf, 0 + 1, p)) = g[p]  BY <2>1, BytesIs
  <2>3. g[p] \in Register  BY <2>1, TraceRegister
  <2> QED  BY <2>1, <2>2, <2>3
<1> HIDE DEF l
<1>5. CASE size - p < 16
  <2>1. p \in 0 .. Len(buf) /\ Len(buf) \in p .. Len(buf)  BY <1>2, <1>3
  <2>2. Cr!Bytes(g[p], SubSeq(buf, p + 1, Len(buf))) = g[Len(buf)]  BY <2>1, BytesIs
  <2> HIDE DEF end, words, from
  <2> QED  BY <1>1, <1>4, <1>5, <2>2
<1>6. CASE ~ (size - p < 16)
  <2>1. p \in Nat /\ p + 16 <= Len(buf) /\ p + 16 \in Nat /\ size - p >= 16  BY <1>2, <1>3, <1>6
  <2>2. /\ n \in Nat /\ k \in Nat /\ words \in Nat
        /\ from \in Nat /\ from = (p + 16 * (n + 1)) + 16 * k
        /\ p + 16 * (n + 1) = (p + 16) + 16 * n /\ p + 16 * (n + 1) \in Nat
        /\ (p + 16) + 16 * n <= size
        /\ from <= size /\ from + 4 * words <= size
    <3> HIDE DEF size
    <3> QED  BY <1>2, <1>3, <2>1, CutIntoStrides
  <2> HIDE DEF n, k, words, from
  <2>3. load \in Quad /\ JoinedQuad(load) = g[p + 16]
    <3>1. /\ Cr!ReadWord(buf, p + 1) \in Register /\ Cr!ReadWord(buf, p + 5) \in Register
          /\ Cr!ReadWord(buf, p + 9) \in Register /\ Cr!ReadWord(buf, p + 13) \in Register
          /\ g[p + 16] = Joined(Xor(Cr!ReadWord(buf, p + 1), g[p]), Cr!ReadWord(buf, p + 5),
                                Cr!ReadWord(buf, p + 9), Cr!ReadWord(buf, p + 13))
      BY <2>1, TraceStride
    <3>2. Xor(Cr!ReadWord(buf, p + 1), g[p]) \in Register  BY <3>1, <1>4, XorType
    <3> QED  BY <3>1, <3>2, <1>4, QuadIs
  <2> HIDE DEF load
  <2>4. once \in Quad /\ JoinedQuad(once) = g[p + 16 * (n + 1)]
    <3> DEFINE a == p + 16
    <3>1. /\ a \in Nat /\ n \in Nat /\ a + 16 * n <= Len(buf)
          /\ load \in Quad /\ JoinedQuad(load) = g[a]
      BY <2>1, <2>2, <2>3
    <3> HIDE DEF a, both, once, left, size, end
    <3>2. Cr!STEP16(load, buf, a, n) \in Quad /\ JoinedQuad(Cr!STEP16(load, buf, a, n)) = g[a + 16 * n]
      BY <3>1, StrideLoop
    <3> QED  BY <3>2, <2>2 DEF a, once
  <2> HIDE DEF once
  <2>5. both \in Quad /\ JoinedQuad(both) = g[from]
    <3> DEFINE a == p + 16 * (n + 1)
    <3>1. /\ a \in Nat /\ k \in Nat /\ a + 16 * k <= Len(buf) /\ a + 16 * k = from
          /\ once \in Quad /\ JoinedQuad(once) = g[a]
      BY <2>2, <2>4
    <3> HIDE DEF a, both, left, size, end
    <3>2. Cr!STEP16(once, buf, a, k) \in Quad /\ JoinedQuad(Cr!STEP16(once, buf, a, k)) = g[a + 16 * k]
      BY <3>1, StrideLoop
    <3> QED  BY <3>1, <3>2 DEF a, both
  <2> HIDE DEF both
  <2>6. end \in Quad /\ JoinedQuad(end) = g[from + 4 * words]
    BY <2>2, <2>5, WordsOnIs
  <2> HIDE DEF end
  <2>7. Cr!Combine(end) = g[from + 4 * words]  BY <2>6, CombineIs
  <2>8. Cr!Bytes(g[from + 4 * words], SubSeq(buf, from + 4 * words + 1, size)) = g[size]
    <3> DEFINE a == from + 4 * words
    <3>1. a \in 0 .. Len(buf) /\ size \in a .. Len(buf)  BY <1>2, <2>2
    <3> HIDE DEF a, size
    <3>2. Cr!Bytes(g[a], SubSeq(buf, a + 1, size)) = g[size]  BY <3>1, BytesIs
    <3> QED  BY <3>2 DEF a
  <2> QED  BY <1>1, <1>6, <2>7, <2>8
<1> QED  BY <1>5, <1>6

\* Whatever the build and the algorithm, and wherever the buffer lies.
LEMMA ExtendIs ==
    ASSUME Cr!ConstantsFit, impl \in Cr!Impls, NEW val \in Register, NEW buf \in Seq(Bit),
           NEW ptr \in 0 .. 3, NEW g, Trace(g, Cr!Not(val), buf)
    PROVE  Cr!Extend(val, buf, ptr) = Cr!Not(g[Len(buf)])
<1>1. CASE impl = "crc32c"  BY <1>1, ExtendPortableIs DEF Cr!Extend
<1>2. CASE impl = "little"
  <2>1. Cr!Extend(val, buf, ptr) = Cr!digest_crc32_little(val, buf, ptr)
    BY <1>2 DEF Cr!Extend, Cr!digest_crc32
  <2> QED  BY <2>1, LittleIs
<1>3. CASE impl = "big"
  <2>1. Cr!Extend(val, buf, ptr) = Cr!digest_crc32_big(val, buf, ptr)
    BY <1>3 DEF Cr!Extend, Cr!digest_crc32
  <2> QED  BY <2>1, BigIs
<1>4. CASE impl = "bytes"
  <2>1. Cr!Extend(val, buf, ptr) = Cr!Not(Cr!Bytes(Cr!Not(val), buf))
    BY <1>4 DEF Cr!Extend, Cr!digest_crc32
  <2> QED  BY <2>1, BytesAll
<1> QED  BY <1>1, <1>2, <1>3, <1>4 DEF Cr!Impls

-----------------------------------------------------------------------------
(* CRC: the register as the division's remainder *)

Full == <<1, 1, 1, 1>>

\* What a one at the i-th byte gives n bytes into the message.
OneAt(n, i) == IF i <= n THEN Zeros(n - i + 1, Front(1)) ELSE ZeroWord

\* The register n bytes into a message with a one at no byte but those of O.
Value(n, O) ==
    IF O = {} THEN Zeros(n, Full)
    ELSE Xor(Zeros(n, Full), OneAt(n, CHOOSE i \in O : TRUE))

AtMostOne(O) == O = {} \/ \E i \in Nat \ {0} : O = {i}

LEMMA ValueOne ==
    ASSUME NEW n, NEW i
    PROVE  Value(n, {i}) = Xor(Zeros(n, Full), OneAt(n, i)) /\ Value(n, {}) = Zeros(n, Full)
<1>1. (CHOOSE k \in {i} : TRUE) = i  OBVIOUS
<1>2. {i} # {}  OBVIOUS
<1> QED  BY <1>1, <1>2 DEF Value

LEMMA FullIs == Full \in Register
<1>1. 1 \in 0 .. 1  OBVIOUS
<1> QED  BY <1>1, RegisterIs DEF Full

LEMMA OneAtIs ==
    ASSUME Cr!ConstantsFit, NEW n \in Nat, NEW i \in Nat \ {0}
    PROVE  OneAt(n, i) \in Register
<1>1. CASE i <= n
  <2>1. n - i + 1 \in Nat /\ 1 \in 0 .. 1  BY <1>1
  <2> QED  BY <1>1, <2>1, FrontIs, ZerosSteps DEF OneAt
<1>2. CASE ~ (i <= n)  BY <1>2, XorRules DEF OneAt
<1> QED  BY <1>1, <1>2

LEMMA ValueType ==
    ASSUME Cr!ConstantsFit, NEW n \in Nat, NEW O, AtMostOne(O)
    PROVE  Value(n, O) \in Register
<1>1. Zeros(n, Full) \in Register  BY FullIs, ZerosSteps
<1>2. CASE O = {}  BY <1>1, <1>2, ValueOne
<1>3. CASE O # {}
  <2>1. PICK i \in Nat \ {0} : O = {i}  BY <1>3 DEF AtMostOne
  <2> QED  BY <1>1, <2>1, ValueOne, OneAtIs, XorType
<1> QED  BY <1>2, <1>3

\* The next byte.
LEMMA ValueStep ==
    ASSUME Cr!ConstantsFit, NEW n \in Nat, NEW O, AtMostOne(O)
    PROVE  Value(n + 1, O) = Cr!DO1(Value(n, O), IF n + 1 \in O THEN 1 ELSE 0)
<1> DEFINE z == Zeros(n, Full)
<1>1. z \in Register /\ Zeros(n + 1, Full) = ZeroByte(z)  BY FullIs, ZerosSteps
<1>2. CASE O = {}
  <2>1. Value(n + 1, O) = Zeros(n + 1, Full) /\ Value(n, O) = z /\ ~ (n + 1 \in O)
    BY <1>2, ValueOne
  <2> HIDE DEF z
  <2> QED  BY <1>1, <2>1 DEF ZeroByte
<1>3. CASE O # {}
  <2>1. PICK i \in Nat \ {0} : O = {i}  BY <1>3 DEF AtMostOne
  <2>2. Value(n + 1, O) = Xor(Zeros(n + 1, Full), OneAt(n + 1, i)) /\ Value(n, O) = Xor(z, OneAt(n, i))
    BY <2>1, ValueOne
  <2> HIDE DEF z
  <2>3. CASE n + 1 = i
    <3>1. OneAt(n, i) = ZeroWord  BY <2>3 DEF OneAt
    <3>2. OneAt(n + 1, i) = Zeros(1, Front(1))
      <4>1. i <= n + 1 /\ (n + 1) - i + 1 = 1  BY <2>3
      <4> QED  BY <4>1 DEF OneAt
    <3>3. 1 \in 0 .. 1 /\ Front(1) \in Register  BY FrontIs
    <3>4. Zeros(1, Front(1)) = ZeroByte(Front(1))
      <4>1. Zeros(0, Front(1)) = Front(1) /\ Zeros(0 + 1, Front(1)) = ZeroByte(Zeros(0, Front(1)))
        BY <3>3, ZerosSteps
      <4>2. 0 + 1 = 1  OBVIOUS
      <4> QED  BY <4>1, <4>2
    <3>5. Value(n, O) = z  BY <1>1, <2>2, <3>1, XorRules
    <3>6. Cr!DO1(z, 1) = ZeroByte(Xor(z, Front(1)))  BY <1>1, <3>3, Feed
    <3>7. ZeroByte(Xor(z, Front(1))) = Xor(ZeroByte(z), ZeroByte(Front(1)))
      BY <1>1, <3>3, ZeroByteLinear
    <3>8. n + 1 \in O  BY <2>1, <2>3
    <3> QED  BY <1>1, <2>2, <3>2, <3>4, <3>5, <3>6, <3>7, <3>8
  <2>4. CASE n + 1 # i
    <3>1. ~ (n + 1 \in O)  BY <2>1, <2>4
    <3>2. OneAt(n, i) \in Register  BY OneAtIs
    <3>3. OneAt(n + 1, i) = ZeroByte(OneAt(n, i))
      <4>1. CASE i <= n
        <5>1. /\ n - i + 1 \in Nat /\ 1 \in 0 .. 1 /\ i <= n + 1
              /\ (n + 1) - i + 1 = (n - i + 1) + 1
          BY <4>1
        <5>2. Front(1) \in Register  BY <5>1, FrontIs
        <5>3. Zeros((n - i + 1) + 1, Front(1)) = ZeroByte(Zeros(n - i + 1, Front(1)))
          BY <5>1, <5>2, ZerosSteps
        <5> QED  BY <4>1, <5>1, <5>3 DEF OneAt
      <4>2. CASE ~ (i <= n)
        <5>1. ~ (i <= n + 1)  BY <2>4, <4>2
        <5> QED  BY <4>2, <5>1, ZeroByteLinear DEF OneAt
      <4> QED  BY <4>1, <4>2
    <3>4. ZeroByte(Xor(z, OneAt(n, i))) = Xor(ZeroByte(z), ZeroByte(OneAt(n, i)))
      BY <1>1, <3>2, ZeroByteLinear
    <3> QED  BY <1>1, <2>2, <3>1, <3>3, <3>4 DEF ZeroByte
  <2> QED  BY <2>3, <2>4
<1> QED  BY <1>2, <1>3

\* Bytes taken, one of which may be the message's first 1.
LEMMA ValueTrace ==
    ASSUME Cr!ConstantsFit, NEW n \in Nat, NEW k \in Nat, NEW O, NEW new, AtMostOne(O),
           O \subseteq 1 .. n, AtMostOne(new), new \subseteq n + 1 .. n + k, new # {} => O = {}
    PROVE  /\ Cr!Bits(new, n, k) \in Seq(Bit) /\ Len(Cr!Bits(new, n, k)) = k
           /\ AtMostOne(O \cup new) /\ O \cup new \subseteq 1 .. n + k
           /\ Trace([i \in 0 .. k |-> Value(n + i, O \cup new)], Value(n, O), Cr!Bits(new, n, k))
<1> DEFINE s == Cr!Bits(new, n, k)
           U == O \cup new
           g == [i \in 0 .. k |-> Value(n + i, U)]
<1>1. s = [i \in 1 .. k |-> IF n + i \in new THEN 1 ELSE 0]  BY DEF Cr!Bits
<1>2. s \in Seq(Bit) /\ Len(s) = k
  <2>1. s \in [1 .. k -> Bit]  BY <1>1 DEF Bit
  <2> HIDE DEF s
  <2> QED  BY <2>1, FunctionSeq
<1>3. AtMostOne(U) /\ U \subseteq 1 .. n + k
  <2>1. CASE new = {}
    <3>1. U = O /\ n <= n + k  BY <2>1
    <3> QED  BY <3>1
  <2>2. CASE new # {}
    <3>1. U = new  BY <2>2
    <3> QED  BY <3>1
  <2> QED  BY <2>1, <2>2
<1>4. Value(n, U) = Value(n, O)
  <2>1. CASE new = {}
    <3>1. U = O  BY <2>1
    <3> QED  BY <3>1
  <2>2. CASE new # {}
    <3>1. PICK i \in Nat \ {0} : new = {i}  BY <2>2 DEF AtMostOne
    <3>2. U = {i} /\ O = {} /\ ~ (i <= n)
      <4>1. O = {}  BY <2>2
      <4>2. i \in n + 1 .. n + k  BY <3>1
      <4> QED  BY <3>1, <4>1, <4>2
    <3>3. OneAt(n, i) = ZeroWord  BY <3>2 DEF OneAt
    <3>4. Zeros(n, Full) \in Register  BY FullIs, ZerosSteps
    <3>5. Value(n, {i}) = Xor(Zeros(n, Full), ZeroWord) /\ Value(n, {}) = Zeros(n, Full)
      BY <3>3, ValueOne
    <3> HIDE DEF U
    <3> QED  BY <3>2, <3>4, <3>5, XorRules
  <2> QED  BY <2>1, <2>2
<1>5. ASSUME NEW i \in 1 .. k  PROVE s[i] = IF n + i \in U THEN 1 ELSE 0
  <2>1. n + i \in U <=> n + i \in new  OBVIOUS
  <2> QED  BY <1>1, <2>1
<1> HIDE DEF s, U
<1>6. g \in [0 .. k -> Register]
  <2>1. ASSUME NEW i \in 0 .. k  PROVE Value(n + i, U) \in Register
    <3>1. n + i \in Nat  OBVIOUS
    <3> QED  BY <3>1, <1>3, ValueType
  <2> QED  BY <2>1
<1>7. g[0] = Value(n, O)
  <2>1. 0 \in 0 .. k /\ n + 0 = n  OBVIOUS
  <2> QED  BY <2>1, <1>4
<1>8. ASSUME NEW i \in 1 .. k  PROVE g[i] = Cr!DO1(g[i - 1], s[i])
  <2>1. n + (i - 1) \in Nat /\ (n + (i - 1)) + 1 = n + i /\ i - 1 \in 0 .. k /\ i \in 0 .. k
    OBVIOUS
  <2>2. Value((n + (i - 1)) + 1, U)
          = Cr!DO1(Value(n + (i - 1), U), IF (n + (i - 1)) + 1 \in U THEN 1 ELSE 0)
    BY <2>1, <1>3, ValueStep
  <2>3. g[i] = Value(n + i, U) /\ g[i - 1] = Value(n + (i - 1), U)  BY <2>1
  <2> HIDE DEF g
  <2> QED  BY <2>1, <2>2, <2>3, <1>5
<1> HIDE DEF g
<1>9. Trace(g, Value(n, O), s)  BY <1>2, <1>6, <1>7, <1>8 DEF Trace
<1> QED  BY <1>2, <1>3, <1>9 DEF s, U, g

\* Bytes that may hold the message's first 1, behind n bytes of which it may be one.
MayFollow(n, k, O, new) ==
    /\ AtMostOne(O) /\ O \subseteq 1 .. n
    /\ AtMostOne(new) /\ new \subseteq n + 1 .. n + k /\ (new # {} => O = {})

\* A call of either algorithm.
LEMMA ValueExtend ==
    ASSUME Cr!ConstantsFit, impl \in Cr!Impls, NEW ptr \in 0 .. 3,
           NEW n \in Nat, NEW k \in Nat, NEW O, NEW new, MayFollow(n, k, O, new)
    PROVE  Cr!Extend(Cr!Not(Value(n, O)), Cr!Bits(new, n, k), ptr) = Cr!Not(Value(n + k, O \cup new))
<1> DEFINE s == Cr!Bits(new, n, k)
           g == [i \in 0 .. k |-> Value(n + i, O \cup new)]
           val == Cr!Not(Value(n, O))
<1>1. s \in Seq(Bit) /\ Len(s) = k /\ Trace(g, Value(n, O), s)  BY ValueTrace DEF MayFollow
<1>2. Value(n, O) \in Register  BY ValueType DEF MayFollow
<1>3. val \in Register /\ Cr!Not(val) = Value(n, O)  BY <1>2, NotIs
<1>4. g[k] = Value(n + k, O \cup new)  OBVIOUS
<1> HIDE DEF s, g, val
<1>5. Cr!Extend(val, s, ptr) = Cr!Not(g[Len(s)])  BY <1>1, <1>3, ExtendIs
<1> QED  BY <1>1, <1>4, <1>5 DEF s, val

-----------------------------------------------------------------------------
(* CRC: the remainder that Check states *)

\* x^n is the last bit followed by n zeros.
LEMMA PowerIs ==
    ASSUME Cr!ConstantsFit, NEW n \in Nat
    PROVE  Cr!Power(n) = Zeros(n, Fourth(1)) /\ Cr!Power(n) \in Register
<1> DEFINE h == [i \in 0 .. n |-> Zeros(i, Fourth(1))]
           pow[i \in 0 .. n] == IF i = 0 THEN <<0, 0, 0, 1>> ELSE Cr!TimesX[pow[i - 1]]
<1>1. Fourth(1) \in Register /\ Fourth(1) = <<0, 0, 0, 1>>
  <2>1. 1 \in 0 .. 1  OBVIOUS
  <2> QED  BY <2>1, PlaceIs DEF Fourth
<1>2. \A r \in Register : Cr!TimesX[r] = ZeroByte(r)
  <2> SUFFICES ASSUME NEW r \in Register  PROVE Cr!TimesX[r] = ZeroByte(r)  OBVIOUS
  <2>1. Cr!TimesX[r] = Xor(IF r[1] = 1 THEN Poly ELSE Cr!ZeroWord, <<r[2], r[3], r[4], 0>>)
    BY DEF Cr!TimesX, Register, Xor
  <2>2. r[1] \in 0 .. 1 /\ 0 \in 0 .. 1 /\ (r[1] + 0) % 2 = r[1]
    <3>1. r[1] \in 0 .. 1  BY ByBits
    <3> QED  BY <3>1
  <2>3. ZeroByte(r) = Xor(Cr!Table0(r[1]), Cr!ShiftRight(r))  BY <2>2, DO1Is DEF ZeroByte
  <2> QED  BY <2>1, <2>3 DEF Cr!Table0, Cr!ShiftRight
<1>3. \A i \in Nat : Zeros(i, Fourth(1)) \in Register
  BY <1>1, ZerosSteps
<1>4. \A i \in 1 .. n : Zeros(i, Fourth(1)) = ZeroByte(Zeros(i - 1, Fourth(1)))
  <2> SUFFICES ASSUME NEW i \in 1 .. n
               PROVE  Zeros(i, Fourth(1)) = ZeroByte(Zeros(i - 1, Fourth(1)))
    OBVIOUS
  <2>1. i - 1 \in Nat /\ (i - 1) + 1 = i  OBVIOUS
  <2>2. Zeros((i - 1) + 1, Fourth(1)) = ZeroByte(Zeros(i - 1, Fourth(1)))  BY <1>1, <2>1, ZerosSteps
  <2> QED  BY <2>1, <2>2
<1>5. h = [i \in 0 .. n |-> IF i = 0 THEN <<0, 0, 0, 1>> ELSE Cr!TimesX[h[i - 1]]]
  <2>1. ASSUME NEW i \in 0 .. n
        PROVE  h[i] = IF i = 0 THEN <<0, 0, 0, 1>> ELSE Cr!TimesX[h[i - 1]]
    <3>1. CASE i = 0
      <4>1. h[i] = Zeros(0, Fourth(1))  BY <3>1
      <4>2. Zeros(0, Fourth(1)) = Fourth(1)  BY <1>1, ZerosSteps
      <4> QED  BY <1>1, <3>1, <4>1, <4>2
    <3>2. CASE i # 0
      <4>1. i \in 1 .. n /\ i - 1 \in 0 .. n /\ i - 1 \in Nat  BY <3>2
      <4>2. h[i] = Zeros(i, Fourth(1)) /\ h[i - 1] = Zeros(i - 1, Fourth(1))  BY <4>1
      <4>3. h[i - 1] \in Register  BY <1>3, <4>1, <4>2
      <4> HIDE DEF h
      <4> QED  BY <1>2, <1>4, <3>2, <4>1, <4>2, <4>3
    <3> QED  BY <3>1, <3>2
  <2>2. h = [i \in 0 .. n |-> h[i]]  OBVIOUS
  <2> HIDE DEF h
  <2> QED  BY <2>1, <2>2
<1>6. pow = [i \in 0 .. n |-> IF i = 0 THEN <<0, 0, 0, 1>> ELSE Cr!TimesX[pow[i - 1]]]
  <2> HIDE DEF h
  <2> QED  BY <1>5, Zenon DEF pow
<1>7. Cr!Power(n) = pow[n]  BY Zenon DEF Cr!Power
<1>8. h[n] = Zeros(n, Fourth(1))  OBVIOUS
<1> HIDE DEF h, pow
<1>9. pow[0] = h[0] /\ \A i \in 0 .. n - 1 : pow[i] = h[i] => pow[i + 1] = h[i + 1]
  <2>1. 0 \in 0 .. n /\ \A i \in 0 .. n - 1 : i + 1 \in 0 .. n /\ i + 1 # 0 /\ (i + 1) - 1 = i
    OBVIOUS
  <2> DEFINE last == <<0, 0, 0, 1>>
             X == Cr!TimesX
  <2>3. /\ h = [i \in 0 .. n |-> IF i = 0 THEN last ELSE X[h[i - 1]]]
        /\ pow = [i \in 0 .. n |-> IF i = 0 THEN last ELSE X[pow[i - 1]]]
    BY <1>5, <1>6
  <2> HIDE DEF last, X
  <2>2. /\ h[0] = last /\ pow[0] = last
        /\ \A i \in 0 .. n - 1 : h[i + 1] = X[h[i]] /\ pow[i + 1] = X[pow[i]]
    BY <2>1, <2>3
  <2> QED  BY <2>2
<1>10. pow[n] = h[n]
  <2>1. n \in 0 .. n  OBVIOUS
  <2> QED  BY <1>9, <2>1, SameValues
<1> QED  BY <1>3, <1>7, <1>8, <1>10

\* The last bit followed by three, two and one zeros.
LEMMA ZerosOfPlaces ==
    ASSUME Cr!ConstantsFit, NEW n \in Nat
    PROVE  /\ Zeros(n, Front(1)) = Cr!Power(n + 3)
           /\ Zeros(n, Second(1)) = Cr!Power(n + 2)
           /\ Zeros(n, Third(1)) = Cr!Power(n + 1)
           /\ Zeros(n, Fourth(1)) = Cr!Power(n)
<1>1. 1 \in 0 .. 1  OBVIOUS
<1>2. /\ Second(1) \in Register /\ Third(1) \in Register /\ Fourth(1) \in Register
      /\ ZeroByte(Second(1)) = Front(1) /\ ZeroByte(Third(1)) = Second(1)
      /\ ZeroByte(Fourth(1)) = Third(1)
  BY <1>1, PlaceIs
<1>3. n + 1 \in Nat /\ n + 2 \in Nat /\ n + 3 \in Nat /\ (n + 1) + 1 = n + 2 /\ (n + 2) + 1 = n + 3
  OBVIOUS
<1>4. \A m \in Nat : /\ Zeros(m, Third(1)) = Zeros(m + 1, Fourth(1))
                     /\ Zeros(m, Second(1)) = Zeros(m + 1, Third(1))
                     /\ Zeros(m, Front(1)) = Zeros(m + 1, Second(1))
  <2> SUFFICES ASSUME NEW m \in Nat
               PROVE  /\ Zeros(m, Third(1)) = Zeros(m + 1, Fourth(1))
                      /\ Zeros(m, Second(1)) = Zeros(m + 1, Third(1))
                      /\ Zeros(m, Front(1)) = Zeros(m + 1, Second(1))
    OBVIOUS
  <2>1. Zeros(m, ZeroByte(Fourth(1))) = Zeros(m + 1, Fourth(1))  BY <1>2, ZerosFirst
  <2>2. Zeros(m, ZeroByte(Third(1))) = Zeros(m + 1, Third(1))  BY <1>2, ZerosFirst
  <2>3. Zeros(m, ZeroByte(Second(1))) = Zeros(m + 1, Second(1))  BY <1>2, ZerosFirst
  <2> QED  BY <1>2, <2>1, <2>2, <2>3
<1>5. Zeros(n, Third(1)) = Zeros(n + 1, Fourth(1))  BY <1>4
<1>6. Zeros(n, Second(1)) = Zeros(n + 2, Fourth(1))
  <2>1. Zeros(n, Second(1)) = Zeros(n + 1, Third(1))  BY <1>4
  <2>2. Zeros(n + 1, Third(1)) = Zeros((n + 1) + 1, Fourth(1))  BY <1>3, <1>4
  <2> QED  BY <1>3, <2>1, <2>2
<1>7. Zeros(n, Front(1)) = Zeros(n + 3, Fourth(1))
  <2>1. Zeros(n, Front(1)) = Zeros(n + 1, Second(1))  BY <1>4
  <2>2. Zeros(n + 1, Second(1)) = Zeros((n + 1) + 1, Third(1))  BY <1>3, <1>4
  <2>3. Zeros(n + 2, Third(1)) = Zeros((n + 2) + 1, Fourth(1))  BY <1>3, <1>4
  <2> QED  BY <1>3, <2>1, <2>2, <2>3
<1>8. \A m \in Nat : Cr!Power(m) = Zeros(m, Fourth(1))  BY PowerIs
<1> QED  BY <1>3, <1>5, <1>6, <1>7, <1>8

\* The complemented bits, behind n bytes, are four powers.
LEMMA FullPowers ==
    ASSUME Cr!ConstantsFit, NEW n \in Nat
    PROVE  /\ Zeros(n, Full) = Xor(Xor(Xor(Cr!Power(n + 3), Cr!Power(n + 2)), Cr!Power(n + 1)), Cr!Power(n))
           /\ Zeros(n, Full) \in Register
<1>1. 1 \in 0 .. 1  OBVIOUS
<1>2. /\ Front(1) \in Register /\ Second(1) \in Register
      /\ Third(1) \in Register /\ Fourth(1) \in Register
  BY <1>1, FrontIs, PlaceIs
<1>3. Full = Xor(Xor(Xor(Front(1), Second(1)), Third(1)), Fourth(1))
  <2>1. Full[1] = 1 /\ Full[2] = 1 /\ Full[3] = 1 /\ Full[4] = 1  BY DEF Full
  <2>2. Full = Xor(Xor(Xor(Front(Full[1]), Second(Full[2])), Third(Full[3])), Fourth(Full[4]))
    BY FullIs, Places
  <2> QED  BY <2>1, <2>2
<1> DEFINE a == Xor(Front(1), Second(1))
           b == Xor(a, Third(1))
<1>4. a \in Register /\ b \in Register  BY <1>2, XorType
<1>5. Zeros(n, a) = Xor(Zeros(n, Front(1)), Zeros(n, Second(1)))  BY <1>2, ZerosLinear
<1> HIDE DEF a
<1>6. Zeros(n, b) = Xor(Zeros(n, a), Zeros(n, Third(1)))  BY <1>2, <1>4, ZerosLinear
<1> HIDE DEF b
<1>7. Zeros(n, Xor(b, Fourth(1))) = Xor(Zeros(n, b), Zeros(n, Fourth(1)))  BY <1>2, <1>4, ZerosLinear
<1>8. Full = Xor(b, Fourth(1))  BY <1>3 DEF a, b
<1>9. Zeros(n, Full) \in Register  BY FullIs, ZerosSteps
<1> QED  BY <1>5, <1>6, <1>7, <1>8, <1>9, ZerosOfPlaces

\* How many of four numbers in a row are in Q, modulo 2.
LEMMA CountFour ==
    ASSUME NEW n \in Nat, NEW Q, NEW a \in 0 .. 1, NEW b \in 0 .. 1, NEW c \in 0 .. 1, NEW d \in 0 .. 1,
           a = 1 <=> n \in Q, b = 1 <=> n + 1 \in Q, c = 1 <=> n + 2 \in Q, d = 1 <=> n + 3 \in Q
    PROVE  Cardinality({t \in n .. n + 3 : t \in Q}) = a + b + c + d
<1> DEFINE R == {t \in n .. n + 3 : t \in Q}
           A == {t \in {n} : t \in Q}
           B == {t \in {n, n + 1} : t \in Q}
           C == {t \in {n, n + 1, n + 2} : t \in Q}
<1>1. IsFiniteSet(A) /\ Cardinality(A) = a
  <2>1. CASE n \in Q
    <3>1. A = {n} /\ a = 1  BY <2>1
    <3> QED  BY <3>1, FS_Singleton
  <2>2. CASE ~ (n \in Q)
    <3>1. A = {} /\ a = 0  BY <2>2
    <3> QED  BY <3>1, FS_EmptySet
  <2> QED  BY <2>1, <2>2
<1>2. IsFiniteSet(B) /\ Cardinality(B) = a + b
  <2>1. CASE n + 1 \in Q
    <3>1. B = A \cup {n + 1} /\ b = 1 /\ ~ (n + 1 \in A)  BY <2>1
    <3> HIDE DEF A, B
    <3> QED  BY <1>1, <3>1, FS_AddElement
  <2>2. CASE ~ (n + 1 \in Q)
    <3>1. B = A /\ b = 0  BY <2>2
    <3> HIDE DEF A, B
    <3> QED  BY <1>1, <3>1
  <2> QED  BY <2>1, <2>2
<1>3. IsFiniteSet(C) /\ Cardinality(C) = a + b + c
  <2>1. CASE n + 2 \in Q
    <3>1. C = B \cup {n + 2} /\ c = 1 /\ ~ (n + 2 \in B)  BY <2>1
    <3> HIDE DEF B, C
    <3> QED  BY <1>2, <3>1, FS_AddElement
  <2>2. CASE ~ (n + 2 \in Q)
    <3>1. C = B /\ c = 0  BY <2>2
    <3> HIDE DEF B, C
    <3> QED  BY <1>2, <3>1
  <2> QED  BY <2>1, <2>2
<1>4. \A t : t \in n .. n + 3 <=> t = n \/ t = n + 1 \/ t = n + 2 \/ t = n + 3  OBVIOUS
<1>5. Cardinality(R) = a + b + c + d
  <2>1. CASE n + 3 \in Q
    <3>1. R = C \cup {n + 3} /\ d = 1 /\ ~ (n + 3 \in C)  BY <1>4, <2>1
    <3> HIDE DEF C, R
    <3> QED  BY <1>3, <3>1, FS_AddElement
  <2>2. CASE ~ (n + 3 \in Q)
    <3>1. R = C /\ d = 0  BY <1>4, <2>2
    <3> HIDE DEF C, R
    <3> QED  BY <1>3, <3>1
  <2> QED  BY <2>1, <2>2
<1> QED  BY <1>5

\* Whether an odd number of bits are set, and the exclusive or of them all.
LEMMA Odd ==
    ASSUME NEW a \in 0 .. 1, NEW b \in 0 .. 1, NEW c \in 0 .. 1, NEW d \in 0 .. 1, NEW e \in 0 .. 1
    PROVE  (e + (a + b + c + d)) % 2 = ((((((((d + c) % 2) + b) % 2) + a) % 2) + e) % 2)
<1>1. ASSUME NEW x \in Nat, NEW y \in 0 .. 1  PROVE ((x % 2) + y) % 2 = (x + y) % 2
  OBVIOUS
<1>2. (((d + c) % 2) + b) % 2 = (d + c + b) % 2  BY <1>1
<1>3. (((d + c + b) % 2) + a) % 2 = (d + c + b + a) % 2  BY <1>1
<1>4. (((d + c + b + a) % 2) + e) % 2 = (d + c + b + a + e) % 2  BY <1>1
<1>5. e + (a + b + c + d) = d + c + b + a + e  OBVIOUS
<1> QED  BY <1>2, <1>3, <1>4, <1>5

LEMMA XorAt ==
    ASSUME NEW a, NEW b, NEW j \in 1 .. 4
    PROVE  Xor(a, b)[j] = (a[j] + b[j]) % 2
<1>1. Xor(a, b) = <<(a[1] + b[1]) % 2, (a[2] + b[2]) % 2, (a[3] + b[3]) % 2, (a[4] + b[4]) % 2>>
  BY DEF Xor, Cr!Xor
<1>2. j = 1 \/ j = 2 \/ j = 3 \/ j = 4  OBVIOUS
<1> QED  BY <1>1, <1>2

\* A bit of the remainder of the message's front and of what follows it.
LEMMA OddIs ==
    ASSUME Cr!ConstantsFit, NEW n \in Nat, NEW O, AtMostOne(O), O \subseteq 1 .. n, NEW j \in 1 .. 4
    PROVE  LET terms == {n - i + 4 : i \in {i \in O : i <= n}}
           IN  (Cardinality({t \in terms : Cr!Power(t)[j] = 1})
                  + Cardinality({t \in n .. n + 3 : Cr!Power(t)[j] = 1})) % 2 = Value(n, O)[j]
<1> DEFINE terms == {n - i + 4 : i \in {i \in O : i <= n}}
           Q == {t \in Nat : Cr!Power(t)[j] = 1}
           a == Cr!Power(n)[j]
           b == Cr!Power(n + 1)[j]
           c == Cr!Power(n + 2)[j]
           d == Cr!Power(n + 3)[j]
           z == Zeros(n, Full)
<1>1. \A r \in Register : r[j] \in 0 .. 1
  <2>1. j = 1 \/ j = 2 \/ j = 3 \/ j = 4  OBVIOUS
  <2> QED  BY <2>1, ByBits
<1>2. n + 1 \in Nat /\ n + 2 \in Nat /\ n + 3 \in Nat  OBVIOUS
<1>3. a \in 0 .. 1 /\ b \in 0 .. 1 /\ c \in 0 .. 1 /\ d \in 0 .. 1
  <2>1. \A m \in Nat : Cr!Power(m) \in Register  BY PowerIs
  <2> QED  BY <1>1, <1>2, <2>1
<1>4. /\ (a = 1 <=> n \in Q) /\ (b = 1 <=> n + 1 \in Q)
      /\ (c = 1 <=> n + 2 \in Q) /\ (d = 1 <=> n + 3 \in Q)
  BY <1>2
<1>5. {t \in n .. n + 3 : Cr!Power(t)[j] = 1} = {t \in n .. n + 3 : t \in Q}  OBVIOUS
<1>6. z[j] = (((((d + c) % 2) + b) % 2) + a) % 2
  <2>1. z = Xor(Xor(Xor(Cr!Power(n + 3), Cr!Power(n + 2)), Cr!Power(n + 1)), Cr!Power(n))
    BY FullPowers
  <2> HIDE DEF z
  <2> QED  BY <2>1, XorAt
<1> HIDE DEF Q, a, b, c, d, z
<1>7. Cardinality({t \in n .. n + 3 : Cr!Power(t)[j] = 1}) = a + b + c + d
  BY <1>3, <1>4, <1>5, CountFour
<1> DEFINE T == {t \in terms : Cr!Power(t)[j] = 1}
<1>8. CASE O = {}
  <2>1. T = {}  BY <1>8
  <2>2. Cardinality(T) = 0  BY <2>1, FS_EmptySet
  <2>3. Value(n, O) = z  BY <1>8, ValueOne DEF z
  <2>4. 0 \in 0 .. 1  OBVIOUS
  <2>5. (0 + (a + b + c + d)) % 2 = (((((((d + c) % 2) + b) % 2) + a) % 2) + 0) % 2
    BY <1>3, <2>4, Odd
  <2>6. z[j] \in 0 .. 1 /\ (z[j] + 0) % 2 = z[j]
    <3>1. z \in Register  BY FullPowers DEF z
    <3>2. z[j] \in 0 .. 1  BY <1>1, <3>1
    <3> QED  BY <3>2
  <2> HIDE DEF T
  <2>7. (Cardinality(T) + (a + b + c + d)) % 2 = Value(n, O)[j]
    BY <2>2, <2>3, <2>5, <2>6, <1>6
  <2> QED  BY <2>7, <1>7 DEF T
<1>9. CASE O # {}
  <2>1. PICK i \in Nat \ {0} : O = {i}  BY <1>9 DEF AtMostOne
  <2>2. i <= n /\ n - i + 1 \in Nat /\ n - i + 4 = (n - i + 1) + 3 /\ n - i + 4 \in Nat  BY <2>1
  <2> DEFINE t0 == n - i + 4
             e == Cr!Power(t0)[j]
  <2>3. terms = {t0}  BY <2>1, <2>2
  <2>4. OneAt(n, i) = Cr!Power(t0) /\ Cr!Power(t0) \in Register
    <3>1. OneAt(n, i) = Zeros(n - i + 1, Front(1))  BY <2>2 DEF OneAt
    <3>2. Zeros(n - i + 1, Front(1)) = Cr!Power((n - i + 1) + 3)  BY <2>2, ZerosOfPlaces
    <3> QED  BY <2>2, <3>1, <3>2, PowerIs
  <2>5. Value(n, O)[j] = (z[j] + e) % 2
    <3>1. Value(n, O) = Xor(z, Cr!Power(t0))  BY <2>1, <2>4, ValueOne DEF z
    <3> QED  BY <3>1, XorAt
  <2>6. e \in 0 .. 1  BY <1>1, <2>4
  <2>7. Cardinality(T) = e
    <3>1. CASE e = 1
      <4>1. T = {t0}  BY <2>3, <3>1
      <4> HIDE DEF T
      <4> QED  BY <4>1, <3>1, FS_Singleton
    <3>2. CASE e # 1
      <4>1. T = {} /\ e = 0  BY <2>3, <2>6, <3>2
      <4> HIDE DEF T
      <4> QED  BY <4>1, FS_EmptySet
    <3> QED  BY <3>1, <3>2
  <2> HIDE DEF T, e, t0
  <2>8. (e + (a + b + c + d)) % 2 = (((((((d + c) % 2) + b) % 2) + a) % 2) + e) % 2
    BY <1>3, <2>6, Odd
  <2>9. (Cardinality(T) + (a + b + c + d)) % 2 = Value(n, O)[j]
    BY <2>5, <2>7, <2>8, <1>6
  <2> QED  BY <2>9, <1>7 DEF T
<1> QED  BY <1>8, <1>9

LEMMA CardinalityIs == \A R : Cr!Cardinality(R) = Cardinality(R)
BY DEF Cr!Cardinality, Cardinality

LEMMA CheckIs ==
    ASSUME Cr!ConstantsFit, NEW n \in Nat, AtMostOne(ones), ones \subseteq 1 .. n
    PROVE  Cr!Check(n) = Cr!Not(Value(n, ones))
<1> DEFINE terms == {n - i + 4 : i \in {i \in ones : i <= n}}
           odd(j) == (Cr!Cardinality({t \in terms : Cr!Power(t)[j] = 1})
                        + Cr!Cardinality({t \in n .. n + 3 : Cr!Power(t)[j] = 1})) % 2
<1>1. Cr!Check(n) = Cr!Not(<<odd(1), odd(2), odd(3), odd(4)>>)  BY Zenon DEF Cr!Check
<1>2. \A j \in 1 .. 4 : odd(j) = Value(n, ones)[j]  BY OddIs, CardinalityIs
<1>3. Value(n, ones) \in Register  BY ValueType
<1> HIDE DEF odd
<1>4. <<odd(1), odd(2), odd(3), odd(4)>> = Value(n, ones)
  <2>1. 1 \in 1 .. 4 /\ 2 \in 1 .. 4 /\ 3 \in 1 .. 4 /\ 4 \in 1 .. 4  OBVIOUS
  <2> DEFINE v == Value(n, ones)
  <2>2. odd(1) = v[1] /\ odd(2) = v[2] /\ odd(3) = v[3] /\ odd(4) = v[4]  BY <1>2, <2>1
  <2>3. v = <<v[1], v[2], v[3], v[4]>>  BY <1>3, ByBits
  <2> HIDE DEF v
  <2>4. v = <<odd(1), odd(2), odd(3), odd(4)>>  BY <2>2, <2>3
  <2> QED  BY <2>4 DEF v
<1> QED  BY <1>1, <1>4

-----------------------------------------------------------------------------
(* CRC: the invariant *)

\* The register, complemented, is the one that the bytes fed have made, but of
\* an object in memory too long for an unsigned.
CrcInv ==
    /\ impl \in Cr!Impls /\ given \in Nat /\ whole \in BOOLEAN
    /\ AtMostOne(ones) /\ ones \subseteq 1 .. given
    /\ (whole => given < UInt) => context = Cr!Not(Value(given, ones))

\* What one call makes of it.
LEMMA NewsAre ==
    ASSUME given \in Nat, AtMostOne(ones), NEW k \in Nat, NEW new \in Cr!News(k)
    PROVE  AtMostOne(new) /\ new \subseteq given + 1 .. given + k /\ (new # {} => ones = {})
<1>1. CASE new = {}  BY <1>1 DEF AtMostOne
<1>2. CASE new # {}
  <2>1. ones = {} /\ \E i \in given + 1 .. given + k : new = {i}  BY <1>2 DEF Cr!News
  <2>2. PICK i \in given + 1 .. given + k : new = {i}  BY <2>1
  <2>3. i \in Nat \ {0}  OBVIOUS
  <2> QED  BY <2>1, <2>2, <2>3 DEF AtMostOne
<1> QED  BY <1>1, <1>2

LEMMA ValueNone == Cr!ConstantsFit => Cr!Not(Value(0, {})) = ZeroWord
<1> SUFFICES ASSUME Cr!ConstantsFit PROVE Cr!Not(Value(0, {})) = ZeroWord  OBVIOUS
<1>1. Value(0, {}) = Full  BY FullIs, ZerosSteps, ValueOne
<1>2. Cr!Not(Full) = Xor(Full, Full)  BY DEF Cr!Not, Xor, Full
<1> QED  BY <1>1, <1>2, FullIs, XorRules

LEMMA CrcAlways == Cr!Spec => []CrcInv
<1>0. Cr!ConstantsFit /\ UInt \in Nat \ {0} /\ Lengths \subseteq Nat
  <2>1. Cr!ConstantsFit  BY InstancesFit
  <2> QED  BY <2>1 DEF Cr!ConstantsFit
<1>1. ASSUME given = 0, ones = {}, context = ZeroWord, whole = FALSE, impl \in Cr!Impls  PROVE CrcInv
  <2>1. ones \subseteq 1 .. given /\ given \in Nat  BY <1>1
  <2> QED  BY <1>0, <1>1, <2>1, ValueNone DEF CrcInv, AtMostOne
<1>2. Cr!Init => CrcInv
  <2> SUFFICES ASSUME Cr!Init PROVE CrcInv  OBVIOUS
  <2>1. given = 0 /\ ones = {} /\ context = ZeroWord /\ whole = FALSE /\ impl \in Cr!Impls
    BY DEF Cr!Init, ZeroWord
  <2> QED  BY <1>1, <2>1
<1>3. CrcInv /\ [Cr!Next]_(Cr!vars) => CrcInv'
  <2> SUFFICES ASSUME CrcInv, [Cr!Next]_(Cr!vars) PROVE CrcInv'  OBVIOUS
  <2>0. /\ impl \in Cr!Impls /\ given \in Nat /\ whole \in BOOLEAN
        /\ AtMostOne(ones) /\ ones \subseteq 1 .. given
        /\ (whole => given < UInt) => context = Cr!Not(Value(given, ones))
    BY DEF CrcInv
  <2>1. CASE Cr!Starts
    <3>1. /\ given' = 0 /\ ones' = {} /\ context' = ZeroWord /\ whole' = FALSE /\ impl' = impl
      BY <2>1 DEF Cr!Starts, ZeroWord
    <3>2. ones' \subseteq 1 .. given' /\ given' \in Nat /\ AtMostOne(ones')
      BY <3>1 DEF AtMostOne
    <3>3. context' = Cr!Not(Value(given', ones'))  BY <1>0, <3>1, ValueNone
    <3> QED  BY <2>0, <3>1, <3>2, <3>3 DEF CrcInv, AtMostOne
  <2>2. ASSUME NEW k \in Lengths, NEW ptr \in 0 .. 3, NEW new \in Cr!News(k), Cr!Update(k, ptr, new)
        PROVE  CrcInv'
    <3>1. /\ ~ whole /\ given' = given + k /\ ones' = ones \cup new
          /\ context' = Cr!Extend(context, Cr!Bits(new, given, k), ptr)
          /\ impl' = impl /\ whole' = whole
      BY <2>2 DEF Cr!Update
    <3>2. k \in Nat  BY <1>0
    <3>3. AtMostOne(new) /\ new \subseteq given + 1 .. given + k /\ (new # {} => ones = {})
      BY <2>0, <3>2, NewsAre
    <3>4. context = Cr!Not(Value(given, ones))  BY <2>0, <3>1
    <3>5. context' = Cr!Not(Value(given + k, ones \cup new))
      <4>1. Cr!Extend(Cr!Not(Value(given, ones)), Cr!Bits(new, given, k), ptr)
              = Cr!Not(Value(given + k, ones \cup new))
        <5>1. MayFollow(given, k, ones, new)  BY <2>0, <3>3, Zenon DEF MayFollow
        <5> QED  BY <1>0, <2>0, <3>2, <5>1, ValueExtend
      <4> QED  BY <3>1, <3>4, <4>1
    <3>6. AtMostOne(ones \cup new) /\ ones \cup new \subseteq 1 .. given + k
      BY <1>0, <2>0, <3>2, <3>3, ValueTrace
    <3>7. given' \in Nat  BY <2>0, <3>1, <3>2
    <3> QED  BY <2>0, <3>1, <3>5, <3>6, <3>7 DEF CrcInv, AtMostOne
  <2>3. ASSUME NEW k \in Lengths, NEW ptr \in 0 .. 3, NEW new \in Cr!News(k), Cr!Memory(k, ptr, new)
        PROVE  CrcInv'
    <3>1. /\ given = 0 /\ given' = k /\ ones' = new /\ whole' = TRUE /\ impl' = impl
          /\ context' = Cr!Extend(context, Cr!Bits(new, 0, Cr!Narrow(k)), ptr)
      BY <2>3 DEF Cr!Memory
    <3>2. k \in Nat  BY <1>0
    <3>3. AtMostOne(new) /\ new \subseteq 0 + 1 .. 0 + k
      BY <2>0, <3>1, <3>2, NewsAre
    <3>4. ones = {}
      <4>1. 1 .. given = {}  BY <3>1
      <4> QED  BY <2>0, <4>1
    <3>5. k < UInt => context' = Cr!Not(Value(k, new))
      <4> SUFFICES ASSUME k < UInt PROVE context' = Cr!Not(Value(k, new))  OBVIOUS
      <4>1. Cr!Narrow(k) = k
        <5>1. k \in 0 .. UInt - 1  BY <1>0, <3>2
        <5>2. k % UInt = k  BY <1>0, <5>1, ModSmall
        <5> QED  BY <5>2 DEF Cr!Narrow
      <4>2. context = Cr!Not(Value(0, {}))  BY <1>0, <2>0, <3>1, <3>4
      <4>3. AtMostOne({}) /\ {} \subseteq 1 .. 0 /\ 0 \in Nat  BY DEF AtMostOne
      <4>4. Cr!Extend(Cr!Not(Value(0, {})), Cr!Bits(new, 0, k), ptr)
              = Cr!Not(Value(0 + k, {} \cup new))
        <5>1. MayFollow(0, k, {}, new)  BY <3>3, <4>3, Zenon DEF MayFollow
        <5> QED  BY <1>0, <2>0, <3>2, <4>3, <5>1, ValueExtend
      <4>5. 0 + k = k /\ {} \cup new = new  BY <3>2
      <4> QED  BY <3>1, <4>1, <4>2, <4>4, <4>5
    <3>6. ones' \subseteq 1 .. given' /\ given' \in Nat  BY <3>1, <3>2, <3>3
    <3> QED  BY <2>0, <3>1, <3>3, <3>5, <3>6 DEF CrcInv, AtMostOne
  <2>4. CASE UNCHANGED Cr!vars
    BY <2>0, <2>4 DEF Cr!vars, CrcInv, AtMostOne
  <2> QED  BY <2>1, <2>2, <2>3, <2>4 DEF Cr!Next
<1> QED  BY <1>2, <1>3, PTL DEF Cr!Spec

LEMMA CrcAlone == AnySpec => [](machine # "crc") \/ Cr!Spec
<1>1. AnyInit => machine # "crc" \/ (machine = "crc" /\ Cr!Init)  BY DEF AnyInit
<1>2. machine # "crc" /\ [AnyNext]_allVars => (machine # "crc")'
  BY DEF AnyNext, allVars
<1>3. machine = "crc" /\ [AnyNext]_allVars => (machine = "crc")' /\ [Cr!Next]_(Cr!vars)
  BY DEF AnyNext, allVars, otherVars, Cr!vars
<1> QED  BY <1>1, <1>2, <1>3, PTL DEF AnySpec, Cr!Spec

\* Wherever the buffers lie and however the message is cut into them, the words
\* and strides taken by tables, the reversed registers of a big-endian machine
\* and the four registers of CRC-32C give the remainder of the message's
\* division by the polynomial; an object in memory must be shorter than an
\* unsigned can tell for that.
THEOREM CrcRemainder == AnySpec => []CrcOfMessage
<1>1. CrcInv => Cr!CrcOfMessage
  <2> SUFFICES ASSUME CrcInv, whole => given < UInt  PROVE context = Cr!Check(given)
    BY DEF Cr!CrcOfMessage
  <2>1. Cr!ConstantsFit  BY InstancesFit
  <2> QED  BY <2>1, CheckIs DEF CrcInv
<1>2. (machine = "crc" => Cr!CrcOfMessage) => CrcOfMessage  BY DEF CrcOfMessage
<1>3. machine # "crc" => (machine = "crc" => Cr!CrcOfMessage)  OBVIOUS
<1> QED  BY <1>1, <1>2, <1>3, CrcAlways, CrcAlone, PTL

-----------------------------------------------------------------------------
\* XXH64's and XXH3's buffers, Murmur's carry and Fletcher's sums stay in their
\* ranges, whichever of them runs: no buffer overflows, no counter leaves its
\* word, and a 32-bit sum never overflows.
THEOREM TypeCorrect == AnySpec => []StreamsTyped
<1>1. /\ (machine = "xxhash64" => Xxh64!TypeOK)
      /\ (machine = "xxh3" => X3!TypeOK)
      /\ (machine = "murmur32" => Mu!TypeOK)
      /\ (machine = "fletcher" => Fl!TypeOK)
      => StreamsTyped
  BY DEF StreamsTyped
<1> QED
  BY <1>1, Xxh64TypeCorrect, Xxh3TypeCorrect, MurmurTypeCorrect, FlRuns, FlTyped, PTL
=============================================================================
