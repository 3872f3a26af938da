------------------------- MODULE BlockStreamsProofs -------------------------
(***************************************************************************)
(* Proofs about SHA-512 and SpookyHash in BlockStreams; those about BLAKE3 *)
(* are in Blake3Proofs. For all block sizes and messages, for every width  *)
(* of SHA-512's counter and of Spooky's skip counters, every header,       *)
(* serialization and way R_Serialize cuts it into writes.                  *)
(***************************************************************************)
EXTENDS BlockStreams, Foundations, SequenceTheorems

-----------------------------------------------------------------------------
(* SHA-512: what its context holds *)

Context == [bits0 : 0 .. Word - 1, bits1 : Nat, buffer : [1 .. B -> Byte],
            stream : Seq(Byte)]

\* The bytes of the message from n on, as the caller passes them.
Piece(n, k) == [i \in 1 .. k |-> Data[n + i]]
Message(n) == [i \in 1 .. n |-> Data[i]]

\* What Lossless says of the context when n bytes have been fed: where they
\* are, and how many the counter says.
Placed(c, n) ==
    /\ c \in Context
    /\ Len(c.stream) % B = 0 /\ Len(c.stream) + (n % B) = n
    /\ \A i \in 1 .. Len(c.stream) : c.stream[i] = Data[i]
    /\ \A i \in 1 .. n % B : c.buffer[i] = Data[Len(c.stream) + i]
Counted(c, n) == c.bits0 + Word * c.bits1 = n * BitsOf
Absorbs(c, n) == Placed(c, n) /\ Counted(c, n)

-----------------------------------------------------------------------------
(* SHA-512: the helpers *)

LEMMA PieceType ==
    ASSUME NEW n \in Nat, NEW k \in Nat, n + k <= MaxFed
    PROVE  /\ Piece(n, k) \in Seq(Byte) /\ Len(Piece(n, k)) = k
           /\ \A i \in 1 .. k : Piece(n, k)[i] = Data[n + i]
<1>1. \A i \in 1 .. k : n + i \in 1 .. MaxFed  BY BlockAssumption
<1>2. \A i \in 1 .. k : Data[n + i] \in Byte  BY <1>1 DEF Byte
<1>3. Piece(n, k) \in [1 .. k -> Byte]  BY <1>2 DEF Piece
<1>4. Piece(n, k) \in Seq(Byte)  BY <1>3
<1>5. Len(Piece(n, k)) = k  BY <1>3, <1>4
<1> QED  BY <1>4, <1>5 DEF Piece

\* A part of a piece is a piece.
LEMMA PieceOfPiece ==
    ASSUME NEW n \in Nat, NEW k \in Nat, n + k <= MaxFed,
           NEW a \in 1 .. k + 1, NEW b \in a - 1 .. k
    PROVE  SubSeq(Piece(n, k), a, b) = Piece(n + a - 1, b - a + 1)
<1> DEFINE s == Piece(n, k)
           p == SubSeq(s, a, b)
           q == Piece(n + a - 1, b - a + 1)
<1>1. s \in Seq(Byte) /\ Len(s) = k /\ \A i \in 1 .. k : s[i] = Data[n + i]
  BY PieceType
<1>2. n + a - 1 \in Nat /\ b - a + 1 \in Nat /\ (n + a - 1) + (b - a + 1) <= MaxFed
  BY BlockAssumption
<1>3. /\ q \in Seq(Byte) /\ Len(q) = b - a + 1
      /\ \A i \in 1 .. b - a + 1 : q[i] = Data[n + a - 1 + i]
  BY <1>2, PieceType
<1> HIDE DEF s, q
<1>4. p \in Seq(Byte) /\ Len(p) = b - a + 1
  BY <1>1
<1>5. \A i \in 1 .. b - a + 1 : p[i] = s[a + i - 1] /\ a + i - 1 \in 1 .. k
  BY <1>1
<1>6. \A i \in 1 .. b - a + 1 : n + (a + i - 1) = n + a - 1 + i  OBVIOUS
<1>7. \A i \in 1 .. b - a + 1 : p[i] = q[i]  BY <1>1, <1>3, <1>5, <1>6, ZenonT(60)
<1> HIDE DEF p
<1>8. p = q  BY <1>3, <1>4, <1>7, SeqEqual
<1> QED  BY <1>8 DEF p, q, s

LEMMA CopyEffect ==
    ASSUME NEW buffer \in [1 .. B -> Byte], NEW s \in Seq(Byte), NEW at \in Nat
    PROVE  /\ Copy(buffer, at, s) \in [1 .. B -> Byte]
           /\ \A i \in 1 .. B : Copy(buffer, at, s)[i] =
                 IF at < i /\ i <= at + Len(s) THEN s[i - at] ELSE buffer[i]
<1>1. ASSUME NEW i \in 1 .. B, at < i, i <= at + Len(s)  PROVE s[i - at] \in Byte
  <2>1. i - at \in 1 .. Len(s)  BY <1>1, BlockAssumption
  <2> QED  BY <2>1
<1> QED  BY <1>1 DEF Copy

\* The buffer joins the stream, and is lost.
LEMMA TransformEffect ==
    ASSUME NEW c \in Context
    PROVE  LET u == SHA512_Transform(c)
           IN  /\ u \in Context /\ u.bits0 = c.bits0 /\ u.bits1 = c.bits1
               /\ Len(u.stream) = Len(c.stream) + B
               /\ \A i \in 1 .. Len(c.stream) + B : u.stream[i] =
                    IF i <= Len(c.stream) THEN c.stream[i] ELSE c.buffer[i - Len(c.stream)]
<1> DEFINE u == SHA512_Transform(c)
           b == c.buffer
           s == c.stream
<1>1. s \in Seq(Byte) /\ b \in [1 .. B -> Byte] /\ B \in Nat  BY BlockAssumption DEF Context
<1>2. b \in Seq(Byte) /\ Len(b) = B  BY <1>1
<1>3. u.stream = s \o b /\ u.bits0 = c.bits0 /\ u.bits1 = c.bits1
      /\ u = [bits0 |-> c.bits0, bits1 |-> c.bits1,
              buffer |-> [i \in 1 .. B |-> Mixed], stream |-> s \o b]
  BY DEF SHA512_Transform
<1>4. [i \in 1 .. B |-> Mixed] \in [1 .. B -> Byte]  BY DEF Byte
<1> HIDE DEF u, b, s
<1>5. /\ s \o b \in Seq(Byte) /\ Len(s \o b) = Len(s) + Len(b)
      /\ \A i \in 1 .. Len(s) + Len(b) :
            (s \o b)[i] = IF i <= Len(s) THEN s[i] ELSE b[i - Len(s)]
  BY <1>1, <1>2, ConcatProperties
<1>6. u \in Context  BY <1>3, <1>4, <1>5 DEF Context
<1> QED  BY <1>2, <1>3, <1>5, <1>6 DEF u, b, s

\* The carry into the second word is never lost.
LEMMA CountEffect ==
    ASSUME NEW c \in Context, NEW n \in 0 .. Word - 1
    PROVE  LET u == ADDINC128(c, n)
           IN  /\ u \in Context /\ u.buffer = c.buffer /\ u.stream = c.stream
               /\ u.bits0 + Word * u.bits1 = c.bits0 + Word * c.bits1 + n
<1> DEFINE u   == ADDINC128(c, n)
           low == (c.bits0 + n) % Word
<1>1. c.bits0 \in 0 .. Word - 1 /\ c.bits1 \in Nat /\ Word \in Nat \ {0}
  BY BlockAssumption DEF Context
<1>2. low \in 0 .. Word - 1
  <2>1. c.bits0 + n \in Int  BY <1>1
  <2> QED  BY <1>1, <2>1, ModRange
<1>3. /\ low < n => c.bits0 + n = Word + low
      /\ low >= n => c.bits0 + n = low
  BY <1>1, WrapSeen
<1>4. /\ u.bits0 = low /\ u.bits1 = (IF low < n THEN c.bits1 + 1 ELSE c.bits1)
      /\ u.buffer = c.buffer /\ u.stream = c.stream
      /\ u = [bits0 |-> low, bits1 |-> IF low < n THEN c.bits1 + 1 ELSE c.bits1,
              buffer |-> c.buffer, stream |-> c.stream]
  BY DEF ADDINC128
<1> HIDE DEF u, low
<1>5. u \in Context  BY <1>1, <1>2, <1>4 DEF Context
<1>6. u.bits0 + Word * u.bits1 = c.bits0 + Word * c.bits1 + n
  <2>1. CASE low < n
    <3>1. Word * (c.bits1 + 1) = Word * c.bits1 + Word  BY <1>1
    <3> QED  BY <1>1, <1>2, <1>3, <1>4, <2>1, <3>1
  <2>2. CASE low >= n  BY <1>1, <1>2, <1>3, <1>4, <2>2
  <2> QED  BY <1>2, <2>1, <2>2
<1> QED  BY <1>4, <1>5, <1>6 DEF u

-----------------------------------------------------------------------------
(* SHA-512: what Update does *)

\* The counter tells how full the buffer is, also after its low word wrapped.
LEMMA UsedIsRest ==
    ASSUME NEW c, NEW n \in 0 .. MaxFed, Absorbs(c, n)
    PROVE  UsedSpace(c) = n % B
<1> DEFINE t == c.bits0
           h == c.bits1
           m == B * BitsOf
<1>1. /\ t \in Nat /\ h \in Nat /\ n \in Nat /\ t + Word * h = n * BitsOf
      /\ B \in Nat \ {0} /\ BitsOf \in Nat \ {0} /\ Word \in Nat \ {0}
  BY BlockAssumption DEF Absorbs, Placed, Counted, Context
<1>2. m \in Nat \ {0}
  <2>1. B * BitsOf >= 0 * BitsOf + BitsOf  BY <1>1, MultiplesApart
  <2> QED  BY <1>1, <2>1
<1>3. Word % m = 0  BY BlockAssumption
<1> HIDE DEF t, h
<1>4. PICK q \in Int : Word = q * m
  <2> DEFINE q == Word \div m
  <2>1. q \in Int /\ Word = q * m + (Word % m)
    <3> HIDE DEF m
    <3> QED  BY <1>1, <1>2, DivMod
  <2> HIDE DEF q, m
  <2>2. q * m \in Int  BY <1>2, <2>1
  <2> QED  BY <1>3, <2>1, <2>2
<1> DEFINE x == q * h
           y == n - x * B
<1>5. x \in Int /\ y \in Int  BY <1>1
<1>6. Word * h = (x * B) * BitsOf
  <2>1. (q * (B * BitsOf)) * h = ((q * h) * B) * BitsOf  BY <1>1
  <2> QED  BY <1>4, <2>1
<1>7. t = y * BitsOf + 0
  <2> DEFINE z == x * B
  <2>1. z \in Int  BY <1>1, <1>5
  <2>2. (n - z) * BitsOf = n * BitsOf - z * BitsOf  BY <1>1, <2>1
  <2> QED  BY <1>1, <1>6, <2>1, <2>2
<1> HIDE DEF y, x
<1>8. t \div BitsOf = y  BY <1>1, <1>5, <1>7, ModUnique
<1>9. y % B = n % B
  <2> DEFINE z == -x
  <2>1. y = n + z * B /\ z \in Int  BY <1>1, <1>5 DEF y
  <2> HIDE DEF z
  <2>2. (n + z * B) % B = n % B
    <3>1. n \in Int /\ z \in Int /\ B \in Nat \ {0}  BY <1>1, <2>1
    <3> QED  BY <3>1, ModAddMultiple
  <2> QED  BY <2>1, <2>2
<1> QED  BY <1>8, <1>9 DEF UsedSpace, t

LEMMA CountAdds ==
    ASSUME NEW c \in Context, NEW n \in Nat, NEW k \in 0 .. B,
           c.bits0 + Word * c.bits1 = n * BitsOf
    PROVE  LET u == ADDINC128(c, k * BitsOf)
           IN  /\ u \in Context /\ u.buffer = c.buffer /\ u.stream = c.stream
               /\ Counted(u, n + k)
<1>1. k * BitsOf \in 0 .. Word - 1
  <2>1. k * BitsOf \in Nat  BY BlockAssumption
  <2>2. k * BitsOf <= B * BitsOf  BY BlockAssumption
  <2>3. B * BitsOf \in Nat /\ B * BitsOf < Word  BY BlockAssumption
  <2> QED  BY <2>1, <2>2, <2>3, BlockAssumption
<1>2. (n + k) * BitsOf = n * BitsOf + k * BitsOf  BY BlockAssumption
<1> DEFINE u == ADDINC128(c, k * BitsOf)
<1>3. /\ u \in Context /\ u.buffer = c.buffer /\ u.stream = c.stream
      /\ u.bits0 + Word * u.bits1 = c.bits0 + Word * c.bits1 + k * BitsOf
  BY <1>1, CountEffect
<1> HIDE DEF u
<1> QED  BY <1>2, <1>3 DEF Counted, u

\* A piece that completes the block, and the transform.
LEMMA JoinBlock ==
    ASSUME NEW c, NEW n \in Nat, Placed(c, n), NEW d \in Context,
           n + (B - (n % B)) <= MaxFed, d.stream = c.stream,
           d.buffer = Copy(c.buffer, n % B, Piece(n, B - (n % B)))
    PROVE  Placed(SHA512_Transform(d), n + (B - (n % B)))
<1> DEFINE r == n % B
           m == n + (B - r)
           p == Piece(n, B - r)
           u == SHA512_Transform(d)
           seen == Len(c.stream)
<1>1. r \in 0 .. B - 1 /\ B \in Nat \ {0} /\ m % B = 0
  <2>1. r \in 0 .. B - 1  BY BlockAssumption, ModRange
  <2>2. n = (n \div B) * B + r /\ n \div B \in Int  BY BlockAssumption, DivMod
  <2>3. m = ((n \div B) + 1) * B + 0
    <3> DEFINE q == n \div B
    <3> HIDE DEF q
    <3>1. (q + 1) * B = q * B + B  BY <2>2, BlockAssumption DEF q
    <3>2. n = q * B + r /\ q * B \in Int /\ r \in Int  BY <2>1, <2>2, BlockAssumption DEF q
    <3> HIDE DEF r
    <3> QED  BY <3>1, <3>2, BlockAssumption DEF q
  <2>4. (n \div B) + 1 \in Int /\ m \in Int /\ 0 \in 0 .. B - 1  BY <2>1, <2>2, BlockAssumption
  <2> HIDE DEF m, r
  <2> QED  BY <2>1, <2>3, <2>4, BlockAssumption, ModUnique
<1>2. /\ p \in Seq(Byte) /\ Len(p) = B - r
      /\ \A i \in 1 .. B - r : p[i] = Data[n + i]
  <2>1. B - r \in Nat  BY <1>1
  <2> HIDE DEF r
  <2> QED  BY <2>1, PieceType DEF r
<1>3. /\ c.stream \in Seq(Byte) /\ c.buffer \in [1 .. B -> Byte]
      /\ seen \in Nat /\ seen % B = 0 /\ seen + r = n
      /\ \A i \in 1 .. seen : c.stream[i] = Data[i]
      /\ \A i \in 1 .. r : c.buffer[i] = Data[seen + i]
  BY DEF Placed, Context
<1>4. /\ u \in Context /\ Len(u.stream) = seen + B
      /\ \A i \in 1 .. seen + B : u.stream[i] =
            IF i <= seen THEN c.stream[i] ELSE d.buffer[i - seen]
  <2>1. /\ u \in Context /\ Len(u.stream) = Len(d.stream) + B
        /\ \A i \in 1 .. Len(d.stream) + B : u.stream[i] =
              IF i <= Len(d.stream) THEN d.stream[i] ELSE d.buffer[i - Len(d.stream)]
    BY TransformEffect
  <2> HIDE DEF u
  <2> QED  BY <2>1
<1> HIDE DEF r, p, u, seen
<1>5. \A i \in 1 .. B : d.buffer[i] =
          IF r < i /\ i <= r + (B - r) THEN p[i - r] ELSE c.buffer[i]
  <2>1. r \in Nat  BY <1>1
  <2>2. d.buffer = Copy(c.buffer, r, p)  BY DEF r, p
  <2>3. \A i \in 1 .. B : Copy(c.buffer, r, p)[i] =
           IF r < i /\ i <= r + Len(p) THEN p[i - r] ELSE c.buffer[i]
    BY <1>2, <1>3, <2>1, CopyEffect, ZenonT(60)
  <2> QED  BY <1>2, <2>2, <2>3
<1>6. ASSUME NEW i \in 1 .. B  PROVE d.buffer[i] = Data[seen + i]
  <2>1. CASE i <= r
    <3>1. i \in 1 .. r /\ ~ (r < i)  BY <2>1, <1>1
    <3> QED  BY <1>3, <1>5, <3>1
  <2>2. CASE r < i
    <3>1. i - r \in 1 .. B - r /\ i <= r + (B - r) /\ n + (i - r) = seen + i
      BY <2>2, <1>1, <1>3
    <3>2. d.buffer[i] = p[i - r]  BY <1>5, <2>2, <3>1
    <3> QED  BY <1>2, <3>1, <3>2
  <2> QED  BY <1>1, <2>1, <2>2
<1>7. seen + B = m  BY <1>1, <1>3
<1>8. ASSUME NEW i \in 1 .. seen + B  PROVE u.stream[i] = Data[i]
  <2>1. CASE i <= seen
    <3>1. i \in 1 .. seen  BY <2>1, <1>3
    <3> QED  BY <1>3, <1>4, <2>1, <3>1
  <2>2. CASE ~ (i <= seen)
    <3>0. seen \in Nat /\ B \in Nat  BY <1>1, <1>3
    <3>1. i - seen \in 1 .. B /\ seen + (i - seen) = i  BY <2>2, <3>0
    <3>2. d.buffer[i - seen] = Data[i]  BY <1>6, <3>1
    <3> QED  BY <1>4, <2>2, <3>2
  <2> QED  BY <2>1, <2>2
<1>9. Placed(u, m)
  <2>1. m \in Nat
    <3>1. seen + B \in Nat  BY <1>1, <1>3
    <3> QED  BY <1>7, <3>1
  <2> HIDE DEF m
  <2> QED  BY <1>1, <1>4, <1>7, <1>8, <2>1 DEF Placed
<1> QED  BY <1>9 DEF u, r

\* A piece that leaves the block open.
LEMMA JoinRest ==
    ASSUME NEW c, NEW n \in Nat, Placed(c, n), NEW d \in Context,
           NEW k \in Nat, (n % B) + k < B, n + k <= MaxFed, d.stream = c.stream,
           d.buffer = Copy(c.buffer, n % B, Piece(n, k))
    PROVE  Placed(d, n + k)
<1> DEFINE r == n % B
           p == Piece(n, k)
           seen == Len(c.stream)
<1>1. r \in 0 .. B - 1 /\ B \in Nat \ {0}
  <2>1. B \in Nat \ {0} /\ n \in Int  BY BlockAssumption
  <2> QED  BY <2>1, ModRange
<1>2. /\ p \in Seq(Byte) /\ Len(p) = k
      /\ \A i \in 1 .. k : p[i] = Data[n + i]
  BY PieceType
<1>3. /\ c.stream \in Seq(Byte) /\ c.buffer \in [1 .. B -> Byte]
      /\ seen \in Nat /\ seen % B = 0 /\ seen + r = n
      /\ \A i \in 1 .. seen : c.stream[i] = Data[i]
      /\ \A i \in 1 .. r : c.buffer[i] = Data[seen + i]
  BY DEF Placed, Context
<1>4. (n + k) % B = r + k
  <2>1. n = (n \div B) * B + r /\ n \div B \in Int  BY BlockAssumption, DivMod
  <2>2. r + k \in 0 .. B - 1  BY <1>1
  <2> DEFINE q == n \div B
  <2> HIDE DEF q, r
  <2>3. n + k = q * B + (r + k)  BY <1>1, <2>1 DEF q
  <2>4. n + k \in Int /\ q \in Int  BY <2>1 DEF q
  <2> QED  BY <1>1, <2>2, <2>3, <2>4, ModUnique
<1> HIDE DEF r, p, seen
<1>5. \A i \in 1 .. B : d.buffer[i] =
          IF r < i /\ i <= r + k THEN p[i - r] ELSE c.buffer[i]
  <2>1. r \in Nat  BY <1>1
  <2>2. d.buffer = Copy(c.buffer, r, p)  BY DEF r, p
  <2>3. \A i \in 1 .. B : Copy(c.buffer, r, p)[i] =
           IF r < i /\ i <= r + Len(p) THEN p[i - r] ELSE c.buffer[i]
    BY <1>2, <1>3, <2>1, CopyEffect, ZenonT(60)
  <2> QED  BY <1>2, <2>2, <2>3
<1>6. ASSUME NEW i \in 1 .. r + k  PROVE d.buffer[i] = Data[seen + i]
  <2>0. r + k < B  BY DEF r
  <2>1. CASE i <= r
    <3>1. i \in 1 .. r /\ ~ (r < i) /\ i \in 1 .. B  BY <2>1, <1>1
    <3> QED  BY <1>3, <1>5, <3>1
  <2>2. CASE r < i
    <3>0. r \in Nat /\ seen \in Nat /\ B \in Nat /\ seen + r = n  BY <1>1, <1>3
    <3>1. i - r \in 1 .. k /\ i \in 1 .. B /\ i <= r + k /\ n + (i - r) = seen + i
      BY <2>0, <2>2, <3>0
    <3>2. d.buffer[i] = p[i - r]  BY <1>5, <2>2, <3>1
    <3> QED  BY <1>2, <3>1, <3>2
  <2> QED  BY <1>1, <2>1, <2>2
<1>7. seen + (r + k) = n + k  BY <1>1, <1>3
<1> QED  BY <1>3, <1>4, <1>6, <1>7 DEF Placed, seen

\* The loop over the blocks, which begins with an empty buffer.
LEMMA WholeBlocksEffect ==
    ASSUME NEW c, NEW n \in Nat, NEW k \in Nat, Absorbs(c, n), n % B = 0,
           n + k <= MaxFed
    PROVE  LET q == k \div B
           IN  Absorbs(WholeBlocks(c, Piece(n, k)), n + q * B)
<1> DEFINE data == Piece(n, k)
           q == k \div B
           block(j) == SubSeq(data, (j - 1) * B + 1, j * B)
           next(d, j) == ADDINC128(SHA512_Transform([d EXCEPT
                             !.buffer = Copy(@, 0, block(j))]), B * BitsOf)
           after[j \in 0 .. q] == IF j = 0 THEN c ELSE next(after[j - 1], j)
<1>1. /\ B \in Nat \ {0} /\ BitsOf \in Nat \ {0} /\ Word \in Nat \ {0}
      /\ MaxFed \in Nat
  BY BlockAssumption
<1>2. q \in Nat /\ k % B \in 0 .. B - 1 /\ k = q * B + (k % B) /\ q * B <= k
  <2>1. q \in Int /\ k % B \in 0 .. B - 1 /\ k = q * B + (k % B)  BY <1>1, DivMod
  <2> HIDE DEF q
  <2>2. ~ (0 > q)
    <3>1. 0 > q => 0 * B >= q * B + B  BY <1>1, <2>1, MultiplesApart
    <3> QED  BY <3>1, <2>1, <1>1
  <2>3. q * B \in Int  BY <1>1, <2>1
  <2> QED  BY <2>1, <2>2, <2>3
<1>3. data \in Seq(Byte) /\ Len(data) = k  BY PieceType
<1>4. WholeBlocks(c, data) = after[q]  BY <1>3 DEF WholeBlocks
<1> HIDE DEF q, data
\* One round.
<1>5. ASSUME NEW j \in 1 .. q, NEW d, Absorbs(d, n + (j - 1) * B)
      PROVE  Absorbs(next(d, j), n + j * B)
  <2> DEFINE m == n + (j - 1) * B
             f == [d EXCEPT !.buffer = Copy(@, 0, block(j))]
  <2>1. /\ m \in Nat /\ m + B = n + j * B /\ j * B <= q * B /\ (j - 1) * B \in Nat
        /\ j * B \in Nat
    <3>1. j * B = (j - 1) * B + B  BY <1>1
    <3>2. j * B <= q * B
      <4>1. q > j => q * B >= j * B + B  BY <1>1, <1>2, MultiplesApart
      <4> QED  BY <1>1, <1>2, <4>1
    <3>3. (j - 1) * B \in Nat  BY <1>1
    <3> QED  BY <1>1, <3>1, <3>2, <3>3
  <2>2. m % B = 0
    <3>1. j - 1 \in Int /\ n \in Int  OBVIOUS
    <3>2. (n + (j - 1) * B) % B = n % B  BY <1>1, <3>1, ModAddMultiple
    <3> QED  BY <3>2
  <2>3. m + B <= MaxFed  BY <1>1, <1>2, <2>1
  <2>4. block(j) = Piece(m, B)
    <3>1. /\ (j - 1) * B + 1 \in 1 .. k + 1 /\ j * B \in ((j - 1) * B + 1) - 1 .. k
          /\ n + ((j - 1) * B + 1) - 1 = m /\ j * B - ((j - 1) * B + 1) + 1 = B
      BY <1>1, <1>2, <2>1
    <3> DEFINE a == (j - 1) * B + 1
               b == j * B
    <3> HIDE DEF a, b, m
    <3>2. SubSeq(Piece(n, k), a, b) = Piece(n + a - 1, b - a + 1)
      BY <3>1, PieceOfPiece DEF a, b
    <3> QED  BY <3>1, <3>2 DEF a, b, data
  <2>5. Placed(d, m) /\ Counted(d, m) /\ d \in Context  BY <1>5 DEF Absorbs, Placed
  <2> HIDE DEF m
  <2>6. Piece(m, B) \in Seq(Byte) /\ Len(Piece(m, B)) = B  BY <1>1, <2>1, <2>3, PieceType
  <2>7. f \in Context /\ f.stream = d.stream /\ f.bits0 = d.bits0 /\ f.bits1 = d.bits1
        /\ f.buffer = Copy(d.buffer, 0, Piece(m, B))
    <3>1. d.buffer \in [1 .. B -> Byte]  BY <2>5 DEF Context
    <3>2. Copy(d.buffer, 0, Piece(m, B)) \in [1 .. B -> Byte]
      <4>1. 0 \in Nat  OBVIOUS
      <4> HIDE DEF block, f
      <4> QED  BY <2>6, <3>1, <4>1, CopyEffect
    <3> HIDE DEF block
    <3> QED  BY <2>4, <2>5, <3>2 DEF Context
  <2> HIDE DEF f, block
  <2>8. Placed(SHA512_Transform(f), m + B)
    <3>1. B - (m % B) = B  BY <1>1, <2>2
    <3> QED  BY <2>1, <2>2, <2>3, <2>5, <2>7, <3>1, JoinBlock
  <2> DEFINE t == SHA512_Transform(f)
             u == ADDINC128(t, B * BitsOf)
  <2>9. t \in Context /\ t.bits0 + Word * t.bits1 = m * BitsOf
    BY <2>5, <2>7, TransformEffect DEF Counted
  <2> HIDE DEF t
  <2>10. /\ u \in Context /\ u.buffer = t.buffer /\ u.stream = t.stream
         /\ Counted(u, m + B)
    <3>1. B \in 0 .. B  BY <1>1
    <3> QED  BY <2>1, <2>9, <3>1, CountAdds
  <2> HIDE DEF u
  <2>11. Placed(u, m + B)  BY <2>8, <2>10 DEF Placed, t
  <2>12. Absorbs(u, m + B)  BY <2>10, <2>11 DEF Absorbs
  <2> QED  BY <2>1, <2>12 DEF u, t, f
<1> HIDE DEF next
\* The rounds are defined.
<1>6. \A j \in 0 .. q : after[j] = IF j = 0 THEN c ELSE next(after[j - 1], j)
  <2> DEFINE T == [j \in 0 .. q |-> {d \in Context : Absorbs(d, n + j * B)}]
             step == [j \in 0 + 1 .. q |-> [d \in T[j - 1] |-> next(d, j)]]
  <2>1. c \in T[0]
    <3>1. n + 0 * B = n  BY <1>1
    <3> QED  BY <1>2, <3>1 DEF Absorbs, Placed
  <2>2. ASSUME NEW j \in 0 + 1 .. q  PROVE step[j] \in [T[j - 1] -> T[j]]
    <3>1. ASSUME NEW d \in T[j - 1]  PROVE next(d, j) \in T[j]
      <4>1. Absorbs(d, n + (j - 1) * B)  BY <1>2
      <4>2. Absorbs(next(d, j), n + j * B)  BY <1>5, <4>1
      <4> QED  BY <1>2, <4>2 DEF Absorbs, Placed
    <3> HIDE DEF T
    <3> QED  BY <3>1
  <2> HIDE DEF T, step
  <2>3. PICK g : Iterates(g, 0, q, Context, T, c, step)
    <3> HIDE DEF after
    <3>1. 0 \in Int /\ q \in Int  BY <1>2
    <3>2. 0 <= q => c \in T[0]  BY <2>1
    <3>3. \A j \in 0 .. q : T[j] \subseteq Context  BY DEF T
    <3>4. Steps(0, q, Context, T, c, step)  BY <2>2, <3>1, <3>2, <3>3 DEF Steps
    <3> QED  BY <3>4, StepFunction
  <2>4. \A j \in 0 .. q : g[j] = IF j = 0 THEN c ELSE next(g[j - 1], j)
    <3>1. \A j \in 0 .. q : j # 0 => j \in 0 + 1 .. q /\ g[j - 1] \in T[j - 1]
      BY <1>2, <2>3 DEF Iterates
    <3>2. \A j \in 0 .. q : j # 0 => step[j][g[j - 1]] = next(g[j - 1], j)
      BY <3>1 DEF step
    <3> QED  BY <2>3, <3>2 DEF Iterates
  <2>5. g = [j \in 0 .. q |-> IF j = 0 THEN c ELSE next(g[j - 1], j)]
    BY <2>3, <2>4 DEF Iterates
  <2>6. after = [j \in 0 .. q |-> IF j = 0 THEN c ELSE next(after[j - 1], j)]
    BY <2>5
  <2> HIDE DEF after
  <2> QED  BY <2>6
<1> HIDE DEF after
<1>7. \A j \in 0 .. q : j \in {i \in 0 .. q : Absorbs(after[i], n + i * B)}
  <2> DEFINE S == {i \in 0 .. q : Absorbs(after[i], n + i * B)}
  <2>1. 0 \in S
    <3>1. n + 0 * B = n /\ 0 \in 0 .. q  BY <1>1, <1>2
    <3> QED  BY <1>6, <3>1
  <2>2. ASSUME NEW j \in 0 .. q - 1, j \in S  PROVE j + 1 \in S
    <3>1. j + 1 \in 1 .. q /\ j + 1 \in 0 .. q /\ (j + 1) - 1 = j /\ j + 1 # 0  BY <1>2
    <3>2. Absorbs(next(after[j], j + 1), n + (j + 1) * B)  BY <1>5, <2>2, <3>1
    <3>3. after[j + 1] = next(after[j], j + 1)  BY <1>6, <3>1
    <3> QED  BY <3>1, <3>2, <3>3
  <2> HIDE DEF S
  <2>3. 0 \in Int /\ q \in Int  BY <1>2
  <2> QED  BY <2>1, <2>2, <2>3, IntervalInduction DEF S
<1>8. Absorbs(after[q], n + q * B)
  <2>1. q \in 0 .. q  BY <1>2
  <2> QED  BY <1>7, <2>1
<1> QED  BY <1>4, <1>8 DEF q, data

\* The end of the input, less than a block, behind an empty buffer.
LEMMA LeftOversEffect ==
    ASSUME NEW n \in Nat, NEW k \in Nat, n + k <= MaxFed,
           NEW c, Absorbs(c, n + (k \div B) * B), n % B = 0
    PROVE  Absorbs(LeftOvers(c, Piece(n, k)), n + k)
<1> DEFINE data == Piece(n, k)
           q == k \div B
           r == k % B
           m == n + q * B
           rest == SubSeq(data, k - r + 1, k)
           d == [c EXCEPT !.buffer = Copy(@, 0, rest)]
<1>1. /\ B \in Nat \ {0} /\ BitsOf \in Nat \ {0} /\ MaxFed \in Nat
  BY BlockAssumption
<1>2. q \in Int /\ r \in 0 .. B - 1 /\ k = q * B + r  BY <1>1, DivMod
<1>3. data \in Seq(Byte) /\ Len(data) = k  BY PieceType
<1>4. LeftOvers(c, data) = IF r = 0 THEN c ELSE ADDINC128(d, r * BitsOf)
  BY <1>3 DEF LeftOvers
<1>5. m % B = 0
  <2>1. n \in Int  OBVIOUS
  <2> HIDE DEF q
  <2> QED  BY <1>1, <1>2, <2>1, ModAddMultiple
<1> HIDE DEF q, r, data
<1>6. q * B \in Int /\ m \in Int /\ m + r = n + k  BY <1>1, <1>2
<1>7. m \in Nat /\ r <= k
  <2>1. q < 0 => FALSE
    <3>1. 0 > q => 0 * B >= q * B + B  BY <1>1, <1>2, MultiplesApart
    <3> QED  BY <1>1, <1>2, <1>6, <3>1
  <2>2. q \in Nat  BY <1>2, <2>1
  <2>3. q * B \in Nat  BY <1>1, <2>2
  <2> QED  BY <1>2, <2>3
<1>8. Absorbs(c, m)  BY DEF q
<1>9. rest = Piece(m, r)
  <2>1. /\ k - r + 1 \in 1 .. k + 1 /\ k \in (k - r + 1) - 1 .. k
        /\ n + (k - r + 1) - 1 = m /\ k - (k - r + 1) + 1 = r
    BY <1>2, <1>6, <1>7
  <2> DEFINE a == k - r + 1
  <2> HIDE DEF a, m
  <2>2. SubSeq(Piece(n, k), a, k) = Piece(n + a - 1, k - a + 1)
    BY <2>1, PieceOfPiece DEF a
  <2> QED  BY <2>1, <2>2 DEF a, data
<1> HIDE DEF m, rest
<1>10. CASE r = 0  BY <1>4, <1>6, <1>8, <1>10 DEF data
<1>11. CASE r # 0
  <2>1. Placed(c, m) /\ Counted(c, m) /\ c \in Context  BY <1>8 DEF Absorbs, Placed
  <2>2. m + r <= MaxFed  BY <1>6
  <2>3. Piece(m, r) \in Seq(Byte)
    <3>1. m \in Nat /\ r \in Nat /\ m + r <= MaxFed  BY <1>1, <1>2, <1>7, <2>2
    <3> QED  BY <3>1, PieceType
  <2>4. /\ d \in Context /\ d.stream = c.stream /\ d.bits0 = c.bits0 /\ d.bits1 = c.bits1
        /\ d.buffer = Copy(c.buffer, 0, Piece(m, r))
    <3>1. c.buffer \in [1 .. B -> Byte]  BY <2>1 DEF Context
    <3>2. Copy(c.buffer, 0, Piece(m, r)) \in [1 .. B -> Byte]  BY <2>3, <3>1, CopyEffect
    <3> QED  BY <1>9, <2>1, <3>2 DEF Context
  <2> HIDE DEF d
  <2>5. Placed(d, m + r)
    <3>1. r \in Nat /\ (m % B) + r < B  BY <1>1, <1>2, <1>5 DEF m
    <3>2. d.buffer = Copy(c.buffer, m % B, Piece(m, r))  BY <1>5, <2>4 DEF m
    <3> QED  BY <1>7, <2>1, <2>2, <2>4, <3>1, <3>2, JoinRest
  <2> DEFINE u == ADDINC128(d, r * BitsOf)
  <2>6. /\ u \in Context /\ u.buffer = d.buffer /\ u.stream = d.stream
        /\ Counted(u, m + r)
    <3>1. r \in 0 .. B  BY <1>1, <1>2
    <3>2. d.bits0 + Word * d.bits1 = m * BitsOf  BY <2>1, <2>4 DEF Counted
    <3> QED  BY <1>7, <2>4, <3>1, <3>2, CountAdds
  <2> HIDE DEF u
  <2>7. Absorbs(u, m + r)  BY <2>5, <2>6 DEF Placed, Absorbs
  <2> QED  BY <1>4, <1>6, <1>11, <2>7 DEF u, data
<1> QED  BY <1>10, <1>11

\* The loop and the left-overs together.
LEMMA RestEffect ==
    ASSUME NEW c, NEW n \in Nat, NEW k \in Nat, Absorbs(c, n), n % B = 0,
           n + k <= MaxFed
    PROVE  Absorbs(LeftOvers(WholeBlocks(c, Piece(n, k)), Piece(n, k)), n + k)
<1>1. Absorbs(WholeBlocks(c, Piece(n, k)), n + (k \div B) * B)  BY WholeBlocksEffect
<1> QED  BY <1>1, LeftOversEffect

LEMMA UpdateEffect ==
    ASSUME NEW c, NEW n \in Nat, NEW k \in Nat, Absorbs(c, n), n + k <= MaxFed
    PROVE  Absorbs(SHA512_Update(c, Piece(n, k)), n + k)
<1> DEFINE data == Piece(n, k)
           used == UsedSpace(c)
           free == B - used
           full(fill) == [c EXCEPT !.buffer = Copy(@, used, SubSeq(data, 1, fill))]
           rest == SubSeq(data, free + 1, k)
           next == SHA512_Transform(ADDINC128(full(free), free * BitsOf))
<1>1. /\ B \in Nat \ {0} /\ BitsOf \in Nat \ {0} /\ MaxFed \in Nat /\ n \in 0 .. MaxFed
  BY BlockAssumption
<1>2. used = n % B /\ used \in 0 .. B - 1 /\ free \in 1 .. B
  <2>1. used = n % B  BY <1>1, UsedIsRest
  <2>2. n % B \in 0 .. B - 1
    <3>1. n \in Int  OBVIOUS
    <3> QED  BY <1>1, <3>1, ModRange
  <2> HIDE DEF used
  <2> QED  BY <1>1, <2>1, <2>2
<1>3. data \in Seq(Byte) /\ Len(data) = k  BY PieceType
<1>4. SHA512_Update(c, data) =
          IF used = 0 THEN LeftOvers(WholeBlocks(c, data), data)
          ELSE IF k >= free THEN LeftOvers(WholeBlocks(next, rest), rest)
          ELSE ADDINC128(full(k), k * BitsOf)
  BY <1>3 DEF SHA512_Update, Fills
<1> HIDE DEF data, used
<1>5. Placed(c, n) /\ Counted(c, n) /\ c \in Context  BY DEF Absorbs, Placed
<1>6. ASSUME NEW fill \in 0 .. k, fill <= free
      PROVE  /\ full(fill) \in Context /\ full(fill).stream = c.stream
             /\ full(fill).buffer = Copy(c.buffer, n % B, Piece(n, fill))
             /\ full(fill).bits0 = c.bits0 /\ full(fill).bits1 = c.bits1
  <2>1. SubSeq(data, 1, fill) = Piece(n, fill)
    <3>1. /\ 1 \in 1 .. k + 1 /\ fill \in 1 - 1 .. k
          /\ n + 1 - 1 = n /\ fill - 1 + 1 = fill
      OBVIOUS
    <3>2. SubSeq(Piece(n, k), 1, fill) = Piece(n + 1 - 1, fill - 1 + 1)
      BY <3>1, PieceOfPiece
    <3> QED  BY <3>1, <3>2 DEF data
  <2>2. Piece(n, fill) \in Seq(Byte)
    <3>1. fill \in Nat /\ n + fill <= MaxFed  BY <1>1
    <3> QED  BY <3>1, PieceType
  <2>3. c.buffer \in [1 .. B -> Byte] /\ n % B \in Nat  BY <1>1, <1>2, <1>5 DEF Context
  <2>4. Copy(c.buffer, n % B, Piece(n, fill)) \in [1 .. B -> Byte]  BY <2>2, <2>3, CopyEffect
  <2> QED  BY <1>2, <1>5, <2>1, <2>4 DEF Context
<1> HIDE DEF full
<1>7. CASE used = 0
  <2>1. Absorbs(LeftOvers(WholeBlocks(c, data), data), n + k)
    BY <1>2, <1>7, RestEffect DEF data
  <2> QED  BY <1>4, <1>7, <2>1 DEF data
<1>8. CASE used # 0 /\ k >= free
  <2> DEFINE f == full(free)
             d == ADDINC128(f, free * BitsOf)
             m == n + free
  <2>1. free \in 0 .. k /\ free <= free  BY <1>2, <1>8
  <2>2. /\ f \in Context /\ f.stream = c.stream
        /\ f.buffer = Copy(c.buffer, n % B, Piece(n, free))
        /\ f.bits0 + Word * f.bits1 = n * BitsOf
    BY <1>5, <1>6, <2>1 DEF Counted
  <2> HIDE DEF f
  <2>3. /\ d \in Context /\ d.buffer = f.buffer /\ d.stream = f.stream /\ Counted(d, m)
    <3>1. free \in 0 .. B  BY <1>2, <1>1
    <3> QED  BY <2>2, <3>1, CountAdds
  <2> HIDE DEF d
  <2>4. m \in Nat /\ m <= MaxFed /\ k - free \in Nat /\ m + (k - free) = n + k
    BY <1>1, <1>2, <2>1
  <2>5. Placed(SHA512_Transform(d), m)
    <3>1. B - (n % B) = free  BY <1>2
    <3>2. /\ d.stream = c.stream /\ d.buffer = Copy(c.buffer, n % B, Piece(n, B - (n % B)))
          /\ n + (B - (n % B)) <= MaxFed
      BY <2>2, <2>3, <2>4, <3>1
    <3>3. Placed(SHA512_Transform(d), n + (B - (n % B)))
      BY <1>5, <2>3, <3>2, JoinBlock
    <3> QED  BY <3>1, <3>3
  <2>6. Counted(SHA512_Transform(d), m)  BY <2>3, TransformEffect DEF Counted
  <2>7. Absorbs(next, m)  BY <2>5, <2>6 DEF Absorbs, d, f
  <2>8. m % B = 0
    <3>1. n % B = used /\ n = (n \div B) * B + (n % B) /\ n \div B \in Int
      BY <1>1, <1>2, DivMod
    <3> DEFINE q == n \div B
    <3> HIDE DEF q
    <3>2. m = (q + 1) * B + 0
      <4>1. (q + 1) * B = q * B + B /\ q * B \in Int  BY <1>1, <3>1 DEF q
      <4> QED  BY <1>1, <1>2, <3>1, <4>1 DEF q
    <3>3. q + 1 \in Int /\ 0 \in 0 .. B - 1 /\ m \in Int  BY <1>1, <1>2, <3>1 DEF q
    <3> HIDE DEF m
    <3> QED  BY <1>1, <3>2, <3>3, ModUnique
  <2>9. rest = Piece(m, k - free)
    <3>1. /\ free + 1 \in 1 .. k + 1 /\ k \in (free + 1) - 1 .. k
          /\ n + (free + 1) - 1 = m /\ k - (free + 1) + 1 = k - free
      BY <1>2, <2>1
    <3> DEFINE a == free + 1
    <3> HIDE DEF a, m
    <3>2. SubSeq(Piece(n, k), a, k) = Piece(n + a - 1, k - a + 1)
      BY <3>1, PieceOfPiece DEF a
    <3> QED  BY <3>1, <3>2 DEF a, data
  <2> HIDE DEF next, m, rest
  <2>10. Absorbs(LeftOvers(WholeBlocks(next, rest), rest), n + k)
    <3> DEFINE j == k - free
    <3>1. j \in Nat /\ m + j <= MaxFed /\ m \in Nat /\ m + j = n + k  BY <1>1, <2>4 DEF m
    <3> HIDE DEF j
    <3>2. Absorbs(LeftOvers(WholeBlocks(next, Piece(m, j)), Piece(m, j)), m + j)
      BY <2>7, <2>8, <3>1, RestEffect DEF m
    <3> QED  BY <2>9, <3>1, <3>2 DEF j
  <2> QED  BY <1>4, <1>8, <2>10 DEF data
<1>9. CASE used # 0 /\ ~ (k >= free)
  <2> DEFINE f == full(k)
             u == ADDINC128(f, k * BitsOf)
  <2>1. k \in 0 .. k /\ k <= free /\ k \in 0 .. B /\ (n % B) + k < B
    <3>1. k \in 0 .. k /\ k <= free /\ k \in 0 .. B /\ used + k < B  BY <1>1, <1>2, <1>9
    <3> QED  BY <1>2, <3>1
  <2>2. /\ f \in Context /\ f.stream = c.stream
        /\ f.buffer = Copy(c.buffer, n % B, Piece(n, k))
        /\ f.bits0 + Word * f.bits1 = n * BitsOf
    BY <1>5, <1>6, <2>1 DEF Counted
  <2> HIDE DEF f
  <2>3. Placed(f, n + k)  BY <1>5, <2>1, <2>2, JoinRest
  <2>4. /\ u \in Context /\ u.buffer = f.buffer /\ u.stream = f.stream /\ Counted(u, n + k)
    BY <2>1, <2>2, CountAdds
  <2> HIDE DEF u
  <2>5. Absorbs(u, n + k)  BY <2>3, <2>4 DEF Placed, Absorbs
  <2> QED  BY <1>4, <1>9, <2>5 DEF u, f, data
<1> QED  BY <1>7, <1>8, <1>9

-----------------------------------------------------------------------------
(* SHA-512: what Final returns *)

Field(h, l) == [j \in 1 .. B - Short |-> <<"BE", h, l, j>>]
AnyByte(h, l) == Byte \cup {<<"BE", h, l, j>> : j \in 1 .. B - Short}

\* Padded message and digest, byte by byte: z zeros.
PaddedAt(n, z, h, l, i) ==
    IF i <= n THEN Data[i]
    ELSE IF i = n + 1 THEN PadByte(128)
    ELSE IF i <= n + 1 + z THEN PadByte(0)
    ELSE Field(h, l)[i - (n + 1 + z)]

LEMMA FieldType ==
    ASSUME NEW h, NEW l
    PROVE  /\ Field(h, l) \in Seq(AnyByte(h, l)) /\ Len(Field(h, l)) = B - Short
           /\ B - Short \in 2 .. B
<1>1. B - Short \in 2 .. B  BY BlockAssumption
<1>2. Field(h, l) \in [1 .. B - Short -> AnyByte(h, l)]  BY DEF Field, AnyByte
<1>3. Field(h, l) \in Seq(AnyByte(h, l))  BY <1>1, <1>2
<1>4. Len(Field(h, l)) = B - Short
  <2> DEFINE f == Field(h, l)
             n == B - Short
  <2>1. f \in [1 .. n -> AnyByte(h, l)] /\ n \in Nat /\ f \in Seq(AnyByte(h, l))
    BY <1>1, <1>2, <1>3
  <2> HIDE DEF f, n
  <2>2. Len(f) = n  BY <2>1
  <2> QED  BY <2>2 DEF f, n
<1> QED  BY <1>1, <1>3, <1>4

LEMMA MessageType ==
    ASSUME NEW n \in 0 .. MaxFed
    PROVE  /\ Message(n) \in Seq(Byte) /\ Len(Message(n)) = n
           /\ \A i \in 1 .. n : Message(n)[i] = Data[i]
<1>1. 0 \in Nat /\ n \in Nat /\ 0 + n <= MaxFed  BY BlockAssumption
<1>2. Message(n) = Piece(0, n)
  <2>1. \A i \in 1 .. n : 0 + i = i  BY <1>1
  <2> QED  BY <2>1 DEF Message, Piece
<1>3. /\ Piece(0, n) \in Seq(Byte) /\ Len(Piece(0, n)) = n
      /\ \A i \in 1 .. n : Piece(0, n)[i] = Data[0 + i]
  BY <1>1, PieceType
<1>4. \A i \in 1 .. n : 0 + i = i  BY <1>1
<1> QED  BY <1>2, <1>3, <1>4

\* The zeros the code writes are the fewest there can be.
Zeros(used) == IF used + 1 <= Short THEN Short - used - 1 ELSE B + Short - used - 1

LEMMA FewestZeros ==
    ASSUME NEW n \in Nat, NEW used \in 0 .. B - 1, n % B = used
    PROVE  /\ (CHOOSE z \in 0 .. B - 1 : (n + 1 + z + (B - Short)) % B = 0) = Zeros(used)
           /\ Zeros(used) \in 0 .. B - 1
<1> DEFINE w == Zeros(used)
           x == n + 1 + (B - Short)
<1>1. /\ B \in Nat \ {0} /\ Short \in 1 .. B - 2 /\ n \in Int
  BY BlockAssumption
<1>2. w \in 0 .. B - 1  BY <1>1 DEF Zeros
<1>3. PICK k \in Int : x + w = n - used + k * B
  <2>1. CASE used + 1 <= Short
    <3>1. x + w = n - used + 1 * B  BY <1>1, <2>1 DEF Zeros
    <3> QED  BY <3>1
  <2>2. CASE ~ (used + 1 <= Short)
    <3>1. x + w = n - used + 2 * B  BY <1>1, <2>2 DEF Zeros
    <3> QED  BY <3>1
  <2> QED  BY <2>1, <2>2
<1>4. (x + w) % B = 0
  <2> DEFINE q == n \div B
  <2>1. n = q * B + used /\ q \in Int  BY <1>1, DivMod
  <2> HIDE DEF q, x, w
  <2>2. n - used + k * B = (q + k) * B + 0
    <3>1. (q + k) * B = q * B + k * B  BY <1>1, <2>1
    <3>2. q * B \in Int /\ k * B \in Int  BY <1>1, <2>1
    <3> QED  BY <2>1, <3>1, <3>2
  <2>3. q + k \in Int /\ 0 \in 0 .. B - 1 /\ (q + k) * B + 0 \in Int  BY <1>1, <2>1
  <2>4. ((q + k) * B + 0) % B = 0  BY <1>1, <2>3, ModUnique
  <2> QED  BY <1>3, <2>2, <2>4
<1>5. ASSUME NEW z \in 0 .. B - 1, (n + 1 + z + (B - Short)) % B = 0  PROVE z = w
  <2>1. x \in Int /\ n + 1 + z + (B - Short) = x + z  BY <1>1
  <2> HIDE DEF x, w
  <2>2. (x + z) % B = (x + w) % B  BY <1>4, <1>5, <2>1
  <2> QED  BY <1>1, <1>2, <2>1, <2>2, ModCancel
<1>6. (n + 1 + w + (B - Short)) % B = 0
  <2>1. n + 1 + w + (B - Short) = x + w  BY <1>1, <1>2
  <2> HIDE DEF x, w
  <2> QED  BY <1>4, <2>1
<1> HIDE DEF w
<1> QED  BY <1>2, <1>5, <1>6 DEF w

LEMMA PaddedBytes ==
    ASSUME NEW n \in 0 .. MaxFed, NEW used \in 0 .. B - 1, n % B = used,
           NEW h \in Nat, NEW l \in 0 .. Word - 1, l + Word * h = n * BitsOf
    PROVE  LET z == Zeros(used)
               g == h % Word
           IN  /\ Padded(Message(n)) \in Seq(AnyByte(g, l))
               /\ Len(Padded(Message(n))) = n + 1 + z + (B - Short)
               /\ \A i \in 1 .. n + 1 + z + (B - Short) :
                      Padded(Message(n))[i] = PaddedAt(n, z, g, l, i)
<1> DEFINE z == Zeros(used)
           g == h % Word
           S == AnyByte(g, l)
           msg == Message(n)
           one == <<PadByte(128)>>
           zs == [i \in 1 .. z |-> PadByte(0)]
           f == Field(g, l)
           bits == n * BitsOf
<1>1. /\ B \in Nat \ {0} /\ Word \in Nat \ {0} /\ n \in Nat /\ MaxFed \in Nat
      /\ BitsOf \in Nat
  BY BlockAssumption
<1>2. bits \div Word = h /\ bits % Word = l
  <2>1. bits = h * Word + l /\ bits \in Int /\ h \in Int  BY <1>1
  <2> HIDE DEF bits
  <2> QED  BY <1>1, <2>1, ModUnique
<1>3. z \in 0 .. B - 1
      /\ z = CHOOSE x \in 0 .. B - 1 : (n + 1 + x + (B - Short)) % B = 0
  BY <1>1, FewestZeros
<1>4. msg \in Seq(Byte) /\ Len(msg) = n /\ \A i \in 1 .. n : msg[i] = Data[i]
  BY MessageType
<1>5. Padded(msg) = msg \o one \o zs \o f
  <2>1. f = [j \in 1 .. B - Short |-> <<"BE", (bits \div Word) % Word, bits % Word, j>>]
    BY <1>2 DEF Field
  <2> HIDE DEF msg, z, f, bits
  <2> QED  BY <1>3, <1>4, <2>1 DEF Padded, bits
<1>6. /\ msg \in Seq(S) /\ one \in Seq(S) /\ zs \in Seq(S) /\ f \in Seq(S)
      /\ Len(one) = 1 /\ Len(zs) = z /\ Len(f) = B - Short /\ one[1] = PadByte(128)
  <2>1. PadByte(128) \in S /\ PadByte(0) \in S /\ Byte \subseteq S  BY DEF AnyByte, Byte
  <2>2. f \in Seq(S) /\ Len(f) = B - Short  BY FieldType
  <2> HIDE DEF S, f, z, msg
  <2>3. zs \in Seq(S) /\ Len(zs) = z
    <3>1. z \in Nat  BY <1>1, <1>3
    <3>2. zs \in [1 .. z -> S]  BY <2>1
    <3> HIDE DEF zs
    <3>3. zs \in Seq(S)  BY <3>1, <3>2
    <3> QED  BY <3>1, <3>2, <3>3
  <2>4. one \in Seq(S) /\ Len(one) = 1 /\ one[1] = PadByte(128)  BY <2>1
  <2>5. msg \in Seq(S)
    <3>1. msg \in [1 .. n -> S]
      <4>1. \A i \in 1 .. n : msg[i] \in Byte  BY <1>4
      <4> QED  BY <1>4, <2>1, <4>1
    <3> QED  BY <1>1, <3>1
  <2> QED  BY <2>2, <2>3, <2>4, <2>5
<1>7. \A i \in 1 .. z : zs[i] = PadByte(0)  OBVIOUS
<1> DEFINE a == msg \o one
           b == a \o zs
           p == b \o f
<1> HIDE DEF S, msg, one, zs, f, z, bits
<1>8. /\ a \in Seq(S) /\ Len(a) = n + 1
      /\ \A i \in 1 .. n + 1 : a[i] = IF i <= n THEN msg[i] ELSE one[i - n]
  <2>1. /\ a \in Seq(S) /\ Len(a) = Len(msg) + Len(one)
        /\ \A i \in 1 .. Len(msg) + Len(one) : a[i] =
               IF i <= Len(msg) THEN msg[i] ELSE one[i - Len(msg)]
    BY <1>4, <1>6, ConcatProperties
  <2> HIDE DEF a
  <2> QED  BY <1>4, <1>6, <2>1
<1> HIDE DEF a
<1>9. /\ b \in Seq(S) /\ Len(b) = n + 1 + z
      /\ \A i \in 1 .. n + 1 + z : b[i] = IF i <= n + 1 THEN a[i] ELSE zs[i - (n + 1)]
  <2>1. /\ b \in Seq(S) /\ Len(b) = Len(a) + Len(zs)
        /\ \A i \in 1 .. Len(a) + Len(zs) : b[i] =
               IF i <= Len(a) THEN a[i] ELSE zs[i - Len(a)]
    BY <1>6, <1>8, ConcatProperties
  <2> HIDE DEF b
  <2> QED  BY <1>6, <1>8, <2>1
<1> HIDE DEF b
<1>10. /\ p \in Seq(S) /\ Len(p) = n + 1 + z + (B - Short)
       /\ \A i \in 1 .. n + 1 + z + (B - Short) :
             p[i] = IF i <= n + 1 + z THEN b[i] ELSE f[i - (n + 1 + z)]
  <2>1. /\ p \in Seq(S) /\ Len(p) = Len(b) + Len(f)
        /\ \A i \in 1 .. Len(b) + Len(f) : p[i] =
               IF i <= Len(b) THEN b[i] ELSE f[i - Len(b)]
    <3>1. b \in Seq(S) /\ f \in Seq(S)  BY <1>6, <1>9
    <3> QED  BY <3>1, ConcatProperties
  <2> HIDE DEF p
  <2> QED  BY <1>6, <1>9, <2>1
<1> HIDE DEF p
<1>11. ASSUME NEW i \in 1 .. n + 1 + z + (B - Short)  PROVE p[i] = PaddedAt(n, z, g, l, i)
  <2>1. CASE i <= n
    <3>1. i \in 1 .. n /\ i \in 1 .. n + 1 /\ i \in 1 .. n + 1 + z
          /\ i <= n + 1 /\ i <= n + 1 + z
      BY <1>1, <1>3, <2>1
    <3> QED  BY <1>4, <1>8, <1>9, <1>10, <2>1, <3>1 DEF PaddedAt
  <2>2. CASE i = n + 1
    <3>1. i \in 1 .. n + 1 /\ i \in 1 .. n + 1 + z
          /\ ~ (i <= n) /\ i <= n + 1 /\ i <= n + 1 + z /\ i - n = 1
      BY <1>1, <1>3, <2>2
    <3> QED  BY <1>6, <1>8, <1>9, <1>10, <2>2, <3>1 DEF PaddedAt
  <2>3. CASE n + 1 < i /\ i <= n + 1 + z
    <3>1. i \in 1 .. n + 1 + z /\ ~ (i <= n) /\ ~ (i <= n + 1) /\ i # n + 1
          /\ i - (n + 1) \in 1 .. z
      BY <1>1, <1>3, <2>3
    <3> QED  BY <1>7, <1>9, <1>10, <2>3, <3>1 DEF PaddedAt
  <2>4. CASE n + 1 + z < i
    <3>1. ~ (i <= n) /\ i # n + 1 /\ ~ (i <= n + 1 + z)  BY <1>1, <1>3, <2>4
    <3> QED  BY <1>10, <3>1 DEF PaddedAt, f
  <2> QED  BY <1>1, <1>3, <2>1, <2>2, <2>3, <2>4
<1>12. Padded(msg) = p  BY <1>5 DEF p, b, a
<1> QED  BY <1>10, <1>11, <1>12 DEF S, msg, z

LEMMA ZeroEffect ==
    ASSUME NEW buffer \in [1 .. B -> Byte], NEW from \in Nat, NEW to \in Nat
    PROVE  /\ Zero(buffer, from, to) \in [1 .. B -> Byte]
           /\ \A i \in 1 .. B : Zero(buffer, from, to)[i] =
                 IF from < i /\ i <= to THEN PadByte(0) ELSE buffer[i]
<1>1. PadByte(0) \in Byte  BY DEF Byte
<1> QED  BY <1>1 DEF Zero

\* The last block: what is in the buffer before Short, and the length behind it.
LEMMA LastBlock ==
    ASSUME NEW d \in Context
    PROVE  LET seen == Len(d.stream)
               h == d.bits1 % Word
               l == d.bits0
               u == SHA512_Transform([d EXCEPT !.buffer = Copy(@, Short, LengthField(d))])
           IN  /\ u.stream \in Seq(AnyByte(h, l)) /\ Len(u.stream) = seen + B
               /\ \A i \in 1 .. seen : u.stream[i] = d.stream[i]
               /\ \A i \in 1 .. Short : u.stream[seen + i] = d.buffer[i]
               /\ \A i \in Short + 1 .. B : u.stream[seen + i] = Field(h, l)[i - Short]
<1> DEFINE seen == Len(d.stream)
           h == d.bits1 % Word
           l == d.bits0
           S == AnyByte(h, l)
           f == Field(h, l)
           b == Copy(d.buffer, Short, f)
           s == d.stream
           e == [d EXCEPT !.buffer = Copy(@, Short, LengthField(d))]
           u == SHA512_Transform(e)
<1>1. B \in Nat \ {0} /\ Short \in 1 .. B - 2  BY BlockAssumption
<1>2. s \in Seq(Byte) /\ d.buffer \in [1 .. B -> Byte]  BY DEF Context
<1>3. LengthField(d) = f  BY DEF LengthField, Field
<1>4. f \in Seq(S) /\ Len(f) = B - Short  BY FieldType
<1>5. e.stream = s /\ e.buffer = b  BY <1>3 DEF Context
<1>6. u.stream = s \o b
  <2> HIDE DEF e, b, s
  <2> QED  BY <1>5 DEF SHA512_Transform
<1> HIDE DEF u, e
<1>7. Byte \subseteq S  BY DEF AnyByte
<1> HIDE DEF S, f, h, l
<1>8. ASSUME NEW i \in 1 .. B
      PROVE  /\ b[i] \in S
             /\ i <= Short => b[i] = d.buffer[i]
             /\ i \in Short + 1 .. B => b[i] = f[i - Short]
  <2>1. b[i] = IF Short < i /\ i <= Short + Len(f) THEN f[i - Short] ELSE d.buffer[i]
    BY DEF Copy
  <2>2. CASE i <= Short
    <3>1. ~ (Short < i) /\ ~ (i \in Short + 1 .. B)  BY <1>1, <2>2
    <3> QED  BY <1>2, <1>7, <2>1, <3>1
  <2>3. CASE Short < i
    <3>1. i <= Short + Len(f) /\ i - Short \in 1 .. Len(f) /\ ~ (i <= Short)
      BY <1>1, <1>4, <2>3
    <3>2. b[i] = f[i - Short]  BY <2>1, <2>3, <3>1
    <3>3. f[i - Short] \in S  BY <1>4, <3>1
    <3> QED  BY <3>1, <3>2, <3>3
  <2> QED  BY <1>1, <2>2, <2>3
<1>9. b \in Seq(S) /\ Len(b) = B
  <2>1. b = [i \in 1 .. B |-> b[i]]  BY DEF Copy
  <2> HIDE DEF b
  <2>2. b \in [1 .. B -> S]  BY <1>8, <2>1
  <2>3. B \in Nat  BY <1>1
  <2> QED  BY <2>2, <2>3
<1>10. s \in Seq(S) /\ seen \in Nat
  <2>1. s \in [1 .. Len(s) -> S] /\ Len(s) \in Nat
    <3> HIDE DEF s
    <3> QED  BY <1>2, <1>7
  <2> HIDE DEF s
  <2> QED  BY <2>1 DEF s
<1> HIDE DEF b
<1>11. /\ u.stream \in Seq(S) /\ Len(u.stream) = Len(s) + Len(b)
       /\ \A i \in 1 .. Len(s) + Len(b) :
             u.stream[i] = IF i <= Len(s) THEN s[i] ELSE b[i - Len(s)]
  <2> HIDE DEF s
  <2> QED  BY <1>6, <1>9, <1>10, ConcatProperties, ZenonT(60)
<1> HIDE DEF s
<1>12. /\ Len(u.stream) = seen + B
       /\ \A i \in 1 .. seen + B :
             u.stream[i] = IF i <= seen THEN s[i] ELSE b[i - seen]
  BY <1>9, <1>11 DEF s
<1> HIDE DEF seen
<1>13. \A i \in 1 .. seen : i \in 1 .. seen + B  BY <1>1, <1>10
<1>14. \A i \in 1 .. B : seen + i \in 1 .. seen + B /\ ~ (seen + i <= seen)
                         /\ (seen + i) - seen = i
  BY <1>1, <1>10
<1>15. \A i \in 1 .. Short : i \in 1 .. B /\ i <= Short  BY <1>1
<1>16. \A i \in Short + 1 .. B : i \in 1 .. B  BY <1>1
<1>17. \A i \in 1 .. seen : u.stream[i] = s[i]  BY <1>12, <1>13
<1>18. \A i \in 1 .. B : u.stream[seen + i] = b[i]  BY <1>12, <1>14
<1>19. \A i \in 1 .. Short : u.stream[seen + i] = d.buffer[i]  BY <1>8, <1>15, <1>18
<1>20. \A i \in Short + 1 .. B : u.stream[seen + i] = f[i - Short]  BY <1>8, <1>16, <1>18
<1> QED  BY <1>11, <1>12, <1>17, <1>19, <1>20 DEF S, f, h, l, seen, s, u, e

\* The digest, byte by byte.
LEMMA FinalBytes ==
    ASSUME NEW c, NEW n \in 0 .. MaxFed, Absorbs(c, n)
    PROVE  LET used == n % B
               z == Zeros(used)
               g == c.bits1 % Word
               l == c.bits0
           IN  /\ SHA512_Final(c) \in Seq(AnyByte(g, l))
               /\ Len(SHA512_Final(c)) = n + 1 + z + (B - Short)
               /\ \A i \in 1 .. n + 1 + z + (B - Short) :
                      SHA512_Final(c)[i] = PaddedAt(n, z, g, l, i)
<1> DEFINE used == UsedSpace(c)
           z == Zeros(used)
           g == c.bits1 % Word
           l == c.bits0
           f == Field(g, l)
           seen == Len(c.stream)
           b1 == Copy(c.buffer, used, <<PadByte(128)>>)
           one == [c EXCEPT !.buffer = Copy(@, used, <<PadByte(128)>>)]
           open(to) == [one EXCEPT !.buffer = Zero(@, used + 1, to)]
           shut == SHA512_Transform(open(B))
           next == [shut EXCEPT !.buffer = ClearForLast(@)]
           last == IF used + 1 <= Short THEN open(Short) ELSE next
           u == SHA512_Transform([last EXCEPT !.buffer = Copy(@, Short, LengthField(c))])
           D == u.stream
<1>1. B \in Nat \ {0} /\ Short \in 1 .. B - 2 /\ MaxFed \in Nat /\ n \in Nat
  BY BlockAssumption
<1>0. used = n % B  BY <1>1, UsedIsRest
<1>2. used \in 0 .. B - 1
  <2>1. n \in Int  BY <1>1
  <2>2. n % B \in 0 .. B - 1  BY <1>1, <2>1, ModRange
  <2> QED  BY <1>0, <2>2
<1>3. SHA512_Final(c) = D
  <2>1. SHA512_Final(c) = SHA512_Last(c).stream  BY DEF SHA512_Final
  <2>2. SHA512_Last(c) = u  BY Zenon DEF SHA512_Last, FitsHere
  <2> HIDE DEF u
  <2> QED  BY <2>1, <2>2
<1>4. /\ c \in Context /\ seen \in Nat /\ seen + used = n
      /\ c.stream \in Seq(Byte) /\ c.buffer \in [1 .. B -> Byte]
      /\ \A i \in 1 .. seen : c.stream[i] = Data[i]
      /\ \A i \in 1 .. used : c.buffer[i] = Data[seen + i]
  BY <1>0 DEF Absorbs, Placed, Context
<1> HIDE DEF used
\* The byte 0x80, and the zeros up to `to'.
<1>5. b1 \in [1 .. B -> Byte]
      /\ \A i \in 1 .. B : b1[i] = IF i = used + 1 THEN PadByte(128) ELSE c.buffer[i]
  <2> DEFINE o == <<PadByte(128)>>
  <2>1. o \in Seq(Byte) /\ Len(o) = 1 /\ o[1] = PadByte(128)  BY DEF Byte
  <2> HIDE DEF o
  <2>2. used \in Nat  BY <1>1, <1>2
  <2>3. /\ Copy(c.buffer, used, o) \in [1 .. B -> Byte]
        /\ \A i \in 1 .. B : Copy(c.buffer, used, o)[i] =
              IF used < i /\ i <= used + Len(o) THEN o[i - used] ELSE c.buffer[i]
    BY <1>4, <2>1, <2>2, CopyEffect
  <2>4. ASSUME NEW i \in 1 .. B
        PROVE  b1[i] = IF i = used + 1 THEN PadByte(128) ELSE c.buffer[i]
    <3>1. b1[i] = IF used < i /\ i <= used + Len(o) THEN o[i - used] ELSE c.buffer[i]
      BY <2>3 DEF o
    <3> HIDE DEF b1
    <3>2. CASE i = used + 1
      <4>1. used < i /\ i <= used + Len(o) /\ i - used = 1  BY <2>1, <2>2, <3>2
      <4> QED  BY <2>1, <3>1, <3>2, <4>1
    <3>3. CASE i # used + 1
      <4>1. ~ (used < i /\ i <= used + Len(o))  BY <2>1, <2>2, <3>3
      <4> QED  BY <3>1, <3>3, <4>1
    <3> QED  BY <3>2, <3>3
  <2> QED  BY <2>3, <2>4 DEF o
<1>6. one \in Context /\ one.stream = c.stream /\ one.bits0 = c.bits0
      /\ one.bits1 = c.bits1 /\ one.buffer = b1
  <2> HIDE DEF b1
  <2>1. one = [c EXCEPT !.buffer = b1]  BY DEF b1
  <2> HIDE DEF one
  <2> QED  BY <1>4, <1>5, <2>1 DEF Context
<1> HIDE DEF one, b1
<1>7. ASSUME NEW to \in Nat
      PROVE  /\ open(to) \in Context /\ open(to).stream = c.stream
             /\ open(to).bits0 = c.bits0 /\ open(to).bits1 = c.bits1
             /\ \A i \in 1 .. B : open(to).buffer[i] =
                   IF used + 1 < i /\ i <= to THEN PadByte(0)
                   ELSE IF i = used + 1 THEN PadByte(128) ELSE c.buffer[i]
  <2> DEFINE b2 == Zero(b1, used + 1, to)
  <2>1. /\ b2 \in [1 .. B -> Byte]
        /\ \A i \in 1 .. B : b2[i] = IF used + 1 < i /\ i <= to THEN PadByte(0) ELSE b1[i]
    <3>1. used + 1 \in Nat  BY <1>1, <1>2
    <3> QED  BY <1>5, <3>1, ZeroEffect
  <2> HIDE DEF b2
  <2>2. open(to) = [one EXCEPT !.buffer = b2]  BY <1>6 DEF b2
  <2> HIDE DEF open
  <2>3. /\ open(to) \in Context /\ open(to).stream = c.stream
        /\ open(to).bits0 = c.bits0 /\ open(to).bits1 = c.bits1
        /\ open(to).buffer = b2
    BY <1>6, <2>1, <2>2 DEF Context
  <2> QED  BY <1>5, <2>1, <2>3
<1> HIDE DEF open
<1>8. CASE used + 1 <= Short
  <2>1. last = open(Short)  BY <1>8
  <2>2. z = Short - used - 1 /\ z \in Nat  BY <1>1, <1>2, <1>8 DEF Zeros
  <2>3. Short \in Nat  BY <1>1
  <2> HIDE DEF last
  <2>4. /\ last \in Context /\ last.stream = c.stream
        /\ last.bits0 = c.bits0 /\ last.bits1 = c.bits1
        /\ \A i \in 1 .. B : last.buffer[i] =
              IF used + 1 < i /\ i <= Short THEN PadByte(0)
              ELSE IF i = used + 1 THEN PadByte(128) ELSE c.buffer[i]
    BY <1>7, <2>1, <2>3
  <2>9. last.bits1 % Word = g /\ last.bits0 = l  BY <2>4
  <2>10. u = SHA512_Transform([last EXCEPT !.buffer = Copy(@, Short, LengthField(last))])
    <3>1. LengthField(last) = LengthField(c)  BY <2>4 DEF LengthField
    <3> QED  BY <3>1
  <2> HIDE DEF g, l, u
  <2>5. /\ D \in Seq(AnyByte(g, l)) /\ Len(D) = seen + B
        /\ \A i \in 1 .. seen : D[i] = c.stream[i]
        /\ \A i \in 1 .. Short : D[seen + i] = last.buffer[i]
        /\ \A i \in Short + 1 .. B : D[seen + i] = f[i - Short]
    BY <2>4, <2>9, <2>10, LastBlock, ZenonT(60)
  <2> HIDE DEF D, f, g, l, z, seen
  <2>6. seen + B = n + 1 + z + (B - Short)  BY <1>1, <1>2, <1>4, <2>2
  <2>7. ASSUME NEW i \in 1 .. seen + B  PROVE D[i] = PaddedAt(n, z, g, l, i)
    <3>1. CASE i <= seen
      <4>1. i \in 1 .. seen /\ i <= n  BY <1>1, <1>2, <1>4, <3>1
      <4> QED  BY <1>4, <2>5, <4>1 DEF PaddedAt
    <3> DEFINE j == i - seen
    <3>2. CASE seen < i /\ i <= n
      <4>1. j \in 1 .. used /\ j \in 1 .. Short /\ j \in 1 .. B /\ ~ (used + 1 < j)
            /\ j # used + 1 /\ seen + j = i
        BY <1>1, <1>2, <1>4, <1>8, <3>2
      <4> HIDE DEF j
      <4>2. D[seen + j] = last.buffer[j] /\ last.buffer[j] = c.buffer[j]
            /\ c.buffer[j] = Data[seen + j]
        BY <1>4, <2>4, <2>5, <4>1
      <4> QED  BY <3>2, <4>1, <4>2 DEF PaddedAt
    <3>3. CASE i = n + 1
      <4>1. j = used + 1 /\ j \in 1 .. Short /\ j \in 1 .. B /\ ~ (used + 1 < j)
            /\ seen + j = i /\ ~ (i <= n)
        BY <1>1, <1>2, <1>4, <1>8, <3>3
      <4> HIDE DEF j
      <4>2. D[seen + j] = last.buffer[j] /\ last.buffer[j] = PadByte(128)
        BY <2>4, <2>5, <4>1
      <4> QED  BY <3>3, <4>1, <4>2 DEF PaddedAt
    <3>4. CASE n + 1 < i /\ i <= n + 1 + z
      <4>1. j \in 1 .. Short /\ j \in 1 .. B /\ used + 1 < j /\ j <= Short
            /\ seen + j = i /\ ~ (i <= n) /\ i # n + 1
        BY <1>1, <1>2, <1>4, <1>8, <2>2, <3>4
      <4> HIDE DEF j
      <4>2. D[seen + j] = last.buffer[j] /\ last.buffer[j] = PadByte(0)
        BY <2>4, <2>5, <4>1
      <4> QED  BY <3>4, <4>1, <4>2 DEF PaddedAt
    <3>5. CASE n + 1 + z < i
      <4>1. j \in Short + 1 .. B /\ seen + j = i /\ j - Short = i - (n + 1 + z)
            /\ ~ (i <= n) /\ i # n + 1 /\ ~ (i <= n + 1 + z)
        BY <1>1, <1>2, <1>4, <1>8, <2>2, <3>5
      <4> HIDE DEF j
      <4>2. D[seen + j] = f[j - Short]  BY <2>5, <4>1
      <4> QED  BY <4>1, <4>2 DEF PaddedAt, f
    <3> QED  BY <1>1, <1>4, <2>2, <3>1, <3>2, <3>3, <3>4, <3>5
  <2> QED  BY <1>0, <1>3, <2>5, <2>6, <2>7 DEF z, g, l
<1>9. CASE ~ (used + 1 <= Short)
  <2>1. last = next  BY <1>9
  <2>2. z = B + Short - used - 1 /\ z \in Nat  BY <1>1, <1>2, <1>9 DEF Zeros
  <2>3. B \in Nat /\ Short \in Nat /\ 0 \in Nat /\ B - 2 \in Nat  BY <1>1
  <2> DEFINE o == open(B)
             b3 == Zero(shut.buffer, 0, B - 2)
             far == Len(next.stream)
  <2> HIDE DEF last
  <2>4. /\ o \in Context /\ o.stream = c.stream
        /\ o.bits0 = c.bits0 /\ o.bits1 = c.bits1
        /\ \A i \in 1 .. B : o.buffer[i] =
              IF used + 1 < i /\ i <= B THEN PadByte(0)
              ELSE IF i = used + 1 THEN PadByte(128) ELSE c.buffer[i]
    BY <1>7, <2>3
  <2>5. /\ shut \in Context /\ shut.bits0 = o.bits0 /\ shut.bits1 = o.bits1
        /\ Len(shut.stream) = Len(o.stream) + B
        /\ \A i \in 1 .. Len(o.stream) + B : shut.stream[i] =
              IF i <= Len(o.stream) THEN o.stream[i] ELSE o.buffer[i - Len(o.stream)]
    BY <2>4, TransformEffect
  <2> HIDE DEF shut
  <2>6. /\ b3 \in [1 .. B -> Byte]
        /\ \A i \in 1 .. B : b3[i] = IF 0 < i /\ i <= B - 2 THEN PadByte(0) ELSE shut.buffer[i]
    <3>1. shut.buffer \in [1 .. B -> Byte]  BY <2>5 DEF Context
    <3> QED  BY <2>3, <3>1, ZeroEffect
  <2> HIDE DEF b3
  <2>7. next = [shut EXCEPT !.buffer = b3]  BY DEF ClearForLast, b3
  <2> HIDE DEF next
  <2>8. /\ next \in Context /\ next.stream = shut.stream /\ next.buffer = b3
        /\ next.bits0 = c.bits0 /\ next.bits1 = c.bits1
    BY <2>4, <2>5, <2>6, <2>7 DEF Context
  <2>9. next.bits1 % Word = g /\ next.bits0 = l  BY <2>8
  <2>10. u = SHA512_Transform([next EXCEPT !.buffer = Copy(@, Short, LengthField(next))])
    <3>1. LengthField(next) = LengthField(c)  BY <2>8 DEF LengthField
    <3> QED  BY <2>1, <3>1
  <2>11. far = seen + B
    BY <2>4, <2>5, <2>8
  <2> HIDE DEF g, l, u
  <2>12. /\ D \in Seq(AnyByte(g, l)) /\ Len(D) = far + B
         /\ \A i \in 1 .. far : D[i] = next.stream[i]
         /\ \A i \in 1 .. Short : D[far + i] = next.buffer[i]
         /\ \A i \in Short + 1 .. B : D[far + i] = f[i - Short]
    BY <2>8, <2>9, <2>10, LastBlock
  <2> HIDE DEF D, f, z, seen, far, o
  <2>13. /\ Len(D) = n + 1 + z + (B - Short) /\ n + 1 + z + (B - Short) = far + B
         /\ far \in Nat
    <3>0. /\ far = seen + B /\ z = B + Short - used - 1 /\ B \in Nat /\ Short \in Nat
          /\ used \in Nat /\ seen \in Nat /\ seen + used = n
      BY <1>1, <1>2, <1>4, <2>2, <2>11
    <3>1. far + B = n + 1 + z + (B - Short) /\ far \in Nat  BY <3>0
    <3>2. Len(D) = far + B  BY <2>12
    <3> QED  BY <3>1, <3>2
  <2>14. \A i \in 1 .. far : D[i] = IF i <= seen THEN c.stream[i] ELSE o.buffer[i - seen]
    BY <2>4, <2>5, <2>8, <2>11, <2>12 DEF seen
  <2>15. \A i \in 1 .. Short : D[far + i] = PadByte(0)
    <3>1. \A i \in 1 .. Short : i \in 1 .. B /\ 0 < i /\ i <= B - 2  BY <1>1
    <3> QED  BY <2>6, <2>8, <2>12, <3>1
  <2>16. ASSUME NEW i \in 1 .. n + 1 + z + (B - Short)  PROVE D[i] = PaddedAt(n, z, g, l, i)
    <3>0. i \in 1 .. far + B  BY <2>13
    <3>1. CASE i <= seen
      <4>1. i \in 1 .. seen /\ i <= n /\ i \in 1 .. far  BY <1>1, <1>2, <1>4, <2>11, <3>0, <3>1
      <4> QED  BY <1>4, <2>14, <4>1 DEF PaddedAt
    <3> DEFINE j == i - seen
               k == i - far
    <3>2. CASE seen < i /\ i <= n
      <4>1. j \in 1 .. used /\ j \in 1 .. B /\ ~ (used + 1 < j) /\ ~ (i <= seen)
            /\ j # used + 1 /\ seen + j = i /\ i \in 1 .. far
        BY <1>1, <1>2, <1>4, <2>11, <3>0, <3>2
      <4> HIDE DEF k
      <4>2. D[i] = o.buffer[j]  BY <2>14, <4>1
      <4> HIDE DEF j
      <4>3. o.buffer[j] = c.buffer[j] /\ c.buffer[j] = Data[seen + j]
        BY <1>4, <2>4, <4>1
      <4> QED  BY <3>2, <4>1, <4>2, <4>3 DEF PaddedAt
    <3>3. CASE i = n + 1
      <4> HIDE DEF k
      <4>0. n = seen + used /\ n \in Nat /\ far = seen + B /\ used <= B - 1
            /\ used \in Nat /\ B \in Nat /\ seen \in Nat /\ i = n + 1
        BY <1>1, <1>2, <1>4, <2>11, <3>3
      <4>1. j = used + 1 /\ j \in 1 .. B /\ ~ (used + 1 < j) /\ ~ (i <= seen)
            /\ i \in 1 .. far /\ ~ (i <= n)
        BY <4>0
      <4>2. D[i] = o.buffer[j]  BY <2>14, <4>1
      <4> HIDE DEF j
      <4>3. o.buffer[j] = PadByte(128)  BY <2>4, <4>1
      <4> QED  BY <3>3, <4>1, <4>2, <4>3 DEF PaddedAt
    <3>4. CASE n + 1 < i /\ i <= far
      <4>1. j \in 1 .. B /\ used + 1 < j /\ j <= B /\ ~ (i <= seen)
            /\ i \in 1 .. far /\ ~ (i <= n) /\ i # n + 1 /\ i <= n + 1 + z
        BY <1>1, <1>2, <1>4, <2>2, <2>11, <3>0, <3>4
      <4>2. D[i] = o.buffer[j]  BY <2>14, <4>1
      <4> HIDE DEF j
      <4>3. o.buffer[j] = PadByte(0)  BY <2>4, <4>1
      <4> QED  BY <4>1, <4>2, <4>3 DEF PaddedAt
    <3>5. CASE far < i /\ i <= n + 1 + z
      <4>1. k \in 1 .. Short /\ far + k = i /\ ~ (i <= n) /\ i # n + 1
        BY <1>1, <1>2, <1>4, <2>2, <2>11, <2>13, <3>0, <3>5
      <4> HIDE DEF k
      <4>2. D[far + k] = PadByte(0)  BY <2>15, <4>1
      <4> QED  BY <3>5, <4>1, <4>2 DEF PaddedAt
    <3>6. CASE n + 1 + z < i
      <4>1. k \in Short + 1 .. B /\ far + k = i /\ k - Short = i - (n + 1 + z)
            /\ ~ (i <= n) /\ i # n + 1 /\ ~ (i <= n + 1 + z)
        BY <1>1, <1>2, <1>4, <2>2, <2>11, <2>13, <3>0, <3>6
      <4> HIDE DEF k
      <4>2. D[far + k] = f[k - Short]  BY <2>12, <4>1
      <4> QED  BY <4>1, <4>2 DEF PaddedAt, f
    <3> QED  BY <1>1, <1>4, <2>2, <2>13, <3>0, <3>1, <3>2, <3>3, <3>4, <3>5, <3>6
  <2> QED  BY <1>0, <1>3, <2>12, <2>13, <2>16 DEF z, g, l
<1> QED  BY <1>8, <1>9

\* The digest is the reference, for every message and every way it was cut.
LEMMA FinalIsPadded ==
    ASSUME NEW c, NEW n \in 0 .. MaxFed, Absorbs(c, n)
    PROVE  SHA512_Final(c) = Padded(Message(n)) /\ SHA512_Final(c) # NoDigest
<1> DEFINE used == n % B
           z == Zeros(used)
           g == c.bits1 % Word
           l == c.bits0
           all == n + 1 + z + (B - Short)
           d == SHA512_Final(c)
           p == Padded(Message(n))
<1>1. B \in Nat \ {0} /\ Short \in 1 .. B - 2 /\ MaxFed \in Nat /\ n \in Int
  BY BlockAssumption
<1>2. used \in 0 .. B - 1  BY <1>1, ModRange
<1>3. c.bits1 \in Nat /\ l \in 0 .. Word - 1 /\ l + Word * c.bits1 = n * BitsOf
  BY DEF Absorbs, Placed, Counted, Context
<1>4. /\ d \in Seq(AnyByte(g, l)) /\ Len(d) = all
      /\ \A i \in 1 .. all : d[i] = PaddedAt(n, z, g, l, i)
  BY FinalBytes
<1>5. /\ p \in Seq(AnyByte(g, l)) /\ Len(p) = all
      /\ \A i \in 1 .. all : p[i] = PaddedAt(n, z, g, l, i)
  BY <1>2, <1>3, PaddedBytes
<1>6. z \in Nat  BY <1>1, <1>2 DEF Zeros
<1> HIDE DEF used, z
<1>7. all > 0 /\ all \in Nat  BY <1>1, <1>6
<1> HIDE DEF g, l, all, d, p
<1>8. d = p  BY <1>4, <1>5, SeqEqual
<1>9. d # <<>>  BY <1>4, <1>7
<1> QED  BY <1>8, <1>9 DEF d, p, NoDigest

-----------------------------------------------------------------------------
(* SHA-512: the specification *)

\* The inductive invariant: before the digest the context has absorbed what was
\* fed; then the digest is the standard's.
IInv ==
    /\ ctx \in Context /\ fed \in 0 .. MaxFed
    /\ digest = NoDigest => Absorbs(ctx, fed)
    /\ DigestOfPaddedMessage

LEMMA FreshAbsorbs == SHA512_Init \in Context /\ Absorbs(SHA512_Init, 0)
<1> DEFINE c == SHA512_Init
           zeros == [i \in 1 .. B |-> PadByte(0)]
<1>1. B \in Nat \ {0} /\ Word \in Nat \ {0} /\ BitsOf \in Nat  BY BlockAssumption
<1>2. zeros \in [1 .. B -> Byte]
  <2>1. PadByte(0) \in Byte  BY DEF Byte
  <2> QED  BY <2>1
<1>3. <<>> \in Seq(Byte) /\ Len(<<>>) = 0  OBVIOUS
<1>4. c = [bits0 |-> 0, bits1 |-> 0, buffer |-> zeros, stream |-> <<>>]
  BY DEF SHA512_Init
<1> HIDE DEF zeros, c
<1>5. 0 \in 0 .. Word - 1 /\ 0 \in Nat  BY <1>1
<1>6. c \in Context  BY <1>2, <1>3, <1>4, <1>5 DEF Context
<1>7. c.bits0 = 0 /\ c.bits1 = 0 /\ Len(c.stream) = 0  BY <1>3, <1>4
<1>8. 0 % B = 0
  <2>1. 0 = 0 * B + 0 /\ 0 \in 0 .. B - 1 /\ 0 \in Int  BY <1>1
  <2> QED  BY <1>1, <2>1, ModUnique
<1>9. Placed(c, 0)  BY <1>6, <1>7, <1>8 DEF Placed
<1>10. Counted(c, 0)  BY <1>1, <1>7 DEF Counted
<1> QED  BY <1>6, <1>9, <1>10 DEF c, Absorbs

LEMMA InvInit == Init => IInv
<1>1. 0 \in 0 .. MaxFed  BY BlockAssumption
<1> QED  BY <1>1, FreshAbsorbs DEF Init, IInv, DigestOfPaddedMessage

LEMMA InvNext == IInv /\ [Next]_vars => IInv'
<1> SUFFICES ASSUME IInv, [Next]_vars PROVE IInv'  OBVIOUS
<1>1. CASE Starts
  <2>1. 0 \in 0 .. MaxFed  BY BlockAssumption
  <2> QED  BY <1>1, <2>1, FreshAbsorbs DEF Starts, IInv, DigestOfPaddedMessage
<1>2. CASE Finish
  <2>1. /\ fed \in 0 .. MaxFed /\ fed' = fed /\ Absorbs(ctx, fed)
        /\ ctx' = SHA512_Init /\ digest' = SHA512_Final(ctx)
    BY <1>2 DEF Finish, IInv
  <2>2. digest' = Padded(Message(fed)) /\ digest' # NoDigest  BY <2>1, FinalIsPadded
  <2>3. digest' = Padded([i \in 1 .. fed' |-> Data[i]])  BY <2>1, <2>2 DEF Message
  <2> QED  BY <2>1, <2>2, <2>3, FreshAbsorbs DEF IInv, DigestOfPaddedMessage
<1>3. ASSUME NEW k \in 0 .. MaxUpdate, Update(k)  PROVE IInv'
  <2>1. /\ fed \in 0 .. MaxFed /\ fed' = fed + k /\ fed + k <= MaxFed
        /\ Absorbs(ctx, fed) /\ digest = NoDigest /\ digest' = NoDigest
        /\ ctx' = SHA512_Update(ctx, Piece(fed, k))
    BY <1>3 DEF Update, IInv, Piece
  <2>2. fed \in Nat /\ k \in Nat /\ fed + k \in 0 .. MaxFed  BY <2>1, BlockAssumption
  <2>3. Absorbs(ctx', fed')  BY <2>1, <2>2, UpdateEffect
  <2>4. ctx' \in Context  BY <2>3 DEF Absorbs, Placed
  <2> QED  BY <2>1, <2>2, <2>3, <2>4 DEF IInv, DigestOfPaddedMessage
<1>4. CASE UNCHANGED vars  BY <1>4 DEF vars, IInv, DigestOfPaddedMessage
<1> QED  BY <1>1, <1>2, <1>3, <1>4 DEF Next

LEMMA InvUse == IInv => TypeOK /\ Lossless
<1> SUFFICES ASSUME IInv PROVE TypeOK /\ Lossless  OBVIOUS
<1>1. TypeOK  BY DEF IInv, TypeOK, Context
<1>2. ASSUME digest = NoDigest  PROVE Lossless
  <2>1. Absorbs(ctx, fed) /\ fed \in 0 .. MaxFed  BY <1>2 DEF IInv
  <2>2. UsedSpace(ctx) = fed % B  BY <2>1, UsedIsRest
  <2> QED  BY <2>1, <2>2 DEF Absorbs, Placed, Counted, Lossless
<1>3. ASSUME digest # NoDigest  PROVE Lossless  BY <1>3 DEF Lossless
<1> QED  BY <1>1, <1>2, <1>3

LEMMA AlwaysInv == Spec => []IInv
<1> QED  BY InvInit, InvNext, PTL DEF Spec

\* Between two calls the context is a block of bytes and a counter of two words
\* whose low one never leaves its range.
THEOREM Sha512TypeCorrect == Spec => []TypeOK
<1> QED  BY AlwaysInv, InvUse, PTL

\* SHA512_Update loses no byte, writes over none that is still to be hashed, and
\* keeps the 128-bit bit count exact over the carry, for every block length,
\* every word length and every way of cutting the message.
THEOREM Sha512NoByteLost == Spec => []Lossless
<1> QED  BY AlwaysInv, InvUse, PTL

\* SHA512_Last hashes the message followed by FIPS 180-2's padding and nothing
\* else, though it builds the padding in a buffer full of stale bytes.
THEOREM Sha512DigestIsStandard == Spec => []DigestOfPaddedMessage
<1>1. IInv => DigestOfPaddedMessage  BY DEF IInv
<1> QED  BY <1>1, AlwaysInv, PTL

-----------------------------------------------------------------------------
(* SHA-512: refinement *)

\* Between two calls the stream and the buffer together are the message.
LEMMA AbsorbedIsMessage == IInv => Absorbed = Message(fed)
<1> SUFFICES ASSUME IInv PROVE Absorbed = Message(fed)  OBVIOUS
<1>1. CASE digest # NoDigest  BY <1>1 DEF Absorbed, Message
<1>2. CASE digest = NoDigest
  <2> DEFINE s == ctx.stream
             seen == Len(s)
             left == UsedSpace(ctx)
             rest == SubSeq(ctx.buffer, 1, left)
             all  == s \o rest
             msg  == Message(fed)
  <2>1. B \in Nat \ {0} /\ fed \in 0 .. MaxFed /\ MaxFed \in Nat /\ fed \in Int
    BY BlockAssumption DEF IInv
  <2>2. left \in 0 .. B - 1 /\ left = fed % B
    <3>1. left = fed % B  BY <1>2, <2>1, UsedIsRest DEF IInv
    <3>2. fed % B \in 0 .. B - 1  BY <2>1, ModRange
    <3> QED  BY <3>1, <3>2
  <2>3. /\ s \in Seq(Byte) /\ ctx.buffer \in [1 .. B -> Byte]
        /\ seen \in Nat /\ seen + left = fed
        /\ \A i \in 1 .. seen : s[i] = Data[i]
        /\ \A i \in 1 .. left : ctx.buffer[i] = Data[seen + i]
    BY <1>2, <2>2 DEF IInv, Absorbs, Placed, Context
  <2>4. msg \in Seq(Byte) /\ Len(msg) = fed /\ \A i \in 1 .. fed : msg[i] = Data[i]
    BY <2>1, MessageType
  <2>5. ctx.buffer \in Seq(Byte) /\ Len(ctx.buffer) = B  BY <2>1, <2>3
  <2> HIDE DEF left
  <2>6. /\ rest \in Seq(Byte) /\ Len(rest) = left
        /\ \A i \in 1 .. left : rest[i] = ctx.buffer[i]
    <3> DEFINE b == ctx.buffer
    <3> HIDE DEF b
    <3>1. b \in Seq(Byte) /\ Len(b) = B  BY <2>5 DEF b
    <3>2. /\ left \in Nat /\ left <= Len(b)  BY <2>1, <2>2, <3>1
    <3>3. /\ SubSeq(b, 1, left) \in Seq(Byte) /\ Len(SubSeq(b, 1, left)) = left
          /\ \A i \in 1 .. left : SubSeq(b, 1, left)[i] = b[i]
      BY <3>1, <3>2
    <3> QED  BY <3>3 DEF b
  <2> HIDE DEF rest, s, msg
  <2>7. /\ all \in Seq(Byte) /\ Len(all) = Len(s) + Len(rest)
        /\ \A i \in 1 .. Len(s) + Len(rest) : all[i] =
              IF i <= Len(s) THEN s[i] ELSE rest[i - Len(s)]
    BY <2>3, <2>6, ConcatProperties
  <2> HIDE DEF all
  <2>8. Len(all) = fed /\ Len(s) + Len(rest) = fed  BY <2>1, <2>2, <2>3, <2>6, <2>7
  <2>9. ASSUME NEW i \in 1 .. fed  PROVE all[i] = Data[i]
    <3>1. CASE i <= seen
      <4>1. i \in 1 .. seen  BY <2>1, <2>3, <3>1
      <4> QED  BY <2>3, <2>7, <2>8, <3>1, <4>1
    <3>2. CASE ~ (i <= seen)
      <4>1. i - seen \in 1 .. left /\ seen + (i - seen) = i
        BY <2>1, <2>2, <2>3, <3>2
      <4>2. ctx.buffer[i - seen] = Data[i]  BY <2>3, <4>1
      <4>3. all[i] = rest[i - seen]  BY <2>7, <2>8, <3>2
      <4> QED  BY <2>6, <4>1, <4>2, <4>3
    <3> QED  BY <3>1, <3>2
  <2>10. all = msg  BY <2>4, <2>7, <2>8, <2>9, SeqEqual
  <2> QED  BY <1>2, <2>10 DEF Absorbed, all, rest, s, left, msg
<1> QED  BY <1>1, <1>2

LEMMA RefineStep ==
    ASSUME IInv, IInv', [Next]_vars
    PROVE  [MD!Next]_(MD!vars)
<1>1. Absorbed = Message(fed) /\ Absorbed' = Message(fed')
  <2>1. Absorbed = Message(fed)  BY AbsorbedIsMessage
  <2>2. (IInv => Absorbed = Message(fed))'  BY AbsorbedIsMessage, PTL
  <2>3. Message(fed)' = Message(fed')  BY DEF Message
  <2> QED  BY <2>1, <2>2, <2>3
<1>t. fed \in 0 .. MaxFed /\ fed' \in 0 .. MaxFed  BY DEF IInv
<1>2. CASE Starts
  <2>1. fed' = 0 /\ digest' = NoDigest  BY <1>2 DEF Starts
  <2>2. Message(0) = <<>>  BY DEF Message
  <2> QED  BY <1>1, <2>1, <2>2 DEF MD!Next, MD!Restart
<1>3. CASE Finish
  <2>1. /\ digest = NoDigest /\ fed' = fed /\ digest' = SHA512_Final(ctx)
        /\ Absorbs(ctx, fed)
    BY <1>3 DEF Finish, IInv
  <2>2. digest' = Padded(Message(fed))  BY <1>t, <2>1, FinalIsPadded
  <2> QED  BY <1>1, <2>1, <2>2 DEF MD!Next, MD!Finish
<1>4. ASSUME NEW k \in 0 .. MaxUpdate, Update(k)  PROVE MD!Absorb
  <2>1. fed' = fed + k /\ digest = NoDigest /\ digest' = NoDigest  BY <1>4 DEF Update
  <2>2. fed \in Nat /\ k \in Nat /\ fed' \in Nat /\ fed <= fed'
    BY <1>t, <2>1, BlockAssumption
  <2> DEFINE m == Message(fed')
             n == Message(fed)
             p == SubSeq(m, 1, fed)
  <2>3. n \in Seq(Byte) /\ Len(n) = fed /\ \A i \in 1 .. fed : n[i] = Data[i]
    BY <1>t, MessageType
  <2>4. m \in Seq(Byte) /\ Len(m) = fed' /\ \A i \in 1 .. fed' : m[i] = Data[i]
    BY <1>t, MessageType
  <2> HIDE DEF m, n
  <2>5. p \in Seq(Byte) /\ Len(p) = fed /\ \A i \in 1 .. fed : p[i] = m[i]
    BY <2>2, <2>4
  <2>6. \A i \in 1 .. fed : m[i] = Data[i]
    <3>1. \A i \in 1 .. fed : i \in 1 .. fed'  BY <2>2
    <3> QED  BY <2>4, <3>1
  <2> HIDE DEF p
  <2>7. p = n  BY <2>3, <2>5, <2>6, SeqEqual
  <2>8. SubSeq(m, 1, fed) = n  BY <2>7 DEF p
  <2> QED  BY <1>1, <2>1, <2>2, <2>3, <2>4, <2>8 DEF MD!Absorb, m, n
<1>5. CASE UNCHANGED vars
  <2>1. Absorbed' = Absorbed /\ digest' = digest  BY <1>1, <1>5 DEF vars
  <2> QED  BY <2>1 DEF MD!vars
<1> QED  BY <1>2, <1>3, <1>4, <1>5 DEF Next, MD!Next

\* A caller of sha2.c cannot tell its buffer, which the transform destroys, from
\* a hash of the whole message.
THEOREM Sha512Implements == Spec => ImplementsMessageDigest
<1>1. Init => MD!Init
  <2> SUFFICES ASSUME Init PROVE MD!Init  OBVIOUS
  <2>1. Absorbed = Message(fed)  BY InvInit, AbsorbedIsMessage
  <2>2. Message(0) = <<>>  BY DEF Message
  <2> QED  BY <2>1, <2>2 DEF Init, MD!Init
<1>2. IInv /\ IInv' /\ [Next]_vars => [MD!Next]_(MD!vars)  BY RefineStep
<1> QED  BY <1>1, <1>2, AlwaysInv, PTL DEF Spec, ImplementsMessageDigest, MD!Spec

-----------------------------------------------------------------------------
(* SpookyHash: what its state holds *)

SpookyByte == {Data[i] : i \in 1 .. MaxWritten} \cup {Mixed}

\* How much has been mixed: nothing before two blocks have come.
Seen(h) == IF h.length < Sp!BufSize THEN 0 ELSE Len(h.state)

SpookyHashType(h) ==
    /\ h \in [state : Seq(SpookyByte), data : [1 .. Sp!BufSize -> SpookyByte], length : Nat,
              remainder : 0 .. Sp!BufSize - 1, skipped : Nat, to_skip : Nat]
    /\ Seen(h) + h.remainder = h.length
    /\ Seen(h) % BlockSize = 0

\* The i-th byte of what has been mixed, followed by what waits in m_data,
\* followed by the input.
At(h, input, i) ==
    LET seen == Seen(h)
    IN  IF i <= seen THEN h.state[i]
        ELSE IF i <= seen + h.remainder THEN h.data[i - seen]
        ELSE input[i - seen - h.remainder]

LEMMA SpookyConstants ==
    ASSUME Sp!ConstantsFit
    PROVE  /\ BlockSize \in Nat \ {0} /\ Sp!BufSize \in Nat \ {0}
           /\ Sp!BufSize = BlockSize + BlockSize
           /\ Uint8 \in Nat \ {0} /\ Sp!BufSize < Uint8
           /\ HeaderLength \in 1 .. Uint8 - 1
           /\ MaxWritten \in Nat /\ MaxWrite \in Nat
           /\ AUTO \notin Int /\ Asciis \subseteq BOOLEAN
<1>1. BlockSize \in Nat \ {0} /\ Uint8 \in Nat /\ 2 * BlockSize < Uint8
  BY DEF Sp!ConstantsFit, Sp!BufSize
<1>2. /\ 2 * BlockSize = BlockSize + BlockSize /\ 2 * BlockSize \in Nat \ {0}
      /\ Uint8 \in Nat \ {0}
  BY <1>1
<1>3. HeaderLength \in 1 .. Uint8 - 1 /\ MaxWritten \in Nat /\ MaxWrite \in Nat
  BY DEF Sp!ConstantsFit
<1>4. AUTO \notin Int  BY DEF Sp!ConstantsFit
<1>5. Asciis \subseteq BOOLEAN  BY DEF Sp!ConstantsFit
<1> QED  BY <1>1, <1>2, <1>3, <1>4, <1>5 DEF Sp!BufSize

\* memcpy into m_data writes the bytes from at+1 on and no other.
LEMMA CopyProperties ==
    ASSUME Sp!ConstantsFit,
           NEW data \in [1 .. Sp!BufSize -> SpookyByte],
           NEW s \in Seq(SpookyByte), NEW at \in Nat
    PROVE  /\ Sp!Copy(data, at, s) \in [1 .. Sp!BufSize -> SpookyByte]
           /\ \A i \in 1 .. Sp!BufSize : Sp!Copy(data, at, s)[i] =
                 IF at < i /\ i <= at + Len(s) THEN s[i - at] ELSE data[i]
<1>0. Len(s) \in Nat /\ Sp!BufSize \in Nat  BY SpookyConstants
<1>1. \A i \in 1 .. Sp!BufSize : (at < i /\ i <= at + Len(s)) => i - at \in 1 .. Len(s)
  BY <1>0
<1>2. \A i \in 1 .. Len(s) : s[i] \in SpookyByte  OBVIOUS
<1> QED  BY <1>1, <1>2 DEF Sp!Copy

\* A part of a sequence of bytes, from its byte m + 1 on.
LEMMA Part ==
    ASSUME NEW s \in Seq(SpookyByte), NEW m \in 0 .. Len(s), NEW n \in m .. Len(s)
    PROVE  /\ SubSeq(s, m + 1, n) \in Seq(SpookyByte)
           /\ Len(SubSeq(s, m + 1, n)) = n - m
           /\ \A i \in 1 .. n - m : SubSeq(s, m + 1, n)[i] = s[m + i]
<1>1. \A i \in m + 1 .. n : s[i] \in SpookyByte  OBVIOUS
<1>2. m \in Int /\ n \in Int /\ m + 1 \in Int /\ m <= n /\ m >= 0  OBVIOUS
<1>3. n - (m + 1) + 1 = n - m /\ \A i \in 1 .. n - m : (m + 1) + i - 1 = m + i
  BY <1>2
<1>4. /\ SubSeq(s, m + 1, n) \in Seq(SpookyByte)
      /\ Len(SubSeq(s, m + 1, n)) = IF m + 1 <= n THEN n - (m + 1) + 1 ELSE 0
      /\ \A i \in 1 .. n - (m + 1) + 1 : SubSeq(s, m + 1, n)[i] = s[(m + 1) + i - 1]
  BY <1>1, <1>2, SubSeqProperties
<1> QED  BY <1>2, <1>3, <1>4

\* The same from its first byte on.
LEMMA Beginning ==
    ASSUME NEW s \in Seq(SpookyByte), NEW n \in 0 .. Len(s)
    PROVE  /\ SubSeq(s, 1, n) \in Seq(SpookyByte)
           /\ Len(SubSeq(s, 1, n)) = n
           /\ \A i \in 1 .. n : SubSeq(s, 1, n)[i] = s[i]
<1>1. /\ 0 \in 0 .. Len(s) /\ n \in 0 .. Len(s) /\ 0 + 1 = 1 /\ n - 0 = n
      /\ \A i \in 1 .. n : 0 + i = i
  OBVIOUS
<1> QED  BY <1>1, Part

\* How Update cuts an input that fills two blocks: what completes m_data, whole
\* blocks, and less than a block.
LEMMA Cut ==
    ASSUME Sp!ConstantsFit,
           NEW rem \in 0 .. Sp!BufSize - 1, NEW len \in Nat, ~Sp!TooShort(len + rem)
    PROVE  LET prefix == IF rem > 0 THEN Sp!BufSize - rem ELSE 0
               tail   == (len - prefix) % BlockSize
               whole  == (len - prefix) - tail
           IN  /\ prefix \in 0 .. len /\ tail \in 0 .. BlockSize - 1
               /\ whole \in 0 .. len - prefix
               /\ prefix + whole + tail = len
               /\ whole % BlockSize = 0
               /\ whole = 0 \/ whole >= BlockSize
               /\ rem > 0 => rem + prefix = Sp!BufSize
               /\ rem = 0 => prefix = 0
<1> DEFINE prefix == IF rem > 0 THEN Sp!BufSize - rem ELSE 0
           x      == len - prefix
<1>b. Sp!BufSize \in Nat  BY SpookyConstants
<1>1. /\ prefix \in 0 .. len /\ x \in Nat
      /\ rem > 0 => rem + prefix = Sp!BufSize
      /\ rem = 0 => prefix = 0
  BY <1>b DEF Sp!TooShort
<1> HIDE DEF x
<1>2. BlockSize \in Nat \ {0} /\ x \in Int  BY <1>1, SpookyConstants
<1>3. x % BlockSize \in 0 .. BlockSize - 1  BY <1>2, ModRange
<1>4. x - (x % BlockSize) \in 0 .. x /\ (x - (x % BlockSize)) % BlockSize = 0
  BY <1>1, <1>2, ModFloor
<1> HIDE DEF prefix
<1>5. prefix + (x - (x % BlockSize)) + (x % BlockSize) = len  BY <1>1, <1>3, <1>4 DEF x
<1>6. ASSUME NEW y \in Nat, y % BlockSize = 0, y < BlockSize PROVE y = 0
  <2>1. y \in 0 .. BlockSize - 1  BY <1>6, <1>2
  <2> QED  BY <2>1, <1>2, <1>6, ModSmall
<1> DEFINE w == x - (x % BlockSize)
<1>7. w \in Nat /\ w % BlockSize = 0  BY <1>4, <1>1
<1> HIDE DEF w
<1>8. w = 0 \/ w >= BlockSize  BY <1>6, <1>7, <1>2
<1> QED  BY <1>1, <1>3, <1>4, <1>5, <1>8 DEF x, prefix, w

-----------------------------------------------------------------------------
(* SpookyHash: the update *)

\* The effect on the hash h of an update with input.
Appends(h, input, u) ==
    /\ SpookyHashType(u)
    /\ u.length = h.length + Len(input)
    /\ u.skipped = h.skipped /\ u.to_skip = h.to_skip
    /\ \A i \in 1 .. Seen(u) : u.state[i] = At(h, input, i)
    /\ \A i \in 1 .. u.remainder : u.data[i] = At(h, input, Seen(u) + i)

LEMMA SpookyFields ==
    ASSUME Sp!ConstantsFit, NEW h, SpookyHashType(h)
    PROVE  /\ h.state \in Seq(SpookyByte) /\ Len(h.state) \in Nat
           /\ h.data \in [1 .. Sp!BufSize -> SpookyByte]
           /\ h.data \in Seq(SpookyByte) /\ Len(h.data) = Sp!BufSize
           /\ h.length \in Nat /\ h.remainder \in Nat /\ h.remainder \in 0 .. Sp!BufSize - 1
           /\ h.skipped \in Nat /\ h.to_skip \in Nat
           /\ Seen(h) \in Nat /\ Seen(h) + h.remainder = h.length
           /\ Seen(h) % BlockSize = 0
<1>1. Sp!BufSize \in Nat  BY SpookyConstants
<1>2. /\ h.state \in Seq(SpookyByte) /\ h.data \in [1 .. Sp!BufSize -> SpookyByte]
      /\ h.length \in Nat /\ h.remainder \in 0 .. Sp!BufSize - 1
      /\ h.skipped \in Nat /\ h.to_skip \in Nat
  BY DEF SpookyHashType
<1>3. Len(h.state) \in Nat /\ h.remainder \in Nat  BY <1>1, <1>2
<1>4. h.data \in Seq(SpookyByte) /\ Len(h.data) = Sp!BufSize  BY <1>1, <1>2
<1>5. Seen(h) \in Nat  BY <1>3 DEF Seen
<1> QED  BY <1>2, <1>3, <1>4, <1>5 DEF SpookyHashType

LEMMA Buffered ==
    ASSUME Sp!ConstantsFit, NEW h, SpookyHashType(h),
           NEW input \in Seq(SpookyByte), NEW aligned,
           Sp!TooShort(Len(input) + h.remainder)
    PROVE  Appends(h, input, Sp!SpookyUpdate(h, input, aligned))
<1> DEFINE u    == Sp!SpookyUpdate(h, input, aligned)
           len  == Len(input)
           left == h.remainder
           seen == Seen(h)
           m    == Sp!Copy(h.data, left, input)
<1>b. Sp!BufSize \in Nat  BY SpookyConstants
<1>1. /\ h.state \in Seq(SpookyByte) /\ h.data \in [1 .. Sp!BufSize -> SpookyByte]
      /\ left \in 0 .. Sp!BufSize - 1 /\ left \in Nat /\ seen \in Nat /\ len \in Nat
      /\ h.length \in Nat /\ h.skipped \in Nat /\ h.to_skip \in Nat
      /\ seen + left = h.length /\ seen % BlockSize = 0
  BY SpookyFields
<1>c. len + left < Sp!BufSize  BY DEF Sp!TooShort
<1>3. /\ m \in [1 .. Sp!BufSize -> SpookyByte]
      /\ \A i \in 1 .. Sp!BufSize : m[i] =
            IF left < i /\ i <= left + len THEN input[i - left] ELSE h.data[i]
  BY <1>1, CopyProperties
<1>2. /\ u.state = h.state /\ u.data = m /\ u.length = h.length + len
      /\ u.remainder = len + left /\ u.skipped = h.skipped /\ u.to_skip = h.to_skip
      /\ u = [state |-> u.state, data |-> u.data, length |-> u.length,
              remainder |-> u.remainder, skipped |-> u.skipped, to_skip |-> u.to_skip]
  BY DEF Sp!SpookyUpdate, SpookyHashType
<1> HIDE DEF u, m
<1>4. Seen(u) = seen
  <2>1. CASE h.length < Sp!BufSize
    <3>1. seen = 0 /\ left = h.length  BY <2>1, <1>1 DEF Seen
    <3>2. u.length < Sp!BufSize  BY <3>1, <1>1, <1>2, <1>c, <1>b
    <3> QED  BY <3>1, <3>2 DEF Seen
  <2>2. CASE ~ (h.length < Sp!BufSize)
    <3>1. ~ (u.length < Sp!BufSize)  BY <2>2, <1>1, <1>2, <1>b
    <3> QED  BY <2>2, <3>1, <1>2 DEF Seen
  <2> QED  BY <2>1, <2>2
<1> HIDE DEF left, len, seen
<1>5. SpookyHashType(u)
  <2>1. u.remainder \in 0 .. Sp!BufSize - 1 /\ u.length \in Nat
        /\ seen + u.remainder = u.length
    BY <1>1, <1>2, <1>c, <1>b
  <2> QED  BY <2>1, <1>1, <1>2, <1>3, <1>4 DEF SpookyHashType
<1>6. \A i \in 1 .. seen : h.state[i] = At(h, input, i)  BY <1>1 DEF At, seen
<1>7. ASSUME NEW i \in 1 .. len + left PROVE m[i] = At(h, input, seen + i)
  <2>1. /\ i \in 1 .. Sp!BufSize /\ ~ (seen + i <= seen) /\ (seen + i <= seen + left <=> i <= left)
        /\ (seen + i) - seen = i /\ (seen + i) - seen - left = i - left
        /\ (left < i /\ i <= left + len <=> ~ (i <= left))
    BY <1>1, <1>b, <1>c
  <2> QED  BY <2>1, <1>3 DEF At, seen, left
<1> QED  BY <1>2, <1>4, <1>5, <1>6, <1>7 DEF Appends, u, len

LEMMA Striped ==
    ASSUME Sp!ConstantsFit, NEW h, SpookyHashType(h),
           NEW input \in Seq(SpookyByte), NEW aligned,
           ~Sp!TooShort(Len(input) + h.remainder)
    PROVE  Appends(h, input, Sp!SpookyUpdate(h, input, aligned))
<1> DEFINE u      == Sp!SpookyUpdate(h, input, aligned)
           len    == Len(input)
           left   == h.remainder
           seen   == Seen(h)
           prefix == IF left > 0 THEN Sp!BufSize - left ELSE 0
           tail   == (len - prefix) % BlockSize
           whole  == (len - prefix) - tail
           first  == SubSeq(input, 1, prefix)
           full   == Sp!Copy(h.data, left, first)
           mid    == SubSeq(input, prefix + 1, prefix + whole)
           last   == SubSeq(input, prefix + whole + 1, len)
           read   == IF aligned THEN full ELSE Sp!Unaligned(full, input, prefix, whole)
           s0     == Sp!Variables(h)
           s1     == s0 \o (IF left > 0 THEN full ELSE <<>>)
<1>b. /\ Sp!BufSize \in Nat /\ BlockSize \in Nat \ {0} /\ Sp!BufSize = BlockSize + BlockSize
  BY SpookyConstants
<1>t. /\ h.state \in Seq(SpookyByte) /\ h.data \in [1 .. Sp!BufSize -> SpookyByte]
      /\ left \in 0 .. Sp!BufSize - 1 /\ left \in Nat /\ seen \in Nat /\ len \in Nat
      /\ h.length \in Nat /\ h.skipped \in Nat /\ h.to_skip \in Nat
      /\ seen + left = h.length /\ seen % BlockSize = 0
  BY SpookyFields
<1>1. /\ prefix \in 0 .. len /\ tail \in 0 .. BlockSize - 1
      /\ whole \in 0 .. len - prefix
      /\ prefix + whole + tail = len
      /\ whole % BlockSize = 0
      /\ whole = 0 \/ whole >= BlockSize
      /\ left > 0 => left + prefix = Sp!BufSize
      /\ left = 0 => prefix = 0
  <2> HIDE DEF left, len
  <2>1. ~Sp!TooShort(len + left)  BY DEF len, left
  <2> QED  BY <1>t, <2>1, Cut
<1>c. ~ (len + left < Sp!BufSize)  BY DEF Sp!TooShort
<1>2. /\ u.state = s1 \o mid /\ u.data = Sp!Copy(read, 0, last)
      /\ u.length = h.length + len /\ u.remainder = tail
      /\ u.skipped = h.skipped /\ u.to_skip = h.to_skip
      /\ u = [state |-> u.state, data |-> u.data, length |-> u.length,
              remainder |-> u.remainder, skipped |-> u.skipped, to_skip |-> u.to_skip]
  BY DEF Sp!SpookyUpdate, SpookyHashType
<1> HIDE DEF u, prefix, tail, whole
<1>3. /\ first \in Seq(SpookyByte) /\ Len(first) = prefix
      /\ \A i \in 1 .. prefix : first[i] = input[i]
  BY <1>1, Beginning
<1>4. /\ mid \in Seq(SpookyByte) /\ Len(mid) = whole
      /\ \A i \in 1 .. whole : mid[i] = input[prefix + i]
  <2>1. /\ prefix \in 0 .. Len(input) /\ prefix + whole \in prefix .. Len(input)
        /\ (prefix + whole) - prefix = whole
    <3> HIDE DEF left
    <3> QED  BY <1>1, <1>t
  <2> QED  BY <2>1, Part
<1>5. /\ last \in Seq(SpookyByte) /\ Len(last) = tail
      /\ \A i \in 1 .. tail : last[i] = input[prefix + whole + i]
  <2>1. /\ prefix + whole \in 0 .. Len(input) /\ len \in prefix + whole .. Len(input)
        /\ len - (prefix + whole) = tail
    BY <1>1, <1>t
  <2> QED  BY <2>1, Part
<1>6. /\ full \in [1 .. Sp!BufSize -> SpookyByte]
      /\ \A i \in 1 .. Sp!BufSize : full[i] = IF left < i /\ i <= left + prefix
                                           THEN input[i - left] ELSE h.data[i]
  <2> HIDE DEF first, left
  <2>1. /\ full \in [1 .. Sp!BufSize -> SpookyByte]
        /\ \A i \in 1 .. Sp!BufSize : full[i] = IF left < i /\ i <= left + prefix
                                             THEN first[i - left] ELSE h.data[i]
    <3>1. h.data \in [1 .. Sp!BufSize -> SpookyByte] /\ left \in Nat  BY <1>t
    <3>2. /\ full \in [1 .. Sp!BufSize -> SpookyByte]
          /\ \A i \in 1 .. Sp!BufSize : full[i] = IF left < i /\ i <= left + Len(first)
                                               THEN first[i - left] ELSE h.data[i]
      BY <1>3, <3>1, CopyProperties
    <3> QED  BY <3>2, <1>3
  <2> HIDE DEF full
  <2>2. \A i \in 1 .. Sp!BufSize : left < i /\ i <= left + prefix => i - left \in 1 .. prefix
    <3>1. left \in Nat /\ prefix \in Nat /\ Sp!BufSize \in Nat  BY <1>1, <1>t, <1>b
    <3> QED  BY <3>1
  <2> QED  BY <2>1, <2>2, <1>3
<1>r. read \in [1 .. Sp!BufSize -> SpookyByte]
  <2> HIDE DEF full
  <2>1. CASE aligned \/ whole = 0  BY <2>1, <1>6 DEF Sp!Unaligned
  <2>2. CASE ~aligned /\ whole # 0
    <3> DEFINE m    == prefix + whole - BlockSize
               part == SubSeq(input, m + 1, prefix + whole)
    <3>1. m \in 0 .. Len(input) /\ prefix + whole \in m .. Len(input)
      <4>1. /\ whole \in Nat /\ prefix \in Nat /\ whole >= BlockSize /\ len = Len(input)
            /\ prefix + whole <= len
        BY <2>2, <1>1, <1>t
      <4>2. len \in Nat /\ BlockSize \in Nat  BY <1>b, <1>t
      <4> HIDE DEF len
      <4> QED  BY <4>1, <4>2
    <3>2. part \in Seq(SpookyByte)
      <4> DEFINE e == prefix + whole
      <4>1. m \in 0 .. Len(input) /\ e \in m .. Len(input)  BY <3>1
      <4> HIDE DEF m, e
      <4>2. SubSeq(input, m + 1, e) \in Seq(SpookyByte)  BY <4>1, Part
      <4> QED  BY <4>2 DEF e
    <3>3. read = Sp!Copy(full, 0, part)  BY <2>2 DEF Sp!Unaligned
    <3>4. 0 \in Nat  OBVIOUS
    <3> HIDE DEF read, part
    <3> QED  BY <3>2, <3>3, <3>4, <1>6, CopyProperties
  <2> QED  BY <2>1, <2>2
<1>7. /\ u.data \in [1 .. Sp!BufSize -> SpookyByte]
      /\ \A i \in 1 .. tail : u.data[i] = input[prefix + whole + i]
  <2> HIDE DEF read, last
  <2>1. /\ Sp!Copy(read, 0, last) \in [1 .. Sp!BufSize -> SpookyByte]
        /\ \A i \in 1 .. Sp!BufSize : Sp!Copy(read, 0, last)[i] =
              IF 0 < i /\ i <= 0 + Len(last) THEN last[i - 0] ELSE read[i]
    <3>1. 0 \in Nat  OBVIOUS
    <3> QED  BY <3>1, <1>5, <1>r, CopyProperties
  <2>2. \A i \in 1 .. tail : i \in 1 .. Sp!BufSize /\ 0 < i /\ i <= 0 + tail /\ i - 0 = i
    BY <1>1, <1>b
  <2> QED  BY <2>1, <2>2, <1>2, <1>5
<1>0. /\ s0 \in Seq(SpookyByte) /\ Len(s0) = seen
      /\ \A i \in 1 .. seen : s0[i] = h.state[i]
  BY <1>t, <1>b DEF Sp!Variables, Seen
<1>8. /\ s1 \in Seq(SpookyByte)
      /\ Len(s1) = seen + (IF left > 0 THEN Sp!BufSize ELSE 0)
      /\ \A i \in 1 .. Len(s1) : s1[i] = IF i <= seen THEN h.state[i] ELSE full[i - seen]
  <2> HIDE DEF full, s0, seen
  <2>1. full \in Seq(SpookyByte) /\ Len(full) = Sp!BufSize  BY <1>6, <1>b
  <2>2. CASE left > 0
    <3>1. /\ s0 \o full \in Seq(SpookyByte) /\ Len(s0 \o full) = Len(s0) + Len(full)
          /\ \A i \in 1 .. Len(s0) + Len(full) : (s0 \o full)[i] =
                IF i <= Len(s0) THEN s0[i] ELSE full[i - Len(s0)]
      BY <2>1, <1>0, ConcatProperties
    <3>2. \A i \in 1 .. seen + Sp!BufSize : i <= seen => i \in 1 .. seen  BY <1>t, <1>b
    <3> QED  BY <2>1, <2>2, <3>1, <3>2, <1>0
  <2>3. CASE ~ (left > 0)
    <3>1. s1 = s0  BY <2>3, <1>0, ConcatEmptySeq
    <3> HIDE DEF s1
    <3> QED  BY <2>3, <3>1, <1>0, <1>t, <1>b
  <2> QED  BY <2>2, <2>3
<1> HIDE DEF s0, s1, mid, last, full, read, left, len, seen
<1>9. /\ u.state \in Seq(SpookyByte) /\ Len(u.state) = Len(s1) + whole
      /\ \A i \in 1 .. Len(s1) + whole : u.state[i] =
            IF i <= Len(s1) THEN s1[i] ELSE mid[i - Len(s1)]
  <2>1. s1 \in Seq(SpookyByte) /\ mid \in Seq(SpookyByte) /\ Len(mid) = whole  BY <1>4, <1>8
  <2>2. /\ s1 \o mid \in Seq(SpookyByte) /\ Len(s1 \o mid) = Len(s1) + Len(mid)
        /\ \A i \in 1 .. Len(s1) + Len(mid) : (s1 \o mid)[i] =
              IF i <= Len(s1) THEN s1[i] ELSE mid[i - Len(s1)]
    BY <2>1, ConcatProperties
  <2> QED  BY <2>1, <2>2, <1>2
<1>10. Len(u.state) = seen + (IF left > 0 THEN Sp!BufSize ELSE 0) + whole
  BY <1>8, <1>9
<1>11. /\ u.length \in Nat /\ ~ (u.length < Sp!BufSize) /\ Len(u.state) + tail = u.length
  <2>1. /\ left \in Nat
        /\ left > 0 => left + prefix = Sp!BufSize
        /\ left = 0 => prefix = 0
        /\ prefix + whole + tail = len /\ seen + left = h.length
        /\ prefix \in Nat /\ whole \in Nat /\ tail \in Nat /\ len \in Nat
        /\ seen \in Nat /\ h.length \in Nat /\ Sp!BufSize \in Nat
    BY <1>1, <1>t, <1>b
  <2>2. u.length = h.length + len  BY <1>2
  <2> QED  BY <2>1, <2>2, <1>10, <1>c, <1>b
<1>12. Seen(u) = Len(u.state)  BY <1>11 DEF Seen
<1>13. Len(u.state) % BlockSize = 0
  <2> DEFINE y == whole + (IF left > 0 THEN 2 * BlockSize ELSE 0)
  <2>0. whole \in Int /\ seen \in Int /\ BlockSize \in Int
    <3>1. len - prefix \in Int  BY <1>1, <1>t
    <3> QED  BY <3>1, <1>1, <1>t, <1>b
  <2>1. y \in Int /\ whole \in Int /\ seen \in Int /\ 2 \in Int  BY <2>0
  <2>2. Len(u.state) = seen + y
    <3> HIDE DEF left, seen
    <3> QED  BY <1>10, <1>1, <1>t, <1>b
  <2>3. y % BlockSize = 0
    <3>1. CASE left > 0
      <4>1. (whole + 2 * BlockSize) % BlockSize = whole % BlockSize
        BY <2>1, <1>b, ModAddMultiple
      <4> QED  BY <4>1, <3>1, <1>1
    <3>2. CASE ~ (left > 0)
      <4>1. y = whole  BY <3>2, <2>1
      <4> QED  BY <4>1, <1>1
    <3> QED  BY <3>1, <3>2
  <2> HIDE DEF y
  <2>4. (seen + y) % BlockSize = ((seen % BlockSize) + y) % BlockSize
    BY <2>1, <1>b, ModSum
  <2>5. (seen % BlockSize) + y = y  BY <2>1, <1>t
  <2> QED  BY <2>2, <2>3, <2>4, <2>5
<1>14. SpookyHashType(u)
  <2>1. tail \in 0 .. Sp!BufSize - 1  BY <1>1, <1>b
  <2> QED  BY <2>1, <1>2, <1>7, <1>9, <1>11, <1>12, <1>13, <1>t DEF SpookyHashType
<1>15. ASSUME NEW i \in 1 .. Len(u.state) PROVE u.state[i] = At(h, input, i)
  <2>1. CASE i <= seen
    <3>1. i \in 1 .. Len(s1) /\ i <= Len(s1) /\ i \in 1 .. Len(s1) + whole
      BY <2>1, <1>8, <1>9, <1>1, <1>t, <1>b
    <3>2. u.state[i] = h.state[i]  BY <2>1, <3>1, <1>8, <1>9
    <3> QED  BY <2>1, <3>2 DEF At, seen
  <2>2. CASE seen < i /\ i <= Len(s1)
    <3>1. /\ i \in 1 .. Len(s1) /\ i \in 1 .. Len(s1) + whole /\ ~ (i <= seen)
          /\ left > 0 /\ i - seen \in 1 .. Sp!BufSize /\ left + prefix = Sp!BufSize
      BY <2>2, <1>8, <1>9, <1>1, <1>t, <1>b
    <3>2. u.state[i] = full[i - seen]  BY <2>2, <3>1, <1>8, <1>9
    <3>3. /\ i <= seen + left <=> ~ (left < i - seen)
          /\ i - seen <= left + prefix
      BY <3>1, <1>t, <1>b, <1>1
    <3> QED  BY <3>1, <3>2, <3>3, <1>6 DEF At, left, seen
  <2>3. CASE Len(s1) < i
    <3>1. /\ i \in 1 .. Len(s1) + whole /\ ~ (i <= Len(s1)) /\ i - Len(s1) \in 1 .. whole
      BY <2>3, <1>8, <1>9, <1>1, <1>t, <1>b
    <3>2. u.state[i] = input[prefix + (i - Len(s1))]  BY <3>1, <1>4, <1>9
    <3>3. /\ ~ (i <= seen) /\ ~ (i <= seen + left)
          /\ prefix + (i - Len(s1)) = i - seen - left
      BY <3>1, <2>3, <1>8, <1>1, <1>t, <1>b
    <3> QED  BY <3>2, <3>3 DEF At, left, seen
  <2>4. i <= seen \/ (seen < i /\ i <= Len(s1)) \/ Len(s1) < i
    BY <1>8, <1>t, <1>b, SMTT(30)
  <2> QED  BY <2>1, <2>2, <2>3, <2>4
<1>16. ASSUME NEW i \in 1 .. tail PROVE u.data[i] = At(h, input, Len(u.state) + i)
  <2> DEFINE j == Len(u.state) + i
  <2>1. u.data[i] = input[prefix + whole + i]  BY <1>7
  <2>2. /\ ~ (j <= seen) /\ ~ (j <= seen + left)
        /\ prefix + whole + i = j - seen - left
    BY <1>10, <1>1, <1>t, <1>b
  <2> HIDE DEF j
  <2>3. u.data[i] = input[j - seen - left]  BY <2>1, <2>2
  <2>4. At(h, input, j) = input[j - seen - left]  BY <2>2 DEF At, left, seen
  <2> QED  BY <2>3, <2>4 DEF j
<1> QED  BY <1>2, <1>12, <1>14, <1>15, <1>16 DEF Appends, u, len

\* An update appends its input to what has been mixed and what waits, with
\* aligned and with unaligned reads.
LEMMA SpookyUpdateEffect ==
    ASSUME Sp!ConstantsFit, NEW h, SpookyHashType(h),
           NEW input \in Seq(SpookyByte), NEW aligned
    PROVE  Appends(h, input, Sp!SpookyUpdate(h, input, aligned))
BY Buffered, Striped

-----------------------------------------------------------------------------
(* SpookyHash: types, and where each byte is *)

\* Every byte written so far is counted as skipped, or mixed, or waits.
Follows ==
    /\ written = spooky.skipped + spooky.length
    /\ spooky.length > 0 => spooky.skipped = spooky.to_skip
    /\ \A i \in 1 .. Seen(spooky) : spooky.state[i] = Data[spooky.skipped + i]
    /\ \A i \in 1 .. spooky.remainder :
          spooky.data[i] = Data[spooky.skipped + (Seen(spooky) + i)]

SpookyInv ==
    /\ SpookyHashType(spooky)
    /\ spooky.to_skip \in 0 .. Uint8 - 1 /\ spooky.skipped \in 0 .. spooky.to_skip
    /\ written \in 0 .. MaxWritten /\ spooky.length <= written
    /\ out # Sp!Error => Follows

LEMMA SpookyInvStart ==
    ASSUME Sp!ConstantsFit, NEW n \in 0 .. Uint8 - 1
    PROVE  (spooky = Sp!SpookyInit(n) /\ written = 0 => SpookyInv)
<1> SUFFICES ASSUME spooky = Sp!SpookyInit(n), written = 0 PROVE SpookyInv  OBVIOUS
<1>b. Sp!BufSize \in Nat \ {0} /\ BlockSize \in Nat \ {0} /\ Uint8 \in Nat /\ MaxWritten \in Nat
  BY SpookyConstants
<1>1. /\ spooky.state = <<>> /\ spooky.data = [i \in 1 .. Sp!BufSize |-> Mixed]
      /\ spooky.length = 0 /\ spooky.remainder = 0 /\ spooky.skipped = 0
      /\ spooky.to_skip = n
  BY DEF Sp!SpookyInit
<1>2. Mixed \in SpookyByte  BY DEF SpookyByte
<1>3. Seen(spooky) = 0  BY <1>1, <1>b DEF Seen
<1>4. 0 % BlockSize = 0
  <2>1. 0 \in 0 .. BlockSize - 1  BY <1>b
  <2> QED  BY <2>1, <1>b, ModSmall
<1>5. SpookyHashType(spooky)
  <2>1. 0 \in 0 .. Sp!BufSize - 1 /\ n \in Nat  BY <1>b
  <2>2. [i \in 1 .. Sp!BufSize |-> Mixed] \in [1 .. Sp!BufSize -> SpookyByte]  BY <1>2
  <2>3. spooky \in [state : Seq(SpookyByte), data : [1 .. Sp!BufSize -> SpookyByte], length : Nat,
                    remainder : 0 .. Sp!BufSize - 1, skipped : Nat, to_skip : Nat]
    BY <2>1, <2>2 DEF Sp!SpookyInit
  <2> QED  BY <2>3, <1>1, <1>3, <1>4 DEF SpookyHashType
<1>6. Follows  BY <1>1, <1>3 DEF Follows
<1> QED  BY <1>1, <1>5, <1>6, <1>b DEF SpookyInv

LEMMA SpookyInvStarts ==
    Sp!ConstantsFit => \A n \in 0 .. Uint8 - 1 : spooky = Sp!SpookyInit(n) /\ written = 0 => SpookyInv
BY SpookyInvStart

LEMMA SkipType ==
    ASSUME Sp!ConstantsFit, NEW skip \in Int PROVE Sp!ToSkip(skip) \in 0 .. Uint8 - 1
<1>1. Uint8 \in Nat \ {0}  BY SpookyConstants
<1> QED  BY <1>1, ModRange DEF Sp!ToSkip

\* The skip arguments are numbers, or "auto".
SkipsAreNumbers == Skips \subseteq Int \cup {AUTO}

LEMMA ResolvedType ==
    ASSUME Sp!ConstantsFit, SkipsAreNumbers, NEW a \in Sp!Args
    PROVE  Sp!Resolved(a) \subseteq Int
<1>1. a.skip \in Int \cup {AUTO}  BY DEF Sp!Args, SkipsAreNumbers
<1>2. Uint8 \in Nat /\ HeaderLength \in Int  BY SpookyConstants
<1>3. Sp!set_skip(a.ascii) \subseteq Int  BY <1>2 DEF Sp!set_skip, Sp!FourthTen
<1> QED  BY <1>1, <1>3 DEF Sp!Resolved

\* The bytes of a write.
LEMMA InputType ==
    ASSUME Sp!ConstantsFit, NEW n \in Nat, NEW k \in Nat, n + k <= MaxWritten
    PROVE  /\ [i \in 1 .. k |-> Data[n + i]] \in Seq(SpookyByte)
           /\ Len([i \in 1 .. k |-> Data[n + i]]) = k
<1>1. \A i \in 1 .. k : n + i \in 1 .. MaxWritten  BY SpookyConstants
<1>2. \A i \in 1 .. k : Data[n + i] \in SpookyByte  BY <1>1 DEF SpookyByte
<1> QED  BY <1>2

\* A write within what is skipped: the 8-bit counter does not wrap.
LEMMA SpookyInvSkipped ==
    ASSUME Sp!ConstantsFit, SpookyInv, NEW k \in Nat, out = Sp!Running, written + k <= MaxWritten,
           spooky.skipped < spooky.to_skip, spooky.skipped + k <= spooky.to_skip,
           spooky' = Sp!UpdateSkipCounter(spooky, k), written' = written + k
    PROVE  SpookyInv'
<1>b. Sp!BufSize \in Nat \ {0} /\ Uint8 \in Nat \ {0} /\ MaxWritten \in Nat  BY SpookyConstants
<1>t. SpookyHashType(spooky)  BY DEF SpookyInv
<1>1. /\ spooky.skipped \in Nat /\ spooky.to_skip \in 0 .. Uint8 - 1
      /\ written \in Nat /\ spooky.length \in Nat /\ spooky.length <= written
      /\ spooky.remainder \in Nat /\ Seen(spooky) \in Nat
      /\ Seen(spooky) + spooky.remainder = spooky.length
  BY <1>t, SpookyFields DEF SpookyInv
<1>2. Follows  BY DEF SpookyInv, Sp!Running, Sp!Error
<1>3. spooky.length = 0  BY <1>1, <1>2 DEF Follows
<1>4. (spooky.skipped + k) % Uint8 = spooky.skipped + k
  <2>1. spooky.skipped + k \in 0 .. Uint8 - 1  BY <1>1, <1>b
  <2> QED  BY <2>1, <1>b, ModSmall
<1>5. /\ spooky'.state = spooky.state /\ spooky'.data = spooky.data
      /\ spooky'.length = spooky.length /\ spooky'.remainder = spooky.remainder
      /\ spooky'.to_skip = spooky.to_skip /\ spooky'.skipped = spooky.skipped + k
      /\ spooky' = [state |-> spooky'.state, data |-> spooky'.data,
                    length |-> spooky'.length, remainder |-> spooky'.remainder,
                    skipped |-> spooky'.skipped, to_skip |-> spooky'.to_skip]
  BY <1>4, <1>t DEF Sp!UpdateSkipCounter, SpookyHashType
<1>6. Seen(spooky') = Seen(spooky)  BY <1>5 DEF Seen
<1>7. SpookyHashType(spooky')
  <2>1. spooky.skipped + k \in Nat  BY <1>1
  <2> QED  BY <2>1, <1>t, <1>5, <1>6 DEF SpookyHashType
<1>8. Follows'
  <2>1. Seen(spooky) = 0 /\ spooky.remainder = 0  BY <1>1, <1>3
  <2>2. written + k = (spooky.skipped + k) + 0  BY <1>1, <1>2, <1>3 DEF Follows
  <2> QED  BY <2>1, <2>2, <1>3, <1>5, <1>6 DEF Follows
<1>9. /\ spooky.skipped + k \in 0 .. spooky.to_skip /\ written + k \in 0 .. MaxWritten
      /\ spooky.length <= written + k
  BY <1>1, <1>b
<1> QED  BY <1>1, <1>5, <1>7, <1>8, <1>9 DEF SpookyInv

\* A write behind it goes to the hash.
LEMMA SpookyInvHashed ==
    ASSUME Sp!ConstantsFit, SpookyInv, NEW k \in Nat, out = Sp!Running, written + k <= MaxWritten,
           ~(spooky.skipped < spooky.to_skip), NEW aligned,
           spooky' = Sp!SpookyUpdate(spooky, [i \in 1 .. k |-> Data[written + i]], aligned),
           written' = written + k
    PROVE  SpookyInv'
<1> DEFINE input == [i \in 1 .. k |-> Data[written + i]]
           seen  == Seen(spooky)
           left  == spooky.remainder
           now   == Seen(spooky')
           more  == spooky'.remainder
           skip  == spooky.skipped
<1>b. Sp!BufSize \in Nat \ {0} /\ Uint8 \in Nat \ {0} /\ MaxWritten \in Nat  BY SpookyConstants
<1>t. SpookyHashType(spooky)  BY DEF SpookyInv
<1>1. /\ skip \in Nat /\ spooky.to_skip \in 0 .. Uint8 - 1 /\ skip <= spooky.to_skip
      /\ written \in Nat /\ spooky.length \in Nat
      /\ left \in Nat /\ seen \in Nat /\ seen + left = spooky.length
  BY <1>t, SpookyFields, <1>b DEF SpookyInv
<1>2. Follows  BY DEF SpookyInv, Sp!Running, Sp!Error
<1>3. input \in Seq(SpookyByte) /\ Len(input) = k  BY <1>1, InputType
<1>4. \A i \in 1 .. k : input[i] = Data[written + i]  OBVIOUS
<1>5. Appends(spooky, input, spooky')
  <2>1. spooky' = Sp!SpookyUpdate(spooky, input, aligned)  OBVIOUS
  <2> HIDE DEF input
  <2> QED  BY <2>1, <1>t, <1>3, SpookyUpdateEffect
<1> HIDE DEF input
<1>6. /\ SpookyHashType(spooky') /\ spooky'.length = spooky.length + k
      /\ spooky'.skipped = skip /\ spooky'.to_skip = spooky.to_skip
      /\ \A i \in 1 .. now : spooky'.state[i] = At(spooky, input, i)
      /\ \A i \in 1 .. more : spooky'.data[i] = At(spooky, input, now + i)
  BY <1>3, <1>5 DEF Appends
<1>7. now \in Nat /\ more \in Nat /\ now + more = spooky.length + k
  BY <1>6, SpookyFields
<1>8. /\ written = skip + (seen + left)
      /\ \A i \in 1 .. seen : spooky.state[i] = Data[skip + i]
      /\ \A i \in 1 .. left : spooky.data[i] = Data[skip + (seen + i)]
  BY <1>1, <1>2 DEF Follows
<1> HIDE DEF seen, left, now, more, skip
<1>9. ASSUME NEW i \in 1 .. (seen + left) + k PROVE At(spooky, input, i) = Data[skip + i]
  <2>1. CASE i <= seen
    <3>1. i \in 1 .. seen  BY <2>1, <1>1
    <3> QED  BY <2>1, <3>1, <1>8 DEF At, seen
  <2>2. CASE ~ (i <= seen) /\ i <= seen + left
    <3>1. i - seen \in 1 .. left /\ seen + (i - seen) = i  BY <2>2, <1>1
    <3>2. spooky.data[i - seen] = Data[skip + i]  BY <3>1, <1>8
    <3> QED  BY <2>2, <3>2 DEF At, seen, left
  <2>3. CASE ~ (i <= seen) /\ ~ (i <= seen + left)
    <3>1. i - seen - left \in 1 .. k /\ written + (i - seen - left) = skip + i
      BY <2>3, <1>1, <1>8
    <3>2. input[i - seen - left] = Data[skip + i]  BY <3>1, <1>4
    <3> QED  BY <2>3, <3>2 DEF At, seen, left
  <2> QED  BY <2>1, <2>2, <2>3
<1>10. now + more = (seen + left) + k  BY <1>1, <1>7
<1>11. \A i \in 1 .. now : spooky'.state[i] = Data[skip + i]
  <2>1. \A i \in 1 .. now : i \in 1 .. (seen + left) + k  BY <1>1, <1>7, <1>10
  <2> QED  BY <2>1, <1>6, <1>9
<1>12. \A i \in 1 .. more : spooky'.data[i] = Data[skip + (now + i)]
  <2>1. \A i \in 1 .. more : now + i \in 1 .. (seen + left) + k  BY <1>1, <1>7, <1>10
  <2> QED  BY <2>1, <1>6, <1>9
<1>13. written + k = skip + (spooky.length + k)  BY <1>1, <1>8
<1>14. skip = spooky.to_skip  BY <1>1, <1>b DEF skip
<1>15. Follows'
  BY <1>6, <1>11, <1>12, <1>13, <1>14 DEF Follows, now, more
<1>16. /\ spooky.length + k <= written + k /\ written + k \in 0 .. MaxWritten
       /\ skip \in 0 .. spooky.to_skip
  BY <1>1, <1>13, <1>14, <1>b
<1> QED  BY <1>1, <1>6, <1>15, <1>16 DEF SpookyInv

LEMMA SpookyInvNext ==
    ASSUME Sp!ConstantsFit, SkipsAreNumbers
    PROVE  SpookyInv /\ [Sp!Next]_(Sp!vars) => SpookyInv'
<1> SUFFICES ASSUME SpookyInv, [Sp!Next]_(Sp!vars) PROVE SpookyInv'  OBVIOUS
<1>1. CASE Sp!Call
  <2>1. PICK a \in Sp!Args : Sp!Starts(a)  BY <1>1 DEF Sp!Call
  <2>2. PICK skip \in Sp!Resolved(a) : spooky' = Sp!SpookyInit(Sp!ToSkip(skip))
    BY <2>1 DEF Sp!Starts
  <2>3. written' = 0  BY <2>1 DEF Sp!Starts
  <2>4. Sp!ToSkip(skip) \in 0 .. Uint8 - 1  BY <2>2, ResolvedType, SkipType
  <2>5. (Sp!ConstantsFit => \A n \in 0 .. Uint8 - 1 :
             spooky = Sp!SpookyInit(n) /\ written = 0 => SpookyInv)'
    BY SpookyInvStarts, PTL
  <2>6. Sp!ConstantsFit'  BY DEF Sp!ConstantsFit, Sp!BufSize
  <2>7. \A n : Sp!SpookyInit(n)' = Sp!SpookyInit(n)  BY DEF Sp!SpookyInit, Sp!BufSize
  <2> QED  BY <2>2, <2>3, <2>4, <2>5, <2>6, <2>7
<1>2. CASE Sp!Finish
  <2>1. out = Sp!Running /\ UNCHANGED <<spooky, written>>  BY <1>2 DEF Sp!Finish
  <2>2. Follows  BY <2>1 DEF SpookyInv, Sp!Running, Sp!Error
  <2> QED  BY <2>1, <2>2 DEF SpookyInv, Follows
<1>3. ASSUME NEW k \in 0 .. MaxWrite, NEW aligned \in BOOLEAN, Sp!Write(k, aligned)
      PROVE  SpookyInv'
  <2> DEFINE input == [i \in 1 .. k |-> Data[written + i]]
  <2>1. /\ out = Sp!Running /\ written + k <= MaxWritten /\ written' = written + k
        /\ Sp!OutBytesSpooky(input, aligned)
    BY <1>3 DEF Sp!Write
  <2>2. k \in Nat /\ written \in Nat /\ MaxWritten \in Nat  BY SpookyConstants DEF SpookyInv
  <2>3. Len(input) = k  BY <2>1, <2>2, InputType
  <2>4. CASE spooky.skipped < spooky.to_skip /\ Sp!Straddles(spooky, Len(input))
    <3>1. out' = Sp!Error /\ spooky' = spooky  BY <2>1, <2>4 DEF Sp!OutBytesSpooky
    <3>2. SpookyHashType(spooky) /\ spooky.length \in Nat  BY SpookyFields DEF SpookyInv
    <3>3. written + k \in 0 .. MaxWritten /\ spooky.length <= written + k
      BY <2>1, <2>2, <3>2 DEF SpookyInv
    <3> QED  BY <2>1, <3>1, <3>3 DEF SpookyInv
  <2>5. CASE spooky.skipped < spooky.to_skip /\ ~Sp!Straddles(spooky, Len(input))
    <3>1. spooky' = Sp!UpdateSkipCounter(spooky, k)
      BY <2>1, <2>3, <2>5 DEF Sp!OutBytesSpooky
    <3>2. spooky.skipped + k <= spooky.to_skip
      <4>1. SpookyHashType(spooky)  BY DEF SpookyInv
      <4>2. spooky.skipped \in Nat /\ spooky.to_skip \in Nat  BY <4>1, SpookyFields
      <4> HIDE DEF input
      <4> QED  BY <4>2, <2>2, <2>3, <2>5 DEF Sp!Straddles
    <3> QED  BY <2>1, <2>2, <2>5, <3>1, <3>2, SpookyInvSkipped
  <2>6. CASE ~(spooky.skipped < spooky.to_skip)
    <3>1. spooky' = Sp!SpookyUpdate(spooky, input, aligned)
      BY <2>1, <2>6 DEF Sp!OutBytesSpooky
    <3> QED  BY <2>1, <2>2, <2>6, <3>1, SpookyInvHashed
  <2> QED  BY <2>4, <2>5, <2>6
<1>4. CASE UNCHANGED Sp!vars  BY <1>4 DEF Sp!vars, SpookyInv, Follows
<1> QED  BY <1>1, <1>2, <1>3, <1>4 DEF Sp!Next

LEMMA SpookyInvAlways == ASSUME Sp!ConstantsFit, SkipsAreNumbers PROVE Sp!Spec => []SpookyInv
<1>1. Sp!Init => SpookyInv
  <2> SUFFICES ASSUME Sp!Init PROVE SpookyInv  OBVIOUS
  <2>1. PICK skip \in Sp!Resolved(arg) : spooky = Sp!SpookyInit(Sp!ToSkip(skip))
    BY DEF Sp!Init
  <2>2. Sp!ToSkip(skip) \in 0 .. Uint8 - 1  BY ResolvedType, SkipType DEF Sp!Init
  <2> QED  BY <2>1, <2>2, SpookyInvStart DEF Sp!Init
<1>2. SpookyInv /\ [Sp!Next]_(Sp!vars) => SpookyInv'  BY SpookyInvNext
<1> QED  BY <1>1, <1>2, PTL DEF Sp!Spec

\* One machine runs from the beginning to the end.
LEMMA SpookyAlone == AnySpec => [](machine # "spookyhash") \/ Sp!Spec
<1>1. AnyInit => machine # "spookyhash" \/ Sp!Init  BY DEF AnyInit
<1>2. machine # "spookyhash" /\ [AnyNext]_allVars => (machine # "spookyhash")'
  BY DEF AnyNext, allVars
<1>3. machine = "spookyhash" /\ [AnyNext]_allVars
         => (machine = "spookyhash")' /\ [Sp!Next]_(Sp!vars)
  BY DEF AnyNext, allVars, spookyVars, Sp!vars
<1>4. AnyInit => machine # "spookyhash" \/ (machine = "spookyhash" /\ Sp!Init)
  BY <1>1
<1> QED  BY <1>2, <1>3, <1>4, PTL DEF AnySpec, Sp!Spec

\* The 8-bit counters hold what they count, although the cast narrows them.
THEOREM SpookyTypeCorrect ==
    ASSUME SkipsAreNumbers
    PROVE  AnySpec => [](machine = "spookyhash" => Sp!TypeOK)
<1>1. SpookyInv => Sp!TypeOK
  <2> SUFFICES ASSUME SpookyInv PROVE Sp!TypeOK  OBVIOUS
  <2>1. SpookyHashType(spooky)  BY DEF SpookyInv
  <2>2. /\ spooky.remainder \in 0 .. Sp!BufSize - 1 /\ spooky.length \in Nat
        /\ spooky.data \in [1 .. Sp!BufSize -> SpookyByte]
    BY <2>1, InstancesFit, SpookyFields
  <2>3. spooky.length \in 0 .. MaxWritten
    BY <2>2, InstancesFit, SpookyConstants DEF SpookyInv
  <2> QED  BY <2>2, <2>3 DEF SpookyInv, Sp!TypeOK
<1>2. Sp!Spec => []SpookyInv  BY InstancesFit, SpookyInvAlways
<1>3. Sp!TypeOK => (machine = "spookyhash" => Sp!TypeOK)  OBVIOUS
<1>4. machine # "spookyhash" => (machine = "spookyhash" => Sp!TypeOK)  OBVIOUS
<1> QED  BY <1>1, <1>2, <1>3, <1>4, SpookyAlone, PTL

-----------------------------------------------------------------------------
(* SpookyHash: what is hashed *)

Written == [i \in 1 .. written |-> Data[i]]

\* What was written behind the skipped bytes is what has been hashed, whether
\* all that is to be skipped has come or not.
LEMMA Rest ==
    ASSUME Sp!ConstantsFit, SpookyInv, Follows,
           NEW m, m = spooky.skipped \/ m = spooky.to_skip
    PROVE  LET r == SubSeq(Written, m + 1, written)
           IN  /\ r \in Seq(SpookyByte) /\ Len(r) = spooky.length
               /\ \A i \in 1 .. spooky.length : r[i] = Data[spooky.skipped + i]
<1> DEFINE skip == spooky.skipped
           len  == spooky.length
           s    == Written
<1>1. /\ skip \in Nat /\ spooky.to_skip \in Nat /\ skip <= spooky.to_skip /\ len \in Nat
      /\ written = skip + len /\ written \in 0 .. MaxWritten /\ MaxWritten \in Nat
      /\ len > 0 => skip = spooky.to_skip
  <2>1. SpookyHashType(spooky)  BY DEF SpookyInv
  <2>2. skip \in 0 .. spooky.to_skip  BY DEF SpookyInv
  <2> QED  BY <2>1, <2>2, SpookyFields, SpookyConstants DEF SpookyInv, Follows
<1>2. s \in Seq(SpookyByte) /\ Len(s) = written /\ \A i \in 1 .. written : s[i] = Data[i]
  <2>1. \A i \in 1 .. written : Data[i] \in SpookyByte  BY <1>1 DEF SpookyByte
  <2> QED  BY <2>1, <1>1 DEF Written
<1> HIDE DEF skip, len, s
<1>3. CASE m = skip
  <2>1. m \in 0 .. Len(s) /\ written \in m .. Len(s) /\ written - m = len
        /\ \A i \in 1 .. len : m + i \in 1 .. written
    BY <1>1, <1>2, <1>3
  <2>2. /\ SubSeq(s, m + 1, written) \in Seq(SpookyByte)
        /\ Len(SubSeq(s, m + 1, written)) = len
        /\ \A i \in 1 .. len : SubSeq(s, m + 1, written)[i] = s[m + i]
    BY <1>2, <2>1, Part
  <2> QED  BY <2>1, <2>2, <1>2, <1>3 DEF s, skip, len
<1>4. CASE m # skip
  <2>1. len = 0 /\ m \in Int /\ m + 1 > written /\ written \in Int /\ m + 1 \in Int
    BY <1>1, <1>4 DEF skip, len
  <2>2. \A i \in m + 1 .. written : s[i] \in SpookyByte  BY <2>1
  <2>3. /\ SubSeq(s, m + 1, written) \in Seq(SpookyByte)
        /\ Len(SubSeq(s, m + 1, written)) = 0
    BY <2>1, <2>2, SubSeqProperties
  <2> QED  BY <2>1, <2>3 DEF s, skip, len
<1> QED  BY <1>3, <1>4

\* What has been mixed, followed by n of the bytes that wait.
LEMMA MixedAndWaiting ==
    ASSUME Sp!ConstantsFit, SpookyInv, Follows, ~(spooky.length < Sp!BufSize),
           NEW n \in 0 .. spooky.remainder
    PROVE  LET all == spooky.state \o SubSeq(spooky.data, 1, n)
           IN  /\ all \in Seq(SpookyByte) /\ Len(all) = Seen(spooky) + n
               /\ \A i \in 1 .. Seen(spooky) + n : all[i] = Data[spooky.skipped + i]
<1> DEFINE state == spooky.state
           data  == spooky.data
           held  == SubSeq(data, 1, n)
           all   == state \o held
           seen  == Seen(spooky)
           skip  == spooky.skipped
<1>1. SpookyHashType(spooky)  BY DEF SpookyInv
<1>2. /\ state \in Seq(SpookyByte) /\ Len(state) = seen /\ seen \in Nat
      /\ data \in Seq(SpookyByte) /\ Len(data) = Sp!BufSize /\ Sp!BufSize \in Nat
      /\ n \in Nat /\ n \in 0 .. Sp!BufSize
  BY <1>1, SpookyFields, SpookyConstants DEF Seen
<1>3. /\ \A i \in 1 .. seen : state[i] = Data[skip + i]
      /\ \A i \in 1 .. n : data[i] = Data[skip + (seen + i)]
  <2>1. \A i \in 1 .. n : i \in 1 .. spooky.remainder  BY <1>1, SpookyFields
  <2> QED  BY <2>1 DEF Follows
<1> HIDE DEF state, data, seen, skip
<1>4. held \in Seq(SpookyByte) /\ Len(held) = n /\ \A i \in 1 .. n : held[i] = data[i]
  BY <1>2, Beginning
<1> HIDE DEF held
<1>5. /\ all \in Seq(SpookyByte) /\ Len(all) = seen + n
      /\ \A i \in 1 .. seen + n : all[i] =
            IF i <= seen THEN state[i] ELSE held[i - seen]
  <2>1. /\ all \in Seq(SpookyByte) /\ Len(all) = Len(state) + Len(held)
        /\ \A i \in 1 .. Len(state) + Len(held) : all[i] =
              IF i <= Len(state) THEN state[i] ELSE held[i - Len(state)]
    BY <1>2, <1>4, ConcatProperties
  <2> QED  BY <2>1, <1>2, <1>4
<1> HIDE DEF all
<1>6. ASSUME NEW i \in 1 .. seen + n PROVE all[i] = Data[skip + i]
  <2>1. CASE i <= seen
    <3>1. i \in 1 .. seen  BY <2>1, <1>2
    <3> QED  BY <3>1, <2>1, <1>3, <1>5
  <2>2. CASE ~ (i <= seen)
    <3>1. i - seen \in 1 .. n /\ seen + (i - seen) = i  BY <2>2, <1>2
    <3>2. all[i] = data[i - seen]  BY <2>2, <3>1, <1>4, <1>5
    <3>3. data[i - seen] = Data[skip + (seen + (i - seen))]  BY <3>1, <1>3
    <3> QED  BY <3>1, <3>2, <3>3
  <2> QED  BY <2>1, <2>2
<1> QED  BY <1>5, <1>6 DEF all, held, state, data, seen, skip

LEMMA ShortBuffer ==
    ASSUME Sp!ConstantsFit, SpookyInv, Follows, spooky.length < Sp!BufSize
    PROVE  LET held == SubSeq(spooky.data, 1, spooky.length)
           IN  /\ held \in Seq(SpookyByte) /\ Len(held) = spooky.length
               /\ \A i \in 1 .. spooky.length : held[i] = Data[spooky.skipped + i]
<1> DEFINE len  == spooky.length
           data == spooky.data
<1>1. SpookyHashType(spooky)  BY DEF SpookyInv
<1>2. /\ data \in Seq(SpookyByte) /\ Len(data) = Sp!BufSize /\ Sp!BufSize \in Nat
      /\ len \in 0 .. Sp!BufSize /\ len \in Nat /\ Seen(spooky) = 0
      /\ spooky.remainder = len
  BY <1>1, SpookyFields, SpookyConstants DEF Seen
<1>3. \A i \in 1 .. len : 0 + i = i /\ data[i] = Data[spooky.skipped + (0 + i)]
  BY <1>2 DEF Follows
<1> HIDE DEF len, data
<1>4. /\ SubSeq(data, 1, len) \in Seq(SpookyByte) /\ Len(SubSeq(data, 1, len)) = len
      /\ \A i \in 1 .. len : SubSeq(data, 1, len)[i] = data[i]
  BY <1>2, Beginning
<1> QED  BY <1>3, <1>4 DEF len, data

LEMMA LosslessNow == Sp!ConstantsFit /\ SpookyInv => Sp!Lossless
<1> SUFFICES ASSUME Sp!ConstantsFit, SpookyInv, out # Sp!Error
             PROVE  /\ spooky.length = written - spooky.skipped
                    /\ spooky.length > 0 => spooky.skipped = spooky.to_skip
                    /\ IF spooky.length < Sp!BufSize
                       THEN SubSeq(spooky.data, 1, spooky.length) = Sp!Hashed
                       ELSE spooky.state \o SubSeq(spooky.data, 1, spooky.remainder) = Sp!Hashed
  BY DEF Sp!Lossless
<1>1. Follows /\ SpookyHashType(spooky)  BY DEF SpookyInv
<1>2. spooky.length \in Nat /\ spooky.skipped \in Nat /\ written = spooky.skipped + spooky.length
      /\ Seen(spooky) + spooky.remainder = spooky.length
      /\ spooky.remainder \in 0 .. spooky.remainder
  BY <1>1, SpookyFields DEF Follows
<1>3. /\ Sp!Hashed \in Seq(SpookyByte) /\ Len(Sp!Hashed) = spooky.length
      /\ \A i \in 1 .. spooky.length : Sp!Hashed[i] = Data[spooky.skipped + i]
  BY <1>1, Rest DEF Sp!Hashed, Written
<1>l. /\ spooky.length = written - spooky.skipped
      /\ spooky.length > 0 => spooky.skipped = spooky.to_skip
  BY <1>1, <1>2 DEF Follows
<1>4. CASE spooky.length < Sp!BufSize
  <2> DEFINE held == SubSeq(spooky.data, 1, spooky.length)
  <2>1. /\ held \in Seq(SpookyByte) /\ Len(held) = spooky.length
        /\ \A i \in 1 .. spooky.length : held[i] = Data[spooky.skipped + i]
    BY <1>1, <1>4, ShortBuffer
  <2> HIDE DEF held
  <2>2. held = Sp!Hashed  BY <2>1, <1>3, SeqEqual
  <2> QED  BY <2>2, <1>l, <1>4 DEF held
<1>5. CASE ~ (spooky.length < Sp!BufSize)
  <2> DEFINE all == spooky.state \o SubSeq(spooky.data, 1, spooky.remainder)
  <2>1. /\ all \in Seq(SpookyByte) /\ Len(all) = spooky.length
        /\ \A i \in 1 .. spooky.length : all[i] = Data[spooky.skipped + i]
    BY <1>1, <1>2, <1>5, MixedAndWaiting
  <2> HIDE DEF all
  <2>2. all = Sp!Hashed  BY <2>1, <1>3, SeqEqual
  <2> QED  BY <2>2, <1>l, <1>5 DEF all
<1> QED  BY <1>4, <1>5

\* Until an error, no byte of the serialization is lost, repeated or moved.
THEOREM SpookyNoByteLost == ASSUME SkipsAreNumbers PROVE AnySpec => []SpookyLossless
<1>1. SpookyInv => SpookyLossless  BY InstancesFit, LosslessNow DEF SpookyLossless
<1>2. Sp!Spec => []SpookyInv  BY InstancesFit, SpookyInvAlways
<1>3. machine # "spookyhash" => SpookyLossless  BY DEF SpookyLossless
<1> QED  BY <1>1, <1>2, <1>3, SpookyAlone, PTL

-----------------------------------------------------------------------------
(* SpookyHash: the digest *)

\* The numbers among the skip arguments are those the manual explains as they
\* are, and that fit in the counter.
SkipsFit == Skips \subseteq (0 .. Uint8 - 1) \cup {AUTO}

SkipIsDocumented ==
    arg \in Sp!Args /\ (~Sp!Misplaced(arg) => spooky.to_skip = Sp!Documented(arg))

\* The counter holds the header's length, which skip = "auto" stands for.
LEMMA AutoStart ==
    ASSUME Sp!ConstantsFit, NEW a \in Sp!Args, a.skip = AUTO, ~Sp!Misplaced(a),
           NEW skip \in Sp!Resolved(a)
    PROVE  Sp!ToSkip(skip) = HeaderLength
<1>1. /\ Uint8 \in Nat \ {0} /\ HeaderLength \in 0 .. Uint8 - 1  BY SpookyConstants
<1>2. skip = HeaderLength  BY DEF Sp!Resolved, Sp!set_skip, Sp!Misplaced
<1>3. HeaderLength % Uint8 = HeaderLength  BY <1>1, ModSmall
<1> QED  BY <1>2, <1>3 DEF Sp!ToSkip

\* A write leaves the number of bytes to skip alone.
LEMMA ToSkipStays ==
    ASSUME SpookyHashType(spooky), NEW k, NEW aligned, Sp!Write(k, aligned)
    PROVE  spooky'.to_skip = spooky.to_skip
<1>1. \/ spooky' = spooky
      \/ \E n : spooky' = Sp!UpdateSkipCounter(spooky, n)
      \/ \E input : spooky' = Sp!SpookyUpdate(spooky, input, aligned)
  BY DEF Sp!Write, Sp!OutBytesSpooky
<1>2. \A n : Sp!UpdateSkipCounter(spooky, n).to_skip = spooky.to_skip
  BY DEF Sp!UpdateSkipCounter, SpookyHashType
<1>3. \A input : Sp!SpookyUpdate(spooky, input, aligned).to_skip = spooky.to_skip
  BY DEF Sp!SpookyUpdate, SpookyHashType
<1> QED  BY <1>1, <1>2, <1>3

LEMMA SkipStart ==
    ASSUME Sp!ConstantsFit, SkipsFit, NEW a \in Sp!Args, NEW skip \in Sp!Resolved(a)
    PROVE  ~Sp!Misplaced(a) => Sp!ToSkip(skip) = Sp!Documented(a)
<1> SUFFICES ASSUME ~Sp!Misplaced(a) PROVE Sp!ToSkip(skip) = Sp!Documented(a)  OBVIOUS
<1>b. Uint8 \in Nat \ {0}  BY SpookyConstants
<1>1. a.skip \in 0 .. Uint8 - 1 \/ a.skip = AUTO  BY DEF Sp!Args, SkipsFit
<1>2. CASE a.skip = AUTO
  BY <1>2, AutoStart DEF Sp!Documented
<1>3. CASE a.skip # AUTO
  <2>1. skip = a.skip /\ skip \in 0 .. Uint8 - 1  BY <1>1, <1>3 DEF Sp!Resolved
  <2>2. skip % Uint8 = skip  BY <1>b, <2>1, ModSmall
  <2>3. ~ (a.skip < 0)  BY <1>b, <2>1
  <2> QED  BY <1>3, <2>1, <2>2, <2>3 DEF Sp!ToSkip, Sp!Documented
<1> QED  BY <1>2, <1>3

LEMMA SkipNext ==
    ASSUME Sp!ConstantsFit, SkipsFit, SpookyInv, SkipIsDocumented, [Sp!Next]_(Sp!vars)
    PROVE  SkipIsDocumented'
<1>1. CASE Sp!Call
  <2>1. PICK a \in Sp!Args : Sp!Starts(a)  BY <1>1 DEF Sp!Call
  <2>2. PICK skip \in Sp!Resolved(a) : spooky' = Sp!SpookyInit(Sp!ToSkip(skip))
    BY <2>1 DEF Sp!Starts
  <2>3. arg' = a /\ spooky'.to_skip = Sp!ToSkip(skip)
    BY <2>1, <2>2 DEF Sp!Starts, Sp!SpookyInit
  <2>4. ~Sp!Misplaced(a) => Sp!ToSkip(skip) = Sp!Documented(a)  BY <2>2, SkipStart
  <2> QED  BY <2>3, <2>4 DEF SkipIsDocumented, Sp!Misplaced, Sp!Documented
<1>2. ASSUME arg' = arg, spooky'.to_skip = spooky.to_skip PROVE SkipIsDocumented'
  BY <1>2 DEF SkipIsDocumented, Sp!Misplaced, Sp!Documented
<1>3. CASE Sp!Finish \/ UNCHANGED Sp!vars  BY <1>2, <1>3 DEF Sp!Finish, Sp!vars
<1>4. ASSUME NEW k \in 0 .. MaxWrite, NEW aligned \in BOOLEAN, Sp!Write(k, aligned)
      PROVE  SkipIsDocumented'
  <2>1. SpookyHashType(spooky) /\ arg' = arg  BY <1>4 DEF SpookyInv, Sp!Write
  <2>3. spooky'.to_skip = spooky.to_skip  BY <1>4, <2>1, ToSkipStays
  <2> QED  BY <1>2, <2>1, <2>3
<1> QED  BY <1>1, <1>3, <1>4 DEF Sp!Next

\* What Final makes of a message that filled two blocks.
LEMMA FinalLong ==
    ASSUME Sp!ConstantsFit, SpookyInv, Follows, ~(spooky.length < Sp!BufSize),
           NEW msg \in Seq(SpookyByte), Len(msg) = spooky.length,
           \A i \in 1 .. spooky.length : msg[i] = Data[spooky.skipped + i]
    PROVE  Sp!SpookyFinal(spooky) = Sp!SpookyHash(msg)
<1> DEFINE len  == spooky.length
           left == spooky.remainder
           seen == Seen(spooky)
           skip == spooky.skipped
           from == IF Sp!BlockWaits(left) THEN BlockSize ELSE 0
           n    == left - from
           all  == spooky.state \o SubSeq(spooky.data, 1, from)
           front == SubSeq(msg, 1, len - n)
<1>b. /\ BlockSize \in Nat \ {0} /\ Sp!BufSize = BlockSize + BlockSize /\ Sp!BufSize \in Nat
  BY SpookyConstants
<1>1. /\ len \in Nat /\ left \in Nat /\ seen \in Nat /\ skip \in Nat
      /\ left \in 0 .. Sp!BufSize - 1 /\ seen + left = len
  <2>1. SpookyHashType(spooky)  BY DEF SpookyInv
  <2> QED  BY <2>1, SpookyFields
<1>m. seen % BlockSize = 0
  <2>1. SpookyHashType(spooky)  BY DEF SpookyInv
  <2> QED  BY <2>1, SpookyFields
<1> HIDE DEF len, left, seen, skip
<1>2. /\ from \in 0 .. left /\ from \in Nat /\ n \in 0 .. BlockSize - 1 /\ n \in Nat
      /\ from = 0 \/ from = BlockSize
  BY <1>1, <1>b DEF Sp!BlockWaits
<1>3. len % BlockSize = n
  <2> DEFINE x == seen + n
  <2>1. seen \in Int /\ n \in Int /\ x \in Int /\ 1 \in Int  BY <1>1, <1>2
  <2>2. len = x \/ len = x + 1 * BlockSize
    <3> HIDE DEF from
    <3> QED  BY <1>1, <1>2, <1>b
  <2>3. x % BlockSize = n
    <3> HIDE DEF n
    <3>1. (seen + n) % BlockSize = ((seen % BlockSize) + n) % BlockSize
      BY <2>1, <1>b, ModSum
    <3>2. (seen % BlockSize) + n = n  BY <2>1, <1>m
    <3>3. n % BlockSize = n  BY <1>2, <1>b, ModSmall
    <3> QED  BY <3>1, <3>2, <3>3
  <2>4. (x + 1 * BlockSize) % BlockSize = x % BlockSize
    <3> HIDE DEF x
    <3> QED  BY <2>1, <1>b, ModAddMultiple
  <2> HIDE DEF x, n
  <2> QED  BY <2>2, <2>3, <2>4
<1>4. seen + from = len - n /\ len - n \in 0 .. len /\ len - n \in Nat
  <2> HIDE DEF from
  <2> QED  BY <1>1, <1>2
<1>5. /\ all \in Seq(SpookyByte) /\ Len(all) = seen + from
      /\ \A i \in 1 .. seen + from : all[i] = Data[skip + i]
  <2>1. from \in 0 .. spooky.remainder  BY <1>2 DEF left
  <2> HIDE DEF from
  <2> QED  BY <2>1, MixedAndWaiting DEF seen, skip
<1>6. /\ front \in Seq(SpookyByte) /\ Len(front) = len - n
      /\ \A i \in 1 .. len - n : front[i] = Data[skip + i]
  <2>1. len - n \in 0 .. Len(msg)  BY <1>4 DEF len
  <2> HIDE DEF n
  <2>2. /\ front \in Seq(SpookyByte) /\ Len(front) = len - n
        /\ \A i \in 1 .. len - n : front[i] = msg[i]
    BY <2>1, Beginning
  <2>3. \A i \in 1 .. len - n : msg[i] = Data[skip + i]
    <3>1. \A i \in 1 .. len - n : i \in 1 .. len  BY <1>1, <1>4
    <3> QED  BY <3>1 DEF len, skip
  <2> HIDE DEF front
  <2> QED  BY <2>2, <2>3
<1>7. all = front
  <2> HIDE DEF all, front, n, from
  <2> QED  BY <1>4, <1>5, <1>6, SeqEqual
<1>8. ASSUME NEW i \in 1 .. BlockSize, i <= n
      PROVE  spooky.data[from + i] = msg[len - n + i]
  <2>1. /\ from + i \in 1 .. left /\ seen + (from + i) = len - n + i
        /\ len - n + i \in 1 .. len
    <3> HIDE DEF from
    <3> QED  BY <1>1, <1>2, <1>4, <1>8, <1>b
  <2> HIDE DEF from, n
  <2>2. spooky.data[from + i] = Data[skip + (seen + (from + i))]
    BY <2>1 DEF Follows, left, seen, skip
  <2>3. msg[len - n + i] = Data[skip + (len - n + i)]  BY <2>1 DEF len, skip
  <2> QED  BY <2>1, <2>2, <2>3
<1> DEFINE blockF == [i \in 1 .. BlockSize |->
                         IF i = BlockSize THEN Sp!LastByte(n)
                         ELSE IF i <= n THEN spooky.data[from + i] ELSE Sp!ZeroByte]
           blockM == [i \in 1 .. BlockSize |->
                         IF i = BlockSize THEN Sp!LastByte(n)
                         ELSE IF i <= n THEN msg[len - n + i] ELSE Sp!ZeroByte]
<1>9. blockF = blockM
  <2> HIDE DEF from, n
  <2> QED  BY <1>8
<1>10. Sp!SpookyFinal(spooky) = <<"long", all, blockF>>
  BY DEF Sp!SpookyFinal, len, left
<1>11. Sp!SpookyHash(msg) = <<"long", front, blockM>>
  <2> HIDE DEF n
  <2> QED  BY <1>3 DEF Sp!SpookyHash, len
<1> QED  BY <1>7, <1>9, <1>10, <1>11

\* The hash of what was written behind the skipped bytes.
LEMMA FinalOfRest ==
    ASSUME Sp!ConstantsFit, SpookyInv, Follows, NEW m, m = spooky.to_skip
    PROVE  Sp!SpookyFinal(spooky) = Sp!SpookyHash(SubSeq(Written, m + 1, written))
<1> DEFINE msg == SubSeq(Written, m + 1, written)
<1>1. /\ msg \in Seq(SpookyByte) /\ Len(msg) = spooky.length
      /\ \A i \in 1 .. spooky.length : msg[i] = Data[spooky.skipped + i]
  BY Rest
<1> HIDE DEF msg
<1>2. CASE spooky.length < Sp!BufSize
  <2> DEFINE held == SubSeq(spooky.data, 1, spooky.length)
  <2>1. /\ held \in Seq(SpookyByte) /\ Len(held) = spooky.length
        /\ \A i \in 1 .. spooky.length : held[i] = Data[spooky.skipped + i]
    BY <1>2, ShortBuffer
  <2> HIDE DEF held
  <2>2. held = msg  BY <2>1, <1>1, SeqEqual
  <2>3. Sp!SpookyFinal(spooky) = <<"short", held>>  BY <1>2 DEF Sp!SpookyFinal, held
  <2>4. Sp!SpookyHash(msg) = <<"short", msg>>  BY <1>1, <1>2 DEF Sp!SpookyHash
  <2> QED  BY <2>2, <2>3, <2>4 DEF msg
<1>3. CASE ~ (spooky.length < Sp!BufSize)
  <2>1. Sp!SpookyFinal(spooky) = Sp!SpookyHash(msg)  BY <1>1, <1>3, FinalLong
  <2> QED  BY <2>1 DEF msg
<1> QED  BY <1>2, <1>3

LEMMA SpookyDigestNext ==
    ASSUME Sp!ConstantsFit, SkipsFit, SpookyInv, SkipIsDocumented, Sp!DigestOfRest, [Sp!Next]_(Sp!vars)
    PROVE  Sp!DigestOfRest'
<1>1. CASE Sp!Call
  <2>1. out' = Sp!Running  BY <1>1 DEF Sp!Call, Sp!Starts
  <2> QED  BY <2>1 DEF Sp!DigestOfRest
<1>2. CASE Sp!Finish
  <2>1. /\ out = Sp!Running /\ out' = Sp!SpookyFinal(spooky) /\ arg' = arg /\ written' = written
    BY <1>2 DEF Sp!Finish
  <2> SUFFICES ASSUME ~Sp!Misplaced(arg)
               PROVE  out' = Sp!SpookyHash(SubSeq(Written, Sp!Documented(arg) + 1, written))
    BY <2>1 DEF Sp!DigestOfRest, Sp!Misplaced, Sp!Documented, Sp!SpookyHash, Written,
                    Sp!LastByte, Sp!ZeroByte
  <2>2. Follows  BY <2>1 DEF SpookyInv, Sp!Running, Sp!Error
  <2>3. spooky.to_skip = Sp!Documented(arg)  BY DEF SkipIsDocumented
  <2> QED  BY <2>1, <2>2, <2>3, FinalOfRest
<1>3. ASSUME NEW k \in 0 .. MaxWrite, NEW aligned \in BOOLEAN, Sp!Write(k, aligned)
      PROVE  Sp!DigestOfRest'
  <2>1. out' = Sp!Running \/ out' = Sp!Error  BY <1>3 DEF Sp!Write, Sp!OutBytesSpooky
  <2> QED  BY <2>1 DEF Sp!DigestOfRest
<1>4. CASE UNCHANGED Sp!vars
  BY <1>4 DEF Sp!vars, Sp!DigestOfRest, Sp!Misplaced, Sp!Documented,
              Sp!SpookyHash, Sp!LastByte, Sp!ZeroByte
<1> QED  BY <1>1, <1>2, <1>3, <1>4 DEF Sp!Next

\* Whatever pieces R_Serialize writes and wherever they lie in memory, the
\* digest is SpookyHash of the serialization without the bytes to skip, if
\* the skip is a number from 0 to what the counter holds, or "auto".
THEOREM DigestIsOfRest == ASSUME SkipsFit PROVE AnySpec => []DigestOfRest
<1>a. Sp!ConstantsFit  BY InstancesFit
<1>0. SkipsAreNumbers  BY <1>a, SpookyConstants DEF SkipsFit, SkipsAreNumbers
<1>1. Sp!Init => SkipIsDocumented /\ Sp!DigestOfRest
  <2> SUFFICES ASSUME Sp!Init PROVE SkipIsDocumented /\ Sp!DigestOfRest  OBVIOUS
  <2>1. PICK skip \in Sp!Resolved(arg) : spooky = Sp!SpookyInit(Sp!ToSkip(skip))
    BY DEF Sp!Init
  <2>2. arg \in Sp!Args /\ out = Sp!Running  BY DEF Sp!Init
  <2>3. spooky.to_skip = Sp!ToSkip(skip)  BY <2>1 DEF Sp!SpookyInit
  <2> QED  BY <1>a, <2>1, <2>2, <2>3, SkipStart DEF SkipIsDocumented, Sp!DigestOfRest
<1>2. SpookyInv /\ SkipIsDocumented /\ Sp!DigestOfRest /\ [Sp!Next]_(Sp!vars)
          => SkipIsDocumented' /\ Sp!DigestOfRest'
  BY <1>a, SkipNext, SpookyDigestNext
<1>3. Sp!Spec => []SpookyInv  BY <1>a, <1>0, SpookyInvAlways
<1>4. Sp!DigestOfRest => DigestOfRest  BY DEF DigestOfRest
<1>5. machine # "spookyhash" => DigestOfRest  BY DEF DigestOfRest
<1> QED  BY <1>1, <1>2, <1>3, <1>4, <1>5, SpookyAlone, PTL DEF Sp!Spec

-----------------------------------------------------------------------------
(* SpookyHash: skip = "auto" *)

\* Until the header is written, what was written ends where a piece does;
\* afterwards it is at least the header.
AtPiece ==
    LET pieces == HeaderWrites[arg.version]
    IN  \E j \in 0 .. Len(pieces) :
          /\ header = SubSeq(pieces, j + 1, Len(pieces))
          /\ \/ written = Sp!Ends(pieces)[j]
             \/ j = Len(pieces) /\ written >= Sp!Ends(pieces)[j]

AutoSkips == arg.skip = AUTO /\ ~Sp!Misplaced(arg) => spooky.to_skip = HeaderLength

HeaderInv ==
    /\ arg \in Sp!Args /\ AutoSkips
    /\ out = Sp!Running => AtPiece
    /\ Sp!AutoNeverFails

\* The ends of the pieces of a header are numbers that grow.
LEMMA EndsOfPieces ==
    ASSUME NEW pieces \in Seq(Nat)
    PROVE  /\ Sp!Ends(pieces)[0] = 0
           /\ \A i \in 0 .. Len(pieces) : Sp!Ends(pieces)[i] \in Nat
           /\ \A i \in 1 .. Len(pieces) :
                 Sp!Ends(pieces)[i] = Sp!Ends(pieces)[i - 1] + pieces[i]
           /\ \A i \in 0 .. Len(pieces) : \A j \in i .. Len(pieces) :
                 Sp!Ends(pieces)[i] <= Sp!Ends(pieces)[j]
<1> DEFINE n == Len(pieces)
           end[i \in 0 .. Len(pieces)] == IF i = 0 THEN 0 ELSE end[i - 1] + pieces[i]
           T == [i \in 0 .. n |-> Nat]
           step == [i \in 0 + 1 .. n |-> [x \in Nat |-> x + pieces[i]]]
<1>1. Sp!Ends(pieces) = end  BY Zenon DEF Sp!Ends
<1>2. n \in Nat /\ \A i \in 1 .. n : pieces[i] \in Nat  OBVIOUS
<1>3. PICK g : Iterates(g, 0, n, Nat, T, 0, step)
  <2> HIDE DEF end
  <2>1. 0 \in Int /\ n \in Int /\ (0 <= n => 0 \in T[0])  BY <1>2
  <2>2. \A i \in 0 .. n : T[i] \subseteq Nat  OBVIOUS
  <2>3. \A i \in 0 + 1 .. n : step[i] \in [T[i - 1] -> T[i]]
    <3>1. \A i \in 0 + 1 .. n : T[i - 1] = Nat /\ T[i] = Nat  OBVIOUS
    <3>2. \A i \in 0 + 1 .. n : step[i] \in [Nat -> Nat]  BY <1>2
    <3> HIDE DEF T, step
    <3> QED  BY <3>1, <3>2
  <2> HIDE DEF T, step, n
  <2>4. Steps(0, n, Nat, T, 0, step)  BY <2>1, <2>2, <2>3 DEF Steps
  <2> QED  BY <2>4, StepFunction
<1>4. \A i \in 0 .. n : g[i] = IF i = 0 THEN 0 ELSE g[i - 1] + pieces[i]
  <2>1. g \in [0 .. n -> Nat]  BY <1>3 DEF Iterates
  <2>2. \A i \in 0 .. n : g[i] = IF i = 0 THEN 0 ELSE step[i][g[i - 1]]
    BY <1>3 DEF Iterates
  <2> HIDE DEF end, n
  <2>3. \A i \in 0 .. n : i # 0 => i \in 0 + 1 .. n /\ g[i - 1] \in Nat  BY <1>2, <2>1
  <2>4. \A i \in 0 .. n : i # 0 => step[i][g[i - 1]] = g[i - 1] + pieces[i]  BY <2>3
  <2> HIDE DEF step
  <2> QED  BY <2>2, <2>4
<1>5. g = [i \in 0 .. Len(pieces) |-> IF i = 0 THEN 0 ELSE g[i - 1] + pieces[i]]
  BY <1>3, <1>4 DEF Iterates
<1>6. end = [i \in 0 .. Len(pieces) |-> IF i = 0 THEN 0 ELSE end[i - 1] + pieces[i]]
  BY <1>5
<1> HIDE DEF end, n
<1>7. end[0] = 0 /\ \A i \in 1 .. n : end[i] = end[i - 1] + pieces[i]
  <2>1. 0 \in 0 .. n /\ \A i \in 1 .. n : i \in 0 .. n /\ i # 0  BY <1>2
  <2> QED  BY <1>6, <2>1 DEF n
<1>8. \A i \in 0 .. n : end[i] \in Nat
  <2> DEFINE S == {i \in Int : end[i] \in Nat}
  <2>1. 0 \in S  BY <1>7
  <2>2. ASSUME NEW i \in 0 .. n - 1, i \in S  PROVE i + 1 \in S
    <3>1. i + 1 \in 1 .. n /\ (i + 1) - 1 = i  BY <1>2
    <3>2. end[i + 1] = end[i] + pieces[i + 1]  BY <1>7, <3>1
    <3> QED  BY <1>2, <2>2, <3>1, <3>2
  <2> HIDE DEF S
  <2>3. 0 \in Int /\ n \in Int  BY <1>2
  <2>4. \A i \in 0 .. n : i \in S  BY <2>1, <2>2, <2>3, IntervalInduction
  <2> QED  BY <2>4 DEF S
<1>9. ASSUME NEW i \in 0 .. n  PROVE \A j \in i .. n : end[i] <= end[j]
  <2> DEFINE S == {j \in Int : end[i] <= end[j]}
  <2>1. i \in S  BY <1>8
  <2>2. ASSUME NEW j \in i .. n - 1, j \in S  PROVE j + 1 \in S
    <3>1. j + 1 \in 1 .. n /\ (j + 1) - 1 = j /\ j \in 0 .. n  BY <1>2
    <3>2. end[j + 1] = end[j] + pieces[j + 1]  BY <1>7, <3>1
    <3>3. pieces[j + 1] \in Nat /\ end[j] \in Nat /\ end[i] \in Nat  BY <1>2, <1>8, <3>1
    <3> QED  BY <2>2, <3>2, <3>3
  <2> HIDE DEF S
  <2>3. i \in Int /\ n \in Int  BY <1>2
  <2>4. \A j \in i .. n : j \in S  BY <2>1, <2>2, <2>3, IntervalInduction
  <2> QED  BY <2>4 DEF S
<1> QED  BY <1>1, <1>7, <1>8, <1>9 DEF n

\* The rest of a header from a piece on is that piece and the rest behind it.
LEMMA RestOfHeader ==
    ASSUME NEW pieces \in Seq(Nat), NEW j \in 0 .. Len(pieces),
           NEW rest, rest = SubSeq(pieces, j + 1, Len(pieces))
    PROVE  /\ rest \in Seq(Nat)
           /\ j = Len(pieces) => rest = <<>>
           /\ j # Len(pieces) =>
                 /\ rest # <<>> /\ rest[1] = pieces[j + 1] /\ j + 1 \in 1 .. Len(pieces)
                 /\ Tail(rest) = SubSeq(pieces, (j + 1) + 1, Len(pieces))
<1> DEFINE n == Len(pieces)
<1>1. n \in Nat /\ j \in Nat /\ j <= n /\ j + 1 \in Int  OBVIOUS
<1>2. \A i \in 1 .. n : pieces[i] \in Nat  OBVIOUS
<1>3. \A m \in 0 .. n :
         /\ SubSeq(pieces, m + 1, n) \in Seq(Nat)
         /\ Len(SubSeq(pieces, m + 1, n)) = n - m
         /\ \A i \in 1 .. n - m : SubSeq(pieces, m + 1, n)[i] = pieces[m + i]
  <2> TAKE m \in 0 .. n
  <2>1. /\ m + 1 \in Int /\ n \in Int /\ \A i \in m + 1 .. n : pieces[i] \in Nat
        /\ (IF m + 1 <= n THEN n - (m + 1) + 1 ELSE 0) = n - m
        /\ n - (m + 1) + 1 = n - m /\ \A i \in 1 .. n - m : (m + 1) + i - 1 = m + i
    BY <1>1, <1>2
  <2> HIDE DEF n
  <2>2. /\ SubSeq(pieces, m + 1, n) \in Seq(Nat)
        /\ Len(SubSeq(pieces, m + 1, n)) = IF m + 1 <= n THEN n - (m + 1) + 1 ELSE 0
        /\ \A i \in 1 .. n - (m + 1) + 1 :
              SubSeq(pieces, m + 1, n)[i] = pieces[(m + 1) + i - 1]
    BY <2>1, SubSeqProperties
  <2> QED  BY <2>1, <2>2
<1>4. /\ rest \in Seq(Nat) /\ Len(rest) = n - j
      /\ \A i \in 1 .. n - j : rest[i] = pieces[j + i]
  <2> HIDE DEF n
  <2>1. j \in 0 .. n  BY <1>1
  <2> QED  BY <1>3, <2>1 DEF n
<1>5. j = n => rest = <<>>
  <2> HIDE DEF n
  <2> QED  BY <1>1, <1>4
<1>6. ASSUME j # n
      PROVE  /\ rest # <<>> /\ rest[1] = pieces[j + 1] /\ j + 1 \in 1 .. n
             /\ Tail(rest) = SubSeq(pieces, (j + 1) + 1, n)
  <2> DEFINE after == SubSeq(pieces, (j + 1) + 1, n)
  <2> HIDE DEF n
  <2>1. /\ j + 1 \in 0 .. n /\ j + 1 \in 1 .. n /\ 1 \in 1 .. n - j
        /\ n - (j + 1) = n - j - 1 /\ n - j \in Nat /\ n - j # 0
    BY <1>1, <1>6
  <2>2. /\ after \in Seq(Nat) /\ Len(after) = n - (j + 1)
        /\ \A i \in 1 .. n - (j + 1) : after[i] = pieces[(j + 1) + i]
    BY <1>3, <2>1
  <2>3. rest # <<>>  BY <1>4, <2>1, EmptySeq
  <2>4. /\ Tail(rest) \in Seq(Nat) /\ Len(Tail(rest)) = Len(rest) - 1
        /\ \A i \in 1 .. Len(Tail(rest)) : Tail(rest)[i] = rest[i + 1]
    <3> HIDE DEF after
    <3> QED  BY <1>4, <2>3, HeadTailProperties
  <2>5. \A i \in 1 .. n - (j + 1) : i + 1 \in 1 .. n - j /\ j + (i + 1) = (j + 1) + i
    BY <1>1
  <2> HIDE DEF after
  <2>6. Tail(rest) = after
    <3>1. Len(Tail(rest)) = n - (j + 1)  BY <1>4, <2>1, <2>4
    <3>2. \A i \in 1 .. n - (j + 1) : Tail(rest)[i] = after[i]
      BY <1>4, <2>2, <2>4, <2>5, <3>1
    <3> QED  BY <2>2, <2>4, <3>1, <3>2, SeqEqual
  <2> QED  BY <1>4, <2>1, <2>3, <2>6 DEF after
<1> QED  BY <1>4, <1>5, <1>6

LEMMA HeaderType ==
    ASSUME arg \in Sp!Args
    PROVE  /\ HeaderWrites[arg.version] \in Seq(Nat)
           /\ \E i \in 0 .. Len(HeaderWrites[arg.version]) :
                 Sp!Ends(HeaderWrites[arg.version])[i] = HeaderLength
BY HeadersAreR DEF Sp!HeadersFit, Sp!Args

\* A call begins with nothing written and the whole header to come.
LEMMA HeaderStart ==
    ASSUME arg \in Sp!Args, header = HeaderWrites[arg.version], written = 0
    PROVE  AtPiece
<1> DEFINE pieces == HeaderWrites[arg.version]
<1>1. pieces \in Seq(Nat)  BY HeaderType
<1> HIDE DEF pieces
<1>2. Sp!Ends(pieces)[0] = 0 /\ 0 \in 0 .. Len(pieces)  BY <1>1, EndsOfPieces
<1>3. pieces = SubSeq(pieces, 0 + 1, Len(pieces))  BY <1>1
<1> QED  BY <1>2, <1>3 DEF AtPiece, pieces

\* While the header is being skipped no write goes beyond its end.
LEMMA NoneStraddles ==
    ASSUME SpookyInv, HeaderInv, out = Sp!Running, arg.skip = AUTO, ~Sp!Misplaced(arg),
           NEW k \in Nat, header # <<>> => k = header[1],
           spooky.skipped < spooky.to_skip
    PROVE  ~ (spooky.skipped + k > spooky.to_skip)
<1> DEFINE pieces == HeaderWrites[arg.version]
           end == Sp!Ends(pieces)
<1>1. /\ pieces \in Seq(Nat)
      /\ \E i \in 0 .. Len(pieces) : end[i] = HeaderLength
  BY HeaderType DEF HeaderInv
<1>2. PICK m \in 0 .. Len(pieces) : end[m] = HeaderLength  BY <1>1
<1>3. PICK j \in 0 .. Len(pieces) :
         /\ header = SubSeq(pieces, j + 1, Len(pieces))
         /\ written = end[j] \/ (j = Len(pieces) /\ written >= end[j])
  BY DEF HeaderInv, AtPiece
<1> HIDE DEF pieces
<1>4. /\ \A i \in 0 .. Len(pieces) : end[i] \in Nat
      /\ \A i \in 1 .. Len(pieces) : end[i] = end[i - 1] + pieces[i]
      /\ \A a \in 0 .. Len(pieces) : \A b \in a .. Len(pieces) : end[a] <= end[b]
  BY <1>1, EndsOfPieces
<1> HIDE DEF end
<1>5. spooky.to_skip = HeaderLength  BY DEF HeaderInv, AutoSkips
<1>6. /\ spooky.skipped \in Nat /\ spooky.length \in Nat /\ spooky.to_skip \in Nat
      /\ written = spooky.skipped + spooky.length
      /\ spooky.length > 0 => spooky.skipped = spooky.to_skip
  <2>1. SpookyHashType(spooky) /\ Follows  BY DEF SpookyInv, Sp!Running, Sp!Error
  <2> QED  BY <2>1, InstancesFit, SpookyFields DEF Follows
<1>7. written = spooky.skipped  BY <1>6
<1>8. Len(pieces) \in Nat /\ end[j] \in Nat /\ end[m] \in Nat  BY <1>1, <1>4
<1>9. end[j] < end[m]  BY <1>2, <1>3, <1>5, <1>6, <1>7, <1>8
<1>10. j < m
  <2> SUFFICES ASSUME j >= m PROVE FALSE  BY <1>8
  <2>1. j \in m .. Len(pieces)  BY <1>8
  <2>2. end[m] <= end[j]  BY <1>4, <2>1
  <2> QED  BY <1>8, <1>9, <2>2
<1>11. j # Len(pieces) /\ j + 1 \in 0 .. Len(pieces) /\ m \in j + 1 .. Len(pieces)
       /\ j + 1 \in 1 .. Len(pieces) /\ (j + 1) - 1 = j
  BY <1>8, <1>10
<1>12. header # <<>> /\ header[1] = pieces[j + 1]  BY <1>1, <1>3, <1>11, RestOfHeader
<1>13. end[j + 1] = written + k
  <2>1. written = end[j]  BY <1>3, <1>11
  <2>2. end[j + 1] = end[(j + 1) - 1] + pieces[j + 1]  BY <1>4, <1>11
  <2> QED  BY <2>1, <2>2, <1>11, <1>12
<1>14. end[j + 1] <= end[m]  BY <1>4, <1>11
<1> QED  BY <1>2, <1>5, <1>6, <1>7, <1>8, <1>13, <1>14

\* A write leaves the header at the end of a piece.
LEMMA PieceWritten ==
    ASSUME SpookyInv, HeaderInv, out = Sp!Running,
           NEW k \in Nat, header # <<>> => k = header[1],
           header' = IF header # <<>> THEN Tail(header) ELSE header,
           written' = written + k, arg' = arg
    PROVE  AtPiece'
<1> DEFINE pieces == HeaderWrites[arg.version]
           end == Sp!Ends(pieces)
           Here(j, h, w) == /\ h = SubSeq(pieces, j + 1, Len(pieces))
                            /\ w = end[j] \/ (j = Len(pieces) /\ w >= end[j])
<1>1. pieces \in Seq(Nat)  BY HeaderType DEF HeaderInv
<1>2. PICK j \in 0 .. Len(pieces) : Here(j, header, written)  BY DEF HeaderInv, AtPiece
<1>3. AtPiece' <=> \E i \in 0 .. Len(pieces) : Here(i, header', written')
  BY DEF AtPiece, Sp!Ends
<1> HIDE DEF pieces
<1>4. /\ \A i \in 0 .. Len(pieces) : end[i] \in Nat
      /\ \A i \in 1 .. Len(pieces) : end[i] = end[i - 1] + pieces[i]
  BY <1>1, EndsOfPieces
<1> HIDE DEF end
<1>5. Len(pieces) \in Nat /\ end[j] \in Nat /\ written \in Nat
  BY <1>1, <1>4, InstancesFit, SpookyConstants DEF SpookyInv
<1>6. CASE j = Len(pieces)
  <2>1. header = <<>>  BY <1>1, <1>2, <1>6, RestOfHeader
  <2>2. header' = header /\ written' >= end[j]  BY <1>2, <1>5, <1>6, <2>1
  <2>3. Here(j, header', written')  BY <1>2, <1>6, <2>2
  <2> HIDE DEF Here
  <2> QED  BY <1>3, <2>3
<1>7. CASE j # Len(pieces)
  <2>1. /\ header # <<>> /\ header[1] = pieces[j + 1] /\ j + 1 \in 1 .. Len(pieces)
        /\ Tail(header) = SubSeq(pieces, (j + 1) + 1, Len(pieces))
    BY <1>1, <1>2, <1>7, RestOfHeader
  <2>2. j + 1 \in 0 .. Len(pieces) /\ (j + 1) - 1 = j  BY <1>5, <2>1
  <2>3. end[j + 1] = end[(j + 1) - 1] + pieces[j + 1]  BY <1>4, <2>1
  <2>4. written = end[j]  BY <1>2, <1>7
  <2>5. written' = end[j + 1]  BY <2>1, <2>2, <2>3, <2>4
  <2>6. Here(j + 1, header', written')  BY <2>1, <2>5
  <2> HIDE DEF Here
  <2> QED  BY <1>3, <2>2, <2>6
<1> QED  BY <1>6, <1>7

LEMMA HeaderStarts ==
    arg \in Sp!Args /\ header = HeaderWrites[arg.version] /\ written = 0 => AtPiece
BY HeaderStart

LEMMA HeaderNext == SpookyInv /\ HeaderInv /\ [Sp!Next]_(Sp!vars) => HeaderInv'
<1> SUFFICES ASSUME SpookyInv, HeaderInv, [Sp!Next]_(Sp!vars) PROVE HeaderInv'  OBVIOUS
<1>a. Sp!ConstantsFit  BY InstancesFit
<1>c. Sp!Args' = Sp!Args  BY DEF Sp!Args
<1>1. CASE Sp!Call
  <2>1. PICK a \in Sp!Args : Sp!Starts(a)  BY <1>1 DEF Sp!Call
  <2>2. /\ arg' = a /\ header' = HeaderWrites[a.version] /\ written' = 0
        /\ out' = Sp!Running
    BY <2>1 DEF Sp!Starts
  <2>3. (arg \in Sp!Args /\ header = HeaderWrites[arg.version] /\ written = 0 => AtPiece)'
    BY HeaderStarts, PTL
  <2>4. AtPiece'  BY <1>c, <2>2, <2>3
  <2>5. AutoSkips'
    <3>1. PICK skip \in Sp!Resolved(a) : spooky' = Sp!SpookyInit(Sp!ToSkip(skip))
      BY <2>1 DEF Sp!Starts
    <3>2. spooky'.to_skip = Sp!ToSkip(skip)  BY <3>1 DEF Sp!SpookyInit
    <3> SUFFICES ASSUME a.skip = AUTO, ~Sp!Misplaced(a)
                 PROVE  Sp!ToSkip(skip) = HeaderLength
      BY <2>2, <3>2 DEF AutoSkips, Sp!Misplaced
    <3> QED  BY <1>a, AutoStart
  <2> QED  BY <1>c, <2>2, <2>4, <2>5
           DEF HeaderInv, Sp!AutoNeverFails, Sp!Running, Sp!Error, Sp!Misplaced
<1>2. CASE Sp!Finish
  <2>1. /\ out = Sp!Running /\ UNCHANGED <<arg, header, written, spooky>>
        /\ out' = Sp!SpookyFinal(spooky)
    BY <1>2 DEF Sp!Finish
  <2>2. out' # Sp!Error /\ out' # Sp!Running
    BY <2>1 DEF Sp!SpookyFinal, Sp!Error, Sp!Running
  <2> QED  BY <1>c, <2>1, <2>2 DEF HeaderInv, AutoSkips, Sp!AutoNeverFails, Sp!Misplaced,
                                 Sp!Error, Sp!Running
<1>3. ASSUME NEW k \in 0 .. MaxWrite, NEW aligned \in BOOLEAN, Sp!Write(k, aligned)
      PROVE  HeaderInv'
  <2> DEFINE input == [i \in 1 .. k |-> Data[written + i]]
  <2>1. /\ out = Sp!Running /\ written + k <= MaxWritten /\ written' = written + k
        /\ arg' = arg /\ (header # <<>> => k = header[1])
        /\ header' = IF header # <<>> THEN Tail(header) ELSE header
        /\ Sp!OutBytesSpooky(input, aligned)
    BY <1>3 DEF Sp!Write
  <2>2. k \in Nat /\ written \in Nat  BY <1>a, SpookyConstants DEF SpookyInv
  <2>3. Len(input) = k
    <3>1. MaxWritten \in Nat  BY <1>a, SpookyConstants
    <3> QED  BY <1>a, <2>1, <2>2, <3>1, InputType
  <2> HIDE DEF input
  <2>4. AtPiece'  BY <2>1, <2>2, PieceWritten
  <2>5. spooky'.to_skip = spooky.to_skip  BY <1>3, ToSkipStays DEF SpookyInv
  <2>6. AutoSkips'  BY <2>1, <2>5 DEF HeaderInv, AutoSkips, Sp!Misplaced
  <2>7. arg.skip = AUTO /\ ~Sp!Misplaced(arg) => out' # Sp!Error
    <3> SUFFICES ASSUME arg.skip = AUTO, ~Sp!Misplaced(arg) PROVE out' # Sp!Error
      OBVIOUS
    <3>1. CASE spooky.skipped < spooky.to_skip
      <4>1. ~ (spooky.skipped + k > spooky.to_skip)  BY <2>1, <2>2, <3>1, NoneStraddles
      <4>2. ~Sp!Straddles(spooky, Len(input))  BY <2>3, <4>1 DEF Sp!Straddles
      <4> QED  BY <2>1, <3>1, <4>2 DEF Sp!OutBytesSpooky, Sp!Running, Sp!Error
    <3>2. CASE ~ (spooky.skipped < spooky.to_skip)
      BY <2>1, <3>2 DEF Sp!OutBytesSpooky, Sp!Running, Sp!Error
    <3> QED  BY <3>1, <3>2
  <2> QED  BY <1>c, <2>1, <2>4, <2>6, <2>7
           DEF HeaderInv, Sp!AutoNeverFails, Sp!Misplaced
<1>4. CASE UNCHANGED Sp!vars
  BY <1>4 DEF Sp!vars, HeaderInv, AtPiece, AutoSkips, Sp!AutoNeverFails, Sp!Misplaced,
              Sp!Args, Sp!Ends
<1> QED  BY <1>1, <1>2, <1>3, <1>4 DEF Sp!Next

\* Skipping R's header automatically never ends in an error: R writes what all
\* headers share in pieces of their own.
THEOREM AutoSkipsHeader == ASSUME SkipsAreNumbers PROVE AnySpec => []AutoNeverFails
<1>a. Sp!ConstantsFit  BY InstancesFit
<1>1. Sp!Init => HeaderInv
  <2> SUFFICES ASSUME Sp!Init PROVE HeaderInv  OBVIOUS
  <2>1. PICK skip \in Sp!Resolved(arg) : spooky = Sp!SpookyInit(Sp!ToSkip(skip))
    BY DEF Sp!Init
  <2>2. /\ arg \in Sp!Args /\ out = Sp!Running /\ written = 0
        /\ header = HeaderWrites[arg.version]
    BY DEF Sp!Init
  <2>3. spooky.to_skip = Sp!ToSkip(skip)  BY <2>1 DEF Sp!SpookyInit
  <2>4. AutoSkips  BY <1>a, <2>1, <2>2, <2>3, AutoStart DEF AutoSkips
  <2>5. Sp!AutoNeverFails  BY <2>2 DEF Sp!AutoNeverFails, Sp!Running, Sp!Error
  <2> QED  BY <2>2, <2>4, <2>5, HeaderStart DEF HeaderInv
<1>2. Sp!Spec => []SpookyInv  BY <1>a, SpookyInvAlways
<1>3. HeaderInv => AutoNeverFails  BY DEF HeaderInv, AutoNeverFails
<1>4. machine # "spookyhash" => AutoNeverFails  BY DEF AutoNeverFails
<1> QED  BY <1>1, <1>2, <1>3, <1>4, HeaderNext, SpookyAlone, PTL DEF Sp!Spec
=============================================================================
