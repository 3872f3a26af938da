-------------------------- MODULE BlockHashProofs --------------------------
(***************************************************************************)
(* Proofs about BlockHash for every block size, counter width, message and *)
(* way to cut it into updates.                                             *)
(***************************************************************************)
EXTENDS BlockHash, Foundations, SequenceTheorems

CtxType(c) ==
    /\ c.total0 \in 0 .. Word - 1
    /\ c.total1 \in Nat
    /\ c.buffer \in [1 .. B -> Byte]
    /\ c.stream \in Seq(Byte)

\* The i-th byte of what the compression function has seen, followed by what
\* waits in the buffer, followed by the input.
At(c, input, i) ==
    LET seen == Len(c.stream)
        left == c.total0 % B
    IN  IF i <= seen THEN c.stream[i]
        ELSE IF i <= seen + left THEN c.buffer[i - seen]
        ELSE input[i - seen - left]

\* memcpy into the buffer writes the bytes from at+1 on and no other.
LEMMA CopyProperties ==
    ASSUME NEW buffer \in [1 .. B -> Byte], NEW s \in Seq(Byte), NEW at \in Nat
    PROVE  /\ Copy(buffer, at, s) \in [1 .. B -> Byte]
           /\ \A i \in 1 .. B : Copy(buffer, at, s)[i] =
                 IF at < i /\ i <= at + Len(s) THEN s[i - at] ELSE buffer[i]
<1>0. Len(s) \in Nat  OBVIOUS
<1>1. \A i \in 1 .. B : (at < i /\ i <= at + Len(s)) => i - at \in 1 .. Len(s)
  BY <1>0, BlockAssumption
<1>2. \A i \in 1 .. Len(s) : s[i] \in Byte  OBVIOUS
<1> QED  BY <1>1, <1>2, BlockAssumption DEF Copy

\* A part of a sequence of bytes.
LEMMA Part ==
    ASSUME NEW s \in Seq(Byte), NEW m \in 1 .. Len(s) + 1, NEW n \in m - 1 .. Len(s)
    PROVE  /\ SubSeq(s, m, n) \in Seq(Byte)
           /\ Len(SubSeq(s, m, n)) = n - m + 1
           /\ \A i \in 1 .. n - m + 1 : SubSeq(s, m, n)[i] = s[m + i - 1]
<1>1. \A i \in m .. n : s[i] \in Byte  OBVIOUS
<1>2. n - m + 1 = IF m <= n THEN n - m + 1 ELSE 0  OBVIOUS
<1>3. m \in Int /\ n \in Int  OBVIOUS
<1> QED  BY <1>1, <1>2, <1>3, SubSeqProperties

\* md5_update appends the input to the message the context stands for: what
\* the stream and the buffer hold afterwards are, in order, the stream, the
\* buffered bytes and the input, with fewer than B of them left in the buffer.
LEMMA UpdateEffect ==
    ASSUME NEW c, CtxType(c), NEW input \in Seq(Byte)
    PROVE  LET u == md5_update(c, input)
           IN  /\ CtxType(u)
               /\ u.total0 = (c.total0 + Len(input)) % Word
               /\ u.total0 % B = ((c.total0 % B) + Len(input)) % B
               /\ Len(u.stream) + (u.total0 % B)
                      = Len(c.stream) + (c.total0 % B) + Len(input)
               /\ \A i \in 1 .. Len(u.stream) : u.stream[i] = At(c, input, i)
               /\ \A i \in 1 .. u.total0 % B :
                      u.buffer[i] = At(c, input, Len(u.stream) + i)
<1> DEFINE u     == md5_update(c, input)
           len   == Len(input)
           left  == c.total0 % B
           seen  == Len(c.stream)
           head  == TopUp(left, len)
           tail  == (len - head) % B
           whole == (len - head) - tail
           first == SubSeq(input, 1, head)
           full  == Copy(c.buffer, left, first)
           mid   == SubSeq(input, head + 1, head + whole)
           last  == SubSeq(input, head + whole + 1, len)
           s1    == IF head > 0 THEN c.stream \o full ELSE c.stream
<1>b. B \in Nat \ {0} /\ Word \in Nat \ {0}  BY BlockAssumption, WordAssumption
<1>t. /\ c.total0 \in 0 .. Word - 1 /\ c.total1 \in Nat
      /\ c.buffer \in [1 .. B -> Byte] /\ c.stream \in Seq(Byte)
  BY DEF CtxType
<1>l. len \in Nat /\ seen \in Nat  BY <1>t
<1>c. c.total0 \in Int /\ B \in Nat \ {0}  BY <1>t, <1>b
<1>1. left \in 0 .. B - 1  BY <1>c, ModRange
<1>2. ((c.total0 + len) % Word) % B = (left + len) % B
  <2>1. Divides(B, Word)  BY WordAssumption DEF Divides
  <2> DEFINE x == c.total0 + len
  <2>2. x \in Int  BY <1>t, <1>l
  <2>3. (x % Word) % B = x % B
    <3> HIDE DEF x
    <3> QED  BY <1>b, <2>1, <2>2, ModMod
  <2>4. (c.total0 + len) % B = (left + len) % B  BY <1>b, <1>t, <1>l, ModSum
  <2> QED  BY <2>3, <2>4
<1>3. CASE len = 0
  <2>1. u = c  BY <1>3 DEF md5_update
  <2>2. c.total0 + len = c.total0  BY <1>3, <1>t
  <2>3. (c.total0 + len) % Word = c.total0  BY <2>2, <1>b, <1>t, ModSmall
  <2>4. (left + len) % B = left  BY <1>3, <1>1, <1>b, ModSmall
  <2>5. \A i \in 1 .. seen : c.stream[i] = At(c, input, i)  BY <1>l DEF At
  <2>6. \A i \in 1 .. left : c.buffer[i] = At(c, input, seen + i)
    BY <1>l, <1>1 DEF At
  <2> QED  BY <2>1, <2>3, <2>4, <2>5, <2>6, <1>1, <1>l, <1>3
<1>4. CASE len # 0
  <2>1. /\ head \in 0 .. len
        /\ head > 0 => head = B - left /\ left > 0
        /\ head = 0 => left = 0 \/ left + len < B
    BY <1>1, <1>l, <1>b DEF TopUp
  <2>2. tail \in 0 .. B - 1 /\ whole \in 0 .. len - head
    <3> DEFINE x == len - head
    <3>1. x \in Nat  BY <2>1, <1>l
    <3> HIDE DEF x
    <3>2. B \in Nat \ {0}  BY <1>b
    <3>3. x % B \in 0 .. B - 1  BY <3>1, <3>2, ModRange
    <3>4. x - (x % B) \in 0 .. x  BY <3>1, <3>2, ModFloor
    <3> QED  BY <3>3, <3>4 DEF x
  <2>3. /\ head > 0 => (left + len) % B = tail
        /\ head = 0 /\ left = 0 => (left + len) % B = tail
        /\ head = 0 /\ left > 0 => /\ (left + len) % B = left + len
                                   /\ tail = len /\ whole = 0
    <3>1. ASSUME head > 0 PROVE (left + len) % B = tail
      <4> DEFINE x == left + len
      <4>1. x \in Int /\ len - head = x - B  BY <3>1, <2>1, <1>l, <1>1, <1>b
      <4> HIDE DEF x
      <4>2. (x - B) % B = x % B  BY <4>1, <1>b, ModDropOne
      <4> QED  BY <4>1, <4>2 DEF x
    <3>2. ASSUME head = 0, left > 0
          PROVE  (left + len) % B = left + len /\ tail = len /\ whole = 0
      <4>1. left + len \in 0 .. B - 1 /\ len - head \in 0 .. B - 1
        BY <3>2, <2>1, <1>l, <1>1, <1>b
      <4> HIDE DEF left, len, head
      <4>2. (left + len) % B = left + len  BY <4>1, <1>b, ModSmall
      <4>3. (len - head) % B = len - head  BY <4>1, <1>b, ModSmall
      <4> QED  BY <4>2, <4>3, <3>2, <1>l
    <3>3. ASSUME head = 0, left = 0 PROVE (left + len) % B = tail
      BY <3>3, <1>l
    <3> QED  BY <3>1, <3>2, <3>3
  <2> HIDE DEF head, tail
  <2>4. /\ first \in Seq(Byte) /\ Len(first) = head
        /\ \A i \in 1 .. head : first[i] = input[i]
    <3>1. head \in 1 - 1 .. Len(input) /\ 1 \in 1 .. Len(input) + 1
      BY <2>1, <1>l
    <3>2. head - 1 + 1 = head /\ \A i \in 1 .. head : 1 + i - 1 = i  BY <2>1, <1>l
    <3> QED  BY <3>1, <3>2, Part
  <2>5. /\ mid \in Seq(Byte) /\ Len(mid) = whole
        /\ \A i \in 1 .. whole : mid[i] = input[head + i]
    <3>1. /\ head + 1 \in 1 .. Len(input) + 1
          /\ head + whole \in (head + 1) - 1 .. Len(input)
      BY <2>1, <2>2, <1>l
    <3>2. /\ (head + whole) - (head + 1) + 1 = whole
          /\ \A i \in 1 .. whole : (head + 1) + i - 1 = head + i
      BY <2>1, <2>2, <1>l
    <3> HIDE DEF whole
    <3> QED  BY <3>1, <3>2, Part
  <2>6. /\ last \in Seq(Byte) /\ Len(last) = tail
        /\ \A i \in 1 .. tail : last[i] = input[head + whole + i]
    <3>1. /\ head + whole + 1 \in 1 .. Len(input) + 1
          /\ len \in (head + whole + 1) - 1 .. Len(input)
      BY <2>1, <2>2, <1>l
    <3>2. /\ len - (head + whole + 1) + 1 = tail
          /\ \A i \in 1 .. tail : (head + whole + 1) + i - 1 = head + whole + i
      BY <2>1, <2>2, <1>l
    <3> HIDE DEF whole
    <3> QED  BY <3>1, <3>2, Part
  <2>7. /\ full \in [1 .. B -> Byte]
        /\ \A i \in 1 .. B : full[i] = IF left < i /\ i <= left + head
                                       THEN input[i - left] ELSE c.buffer[i]
    <3>1. /\ full \in [1 .. B -> Byte]
          /\ \A i \in 1 .. B : full[i] = IF left < i /\ i <= left + Len(first)
                                         THEN first[i - left] ELSE c.buffer[i]
      <4>1. left \in Nat  BY <1>1
      <4> HIDE DEF first, left
      <4> QED  BY <2>4, <1>t, <4>1, CopyProperties
    <3> HIDE DEF full, first, left
    <3> QED  BY <3>1, <2>4, <2>1, <1>1, <1>b
  <2>8. /\ Copy(full, Rest(left, head), last) \in [1 .. B -> Byte]
        /\ \A i \in 1 .. B : Copy(full, Rest(left, head), last)[i] =
              IF Rest(left, head) < i /\ i <= Rest(left, head) + tail
              THEN input[head + whole + i - Rest(left, head)] ELSE full[i]
    <3> DEFINE r == Rest(left, head)
    <3>1. r \in Nat  BY <1>1, <2>1 DEF Rest
    <3> HIDE DEF full, last, whole, r, left
    <3>2. /\ Copy(full, r, last) \in [1 .. B -> Byte]
          /\ \A i \in 1 .. B : Copy(full, r, last)[i] =
                IF r < i /\ i <= r + Len(last) THEN last[i - r] ELSE full[i]
      BY <3>1, <2>6, <2>7, CopyProperties
    <3>3. \A i \in 1 .. B : r < i /\ i <= r + tail =>
             /\ i - r \in 1 .. tail
             /\ head + whole + (i - r) = head + whole + i - r
      BY <3>1, <2>1, <2>2, <1>l, <1>b DEF whole
    <3> QED  BY <3>2, <3>3, <2>6 DEF r
  <2>9. /\ s1 \in Seq(Byte)
        /\ Len(s1) = seen + (IF head > 0 THEN B ELSE 0)
        /\ \A i \in 1 .. Len(s1) :
              s1[i] = IF i <= seen THEN c.stream[i] ELSE full[i - seen]
    <3>1. full \in Seq(Byte) /\ Len(full) = B  BY <2>7, <1>b
    <3> HIDE DEF full
    <3>2. CASE head > 0  BY <3>1, <3>2, <1>t, <1>b, ConcatProperties
    <3>3. CASE ~ (head > 0)  BY <3>3, <1>t, <1>b
    <3> QED  BY <3>2, <3>3
  <2>10. /\ s1 \o mid \in Seq(Byte)
         /\ Len(s1 \o mid) = Len(s1) + whole
         /\ \A i \in 1 .. Len(s1) + whole : (s1 \o mid)[i] =
                IF i <= Len(s1) THEN s1[i] ELSE mid[i - Len(s1)]
    <3> HIDE DEF s1, mid, whole
    <3> QED  BY <2>9, <2>5, ConcatProperties
  <2>11. /\ u.total0 = (c.total0 + len) % Word
         /\ u.total1 = c.total1 + Carry(u.total0, len)
         /\ u.buffer = Copy(full, Rest(left, head), last)
         /\ u.stream = s1 \o mid
    BY <1>4 DEF md5_update, md5_process, AddTotal, head, tail
  <2>12. CtxType(u)
    <3>0. c.total0 + len \in Int /\ Word \in Nat \ {0}  BY <1>t, <1>l, <1>b
    <3>1. (c.total0 + len) % Word \in 0 .. Word - 1  BY <3>0, ModRange
    <3>2. Carry(u.total0, len) \in Nat  BY DEF Carry
    <3> HIDE DEF u, full, last, s1, mid
    <3> QED  BY <3>1, <3>2, <2>8, <2>10, <2>11, <1>t DEF CtxType
  <2>13. Len(u.stream) + (u.total0 % B) = seen + left + len
    <3>1. u.total0 % B = (left + len) % B  BY <2>11, <1>2
    <3>2. Len(u.stream) = seen + (IF head > 0 THEN B ELSE 0) + whole
      BY <2>9, <2>10, <2>11
    <3> HIDE DEF u, left, whole, seen, len
    <3>3. whole = len - head - tail  BY <2>1, <2>2, <1>l DEF whole
    <3>4. CASE head > 0
      BY <3>1, <3>2, <3>3, <3>4, <2>1, <2>2, <2>3, <1>1, <1>l, <1>b
    <3>5. CASE head = 0
      <4>1. CASE left = 0
        BY <3>1, <3>2, <3>3, <3>5, <4>1, <2>1, <2>2, <2>3, <1>1, <1>l, <1>b
      <4>2. CASE left > 0
        BY <3>1, <3>2, <3>3, <3>5, <4>2, <2>1, <2>2, <2>3, <1>1, <1>l, <1>b
      <4> QED  BY <4>1, <4>2, <1>1
    <3> QED  BY <3>4, <3>5, <2>1
  <2>14. \A i \in 1 .. Len(u.stream) : u.stream[i] = At(c, input, i)
    <3> SUFFICES ASSUME NEW i \in 1 .. Len(u.stream)
                 PROVE  u.stream[i] = At(c, input, i)
      OBVIOUS
    <3>1. /\ Len(u.stream) = Len(s1) + whole
          /\ u.stream[i] = IF i <= Len(s1) THEN s1[i] ELSE mid[i - Len(s1)]
      BY <2>10, <2>11
    <3>2. Len(s1) = seen + (IF head > 0 THEN B ELSE 0)  BY <2>9
    <3> HIDE DEF u, s1, mid, full, left, whole, seen, len
    <3>5. CASE i <= seen
      <4>1. i \in 1 .. Len(s1)  BY <3>2, <3>5, <2>1, <1>l, <1>b
      <4>2. u.stream[i] = c.stream[i]  BY <3>1, <3>5, <4>1, <2>9
      <4> QED  BY <4>2, <3>5 DEF At, seen
    <3>3. CASE seen < i /\ i <= Len(s1)
      <4>1. /\ u.stream[i] = full[i - seen] /\ head > 0
            /\ i - seen \in 1 .. B
        <5>1. i \in 1 .. Len(s1) /\ i <= Len(s1) /\ ~ (i <= seen)  BY <3>2, <3>3, <2>1, <1>l, <1>b
        <5>2. u.stream[i] = full[i - seen]  BY <3>1, <5>1, <2>9
        <5>3. head > 0 /\ i - seen \in 1 .. B  BY <3>2, <3>3, <2>1, <1>l, <1>b
        <5> QED  BY <5>2, <5>3
      <4>2. /\ i - seen <= left => full[i - seen] = c.buffer[i - seen]
            /\ i - seen > left => full[i - seen] = input[(i - seen) - left]
        BY <4>1, <2>7, <2>1, <1>1, <1>l, <1>b
      <4> QED  BY <4>1, <4>2, <3>3, <1>1, <1>l DEF At, left, seen
    <3>4. CASE Len(s1) < i
      <4>1. /\ u.stream[i] = input[head + (i - Len(s1))]
            /\ i - Len(s1) \in 1 .. whole
        <5>1. i - Len(s1) \in 1 .. whole /\ ~ (i <= Len(s1))
          BY <3>1, <3>2, <3>4, <2>2, <2>1, <1>l, <1>b
        <5> QED  BY <3>1, <5>1, <2>5
      <4>2. /\ whole > 0
            /\ head + (i - Len(s1)) = i - seen - left
            /\ i > seen + left
        BY <4>1, <3>2, <3>4, <2>1, <2>2, <2>3, <1>1, <1>l, <1>b
      <4> QED  BY <4>1, <4>2, <1>1, <1>l DEF At, left, seen
    <3> QED  BY <3>3, <3>4, <3>5, <3>2, <2>1, <1>l, <1>b
  <2>15. \A i \in 1 .. u.total0 % B : u.buffer[i] = At(c, input, Len(u.stream) + i)
    <3> SUFFICES ASSUME NEW i \in 1 .. u.total0 % B
                 PROVE  u.buffer[i] = At(c, input, Len(u.stream) + i)
      OBVIOUS
    <3>1. u.total0 % B = (left + len) % B  BY <2>11, <1>2
    <3>2. Len(u.stream) = seen + (IF head > 0 THEN B ELSE 0) + whole
      BY <2>9, <2>10, <2>11
    <3> DEFINE r == Rest(left, head)
    <3>3. r = IF head > 0 THEN 0 ELSE left  BY DEF Rest
    <3>4. /\ u.total0 % B = r + tail
          /\ r + tail < B
      <4> HIDE DEF u, left, whole, r
      <4> QED  BY <3>1, <3>3, <2>1, <2>2, <2>3, <1>1, <1>l, <1>b
    <3>0. r \in Nat  BY <3>3, <1>1, <2>1
    <3>5. i \in 1 .. B /\ i <= r + tail
      <4> HIDE DEF u, r, left
      <4> QED  BY <3>0, <3>4, <2>2, <1>b
    <3>6. u.buffer[i] = IF r < i THEN input[head + whole + i - r] ELSE full[i]
      <4> HIDE DEF full, last, whole, r, left
      <4> QED  BY <3>5, <2>8, <2>11 DEF r, left
    <3> HIDE DEF u, r, full, left, whole, seen, len
    <3>7. CASE r < i
      <4>1. /\ Len(u.stream) + i > seen + left
            /\ Len(u.stream) + i - seen - left = head + whole + i - r
        BY <3>2, <3>3, <3>5, <3>7, <2>1, <2>2, <2>3, <1>1, <1>l, <1>b
      <4> QED  BY <4>1, <3>6, <3>7, <1>1, <1>l, SMTT(40), ZenonT(60) DEF At, left, seen
    <3>8. CASE ~ (r < i)
      <4>1. head = 0 /\ i <= left /\ whole = 0
        BY <3>3, <3>8, <2>1, <2>3, <1>1
      <4>2. full[i] = c.buffer[i] /\ Len(u.stream) = seen
        BY <4>1, <3>2, <3>5, <2>7, <1>1, <1>l, <1>b
      <4> QED  BY <4>1, <4>2, <3>6, <3>8, <1>1, <1>l DEF At, left, seen
    <3> QED  BY <3>7, <3>8
  <2>16. u.total0 % B = (left + len) % B  BY <2>11, <1>2
  <2> HIDE DEF whole, first, full, mid, last, s1
  <2> QED  BY <2>11, <2>12, <2>13, <2>14, <2>15, <2>16
<1> QED  BY <1>3, <1>4, <1>l

-----------------------------------------------------------------------------
(* The inputs of the updates are sequences of bytes. *)

LEMMA InputType ==
    ASSUME NEW n \in Nat, NEW k \in Nat, n + k <= MaxFed
    PROVE  /\ [i \in 1 .. k |-> Data[n + i]] \in Seq(Byte)
           /\ Len([i \in 1 .. k |-> Data[n + i]]) = k
<1>1. \A i \in 1 .. k : n + i \in 1 .. MaxFed  BY BlockAssumption
<1>2. \A i \in 1 .. k : Data[n + i] \in Byte  BY <1>1 DEF Byte
<1> QED  BY <1>2

\* padn completes the message so that the length field ends a block, and fits
\* in md5_padding.
LEMMA PadLengthFits ==
    ASSUME NEW left \in 0 .. B - 1
    PROVE  /\ PadLength(left) \in 1 .. B
           /\ left + PadLength(left) + L = B \/ left + PadLength(left) + L = 2 * B
BY BlockAssumption DEF PadLength

LEMMA PaddingType ==
    ASSUME NEW n \in 1 .. B
    PROVE  /\ SubSeq(Padding, 1, n) \in Seq(Byte)
           /\ Len(SubSeq(Padding, 1, n)) = n
           /\ \A i \in 1 .. n : SubSeq(Padding, 1, n)[i]
                                   = PadByte(IF i = 1 THEN 128 ELSE 0)
<1>1. B \in Nat  BY BlockAssumption
<1>2. \A i \in 1 .. B : PadByte(IF i = 1 THEN 128 ELSE 0) \in Byte  BY DEF Byte
<1>3. Padding \in Seq(Byte) /\ Len(Padding) = B  BY <1>1, <1>2 DEF Padding
<1>4. /\ n \in 1 - 1 .. Len(Padding) /\ 1 \in 1 .. Len(Padding) + 1
      /\ n - 1 + 1 = n /\ \A i \in 1 .. n : 1 + i - 1 = i /\ i \in 1 .. B
  BY <1>1, <1>3
<1>5. /\ SubSeq(Padding, 1, n) \in Seq(Byte)
      /\ Len(SubSeq(Padding, 1, n)) = n
      /\ \A i \in 1 .. n : SubSeq(Padding, 1, n)[i] = Padding[i]
  BY <1>3, <1>4, Part
<1> QED  BY <1>4, <1>5 DEF Padding

LEMMA LengthFieldType ==
    ASSUME NEW high \in 0 .. Word - 1, NEW low \in 0 .. Word - 1
    PROVE  LengthField(high, low) \in Seq(Byte) /\ Len(LengthField(high, low)) = L
<1>1. L \in Nat  BY BlockAssumption
<1>2. \A j \in 1 .. L : <<"LE", low, high, j>> \in Byte  BY DEF Byte
<1>3. \A j \in 1 .. L : <<"BE", high, low, j>> \in Byte  BY DEF Byte
<1> QED  BY <1>1, <1>2, <1>3 DEF LengthField, md5_length, sha1_length

High(c) == (c.total0 \div (Word \div BitsOf) + c.total1 * BitsOf) % Word
Low(c) == (c.total0 * BitsOf) % Word

LEMMA HighLowType ==
    ASSUME NEW c, CtxType(c)
    PROVE  High(c) \in 0 .. Word - 1 /\ Low(c) \in 0 .. Word - 1
<1>1. PICK k \in 1 .. Word : Word = k * BitsOf  BY WordAssumption
<1>2. BitsOf \in Nat \ {0} /\ Word \in Nat \ {0}
  BY BlockAssumption, WordAssumption
<1>3. Word \div BitsOf = k
  <2>1. Word = k * BitsOf + 0 /\ 0 \in 0 .. BitsOf - 1 /\ Word \in Int /\ k \in Int
    BY <1>1, <1>2
  <2> QED  BY <2>1, <1>2, ModUnique
<1> DEFINE t == c.total0
           h == c.total1 * BitsOf
           l == c.total0 * BitsOf
<1>4. t \in Int /\ h \in Int /\ l \in Int  BY <1>2 DEF CtxType
<1>5. t \div k \in Int
  <2> HIDE DEF t
  <2>1. k \in Nat \ {0}  BY <1>1
  <2> QED  BY <1>4, <2>1, DivMod
<1> DEFINE q == t \div k
<1>6. q + h \in Int  BY <1>4, <1>5
<1>7. (q + h) % Word \in 0 .. Word - 1 /\ l % Word \in 0 .. Word - 1
  <2> HIDE DEF q, h, l
  <2> QED  BY <1>2, <1>4, <1>6, ModRange
<1> QED  BY <1>3, <1>7 DEF High, Low

\* The two updates of finish, as the effect of one on a longer input: the
\* stream is the old stream, the buffered bytes, the padding and the length
\* field, and nothing is left in the buffer.
LEMMA FinishEffect ==
    ASSUME NEW c, CtxType(c)
    PROVE  LET u    == md5_finish(c)
               seen == Len(c.stream)
               left == c.total0 % B
               padn == PadLength(left)
           IN  /\ CtxType(u)
               /\ left \in 0 .. B - 1
               /\ Len(u.stream) = seen + left + padn + L
               /\ \A i \in 1 .. Len(u.stream) : u.stream[i] =
                     IF i <= seen THEN c.stream[i]
                     ELSE IF i <= seen + left THEN c.buffer[i - seen]
                     ELSE IF i <= seen + left + padn
                          THEN PadByte(IF i = seen + left + 1 THEN 128 ELSE 0)
                     ELSE LengthField(High(c), Low(c))[i - seen - left - padn]
<1> DEFINE seen == Len(c.stream)
           left == c.total0 % B
           padn == PadLength(left)
           pads == SubSeq(Padding, 1, padn)
           field == LengthField(High(c), Low(c))
           p    == md5_update(c, pads)
           u    == md5_update(p, field)
           pleft == p.total0 % B
           uleft == u.total0 % B
<1>b. B \in Nat \ {0} /\ Word \in Nat \ {0} /\ L \in Nat /\ L < B /\ 0 < L
  BY BlockAssumption, WordAssumption
<1>c. c.total0 \in Int /\ seen \in Nat  BY DEF CtxType
<1>1. left \in 0 .. B - 1
  <2>1. B \in Nat \ {0}  BY <1>b
  <2> QED  BY <2>1, <1>c, ModRange
<1>2. /\ padn \in 1 .. B
      /\ left + padn + L = B \/ left + padn + L = 2 * B
  <2> HIDE DEF left
  <2> QED  BY <1>1, PadLengthFits
<1>3. /\ pads \in Seq(Byte) /\ Len(pads) = padn
      /\ \A i \in 1 .. padn : pads[i] = PadByte(IF i = 1 THEN 128 ELSE 0)
  <2> HIDE DEF padn
  <2> QED  BY <1>2, PaddingType
<1>4. field \in Seq(Byte) /\ Len(field) = L  BY HighLowType, LengthFieldType
<1>5. /\ CtxType(p)
      /\ pleft = (left + padn) % B
      /\ Len(p.stream) + pleft = seen + left + padn
      /\ \A i \in 1 .. Len(p.stream) : p.stream[i] = At(c, pads, i)
      /\ \A i \in 1 .. pleft : p.buffer[i] = At(c, pads, Len(p.stream) + i)
  <2> HIDE DEF pads, padn
  <2> QED  BY <1>3, UpdateEffect
<1>6. /\ CtxType(u)
      /\ uleft = (pleft + L) % B
      /\ Len(u.stream) + uleft = Len(p.stream) + pleft + L
      /\ \A i \in 1 .. Len(u.stream) : u.stream[i] = At(p, field, i)
  <2> HIDE DEF field, p
  <2> QED  BY <1>4, <1>5, UpdateEffect
<1>7. md5_finish(c) = u  BY DEF md5_finish, High, Low
<1> HIDE DEF padn, pads, field, p, u, left
<1>8. pleft = B - L
  <2>1. (left + padn) % B = B - L
    <3> DEFINE x == left + padn
               r == B - L
    <3>1. x \in Int /\ r \in 0 .. B - 1 /\ B \in Nat \ {0}
          /\ (x = 0 * B + r \/ x = 1 * B + r)
      BY <1>1, <1>2, <1>b
    <3> HIDE DEF x, r
    <3>2. x % B = r  BY <3>1, ModUnique
    <3> QED  BY <3>2 DEF x, r
  <2> QED  BY <2>1, <1>5
<1>9. uleft = 0
  <2>1. pleft + L = B  BY <1>8, <1>b
  <2>2. B = 1 * B + 0 /\ B \in Int /\ 0 \in 0 .. B - 1  BY <1>b
  <2>3. B % B = 0  BY <2>2, <1>b, ModUnique
  <2> QED  BY <2>1, <2>3, <1>6
<1>10. Len(u.stream) = seen + left + padn + L
  <2>1. Len(u.stream) \in Nat /\ Len(p.stream) \in Nat  BY <1>5, <1>6 DEF CtxType
  <2> HIDE DEF uleft, pleft, seen
  <2> QED  BY <2>1, <1>1, <1>2, <1>c, <1>b, <1>5, <1>6, <1>8, <1>9
<1>11. ASSUME NEW i \in 1 .. Len(u.stream)
       PROVE  u.stream[i] =
                     IF i <= seen THEN c.stream[i]
                     ELSE IF i <= seen + left THEN c.buffer[i - seen]
                     ELSE IF i <= seen + left + padn
                          THEN PadByte(IF i = seen + left + 1 THEN 128 ELSE 0)
                     ELSE field[i - seen - left - padn]
  <2> DEFINE pn == Len(p.stream)
  <2>1. pn \in Nat /\ pn + pleft = seen + left + padn /\ pleft \in Nat
    BY <1>5, <1>8, <1>b DEF CtxType
  <2>2. i \in Nat /\ 1 <= i /\ i <= seen + left + padn + L
    BY <1>10, <1>1, <1>2, <1>c, <1>b
  <2>3. u.stream[i] = At(p, field, i)  BY <1>6
  <2>4. At(p, field, i) = IF i <= pn THEN p.stream[i]
                          ELSE IF i <= pn + pleft THEN p.buffer[i - pn]
                          ELSE field[i - pn - pleft]
    BY DEF At
  <2>5. At(c, pads, i) = IF i <= seen THEN c.stream[i]
                          ELSE IF i <= seen + left THEN c.buffer[i - seen]
                          ELSE pads[i - seen - left]
    BY DEF At, left
  <2>6. i <= pn => p.stream[i] = At(c, pads, i)  BY <2>1, <2>2, <1>5
  <2>7. pn < i /\ i <= pn + pleft => p.buffer[i - pn] = At(c, pads, i)
    <3> SUFFICES ASSUME pn < i, i <= pn + pleft
                 PROVE  p.buffer[i - pn] = At(c, pads, i)
      OBVIOUS
    <3>1. i - pn \in 1 .. pleft /\ pn + (i - pn) = i  BY <2>1, <2>2
    <3>2. p.buffer[i - pn] = At(c, pads, pn + (i - pn))  BY <3>1, <1>5
    <3> QED  BY <3>1, <3>2
  <2> HIDE DEF pn, pleft, seen
  <2>8. CASE i <= seen + left + padn
    <3>1. u.stream[i] = At(c, pads, i)
      BY <2>1, <2>2, <2>3, <2>4, <2>6, <2>7, <2>8
    <3>2. i > seen + left => i - seen - left \in 1 .. padn
      BY <2>2, <2>8, <1>1, <1>2, <1>c
    <3>3. i > seen + left =>
             pads[i - seen - left] = PadByte(IF i = seen + left + 1 THEN 128 ELSE 0)
      BY <3>2, <1>3, <2>2, <1>1, <1>c
    <3> QED  BY <3>1, <3>3, <2>5, <2>2, <2>8, <1>1, <1>2, <1>c
  <2>9. CASE i > seen + left + padn
    <3>1. ~ (i <= pn) /\ ~ (i <= pn + pleft)  BY <2>1, <2>2, <2>9, <1>1, <1>2, <1>c
    <3>2. i - pn - pleft = i - seen - left - padn  BY <2>1, <2>2, <1>1, <1>2, <1>c
    <3>3. u.stream[i] = field[i - seen - left - padn]  BY <3>1, <3>2, <2>3, <2>4
    <3> QED  BY <3>3, <2>2, <2>9, <1>1, <1>2, <1>c
  <2> QED  BY <2>8, <2>9, <2>2, <1>1, <1>2, <1>c
<1> QED  BY <1>1, <1>6, <1>7, <1>10, <1>11 DEF left, padn, field

-----------------------------------------------------------------------------
(* Invariance *)

USE DEF NoDigest

LEMMA TypeInit == Init => TypeOK
<1> SUFFICES ASSUME Init PROVE TypeOK  OBVIOUS
<1>1. Garbage \in Byte  BY DEF Byte
<1>2. [i \in 1 .. B |-> Garbage] \in [1 .. B -> Byte]  BY <1>1
<1>3. <<>> \in Seq(Byte)  OBVIOUS
<1>4. 0 \in 0 .. MaxFed /\ 0 \in 0 .. Word - 1  BY BlockAssumption, WordAssumption
<1> QED  BY <1>2, <1>3, <1>4 DEF Init, TypeOK, md5_starts

LEMMA TypeNext == TypeOK /\ [Next]_vars => TypeOK'
<1> SUFFICES ASSUME TypeOK, [Next]_vars PROVE TypeOK'  OBVIOUS
<1>c. CtxType(ctx)  BY DEF TypeOK, CtxType
<1>1. CASE Starts
  <2>1. 0 \in 0 .. MaxFed /\ 0 \in 0 .. Word - 1 /\ <<>> \in Seq(Byte)
    BY BlockAssumption, WordAssumption
  <2> QED  BY <1>1, <2>1 DEF Starts, TypeOK, md5_starts
<1>2. CASE Finish
  <2>1. CtxType(md5_finish(ctx))  BY <1>c, FinishEffect
  <2> QED  BY <1>2, <2>1 DEF Finish, TypeOK, CtxType
<1>3. ASSUME NEW k \in 0 .. MaxUpdate, Update(k) PROVE TypeOK'
  <2> DEFINE input == [i \in 1 .. k |-> Data[fed + i]]
  <2>1. fed \in Nat /\ k \in Nat /\ fed + k <= MaxFed
    BY <1>3, BlockAssumption DEF Update, TypeOK
  <2>2. input \in Seq(Byte)  BY <2>1, InputType
  <2>3. CtxType(md5_update(ctx, input))
    <3> HIDE DEF input
    <3> QED  BY <1>c, <2>2, UpdateEffect
  <2>4. fed + k \in 0 .. MaxFed  BY <2>1, BlockAssumption
  <2> QED  BY <1>3, <2>3, <2>4 DEF Update, TypeOK, CtxType
<1>4. CASE UNCHANGED vars  BY <1>4 DEF vars, TypeOK
<1> QED  BY <1>1, <1>2, <1>3, <1>4 DEF Next

\* The context of md5.c keeps its types: the low counter word never exceeds 32
\* bits, whatever is hashed.
THEOREM TypeCorrect == Spec => []TypeOK
<1>1. Init => TypeOK  BY TypeInit
<1>2. TypeOK /\ [Next]_vars => TypeOK'  BY TypeNext
<1> QED  BY <1>1, <1>2, PTL DEF Spec

LEMMA LosslessInit == Init => Lossless
<1> SUFFICES ASSUME Init PROVE Lossless  OBVIOUS
<1>1. B \in Nat \ {0}  BY BlockAssumption
<1>2. 0 % B = 0
  <2>1. 0 \in 0 .. B - 1  BY <1>1
  <2> QED  BY <2>1, <1>1, ModSmall
<1> QED  BY <1>1, <1>2 DEF Init, Lossless, md5_starts

LEMMA LosslessNext == TypeOK /\ Lossless /\ [Next]_vars => Lossless'
<1> SUFFICES ASSUME TypeOK, Lossless, [Next]_vars PROVE Lossless'  OBVIOUS
<1>b. B \in Nat \ {0} /\ L \in Nat /\ 0 < L /\ L < B  BY BlockAssumption
<1>c. CtxType(ctx)  BY DEF TypeOK, CtxType
<1>1. CASE Starts
  <2>1. 0 % B = 0
    <3>1. 0 \in 0 .. B - 1 /\ B \in Nat \ {0}  BY <1>b
    <3> QED  BY <3>1, ModSmall
  <2> QED  BY <1>1, <1>b, <2>1 DEF Starts, Lossless, md5_starts
<1>2. CASE Finish
  \* A digest has been returned: finish hashes at least one block.
  <2> DEFINE u == md5_finish(ctx)
             left == ctx.total0 % B
  <2>1. /\ CtxType(u) /\ left \in 0 .. B - 1
        /\ Len(u.stream) = Len(ctx.stream) + left + PadLength(left) + L
    BY <1>c, FinishEffect
  <2>2. Len(u.stream) > 0
    <3> HIDE DEF u, left
    <3>1. PadLength(left) \in 1 .. B  BY <2>1, PadLengthFits
    <3>2. Len(ctx.stream) \in Nat  BY <1>c DEF CtxType
    <3> QED  BY <2>1, <3>1, <3>2, <1>b
  <2>3. digest' = u.stream  BY <1>2 DEF Finish
  <2>4. digest' # NoDigest  BY <2>2, <2>3
  <2> QED  BY <2>4 DEF Lossless
<1>3. ASSUME NEW k \in 0 .. MaxUpdate, Update(k) PROVE Lossless'
  <2> DEFINE input == [i \in 1 .. k |-> Data[fed + i]]
             u     == md5_update(ctx, input)
             seen  == Len(ctx.stream)
             left  == ctx.total0 % B
             seen2 == Len(u.stream)
             left2 == u.total0 % B
  <2>1. fed \in Nat /\ k \in Nat /\ fed + k <= MaxFed /\ digest = NoDigest
    BY <1>3, BlockAssumption DEF Update, TypeOK
  <2>2. input \in Seq(Byte) /\ Len(input) = k  BY <2>1, InputType
  <2>3. /\ CtxType(u)
        /\ seen2 + left2 = seen + left + Len(input)
        /\ \A i \in 1 .. seen2 : u.stream[i] = At(ctx, input, i)
        /\ \A i \in 1 .. left2 : u.buffer[i] = At(ctx, input, seen2 + i)
    <3> HIDE DEF input
    <3> QED  BY <1>c, <2>2, UpdateEffect
  <2>4. /\ seen <= fed /\ fed < seen + B
        /\ fed - seen = left
        /\ \A i \in 1 .. seen : ctx.stream[i] = Data[i]
        /\ \A i \in 1 .. fed - seen : ctx.buffer[i] = Data[seen + i]
    BY <2>1 DEF Lossless
  <2>5. ctx' = u /\ fed' = fed + k  BY <1>3 DEF Update
  <2>6. seen \in Nat /\ seen2 \in Nat  BY <1>c, <2>3 DEF CtxType
  <2>7. left2 \in 0 .. B - 1
    <3>1. u.total0 \in Int /\ B \in Nat \ {0}  BY <2>3, <1>b DEF CtxType
    <3> HIDE DEF u
    <3> QED  BY <3>1, ModRange
  <2>8. \A i \in 1 .. fed + k : At(ctx, input, i) = Data[i]
    <3> SUFFICES ASSUME NEW i \in 1 .. fed + k PROVE At(ctx, input, i) = Data[i]
      OBVIOUS
    <3> DEFINE j == i - seen - left
    <3>0. At(ctx, input, i) = IF i <= seen THEN ctx.stream[i]
                              ELSE IF i <= seen + left THEN ctx.buffer[i - seen]
                              ELSE input[j]
      BY DEF At
    <3> HIDE DEF seen, left
    <3>1. CASE i <= seen  BY <3>0, <3>1, <2>4, <2>6
    <3>2. CASE seen < i /\ i <= seen + left
      <4>1. i - seen \in 1 .. fed - seen /\ seen + (i - seen) = i
        BY <3>2, <2>1, <2>4, <2>6
      <4>2. ctx.buffer[i - seen] = Data[seen + (i - seen)]  BY <4>1, <2>4
      <4> QED  BY <3>0, <3>2, <4>1, <4>2, <2>4, <2>6
    <3>3. CASE seen + left < i
      <4>1. j \in 1 .. k /\ fed + j = i  BY <3>3, <2>1, <2>4, <2>6
      <4>2. input[j] = Data[fed + j]  BY <4>1
      <4> QED  BY <3>0, <3>3, <4>1, <4>2, <2>4, <2>6, <2>1
    <3> QED  BY <3>1, <3>2, <3>3, <2>4, <2>6, <2>1
  <2> HIDE DEF input, u, seen, left
  <2>9. seen2 + left2 = fed + k  BY <2>1, <2>2, <2>3, <2>4, <2>6
  <2> HIDE DEF seen2, left2
  <2>10. /\ seen2 <= fed + k /\ fed + k < seen2 + B
         /\ fed + k - seen2 = left2
    BY <2>9, <2>7, <2>6, <2>1, <1>b
  <2>11. \A i \in 1 .. seen2 : u.stream[i] = Data[i]
    BY <2>3, <2>8, <2>10, <2>6, <2>1
  <2>12. \A i \in 1 .. fed + k - seen2 : u.buffer[i] = Data[seen2 + i]
    <3> SUFFICES ASSUME NEW i \in 1 .. fed + k - seen2
                 PROVE  u.buffer[i] = Data[seen2 + i]
      OBVIOUS
    <3>1. i \in 1 .. left2 /\ seen2 + i \in 1 .. fed + k
      BY <2>10, <2>6, <2>1
    <3> QED  BY <3>1, <2>3, <2>8
  <2>13. Len(ctx'.stream) = seen2 /\ ctx'.total0 % B = left2
    BY <2>5 DEF seen2, left2
  <2>14. /\ \A i \in 1 .. seen2 : ctx'.stream[i] = Data[i]
         /\ \A i \in 1 .. fed' - seen2 : ctx'.buffer[i] = Data[seen2 + i]
    BY <2>1, <2>5, <2>6, <2>11, <2>12
  <2>15. seen2 <= fed' /\ fed' < seen2 + B /\ fed' - seen2 = left2
    BY <1>b, <2>1, <2>5, <2>6, <2>10
  <2> QED  BY <2>13, <2>14, <2>15 DEF Lossless
<1>4. CASE UNCHANGED vars  BY <1>4 DEF vars, Lossless
<1> QED  BY <1>1, <1>2, <1>3, <1>4 DEF Next

\* However a message is cut into updates, of whatever sizes and over whatever
\* the buffer held before, the compression function sees the bytes of the
\* message in order, each once, and the rest of them waits in the buffer.
THEOREM NoByteLost == Spec => []Lossless
<1>1. Init => TypeOK /\ Lossless  BY TypeInit, LosslessInit
<1>2. TypeOK /\ Lossless /\ [Next]_vars => (TypeOK /\ Lossless)'
  BY TypeNext, LosslessNext
<1> QED  BY <1>1, <1>2, PTL DEF Spec

LEMMA CountNext ==
    ASSUME MaxUpdate < Word
    PROVE  TypeOK /\ Lossless /\ CountsBytes /\ [Next]_vars => CountsBytes'
<1> SUFFICES ASSUME TypeOK, Lossless, CountsBytes, [Next]_vars PROVE CountsBytes'
  OBVIOUS
<1>c. CtxType(ctx)  BY DEF TypeOK, CtxType
<1>w. Word \in Nat \ {0} /\ MaxUpdate \in Nat  BY BlockAssumption, WordAssumption
<1>1. CASE Starts  BY <1>1, <1>w DEF Starts, CountsBytes, md5_starts
<1>2. CASE Finish
  <2> DEFINE u == md5_finish(ctx)
             left == ctx.total0 % B
  <2>1. /\ CtxType(u) /\ left \in 0 .. B - 1
        /\ Len(u.stream) = Len(ctx.stream) + left + PadLength(left) + L
    BY <1>c, FinishEffect
  <2>2. Len(u.stream) > 0
    <3> HIDE DEF u, left
    <3>1. PadLength(left) \in 1 .. B  BY <2>1, PadLengthFits
    <3>2. Len(ctx.stream) \in Nat  BY <1>c DEF CtxType
    <3> QED  BY <2>1, <3>1, <3>2, BlockAssumption
  <2>3. digest' = u.stream  BY <1>2 DEF Finish
  <2>4. digest' # NoDigest  BY <2>2, <2>3
  <2> QED  BY <2>4 DEF CountsBytes
<1>3. ASSUME NEW k \in 0 .. MaxUpdate, Update(k) PROVE CountsBytes'
  <2> DEFINE input == [i \in 1 .. k |-> Data[fed + i]]
             t0 == ctx.total0
             t1 == ctx.total1
             s0 == (t0 + k) % Word
  <2>1. /\ fed \in Nat /\ k \in Nat /\ fed + k <= MaxFed /\ digest = NoDigest
        /\ fed' = fed + k /\ ctx' = md5_update(ctx, input)
    BY <1>3, BlockAssumption DEF Update, TypeOK
  <2>2. input \in Seq(Byte) /\ Len(input) = k  BY <2>1, InputType
  <2>3. t0 \in 0 .. Word - 1 /\ t1 \in Nat  BY <1>c DEF CtxType
  <2>4. t0 + Word * t1 = fed  BY <2>1 DEF CountsBytes
  <2>5. CASE k = 0
    <3>1. ctx' = ctx  BY <2>1, <2>2, <2>5 DEF md5_update
    <3> QED  BY <3>1, <2>1, <2>4, <2>5 DEF CountsBytes
  <2>6. CASE k # 0
    <3>1. ctx'.total0 = s0 /\ ctx'.total1 = t1 + Carry(s0, k)
      <4> HIDE DEF input
      <4> QED  BY <2>1, <2>2, <2>6 DEF md5_update, AddTotal
    <3> HIDE DEF t0, t1
    <3>2. k \in 0 .. Word - 1  BY <1>w, <2>1
    <3>3. /\ s0 < k => t0 + k = Word + s0
          /\ s0 >= k => t0 + k = s0
      BY <1>w, <2>3, <3>2, WrapSeen
    <3>4. s0 \in 0 .. Word - 1
      <4>1. t0 + k \in Int /\ Word \in Nat \ {0}  BY <1>w, <2>3, <3>2
      <4> QED  BY <4>1, ModRange
    <3> HIDE DEF s0
    <3>5. Word * (t1 + 1) = Word * t1 + Word  BY <1>w, <2>3
    <3>6. Word * t1 \in Int  BY <1>w, <2>3
    <3>7. s0 + Word * (t1 + Carry(s0, k)) = fed + k
      <4>1. CASE s0 < k
        <5>1. Carry(s0, k) = 1  BY <4>1 DEF Carry
        <5> DEFINE m == Word * t1
                   n == Word * (t1 + 1)
        <5>2. n = m + Word /\ m \in Int /\ t0 + m = fed  BY <3>5, <3>6, <2>4
        <5> HIDE DEF m, n
        <5>3. s0 + n = fed + k  BY <5>2, <4>1, <3>3, <3>4, <2>3, <1>w, <3>2
        <5> QED  BY <5>1, <5>3 DEF n
      <4>2. CASE ~ (s0 < k)
        <5>1. Carry(s0, k) = 0  BY <4>2 DEF Carry
        <5> DEFINE m == Word * t1
        <5>2. m \in Int /\ t0 + m = fed  BY <3>6, <2>4
        <5>3. t1 + 0 = t1  BY <2>3
        <5> HIDE DEF m
        <5>4. s0 + m = fed + k  BY <5>2, <4>2, <3>3, <3>4, <2>3, <1>w, <3>2
        <5> QED  BY <5>1, <5>3, <5>4 DEF m
      <4> QED  BY <4>1, <4>2
    <3> QED  BY <3>1, <3>7, <2>1 DEF CountsBytes
  <2> QED  BY <2>5, <2>6
<1>4. CASE UNCHANGED vars  BY <1>4 DEF vars, CountsBytes
<1> QED  BY <1>1, <1>2, <1>3, <1>4 DEF Next

\* As long as no single update is as long as a counter word can count, the two
\* words hold the length of the message: file digests, cut into buffers of 1024
\* bytes, always meet the condition.
THEOREM NoCarryLost ==
    ASSUME MaxUpdate < Word
    PROVE  Spec => []CountsBytes
<1>1. Init => CountsBytes
  <2>1. Word \in Nat  BY WordAssumption
  <2> QED  BY <2>1 DEF Init, CountsBytes, md5_starts
<1>2. TypeOK /\ Lossless /\ CountsBytes /\ [Next]_vars => CountsBytes'
  BY CountNext
<1> QED  BY <1>1, <1>2, TypeCorrect, NoByteLost, PTL DEF Spec

-----------------------------------------------------------------------------
(* What finish returns *)

\* The number of bits of n bytes, in two digits: the words the shifts of
\* md5_finish compute are those of the whole number.
LEMMA LengthWords ==
    ASSUME NEW c, CtxType(c), NEW n \in Nat, n = c.total0 + Word * c.total1
    PROVE  LET bits == (n * BitsOf) % (Word * Word)
           IN  bits \div Word = High(c) /\ bits % Word = Low(c)
<1>1. PICK k \in 1 .. Word : Word = k * BitsOf  BY WordAssumption
<1>2. BitsOf \in Nat \ {0} /\ Word \in Nat \ {0} /\ k \in Nat \ {0}
  BY <1>1, BlockAssumption, WordAssumption
<1>3. Word \div BitsOf = k
  <2>1. Word = k * BitsOf + 0 /\ 0 \in 0 .. BitsOf - 1 /\ Word \in Int /\ k \in Int
    BY <1>1, <1>2
  <2> QED  BY <2>1, <1>2, ModUnique
<1> DEFINE t == c.total0
           v == c.total1
           q == t \div k
           r == t % k
<1>4. t \in 0 .. Word - 1 /\ v \in Nat  BY DEF CtxType
<1>5. q \in Int /\ r \in 0 .. k - 1 /\ t = q * k + r
  <2>1. t \in Int  BY <1>4
  <2> HIDE DEF t
  <2> QED  BY <2>1, <1>2, DivMod
<1> HIDE DEF t, v, q, r
<1> DEFINE low == r * BitsOf
<1>6. low \in 0 .. Word - 1
  <2>1. k * BitsOf >= r * BitsOf + BitsOf  BY <1>2, <1>5, MultiplesApart
  <2>2. r * BitsOf \in Nat
    <3>1. CASE r = 0  BY <3>1, <1>2
    <3>2. CASE r > 0
      <4>1. r * BitsOf >= 0 * BitsOf + BitsOf  BY <3>2, <1>2, <1>5, MultiplesApart
      <4> QED  BY <4>1, <1>2, <1>5
    <3> QED  BY <3>1, <3>2, <1>5
  <2> HIDE DEF low
  <2>3. low \in Nat /\ Word >= low + BitsOf  BY <2>1, <2>2, <1>1 DEF low
  <2> QED  BY <2>3, <1>2
<1>7. t * BitsOf = q * Word + low
  <2>1. t * BitsOf = (q * k) * BitsOf + r * BitsOf  BY <1>2, <1>5
  <2>2. (q * k) * BitsOf = q * (k * BitsOf)  BY <1>2, <1>5
  <2> QED  BY <2>1, <2>2, <1>1
<1> HIDE DEF low
<1>8. (t * BitsOf) % Word = low
  <2> DEFINE x == t * BitsOf
  <2>1. x \in Int /\ x = q * Word + low  BY <1>2, <1>4, <1>7
  <2> HIDE DEF x
  <2>2. x % Word = low  BY <2>1, <1>2, <1>5, <1>6, ModUnique
  <2> QED  BY <2>2 DEF x
<1> DEFINE s == q + v * BitsOf
           p == s \div Word
           high == s % Word
<1>9. s \in Int  BY <1>2, <1>4, <1>5
<1>10. n * BitsOf = s * Word + low
  <2>1. n * BitsOf = t * BitsOf + (Word * v) * BitsOf  BY <1>2, <1>4 DEF t, v
  <2>2. (Word * v) * BitsOf = (v * BitsOf) * Word  BY <1>2, <1>4
  <2> DEFINE g == v * BitsOf
  <2>3. g \in Int  BY <1>2, <1>4
  <2> HIDE DEF g
  <2>4. (q + g) * Word = q * Word + g * Word  BY <2>3, <1>2, <1>5
  <2>5. q * Word \in Int /\ g * Word \in Int /\ low \in Int  BY <2>3, <1>2, <1>5, <1>6
  <2>6. n * BitsOf = (q * Word + low) + g * Word  BY <2>1, <2>2, <1>7 DEF g
  <2> QED  BY <2>4, <2>5, <2>6 DEF g
<1> HIDE DEF s
<1>11. p \in Int /\ high \in 0 .. Word - 1 /\ s = p * Word + high
  BY <1>2, <1>9, DivMod
<1> HIDE DEF p, high
<1>12. /\ Word * Word \in Nat \ {0}
       /\ high * Word + low \in 0 .. Word * Word - 1
       /\ (high * Word + low) \div Word = high
       /\ (high * Word + low) % Word = low
  BY <1>2, <1>6, <1>11, TwoDigits
<1>13. n * BitsOf = p * (Word * Word) + (high * Word + low)
  <2>1. s * Word = p * (Word * Word) + high * Word  BY <1>2, <1>11
  <2> QED  BY <2>1, <1>10, <1>2, <1>6, <1>11
<1>14. (n * BitsOf) % (Word * Word) = high * Word + low
  <2> DEFINE x == n * BitsOf
             m == Word * Word
             y == high * Word + low
  <2>1. /\ x \in Int /\ m \in Nat \ {0} /\ y \in 0 .. m - 1 /\ p \in Int
        /\ x = p * m + y
    BY <1>2, <1>11, <1>12, <1>13
  <2> HIDE DEF x, m, y
  <2>2. x % m = y  BY <2>1, ModUnique
  <2> QED  BY <2>2 DEF x, m, y
<1>15. Low(c) = low  BY <1>8 DEF Low, t
<1>16. High(c) = high  BY <1>3 DEF High, high, s, q, t, v
<1> QED  BY <1>12, <1>14, <1>15, <1>16

\* padn - 1 is the number of zeros of the standard, the only one below B.
LEMMA FewestZeros ==
    ASSUME NEW n \in Nat, NEW left \in 0 .. B - 1, n % B = left
    PROVE  (CHOOSE z \in 0 .. B - 1 : (n + 1 + z + L) % B = 0) = PadLength(left) - 1
<1>b. B \in Nat \ {0} /\ L \in Nat  BY BlockAssumption
<1> DEFINE w == PadLength(left) - 1
<1>1. w \in 0 .. B - 1
      /\ (left + 1 + w + L = B \/ left + 1 + w + L = 2 * B)
  BY <1>b, PadLengthFits
<1> HIDE DEF w
<1> DEFINE a == 1 + w + L
<1>2. (n + a) % B = (left + a) % B
  <2>1. a \in Int  BY <1>1, <1>b
  <2> HIDE DEF a
  <2>2. (n + a) % B = ((n % B) + a) % B
    <3>1. B \in Nat \ {0} /\ n \in Int  BY <1>b
    <3> QED  BY <2>1, <3>1, ModSum
  <2> QED  BY <2>2
<1>3. (left + a) % B = 0
  <2> DEFINE x == left + a
  <2>1. /\ x \in Int /\ 0 \in 0 .. B - 1 /\ B \in Nat \ {0}
        /\ x = 1 * B + 0 \/ x = 2 * B + 0
    BY <1>1, <1>b
  <2> HIDE DEF x
  <2>2. x % B = 0  BY <2>1, ModUnique
  <2> QED  BY <2>2 DEF x
<1>4. (n + 1 + w + L) % B = 0
  <2>1. n + 1 + w + L = n + a  BY <1>1, <1>b
  <2> QED  BY <2>1, <1>2, <1>3
<1>5. ASSUME NEW z \in 0 .. B - 1, (n + 1 + z + L) % B = 0
      PROVE  z = w
  <2> DEFINE x == n + 1 + L
  <2>1. /\ x \in Int /\ n + 1 + z + L = x + z /\ n + 1 + w + L = x + w
        /\ B \in Nat \ {0}
    BY <1>1, <1>b
  <2> HIDE DEF x
  <2>2. (x + z) % B = (x + w) % B  BY <2>1, <1>4, <1>5
  <2> QED  BY <2>1, <2>2, <1>1, ModCancel
<1> QED  BY <1>1, <1>4, <1>5 DEF w

LEMMA MessageType ==
    ASSUME NEW n \in 0 .. MaxFed
    PROVE  /\ Message(n) \in Seq(Byte) /\ Len(Message(n)) = n
           /\ \A i \in 1 .. n : Message(n)[i] = Data[i]
<1>1. \A i \in 1 .. n : Data[i] \in Byte  BY BlockAssumption DEF Byte
<1> QED  BY <1>1, BlockAssumption DEF Message

\* The padded message, byte by byte.
LEMMA PaddedBytes ==
    ASSUME NEW c, CtxType(c), NEW n \in 0 .. MaxFed, n = c.total0 + Word * c.total1,
           NEW left \in 0 .. B - 1, n % B = left
    PROVE  LET padn == PadLength(left)
           IN  /\ Padded(Message(n)) \in Seq(Byte)
               /\ Len(Padded(Message(n))) = n + padn + L
               /\ \A i \in 1 .. n + padn + L : Padded(Message(n))[i] =
                     IF i <= n THEN Data[i]
                     ELSE IF i <= n + padn THEN PadByte(IF i = n + 1 THEN 128 ELSE 0)
                     ELSE LengthField(High(c), Low(c))[i - n - padn]
<1>b. L \in Nat /\ B \in Nat \ {0} /\ n \in Nat  BY BlockAssumption
<1> DEFINE padn  == PadLength(left)
           msg   == Message(n)
           one   == <<PadByte(128)>>
           zeros == [i \in 1 .. padn - 1 |-> PadByte(0)]
           field == LengthField(High(c), Low(c))
<1>1. padn \in 1 .. B  BY PadLengthFits
<1>2. /\ msg \in Seq(Byte) /\ Len(msg) = n
      /\ \A i \in 1 .. n : msg[i] = Data[i]
  BY MessageType
<1>3. PadByte(128) \in Byte /\ PadByte(0) \in Byte  BY DEF Byte
<1>4. one \in Seq(Byte) /\ Len(one) = 1 /\ one[1] = PadByte(128)  BY <1>3
<1>5. zeros \in Seq(Byte) /\ Len(zeros) = padn - 1
      /\ \A i \in 1 .. padn - 1 : zeros[i] = PadByte(0)
  <2> HIDE DEF padn
  <2>1. padn - 1 \in Nat  BY <1>1, <1>b
  <2> QED  BY <1>3, <2>1
<1>6. field \in Seq(Byte) /\ Len(field) = L  BY HighLowType, LengthFieldType
<1>7. Padded(msg) = ((msg \o one) \o zeros) \o field
  <2> DEFINE z == CHOOSE z \in 0 .. B - 1 : (n + 1 + z + L) % B = 0
             bits == (n * BitsOf) % (Word * Word)
  <2>1. z = padn - 1  BY <1>b, FewestZeros
  <2>2. bits \div Word = High(c) /\ bits % Word = Low(c)  BY <1>b, LengthWords
  <2>3. Padded(msg) = ((msg \o one) \o [i \in 1 .. z |-> PadByte(0)])
                         \o LengthField(bits \div Word, bits % Word)
    <3> HIDE DEF msg
    <3> QED  BY <1>2 DEF Padded
  <2> HIDE DEF z, bits, msg, one
  <2> QED  BY <2>1, <2>2, <2>3
<1> HIDE DEF padn, msg, one, zeros, field
<1> DEFINE m1 == msg \o one
           m2 == m1 \o zeros
           m3 == m2 \o field
<1>8. /\ m1 \in Seq(Byte) /\ Len(m1) = n + 1
      /\ \A i \in 1 .. n + 1 : m1[i] = IF i <= n THEN msg[i] ELSE one[i - n]
  <2>1. /\ m1 \in Seq(Byte) /\ Len(m1) = Len(msg) + Len(one)
        /\ \A i \in 1 .. Len(msg) + Len(one) :
              m1[i] = IF i <= Len(msg) THEN msg[i] ELSE one[i - Len(msg)]
    BY <1>2, <1>4, ConcatProperties
  <2> HIDE DEF m1
  <2> QED  BY <2>1, <1>2, <1>4
<1> HIDE DEF m1
<1>9. /\ m2 \in Seq(Byte) /\ Len(m2) = (n + 1) + (padn - 1)
      /\ \A i \in 1 .. (n + 1) + (padn - 1) :
            m2[i] = IF i <= n + 1 THEN m1[i] ELSE zeros[i - (n + 1)]
  <2>1. /\ m2 \in Seq(Byte) /\ Len(m2) = Len(m1) + Len(zeros)
        /\ \A i \in 1 .. Len(m1) + Len(zeros) :
              m2[i] = IF i <= Len(m1) THEN m1[i] ELSE zeros[i - Len(m1)]
    BY <1>8, <1>5, ConcatProperties
  <2> HIDE DEF m2
  <2> QED  BY <2>1, <1>8, <1>5
<1> HIDE DEF m2
<1>10. (n + 1) + (padn - 1) = n + padn  BY <1>b, <1>1
<1>11. /\ m3 \in Seq(Byte) /\ Len(m3) = n + padn + L
       /\ \A i \in 1 .. n + padn + L :
             m3[i] = IF i <= n + padn THEN m2[i] ELSE field[i - (n + padn)]
  <2>1. /\ m3 \in Seq(Byte) /\ Len(m3) = Len(m2) + Len(field)
        /\ \A i \in 1 .. Len(m2) + Len(field) :
              m3[i] = IF i <= Len(m2) THEN m2[i] ELSE field[i - Len(m2)]
    BY <1>9, <1>6, ConcatProperties
  <2>2. Len(m2) = n + padn /\ Len(field) = L  BY <1>9, <1>10, <1>6
  <2> HIDE DEF m3
  <2> QED  BY <2>1, <2>2
<1> HIDE DEF m3
<1>12. ASSUME NEW i \in 1 .. n + padn + L
       PROVE  m3[i] = IF i <= n THEN Data[i]
                      ELSE IF i <= n + padn THEN PadByte(IF i = n + 1 THEN 128 ELSE 0)
                      ELSE field[i - n - padn]
  <2>0. i \in Nat /\ 1 <= i  BY <1>b, <1>1
  <2>1. CASE i <= n
    <3>1. /\ i \in 1 .. n /\ i \in 1 .. n + 1 /\ i \in 1 .. n + padn
          /\ i <= n + 1 /\ i <= n + padn
      BY <2>0, <2>1, <1>b, <1>1
    <3> QED  BY <3>1, <2>1, <1>2, <1>8, <1>9, <1>10, <1>11
  <2>2. CASE i = n + 1
    <3>1. /\ i \in 1 .. n + 1 /\ i \in 1 .. n + padn /\ i - n = 1
          /\ i <= n + 1 /\ i <= n + padn /\ ~ (i <= n)
      BY <2>0, <2>2, <1>b, <1>1
    <3> QED  BY <3>1, <2>2, <1>4, <1>8, <1>9, <1>10, <1>11
  <2>3. CASE n + 1 < i /\ i <= n + padn
    <3>1. /\ i \in 1 .. n + padn /\ i - (n + 1) \in 1 .. padn - 1
          /\ ~ (i <= n + 1) /\ ~ (i <= n) /\ i # n + 1
      BY <2>0, <2>3, <1>b, <1>1
    <3> QED  BY <3>1, <2>3, <1>5, <1>9, <1>10, <1>11
  <2>4. CASE n + padn < i
    <3>1. ~ (i <= n + padn) /\ ~ (i <= n) /\ i - (n + padn) = i - n - padn
      BY <2>0, <2>4, <1>b, <1>1
    <3> QED  BY <3>1, <1>11
  <2>5. i <= n \/ i = n + 1 \/ (n + 1 < i /\ i <= n + padn) \/ n + padn < i
    BY <2>0, <1>b, <1>1
  <2> QED  BY <2>1, <2>2, <2>3, <2>4, <2>5
<1>13. Padded(msg) = m3  BY <1>7 DEF m1, m2, m3
<1> QED  BY <1>11, <1>12, <1>13 DEF padn, msg, field

LEMMA DigestNext ==
    TypeOK /\ Lossless /\ CountsBytes /\ DigestOfPaddedMessage /\ [Next]_vars
        => DigestOfPaddedMessage'
<1> SUFFICES ASSUME TypeOK, Lossless, CountsBytes, DigestOfPaddedMessage, [Next]_vars
             PROVE  DigestOfPaddedMessage'
  OBVIOUS
<1>1. CASE Starts  BY <1>1 DEF Starts, DigestOfPaddedMessage
<1>2. CASE Finish
  <2> DEFINE u == md5_finish(ctx)
             seen == Len(ctx.stream)
             left == ctx.total0 % B
             padn == PadLength(left)
             field == LengthField(High(ctx), Low(ctx))
             ref == Padded(Message(fed))
  <2>1. digest = NoDigest /\ digest' = u.stream /\ fed' = fed
    BY <1>2 DEF Finish
  <2>2. CtxType(ctx) /\ fed \in 0 .. MaxFed  BY DEF TypeOK, CtxType
  <2>3. /\ CtxType(u)
        /\ left \in 0 .. B - 1
        /\ Len(u.stream) = seen + left + padn + L
        /\ \A i \in 1 .. Len(u.stream) : u.stream[i] =
              IF i <= seen THEN ctx.stream[i]
              ELSE IF i <= seen + left THEN ctx.buffer[i - seen]
              ELSE IF i <= seen + left + padn
                   THEN PadByte(IF i = seen + left + 1 THEN 128 ELSE 0)
              ELSE field[i - seen - left - padn]
    BY <2>2, FinishEffect
  <2>4. /\ seen <= fed /\ fed - seen = left
        /\ \A i \in 1 .. seen : ctx.stream[i] = Data[i]
        /\ \A i \in 1 .. fed - seen : ctx.buffer[i] = Data[seen + i]
        /\ fed = ctx.total0 + Word * ctx.total1
    BY <2>1 DEF Lossless, CountsBytes
  <2>5. fed % B = left
    <3>1. PICK k \in 1 .. Word : Word = k * B  BY WordAssumption
    <3> DEFINE t == ctx.total0
               j == k * ctx.total1
    <3>2. t \in Int /\ j \in Int /\ B \in Nat \ {0} /\ ctx.total1 \in Int /\ k \in Int
      BY <2>2, BlockAssumption DEF CtxType
    <3>3. Word * ctx.total1 = j * B  BY <3>1, <3>2
    <3>4. fed = t + j * B  BY <3>3, <2>4
    <3> HIDE DEF t, j
    <3>5. (t + j * B) % B = t % B  BY <3>2, ModAddMultiple
    <3> QED  BY <3>4, <3>5 DEF t
  <2>6. /\ ref \in Seq(Byte)
        /\ Len(ref) = fed + padn + L
        /\ \A i \in 1 .. fed + padn + L : ref[i] =
              IF i <= fed THEN Data[i]
              ELSE IF i <= fed + padn THEN PadByte(IF i = fed + 1 THEN 128 ELSE 0)
              ELSE field[i - fed - padn]
    <3> HIDE DEF left
    <3> QED  BY <2>2, <2>3, <2>4, <2>5, PaddedBytes
  <2>7. seen \in Nat /\ padn \in Nat /\ L \in Nat /\ left \in Nat /\ fed \in Nat
    <3>1. padn \in 1 .. B  BY <2>3, PadLengthFits
    <3> HIDE DEF padn, left
    <3> QED  BY <3>1, <2>2, <2>3, BlockAssumption DEF CtxType
  <2> HIDE DEF u, seen, left, padn, field, ref
  <2>8. seen + left = fed  BY <2>4, <2>7
  <2>9. Len(u.stream) = Len(ref) /\ Len(ref) = fed + padn + L
    BY <2>3, <2>6, <2>7, <2>8
  <2>10. ASSUME NEW i \in 1 .. Len(ref) PROVE u.stream[i] = ref[i]
    <3>0. i \in Nat /\ 1 <= i /\ i \in 1 .. fed + padn + L /\ i \in 1 .. Len(u.stream)
      BY <2>7, <2>9
    <3>1. CASE i <= seen
      <4>1. i <= fed /\ i \in 1 .. seen  BY <3>0, <3>1, <2>7, <2>8
      <4> QED  BY <4>1, <3>0, <3>1, <2>3, <2>4, <2>6
    <3>2. CASE seen < i /\ i <= fed
      <4>1. i - seen \in 1 .. fed - seen /\ seen + (i - seen) = i /\ ~ (i <= seen)
            /\ i <= seen + left
        BY <3>0, <3>2, <2>7, <2>8
      <4>2. ctx.buffer[i - seen] = Data[i]  BY <4>1, <2>4
      <4> QED  BY <4>1, <4>2, <3>0, <3>2, <2>3, <2>6
    <3>3. CASE fed < i
      <4>1. ~ (i <= seen) /\ ~ (i <= seen + left) /\ ~ (i <= fed)
            /\ seen + left + padn = fed + padn /\ seen + left + 1 = fed + 1
            /\ i - seen - left - padn = i - fed - padn
        BY <3>0, <3>3, <2>7, <2>8
      <4> QED  BY <4>1, <3>0, <2>3, <2>6
    <3> QED  BY <3>0, <3>1, <3>2, <3>3, <2>7
  <2>11. u.stream \in Seq(Byte)  BY <2>3 DEF CtxType
  <2>12. u.stream = ref  BY <2>6, <2>9, <2>10, <2>11, SeqEqual
  <2> QED  BY <2>12, <2>1 DEF DigestOfPaddedMessage, ref
<1>3. ASSUME NEW k \in 0 .. MaxUpdate, Update(k) PROVE DigestOfPaddedMessage'
  BY <1>3 DEF Update, DigestOfPaddedMessage
<1>4. CASE UNCHANGED vars  BY <1>4 DEF vars, DigestOfPaddedMessage
<1> QED  BY <1>1, <1>2, <1>3, <1>4 DEF Next

\* What the compression function has been given when finish returns is the
\* message padded as RFC 1321 and FIPS 180-2 say.
THEOREM DigestIsStandard ==
    ASSUME MaxUpdate < Word
    PROVE  Spec => []DigestOfPaddedMessage
<1>1. Init => DigestOfPaddedMessage  BY DEF Init, DigestOfPaddedMessage
<1>2. TypeOK /\ Lossless /\ CountsBytes /\ DigestOfPaddedMessage /\ [Next]_vars
          => DigestOfPaddedMessage'
  BY DigestNext
<1>3. Spec => []CountsBytes  BY NoCarryLost
<1> QED  BY <1>1, <1>2, <1>3, TypeCorrect, NoByteLost, PTL DEF Spec

-----------------------------------------------------------------------------
(* Refinement *)

\* Between two calls the stream and the buffer together are the message.
LEMMA AbsorbedIsMessage == TypeOK /\ Lossless => Absorbed = Message(fed)
<1> SUFFICES ASSUME TypeOK, Lossless PROVE Absorbed = Message(fed)  OBVIOUS
<1>1. CASE digest # NoDigest  BY <1>1 DEF Absorbed
<1>2. CASE digest = NoDigest
  <2> DEFINE seen == Len(ctx.stream)
             left == ctx.total0 % B
             rest == SubSeq(ctx.buffer, 1, left)
             all  == ctx.stream \o rest
             msg  == Message(fed)
  <2>b. B \in Nat \ {0}  BY BlockAssumption
  <2>1. /\ seen <= fed /\ fed - seen = left
        /\ \A i \in 1 .. seen : ctx.stream[i] = Data[i]
        /\ \A i \in 1 .. fed - seen : ctx.buffer[i] = Data[seen + i]
    BY <1>2 DEF Lossless
  <2>2. /\ ctx.stream \in Seq(Byte) /\ ctx.buffer \in [1 .. B -> Byte]
        /\ ctx.total0 \in Int /\ fed \in 0 .. MaxFed /\ seen \in Nat
    BY DEF TypeOK
  <2>3. left \in 0 .. B - 1  BY <2>2, <2>b, ModRange
  <2>4. /\ msg \in Seq(Byte) /\ Len(msg) = fed
        /\ \A i \in 1 .. fed : msg[i] = Data[i]
    BY <2>2, MessageType
  <2>5. ctx.buffer \in Seq(Byte) /\ Len(ctx.buffer) = B  BY <2>2, <2>b
  <2>6. /\ rest \in Seq(Byte) /\ Len(rest) = left
        /\ \A i \in 1 .. left : rest[i] = ctx.buffer[i]
    <3> HIDE DEF left
    <3>1. /\ left \in 1 - 1 .. Len(ctx.buffer) /\ 1 \in 1 .. Len(ctx.buffer) + 1
          /\ left - 1 + 1 = left /\ \A i \in 1 .. left : 1 + i - 1 = i
      BY <2>3, <2>5, <2>b
    <3> QED  BY <2>5, <3>1, Part
  <2>7. /\ all \in Seq(Byte) /\ Len(all) = Len(ctx.stream) + Len(rest)
        /\ \A i \in 1 .. Len(ctx.stream) + Len(rest) : all[i] =
              IF i <= Len(ctx.stream) THEN ctx.stream[i] ELSE rest[i - Len(ctx.stream)]
    <3> HIDE DEF rest
    <3> QED  BY <2>2, <2>6, ConcatProperties
  <2>8. fed \in Nat /\ left \in Nat  BY <2>2, <2>3, BlockAssumption
  <2> HIDE DEF left, rest, all, msg
  <2>9. Len(all) = fed /\ Len(ctx.stream) + Len(rest) = fed
    BY <2>1, <2>2, <2>6, <2>7, <2>8
  <2>10. ASSUME NEW i \in 1 .. fed PROVE all[i] = Data[i]
    <3>1. CASE i <= seen
      <4>1. i \in 1 .. seen  BY <3>1, <2>2, <2>8
      <4> QED  BY <4>1, <3>1, <2>1, <2>7, <2>9
    <3>2. CASE ~ (i <= seen)
      <4>1. i - seen \in 1 .. left /\ i - seen \in 1 .. fed - seen /\ seen + (i - seen) = i
        BY <3>2, <2>1, <2>2, <2>8
      <4>2. ctx.buffer[i - seen] = Data[i]  BY <4>1, <2>1
      <4> QED  BY <4>1, <4>2, <3>2, <2>6, <2>7, <2>9
    <3> QED  BY <3>1, <3>2
  <2>11. all = msg  BY <2>4, <2>7, <2>9, <2>10, SeqEqual
  <2> QED  BY <1>2, <2>11 DEF Absorbed, all, rest, left, msg
<1> QED  BY <1>1, <1>2

LEMMA RefineStep ==
    ASSUME TypeOK, Lossless, TypeOK', Lossless', DigestOfPaddedMessage', [Next]_vars
    PROVE  [MD!Next]_(MD!vars)
<1>1. Absorbed = Message(fed) /\ Absorbed' = Message(fed')
  <2>1. Absorbed = Message(fed)  BY AbsorbedIsMessage
  <2>2. (TypeOK /\ Lossless => Absorbed = Message(fed))'  BY AbsorbedIsMessage, PTL
  <2>3. Message(fed)' = Message(fed')  BY DEF Message
  <2> QED  BY <2>1, <2>2, <2>3
<1>t. fed \in 0 .. MaxFed /\ fed' \in 0 .. MaxFed  BY DEF TypeOK
<1>2. CASE Starts
  <2>1. fed' = 0 /\ digest' = NoDigest  BY <1>2 DEF Starts
  <2>2. Message(0) = <<>>  BY DEF Message
  <2> QED  BY <1>1, <2>1, <2>2 DEF MD!Next, MD!Restart
<1>3. CASE Finish
  <2>1. digest = NoDigest /\ fed' = fed  BY <1>3 DEF Finish
  <2>2. digest' = Padded(Message(fed'))
    <3> DEFINE u == md5_finish(ctx)
               left == ctx.total0 % B
    <3>1. CtxType(ctx)  BY DEF TypeOK, CtxType
    <3>2. /\ CtxType(u) /\ left \in 0 .. B - 1
          /\ Len(u.stream) = Len(ctx.stream) + left + PadLength(left) + L
      BY <3>1, FinishEffect
    <3>3. Len(u.stream) > 0
      <4> HIDE DEF u, left
      <4>1. PadLength(left) \in 1 .. B  BY <3>2, PadLengthFits
      <4>2. Len(ctx.stream) \in Nat  BY <3>1 DEF CtxType
      <4> QED  BY <3>2, <4>1, <4>2, BlockAssumption
    <3>4. digest' # NoDigest  BY <3>3, <1>3 DEF Finish
    <3> QED  BY <3>4 DEF DigestOfPaddedMessage
  <2> QED  BY <1>1, <2>1, <2>2 DEF MD!Next, MD!Finish
<1>4. ASSUME NEW k \in 0 .. MaxUpdate, Update(k) PROVE MD!Absorb
  <2>1. fed' = fed + k /\ digest = NoDigest /\ digest' = NoDigest  BY <1>4 DEF Update
  <2>2. fed \in Nat /\ k \in Nat /\ fed <= fed'  BY <2>1, <1>t, BlockAssumption
  <2>3. /\ Message(fed) \in Seq(Byte) /\ Len(Message(fed)) = fed
        /\ \A i \in 1 .. fed : Message(fed)[i] = Data[i]
    BY <1>t, MessageType
  <2>4. /\ Message(fed') \in Seq(Byte) /\ Len(Message(fed')) = fed'
        /\ \A i \in 1 .. fed' : Message(fed')[i] = Data[i]
    BY <1>t, MessageType
  <2>5. SubSeq(Message(fed'), 1, fed) = Message(fed)
    <3> DEFINE m == Message(fed')
               n == Message(fed)
               p == SubSeq(m, 1, fed)
    <3>1. /\ fed \in 1 - 1 .. Len(m) /\ 1 \in 1 .. Len(m) + 1
          /\ fed - 1 + 1 = fed
          /\ \A i \in 1 .. fed : 1 + i - 1 = i /\ i \in 1 .. fed'
      BY <1>t, <2>1, <2>2, <2>4
    <3> HIDE DEF m, n
    <3>2. /\ p \in Seq(Byte) /\ Len(p) = fed
          /\ \A i \in 1 .. fed : p[i] = m[i]
      BY <2>4, <3>1, Part DEF m
    <3> HIDE DEF p
    <3>3. /\ n \in Seq(Byte) /\ Len(n) = fed
          /\ \A i \in 1 .. fed : n[i] = Data[i] /\ m[i] = Data[i]
      BY <2>3, <2>4, <3>1 DEF m, n
    <3>4. p = n  BY <3>2, <3>3, SeqEqual
    <3> QED  BY <3>4 DEF p, m, n
  <2> QED  BY <1>1, <2>1, <2>2, <2>3, <2>4, <2>5 DEF MD!Absorb
<1>5. CASE UNCHANGED vars
  <2>1. Absorbed' = Absorbed /\ digest' = digest  BY <1>1, <1>5 DEF vars
  <2> QED  BY <2>1 DEF MD!vars
<1> QED  BY <1>2, <1>3, <1>4, <1>5 DEF Next, MD!Next

\* The streaming shell implements MessageDigest: a caller that sees only the
\* bytes it passes and the sum it gets back cannot tell the buffer from a hash
\* of the whole message.
THEOREM Implements ==
    ASSUME MaxUpdate < Word
    PROVE  Spec => ImplementsMessageDigest
<1>1. Init => MD!Init
  <2> SUFFICES ASSUME Init PROVE MD!Init  OBVIOUS
  <2>1. Absorbed = Message(fed)  BY TypeInit, LosslessInit, AbsorbedIsMessage
  <2>2. Message(0) = <<>>  BY DEF Message
  <2> QED  BY <2>1, <2>2 DEF Init, MD!Init
<1>2. /\ TypeOK /\ Lossless /\ TypeOK' /\ Lossless' /\ DigestOfPaddedMessage'
      /\ [Next]_vars
      => [MD!Next]_(MD!vars)
  BY RefineStep
<1>3. Spec => []DigestOfPaddedMessage  BY DigestIsStandard
<1> QED  BY <1>1, <1>2, <1>3, TypeCorrect, NoByteLost, PTL
         DEF Spec, ImplementsMessageDigest, MD!Spec
=============================================================================
